------------------------------- MODULE Imported -------------------------------
(***************************************************************************)
(* What every format is read into and written from: a tree of folders and  *)
(* requests (interop/mod.rs), and what the HTTP engine makes of a request  *)
(* of it (engine/http.rs).  Texts are tuples of model strings; options,    *)
(* scripts and descriptions are those the formats carry or reset.  Texts   *)
(* are such that percent-encoding leaves all of them but placeholders as   *)
(* they are.                                                               *)
(***************************************************************************)
EXTENDS Naturals, Sequences, FiniteSets, SequencesExt

(* about: what a description of an interface may say of it (the name of an *)
(* API key, the URLs of OAuth2, a region).  user: the name or client it is *)
(* for.  opt: a prefix, a place, a grant type.                             *)
Auth(type, about, user, secret, opt) ==
    [type |-> type, about |-> about, user |-> user, secret |-> secret, opt |-> opt]
NoAuth == Auth("none", "", "", "", "")
Bearer(secret, prefix) == Auth("bearer", "", "", secret, prefix)
Basic(user, secret) == Auth("basic", "", user, secret, "")
ApiKey(key, secret, place) == Auth("apikey", key, "", secret, place)

(* RequestAuth *)
Inherit == [own |-> FALSE, auth |-> NoAuth]
Own(auth) == [own |-> TRUE, auth |-> auth]

Entry(key, value, on) == [key |-> key, value |-> value, on |-> on]
Field(key, value, on, file, mime) ==
    [key |-> key, value |-> value, on |-> on, file |-> file, mime |-> mime]

(* lang: the language of a raw text, or the operation of a GraphQL query.  *)
Body(mode, text, lang, list) == [mode |-> mode, text |-> text, lang |-> lang, list |-> list]
NoBody == Body("none", <<>>, "", <<>>)
Json(text) == Body("json", text, "", <<>>)
Raw(text, lang) == Body("raw", text, lang, <<>>)
UrlEncoded(list) == Body("urlencoded", <<>>, "", list)
FormData(list) == Body("formdata", <<>>, "", list)

DefaultOptions == [verify |-> TRUE, follow |-> TRUE]

(* A segment of a path is literal, a placeholder of a request ({{id}}), a  *)
(* template of a description ({id}), or a placeholder that was encoded     *)
(* (%7B%7Bid%7D%7D) and no longer is one.                                  *)
Segment(kind, name) == [kind |-> kind, name |-> name]

(* The texts that are placeholders; one of them is all there is of a host. *)
Placeholders == {"{{host}}", "{{other}}"}

(* A URL is its origin, its path and the parameters typed into it; query   *)
(* is the table beside it.                                                 *)
NewRequest(name, method, origin, path) ==
    [name |-> name, method |-> method, origin |-> origin, path |-> path, inline |-> <<>>,
     query |-> <<>>, headers |-> <<>>, body |-> NoBody, auth |-> Inherit,
     scripts |-> <<>>, options |-> DefaultOptions, kind |-> "http"]

NewNode(name, auth, requests, children) ==
    [name |-> name, auth |-> auth, requests |-> requests, children |-> children]

(* What may be absent: a sequence of one or none. *)
Present(x) == <<x>>
Absent == <<>>

Map(Op(_), seq) == [i \in DOMAIN seq |-> Op(seq[i])]
On(list) == SelectSeq(list, LAMBDA e : e.on)
Named(list) == SelectSeq(list, LAMBDA e : e.on /\ e.key # "")

-----------------------------------------------------------------------------
(* The URL of an export.  build_url_json, url_with_query and build_entry   *)
(* write what was typed when there is nothing to add to it.  Otherwise     *)
(* they read it as a URL and write that, which encodes the braces in the   *)
(* path and in what is added, not those typed into the query; and when it  *)
(* is no URL they join the two as they are.                                *)

EncodedPath(path) ==
    Map(LAMBDA s : IF s.kind = "{{}}" THEN [s EXCEPT !.kind = "%7B"] ELSE s, path)

(* A value is encoded again each time; "%25" is one encoded twice or more. *)
Encodable == Placeholders \cup {"%7B", "%25"}
EncodedText(text) ==
    Map(LAMBDA w : IF w \notin Encodable THEN w
                   ELSE IF w \in Placeholders THEN "%7B" ELSE "%25", text)

IsUrl(r) == r.origin \notin Placeholders

UrlWith(r, added) ==
    LET parsed == added # <<>> /\ IsUrl(r)
    IN  [origin |-> r.origin,
         path |-> IF parsed THEN EncodedPath(r.path) ELSE r.path,
         pairs |-> r.inline \o (IF parsed THEN Map(LAMBDA e : [e EXCEPT !.value = EncodedText(@)], added)
                                         ELSE added)]

-----------------------------------------------------------------------------

(* Every request with the folder it is in, in order. *)
RECURSIVE Requests(_)
Requests(node) ==
    Map(LAMBDA r : [folder |-> node, request |-> r], node.requests)
        \o FlattenSeq(Map(Requests, node.children))

(* collect_node reads auth as it is stored, with its secrets masked, and   *)
(* the exports of other tools' formats leave streams out.                  *)
Masked(auth) == IF auth.secret \in {"", "mask"} THEN auth ELSE [auth EXCEPT !.secret = "mask"]

RECURSIVE Collected(_)
Collected(node) ==
    NewNode(node.name, Masked(node.auth),
            Map(LAMBDA r : [r EXCEPT !.auth.auth = Masked(@)],
                SelectSeq(node.requests, LAMBDA r : r.kind = "http")),
            Map(Collected, node.children))

(* strip_unrecoverable_masks, on the way in. *)
Stripped(auth) == IF auth.secret = "mask" THEN [auth EXCEPT !.secret = ""] ELSE auth

RECURSIVE Applied(_)
Applied(node) ==
    NewNode(node.name, Stripped(node.auth),
            Map(LAMBDA r : [r EXCEPT !.auth.auth = Stripped(@)], node.requests),
            Map(Applied, node.children))

-----------------------------------------------------------------------------
(* auth::resolve: one's own, or that of the folder the request is in; the  *)
(* folders above are not asked.                                            *)
Resolved(folder, r) == IF r.auth.own THEN r.auth.auth ELSE folder.auth

BearerValue(auth) == IF auth.opt = "" THEN <<auth.secret>> ELSE <<auth.opt, auth.secret>>
BasicValue(auth) == <<"Basic", auth.user, auth.secret>>

(* The header an auth becomes (apply_auth), as the exports write it too.   *)
AuthHeader(auth) ==
    CASE auth.type = "bearer" -> <<Entry("authorization", BearerValue(auth), TRUE)>>
      [] auth.type = "basic" -> <<Entry("authorization", BasicValue(auth), TRUE)>>
      [] auth.type = "apikey" /\ auth.opt = "header" -> <<Entry(auth.about, <<auth.secret>>, TRUE)>>
      [] OTHER -> <<>>
AuthPairs(auth) ==
    IF auth.type = "apikey" /\ auth.opt = "query" THEN <<Entry(auth.about, <<auth.secret>>, TRUE)>>
    ELSE <<>>

(* graphql_payload, and the same envelope built by the exports. *)
Envelope(body) == <<"{", "query">> \o body.text \o <<body.lang>>

HasContentType(headers) == \E h \in ToSet(headers) : h.key = "content-type"

(* apply_body: the bytes, and the type unless the user gave one. *)
SentBody(body) ==
    CASE body.mode \in {"none", "json", "raw"} -> [text |-> body.text, list |-> <<>>]
      [] body.mode = "graphql" -> [text |-> Envelope(body), list |-> <<>>]
      [] body.mode = "binary" -> [text |-> <<"file">> \o body.text, list |-> <<>>]
      [] OTHER -> [text |-> <<>>, list |-> Named(body.list)]

SentType(body) ==
    CASE body.mode \in {"json", "graphql"} -> "application/json"
      [] body.mode = "binary" -> "application/octet-stream"
      [] body.mode = "urlencoded" -> "application/x-www-form-urlencoded"
      [] body.mode = "formdata" -> "multipart/form-data"
      [] OTHER -> ""

(* engine::http::send, up to the order of headers and the secrets, which   *)
(* no export carries.                                                      *)
Public(list) == Map(LAMBDA e : [e EXCEPT !.value =
                    Map(LAMBDA v : IF v \in {"mask", "secret"} THEN "" ELSE v, @)], list)

Counted(seq) == [x \in ToSet(seq) |-> Cardinality({i \in DOMAIN seq : seq[i] = x})]

Sent(folder, r) ==
    LET auth == Resolved(folder, r)
        given == Named(r.headers)
        type == IF SentType(r.body) = "" \/ (HasContentType(given) /\ r.body.mode # "formdata")
                THEN <<>> ELSE <<Entry("content-type", <<SentType(r.body)>>, TRUE)>>
    IN  [method |-> r.method, origin |-> r.origin, path |-> r.path,
         pairs |-> Public(r.inline \o Named(r.query) \o AuthPairs(auth)),
         headers |-> Counted(Public(given \o AuthHeader(auth) \o type)),
         signed |-> auth.type \in {"oauth2", "awsv4"},
         body |-> SentBody(r.body)]

AllSent(node) ==
    Map(LAMBDA r : Sent(r.folder, r.request), Requests(node))
=============================================================================
