--------------------------------- MODULE Har ---------------------------------
(***************************************************************************)
(* HTTP archives (interop/har.rs): a flat list of what was sent.  Nothing  *)
(* in it is switched off, and a request is named after its URL.            *)
(***************************************************************************)
EXTENDS Imported

IsAuthorization(h) == h.key = "authorization"
StartsWith(value, word) == Len(value) > 1 /\ value[1] = word

(* effective_parts: the auth of a request's own as a header or a parameter;*)
(* an inherited one is not written.                                        *)
OwnAuth(r) == IF r.auth.own THEN r.auth.auth ELSE NoAuth
Effective(r) ==
    [headers |-> On(r.headers) \o AuthHeader(OwnAuth(r)),
     query |-> On(r.query) \o AuthPairs(OwnAuth(r))]

(* dedup_by: of neighbours with one name, the first. *)
Deduped(headers) ==
    SelectSeq([i \in DOMAIN headers |->
                  IF i > 1 /\ headers[i - 1].key = headers[i].key
                  THEN [headers[i] EXCEPT !.on = FALSE] ELSE headers[i]], LAMBDA h : h.on)

PostData(mime, text, params, file) ==
    [mime |-> mime, text |-> text, params |-> params, file |-> file]

(* build_post_data *)
PostDataOf(body) ==
    CASE body.mode = "none" -> Absent
      [] body.mode = "json" -> Present(PostData("json", Present(body.text), Absent, Absent))
      [] body.mode = "graphql" -> Present(PostData("json", Present(Envelope(body)), Absent, Absent))
      [] body.mode = "raw" ->
            Present(PostData(IF body.lang \in {"xml", "html"} THEN body.lang ELSE "plain",
                             Present(body.text), Absent, Absent))
      [] body.mode \in {"urlencoded", "formdata"} ->
            Present(PostData(body.mode, Absent, Present(On(body.list)), Absent))
      [] body.mode = "binary" -> Present(PostData("octet-stream", Absent, Absent, Present(body.text)))

(* build_entry: the table is always there, and the URL has what was typed  *)
(* into it too.                                                            *)
EntryOf(r) ==
    LET url == UrlWith(r, Effective(r).query)
    IN  [method |-> r.method, origin |-> url.origin, path |-> url.path,
         pairs |-> url.pairs, table |-> Present(Effective(r).query),
         headers |-> Deduped(Effective(r).headers), post |-> PostDataOf(r.body)]

(* collect_entries *)
RECURSIVE HarOf(_)
HarOf(node) == Map(EntryOf, node.requests) \o FlattenSeq(Map(HarOf, node.children))

(* parse_post_data: a form that is not a list is split from its text; the  *)
(* path of a file is not read.                                             *)
FromPostData(post) ==
    LET text == IF post.text = Absent THEN <<>> ELSE post.text[1]
        params == IF post.params = Absent THEN <<>> ELSE post.params[1]
        FieldOf(p) == IF p.file THEN Field(p.key, <<>>, TRUE, TRUE, p.mime)
                      ELSE Field(p.key, p.value, TRUE, FALSE, p.mime)
    IN  CASE post.mime = "json" -> Json(text)
          [] post.mime = "urlencoded" ->
                UrlEncoded(IF post.params = Absent /\ text # <<>>
                           THEN <<Entry(text[1], Tail(text), TRUE)>> ELSE params)
          [] post.mime = "formdata" -> FormData(Map(FieldOf, params))
          [] post.mime \notin {"json", "urlencoded", "formdata"} /\ post.text # Absent ->
                Raw(text, post.mime)
          [] post.mime \notin {"json", "urlencoded", "formdata"} /\ post.text = Absent ->
                IF post.file = Absent THEN NoBody ELSE Body("binary", post.file[1], "", <<>>)

(* parse_request: credentials leave the headers for the auth; a bearer     *)
(* token becomes the auth and stays among the headers as well.             *)
SplitAuth(headers) ==
    LET at == SelectInSeq(headers, IsAuthorization)
        value == headers[at].value
    IN  IF at > 0 /\ StartsWith(value, "Basic")
        THEN [headers |-> RemoveAt(headers, at), auth |-> Own(Basic(value[2], value[3]))]
        ELSE IF at > 0 /\ StartsWith(value, "Bearer")
        THEN [headers |-> headers, auth |-> Own(Bearer(value[2], "Bearer"))]
        ELSE [headers |-> headers, auth |-> Inherit]

(* split_url: the table, or else what is in the URL. *)
FromEntry(e) ==
    [NewRequest("", e.method, e.origin, e.path) EXCEPT
        !.query = IF e.table = Absent THEN e.pairs ELSE e.table[1],
        !.headers = SplitAuth(e.headers).headers, !.auth = SplitAuth(e.headers).auth,
        !.body = IF e.post = Absent THEN NoBody ELSE FromPostData(e.post[1])]

FromHar(har) == NewNode("Imported HAR", NoAuth, Map(FromEntry, har), <<>>)
=============================================================================
