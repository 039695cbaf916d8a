------------------------------- MODULE Postman -------------------------------
(***************************************************************************)
(* Postman collections (interop/postman.rs): a document is a tree of items *)
(* in which auth and the table of parameters may be absent.                *)
(***************************************************************************)
EXTENDS Imported

(* auth_to_json and parse_auth: no prefix of a bearer token and no PKCE.   *)
AuthJson(auth) ==
    CASE auth.type = "bearer" -> [auth EXCEPT !.opt = ""]
      [] auth.type = "oauth2" /\ auth.opt = "code+pkce" -> [auth EXCEPT !.opt = "code"]
      [] OTHER -> auth
ParseAuth(json) ==
    CASE json = Absent -> NoAuth
      [] json # Absent /\ json[1].type = "bearer" -> [json[1] EXCEPT !.opt = "Bearer"]
      [] json # Absent /\ json[1].type \in {"none", "basic", "apikey", "oauth2", "awsv4"} -> json[1]
      [] OTHER -> NoAuth

(* build_url_json: raw, which the path is read from again, and the table   *)
(* when there is one.                                                      *)
UrlJson(r) ==
    LET raw == UrlWith(r, On(r.query))
    IN  [origin |-> raw.origin, path |-> raw.path, pairs |-> raw.pairs, query |-> r.query]

(* Mistake: the table and what raw has are both taken. *)
ParseQueryBoth(url) == url.query \o url.pairs

(* parse_url: the table, or else what raw has. *)
ParseQuery(url) == IF url.query # <<>> THEN url.query ELSE url.pairs

(* A body says its mode, or not ("none"), and has data under one key, or   *)
(* under several if it was written by hand.  The key "file" is "binary".   *)
BodyDoc(mode, data) == [mode |-> mode, data |-> data]
Tagged(body) == BodyDoc(body.mode, {body})

(* build_body_json *)
BodyJson(body) ==
    Tagged(CASE body.mode = "json" -> Body("raw", body.text, "json", <<>>)
             [] body.mode = "graphql" -> [body EXCEPT !.lang = ""]
             [] body.mode = "formdata" ->
                   [body EXCEPT !.list =
                       Map(LAMBDA f : IF f.file THEN [f EXCEPT !.mime = ""] ELSE f, @)]
             [] OTHER -> body)

(* infer_body_mode: the first of the keys that has data. *)
InferredMode(data) ==
    LET Populated(mode) ==
            \E d \in data : d.mode = mode /\ (d.text # <<>> \/ d.list # <<>>)
        modes == SelectSeq(<<"raw", "urlencoded", "formdata", "graphql", "binary">>, Populated)
    IN  IF modes = <<>> THEN "none" ELSE modes[1]

(* parse_body *)
ParseBody(json) ==
    LET mode == IF json.mode = "none" THEN InferredMode(json.data) ELSE json.mode
        found == {d \in json.data : d.mode = mode}
        body == IF found = {} THEN Body(mode, <<>>, "", <<>>) ELSE CHOOSE d \in found : TRUE
    IN  IF mode = "raw" /\ body.lang = "json" THEN Json(body.text) ELSE body

RequestJson(r) ==
    [name |-> r.name, method |-> r.method, url |-> UrlJson(r), headers |-> r.headers,
     body |-> BodyJson(r.body), scripts |-> r.scripts,
     auth |-> IF r.auth.own THEN Present(AuthJson(r.auth.auth)) ELSE Absent]

ParseRequest(json) ==
    [NewRequest(json.name, json.method, json.url.origin, json.url.path) EXCEPT
        !.query = ParseQuery(json.url), !.headers = json.headers, !.body = ParseBody(json.body),
        !.scripts = json.scripts,
        !.auth = IF json.auth = Absent THEN Inherit ELSE Own(ParseAuth(json.auth))]

(* build_items and parse_items: an item with a request is one, any other   *)
(* is a folder.                                                            *)
RECURSIVE PostmanOf(_)
PostmanOf(node) ==
    [name |-> node.name, auth |-> Present(AuthJson(node.auth)),
     requests |-> Map(RequestJson, node.requests), folders |-> Map(PostmanOf, node.children)]

RECURSIVE FromPostman(_)
FromPostman(json) ==
    NewNode(json.name, ParseAuth(json.auth),
            Map(ParseRequest, json.requests), Map(FromPostman, json.folders))
=============================================================================
