------------------------------ MODULE Insomnia ------------------------------
(***************************************************************************)
(* Exports of Insomnia (interop/insomnia.rs): a flat list of resources,    *)
(* each naming its parent.                                                 *)
(***************************************************************************)
EXTENDS Imported

Resource(type, id, parent, auth, request) ==
    [type |-> type, id |-> id, parent |-> parent, auth |-> auth, request |-> request]

(* parse_auth: of the kinds there are, or none. *)
InsomniaAuth(auth) ==
    IF auth # Absent /\ auth[1].type \in {"bearer", "basic", "apikey", "oauth2", "awsv4"}
    THEN IF auth[1].type = "bearer" THEN [auth[1] EXCEPT !.opt = "Bearer"] ELSE auth[1]
    ELSE NoAuth

(* parse_body: its type decides, and text without a type is kept. *)
InsomniaBody(body) ==
    CASE body.mode = "" -> IF body.text # <<>> THEN Raw(body.text, "") ELSE NoBody
      [] body.mode = "formdata" ->
            [body EXCEPT !.list = Map(LAMBDA f : IF f.file THEN [f EXCEPT !.value = <<>>] ELSE f, @)]
      [] OTHER -> body

(* parse_request and parse_url: the table of the URL, and never what was   *)
(* typed into it; an auth that is there is the request's own.              *)
InsomniaRequest(resource) ==
    LET r == resource.request
    IN  [NewRequest(resource.id, r.method, r.origin, r.path) EXCEPT
            !.query = r.query, !.headers = SelectSeq(r.headers, LAMBDA h : h.key # ""),
            !.body = InsomniaBody(r.body), !.scripts = r.scripts,
            !.auth = IF resource.auth = Absent THEN Inherit ELSE Own(InsomniaAuth(resource.auth))]

(* Mistake: what names no parent is left out everywhere. *)
BelongsStrictly(resource, id, isRoot) == resource.parent = Present(id)

(* What names no parent belongs to the workspace. *)
Belongs(resource, id, isRoot) ==
    IF resource.parent = Absent THEN isRoot ELSE resource.parent[1] = id

(* build_node *)
RECURSIVE BuildNode(_, _, _, _)
BuildNode(resources, id, isRoot, auth) ==
    LET Inside(type) ==
            SelectSeq(resources, LAMBDA r : Belongs(r, id, isRoot) /\ r.type = type)
    IN  NewNode(id, InsomniaAuth(auth), Map(InsomniaRequest, Inside("request")),
                Map(LAMBDA g : BuildNode(resources, g.id, FALSE, g.auth), Inside("group")))

(* parse: from the first workspace; without one the file is refused. *)
FromInsomnia(resources) ==
    LET workspace == SelectSeq(resources, LAMBDA r : r.type = "workspace")[1]
    IN  BuildNode(resources, workspace.id, TRUE, workspace.auth)
=============================================================================
