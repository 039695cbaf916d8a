------------------------------- MODULE Interop -------------------------------
(***************************************************************************)
(* Collections that leave as files and come back as files                  *)
(* (commands/interop.rs over interop/mod.rs and the formats).  The tree is *)
(* the collection at hand; where it is put among others, and what is done  *)
(* with namesakes, is the library's.                                       *)
(***************************************************************************)
EXTENDS Postman, OpenApi, Har, Curl, Insomnia, Bruno, HttpFile

CONSTANTS
    Nodes,      \* the collections at the start
    Files       \* files of others, each a format and its document

VARIABLES
    node,       \* the collection
    file        \* the file at hand: its format, its document, and the
                \* collection that was written into it if it is our own

vars == <<node, file>>

Exports == {"postman", "curl", "openapi", "har"}
NoFile == [format |-> "none", doc |-> <<>>, own |-> Absent]

(* interop::export: what the other tools have no use for is stripped off. *)
Document(format, tree) ==
    CASE format = "postman" -> PostmanOf(tree)
      [] format = "curl" -> CurlOf(tree)
      [] format = "openapi" -> OpenApiOf(tree)
      [] format = "har" -> HarOf(tree)

(* interop::parse *)
Parsed(f) ==
    CASE f.format = "postman" -> FromPostman(f.doc)
      [] f.format = "curl" -> FromCurl(f.doc)
      [] f.format = "openapi" -> FromOpenApi(f.doc)
      [] f.format = "har" -> FromHar(f.doc)
      [] f.format = "insomnia" -> FromInsomnia(f.doc)
      [] f.format = "bruno" -> FromBruno(f.doc)
      [] f.format = "http" -> FromHttpFile(f.doc)

(* What is refused: a command without a URL, resources without a workspace *)
(* and lines without a request.                                            *)
Readable(f) ==
    CASE f.format = "curl" -> CurlUrl(f.doc) # Absent
      [] f.format = "insomnia" -> \E i \in DOMAIN f.doc : f.doc[i].type = "workspace"
      [] f.format = "http" -> FromHttpFile(f.doc).requests # <<>>
      [] OTHER -> f.format # "none"

-----------------------------------------------------------------------------

Init == node \in Nodes /\ file = NoFile

(* export_collection and export_request; two formats have nothing to say   *)
(* of a collection without requests.                                       *)
Export(format) ==
    /\ file = NoFile
    /\ format \in {"curl", "har"} => Requests(Collected(node)) # <<>>
    /\ file' = [format |-> format, doc |-> Document(format, Collected(node)),
                own |-> Present(Collected(node))]
    /\ UNCHANGED node

(* A file of another tool is chosen; a directory is listed in any order.   *)
Choose(f) ==
    /\ file = NoFile
    /\ file' = [format |-> f.format, doc |-> f.doc, own |-> Absent]
    /\ UNCHANGED node

(* preview_import and apply_collection_import *)
Import ==
    /\ file # NoFile
    /\ Readable(file)
    /\ node' = Applied(Parsed(file))
    /\ file' = NoFile

(* An error of the preview: nothing is imported. *)
Refuse ==
    /\ file # NoFile
    /\ ~Readable(file)
    /\ file' = NoFile
    /\ UNCHANGED node

Next ==
    \/ \E format \in Exports : Export(format)
    \/ \E i \in DOMAIN Files : Choose(Files[i])
    \/ Import
    \/ Refuse

Spec == Init /\ [][Next]_vars

-----------------------------------------------------------------------------

ImportOf(format) == file.format = format /\ file.own # Absent /\ Readable(file) /\ file' = NoFile

FilesKept(list) == \A i \in DOMAIN list : ~list[i].file /\ list[i].mime = ""
Unwritten(auth) == auth.type \in {"oauth2", "awsv4"}
Neighbours(headers) == \E i \in 2..Len(headers) : headers[i - 1].key = headers[i].key

(* The parameters that each format writes into the URL. *)
Added(format, r) == IF format = "har" THEN Effective(r).query ELSE On(r.query)

(* A placeholder that the URL of an export has encoded, so that nothing is *)
(* put in its place any more: of a path that parameters are added to, and, *)
(* where there is no table beside the URL, of those parameters.            *)
Broken(format, r) ==
    LET added == Added(format, r)
    IN  \/ UrlWith(r, added).path # r.path
        \/ /\ format = "curl" /\ IsUrl(r)
           /\ \E e \in ToSet(added) : ToSet(e.value) \cap Encodable # {}

(* The features that a format has no place for, or that are known to come  *)
(* back otherwise, as far as they change what is sent.                     *)
Beyond(format, folder, r) ==
    LET auth == Resolved(folder, r)
        json == r.body.mode \in {"json", "graphql"}
    IN  CASE Broken(format, r) -> TRUE
          [] format = "postman" ->
                \/ r.inline # <<>> /\ r.query # <<>>
                \/ auth.type = "bearer" /\ auth.opt # "Bearer"
                \/ r.body.mode = "raw" /\ r.body.lang = "json"
                \/ r.body.mode = "graphql" /\ r.body.lang # ""
                \/ r.body.mode = "formdata" /\ ~FilesKept(r.body.list)
          [] format = "har" ->
                \/ r.inline # <<>>
                \/ ~r.auth.own /\ auth # NoAuth
                \/ Unwritten(auth) \/ auth.type = "bearer"
                \/ \E h \in ToSet(On(r.headers)) : h.key = "authorization"
                \/ Neighbours(On(r.headers))
                \/ r.body.mode = "formdata" /\ ~FilesKept(r.body.list)
          [] format = "curl" ->
                \/ ~r.auth.own /\ auth # NoAuth
                \/ Unwritten(auth) \/ AuthPairs(auth) # <<>>
                \/ json /\ HasContentType(r.headers) /\ ~HasContentType(On(r.headers))
                \/ r.body.mode = "raw" /\ ~HasContentType(On(r.headers))
                \/ r.body.mode = "binary"
                \/ r.body.mode = "formdata" /\ ~FilesKept(r.body.list)
          [] OTHER -> TRUE


(* A second trip through a format changes nothing that the first did not.  *)
(* (postman.rs)  Excepted is a parameter typed behind a placeholder: the   *)
(* first trip moves it into the table, and so the second encodes the path. *)
TwiceIsOnce ==
    [][ImportOf("postman") =>
          LET once == Requests(node')
              twice == Requests(Applied(FromPostman(PostmanOf(Collected(node')))))
              typed == Requests(file.own[1])
          IN  /\ Len(twice) = Len(once)
              /\ \A i \in DOMAIN once :
                    \/ /\ Broken("postman", once[i].request)
                       /\ typed[i].request.inline # <<>>
                    \/ Sent(twice[i].folder, twice[i].request)
                          = Sent(once[i].folder, once[i].request)]_vars

(* The folders from the root to each request, in the order of Requests. *)
RECURSIVE Ways(_, _)
Ways(tree, above) ==
    Map(LAMBDA r : above \cup {tree.auth}, tree.requests)
        \o FlattenSeq(Map(LAMBDA c : Ways(c, above \cup {tree.auth}), tree.children))

(* A collection that is described and read back has each method and path   *)
(* it had, once, with its parameters and headers, and under an auth of the *)
(* kind of its own, or else of a folder above it, or none; its own where   *)
(* the document does not already say so.  Of two requests at one method    *)
(* and path the last in the tree is kept, wherever the other was.          *)
(* (openapi.rs: collect_paths, build_operation_json, group_by_tag)         *)
OperationsSurvive ==
    [][ImportOf("openapi") =>
          LET root == file.own[1]
              before == Requests(root)
              ways == Ways(root, {})
              after == Requests(node')
              Key(r) == <<r.method, r.path, r.inline>>
              Kinds(i) ==
                  LET own == before[i].request.auth
                  IN  IF own.own /\ Described(own.auth) /\ own.auth # root.auth
                      THEN {own.auth.type}
                      ELSE {"none"} \cup {auth.type : auth \in ways[i] \cup {own.auth}}
              Same(r, s) ==
                  /\ Key(r) = Key(s) /\ r.name = s.name
                  /\ Named(r.query) = Named(s.query) /\ Named(r.headers) = Named(s.headers)
          IN  /\ {Key(before[i].request) : i \in DOMAIN before}
                    = {Key(after[i].request) : i \in DOMAIN after}
                         \cup {Key(before[i].request) :
                                   i \in {i \in DOMAIN before : before[i].request.method \notin Methods}}
              /\ Cardinality({Key(after[i].request) : i \in DOMAIN after}) = Len(after)
              /\ \A i \in DOMAIN after : \E j \in DOMAIN before :
                    /\ Same(after[i].request, before[j].request)
                    /\ \A k \in (j + 1)..Len(before) :
                          Key(before[k].request) # Key(before[j].request)
                    /\ Resolved(after[i].folder, after[i].request).type \in Kinds(j)]_vars

(* An export of Insomnia: the parents of a resource lead to the workspace  *)
(* or they do not, in which case it is left out; the others are there      *)
(* once, in the folder of their parent.  (insomnia.rs: build_node)         *)
ParentIn(doc, root, r) == IF r.parent = Absent THEN root.id ELSE r.parent[1]
RECURSIVE Reaches(_, _, _, _)
Reaches(doc, root, r, steps) ==
    LET parent == ParentIn(doc, root, r)
        groups == SelectSeq(doc, LAMBDA g : g.type = "group" /\ g.id = parent)
    IN  \/ parent = root.id
        \/ steps > 0 /\ groups # <<>> /\ Reaches(doc, root, groups[1], steps - 1)
EveryResourceOnce ==
    [][file.format = "insomnia" /\ Readable(file) /\ file' = NoFile =>
          LET root == SelectSeq(file.doc, LAMBDA r : r.type = "workspace")[1]
              Placed(r) == r.type = "request" /\ Reaches(file.doc, root, r, Len(file.doc))
          IN  Counted(Map(LAMBDA r : <<r.folder.name, r.request.name>>, Requests(node')))
                = Counted(Map(LAMBDA r : <<ParentIn(file.doc, root, r), r.id>>,
                              SelectSeq(file.doc, Placed)))]_vars
=============================================================================
