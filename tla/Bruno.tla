-------------------------------- MODULE Bruno --------------------------------
(***************************************************************************)
(* Collections of Bruno (interop/bruno.rs): a directory of .bru files and  *)
(* of directories, read in the order the file system lists them.           *)
(***************************************************************************)
EXTENDS Imported

(* kind: what the name of the file makes of it.  parses: whether a request *)
(* has any section.  lines: those of its body.                             *)
BruFile(name, seq, request, lines) ==
    [kind |-> "request", name |-> name, seq |-> seq, parses |-> TRUE, request |-> request,
     lines |-> lines, auth |-> Absent, entries |-> <<>>]
BruDirectory(name, seq, auth, entries) ==
    [kind |-> "directory", name |-> name, seq |-> seq, parses |-> TRUE,
     request |-> NewRequest("", "get", "", <<>>), lines |-> <<>>, auth |-> auth, entries |-> entries]
Ignored == {"hidden", "environments", "manifest", "other"}

NoSeq == 1000       \* i64::MAX: entries without a seq come last

(* read_dir_contents: by seq, then by name. *)
Ordered(entries) ==
    LET At(e) == IF e.seq = Absent THEN NoSeq ELSE e.seq[1]
    IN  SortSeq(entries, LAMBDA e, f : At(e) < At(f) \/ (At(e) = At(f) /\ e.name < f.name))

(* parse_body_section: the first line that says what it is, and no other.  *)
BrunoBody(lines) ==
    LET known == SelectSeq(lines, LAMBDA l : l.mode # "")
    IN  IF known = <<>> THEN NoBody
        ELSE IF known[1].mode = "graphql" THEN [known[1] EXCEPT !.lang = ""] ELSE known[1]

(* parse_auth_section: of the kinds there are, or none. *)
BrunoAuth(auth) ==
    IF auth # Absent /\ auth[1].type \in {"bearer", "basic", "apikey", "awsv4"}
    THEN IF auth[1].type = "bearer" THEN [auth[1] EXCEPT !.opt = "Bearer"] ELSE auth[1]
    ELSE NoAuth

(* parse_request: what is typed into the URL, or else the table; an auth   *)
(* of its own, even where it has none.                                     *)
BruRequest(file) ==
    LET r == file.request
    IN  [NewRequest(r.name, r.method, r.origin, r.path) EXCEPT
            !.query = IF r.inline # <<>> THEN r.inline ELSE r.query,
            !.headers = r.headers, !.body = BrunoBody(file.lines), !.scripts = r.scripts,
            !.auth = Own(BrunoAuth(IF r.auth.own THEN Present(r.auth.auth) ELSE Absent))]

(* parse_directory and read_dir_contents *)
RECURSIVE FromBruno(_)
FromBruno(directory) ==
    LET entries == Ordered(directory.entries)
        files == SelectSeq(entries, LAMBDA e : e.kind = "request" /\ e.parses)
        folders == SelectSeq(entries, LAMBDA e : e.kind = "directory")
    IN  NewNode("", BrunoAuth(directory.auth), Map(BruRequest, files), Map(FromBruno, folders))
=============================================================================
