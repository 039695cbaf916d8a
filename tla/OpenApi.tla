------------------------------- MODULE OpenApi -------------------------------
(***************************************************************************)
(* Descriptions of interfaces (interop/openapi.rs).  A document is a set   *)
(* of operations, each at a path and a method, with the security schemes   *)
(* and references it names.  OpenAPI 3.0 is read and written, Swagger 2.0  *)
(* is read.  Placeholders of a path ({{id}}) become templates of the       *)
(* document ({id}), and back.                                              *)
(***************************************************************************)
EXTENDS JsonSchema

Methods == {"get", "put", "post", "delete", "options", "head", "patch", "trace"}

Templatized(path) == Map(LAMBDA s : IF s.kind = "{{}}" THEN [s EXCEPT !.kind = "{}"] ELSE s, path)

(* Mistake: a template stays one. *)
Unchanged(path) == path

Untemplatized(path) == Map(LAMBDA s : IF s.kind = "{}" THEN [s EXCEPT !.kind = "{{}}"] ELSE s, path)

Param(in, name, schema) ==
    [ref |-> "", in |-> in, name |-> name, example |-> Absent, schema |-> Present(schema)]
Media(mime, example, schema) == [mime |-> mime, example |-> example, schema |-> schema]
Content(media) == [ref |-> "", media |-> media]

(* What a document says of an operation. *)
NewOperation(path, inline, method) ==
    [path |-> path, inline |-> inline, method |-> method, name |-> "", tags |-> <<>>,
     shared |-> <<>>, params |-> <<>>, consumes |-> Absent, body |-> Absent,
     security |-> Absent]
NewDocument(version, title, origin) ==
    [version |-> version, title |-> title, origin |-> origin, consumes |-> {}, refs |-> <<>>,
     schemes |-> <<>>, security |-> <<>>, operations |-> {}]

-----------------------------------------------------------------------------
(* Security.  A requirement names its schemes in order. *)

Scheme(type, name, in, flow) == [type |-> type, name |-> name, in |-> in, flow |-> flow]

(* security_scheme_to_auth, of both versions: no secret and no user. *)
AuthOf(scheme) ==
    CASE scheme.type = "bearer" -> Bearer("", "Bearer")
      [] scheme.type = "basic" -> Basic("", "")
      [] scheme.type = "apiKey" ->
            ApiKey(scheme.name, "", IF scheme.in = "query" THEN "query" ELSE "header")
      [] scheme.type = "oauth2" /\ scheme.flow # "implicit" ->
            Auth("oauth2", scheme.name, "", "", scheme.flow)
      [] OTHER -> NoAuth

(* resolve_security: the first scheme of the first requirement. *)
Resolve(security, schemes) ==
    IF security = <<>> \/ security[1] = <<>> \/ security[1][1] \notin DOMAIN schemes THEN NoAuth
    ELSE AuthOf(schemes[security[1][1]])

(* security_ref_for: one name, and one scheme, for each kind of auth. *)
SchemeOf(auth) ==
    CASE auth.type \in {"bearer", "basic"} -> Scheme(auth.type, "", "", "")
      [] auth.type = "apikey" -> Scheme("apiKey", auth.about, auth.opt, "")
      [] auth.type = "oauth2" ->
            Scheme("oauth2", auth.about, "",
                   CASE auth.opt \in {"code", "code+pkce"} -> "code"
                     [] auth.opt = "refresh" -> "client"
                     [] OTHER -> auth.opt)
Described(auth) == auth.type \in {"bearer", "basic", "apikey", "oauth2"}
SecurityOf(auth) == IF Described(auth) THEN <<<<auth.type>>>> ELSE <<>>

-----------------------------------------------------------------------------
(* Reading. *)

(* param_example: its own, or that of its schema where it stands. *)
ParamValue(p) ==
    IF p.example # Absent THEN Plain(p.example[1])
    ELSE IF p.schema # Absent /\ p.schema[1].ref = "" /\ p.schema[1].example # Absent
         THEN Plain(p.schema[1].example[1])
    ELSE <<>>

(* The parameters of the path and then its own, at the end of their chains. *)
Params(doc, op) ==
    SelectSeq(FlattenSeq(Map(LAMBDA p : Deref(doc.refs, p), op.shared \o op.params)),
              LAMBDA p : p.name # "")
EntriesIn(params, place) ==
    Map(LAMBDA p : Entry(p.name, ParamValue(p), TRUE), SelectSeq(params, LAMBDA p : p.in = place))

(* media_example_value: its example, or one made of its schema. *)
MediaValue(refs, media) ==
    IF media.example # Absent THEN media.example[1]
    ELSE IF media.schema # Absent THEN Example(refs, media.schema[1])
    ELSE Null

(* schema_properties_to_kv and schema_properties_to_form *)
Properties(refs, media) ==
    LET end == IF media.schema = Absent THEN Absent ELSE Deref(refs, media.schema[1])
    IN  IF end = Absent THEN <<>> ELSE end[1].properties
IsFile(refs, schema) == LET end == Deref(refs, schema) IN end # Absent /\ end[1].format = "binary"

(* build_request_body_v3: JSON, a form, or whatever comes first. *)
BodyOf(refs, content) ==
    LET end == Deref(refs, content)
        Of(mime) == SelectSeq(end[1].media, LAMBDA m : m.mime = mime)
        PlainOf(p) == Plain(Example(refs, p.schema))
    IN  IF end = Absent \/ end[1].media = <<>> THEN NoBody
        ELSE IF Of("application/json") # <<>>
             THEN Json(Written(MediaValue(refs, Of("application/json")[1])))
        ELSE IF Of("urlencoded") # <<>>
             THEN UrlEncoded(Map(LAMBDA p : Entry(p.key, PlainOf(p), TRUE),
                                 Properties(refs, Of("urlencoded")[1])))
        ELSE IF Of("multipart") # <<>>
             THEN FormData(Map(LAMBDA p : IF IsFile(refs, p.schema)
                                          THEN Field(p.key, <<>>, TRUE, TRUE, "")
                                          ELSE Field(p.key, PlainOf(p), TRUE, FALSE, ""),
                               Properties(refs, Of("multipart")[1])))
        ELSE Raw(Plain(MediaValue(refs, end[1].media[1])),
                 IF end[1].media[1].mime = "xml" THEN "xml" ELSE "")

(* build_operation_v2: a body among the parameters, and the fields of a    *)
(* form, which win.                                                        *)
SwaggerBody(doc, op, params) ==
    LET bodies == SelectSeq(params, LAMBDA p : p.in = "body" /\ p.schema # Absent)
        fields == SelectSeq(params, LAMBDA p : p.in = "formData")
        consumes == IF op.consumes = Absent THEN doc.consumes ELSE op.consumes[1]
        FileIn(p) == p.schema # Absent /\ p.schema[1].type = "file"
        ValueIn(p) == IF FileIn(p) THEN <<>> ELSE ParamValue(p)
    IN  IF fields # <<>>
        THEN IF "multipart" \in consumes
             THEN FormData(Map(LAMBDA p : Field(p.name, ValueIn(p), TRUE, FileIn(p), ""), fields))
             ELSE UrlEncoded(Map(LAMBDA p : Entry(p.name, ValueIn(p), TRUE), fields))
        ELSE IF bodies # <<>> THEN Json(Written(Example(doc.refs, Last(bodies).schema[1])))
        ELSE NoBody

(* build_operation_v3 and build_operation_v2 *)
RequestOf(doc, op) ==
    LET params == Params(doc, op)
        body == CASE doc.version = 2 -> SwaggerBody(doc, op, params)
                  [] doc.version = 3 /\ op.body = Absent -> NoBody
                  [] doc.version = 3 /\ op.body # Absent -> BodyOf(doc.refs, op.body[1])
    IN  [NewRequest(op.name, op.method, doc.origin, Untemplatized(op.path)) EXCEPT
            !.inline = op.inline, !.query = EntriesIn(params, "query"),
            !.headers = EntriesIn(params, "header"), !.body = body,
            !.auth = IF op.security = Absent THEN Inherit
                     ELSE Own(Resolve(op.security[1], doc.schemes))]

(* group_by_tag: a folder for each first tag, without an auth. *)
Grouped(doc, operations) ==
    LET Tagged(tag) == SetToSeq({op \in operations : op.tags # <<>> /\ op.tags[1] = tag})
        tags == SetToSeq({op.tags[1] : op \in {op \in operations : op.tags # <<>>}})
        Requested(ops) == Map(LAMBDA op : RequestOf(doc, op), ops)
    IN  NewNode(doc.title, Resolve(doc.security, doc.schemes),
                Requested(SetToSeq({op \in operations : op.tags = <<>>})),
                Map(LAMBDA tag : NewNode(tag, NoAuth, Requested(Tagged(tag)), <<>>), tags))

(* parse_openapi3 and parse_swagger2: an item that is a reference, and a   *)
(* method that is not one of theirs, are skipped.                          *)
FromOpenApi(doc) ==
    Grouped(doc, {op \in doc.operations :
                     op.method \in Methods \ IF doc.version = 2 THEN {"trace"} ELSE {}})

-----------------------------------------------------------------------------
(* Writing. *)

(* The properties of a form: one for each key, the last, whether or not it *)
(* is switched on.                                                         *)
FormSchema(list, schemas) ==
    [Schema("object") EXCEPT
        !.properties = Map(LAMBDA f : [key |-> f.key, schema |-> f.value],
                           Merged([i \in DOMAIN list |->
                                      [key |-> list[i].key, value |-> schemas[i]]]))]
TextSchema(text) == [Schema("string") EXCEPT !.example = Present(Text(text))]
FileSchema == [Schema("string") EXCEPT !.format = "binary"]

(* build_request_body_json *)
ContentOf(body) ==
    CASE body.mode = "none" -> Absent
      [] body.mode \in {"json", "graphql"} ->
            LET text == IF body.mode = "json" THEN body.text ELSE Envelope(body)
            IN  Present(Content(<<Media("application/json",
                           Present(IF IsJson(text) THEN Literal(text) ELSE Text(text)),
                           Present(Schema("object")))>>))
      [] body.mode = "raw" ->
            Present(Content(<<Media(IF body.lang = "xml" THEN "xml" ELSE "text",
                                    Present(Text(body.text)), Present(Schema("string")))>>))
      [] body.mode = "urlencoded" ->
            Present(Content(<<Media("urlencoded", Absent,
                           Present(FormSchema(body.list,
                               Map(LAMBDA f : TextSchema(f.value), body.list))))>>))
      [] body.mode = "formdata" ->
            Present(Content(<<Media("multipart", Absent,
                           Present(FormSchema(body.list,
                               Map(LAMBDA f : IF f.file THEN FileSchema ELSE TextSchema(f.value),
                                   body.list))))>>))
      [] body.mode = "binary" -> Present(Content(<<Media("binary", Absent, Present(FileSchema))>>))

(* build_operation_json; override is the auth baked into it. *)
OperationOf(r, tags, override) ==
    [NewOperation(Templatized(r.path), r.inline, r.method) EXCEPT
        !.name = r.name, !.tags = tags, !.body = ContentOf(r.body),
        !.params = Map(LAMBDA e : Param("query", e.key, TextSchema(e.value)), On(r.query))
                       \o Map(LAMBDA e : Param("header", e.key, TextSchema(e.value)), On(r.headers)),
        !.security = IF override = Absent THEN Absent ELSE Present(SecurityOf(override[1]))]

(* collect_paths: what every request is written as, in order.  An auth     *)
(* comes from the nearest folder that has one, which sending does not ask. *)
RECURSIVE Entered(_, _, _, _)
Entered(node, tags, root, inherited) ==
    LET Effective(r) == IF r.auth.own THEN r.auth.auth ELSE inherited
        Override(r) == IF Effective(r) = root THEN Absent ELSE Present(Effective(r))
        Below(child) == Entered(child, <<child.name>>, root,
                                IF child.auth = NoAuth THEN inherited ELSE child.auth)
    IN  Map(LAMBDA r : [origin |-> r.origin, auth |-> Override(r),
                        operation |-> OperationOf(r, tags, Override(r))], node.requests)
            \o FlattenSeq(Map(Below, node.children))

(* export: the first origin stands for all, the first scheme of a kind for *)
(* all of that kind, the last operation for all at its path and method.    *)
OpenApiOf(node) ==
    LET entered == Entered(node, <<>>, node.auth, node.auth)
        origins == SelectSeq(entered, LAMBDA e : e.origin # "")
        Key(op) == <<op.path, op.inline, op.method>>
        last == {i \in DOMAIN entered : \A j \in DOMAIN entered :
                    j > i => Key(entered[j].operation) # Key(entered[i].operation)}
        overrides == FlattenSeq(Map(LAMBDA e : e.auth, entered))
        auths == SelectSeq(<<node.auth>> \o overrides, Described)
        First(type) == SelectSeq(auths, LAMBDA a : a.type = type)[1]
    IN  [NewDocument(3, node.name, IF origins = <<>> THEN "" ELSE origins[1].origin) EXCEPT
            !.operations = {entered[i].operation : i \in last},
            !.security = SecurityOf(node.auth),
            !.schemes = [type \in {a.type : a \in ToSet(auths)} |-> SchemeOf(First(type))]]
=============================================================================
