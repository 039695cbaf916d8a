----------------------------- MODULE JsonSchema -----------------------------
(***************************************************************************)
(* References and examples in a description of an interface                *)
(* (interop/openapi.rs): what a `$ref` leads to, and the value made up for *)
(* a schema.  Both may go round in circles, and are cut off by a depth.    *)
(***************************************************************************)
EXTENDS Imported

MaxRefs == 8        \* resolve_ref_depth
MaxNested == 6      \* schema_to_example

(* A value: its text in tokens, or its fields in order of their keys. *)
Value(kind, text, fields) == [kind |-> kind, text |-> text, fields |-> fields]
Null == Value("null", <<"null">>, <<>>)
Text(text) == Value("string", text, <<>>)
Literal(text) == Value("literal", text, <<>>)

Quote == "'"
RECURSIVE Written(_)
Written(v) ==
    CASE v.kind = "string" -> <<Quote>> \o v.text
      [] v.kind \in {"null", "literal"} -> v.text
      [] v.kind = "object" ->
            <<"{">> \o FlattenSeq(Map(LAMBDA f : <<f.key>> \o Written(f.value), v.fields)) \o <<"}">>
      [] v.kind = "array" ->
            <<"[">> \o FlattenSeq(Map(LAMBDA f : Written(f.value), v.fields)) \o <<"]">>

(* value_to_plain_string *)
Plain(v) == IF v.kind = "string" THEN v.text ELSE IF v.kind = "null" THEN <<>> ELSE Written(v)

(* Whether a text is JSON: it begins an object or a string. *)
IsJson(text) == text # <<>> /\ Head(text) \in {"{", Quote}

(* A schema or a reference to one.  example has the default in it.        *)
Schema(type) ==
    [ref |-> "", type |-> type, example |-> Absent, format |-> "", choices |-> <<>>,
     allOf |-> <<>>, items |-> Absent, properties |-> <<>>]
Ref(pointer) == [ref |-> pointer]

(* resolve_ref: the end of the chain, or nothing. *)
RECURSIVE DerefAt(_, _, _)
DerefAt(refs, v, depth) ==
    IF v.ref = "" THEN Present(v)
    ELSE IF depth > MaxRefs \/ v.ref \notin DOMAIN refs THEN Absent
    ELSE DerefAt(refs, refs[v.ref], depth + 1)
Deref(refs, v) == DerefAt(refs, v, 0)

(* Later fields take the place of earlier ones of the same key. *)
Merged(fields) ==
    SelectSeq([i \in DOMAIN fields |->
                  [fields[i] EXCEPT !.key = IF \E j \in DOMAIN fields : j > i /\ fields[j].key = @
                                            THEN "" ELSE @]],
              LAMBDA f : f.key # "")

(* schema_to_example and object_example *)
RECURSIVE ExampleAt(_, _, _)
ExampleAt(refs, schema, depth) ==
    LET end == Deref(refs, schema)
        s == end[1]
        Nested(inner) == ExampleAt(refs, inner, depth + 1)
        Object == Value("object", <<>>,
                        Map(LAMBDA p : [key |-> p.key, value |-> Nested(p.schema)], s.properties))
        Parts == SelectSeq(Map(Nested, s.allOf), LAMBDA v : v.kind = "object")
    IN  IF depth > MaxNested \/ end = Absent THEN Null
        ELSE IF s.example # Absent THEN s.example[1]
        ELSE IF s.allOf # <<>>
             THEN Value("object", <<>>, Merged(FlattenSeq(Map(LAMBDA v : v.fields, Parts))))
        ELSE CASE s.type = "array" ->
                    Value("array", <<>>, <<[key |-> "", value |->
                          IF s.items = Absent THEN Null ELSE Nested(s.items[1])]>>)
               [] s.type = "string" ->
                    Text(IF s.choices = <<>> THEN <<"string">> ELSE s.choices[1])
               [] s.type = "number" -> Literal(<<"0">>)
               [] s.type = "boolean" -> Literal(<<"true">>)
               [] s.type = "object" \/ (s.type = "" /\ s.properties # <<>>) -> Object
               [] OTHER -> Null
Example(refs, schema) == ExampleAt(refs, schema, 0)
=============================================================================
