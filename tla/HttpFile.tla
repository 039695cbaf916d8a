------------------------------ MODULE HttpFile ------------------------------
(***************************************************************************)
(* Files of the HTTP clients of editors (interop/http_file.rs), line by    *)
(* line.  A line that reads `x: y` is a pair wherever it stands, and a     *)
(* line that begins `@x =` is a variable wherever it stands.               *)
(***************************************************************************)
EXTENDS Imported

Line(kind, key, value) == [kind |-> kind, key |-> key, value |-> value]
Url(origin, path, pairs) == [origin |-> origin, path |-> path, pairs |-> pairs]

(* extract_variables: the last value of each, taken out of the file. *)
VariablesOf(lines) ==
    LET set == SelectSeq(lines, LAMBDA l : l.kind = "@")
        LastOf(key) == Last(SelectSeq(set, LAMBDA l : l.key = key)).value
    IN  [key \in {l.key : l \in ToSet(set)} |-> LastOf(key)]
WithoutVariables(lines) == SelectSeq(lines, LAMBDA l : l.kind # "@")

(* interpolate: a variable that is not of the file becomes nothing. *)
Interpolated(text, vars) ==
    FlattenSeq(Map(LAMBDA t : CASE t \in DOMAIN vars -> vars[t]
                                [] t \in Placeholders \ DOMAIN vars -> <<>>
                                [] OTHER -> <<t>>, text))
InterpolatedOrigin(origin, vars) ==
    LET text == Interpolated(<<origin>>, vars) IN IF text = <<>> THEN "" ELSE text[1]

(* split_request_blocks: what is between two separators, if anything is.   *)
Blocks(lines) ==
    LET ends == <<0>> \o SetToSortSeq({i \in DOMAIN lines : lines[i].kind = "###"}, <)
                    \o <<Len(lines) + 1>>
        Between(i) == SubSeq(lines, ends[i] + 1, ends[i + 1] - 1)
    IN  SelectSeq([i \in 1..(Len(ends) - 1) |-> Between(i)], LAMBDA b : b # <<>>)

(* parse_headers: pairs, until an empty line after the first of them or a  *)
(* line that is no pair; empty lines before the first are skipped, so that *)
(* without headers the body is read as some.                               *)
HeadersEnd(lines) ==
    LET Stops(i) ==
            \/ lines[i].kind \notin {"pair", "blank", "#"}
            \/ lines[i].kind = "blank" /\ \E j \in 1..(i - 1) : lines[j].kind = "pair"
        stops == {i \in DOMAIN lines : Stops(i)}
    IN  IF stops = {} THEN Len(lines) + 1 ELSE CHOOSE i \in stops : \A j \in stops : i <= j
HeadersOf(lines) ==
    Map(LAMBDA l : Entry(l.key, l.value, TRUE),
        SelectSeq(SubSeq(lines, 1, HeadersEnd(lines) - 1), LAMBDA l : l.kind = "pair"))
BodyLines(lines) ==
    LET end == HeadersEnd(lines)
    IN  SubSeq(lines, IF end <= Len(lines) /\ lines[end].kind = "blank" THEN end + 1 ELSE end,
               Len(lines))

(* collapse_auth: the first authorization becomes the auth; one of another *)
(* kind is lost.                                                           *)
CollapsedAuth(headers) ==
    LET at == SelectInSeq(headers, LAMBDA h : h.key = "authorization")
        value == headers[at].value
    IN  CASE at = 0 -> [headers |-> headers, auth |-> NoAuth]
          [] at > 0 -> [headers |-> RemoveAt(headers, at),
                        auth |-> CASE value[1] = "Bearer" -> Bearer(value[2], "Bearer")
                                   [] value[1] = "Basic" -> Basic(value[2], value[3])
                                   [] OTHER -> NoAuth]

(* body_from_lines *)
BodyFrom(text, headers) ==
    LET types == SelectSeq(headers, LAMBDA h : h.key = "content-type")
        type == IF types = <<>> THEN "" ELSE types[1].value[1]
    IN  IF text = <<>> THEN NoBody
        ELSE CASE type = "application/json" -> Json(text)
               [] type = "application/x-www-form-urlencoded" ->
                    UrlEncoded(<<Entry(text[1], Tail(text), TRUE)>>)
               [] type = "multipart/form-data" ->
                    FormData(IF Len(text) = 1 THEN <<>>
                             ELSE <<Field(text[1], Tail(text), TRUE, FALSE, "")>>)
               [] OTHER -> Raw(text, type)

(* parse_block: comments up to the line of the request, the last of which  *)
(* may name it; a block without one is dropped.                            *)
FromBlock(block, vars) ==
    LET starts == {i \in DOMAIN block : block[i].kind \notin {"blank", "#", "# @name"}}
        start == CHOOSE i \in starts : \A j \in starts : i <= j
        names == SelectSeq(SubSeq(block, 1, start - 1), LAMBDA l : l.kind = "# @name")
        rest == SubSeq(block, start + 1, Len(block))
        url == block[start].value
        headers == Map(LAMBDA h : [h EXCEPT !.value = Interpolated(@, vars)], HeadersOf(rest))
        split == CollapsedAuth(headers)
        text == Interpolated(FlattenSeq(Map(LAMBDA l : (IF l.kind = "pair" THEN <<l.key>> ELSE <<>>)
                                                          \o l.value, BodyLines(rest))), vars)
    IN  IF starts = {} THEN <<>>
        ELSE IF block[start].kind # "request" THEN <<>>
        ELSE <<[NewRequest(IF names = <<>> THEN "" ELSE Last(names).key, block[start].key,
                           InterpolatedOrigin(url.origin, vars), url.path) EXCEPT
                    !.query = Map(LAMBDA e : [e EXCEPT !.value = Interpolated(@, vars)], url.pairs),
                    !.headers = split.headers, !.auth = Own(split.auth),
                    !.body = BodyFrom(text, split.headers)]>>

FromHttpFile(lines) ==
    LET vars == VariablesOf(lines)
    IN  NewNode("Imported .http", NoAuth,
                FlattenSeq(Map(LAMBDA b : FromBlock(b, vars), Blocks(WithoutVariables(lines)))), <<>>)
=============================================================================
