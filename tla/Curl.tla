-------------------------------- MODULE Curl --------------------------------
(***************************************************************************)
(* curl commands (interop/curl.rs).  A command is the sequence of its      *)
(* options, each with its value; an export of several requests is their    *)
(* commands one after the other, which is read as one.                     *)
(***************************************************************************)
EXTENDS Imported

Option(flag, value) == [flag |-> flag, value |-> value]

(* A piece of data is text, or the pairs of a form joined into one. *)
Data(text, list) == [text |-> text, list |-> list]
DataText(d) ==
    IF d.list = <<>> THEN d.text
    ELSE FlattenSeq(Map(LAMBDA e : <<e.key>> \o e.value, d.list))
DataList(d) ==
    IF d.list # <<>> \/ d.text = <<>> THEN d.list ELSE <<Entry(d.text[1], Tail(d.text), TRUE)>>

JsonType == Entry("content-type", <<"application/json">>, TRUE)

(* The headers with the auth of the request's own; credentials go to -u.   *)
CurlHeaders(r) ==
    IF r.auth.own /\ r.auth.auth.type # "basic" THEN r.headers \o AuthHeader(r.auth.auth)
    ELSE r.headers


(* url_with_query *)
UrlOf(r) == Option("url", UrlWith(r, On(r.query)))

(* The type that goes with a body, unless a header gives one; a header     *)
(* that is switched off counts.                                            *)
TypeOption(r) ==
    IF r.body.mode \in {"json", "graphql"} /\ ~HasContentType(CurlHeaders(r))
    THEN <<Option("-H", JsonType)>> ELSE <<>>

BodyOptions(body) ==
    CASE body.mode = "none" -> <<>>
      [] body.mode \in {"json", "raw"} -> <<Option("-d", Data(body.text, <<>>))>>
      [] body.mode = "graphql" -> <<Option("-d", Data(Envelope(body), <<>>))>>
      [] body.mode = "urlencoded" -> <<Option("-d", Data(<<>>, On(body.list)))>>
      [] body.mode = "formdata" ->
            Map(LAMBDA f : Option("-F", [f EXCEPT !.mime = ""]), On(body.list))
      [] body.mode = "binary" -> <<Option("-d", Data(<<"@">> \o body.text, <<>>))>>

(* build_curl_block: parameters, OAuth2 and signatures of an auth are left out. *)
Block(r) ==
    <<Option("curl", ""), Option("-X", r.method), UrlOf(r)>>
        \o (IF r.options.verify THEN <<>> ELSE <<Option("-k", "")>>)
        \o (IF r.options.follow THEN <<Option("-L", "")>> ELSE <<>>)
        \o (IF r.auth.own /\ r.auth.auth.type = "basic"
            THEN <<Option("-u", r.auth.auth)>> ELSE <<>>)
        \o Map(LAMBDA h : Option("-H", h), On(CurlHeaders(r)))
        \o TypeOption(r) \o BodyOptions(r.body)

(* collect_curl_blocks *)
RECURSIVE CurlOf(_)
CurlOf(node) ==
    FlattenSeq(Map(Block, node.requests)) \o FlattenSeq(Map(CurlOf, node.children))

-----------------------------------------------------------------------------

Given(command, flags) == SelectSeq(command, LAMBDA o : o.flag \in flags)
Values(command, flags) == Map(LAMBDA o : o.value, Given(command, flags))

(* build_data_body: pieces are joined, and the type decides. *)
DataBody(pieces, type) ==
    CASE type = <<"application/json">> -> Json(FlattenSeq(Map(DataText, pieces)))
      [] type \in {<<>>, <<"application/x-www-form-urlencoded">>} ->
            UrlEncoded(FlattenSeq(Map(DataList, pieces)))
      [] OTHER -> Raw(FlattenSeq(Map(DataText, pieces)), type[1])

(* parse: the last method and the first URL, credentials before a bearer   *)
(* token, a form before data; redirects are followed with and without -L.  *)
FromCurlOptions(command, url) ==
    LET headers == Values(command, {"-H", "-b", "-A", "-e"})
        users == Values(command, {"-u"})
        bearer == SelectInSeq(headers, LAMBDA h : h.key = "authorization" /\ h.value[1] = "Bearer")
        kept == IF users = <<>> /\ bearer > 0 THEN RemoveAt(headers, bearer) ELSE headers
        types == SelectSeq(kept, LAMBDA h : h.key = "content-type")
        form == Values(command, {"-F"})
        data == Values(command, {"-d"})
        body == IF form # <<>> THEN FormData(form)
                ELSE IF data # <<>>
                     THEN DataBody(data, IF types = <<>> THEN <<>> ELSE types[1].value)
                ELSE NoBody
        methods == Values(command, {"-X", "-I"})
        method == IF methods # <<>> THEN Last(methods)
                  ELSE IF Given(command, {"-G"}) # <<>> \/ body = NoBody THEN "get" ELSE "post"
        auth == CASE users # <<>> -> Own(Last(users))
                  [] users = <<>> /\ bearer > 0 -> Own(Bearer(headers[bearer].value[2], "Bearer"))
                  [] OTHER -> Inherit
    IN  [NewRequest("", method, url.origin, url.path) EXCEPT
            !.query = url.pairs, !.headers = kept, !.body = body, !.auth = auth,
            !.options.verify = Given(command, {"-k"}) = <<>>]

(* A command without a URL is refused. *)
CurlUrl(command) ==
    IF Given(command, {"--url"}) # <<>> THEN Present(Last(Values(command, {"--url"})))
    ELSE IF Given(command, {"url"}) # <<>> THEN Present(Values(command, {"url"})[1])
    ELSE Absent

FromCurl(command) ==
    NewNode("curl", NoAuth, <<FromCurlOptions(command, CurlUrl(command)[1])>>, <<>>)
=============================================================================
