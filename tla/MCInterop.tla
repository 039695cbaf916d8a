------------------------------ MODULE MCInterop ------------------------------
EXTENDS Interop

Path == <<Segment("lit", "p"), Segment("{{}}", "id")>>
Flat == <<Segment("lit", "p"), Segment("lit", "q")>>
Plainest == NewRequest("r", "post", "https://a", Path)

E(key, value) == Entry(key, <<value>>, TRUE)
Off(key, value) == Entry(key, <<value>>, FALSE)

OwnAuths == {NoAuth, Bearer("secret", "Bearer"), Bearer("secret", "Token"), Basic("u", "secret"),
             ApiKey("k", "secret", "header"), ApiKey("k2", "secret", "query"),
             Auth("oauth2", "urls", "c", "secret", "code+pkce"), Auth("oauth2", "urls", "c", "secret", "refresh"),
             Auth("awsv4", "region", "c", "secret", "")}
Bodies == {Json(<<"{", "x">>), Json(<<"x">>), Raw(<<"x">>, ""), Raw(<<"x">>, "json"), Raw(<<"x">>, "xml"),
           UrlEncoded(<<E("a", "1"), Off("b", "2"), E("", "3")>>),
           FormData(<<Field("a", <<"1">>, TRUE, FALSE, ""), Field("b", <<"2">>, FALSE, FALSE, "")>>),
           FormData(<<Field("f", <<"1">>, TRUE, TRUE, "image")>>),
           Body("binary", <<"f">>, "", <<>>), Body("graphql", <<"q">>, "", <<>>),
           Body("graphql", <<"q">>, "op", <<>>)}
Headers == {<<E("x", "1"), Off("content-type", "text")>>, <<E("content-type", "text/plain"), E("x", "1"), E("x", "2")>>,
            <<Entry("authorization", <<"Bearer", "secret">>, TRUE), E("x", "1")>>,
            <<Entry("authorization", <<"Basic", "u", "secret">>, TRUE)>>}
Queries == {<<<<>>, <<E("q", "1"), Off("p", "2")>>>>, <<<<E("i", "1")>>, <<E("q", "1")>>>>, <<<<E("i", "1")>>, <<>>>>,
            <<<<>>, <<E("q", "{{other}}")>>>>, <<<<E("i", "{{other}}")>>, <<>>>>}

Variants ==
    {Plainest}
        \cup {[Plainest EXCEPT !.auth = Own(a), !.body = Json(<<"{", "x">>)] : a \in OwnAuths}
        \cup {[Plainest EXCEPT !.body = b] : b \in Bodies}
        \cup {[Plainest EXCEPT !.headers = h, !.body = b] : h \in Headers, b \in {Json(<<"{", "x">>), Raw(<<"x">>, "")}}
        \cup {[Plainest EXCEPT !.origin = o, !.path = p, !.inline = q[1], !.query = q[2]] :
                  o \in {"https://a", "{{host}}"}, p \in {Path, Flat}, q \in Queries}
        \cup {[Plainest EXCEPT !.path = Flat, !.auth = Own(ApiKey("k2", "secret", "query"))]}
        \cup {[Plainest EXCEPT !.kind = "websocket"], [Plainest EXCEPT !.method = "purge"],
              [Plainest EXCEPT !.options = [verify |-> FALSE, follow |-> FALSE]]}
Others == {[Plainest EXCEPT !.name = "s", !.path = <<Segment("lit", "s")>>],
           [Plainest EXCEPT !.name = "s", !.origin = "https://b", !.auth = Own(ApiKey("k3", "secret", "header"))]}

MCNodes ==
    {NewNode("root", a, <<r>>, <<>>) : a \in {NoAuth, Bearer("secret", "Bearer")}, r \in Variants}
        \cup {NewNode("root", a, <<r>>, <<NewNode("f", b, <<>>, <<NewNode("g", NoAuth, <<s>>, <<>>)>>)>>) :
                a \in {NoAuth, ApiKey("k", "secret", "header")}, b \in {NoAuth, Basic("u", "secret")},
                r \in Variants, s \in Others}

(* Descriptions, with references in chains and circles. *)
R(name) == [ref |-> name]
Tree == [Schema("object") EXCEPT !.properties = <<[key |-> "next", schema |-> R("tree")],
                                                   [key |-> "size", schema |-> Schema("number")]>>]
Refs == [a |-> R("b"), b |-> R("c"), c |-> Param("query", "ref", [Schema("string") EXCEPT !.example = Present(Literal(<<"5">>))]),
         loop |-> R("loop"), tree |-> Tree,
         all |-> [Schema("") EXCEPT !.allOf = <<R("tree"), [Schema("object") EXCEPT !.properties =
                     <<[key |-> "size", schema |-> Schema("boolean")]>>], Schema("string")>>],
         list |-> [Schema("array") EXCEPT !.items = Present(R("all"))],
         choice |-> [Schema("string") EXCEPT !.choices = <<<<"on">>, <<"off">>>>],
         file |-> [Schema("string") EXCEPT !.format = "binary"],
         body |-> Content(<<Media("application/json", Absent, Present(R("list")))>>)]
Form(mime) == Content(<<Media(mime, Absent, Present([Schema("object") EXCEPT !.properties =
                <<[key |-> "c", schema |-> R("choice")], [key |-> "f", schema |-> R("file")]>>]))>>)
Op(path, method) == NewOperation(<<Segment("lit", path), Segment("{}", "id")>>, <<>>, method)
Schemes == [key |-> Scheme("apiKey", "k", "cookie", ""), token |-> Scheme("bearer", "", "", ""),
            implicit |-> Scheme("oauth2", "urls", "", "implicit"), flow |-> Scheme("oauth2", "urls", "", "code")]
Described3 ==
    [NewDocument(3, "api", "https://a") EXCEPT !.refs = Refs, !.schemes = Schemes, !.security = <<<<"token">>>>,
        !.operations =
            {[Op("p", "get") EXCEPT !.shared = <<R("a"), R("loop"), R("gone")>>, !.tags = <<"t", "u">>,
                                    !.params = <<Param("header", "h", R("choice")), Param("cookie", "c", Schema("string"))>>],
             [Op("p", "post") EXCEPT !.body = Present(R("body")), !.security = Present(<<<<"key", "token">>>>)],
             [Op("q", "post") EXCEPT !.body = Present(Form("urlencoded")), !.security = Present(<<<<"implicit">>>>), !.tags = <<"t">>],
             [Op("q", "put") EXCEPT !.body = Present(Form("multipart")), !.security = Present(<<>>)],
             [Op("q", "patch") EXCEPT !.body = Present(Content(<<Media("xml", Present(Text(<<"x">>)), Absent)>>)),
                                      !.security = Present(<<<<"flow">>>>)],
             [Op("q", "trace") EXCEPT !.body = Present(R("loop")), !.security = Present(<<<<"gone">>>>)],
             Op("q", "purge")}]
Described2 ==
    [Described3 EXCEPT !.version = 2, !.consumes = {"multipart"}, !.operations =
        {Op("q", "trace"),
         [Op("p", "post") EXCEPT !.params = <<Param("body", "b", R("list"))>>],
         [Op("p", "put") EXCEPT !.params = <<Param("formData", "f", Schema("file")), Param("formData", "s", Schema("string"))>>],
         [Op("q", "put") EXCEPT !.params = <<Param("formData", "s", Schema("string"))>>, !.consumes = Present({"urlencoded"})]}]

Groups ==
    <<Resource("request", "r1", Present("g2"), Absent, Plainest),
      Resource("group", "g2", Present("g1"), Present(Basic("u", "secret")), Plainest),
      Resource("workspace", "w", Absent, Present(Bearer("secret", "")), Plainest),
      Resource("group", "g1", Absent, Absent, Plainest),
      Resource("group", "g3", Present("gone"), Absent, Plainest),
      Resource("request", "r2", Present("g3"), Absent, Plainest),
      Resource("group", "g4", Present("g5"), Absent, Plainest),
      Resource("group", "g5", Present("g4"), Absent, Plainest),
      Resource("request", "r5", Present("g5"), Absent, Plainest),
      Resource("request", "r3", Absent, Present(Auth("digest", "", "", "", "")),
               [Plainest EXCEPT !.body = Body("", <<"x">>, "", <<>>), !.headers = <<E("", "1"), E("x", "1")>>]),
      Resource("request", "r4", Present("w"), Absent,
               [Plainest EXCEPT !.inline = <<E("i", "1")>>,
                                !.body = FormData(<<Field("f", <<"1">>, TRUE, TRUE, "")>>)])>>

Request(name) == [Plainest EXCEPT !.name = name]
Lines == <<Body("", <<"x">>, "", <<>>), Json(<<"{">>), Raw(<<"x">>, "")>>
F1 == BruFile(1, Absent, [Request("one") EXCEPT !.inline = <<E("i", "1")>>], Lines)
F2 == BruFile(2, Present(1), [Request("two") EXCEPT !.auth = Own(Bearer("secret", ""))], <<>>)
F3 == BruFile(3, Absent, Request("three"), <<Body("graphql", <<"q">>, "op", <<>>)>>)
Bad == [BruFile(4, Absent, Request("four"), <<>>) EXCEPT !.parses = FALSE]
Environments == [BruDirectory(5, Absent, Absent, <<F3>>) EXCEPT !.kind = "environments"]
Inner(entries) == BruDirectory(6, Absent, Present(Basic("u", "secret")), entries)
Listings ==
    {BruDirectory(0, Absent, Absent, outer) :
        outer \in {<<a, b, Bad, Environments, c>> : a \in {F1, F3}, b \in {F1, F3},
                                                  c \in {Inner(<<F1, F2>>), Inner(<<F2, F1>>)}}}
Orders == {l \in Listings : l.entries[1] # l.entries[2]}

Get(origin, pairs) == Line("request", "get", Url(origin, <<Segment("lit", "p")>>, pairs))
Blank == Line("blank", "", <<>>)
Pair(key, value) == Line("pair", key, value)
EditorFiles ==
  <<<<Line("@", "{{host}}", <<"https://a">>), Line("#", "", <<>>), Line("# @name", "one", <<>>),
       Get("{{host}}", <<Entry("q", <<"{{other}}">>, TRUE)>>), Pair("authorization", <<"Bearer", "secret">>),
       Pair("content-type", <<"application/json">>), Blank, Line("text", "", <<"{">>), Pair("x", <<"1">>),
       Line("###", "", <<>>), Line("###", "", <<>>), Blank, Line("text", "", <<"x">>), Line("###", "", <<>>),
       Get("https://b", <<>>), Pair("authorization", <<"Digest", "secret">>),
       Pair("content-type", <<"application/x-www-form-urlencoded">>), Line("#", "", <<>>), Blank, Line("text", "", <<"a", "1">>)>>,
     <<Get("https://b", <<>>), Blank, Pair("{", <<"x">>), Line("@", "{{host}}", <<"x">>), Line("text", "", <<"}">>)>>,
     <<Get("https://b", <<>>), Pair("authorization", <<"Basic", "u", "secret">>), Pair("content-type", <<"multipart/form-data">>),
       Blank, Line("text", "", <<"a", "1">>)>>,
     <<Line("#", "", <<>>), Line("text", "", <<"x">>)>>>>

CurlUrlOf(pairs) == [origin |-> "https://a", path |-> Path, pairs |-> pairs]
Commands ==
  <<<<Option("curl", ""), Option("-G", ""), Option("-d", Data(<<>>, <<E("a", "1")>>)), Option("url", CurlUrlOf(<<E("q", "1")>>)),
       Option("-u", Basic("u", "secret")), Option("-b", E("cookie", "c"))>>,
     <<Option("-d", Data(<<>>, <<E("a", "1")>>)), Option("-d", Data(<<"x">>, <<>>)), Option("--url", CurlUrlOf(<<>>)),
       Option("url", CurlUrlOf(<<E("q", "1")>>))>>,
     <<Option("-I", ""), Option("-H", E("content-type", "text")), Option("-d", Data(<<>>, <<E("a", "1")>>)), Option("url", CurlUrlOf(<<>>))>>,
     <<Option("curl", ""), Option("-k", "")>>>>

Recorded ==
    <<[method |-> "get", origin |-> "https://a", path |-> Path, pairs |-> <<E("q", "1")>>, table |-> Absent,
       headers |-> <<Entry("authorization", <<"Digest", "secret">>, TRUE)>>,
       post |-> Present(PostData("urlencoded", Present(<<"a", "1">>), Absent, Absent))]>>

Collection ==
    [name |-> "p", auth |-> Absent,
     requests |-> <<[RequestJson(Plainest) EXCEPT !.url.pairs = <<E("q", "1")>>, !.auth = Present(Auth("digest", "", "", "", "")),
                                                  !.body = BodyDoc("none", {UrlEncoded(<<E("a", "1")>>), FormData(<<>>), Body("binary", <<"f">>, "", <<>>)})],
                   [RequestJson(Plainest) EXCEPT !.body = BodyDoc("none", {UrlEncoded(<<>>), Body("graphql", <<"q">>, "", <<>>)})],
                   [RequestJson(Plainest) EXCEPT !.body = BodyDoc("raw", {})]>>,
     folders |-> <<[name |-> "f", auth |-> Present(Auth("bearer", "", "", "secret", "")), requests |-> <<>>, folders |-> <<>>]>>]

Foreign(format, docs) == Map(LAMBDA d : [format |-> format, doc |-> d], docs)
MCFiles ==
    Foreign("openapi", <<Described3, Described2>>) \o Foreign("insomnia", <<Groups, Reverse(Groups), <<Groups[1]>>>>)
        \o Foreign("bruno", SetToSeq(Orders)) \o Foreign("http", EditorFiles) \o Foreign("curl", Commands)
        \o Foreign("har", <<Recorded>>) \o Foreign("postman", <<Collection>>)
=============================================================================
