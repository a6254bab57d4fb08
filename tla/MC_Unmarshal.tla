---------------------------- MODULE MC_Unmarshal ----------------------------
(***************************************************************************)
(* A service's configuration in two paths, the texts of the upper one      *)
(* mostly properties: what its structs are, and what may be loaded.        *)
(***************************************************************************)
EXTENDS Unmarshal

MCIndex == <<"[0]", "[1]", "[2]", "[3]">>

Plain(base)   == [outer |-> <<>>, base |-> base]
MapOfA(base)  == [outer |-> <<"map">>, base |-> base]
SliceOf(base) == [outer |-> <<"slice">>, base |-> base]
Txt == Plain("text")

Tagged(prop, yaml, json) == [prop |-> prop, yaml |-> yaml, json |-> json]
Untagged == Tagged(NoTag, NoTag, NoTag)
Named(name) == [name |-> name, flags |-> {}]
Inline == [name |-> "", flags |-> {"inline"}]
FieldOf(camel, type, tags) == [camel |-> camel, type |-> type, tags |-> tags]

(* Labels has no good description where the tag prop counts: two fields    *)
(* then have one name.                                                     *)
MCFields ==
    [Server |-> <<FieldOf("name", Txt, Tagged(NoTag, Named("name"), NoTag)),
                  FieldOf("port", Plain("int"), Untagged)>>,
     Common |-> <<FieldOf("ident", Txt, Tagged(NoTag, NoTag, Named("id"))),
                  FieldOf("labels", MapOfA("text"), Tagged(Named("labels"), Named("tags"), NoTag))>>,
     App    |-> <<FieldOf("servers", SliceOf("Server"), Untagged),
                  FieldOf("common", Plain("Common"), Tagged(NoTag, Inline, NoTag)),
                  FieldOf("hosts", SliceOf("text"), Untagged)>>,
     Labels |-> <<FieldOf("level", Txt, Tagged(Named("zone"), Named("tier"), NoTag)),
                  FieldOf("hidden", Txt, Tagged(NoTag, Dash, NoTag)),
                  FieldOf("zone", Txt, Untagged),
                  FieldOf("other", MapOfA("any"), Tagged(NoTag, Inline, NoTag))>>]

MCRoot == <<"abc">>
MCPaths == <<"high", "low">>
MCPrefix == <<"abc", "">>
MCNumerals == [n \in {"80", "7"} |-> IF n = "80" THEN 80 ELSE 7]

(* Documents: what is in a map, by its names, and in a list, by its order. *)
Under(piece, doc) == [way \in {<<piece>> \o w : w \in DOMAIN doc} |-> doc[Tail(way)]]
Leaf(node) == Single(<<>>, node)
In(node, parts) == Layered(<<Leaf(node)>> \o parts)
Tree(names) == In(AMap, [i \in DOMAIN names |-> Under(names[i][1], names[i][2])])
Row(elements) == [i \in DOMAIN elements |-> Under(Index[i], elements[i])]
Listed(elements)  == In(AList(Len(elements)), Row(elements))
Counting(elements) == In(Items, Row(elements))
T(text) == Leaf(Text(text))

Yaml(docs) == [format |-> "yaml", docs |-> docs]
Json(doc)  == [format |-> "json", docs |-> <<doc>>]
Props(doc) == [format |-> "props", docs |-> <<doc>>]
Broken     == [format |-> "broken", docs |-> <<>>]

(* In one case there are three layers of servers: of two, one and two.     *)
MCContents ==
    [high |-> {Props(Tree(<<<<"labels", Tree(<<<<"zone", T("east")>>, <<"team", T("core")>>>>)>>,
                            <<"hosts", Counting(<<T("h1"), T("h2")>>)>>,
                            <<"servers", Counting(<<Tree(<<<<"port", T("80")>>>>)>>)>>>>)),
               Json(Tree(<<<<"id", Leaf(Number(7))>>,
                           <<"labels", Tree(<<<<"tier", T("gold")>>>>)>>,
                           <<"hosts", Listed(<<>>)>>,
                           <<"servers", Listed(<<Tree(<<>>), Tree(<<<<"port", T("7")>>>>)>>)>>>>)),
               Broken},
     low  |-> {Yaml(<<Tree(<<<<"id", T("one")>>,
                             <<"hosts", Listed(<<T("x"), T("y")>>)>>,
                             <<"labels", Tree(<<<<"zone", Leaf(Null)>>>>)>>,
                             <<"servers", Listed(<<Tree(<<<<"name", T("a")>>, <<"port", T("7")>>>>),
                                                   Tree(<<<<"name", Leaf(Number(80))>>>>)>>)>>>>),
                      Tree(<<<<"hosts", Listed(<<T("z")>>)>>,
                             <<"labels", Tree(<<<<"tier", T("tin")>>>>)>>,
                             <<"servers", Listed(<<Tree(<<<<"name", T("b")>>>>)>>)>>>>)>>)}]

Ask(type, tag, prefix, below) == [type |-> type, tag |-> tag, prefix |-> prefix, below |-> below]
Labels(tag) == Ask(Plain("Labels"), tag, <<"abc", "labels">>, <<"labels">>)
MCAsks == {Ask(Plain("App"), "", <<"abc", "">>, <<>>), Labels(""), Labels("yaml")}

(* Two callers that ask for one struct, under different tag names.         *)
TwoTags == {Labels("json"), Labels("yaml")}

Interchangeable == Permutations(Callers)
=============================================================================
