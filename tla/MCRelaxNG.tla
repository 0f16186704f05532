-------------------------------- MODULE MCRelaxNG --------------------------------
(* Schemas and documents for RelaxNG: each schema is met by every document. *)
EXTENDS RelaxNGLanguage, TLC

Element(n, p) == <<"element", {n}, p>>
Attribute(ns, p) == <<"attribute", ns, p>>
Optional(p) == <<"choice", p, EmptyPattern>>
Seq3(p, q, r) == <<"group", p, <<"group", q, r>>>>
Root(p) == Element("r", p)

EA == Element("a", EmptyPattern)
EB == Element("b", EmptyPattern)
EC == Element("c", EmptyPattern)
Some(p) == Optional(<<"oneOrMore", p>>)
Times3(p) == Seq3(p, p, p)
X == <<"x">>
Y == <<"y">>

\* A definition that refers to itself through an element.
DefinitionOf(n) == <<"choice", Element("a", Optional(<<"ref", "nest">>)), EB>>

Ordinary ==
    { Root(EmptyPattern),
      Root(TextPattern),
      Root(<<"choice", TextPattern, <<"oneOrMore", EA>>>>),
      Root(Seq3(Optional(EA), Optional(EB), EC)),
      Root(<<"interleave", EA, <<"group", EB, EC>>>>),
      Root(<<"interleave", TextPattern, <<"interleave", EA, Optional(EB)>>>>),
      Root(<<"oneOrMore", <<"oneOrMore", <<"choice", EA, EB>>>>>>),
      Root(<<"oneOrMore", <<"group", EA, Optional(EB)>>>>),
      Root(<<"group", <<"oneOrMore", <<"choice", EA, EB>>>>, EA>>),
      Root(<<"group", Times3(Optional(EA)), Times3(EA)>>),
      Root(<<"oneOrMore", <<"group", Some(EA), <<"group", Some(EA), Some(EA)>>>>>>),
      Root(<<"group", Attribute({"i"}, TextPattern), Optional(Attribute({"j"}, <<"value", X>>))>>),
      Root(<<"choice", Attribute({"i"}, <<"value", X>>), EA>>),
      Root(<<"oneOrMore", Attribute({"i", "j"}, TextPattern)>>),
      Root(<<"interleave", Attribute({"i"}, EmptyPattern), <<"group", Attribute({"j"}, TextPattern), EA>>>>),
      Root(<<"list", <<"oneOrMore", <<"choice", <<"value", X>>, <<"value", Y>>>>>>>>),
      Root(<<"data", {<<>>, X, Y}, <<"value", X>>>>),
      Root(Optional(<<"value", <<>>>>)),
      Root(<<"ref", "nest">>),
      Root(<<"choice", <<"group", EA, EB>>,
                       <<"group", Element("a", Attribute({"i"}, TextPattern)), EC>>>>),
      Root(<<"choice", <<"group", Element("a", EB), EB>>,
                       <<"group", Element("a", <<"choice", EB, EC>>), EC>>>>) }

\* Two ways to read an element without children, which differ in what follows.
Childless2 ==
    { Root(<<"choice", <<"group", EA, EB>>, <<"group", Element("a", TextPattern), EC>>>>) }

Node(n, as, ks) == [name |-> n, attrs |-> as, kids |-> ks]
Leaf(n) == Node(n, <<>>, <<>>)
SeqsUpTo(S, n) == UNION {[1 .. k -> S] : k \in 0 .. n}
Attr(n, v) == [name |-> n, value |-> v]

Flat == SeqsUpTo({Leaf("a"), Leaf("b"), Leaf("c"), String(<<>>), String(X)}, 3)
Nested == SeqsUpTo({Node("a", <<>>, <<Leaf("b")>>), Node("a", <<>>, <<Leaf("a")>>),
                    Node("a", <<>>, <<String(<<>>)>>), Node("a", <<Attr("i", X)>>, <<>>),
                    Node("a", <<>>, <<Node("a", <<>>, <<Leaf("b")>>)>>),
                    Leaf("b"), Leaf("c")}, 2)
Strings == SeqsUpTo({String(<<>>), String(X), String(Y), String(<<"x", "y">>)}, 2)
Wide == {[i \in 1 .. n |-> Leaf("a")] : n \in 4 .. 12}
Attrs == { <<>>, <<Attr("i", X)>>, <<Attr("i", <<>>)>>, <<Attr("j", X)>>, <<Attr("j", Y)>>,
           <<Attr("i", X), Attr("j", X)>>, <<Attr("j", Y), Attr("i", <<>>)>> }

EveryDocument(s) ==
    {Node("r", <<>>, ks) : ks \in Flat \cup Nested \cup Strings \cup Wide}
        \cup {Node("r", as, ks) : as \in Attrs, ks \in {<<>>, <<Leaf("a")>>}}
==================================================================================
