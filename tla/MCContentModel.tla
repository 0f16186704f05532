------------------------------ MODULE MCContentModel ------------------------------
(* Particles with repetitions in one another, and words that fill and exceed them. *)
EXTENDS ContentModel

Once == <<1, 1>>
ZeroOrOne == <<0, 1>>
AnyNumber == <<0, Unbounded>>
Occurring(term, occurs) == Particle(term, occurs[1], occurs[2])
El(name, occurs) == Occurring(ElementTerm(name), occurs)
Seq1(p, occurs) == Occurring(GroupTerm("sequence", <<p>>), occurs)
Group2(compositor, p, q, occurs) == Occurring(GroupTerm(compositor, <<p, q>>), occurs)

\* Repetitions of one name, three deep.
NestedRepeats ==
    {Seq1(Seq1(El("a", o), i), t) :
        o \in {Once, AnyNumber, <<0, 2>>, <<2, 2>>, <<1, 3>>},
        i \in {Once, ZeroOrOne, <<2, 3>>, <<2, Unbounded>>},
        t \in {Once, <<2, 2>>, <<0, 2>>, <<3, Unbounded>>}}

\* Groups of two particles, of two names or of one.
Pairs ==
    {Group2(g, El("a", o), El(n, i), t) :
        g \in {"sequence", "choice"}, n \in {"a", "b"}, o \in {Once, ZeroOrOne, <<2, 2>>},
        i \in {Once, ZeroOrOne, AnyNumber}, t \in {Once, <<2, 2>>, <<0, 2>>, <<2, Unbounded>>}}

Odd ==
    { Occurring(GroupTerm("sequence", <<El("a", ZeroOrOne), El("b", ZeroOrOne), El("a", ZeroOrOne)>>), <<1, 2>>),
      Group2("sequence", Group2("choice", El("a", Once), El("b", <<2, 2>>), <<2, 2>>), El("b", ZeroOrOne), <<1, 2>>),
      Group2("choice", Group2("sequence", El("a", ZeroOrOne), El("b", ZeroOrOne), <<0, 2>>), El("a", <<3, 3>>), Once),
      Group2("sequence", Seq1(El("a", <<0, 2>>), <<2, 2>>), El("b", Once), <<1, 2>>),
      Occurring(GroupTerm("sequence", <<>>), Once),
      Group2("sequence", El("a", ZeroOrOne), Occurring(GroupTerm("choice", <<>>), Once), Once) }

EmptyChoice == Occurring(GroupTerm("choice", <<>>), Once)

Match(p, walker, names, size) == [particle |-> p, walker |-> walker, names |-> names, size |-> size]

\* The validator is given what the schema's other rules let through.
Walkers(p) == IF Attributes(Compile(p)) THEN {"matcher", "validator"} ELSE {"matcher"}

\* Bounds past what a byte can count to, which the names reach.
PastTheCap == {Match(El("a", <<0, 255>>), "matcher", {"a"}, 256),
               Match(El("a", <<255, 255>>), "matcher", {"a"}, 255)}

\* As many of one name as a byte can count, or more, below, at and above a bound.
Many ==
    {Match(El("a", <<255, 255>>), "validator", {"a"}, 255)}
    \cup {Match(El("a", <<0, 255>>), "validator", {"a"}, 256)}
    \cup {Match(El("a", o), "matcher", {"a"}, n) :
             o \in {<<0, 254>>, <<254, 254>>, <<254, Unbounded>>, <<0, 255>>, <<255, 255>>,
                    <<0, 256>>, <<256, 256>>},
             n \in {254, 255, 256}}
    \cup {Match(Seq1(El("a", <<2, 2>>), t), "matcher", {"a"}, 256) : t \in {<<127, 127>>, <<0, 127>>}}

SmallAndMany ==
    UNION {{Match(p, w, {"a"}, n) : w \in Walkers(p), n \in {1, 4, 7}} : p \in NestedRepeats}
    \cup UNION {{Match(p, w, {"a", "b"}, n) : w \in Walkers(p), n \in {0, 4}} : p \in Pairs}
    \cup UNION {{Match(p, w, {"a", "b"}, n) : w \in Walkers(p), n \in {3, 6}} : p \in Odd}
    \cup {Match(EmptyChoice, w, {"a"}, n) : w \in {"matcher", "validator"}, n \in {0, 1}}
    \cup Many
===================================================================================
