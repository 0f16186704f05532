------------------------------ MODULE RelaxNGLanguage ------------------------------
(***************************************************************************)
(* The documents a RELAX NG pattern denotes, by the rules of section 6.2   *)
(* of the RELAX NG specification that relaxng/validate.go names: what the  *)
(* verdicts of RelaxNG are held against.  A rule says which attributes and *)
(* which content a pattern matches, and asks for a division of both where  *)
(* the derivative reads them one after the other.                          *)
(***************************************************************************)
EXTENDS RelaxNG

\* The largest pattern a schema of the run may lead to, however wide the
\* document.
CONSTANT SizeBound

String(s) == [text |-> s]

\* The parts of a sequence at some of its places, in order.
Part(m, places) ==
    LET before(i) == Cardinality({j \in places : j < i})
    IN  [k \in 1 .. Cardinality(places) |->
            m[CHOOSE i \in places : before(i) = k - 1]]

RECURSIVE Denotes(_, _, _), ContentDenoted(_, _, _)
Denotes(p, as, m) ==
    CASE Is(p, "empty") -> as = {} /\ m = <<>>
      [] Is(p, "text") -> as = {} /\ \A i \in DOMAIN m : ~IsElement(m[i])
      [] Is(p, "choice") -> Denotes(p[2], as, m) \/ Denotes(p[3], as, m)
      [] Is(p, "group") ->
            \E bs \in SUBSET as, n \in 0 .. Len(m) :
                /\ Denotes(p[2], bs, SubSeq(m, 1, n))
                /\ Denotes(p[3], as \ bs, SubSeq(m, n + 1, Len(m)))
      [] Is(p, "interleave") ->
            \E bs \in SUBSET as, places \in SUBSET DOMAIN m :
                /\ Denotes(p[2], bs, Part(m, places))
                /\ Denotes(p[3], as \ bs, Part(m, DOMAIN m \ places))
      [] Is(p, "oneOrMore") ->
            \/ Denotes(p[2], as, m)
            \/ \E bs \in SUBSET as, n \in 0 .. Len(m) :
                  /\ bs # {} \/ n > 0
                  /\ Denotes(p[2], bs, SubSeq(m, 1, n))
                  /\ Denotes(p, as \ bs, SubSeq(m, n + 1, Len(m)))
      [] Is(p, "element") ->
            /\ as = {} /\ Len(m) = 1 /\ IsElement(m[1])
            /\ m[1].name \in p[2]
            /\ ContentDenoted(p[3], {m[1].attrs[i] : i \in DOMAIN m[1].attrs}, m[1].kids)
      [] Is(p, "attribute") ->
            /\ m = <<>>
            /\ \E a \in as : as = {a} /\ a.name \in p[2]
                  /\ ContentDenoted(p[3], {}, <<String(a.value)>>)
      [] Is(p, "value") -> as = {} /\ m = <<String(p[2])>>
      [] Is(p, "data") ->
            /\ as = {} /\ Len(m) = 1 /\ ~IsElement(m[1])
            /\ m[1].text \in p[2] /\ ~ContentDenoted(p[3], {}, m)
      [] Is(p, "list") ->
            /\ as = {} /\ Len(m) = 1 /\ ~IsElement(m[1])
            /\ Denotes(p[2], {}, [i \in DOMAIN m[1].text |-> String(<<m[1].text[i]>>)])
      [] Is(p, "ref") -> Denotes(Definition(p[2]), as, m)
      [] OTHER -> FALSE

\* The weak match of 6.2.7: beside elements white space is nothing; alone, it
\* is nothing or a string, and so is nothing.
ContentDenoted(p, as, kids) ==
    LET \* Texts in a row as one string.
        Merged[i \in 0 .. Len(kids)] ==
            LET before == Merged[i - 1]
                joined == i > 1 /\ ~IsElement(kids[i]) /\ ~IsElement(before[Len(before)])
            IN  CASE i = 0 -> <<>>
                  [] i > 0 /\ joined ->
                        SubSeq(before, 1, Len(before) - 1)
                            \o <<String(before[Len(before)].text \o kids[i].text)>>
                  [] OTHER -> Append(before, kids[i])
        m == Merged[Len(kids)]
    IN  IF \E i \in DOMAIN m : IsElement(m[i])
        THEN Denotes(p, as, SelectSeq(m, LAMBDA n : IsElement(n) \/ n.text # <<>>))
        ELSE IF m \in {<<>>, <<String(<<>>)>>}
        THEN Denotes(p, as, <<>>) \/ Denotes(p, as, <<String(<<>>)>>)
        ELSE Denotes(p, as, m)

Denoted == Denotes(schema, {}, <<document>>)

-----------------------------------------------------------------------------
\* A document is found valid only if the schema denotes it.
Sound == verdict = "valid" => Denoted

\* A document the schema denotes is found valid.
Complete == verdict = "invalid" => ~Denoted

\* The verdict is what the patterns mean.
VerdictIsMeaning == Sound /\ Complete

\* A pattern does not grow with the number of children: what choice merges
\* keeps the derivative of repeated and optional content small.
SizeIndependentOfWidth == PatternSize(pattern) <= SizeBound

\* What the validator carries from event to event says no more and no less than the
\* schema does, and stays small.
DerivativesHold == VerdictIsMeaning /\ SizeIndependentOfWidth
=====================================================================================
