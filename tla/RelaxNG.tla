--------------------------------- MODULE RelaxNG ---------------------------------
(***************************************************************************)
(* Validation of a document against a RELAX NG schema by derivatives       *)
(* (relaxng/derive.go, relaxng/validate.go): the pattern the rest of the   *)
(* input has to match is carried through the document, event by event.     *)
(*                                                                         *)
(* A pattern is a tuple that begins with its kind.  A string is the        *)
(* sequence of its tokens, <<>> being white space or nothing: the          *)
(* datatypes are those that normalise white space.  A name class is the    *)
(* set of its names.  The memo tables, which answer what a derivative      *)
(* would, are left out; NameMemo is about theirs.                          *)
(***************************************************************************)
EXTENDS Naturals, Sequences, FiniteSets

CONSTANTS
    Schemas,         \* the start patterns
    Definition(_),   \* what a reference stands for
    Documents(_),    \* the root elements tried on a schema
    MaxMergePairs,   \* maxMergePairs, 1024 in the code
    MaxDepth,        \* validator.maxDepth, 1000 unless the caller sets it
    MaxPattern       \* validator.maxPattern, 100000 unless the caller sets it

VARIABLES
    schema,          \* Schema.start
    document,        \* the root element
    open,            \* the elements begun and not ended: the node, and how
                     \* many of its children were read
    pattern,             \* the pattern carried
    verdict          \* what ValidateWithOptions reports in the end

relaxVars == <<schema, document, open, pattern, verdict>>

NotAllowed == <<"notAllowed">>
EmptyPattern == <<"empty">>
TextPattern == <<"text">>

Is(p, kind) == p[1] = kind

\* expand: a definition may be a reference in its turn.
RECURSIVE Expand(_)
Expand(p) == IF Is(p, "ref") THEN Expand(Definition(p[2])) ELSE p

RECURSIVE Nullable(_)
Nullable(p) ==
    CASE p[1] \in {"empty", "text"} -> TRUE
      [] Is(p, "choice") -> Nullable(p[2]) \/ Nullable(p[3])
      [] p[1] \in {"group", "interleave"} -> Nullable(p[2]) /\ Nullable(p[3])
      [] Is(p, "oneOrMore") -> Nullable(p[2])
      [] Is(p, "ref") -> Nullable(Definition(p[2]))
      [] OTHER -> FALSE

-----------------------------------------------------------------------------
(* The constructors simplify as they build. *)

RECURSIVE HoldsData(_)
HoldsData(p) ==
    CASE p[1] \in {"value", "data"} -> TRUE
      [] p[1] \in {"choice", "group", "interleave", "after"} ->
            HoldsData(p[2]) \/ HoldsData(p[3])
      [] p[1] \in {"oneOrMore", "list"} -> HoldsData(p[2])
      [] p[1] \in {"element", "attribute"} -> HoldsData(p[3])
      [] OTHER -> FALSE

\* patEq: values and data never compare equal.
PatEq(a, b) == a = b /\ ~HoldsData(a)

RECURSIVE AltCount(_)
AltCount(p) == IF Is(p, "choice") THEN AltCount(p[2]) + AltCount(p[3]) ELSE 1

\* Mutant: an alternative is looked for at the end of the chain only.
InChoiceLast(a, b) == PatEq(IF Is(a, "choice") THEN a[3] ELSE a, b)

\* inChoice: b is one of the alternatives of a.
RECURSIVE InChoice(_, _)
InChoice(a, b) ==
    IF Is(a, "choice") THEN PatEq(a[3], b) \/ InChoice(a[2], b) ELSE PatEq(a, b)

RECURSIVE Choice(_, _)
Choice(a, b) ==
    CASE a = NotAllowed -> b
      [] a # NotAllowed /\ b = NotAllowed -> a
      [] a # NotAllowed /\ b # NotAllowed /\ (PatEq(a, b) \/ InChoice(a, b)) -> a
      [] OTHER -> IF Is(b, "choice") /\ AltCount(a) * AltCount(b) <= MaxMergePairs
                  THEN Choice(Choice(a, b[2]), b[3])
                  ELSE <<"choice", a, b>>

\* group and interleave.
Both(kind, a, b) ==
    IF NotAllowed \in {a, b} THEN NotAllowed
    ELSE IF a = EmptyPattern THEN b
    ELSE IF b = EmptyPattern THEN a
    ELSE <<kind, a, b>>

Group(a, b) == Both("group", a, b)
Interleaving(a, b) == Both("interleave", a, b)
After(a, b) == IF NotAllowed \in {a, b} THEN NotAllowed ELSE <<"after", a, b>>
OneOrMore(p) == IF p = NotAllowed THEN NotAllowed ELSE <<"oneOrMore", p>>

\* What may follow one of a oneOrMore.
More(p) == Choice(OneOrMore(p[2]), EmptyPattern)

-----------------------------------------------------------------------------
(* The derivatives. *)

\* applyAfter, for the ways the derivative rewrites what follows an element:
\* `how` says how, and q is the rest of the pattern the element is in.
Follow(how, x, q) ==
    CASE how = "group" -> Group(x, q)
      [] how = "interleaveLeft" -> Interleaving(x, q)
      [] how = "interleaveRight" -> Interleaving(q, x)
      [] how = "after" -> After(x, q)

RECURSIVE ApplyAfter(_, _, _)
ApplyAfter(how, q, p) ==
    CASE Is(p, "after") -> After(p[2], Follow(how, p[3], q))
      [] Is(p, "choice") -> Choice(ApplyAfter(how, q, p[2]), ApplyAfter(how, q, p[3]))
      [] OTHER -> NotAllowed

RECURSIVE StartTagOpenDeriv(_, _)
StartTagOpenDeriv(p0, name) ==
    LET p == Expand(p0)
    IN  CASE Is(p, "choice") ->
                Choice(StartTagOpenDeriv(p[2], name), StartTagOpenDeriv(p[3], name))
          [] Is(p, "element") -> IF name \in p[2] THEN After(p[3], EmptyPattern) ELSE NotAllowed
          [] Is(p, "interleave") ->
                Choice(ApplyAfter("interleaveLeft", p[3], StartTagOpenDeriv(p[2], name)),
                       ApplyAfter("interleaveRight", p[2], StartTagOpenDeriv(p[3], name)))
          [] Is(p, "oneOrMore") ->
                ApplyAfter("group", More(p), StartTagOpenDeriv(p[2], name))
          [] Is(p, "group") ->
                LET d == ApplyAfter("group", p[3], StartTagOpenDeriv(p[2], name))
                IN  IF Nullable(p[2]) THEN Choice(d, StartTagOpenDeriv(p[3], name)) ELSE d
          [] Is(p, "after") -> ApplyAfter("after", p[3], StartTagOpenDeriv(p[2], name))
          [] OTHER -> NotAllowed

\* What textDeriv and attDeriv make of a value.
RECURSIVE TextDeriv(_, _)
TextDeriv(p0, s) ==
    LET p == Expand(p0)
        \* valueMatch.
        Matches(q) == (Nullable(q) /\ s = <<>>) \/ TextDeriv(q, s) # NotAllowed
    IN  CASE Is(p, "choice") -> Choice(TextDeriv(p[2], s), TextDeriv(p[3], s))
          [] Is(p, "interleave") ->
                Choice(Interleaving(TextDeriv(p[2], s), p[3]), Interleaving(p[2], TextDeriv(p[3], s)))
          [] Is(p, "group") ->
                LET d == Group(TextDeriv(p[2], s), p[3])
                IN  IF Nullable(p[2]) THEN Choice(d, TextDeriv(p[3], s)) ELSE d
          [] Is(p, "after") -> After(TextDeriv(p[2], s), p[3])
          [] Is(p, "oneOrMore") -> Group(TextDeriv(p[2], s), More(p))
          [] Is(p, "text") -> p
          [] Is(p, "value") -> IF s = p[2] THEN EmptyPattern ELSE NotAllowed
          [] Is(p, "data") -> IF s \in p[2] /\ ~Matches(p[3]) THEN EmptyPattern ELSE NotAllowed
          [] Is(p, "list") ->
                LET Left[i \in 0 .. Len(s)] ==
                        IF i = 0 THEN p[2] ELSE TextDeriv(Left[i - 1], <<s[i]>>)
                IN  IF Nullable(Left[Len(s)]) THEN EmptyPattern ELSE NotAllowed
          [] OTHER -> NotAllowed

ValueMatch(p, s) == (Nullable(p) /\ s = <<>>) \/ TextDeriv(p, s) # NotAllowed

RECURSIVE AttDeriv(_, _)
AttDeriv(p0, a) ==
    LET p == Expand(p0)
        Either(Join(_, _)) ==
            Choice(Join(AttDeriv(p[2], a), p[3]), Join(p[2], AttDeriv(p[3], a)))
    IN  CASE Is(p, "after") -> After(AttDeriv(p[2], a), p[3])
          [] Is(p, "choice") -> Choice(AttDeriv(p[2], a), AttDeriv(p[3], a))
          [] Is(p, "group") -> Either(Group)
          [] Is(p, "interleave") -> Either(Interleaving)
          [] Is(p, "oneOrMore") -> Group(AttDeriv(p[2], a), More(p))
          [] Is(p, "attribute") ->
                IF a.name \in p[2] /\ ValueMatch(p[3], a.value) THEN EmptyPattern ELSE NotAllowed
          [] OTHER -> NotAllowed

\* startTagCloseDeriv: no attribute is to come any more.  A part that holds no
\* attribute comes back as it is.
RECURSIVE StartTagCloseDeriv(_)
StartTagCloseDeriv(p0) ==
    LET p == Expand(p0)
        l == StartTagCloseDeriv(p[2])
        r == StartTagCloseDeriv(p[3])
        same == l = p[2] /\ r = p[3]
    IN  CASE Is(p, "after") -> IF l = p[2] THEN p0 ELSE After(l, p[3])
          [] Is(p, "choice") -> IF same THEN p0 ELSE Choice(l, r)
          [] Is(p, "group") -> IF same THEN p0 ELSE Group(l, r)
          [] Is(p, "interleave") -> IF same THEN p0 ELSE Interleaving(l, r)
          [] Is(p, "oneOrMore") -> IF l = p[2] THEN p0 ELSE OneOrMore(l)
          [] Is(p, "attribute") -> NotAllowed
          [] OTHER -> p0

\* Mutant: an element may end before its content is complete.
RECURSIVE EndTagDerivEarly(_)
EndTagDerivEarly(p) ==
    CASE Is(p, "choice") -> Choice(EndTagDerivEarly(p[2]), EndTagDerivEarly(p[3]))
      [] Is(p, "after") -> p[3]
      [] OTHER -> NotAllowed

RECURSIVE EndTagDeriv(_)
EndTagDeriv(p) ==
    CASE Is(p, "choice") -> Choice(EndTagDeriv(p[2]), EndTagDeriv(p[3]))
      [] Is(p, "after") -> IF Nullable(p[2]) THEN p[3] ELSE NotAllowed
      [] OTHER -> NotAllowed

\* patternSize: the contents of elements and attributes do not count.
RECURSIVE PatternSize(_)
PatternSize(p) ==
    CASE p[1] \in {"choice", "group", "interleave", "after"} ->
            1 + PatternSize(p[2]) + PatternSize(p[3])
      [] p[1] \in {"oneOrMore", "list"} -> 1 + PatternSize(p[2])
      [] OTHER -> 1

-----------------------------------------------------------------------------
(* The validator.  A node is an element, a record of its name, attributes  *)
(* and children, or a text, a record of its tokens.                        *)

IsElement(n) == "name" \in DOMAIN n

Top == open[Len(open)]
Kids == Top.node.kids
HasElement(el) == \E i \in DOMAIN el.kids : IsElement(el.kids[i])

\* The pattern is carried on, or nothing can match any more.
Carry(p) ==
    /\ pattern' = p
    /\ verdict' = IF p = NotAllowed THEN "invalid" ELSE "reading"

\* The depth and the pattern's size are looked at before a derivative is taken,
\* and what exceeds its bound ends the validation with an error of its own.
TooBig(p) == PatternSize(p) > MaxPattern

\* childDeriv, up to the element's children: the start tag, its attributes in
\* turn (attsDeriv), and that no more are to come.
StartTag(p, el) ==
    LET after[i \in 0 .. Len(el.attrs)] ==
            IF i = 0 THEN StartTagOpenDeriv(p, el.name)
            ELSE AttDeriv(after[i - 1], el.attrs[i])
    IN  IF \/ Len(open) >= MaxDepth \/ TooBig(p)
           \/ \E i \in DOMAIN el.attrs : TooBig(after[i - 1])
        THEN pattern' = NotAllowed /\ verdict' = "refused"
        ELSE Carry(StartTagCloseDeriv(after[Len(el.attrs)]))

RelaxInit ==
    /\ schema \in Schemas
    /\ document \in Documents(schema)
    /\ open = <<>> /\ pattern = schema /\ verdict = "new"

ReadTo(i) == open' = [open EXCEPT ![Len(open)].read = i]

\* childDeriv of the root, or of the next child.
StartElement ==
    /\ \/ /\ verdict = "new"
          /\ open' = <<[node |-> document, read |-> 0]>>
          /\ StartTag(pattern, document)
       \/ /\ verdict = "reading" /\ open # <<>> /\ Top.read < Len(Kids)
          /\ LET el == Kids[Top.read + 1]
             IN  /\ IsElement(el)
                 /\ open' = [open EXCEPT ![Len(open)].read = @ + 1]
                                \o <<[node |-> el, read |-> 0]>>
                 /\ StartTag(pattern, el)
    /\ UNCHANGED <<schema, document>>

\* A run of text nodes is one string.  White space is nothing beside elements,
\* and either text or nothing as an element's only content.
Characters ==
    /\ verdict = "reading" /\ open # <<>> /\ Top.read < Len(Kids)
    /\ ~IsElement(Kids[Top.read + 1])
    /\ \E last \in Top.read + 1 .. Len(Kids) :
          LET s[i \in Top.read .. last] ==
                  IF i = Top.read THEN <<>> ELSE s[i - 1] \o Kids[i].text
              str == s[last]
          IN  /\ \A i \in Top.read + 1 .. last : ~IsElement(Kids[i])
              /\ last < Len(Kids) => IsElement(Kids[last + 1])
              /\ ReadTo(last)
              /\ CASE str # <<>> -> Carry(TextDeriv(pattern, str))
                   [] str = <<>> /\ HasElement(Top.node) -> UNCHANGED <<pattern, verdict>>
                   [] OTHER -> Carry(Choice(pattern, TextDeriv(pattern, str)))
    /\ UNCHANGED <<schema, document>>

\* childrenDeriv of an element without children: its content is nothing, or
\* the empty string if the end tag is allowed after that.
Childless(p) ==
    LET d == TextDeriv(p, <<>>)
    IN  IF EndTagDeriv(d) # NotAllowed THEN d ELSE p

EndElement ==
    /\ verdict = "reading" /\ open # <<>> /\ Top.read = Len(Kids)
    /\ Carry(EndTagDeriv(IF Kids = <<>> THEN Childless(pattern) ELSE pattern))
    /\ open' = SubSeq(open, 1, Len(open) - 1)
    /\ UNCHANGED <<schema, document>>

\* The root has ended.
Conclude ==
    /\ verdict = "reading" /\ open = <<>>
    /\ verdict' = IF Nullable(pattern) THEN "valid" ELSE "invalid"
    /\ UNCHANGED <<schema, document, open, pattern>>

RelaxNext == StartElement \/ Characters \/ EndElement \/ Conclude

RelaxSpec == RelaxInit /\ [][RelaxNext]_relaxVars

Verdicts == {"new", "reading", "valid", "invalid", "refused"}

RelaxTypeOK ==
    /\ schema \in Schemas
    /\ document \in Documents(schema)
    /\ \A i \in DOMAIN open : open[i].read \in 0 .. Len(open[i].node.kids)
    /\ verdict \in Verdicts
    /\ (pattern = NotAllowed) => (verdict \in {"invalid", "refused"})
==================================================================================
