------------------------------- MODULE ContentModel -------------------------------
(***************************************************************************)
(* Content models of XML Schema (xsd/automaton.go, xsd/nfa.go and          *)
(* matchSequence of xsd/validate.go): a particle is compiled to a position *)
(* automaton with a counter for each repetition, and a sequence of names   *)
(* is walked through it with every reading of the counts at once.          *)
(*                                                                         *)
(* Positions and counters are numbered from 1, and 0 is the position       *)
(* before the first name.  Wildcards, open content, all groups,            *)
(* substitution groups and the limits on the size of a model are left out. *)
(***************************************************************************)
EXTENDS Integers, Sequences, FiniteSets

CONSTANTS
    Inputs,           \* what is matched: a particle, by which walker, with how many
                      \* of which names
    CountCap,         \* the largest count encodeCounts can write, 254 in the code
    MaxMatchStates    \* DefaultMaxMatchStates, 4096 in the code

VARIABLES
    input,            \* the particle, the walker, the names and how many there are
    model,            \* the compiled particle
    word,             \* the names read so far
    states,           \* the executions that are consistent with them
    matching

contentVars == <<input, model, word, states, matching>>

Unbounded == -1

\* A particle: a name or a group, and how often it may occur.
Particle(term, min, max) == [term |-> term, min |-> min, max |-> max]
ElementTerm(name) == [kind |-> "element", name |-> name, particles |-> <<>>]
GroupTerm(compositor, particles) == [kind |-> compositor, name |-> "", particles |-> particles]

-----------------------------------------------------------------------------
(* compileContentModel. *)

NewModel == [positions |-> <<>>, counters |-> <<>>, edges |-> <<>>]

\* A model under construction and the Glushkov data of the part built last.
Fragment(m, first, last, nullable) ==
    [m |-> m, first |-> first, last |-> last, nullable |-> nullable]

\* The counters around a scope, outermost first; counters are numbered inwards.
RECURSIVE CounterChain(_, _)
CounterChain(counters, scope) ==
    IF scope = 0 THEN <<>>
    ELSE Append(CounterChain(counters, counters[scope].parent), scope)

\* The edges are kept as they were added, a set for each addition.
AddFollow(m, from, to) == [m EXCEPT !.edges = Append(@, {<<f, t>> : f \in from, t \in to})]

\* What is known of a repetition when its body has been built: where one turn of
\* it begins and ends, the edges within a turn, and whether a turn may be empty.
RecordScope(f, scope, mark) ==
    Fragment([f.m EXCEPT !.counters[scope] =
                 [@ EXCEPT !.emptiable = f.nullable, !.first = f.first, !.last = f.last,
                           !.inner = UNION {f.m.edges[i] : i \in mark + 1 .. Len(f.m.edges)}]],
             f.first, f.last, f.nullable)

\* Where a sequence may end once a particle has been added to it.
SequencedLasts(f, last) == f.last \cup (IF f.nullable THEN last ELSE {})

RECURSIVE Build(_, _, _), BuildSequence(_, _, _), BuildChoice(_, _, _)

Build(m, p, enclosing) ==
    LET counted == p.min # 1 \/ p.max # 1
        opened == IF counted
                  THEN [m EXCEPT !.counters = Append(@,
                           [min |-> p.min, max |-> p.max, parent |-> enclosing,
                            emptiable |-> FALSE, first |-> {}, last |-> {}, inner |-> {}])]
                  ELSE m
        scope == IF counted THEN Len(opened.counters) ELSE enclosing
        here == Len(opened.positions) + 1
        body == CASE p.term.kind = "element" ->
                       Fragment([opened EXCEPT !.positions = Append(@,
                                    [name |-> p.term.name,
                                     counters |-> CounterChain(opened.counters, scope)])],
                                {here}, {here}, FALSE)
                  [] p.term.kind = "sequence" ->
                       BuildSequence(Fragment(opened, {}, {}, TRUE), p.term.particles, scope)
                  [] p.term.kind = "choice" ->
                       BuildChoice(Fragment(opened, {}, {}, FALSE), p.term.particles, scope)
        noted == IF counted THEN RecordScope(body, scope, Len(m.edges)) ELSE body
    IN  Fragment(IF p.max = Unbounded \/ p.max > 1
                 THEN AddFollow(noted.m, noted.last, noted.first) ELSE noted.m,
                 noted.first, noted.last, noted.nullable \/ p.min = 0)

BuildSequence(sofar, particles, scope) ==
    IF particles = <<>> THEN sofar
    ELSE LET f == Build(sofar.m, Head(particles), scope)
         IN  BuildSequence(Fragment(AddFollow(f.m, sofar.last, f.first),
                                    sofar.first \cup (IF sofar.nullable THEN f.first ELSE {}),
                                    SequencedLasts(f, sofar.last),
                                    sofar.nullable /\ f.nullable),
                           Tail(particles), scope)

BuildChoice(sofar, particles, scope) ==
    IF particles = <<>> THEN sofar
    ELSE LET f == Build(sofar.m, Head(particles), scope)
         IN  BuildChoice(Fragment(f.m, sofar.first \cup f.first, sofar.last \cup f.last,
                                  sofar.nullable \/ f.nullable),
                         Tail(particles), scope)

Compile(p) ==
    LET f == Build(NewModel, p, 0)
    IN  [positions |-> f.m.positions, counters |-> f.m.counters,
         first |-> f.first, last |-> f.last, nullable |-> f.nullable,
         follow |-> [i \in DOMAIN f.m.positions |->
                        {e[2] : e \in {x \in UNION {f.m.edges[k] : k \in DOMAIN f.m.edges} :
                                          x[1] = i}}]]

\* Unique Particle Attribution, for models of elements: a name never leaves a
\* choice between two positions.
Attributes(m) ==
    \A from \in {m.first} \cup {m.follow[i] : i \in DOMAIN m.positions} :
        \A i, j \in from : m.positions[i].name = m.positions[j].name => i = j

-----------------------------------------------------------------------------
(* The walk. *)

\* The most a counter can reach among n names, Unbounded when its maximum is
\* out of reach.
Reach(c) ==
    IF model.counters[c].max # Unbounded /\ model.counters[c].max <= input.size
    THEN model.counters[c].max ELSE Unbounded

CapCount(c, n) ==
    IF Reach(c) = Unbounded
    THEN IF n > model.counters[c].min THEN model.counters[c].min + 1 ELSE n
    ELSE IF n > Reach(c) THEN Reach(c) ELSE n

Satisfied(c, n) == n >= model.counters[c].min \/ model.counters[c].emptiable

CountersOf(i) == model.positions[i].counters
FromDepth(chain, d) == {chain[i] : i \in d .. Len(chain)}

EnterCounts(i) ==
    [c \in DOMAIN model.counters |-> IF c \in FromDepth(CountersOf(i), 1) THEN CapCount(c, 1) ELSE 0]

\* The counters two chains share are a prefix of both.
SharedDepth(a, b) ==
    CHOOSE d \in 0 .. Len(a) :
        /\ d <= Len(b) /\ \A i \in 1 .. d : a[i] = b[i]
        /\ d = Len(a) \/ d = Len(b) \/ a[d + 1] # b[d + 1]

MayLeave(from, depth, counts) ==
    \A c \in FromDepth(CountersOf(from), depth) : Satisfied(c, counts[c])

\* The scopes of `from` that lie deeper than `depth` are left, those of `to` entered.
Crossed(from, to, depth, counts) ==
    [c \in DOMAIN counts |->
        IF c \in FromDepth(CountersOf(to), depth) THEN CapCount(c, 1)
        ELSE IF c \in FromDepth(CountersOf(from), depth) THEN 0 ELSE counts[c]]

\* Mutant: the edge that repeats a group is taken for a step within it as well.
StepsForwardAnyhow(from, to, counts) ==
    LET depth == SharedDepth(CountersOf(from), CountersOf(to))
    IN  IF MayLeave(from, depth + 1, counts) THEN {Crossed(from, to, depth + 1, counts)} ELSE {}

\* The reading of a step under which no shared scope begins another turn: it has
\* to be an edge within a turn of the innermost one.
StepsForward(from, to, counts) ==
    LET a == CountersOf(from)
        depth == SharedDepth(a, CountersOf(to))
    IN  IF /\ depth > 0 => <<from, to>> \in model.counters[a[depth]].inner
           /\ MayLeave(from, depth + 1, counts)
        THEN {Crossed(from, to, depth + 1, counts)} ELSE {}

\* The readings under which the k-th shared scope begins another turn: it has one
\* left, `from` may end a turn of it and `to` begin one, and what is inside it
\* is left.
StepsAround(from, to, counts) ==
    LET a == CountersOf(from)
        Turns(k) == /\ from \in model.counters[a[k]].last
                    /\ to \in model.counters[a[k]].first
                    /\ Reach(a[k]) # Unbounded => counts[a[k]] < Reach(a[k])
        splits == {k \in 1 .. SharedDepth(a, CountersOf(to)) :
                      Turns(k) /\ MayLeave(from, k + 1, counts)}
    IN  {[Crossed(from, to, k + 1, counts) EXCEPT ![a[k]] = CapCount(a[k], counts[a[k]] + 1)]
         : k \in splits}

StepCounts(from, to, counts) ==
    StepsForward(from, to, counts) \cup StepsAround(from, to, counts)

\* Mutant: one more than encodeCounts lets into a byte.
EncodedToTheByte(counts) ==
    IF input.walker = "validator" THEN counts
    ELSE [c \in DOMAIN counts |-> IF counts[c] > CountCap + 1 THEN CountCap + 1 ELSE counts[c]]

\* encodeCounts, of SequenceMatcher; the validator carries the counts themselves.
Encoded(counts) ==
    IF input.walker = "validator" THEN counts
    ELSE [c \in DOMAIN counts |-> IF counts[c] > CountCap THEN CountCap ELSE counts[c]]

Execution(pos, counts) == [pos |-> pos, counts |-> counts]

InitialStates(m) == {Execution(0, [c \in DOMAIN m.counters |-> 0])}

Candidates(pos) == IF pos = 0 THEN model.first ELSE model.follow[pos]

Successors(st, name) ==
    {Execution(s[1], Encoded(s[2])) :
        s \in UNION {IF st.pos = 0 THEN {<<to, EnterCounts(to)>>}
                     ELSE {<<to, v>> : v \in StepCounts(st.pos, to, st.counts)}
                     : to \in {i \in Candidates(st.pos) : model.positions[i].name = name}}}

Accepting(st) ==
    IF st.pos = 0 THEN model.nullable
    ELSE /\ st.pos \in model.last
         /\ \A c \in FromDepth(CountersOf(st.pos), 1) : Satisfied(c, st.counts[c])

ContentInit ==
    /\ input \in Inputs
    /\ model = Compile(input.particle)
    /\ word = <<>>
    /\ states = InitialStates(model)
    /\ matching = "none"

\* The matcher answers by the number of names when the model has no positions; so
\* does the validator, which has refused an element without children before if
\* its particle cannot be empty.
WalkNothing ==
    /\ matching = "none" /\ model.positions = <<>>
    /\ IF input.size > 0
       THEN /\ matching' = "refused"
            /\ \E name \in input.names : word' = <<name>>
       ELSE /\ matching' = IF input.walker = "validator" /\ ~model.nullable
                          THEN "incomplete" ELSE "accepted"
            /\ UNCHANGED word
    /\ UNCHANGED <<input, model, states>>

ReadChild ==
    /\ matching = "none" /\ model.positions # <<>> /\ Len(word) < input.size
    /\ \E name \in input.names :
          LET next == UNION {Successors(st, name) : st \in states}
          IN  /\ word' = Append(word, name)
              /\ IF next = {} THEN matching' = "refused" /\ UNCHANGED states
                 ELSE IF Cardinality(next) > MaxMatchStates
                 THEN matching' = "undecided" /\ UNCHANGED states
                 ELSE states' = next /\ UNCHANGED matching
    /\ UNCHANGED <<input, model>>

ConcludeMatch ==
    /\ matching = "none" /\ model.positions # <<>> /\ Len(word) = input.size
    /\ matching' = IF \E st \in states : Accepting(st) THEN "accepted" ELSE "incomplete"
    /\ UNCHANGED <<input, model, word, states>>

ContentNext == WalkNothing \/ ReadChild \/ ConcludeMatch

ContentSpec == ContentInit /\ [][ContentNext]_contentVars

-----------------------------------------------------------------------------
ContentTypeOK ==
    /\ input.walker \in {"matcher", "validator"}
    /\ Len(word) <= input.size
    /\ \A st \in states :
          /\ st.pos \in 0 .. Len(model.positions)
          /\ DOMAIN st.counts = DOMAIN model.counters
    /\ matching \in {"none", "accepted", "incomplete", "refused", "undecided"}

\* What a particle means (XML Schema Part 1, 3.9.4): the content is cut into at
\* least min and at most max parts that its term matches, and some may be empty.
\* Ends is the places in w where content that begins at i may end.
RECURSIVE Ends(_, _, _), TermEnds(_, _, _), EndsOfAll(_, _, _), TurnEnds(_, _, _, _)

TermEnds(t, w, i) ==
    CASE t.kind = "element" -> IF i < Len(w) /\ w[i + 1] = t.name THEN {i + 1} ELSE {}
      [] t.kind = "choice" -> UNION {Ends(t.particles[k], w, i) : k \in DOMAIN t.particles}
      [] t.kind = "sequence" -> EndsOfAll(t.particles, w, {i})

EndsOfAll(particles, w, from) ==
    IF particles = <<>> THEN from
    ELSE EndsOfAll(Tail(particles), w, UNION {Ends(Head(particles), w, i) : i \in from})

\* The ends of k or more and at most n turns, after those that ended at `from`.
TurnEnds(p, w, from, turn) ==
    (IF turn >= p.min THEN from ELSE {}) \cup
    (IF from = {} \/ turn = (IF p.max = Unbounded THEN p.min + Len(w) ELSE p.max) THEN {}
     ELSE TurnEnds(p, w, UNION {TermEnds(p.term, w, i) : i \in from}, turn + 1))

Ends(p, w, i) == TurnEnds(p, w, {i}, 0)

Valid(w) == Len(w) \in Ends(input.particle, w, 0)

\* What is accepted is as `valid` says, and what is not accepted is not: neither when
\* the walk ran out of names, nor when it stopped at one, whatever would have followed.
Decides(valid(_)) ==
    /\ matching = "accepted" => valid(word)
    /\ matching = "incomplete" => ~valid(word)
    /\ matching = "refused" =>
          \A n \in 0 .. input.size - Len(word) :
              \A rest \in [1 .. n -> input.names] : ~valid(word \o rest)

\* The walk decides validity: one reading of what it accepts meets every bound, and
\* none of what it refuses does.  Of an empty choice: it matches nothing at all, not
\* even the empty sequence (buildChoice).  The comment on encodeCounts promises it of
\* a matcher whatever the bounds: every count is kept inside a byte, since past the
\* maximum of a scope the exact count no longer changes any decision.
WalkDecides == Decides(Valid)

\* No bound lies past what a byte can count to and within what the names can reach.
BoundsFitAByte ==
    \A c \in DOMAIN model.counters :
        LET b == model.counters[c]
        IN  /\ b.min <= CountCap \/ b.min > input.size
            /\ b.max = Unbounded \/ b.max <= CountCap \/ b.max >= input.size

\* The particle a matcher decides instead: a minimum no byte can count to is one that
\* the names do not reach, and such a maximum is none.
RECURSIVE InBytes(_)
InBytes(p) ==
    [min |-> IF p.min > CountCap THEN p.min + input.size ELSE p.min,
     max |-> IF p.max > CountCap THEN Unbounded ELSE p.max,
     term |-> IF p.term.kind = "element" THEN p.term
              ELSE GroupTerm(p.term.kind, [k \in DOMAIN p.term.particles |-> InBytes(p.term.particles[k])])]

\* What a matcher takes for valid.  A model without positions it asks for no names only.
ValidInBytes(w) ==
    IF model.positions = <<>> THEN w = <<>> ELSE Len(w) \in Ends(InBytes(input.particle), w, 0)

\* The validator decides validity, and so does SequenceMatcher of bounds its bytes can
\* hold, however the counts of nested repetitions were capped and merged on the way.
\* Of other bounds, and of a choice of nothing, SequenceMatcher decides as ValidInBytes
\* says, which is not what the comments on encodeCounts and buildChoice say.
MatchedIsValid ==
    IF input.walker = "matcher"
    THEN /\ Decides(ValidInBytes)
         /\ BoundsFitAByte /\ model.positions # <<>> => WalkDecides
    ELSE WalkDecides

===================================================================================
