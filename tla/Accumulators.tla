------------------------------- MODULE Accumulators -------------------------------
(***************************************************************************)
(* The values of one xsl:accumulator over one tree (xslt/accumulator.go): a *)
(* walk in document order that records, at every node, the value on the    *)
(* way in and on the way out.  A value that grows shares the array of the  *)
(* one it grew from, and what is stored is charged.                        *)
(*                                                                         *)
(* A sequence is a Go slice: an array, a length and a capacity.  What the  *)
(* select expression of a rule does with arrays is part of the model.      *)
(* Nodes are numbered in document order, and 1 is the root.                *)
(***************************************************************************)
EXTENDS Integers, Sequences, FiniteSets, Functions

CONSTANTS
    Walks,         \* what is walked: a tree and the rule of each node in each phase
    EventsOf(_),   \* the events of the walk over a tree, which DocumentOrder has
    MaxStored      \* the item limit of the evaluation

RuleKinds == {"none", "append", "append two", "replace", "reset", "before"}

\* Every node of a walk is entered once and left once, and entered before it is left.
ASSUME WalksAssumption ==
    /\ MaxStored \in Nat
    /\ \A w \in Walks :
          LET nodes == 1 .. Len(w.parent)
              es == EventsOf(w.parent)
          IN  /\ w.parent \in Seq(Nat)
              /\ w.start \in [nodes -> RuleKinds] /\ w.end \in [nodes -> RuleKinds]
              /\ es \in Seq({"start", "end"} \X nodes) /\ Len(es) = 2 * Len(w.parent)
              /\ \A i, j \in DOMAIN es : es[i] = es[j] => i = j
              /\ \A n \in nodes : \E i, j \in DOMAIN es :
                    es[i] = <<"start", n>> /\ es[j] = <<"end", n>> /\ i < j

VARIABLES
    walk,          \* the tree and the rules
    event,         \* how many events of the walk are behind
    arrays,        \* every array made, by what its cells hold
    value,         \* the accumulator's value
    tip,           \* the value stored last
    charged,       \* the items charged
    before, after, \* the values recorded
    outcome

accumVars == <<walk, event, arrays, value, tip, charged, before, after, outcome>>

Nodes == 1 .. Len(walk.parent)
Blank == "blank"

Slice(array, len, cap) == [array |-> array, len |-> len, cap |-> cap]
EmptySlice == Slice(0, 0, 0)
Items(v) == IF v.len = 0 THEN <<>> ELSE SubSeq(arrays[v.array], 1, v.len)
SameStart(v, w) == v.array = w.array

\* Mutant: the value keeps the room behind it.
Unclamped(v) == v

Clamped(v) == Slice(v.array, v.len, v.len)

\* append(v, items...): in place where v has room, else in an array that is twice as
\* large.  What it leaves is the arrays and the slice.
Appending(store, v, items) ==
    LET n == v.len + Len(items)
        kept == IF v.len = 0 THEN <<>> ELSE SubSeq(store[v.array], 1, v.len)
        cap == IF n > 2 * v.cap THEN n ELSE 2 * v.cap
    IN  IF items = <<>> THEN [store |-> store, slice |-> v]
        ELSE IF n <= v.cap
        THEN [store |-> [store EXCEPT ![v.array] =
                            [i \in DOMAIN @ |-> IF i \in v.len + 1 .. n THEN items[i - v.len] ELSE @[i]]],
              slice |-> Slice(v.array, n, v.cap)]
        ELSE [store |-> Append(store, [i \in 1 .. cap |->
                            IF i <= n THEN (kept \o items)[i] ELSE Blank]),
              slice |-> Slice(Len(store) + 1, n, cap)]

-----------------------------------------------------------------------------
(* The walk is a sequence of events: nodes are entered and left. *)

Events == EventsOf(walk.parent)
RuleOfEvent(k) == LET e == Events[k]
             IN  IF e[1] = "start" THEN walk.start[e[2]] ELSE walk.end[e[2]]

Phase == Events[event + 1][1]
Here == Events[event + 1][2]
Rule == RuleOfEvent(event + 1)

\* The items a rule adds are new ones: no two events add the same.
ItemsOfEvent(k, n) == [i \in 1 .. n |-> 10 * k + i]
NewItems(n) == ItemsOfEvent(event + 1, n)

\* ($value, ...): SequenceExpr copies its operands into an array of its own.
Constructed(items) ==
    LET copied == Appending(arrays, EmptySlice, Items(value))
    IN  Appending(copied.store, copied.slice, items)

\* applyAccumRules.  A rule that reads the value it computes is refused, and one
\* that reads the value its node was entered with is given the slice recorded.
RuleYields ==
    CASE Rule = "none" -> [store |-> arrays, slice |-> value]
      [] Rule = "append" -> Constructed(NewItems(1))
      [] Rule = "append two" -> Constructed(NewItems(2))
      [] Rule = "replace" -> Appending(arrays, EmptySlice, NewItems(2))
      [] Rule = "reset" -> [store |-> arrays, slice |-> EmptySlice]
      [] Rule = "before" -> [store |-> arrays, slice |-> before[Here]]

\* The charge for a value in an array of its own.
HeldForOther(v) == IF v.len > 1 THEN charged + v.len ELSE charged

\* extend: the value as it is stored, and the arrays, tip and charge it leaves.
Extended(y) ==
    LET next == y.slice
        found(v) == IF v.len = 0 THEN <<>> ELSE SubSeq(y.store[v.array], 1, v.len)
        grown == Appending(y.store, value, SubSeq(found(next), value.len + 1, next.len))
        stored == Clamped(next)
    IN  IF next.len = value.len /\ (next.len = 0 \/ SameStart(next, value))
        THEN [store |-> y.store, slice |-> next, tip |-> tip, charged |-> charged]
        ELSE IF /\ value.len > 0 /\ next.len > value.len
                /\ tip.len = value.len /\ SameStart(tip, value)
                /\ found(value) = SubSeq(found(next), 1, value.len)
        THEN [store |-> grown.store, slice |-> grown.slice, tip |-> grown.slice,
              charged |-> charged + next.len - value.len]
        ELSE [store |-> y.store, slice |-> stored, tip |-> stored, charged |-> HeldForOther(next)]

AccumInit ==
    /\ walk \in Walks
    /\ event = 0 /\ arrays = <<>>
    /\ value = EmptySlice /\ tip = EmptySlice /\ charged = 0
    /\ before = <<>> /\ after = <<>>
    /\ outcome = "walking"

Visit(phase) ==
    /\ outcome = "walking" /\ event < Len(Events) /\ Phase = phase
    /\ ~(Phase = "start" /\ Rule = "before")
    /\ LET e == Extended(RuleYields)
       IN  IF e.charged > MaxStored
           THEN /\ outcome' = "refused"
                /\ UNCHANGED <<event, arrays, value, tip, charged, before, after>>
           ELSE /\ arrays' = e.store /\ value' = e.slice /\ tip' = e.tip /\ charged' = e.charged
                /\ before' = IF phase = "start"
                             THEN [n \in DOMAIN before \cup {Here} |->
                                      IF n = Here THEN e.slice ELSE before[n]]
                             ELSE before
                /\ after' = IF phase = "end"
                            THEN [n \in DOMAIN after \cup {Here} |->
                                     IF n = Here THEN e.slice ELSE after[n]]
                            ELSE after
                /\ event' = event + 1
                /\ UNCHANGED outcome
    /\ UNCHANGED walk

\* A rule that asks for a value the walk has not recorded yet: XTDE3400.
Circular ==
    /\ outcome = "walking" /\ event < Len(Events)
    /\ Phase = "start" /\ Rule = "before"
    /\ outcome' = "circular"
    /\ UNCHANGED <<walk, event, arrays, value, tip, charged, before, after>>

EnterNode == Visit("start")
LeaveNode == Visit("end")

Cache ==
    /\ outcome = "walking" /\ event = Len(Events)
    /\ outcome' = "cached"
    /\ UNCHANGED <<walk, event, arrays, value, tip, charged, before, after>>

AccumNext == EnterNode \/ LeaveNode \/ Circular \/ Cache

AccumSpec == AccumInit /\ [][AccumNext]_accumVars

-----------------------------------------------------------------------------
\* The nodes whose value is restored when they are left, and the walks in which none
\* of them is left inside another: restoring them one in the other is what
\* RecordedStand does not survive.
Restoring(w) == {n \in DOMAIN w.end : w.end[n] = "before"}
RestoredApart(w) ==
    LET es == EventsOf(w.parent)
    IN  \A m, n \in Restoring(w) : \A i, j, k \in DOMAIN es :
            es[i] = <<"start", m>> /\ es[j] = <<"end", n>> /\ es[k] = <<"end", m>>
                => ~(i < j /\ j < k)

AccumTypeOK ==
    /\ event \in 0 .. 2 * Len(walk.parent)
    /\ \A v \in {value, tip} : v.len <= v.cap /\ v.array \in 0 .. Len(arrays)
    /\ DOMAIN before \subseteq Nodes /\ DOMAIN after \subseteq DOMAIN before
    /\ charged \in 0 .. MaxStored
    /\ outcome \in {"walking", "cached", "circular", "refused"}

\* What the value is after the first k events, had every sequence its own items.  A
\* rule that asks for a value before it is recorded is refused.
Entered(n) == CHOOSE i \in DOMAIN Events : Events[i] = <<"start", n>>
BroughtBack(k) == LET i == Entered(Events[k][2]) IN IF i < k THEN i ELSE k - 1

ValueAfter[k \in 0 .. Len(Events)] ==
    IF k = 0 THEN <<>>
    ELSE CASE RuleOfEvent(k) = "none" -> ValueAfter[k - 1]
           [] RuleOfEvent(k) = "append" -> ValueAfter[k - 1] \o ItemsOfEvent(k, 1)
           [] RuleOfEvent(k) = "append two" -> ValueAfter[k - 1] \o ItemsOfEvent(k, 2)
           [] RuleOfEvent(k) = "replace" -> ItemsOfEvent(k, 2)
           [] RuleOfEvent(k) = "reset" -> <<>>
           [] RuleOfEvent(k) = "before" -> ValueAfter[BroughtBack(k)]

\* Recorded values stay what they were when they were recorded, whatever is
\* appended to arrays they share afterwards.
RecordedStand ==
    \A k \in 1 .. event :
        LET n == Events[k][2]
        IN  Items(IF Events[k][1] = "start" THEN before[n] ELSE after[n]) = ValueAfter[k]

RecordedArrays == {v.array : v \in {before[n] : n \in DOMAIN before}
                                     \cup {after[n] : n \in DOMAIN after}} \ {0}

\* What the table keeps alive is charged.  An array is doubled when it grows, and its
\* value leaves the smaller ones behind with the values recorded before, which makes
\* four cells for an item; a value's first item is free, one at most at an event.
RoomOf(as) == SumFunction([x \in as |-> Len(arrays[x])])
StoredIsCharged == RoomOf(RecordedArrays) <= 4 * charged + event

\* The values recorded stay as they were, and are paid for.
ValuesKept == RecordedStand /\ StoredIsCharged

==================================================================================
