---------------------------------- MODULE Windows ----------------------------------
(***************************************************************************)
(* The window clause of XQuery (xquery/window.go): the items of a binding  *)
(* sequence at which windows start are tried in order, the end of each is  *)
(* searched for, and what is found is emitted.                             *)
(*                                                                         *)
(* The conditions are data: where the start condition holds, and for each  *)
(* start where the end condition does, since its variables are in scope    *)
(* there.  Without an end condition the start condition is asked again,    *)
(* with its variables bound anew.                                          *)
(***************************************************************************)
EXTENDS Naturals, Sequences

CONSTANTS
    Clauses         \* the clauses, with the length of the sequence they bind

\* The conditions hold at items of the sequence.
ASSUME WindowsAssumption ==
    \A c \in Clauses :
        /\ c.length \in Nat
        /\ c.starts \subseteq 1 .. c.length
        /\ \A i \in 1 .. c.length : c.ends[i] \subseteq 1 .. c.length

VARIABLES
    clause,
    startAt,        \* the position tried as a start
    endAt,          \* the position tried as its end, 0 while there is no window
    windows         \* the tuples emitted

windowVars == <<clause, startAt, endAt, windows>>

\* A window by its first and last item, and whether an end was found.
Window(first, last, closed) == [first |-> first, last |-> last, closed |-> closed]

Length == clause.length

\* Mutant: a tumbling window's successor may start at its last item.
ResumeInside(last) == IF clause.sliding \/ last = startAt THEN startAt + 1 ELSE last

\* Where the next start is looked for after a window was emitted.
ResumeAfter(last) == IF clause.sliding THEN startAt + 1 ELSE last + 1

WindowsInit ==
    /\ clause \in Clauses
    /\ startAt = 1 /\ endAt = 0 /\ windows = <<>>

TryStart ==
    /\ endAt = 0 /\ startAt <= Length
    /\ IF startAt \notin clause.starts THEN startAt' = startAt + 1 /\ UNCHANGED endAt
       ELSE endAt' = (IF clause.hasEnd THEN startAt ELSE startAt + 1) /\ UNCHANGED startAt
    /\ UNCHANGED <<clause, windows>>

Emit(last, closed) ==
    /\ windows' = Append(windows, Window(startAt, last, closed))
    /\ startAt' = ResumeAfter(last) /\ endAt' = 0

\* findEnd.
TryEnd ==
    /\ endAt > 0 /\ endAt <= Length
    /\ IF clause.hasEnd
       THEN IF endAt \in clause.ends[startAt] THEN Emit(endAt, TRUE)
            ELSE endAt' = endAt + 1 /\ UNCHANGED <<startAt, windows>>
       ELSE IF endAt \in clause.starts THEN Emit(endAt - 1, TRUE)
            ELSE endAt' = endAt + 1 /\ UNCHANGED <<startAt, windows>>
    /\ UNCHANGED clause

\* The sequence ends in a window: `only` discards it, and later starts are tried.
Unclosed ==
    /\ endAt > Length
    /\ IF clause.only THEN startAt' = startAt + 1 /\ endAt' = 0 /\ UNCHANGED windows
       ELSE Emit(Length, FALSE)
    /\ UNCHANGED clause

WindowsNext == TryStart \/ TryEnd \/ Unclosed

WindowsSpec == WindowsInit /\ [][WindowsNext]_windowVars

-----------------------------------------------------------------------------
WindowsTypeOK ==
    /\ startAt \in 1 .. Length + 1 /\ endAt \in 0 .. Length + 1
    /\ \A i \in DOMAIN windows : windows[i].first \in 1 .. Length

\* The window that starts at i, by its conditions alone.
Closes(i) == IF clause.hasEnd THEN {j \in clause.ends[i] : j >= i}
             ELSE {j \in i .. Length : j + 1 \in clause.starts}
Least(set) == CHOOSE x \in set : \A y \in set : x <= y
LastOf(i) == IF Closes(i) = {} THEN Length ELSE Least(Closes(i))
Kept(i) == Closes(i) # {} \/ ~clause.only

\* The starts of the windows: all that are wanted, and of a tumbling clause those
\* that lie in no window before them.
Wanted == {i \in clause.starts : Kept(i)}
Free[i \in 1 .. Length] ==
    i \in Wanted /\ \A j \in 1 .. i - 1 : Free[j] => LastOf(j) < i
Firsts == IF clause.sliding THEN Wanted ELSE {i \in 1 .. Length : Free[i]}

\* What is emitted is every window there is up to the item reached, in order, and
\* nothing else.
EmittedAreTheWindows ==
    /\ {windows[i].first : i \in DOMAIN windows} = {i \in Firsts : i < startAt}
    /\ \A i, j \in DOMAIN windows : i < j => windows[i].first < windows[j].first
    /\ \A i \in DOMAIN windows :
          /\ windows[i].last = LastOf(windows[i].first)
          /\ windows[i].closed = (Closes(windows[i].first) # {})
===================================================================================
