------------------------------- MODULE DocumentOrder -------------------------------
(***************************************************************************)
(* The order in which the walk of an accumulator visits a tree             *)
(* (xslt/accumulator.go): a node is entered, its children are walked one   *)
(* after the other, and it is left.  A tree is the parent of each of its   *)
(* nodes; nodes are numbered in document order, and 1 is the root.         *)
(***************************************************************************)
EXTENDS Naturals, Sequences

RECURSIVE EventsFrom(_, _)
EventsFrom(parent, n) ==
    LET children == {k \in DOMAIN parent : parent[k] = n}
        Visits[k \in 0 .. Len(parent)] ==
            IF k = 0 THEN <<>>
            ELSE Visits[k - 1] \o (IF k \in children THEN EventsFrom(parent, k) ELSE <<>>)
    IN  <<<<"start", n>>>> \o Visits[Len(parent)] \o <<<<"end", n>>>>

EventsIn(parent) == EventsFrom(parent, 1)

====================================================================================
