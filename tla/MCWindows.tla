---------------------------------- MODULE MCWindows ----------------------------------
(* Conditions on four items: ends at a distance from the start, or at given items. *)
EXTENDS Windows

Four == 1 .. 4

Clause(sliding, only, hasEnd, starts, ends) ==
    [sliding |-> sliding, only |-> only, hasEnd |-> hasEnd,
     starts |-> starts, ends |-> ends, length |-> 4]

EndSets == {[i \in Four |-> {j \in Four : j \in {i + k : k \in far}}] : far \in SUBSET {0, 1, 3}}
           \cup {[i \in Four |-> at] : at \in SUBSET {2, 3, 4}}

\* Without an end condition there is no "only", and no sliding window.
SmallClauses ==
    {Clause(sliding, only, TRUE, starts, ends) :
        sliding \in BOOLEAN, only \in BOOLEAN, starts \in SUBSET Four, ends \in EndSets}
    \cup {Clause(FALSE, FALSE, FALSE, starts, [i \in Four |-> {}]) : starts \in SUBSET Four}
======================================================================================
