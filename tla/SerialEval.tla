----------------------------- MODULE SerialEval -----------------------------
(***************************************************************************)
(* What xpath.EvalLock and xpath.LazyVar promise a host: the state of one  *)
(* evaluation is used by one goroutine at a time, by its own until         *)
(* something that reaches it has escaped, changes hands only by being let  *)
(* go first, and settles the value of each variable at most once, while it *)
(* is in use.                                                              *)
(***************************************************************************)
CONSTANTS
    Main,          \* the goroutine that evaluates
    Goroutines,    \* every goroutine, Main included
    Vars,          \* the variables
    None           \* no goroutine

VARIABLES
    user,          \* the goroutine using the state, or None
    gone,          \* something that reaches the state has left Main
    settled        \* the variables that have a value

vars == <<user, gone, settled>>

Init ==
    /\ user = Main
    /\ gone = FALSE
    /\ settled = {}

Enter(g) ==
    /\ user = None
    /\ gone
    /\ user' = g
    /\ UNCHANGED <<gone, settled>>

\* The user lets go, for another to come in only if something is gone.
Leave ==
    /\ user # None
    /\ user' = None
    /\ gone' \in {gone, TRUE}
    /\ UNCHANGED settled

\* A variable gets its value from the user, who may let go with that.
Settle(v) ==
    /\ user # None
    /\ v \notin settled
    /\ settled' = settled \cup {v}
    /\ user' \in {user, None}
    /\ UNCHANGED gone

Next ==
    \/ \E g \in Goroutines : Enter(g)
    \/ Leave
    \/ \E v \in Vars : Settle(v)

Spec == Init /\ [][Next]_vars

=============================================================================
