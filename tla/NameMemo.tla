-------------------------------- MODULE NameMemo --------------------------------
(***************************************************************************)
(* The copy-on-write memo of derivatives by name that every validation of  *)
(* one RELAX NG schema shares (relaxng/pattern.go, nameMemo).  A look-up   *)
(* reads the published snapshot with one atomic load; only when it misses  *)
(* there, and another atomic load says entries are pending, does it take   *)
(* the lock.  A store puts its entry among the pending ones, and a         *)
(* publication folds these into a new snapshot.                            *)
(*                                                                         *)
(* A validation is a look-up, and a store of what it computed when the     *)
(* look-up missed (startTagOpenDeriv, attDeriv).  The derivative of a name *)
(* is a function of the name, so that entries are kept as sets of names;   *)
(* that what they hold is the derivative is the subject of RelaxNG.        *)
(***************************************************************************)
EXTENDS Naturals, FiniteSets

CONSTANTS
    Validation,          \* the validations running at once
    MemoName,            \* names of elements or attributes
    MaxOpenMemo,         \* maxOpenMemo, 1024 in the code
    PendingHitsPublish   \* pendingHitsPublish, 8 in the code

ASSUME NameMemoAssumption ==
    /\ MaxOpenMemo \in Nat
    /\ PendingHitsPublish \in Nat \ {0}

Nobody == "nobody"

ASSUME NobodyAssumption == Nobody \notin Validation

VARIABLES
    snapshot,    \* nameMemo.m: the published names
    pending,     \* nameMemo.pending
    np,          \* nameMemo.np
    hits,        \* nameMemo.hits
    memoMu,      \* the validation that holds nameMemo.mu, or Nobody
    doing,       \* what each validation is about to do
    name,        \* the name it looks up
    begun,       \* what was remembered when its look-up began
    overlapped   \* a publication ended since then

memoVars == <<snapshot, pending, np, hits, memoMu, doing, name, begun, overlapped>>

Steps == {"idle", "snapshot", "np", "lock", "found", "publish", "unlock",
          "derive", "store"}

NameMemoTypeOK ==
    /\ snapshot \subseteq MemoName /\ pending \subseteq MemoName
    /\ np \in 0 .. Cardinality(MemoName)
    /\ hits \in 0 .. PendingHitsPublish
    /\ memoMu \in Validation \cup {Nobody}
    /\ doing \in [Validation -> Steps]
    /\ name \in [Validation -> MemoName]
    /\ begun \in [Validation -> SUBSET MemoName]
    /\ overlapped \in [Validation -> BOOLEAN]

NameMemoInit ==
    /\ snapshot = {} /\ pending = {} /\ np = 0 /\ hits = 0 /\ memoMu = Nobody
    /\ doing = [v \in Validation |-> "idle"]
    /\ name = [v \in Validation |-> CHOOSE n \in MemoName : TRUE]
    /\ begun = [v \in Validation |-> {}]
    /\ overlapped = [v \in Validation |-> FALSE]

-----------------------------------------------------------------------------
At(v, step) == doing[v] = step
Goto(v, step) == doing' = [doing EXCEPT ![v] = step]

\* A validation asks for the derivative of a name.
Begin(v) ==
    /\ At(v, "idle")
    /\ \E n \in MemoName : name' = [name EXCEPT ![v] = n]
    /\ begun' = [begun EXCEPT ![v] = snapshot \cup pending]
    /\ overlapped' = [overlapped EXCEPT ![v] = FALSE]
    /\ Goto(v, "snapshot")
    /\ UNCHANGED <<snapshot, pending, np, hits, memoMu>>

\* load: the published snapshot.
LoadSnapshot(v) ==
    /\ At(v, "snapshot")
    /\ Goto(v, IF name[v] \in snapshot THEN "idle" ELSE "np")
    /\ UNCHANGED <<snapshot, pending, np, hits, memoMu, name, begun, overlapped>>

\* load: no entry is pending, or the lock is worth taking.
LoadNp(v) ==
    /\ At(v, "np")
    /\ Goto(v, IF np = 0 THEN "derive" ELSE "lock")
    /\ UNCHANGED <<snapshot, pending, np, hits, memoMu, name, begun, overlapped>>

\* Mutant: hits are not counted.
LoadPendingUncounted(v) ==
    /\ At(v, "lock") /\ memoMu = Nobody
    /\ Goto(v, IF name[v] \in pending THEN "idle" ELSE "derive")
    /\ UNCHANGED <<snapshot, pending, np, hits, memoMu, name, begun, overlapped>>

\* load: the pending entries, under the lock.  The hit that makes
\* pendingHitsPublish of them publishes.
LoadPending(v) ==
    LET hit == name[v] \in pending
        publishes == hit /\ hits + 1 >= PendingHitsPublish
    IN  /\ At(v, "lock") /\ memoMu = Nobody
        /\ hits' = IF hit THEN hits + 1 ELSE hits
        /\ memoMu' = IF publishes THEN v ELSE Nobody
        /\ Goto(v, IF publishes THEN "publish" ELSE IF hit THEN "idle" ELSE "derive")
        /\ UNCHANGED <<snapshot, pending, np, name, begun, overlapped>>

\* The derivative was not found, and is computed.
Derive(v) ==
    /\ At(v, "derive")
    /\ Goto(v, "store")
    /\ UNCHANGED <<snapshot, pending, np, hits, memoMu, name, begun, overlapped>>

\* Mutant: the cap counts what is published only.
StoreNamePublishedOnly(v) ==
    LET after == pending \cup {name[v]}
        publishes == Cardinality(after) > Cardinality(snapshot)
    IN  /\ At(v, "store") /\ memoMu = Nobody
        /\ Cardinality(snapshot) < MaxOpenMemo
        /\ pending' = after
        /\ np' = Cardinality(after)
        /\ memoMu' = IF publishes THEN v ELSE Nobody
        /\ Goto(v, IF publishes THEN "publish" ELSE "idle")
        /\ UNCHANGED <<snapshot, hits, name, begun, overlapped>>

\* store: refused past the cap unless the name is pending already.
StoreName(v) ==
    LET full == Cardinality(snapshot) + Cardinality(pending) >= MaxOpenMemo
        refused == name[v] \notin pending /\ full
        after == pending \cup {name[v]}
        publishes == Cardinality(after) > Cardinality(snapshot)
    IN  /\ At(v, "store") /\ memoMu = Nobody
        /\ IF refused
           THEN Goto(v, "idle") /\ UNCHANGED <<pending, np, memoMu>>
           ELSE /\ pending' = after
                /\ np' = Cardinality(after)
                /\ memoMu' = IF publishes THEN v ELSE Nobody
                /\ Goto(v, IF publishes THEN "publish" ELSE "idle")
        /\ UNCHANGED <<snapshot, hits, name, begun, overlapped>>

\* publishLocked: the new snapshot is there before the count goes to zero.
PublishSnapshot(v) ==
    /\ At(v, "publish")
    /\ snapshot' = snapshot \cup pending
    /\ pending' = {}
    /\ Goto(v, "unlock")
    /\ overlapped' = [w \in Validation |-> TRUE]
    /\ UNCHANGED <<np, hits, memoMu, name, begun>>

PublishNp(v) ==
    /\ At(v, "unlock")
    /\ np' = 0 /\ hits' = 0
    /\ memoMu' = Nobody
    /\ Goto(v, "idle")
    /\ UNCHANGED <<snapshot, pending, name, begun, overlapped>>

Proceed(v) ==
    \/ LoadSnapshot(v) \/ LoadNp(v) \/ LoadPending(v)
    \/ Derive(v) \/ StoreName(v)
    \/ PublishSnapshot(v) \/ PublishNp(v)

NameMemoNext == \E v \in Validation : Begin(v) \/ Proceed(v)

\* A validation that has begun a look-up gets through it: sync.Mutex does not
\* starve a waiter.  Nothing says that another begins.
NameMemoFairness == \A v \in Validation : SF_memoVars(Proceed(v))

NameMemoSpec == NameMemoInit /\ [][NameMemoNext]_memoVars /\ NameMemoFairness

-----------------------------------------------------------------------------
\* However many validations miss at once, no more than maxOpenMemo names are
\* remembered, and while nobody is storing there are never more pending than
\* published, which is what makes the copies add up to O(n).
MemoBounded ==
    /\ Cardinality(snapshot \cup pending) <= MaxOpenMemo
    /\ memoMu = Nobody => Cardinality(pending) <= Cardinality(snapshot)

\* A look-up that finds the lock-free path empty-handed although the name was
\* remembered before it began was overtaken by a publication: nothing else
\* hides an entry, and the two atomics a look-up reads never disagree for
\* longer than one.
MissedByPublication ==
    \A v \in Validation :
        At(v, "derive") /\ name[v] \in begun[v] => overlapped[v]

\* What is remembered stays: no publication loses an entry that another
\* validation stored meanwhile.
NothingForgotten == snapshot \cup pending \subseteq snapshot' \cup pending'

\* A name that is asked for again and again is found without the lock in the
\* end: a pending entry does not cost every look-up the lock for good.
HotNamesPublished ==
    \A n \in MemoName :
        (n \in pending /\ []<>(\E v \in Validation : At(v, "lock") /\ name[v] = n))
            ~> n \in snapshot

\* No step of a validation makes the memo of a pattern outgrow its bound, hide
\* what it remembers, or lose it.
MemoKept == [][MemoBounded' /\ MissedByPublication' /\ NothingForgotten]_memoVars

================================================================================
