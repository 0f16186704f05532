------------------------------ MODULE StrippedTrees ------------------------------
(***************************************************************************)
(* Source documents stripped of white space, shared by the transforms of   *)
(* one stylesheet (xslt/transform.go, stripSpaceResolver.resolve,          *)
(* Stylesheet.strippedTree).  The stylesheet keeps the stripped copies by  *)
(* package and source tree, the source tree held weakly: a cleanup of the  *)
(* tree drops its entries.  A transform keeps the copies it was given,     *)
(* which is what makes fn:doc stable whatever the stylesheet forgets.      *)
(*                                                                         *)
(* The resolver beneath is external here: it hands out the tree it has, or *)
(* forgets it and parses the document again into another tree, as          *)
(* FileResolver does.                                                      *)
(***************************************************************************)
EXTENDS Naturals, FiniteSets

CONSTANTS
    Transform,     \* the transforms of the stylesheet that run at once
    Package,       \* the packages fn:doc is called from
    StrippedMax,   \* resolverCacheMax, 256 in the code
    MaxSources,    \* bound on the trees the document is parsed into
    MaxCopies      \* bound on the copies stripped

Source == 1 .. MaxSources
StrippedKey == Source \X Package

\* A copy, told apart by when it was made: which tree it was made of, and
\* whose declarations it was stripped by.
Copy == [nr : 1 .. MaxCopies, of : StrippedKey]

ASSUME StrippedTreesAssumption ==
    /\ StrippedMax \in Nat \ {0}
    /\ MaxSources \in Nat
    /\ MaxCopies \in Nat

VARIABLES
    source,      \* the tree the resolver has, 0 for none
    sources,     \* how many it has parsed
    stripped,    \* Stylesheet.stripped: records of a key and a copy
    copies,      \* how many copies were stripped
    calling,     \* what a transform's fn:doc is doing: the key it strips
                 \* while the lock is free, and the copy once it is made
    done,        \* stripSpaceResolver.done of each transform
    seen,        \* every copy an fn:doc of the transform has returned
    collected,   \* the source trees a collection has freed
    registered,  \* the cleanups that wait for their tree to be freed
    queued       \* the cleanups whose tree was freed, still to run

strippedVars == <<source, sources, stripped, copies, calling, done, seen,
                  collected, registered, queued>>

NotCalling == <<>>
Entry == [key : StrippedKey, copy : Copy]

StrippedTypeOK ==
    /\ source \in 0 .. sources /\ sources \in 0 .. MaxSources
    /\ stripped \subseteq Entry
    /\ \A d, e \in stripped : d.key = e.key => d = e
    /\ copies \in 0 .. MaxCopies
    /\ calling \in [Transform -> {NotCalling} \cup (StrippedKey \X SUBSET Copy)]
    /\ done \in [Transform -> SUBSET Entry]
    /\ seen \in [Transform -> SUBSET Entry]
    /\ collected \subseteq Source
    /\ registered \subseteq StrippedKey /\ queued \subseteq StrippedKey

StrippedInit ==
    /\ source = 0 /\ sources = 0 /\ stripped = {} /\ copies = 0
    /\ calling = [t \in Transform |-> NotCalling]
    /\ done = [t \in Transform |-> {}]
    /\ seen = [t \in Transform |-> {}]
    /\ collected = {} /\ registered = {} /\ queued = {}

Of(entries, k) == {e \in entries : e.key = k}

\* fn:doc returns a copy, and the transform's own record of the key is it.
Return(t, k, copy) ==
    /\ done' = [done EXCEPT ![t] =
          {e \in @ : e.key # k} \cup {[key |-> k, copy |-> copy]}]
    /\ seen' = [seen EXCEPT ![t] = @ \cup {[key |-> k, copy |-> copy]}]
    /\ calling' = [calling EXCEPT ![t] = NotCalling]

\* The document is parsed, the first time or again.
Parse ==
    /\ source = 0 /\ sources < MaxSources
    /\ sources' = sources + 1
    /\ source' = sources + 1
    /\ UNCHANGED <<stripped, copies, calling, done, seen, collected, registered, queued>>

\* The resolver lets its tree go.
Forget ==
    /\ source # 0
    /\ source' = 0
    /\ UNCHANGED <<sources, stripped, copies, calling, done, seen, collected,
                   registered, queued>>

\* Mutant: the stylesheet is asked before the transform's own record.
ResolveSharedOnly(t, p) ==
    LET k == <<source, p>>
        shared == Of(stripped, k)
    IN  /\ source # 0 /\ calling[t] = NotCalling
        /\ \/ \E e \in shared : Return(t, k, e.copy)
           \/ /\ shared = {}
              /\ calling' = [calling EXCEPT ![t] = <<k, {}>>]
              /\ UNCHANGED <<done, seen>>
        /\ UNCHANGED <<source, sources, stripped, copies, collected, registered, queued>>

\* resolve and the first half of strippedTree: what the transform was given
\* before, else what the stylesheet has, else the tree has to be stripped.
Resolve(t, p) ==
    LET k == <<source, p>>
        mine == Of(done[t], k)
        shared == Of(stripped, k)
    IN  /\ source # 0 /\ calling[t] = NotCalling
        /\ \/ \E e \in mine : Return(t, k, e.copy)
           \/ mine = {} /\ \E e \in shared : Return(t, k, e.copy)
           \/ /\ mine = {} /\ shared = {}
              /\ calling' = [calling EXCEPT ![t] = <<k, {}>>]
              /\ UNCHANGED <<done, seen>>
        /\ UNCHANGED <<source, sources, stripped, copies, collected, registered, queued>>

\* The tree is stripped, with no lock held.
Strip(t) ==
    /\ calling[t] # NotCalling /\ calling[t][2] = {}
    /\ copies < MaxCopies
    /\ copies' = copies + 1
    /\ calling' = [calling EXCEPT ![t] =
          <<@[1], {[nr |-> copies + 1, of |-> @[1]]}>>]
    /\ UNCHANGED <<source, sources, stripped, done, seen, collected, registered, queued>>

\* What is left once there is room: all of it, or what random eviction spares.
Evicted(entries) ==
    IF Cardinality(entries) < StrippedMax
    THEN {entries}
    ELSE {es \in SUBSET entries : Cardinality(es) = StrippedMax - 1}

\* The second half of strippedTree: another transform's copy if there is one
\* by now, else this one, kept with a cleanup of the tree.
Keep(t) ==
    LET k == calling[t][1]
        prev == Of(stripped, k)
    IN  /\ calling[t] # NotCalling /\ calling[t][2] # {}
        /\ \/ /\ \E e \in prev : Return(t, k, e.copy)
              /\ UNCHANGED <<stripped, registered>>
           \/ /\ prev = {}
              /\ \E copy \in calling[t][2], es \in Evicted(stripped) :
                    /\ stripped' = es \cup {[key |-> k, copy |-> copy]}
                    /\ Return(t, k, copy)
              /\ registered' = registered \cup {k}
        /\ UNCHANGED <<source, sources, copies, collected, queued>>

\* The transform ends and another begins in its place.
EndTransform(t) ==
    /\ calling[t] = NotCalling /\ seen[t] # {}
    /\ done' = [done EXCEPT ![t] = {}]
    /\ seen' = [seen EXCEPT ![t] = {}]
    /\ UNCHANGED <<source, sources, stripped, copies, calling, collected,
                   registered, queued>>

\* A tree is kept alive by the resolver, by a transform that was given a copy
\* of it or is having it stripped, and by nothing of the stylesheet's.
InUse ==
    {source} \cup {e.key[1] : e \in UNION {done[t] : t \in Transform}}
             \cup {calling[t][1][1] : t \in {u \in Transform : calling[u] # NotCalling}}

\* Mutant: a stripped copy refers to the tree it was made of.
CollectUncopiedTree ==
    /\ \E s \in (1 .. sources) \ (InUse \cup collected \cup {e.key[1] : e \in stripped}) :
          /\ collected' = collected \cup {s}
          /\ queued' = queued \cup {k \in registered : k[1] = s}
          /\ registered' = {k \in registered : k[1] # s}
    /\ UNCHANGED <<source, sources, stripped, copies, calling, done, seen>>

\* A collection frees a tree, and its cleanups are queued.
CollectTree ==
    /\ \E s \in (1 .. sources) \ (InUse \cup collected) :
          /\ collected' = collected \cup {s}
          /\ queued' = queued \cup {k \in registered : k[1] = s}
          /\ registered' = {k \in registered : k[1] # s}
    /\ UNCHANGED <<source, sources, stripped, copies, calling, done, seen>>

\* The cleanup of a tree and a package.
DropStripped ==
    /\ \E k \in queued :
          /\ stripped' = {e \in stripped : e.key # k}
          /\ queued' = queued \ {k}
    /\ UNCHANGED <<source, sources, copies, calling, done, seen, collected, registered>>

StrippedNext ==
    \/ Parse \/ Forget
    \/ \E t \in Transform, p \in Package : Resolve(t, p)
    \/ \E t \in Transform : Strip(t) \/ Keep(t) \/ EndTransform(t)
    \/ CollectTree
    \/ DropStripped

\* Collections go on, and the runtime runs the cleanups they queue.
StrippedFairness == WF_strippedVars(CollectTree) /\ WF_strippedVars(DropStripped)

StrippedSpec == StrippedInit /\ [][StrippedNext]_strippedVars /\ StrippedFairness

-----------------------------------------------------------------------------
\* fn:doc is stable in one transform: for one tree and one package it returns
\* one copy, although the stylesheet may evict it, and another transform may
\* store its own, between two calls and during one.
OneCopyPerTransform ==
    \A t \in Transform : \A d, e \in seen[t] : d.key = e.key => d.copy = e.copy

\* A copy is of the tree that was asked for and stripped as the package that
\* asks declares (document-2401).
StrippedForThePackage ==
    \A t \in Transform : \A e \in seen[t] : e.copy.of = e.key

\* The stylesheet keeps no more copies than its bound, and every copy it keeps
\* has a cleanup to come that drops it: its tree may be freed.
StrippedBounded ==
    /\ Cardinality(stripped) <= StrippedMax
    /\ \A e \in stripped : e.key \in registered \cup queued

\* A tree nobody uses any more is freed, and takes its copies along: the
\* stylesheet does not keep what can never be asked for again.
CopiesGoWithTheTree ==
    \A s \in Source :
        (s \in 1 .. sources /\ s \notin InUse)
            ~> (s \in InUse \/ \A e \in stripped : e.key[1] # s)

\* What a transform is answered with, and what the stylesheet keeps for it.
StrippedKept == OneCopyPerTransform /\ StrippedForThePackage /\ StrippedBounded

================================================================================
