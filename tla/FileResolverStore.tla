-------------------------- MODULE FileResolverStore --------------------------
(***************************************************************************)
(* FileResolver implements DocumentStore.  A load commits to its answer    *)
(* when it finds it in the cache or puts its own parse there, or has it    *)
(* refused: every step of it before that, the parse included, is only a    *)
(* request that is being considered.                                       *)
(***************************************************************************)
EXTENDS FileResolver

\* No record stands for None.
ASSUME NoneAssumption ==
    /\ None \notin [path : Path, pos : BOOLEAN, host : BOOLEAN]
    /\ None \notin [id : 1..LoadMax, pos : BOOLEAN, host : BOOLEAN]

AnswerOf(t) == [id |-> t, pos |-> parses[t].pos, host |-> parses[t].host]

Hosting(r) == pc[r] \in {"preload", "admitPreload"}

\* The load has committed to its own tree and has only to return it.
Committed(r) == pc[r] = "close" /\ result[r].end = "ok"

\* A host's tree is made once it is published, a load's once it is committed to.
Made(t) ==
    \/ parses[t].end = "ok" /\ \A r \in Run : call[r] = t => ~Hosting(r)
    \/ \E r \in Run : Committed(r) /\ call[r] = t

\* The state of the store.
Current == [p \in DOMAIN cache |-> AnswerOf(cache[p])]
WantOf(r) == IF pc[r] = "idle" THEN None
             ELSE [path |-> req[r].path, pos |-> req[r].pos, host |-> Hosting(r)]
Wants == [r \in Run |-> WantOf(r)]
HoldOf(r) == IF Committed(r) THEN AnswerOf(call[r]) ELSE None
Holds == [r \in Run |-> HoldOf(r)]
Used == {t \in Tree : Made(t)}
Returned == {[to |-> g.to, path |-> g.path, tree |-> g.tree] : g \in got}

\* A call makes one parse at most.
Atomic == INSTANCE DocumentStore WITH
    Tree <- 1..LoadMax,
    Oversized <- \E size \in Sizes : size > CacheMaxBytes,
    current <- Current, wants <- Wants, holds <- Holds, used <- Used, got <- Returned

\* Whatever runs share a resolver, each of their loads is answered as by a
\* store that commits to every answer at once: with the tree the resolver
\* stands by at some moment of the call, or with its own when the resolver
\* stands by none of the kind (loadTracked and publish together).
StoreSpec == Atomic!StoreSpec
=============================================================================
