---------------------------- MODULE DocumentStore ----------------------------
(***************************************************************************)
(* What xslt.FileResolver promises its callers, with every load a single   *)
(* commitment: a call is answered with the tree the store stands by for    *)
(* the path, or with a new one made when it stands by none.  The store     *)
(* gives a tree up only to take one of another kind in its place, or, when *)
(* it is full, to make room.  It has no table of loads in flight, no lock  *)
(* and no accounts of bytes.                                               *)
(***************************************************************************)
EXTENDS Integers, FiniteSets

CONSTANTS
    Run,        \* the callers
    Path,       \* the files
    Tree,       \* the trees there may ever be
    CacheMax,   \* resolverCacheMax
    Oversized,  \* whether a document may exceed resolverCacheMaxBytes alone
    None        \* no request, no tree

VARIABLES
    current,    \* the tree the store stands by for a path
    wants,      \* the request a caller makes, or None
    holds,      \* the new tree a caller will be answered with, or None
    used,       \* the trees made so far
    got         \* history: the trees returned

storeVars == <<current, wants, holds, used, got>>

\* A load with positions or without them, or the host's Preload.
Ask == [path : Path, pos : BOOLEAN, host : BOOLEAN]

\* A tree, with positions or not, parsed by a load or by the host.
Answer == [id : Tree, pos : BOOLEAN, host : BOOLEAN]

StoreInit ==
    /\ current = << >>
    /\ wants = [r \in Run |-> None]
    /\ holds = [r \in Run |-> None]
    /\ used = {}
    /\ got = {}

Request(r, ask) ==
    /\ wants[r] = None
    /\ wants' = [wants EXCEPT ![r] = ask]
    /\ UNCHANGED <<current, holds, used, got>>

Returns(r, t) ==
    /\ wants' = [wants EXCEPT ![r] = None]
    /\ got' = got \cup {[to |-> r, path |-> wants[r].path, tree |-> t.id]}

\* A call that has no answer yet; a load, and not the host's.
Making(r) == wants[r] # None /\ holds[r] = None
Loading(r) == Making(r) /\ ~wants[r].host

\* The store answers with the tree it stands by.
Hit(r) ==
    /\ Loading(r)
    /\ wants[r].path \in DOMAIN current
    /\ wants[r].pos => current[wants[r].path].pos
    /\ Returns(r, current[wants[r].path])
    /\ UNCHANGED <<current, holds, used>>

\* The tree the store stands by makes way for one of another kind.
Supersede(r) ==
    /\ Making(r)
    /\ wants[r].path \in DOMAIN current
    /\ \/ wants[r].host
       \/ current[wants[r].path].host
       \/ wants[r].pos # current[wants[r].path].pos
    /\ current' = [p \in DOMAIN current \ {wants[r].path} |-> current[p]]
    /\ UNCHANGED <<wants, holds, used, got>>

\* A document makes way for another that is wanted, when there is no room for
\* both.
Evict(p) ==
    /\ p \in DOMAIN current
    /\ \E r \in Run : Making(r) /\ wants[r].path \notin DOMAIN current
    /\ Oversized \/ Cardinality(DOMAIN current) >= CacheMax
    /\ current' = [q \in DOMAIN current \ {p} |-> current[q]]
    /\ UNCHANGED <<wants, holds, used, got>>

\* The store stands by a new tree, or refuses it: the call has it all the same.
Make(r, id) ==
    LET ask == wants[r]
        t == [id |-> id, pos |-> ask.pos, host |-> ask.host]
    IN  /\ Making(r)
        /\ ask.path \notin DOMAIN current
        /\ id \notin used
        /\ used' = used \cup {id}
        /\ \/ UNCHANGED current
           \/ current' = [p \in DOMAIN current \cup {ask.path} |->
                            IF p = ask.path THEN t ELSE current[p]]
        /\ IF ask.host
           THEN wants' = [wants EXCEPT ![r] = None] /\ UNCHANGED holds
           ELSE holds' = [holds EXCEPT ![r] = t] /\ UNCHANGED wants
        /\ UNCHANGED got

Reply(r) ==
    /\ holds[r] # None
    /\ Returns(r, holds[r])
    /\ holds' = [holds EXCEPT ![r] = None]
    /\ UNCHANGED <<current, used>>

\* The document cannot be read.
Fail(r) ==
    /\ Loading(r)
    /\ wants' = [wants EXCEPT ![r] = None]
    /\ UNCHANGED <<current, holds, used, got>>

StoreNext ==
    \/ \E r \in Run :
        \/ \E ask \in Ask : Request(r, ask)
        \/ Hit(r) \/ Supersede(r) \/ Reply(r) \/ Fail(r)
        \/ \E id \in Tree : Make(r, id)
    \/ \E p \in Path : Evict(p)

StoreSpec == StoreInit /\ [][StoreNext]_storeVars
=============================================================================
