------------------------------- MODULE SideTable -------------------------------
(***************************************************************************)
(* The namespace nodes of one tree (xdm/sideweak.go, Node.sideNode).  They *)
(* are made when asked for, allocated a chunk at a time, and the table     *)
(* holds a chunk only weakly: a collection frees the chunks no caller has  *)
(* a node of.  A cleanup that runs after each collection, on a goroutine   *)
(* of the runtime, drops the entries of freed chunks and arms itself again *)
(* while any are left.                                                     *)
(*                                                                         *)
(* A collection frees any of the chunks nothing refers to and any of the   *)
(* sweeps' ticks: an object may outlive a cycle that began before it was   *)
(* dropped.  sideTable.seq, which no order and no identity depends on, is  *)
(* left out.                                                               *)
(***************************************************************************)
EXTENDS Naturals, FiniteSets

CONSTANTS
    Reader,        \* the goroutines that ask for namespace nodes
    Builder,       \* the one that builds the tree
    Owner,         \* the elements, by index: a set of numbers
    Prefix,        \* the prefixes in scope of each element
    SideChunkLen,  \* sideChunkLen, 16 in the code
    MaxChunks,     \* bound on the chunks ever made
    MaxHeld        \* bound on the nodes one reader holds

SideKey == Owner \X Prefix

ASSUME SideTableAssumption ==
    /\ Builder \in Reader
    /\ Owner \subseteq Nat
    /\ SideChunkLen \in Nat \ {0}
    /\ MaxChunks \in Nat
    /\ MaxHeld \in Nat

VARIABLES
    entries,       \* sideTable.m: who is where, as records of a key and a slot
    peak,          \* sideTable.peak
    armed,         \* sideTable.armed
    cur,           \* sideTable.cur: the chunk being filled, 0 for none
    used,          \* sideTable.used
    chunks,        \* the chunks made so far, numbered from 1
    freed,         \* the chunks a collection has freed
    held,          \* the nodes each reader holds: a slot, and the key it was
                   \* asked for, or <<>> once the element was removed
    ticks,         \* the sideTicks not collected yet
    sweeps,        \* the sweeps whose tick was collected, still to run
    frozen         \* the tree is built: nothing is removed from it any more

sideVars == <<entries, peak, armed, cur, used, chunks, freed, held, ticks,
              sweeps, frozen>>

Slot == (1 .. MaxChunks) \X (0 .. SideChunkLen - 1)

SideTypeOK ==
    /\ entries \subseteq [key : SideKey, at : Slot]
    /\ peak \in Nat
    /\ armed \in BOOLEAN /\ frozen \in BOOLEAN
    /\ cur \in 0 .. MaxChunks /\ used \in 0 .. SideChunkLen
    /\ chunks \in 0 .. MaxChunks
    /\ freed \subseteq 1 .. chunks
    /\ held \in [Reader -> SUBSET [key : SideKey \cup {<<>>}, at : Slot]]
    /\ ticks \in Nat /\ sweeps \in Nat

SideInit ==
    /\ entries = {} /\ peak = 0 /\ armed = FALSE
    /\ cur = 0 /\ used = 0 /\ chunks = 0 /\ freed = {}
    /\ held = [r \in Reader |-> {}]
    /\ ticks = 0 /\ sweeps = 0 /\ frozen = FALSE

\* The entries whose node is still there (sideLive).
Live(es) == {e \in es : e.at[1] \notin freed}

\* The chunks a collection must keep: a node of theirs is held, or they are
\* being filled.
Reachable == {n.at[1] : n \in UNION {held[r] : r \in Reader}} \cup {cur}

Hold(r, node) == held' = [held EXCEPT ![r] = @ \cup {node}]

\* Mutant: a chunk is taken for full one node too late.
AddPastTheEnd(r, key) ==
    LET fresh == cur = 0 \/ used = SideChunkLen + 1
        c == IF fresh THEN chunks + 1 ELSE cur
        i == IF fresh THEN 0 ELSE used
    IN  /\ fresh => chunks < MaxChunks
        /\ chunks' = IF fresh THEN chunks + 1 ELSE chunks
        /\ cur' = c /\ used' = i + 1
        /\ entries' = entries \cup {[key |-> key, at |-> <<c, i>>]}
        /\ armed' = TRUE
        /\ ticks' = IF armed THEN ticks ELSE ticks + 1
        /\ Hold(r, [key |-> key, at |-> <<c, i>>])
        /\ UNCHANGED peak

\* sideAdd: the next slot of the chunk, or the first of a new one, and a sweep
\* if none is armed.
Add(r, key) ==
    LET fresh == cur = 0 \/ used = SideChunkLen
        c == IF fresh THEN chunks + 1 ELSE cur
        i == IF fresh THEN 0 ELSE used
        es == {e \in entries : e.key # key} \cup {[key |-> key, at |-> <<c, i>>]}
    IN  /\ fresh => chunks < MaxChunks
        /\ chunks' = IF fresh THEN chunks + 1 ELSE chunks
        /\ cur' = c /\ used' = i + 1
        /\ entries' = es
        /\ peak' = IF Cardinality(es) > peak THEN Cardinality(es) ELSE peak
        /\ armed' = TRUE
        /\ ticks' = IF armed THEN ticks ELSE ticks + 1
        /\ Hold(r, [key |-> key, at |-> <<c, i>>])

\* sideNode: the live node of the key, or a new one.  While the tree is being
\* built only its builder asks.
SideNode(r, key) ==
    LET found == {e \in Live(entries) : e.key = key}
    IN  /\ frozen \/ r = Builder
        /\ Cardinality(held[r]) < MaxHeld
        /\ IF found # {}
           THEN /\ \E e \in found : Hold(r, e)
                /\ UNCHANGED <<entries, peak, armed, cur, used, chunks, ticks>>
           ELSE Add(r, key)
        /\ UNCHANGED <<freed, sweeps, frozen>>

\* A reader lets go of a node.
Drop(r) ==
    /\ \E node \in held[r] : held' = [held EXCEPT ![r] = @ \ {node}]
    /\ UNCHANGED <<entries, peak, armed, cur, used, chunks, freed, ticks,
                   sweeps, frozen>>

\* Mutant: the empty table goes although its sweep is still to come.
SideTruncateDisarms(i) ==
    LET es == {e \in entries : e.key[1] < i}
    IN  /\ ~frozen
        /\ entries' = es
        /\ armed' = (es # {})
        /\ held' = [r \in Reader |->
              {[n EXCEPT !.key = IF n.key # <<>> /\ n.key[1] >= i THEN <<>> ELSE @]
                  : n \in held[r]}]
        /\ UNCHANGED <<peak, cur, used, chunks, freed, ticks, sweeps, frozen>>

\* sideTruncate, from the removal of the last child of a tree being built.
\* With a sweep armed the empty table stays.
SideTruncate(i) ==
    LET es == {e \in entries : e.key[1] < i}
        gone == es = {} /\ ~armed
    IN  /\ ~frozen
        /\ entries' = es
        /\ peak' = IF gone THEN 0 ELSE peak
        /\ cur' = IF gone THEN 0 ELSE cur
        /\ used' = IF gone THEN 0 ELSE used
        /\ held' = [r \in Reader |->
              {[n EXCEPT !.key = IF n.key # <<>> /\ n.key[1] >= i THEN <<>> ELSE @]
                  : n \in held[r]}]
        /\ UNCHANGED <<armed, chunks, freed, ticks, sweeps, frozen>>

\* The tree is finished and handed out.
Freeze ==
    /\ ~frozen
    /\ frozen' = TRUE
    /\ UNCHANGED <<entries, peak, armed, cur, used, chunks, freed, held,
                   ticks, sweeps>>

\* A garbage collection.
Collect ==
    /\ \E dead \in SUBSET ((1 .. chunks) \ (freed \cup Reachable)), n \in 0 .. ticks :
          /\ dead # {} \/ n > 0
          /\ freed' = freed \cup dead
          /\ ticks' = ticks - n
          /\ sweeps' = sweeps + n
    /\ UNCHANGED <<entries, peak, armed, cur, used, chunks, held, frozen>>

\* One that finds everything nothing refers to.
CollectAll ==
    /\ Collect
    /\ freed' = (1 .. chunks) \ Reachable
    /\ ticks' = 0

\* Mutant: the sweep leaves the table with the chunk it was filling.
SideSweepKeepsChunk ==
    LET es == Live(entries)
    IN  /\ sweeps > 0
        /\ entries' = es
        /\ armed' = (es # {})
        /\ ticks' = IF es = {} THEN ticks ELSE ticks + 1
        /\ sweeps' = sweeps - 1
        /\ UNCHANGED <<peak, cur, used, chunks, freed, held, frozen>>

\* sideSweep.
SideSweep ==
    LET es == Live(entries)
    IN  /\ sweeps > 0
        /\ entries' = es
        /\ armed' = (es # {})
        /\ cur' = 0
        /\ used' = IF es = {} THEN 0 ELSE used
        /\ peak' = CASE es = {} -> 0
                     [] es # {} /\ Cardinality(es) < peak \div 4 -> Cardinality(es)
                     [] OTHER -> peak
        /\ ticks' = IF es = {} THEN ticks ELSE ticks + 1
        /\ sweeps' = sweeps - 1
        /\ UNCHANGED <<chunks, freed, held, frozen>>

SideNext ==
    \/ \E r \in Reader, key \in SideKey : SideNode(r, key)
    \/ \E r \in Reader : Drop(r)
    \/ \E i \in Owner : SideTruncate(i)
    \/ Freeze
    \/ Collect
    \/ SideSweep

\* Collections go on, one of them finds everything that nothing refers to, and
\* the runtime runs the cleanups they queue.
SideFairness ==
    /\ WF_sideVars(CollectAll)
    /\ WF_sideVars(SideSweep)

SideSpec == SideInit /\ [][SideNext]_sideVars /\ SideFairness

-----------------------------------------------------------------------------
HeldNodes == UNION {held[r] : r \in Reader}

\* A namespace node exists once: whoever holds the node of a binding of an
\* element still in the tree, however many collections and sweeps ago it was
\* made, holds the node sideNode answers everybody else with, and no two
\* bindings share one.  Is and IdentityKey compare pointers.
NodeIdentity ==
    /\ \A n \in HeldNodes : n.at[1] \notin freed
    /\ \A n \in HeldNodes : n.key # <<>> =>
          {e \in Live(entries) : e.key = n.key} = {n}
    /\ \A m, n \in HeldNodes : m.at = n.at => m = n

\* A tree has one sweep chain: while the table holds an entry exactly one sweep
\* waits for a collection or to run, and there are never two
\* (TestSideTruncateKeepsOneSweepChain).
OneSweepChain ==
    /\ ticks + sweeps = IF armed THEN 1 ELSE 0
    /\ entries # {} => armed

\* What nobody holds does not stay for the life of the tree: once the readers
\* hold nothing, the table goes, unless somebody asks again.
SideTableFreed == (HeldNodes = {}) ~> ((~armed /\ entries = {}) \/ HeldNodes # {})

\* Namespace nodes stand while somebody holds them, and the chain of sweeps that
\* frees the others neither breaks nor doubles.
SideTableKept == NodeIdentity /\ OneSweepChain

================================================================================
