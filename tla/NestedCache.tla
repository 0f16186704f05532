------------------------------- MODULE NestedCache -------------------------------
(***************************************************************************)
(* The stylesheets one outer stylesheet keeps compiled for fn:transform    *)
(* (xslt/fntransformcache.go): a list, most recently used first, and a map *)
(* into it, under one lock that is free while a stylesheet compiles.  A    *)
(* key names the resolvers the compilation inherits weakly: an entry is    *)
(* dead once its resolver is collected.                                    *)
(***************************************************************************)
EXTENDS Naturals, FiniteSets, Sequences, SequencesExt

CONSTANTS
    Caller,           \* the transforms that call fn:transform at once
    Options,          \* what a call compiles: everything of a key that is text
    Resolver,         \* the resolvers callers make and let go
    NestedCacheSize,  \* nestedCacheSize, 16 in the code
    MaxSheets         \* bound on the compilations

NestedKey == Options \X Resolver
Sheet == [nr : 1 .. MaxSheets, key : NestedKey]

ASSUME NestedCacheAssumption ==
    /\ NestedCacheSize \in Nat \ {0}
    /\ MaxSheets \in Nat

VARIABLES
    order,       \* nestedCache.order: entries, the most recently used first
    byKey,       \* nestedCache.byKey: the keys the map has
    compiles,    \* nestedCache.compiles, which counts stored compilations
    sheets,      \* the compilations begun
    call,        \* the key a caller is compiling, with its sheet once there,
                 \* or NotCompiling
    got,         \* the calls answered since the caller's last put: a key and
                 \* the sheet, or NoAnswer
    later,       \* history: the pairs of keys of which the first was asked for
                 \* after the second, if that ever was
    alive        \* the resolvers not collected

nestedVars == <<order, byKey, compiles, sheets, call, got, later, alive>>

NotCompiling == <<>>
NoAnswer == <<>>

NestedTypeOK ==
    /\ order \in Seq([key : NestedKey, sheet : Sheet])
    /\ byKey \subseteq NestedKey
    /\ compiles \in 0 .. sheets /\ sheets \in 0 .. MaxSheets
    /\ call \in [Caller -> {NotCompiling} \cup (NestedKey \X SUBSET Sheet)]
    /\ got \in [Caller -> {NoAnswer} \cup (NestedKey \X Sheet)]
    /\ later \subseteq NestedKey \X NestedKey
    /\ alive \subseteq Resolver

NestedInit ==
    /\ order = <<>> /\ byKey = {} /\ compiles = 0 /\ sheets = 0
    /\ call = [c \in Caller |-> NotCompiling]
    /\ got = [c \in Caller |-> NoAnswer]
    /\ later = {}
    /\ alive = Resolver

-----------------------------------------------------------------------------
\* A caller has its answer.
Answer(c, k, s) ==
    /\ got' = [got EXCEPT ![c] = <<k, s>>]
    /\ later' = {p \in later : p[1] # k /\ p[2] # k} \cup ({k} \X (NestedKey \ {k}))

\* Mutant: a hit leaves the entry where it is.
GetInPlace(c, k) ==
    /\ call[c] = NotCompiling /\ k[2] \in alive
    /\ IF k \in byKey
       THEN \E i \in DOMAIN order :
              order[i].key = k /\ Answer(c, k, order[i].sheet) /\ UNCHANGED <<order, call>>
       ELSE /\ call' = [call EXCEPT ![c] = <<k, {}>>]
            /\ UNCHANGED <<order, got, later>>
    /\ UNCHANGED <<byKey, compiles, sheets, alive>>

\* get: a hit moves the entry to the front, a miss compiles.
Get(c, k) ==
    /\ call[c] = NotCompiling /\ k[2] \in alive
    /\ IF k \in byKey
       THEN \E i \in DOMAIN order :
              /\ order[i].key = k
              /\ order' = <<order[i]>> \o RemoveAt(order, i)
              /\ Answer(c, k, order[i].sheet)
              /\ UNCHANGED call
       ELSE /\ call' = [call EXCEPT ![c] = <<k, {}>>]
            /\ UNCHANGED <<order, got, later>>
    /\ UNCHANGED <<byKey, compiles, sheets, alive>>

\* nestedStylesheet: the compilation, with no lock held.
CompileNested(c) ==
    /\ call[c] # NotCompiling /\ call[c][2] = {}
    /\ sheets < MaxSheets
    /\ sheets' = sheets + 1
    /\ call' = [call EXCEPT ![c] = <<@[1], {[nr |-> sheets + 1, key |-> @[1]]}>>]
    /\ UNCHANGED <<order, byKey, compiles, got, later, alive>>

\* A failed compilation is not stored.
CompileFails(c) ==
    /\ call[c] # NotCompiling /\ call[c][2] = {}
    /\ call' = [call EXCEPT ![c] = NotCompiling]
    /\ UNCHANGED <<order, byKey, compiles, sheets, got, later, alive>>

Dead(k) == k[2] \notin alive

\* What put drops before it adds an entry: the dead ones.
Purged(es) ==
    LET Left[i \in 0 .. Len(es)] ==
            IF i = 0 THEN <<>>
            ELSE IF Dead(es[i].key) THEN Left[i - 1] ELSE Append(Left[i - 1], es[i])
    IN  Left[Len(es)]

\* put: the entry another caller stored meanwhile takes the later sheet and
\* moves to the front; else the dead entries go, and the last one if the list
\* is full.
Put(c) ==
    LET k == call[c][1]
    IN  \E s \in call[c][2] :
        LET entry == [key |-> k, sheet |-> s]
            es == <<entry>> \o Purged(order)
            kept == IF Len(es) > NestedCacheSize THEN Front(es) ELSE es
            dropped == {e.key : e \in ToSet(order)} \ {e.key : e \in ToSet(kept)}
        IN  /\ IF k \in byKey
               THEN /\ \E i \in DOMAIN order :
                          order[i].key = k /\ order' = <<entry>> \o RemoveAt(order, i)
                    /\ UNCHANGED byKey
               ELSE /\ order' = kept
                    /\ byKey' = (byKey \ dropped) \cup {k}
            /\ compiles' = compiles + 1
            /\ Answer(c, k, s)
            /\ call' = [call EXCEPT ![c] = NotCompiling]
            /\ UNCHANGED <<sheets, alive>>

PutCall(c) == call[c] # NotCompiling /\ Put(c)

\* A resolver nobody refers to is collected: no transform with it is calling.
CollectResolver ==
    /\ \E r \in alive :
          /\ \A c \in Caller : call[c] # NotCompiling => call[c][1][2] # r
          /\ alive' = alive \ {r}
    /\ UNCHANGED <<order, byKey, compiles, sheets, call, got, later>>

NestedNext ==
    \/ \E c \in Caller, k \in NestedKey : Get(c, k)
    \/ \E c \in Caller : CompileNested(c) \/ CompileFails(c) \/ PutCall(c)
    \/ CollectResolver

NestedSpec == NestedInit /\ [][NestedNext]_nestedVars

-----------------------------------------------------------------------------
\* The list and the map hold the same keys, each once, and no more than the
\* bound, whatever callers put between the miss and the put of another.
ListMatchesMap ==
    /\ byKey = {order[i].key : i \in DOMAIN order}
    /\ Len(order) = Cardinality(byKey)
    /\ Len(order) <= NestedCacheSize

\* A call runs the stylesheet its own options and resolvers name.
SheetOfTheCall == \A c \in Caller : got[c] # NoAnswer => got[c][2].key = got[c][1]

\* A put makes room among the dead first: a live stylesheet is evicted only
\* when no dead one is kept, so that callers who make a resolver per transform
\* do not push the others' stylesheets out.
DeadGoFirst ==
    \A k \in byKey \ byKey' :
        Dead(k) \/ \A e \in ToSet(order') : ~Dead(e.key)

\* The list is in the order the keys were last asked for: the stylesheet that
\* goes when the list is full is the one asked for the longest ago.
LeastRecentLast ==
    \A i, j \in DOMAIN order : i < j => <<order[i].key, order[j].key>> \in later

\* The list, the map and the answers stay in step, and what goes is what should.
NestedKept ==
    [][ListMatchesMap' /\ SheetOfTheCall' /\ LeastRecentLast' /\ DeadGoFirst]_nestedVars

================================================================================
