-------------------------- MODULE SharedTablesProofs --------------------------
(***************************************************************************)
(* Proofs about what goroutines share: the function a call site keeps      *)
(* (CallSites), the derivatives a schema keeps by name (NameMemo), the     *)
(* tables of the xpath package (MemoTables), the namespace nodes of a tree *)
(* (SideTable), the stripped copies of a stylesheet (StrippedTrees) and    *)
(* the stylesheets compiled for fn:transform (NestedCache).                *)
(***************************************************************************)
EXTENDS CallSites, NameMemo, MemoTables, SideTable, StrippedTrees, NestedCache,
        FiniteSums

-----------------------------------------------------------------------------
(* Call sites.                                                              *)

\* What a look-up finds if the library's parent is p.
FoundWith(f, p, v) ==
    LET at == IF defines[f] # NotFound THEN f ELSE p
    IN  IF at # NoLib /\ defines[at] # NotFound /\ Since[at] <= v
        THEN <<at, defines[at]>> ELSE Unknown

SiteTypeOK ==
    /\ defines \in [Lib -> Nat]
    /\ parent \in [Lib -> Lib \cup {NoLib}]
    /\ gen \in [Lib -> Nat]
    /\ resolving \in [Evaluation -> SUBSET [funcs : Lib, libv : Version,
                                            fn : (Lib \cup {NoLib}) \X Nat]]

\* What a site keeps was found with the parent its links name, and holds
\* whatever has become of the parents since, while no library of the links
\* has been added to.
KeptHolds(c) ==
    \E p \in Lib \cup {NoLib} :
        /\ \E l \in c.links : l.lib = c.funcs /\ l.parent = p
        /\ p # NoLib => \E l \in c.links : l.lib = p
        /\ \A l \in c.links : l.lib \in Lib /\ l.gen \in Nat /\ l.gen <= gen[l.lib]
        /\ (\A l \in c.links : gen[l.lib] = l.gen) => c.fn = FoundWith(c.funcs, p, c.libv)

SiteInv ==
    /\ SiteTypeOK
    /\ \A c \in resolved : c.funcs \in Lib /\ KeptHolds(c)
    /\ \A e \in Evaluation : \A r \in resolving[e] : r.fn = LookedUp(r.funcs, r.libv)
    /\ ResolvedAsLookedUp
    /\ answer \in [Evaluation -> ((Lib \cup {NoLib}) \X Nat) \X ((Lib \cup {NoLib}) \X Nat)]

LEMMA LookedUpFoundWith ==
    ASSUME NEW f, NEW v
    PROVE  LookedUp(f, v) = FoundWith(f, parent[f], v)
BY DEF LookedUp, FoundWith

LEMMA LookedUpType ==
    ASSUME SiteTypeOK, NEW f \in Lib, NEW v
    PROVE  LookedUp(f, v) \in (Lib \cup {NoLib}) \X Nat
BY DEF SiteTypeOK, LookedUp, Unknown, NotFound

\* An answer the site gives from what it keeps is the one a look-up finds.
LEMMA HitIsLookedUp ==
    ASSUME SiteInv, NEW c \in resolved, NEW f \in Lib, NEW v, Hit(c, f, v)
    PROVE  c.fn = LookedUp(f, v)
<1>1. c.libv = v /\ c.funcs = f /\ Current(c)
  BY DEF Hit
<1>2. PICK p \in Lib \cup {NoLib} :
         /\ \E l \in c.links : l.lib = c.funcs /\ l.parent = p
         /\ (\A l \in c.links : gen[l.lib] = l.gen) => c.fn = FoundWith(c.funcs, p, c.libv)
  BY DEF SiteInv, KeptHolds
<1>3. parent[f] = p /\ c.fn = FoundWith(f, p, v)
  BY <1>1, <1>2 DEF Current
<1> QED BY <1>3, LookedUpFoundWith

LEMMA SiteInvStep == SiteInv /\ [SiteNext]_siteVars => SiteInv'
<1> SUFFICES ASSUME SiteInv, [SiteNext]_siteVars PROVE SiteInv'
  OBVIOUS
<1>0. SiteTypeOK
  BY DEF SiteInv
<1>1. ASSUME NEW e \in Evaluation, NEW f \in Lib, NEW v \in Version, Lookup(e, f, v)
      PROVE  SiteInv'
  <2>1. UNCHANGED <<defines, parent, gen, resolved>>
    BY <1>1 DEF Lookup
  <2>2. PICK fn \in (Lib \cup {NoLib}) \X Nat :
           fn = LookedUp(f, v) /\ answer' = [answer EXCEPT ![e] = <<fn, fn>>]
    BY <1>0, <1>1, LookedUpType, HitIsLookedUp DEF Lookup
  <2>3. \/ resolving' = resolving
        \/ resolving' = [resolving EXCEPT ![e] = Nothing]
        \/ resolving' = [resolving EXCEPT ![e] = {[funcs |-> f, libv |-> v, fn |-> fn]}]
    BY <1>1, <2>2 DEF Lookup
  <2>4. [funcs |-> f, libv |-> v, fn |-> fn] \in
           [funcs : Lib, libv : Version, fn : (Lib \cup {NoLib}) \X Nat]
    OBVIOUS
  <2>5. SiteTypeOK'
    BY <1>0, <2>1, <2>3, <2>4 DEF SiteTypeOK, Nothing
  <2>6. \A d \in Evaluation : \A r \in resolving'[d] :
           r.fn = LookedUp(r.funcs, r.libv)
    BY <1>0, <2>2, <2>3 DEF SiteInv, SiteTypeOK, Nothing
  <2>7. \A g, w : LookedUp(g, w)' = LookedUp(g, w)
    BY <2>1 DEF LookedUp
  <2>8. \A c \in resolved' : c.funcs \in Lib /\ KeptHolds(c)'
    BY <2>1 DEF SiteInv, KeptHolds, FoundWith
  <2>9. ResolvedAsLookedUp' /\ answer' \in
           [Evaluation -> ((Lib \cup {NoLib}) \X Nat) \X ((Lib \cup {NoLib}) \X Nat)]
    BY <2>2 DEF SiteInv, ResolvedAsLookedUp
  <2> QED BY <2>5, <2>6, <2>7, <2>8, <2>9 DEF SiteInv
<1>2. ASSUME NEW e \in Evaluation, StoreResolution(e) PROVE SiteInv'
  <2>1. PICK r \in resolving[e] :
           resolved' = {[funcs |-> r.funcs, libv |-> r.libv, fn |-> r.fn,
                         links |-> Links(r.funcs)]}
    BY <1>2 DEF StoreResolution
  <2>2. /\ resolving' = [resolving EXCEPT ![e] = Nothing]
        /\ UNCHANGED <<defines, parent, gen, answer>>
    BY <1>2 DEF StoreResolution
  <2>3. r.funcs \in Lib /\ r.libv \in Version /\ r.fn = LookedUp(r.funcs, r.libv)
    BY <1>0, <2>1 DEF SiteInv, SiteTypeOK
  <2> DEFINE p == parent[r.funcs]
  <2>c. PICK c : c = [funcs |-> r.funcs, libv |-> r.libv, fn |-> r.fn, links |-> Links(r.funcs)]
    OBVIOUS
  <2>4. p \in Lib \cup {NoLib}
    BY <1>0, <2>3 DEF SiteTypeOK
  <2>5. \A l \in Links(r.funcs) : l.lib \in Lib /\ l.gen = gen[l.lib]
    <3>1. Chain(r.funcs) \subseteq Lib
      BY <2>3, <2>4 DEF Chain
    <3> HIDE DEF Chain
    <3>2. \A l \in Links(r.funcs) :
             \E m \in Chain(r.funcs) : l = [lib |-> m, parent |-> parent[m], gen |-> gen[m]]
      BY DEF Links
    <3> QED BY <3>1, <3>2
  <2>6. /\ \E l \in Links(r.funcs) : l.lib = r.funcs /\ l.parent = p
        /\ p # NoLib => \E l \in Links(r.funcs) : l.lib = p
    <3>1. r.funcs \in Chain(r.funcs) /\ (p # NoLib => p \in Chain(r.funcs))
      BY DEF Chain
    <3>2. \A m \in Chain(r.funcs) :
             [lib |-> m, parent |-> parent[m], gen |-> gen[m]] \in Links(r.funcs)
      BY DEF Links
    <3> QED BY <3>1, <3>2
  <2>7. r.fn = FoundWith(r.funcs, p, r.libv)
    BY <2>3, LookedUpFoundWith
  <2>8. \A l \in Links(r.funcs) : l.lib \in Lib /\ l.gen \in Nat /\ l.gen <= gen[l.lib]
    BY <1>0, <2>5 DEF SiteTypeOK
  <2>9. KeptHolds(c)
    <3>1. c.links = Links(r.funcs) /\ c.funcs = r.funcs /\ c.fn = r.fn /\ c.libv = r.libv
      BY <2>c
    <3> HIDE DEF p
    <3> QED BY <2>4, <2>6, <2>7, <2>8, <3>1 DEF KeptHolds
  <2>10. KeptHolds(c)'
    BY <2>2, <2>9 DEF KeptHolds, FoundWith
  <2>11. \A d \in resolved' : d = c /\ d.funcs \in Lib
    BY <2>1, <2>3, <2>c
  <2>12. SiteTypeOK' /\ \A d \in Evaluation : resolving'[d] \subseteq resolving[d]
    BY <1>0, <2>2 DEF SiteTypeOK, Nothing
  <2>13. \A d \in Evaluation : \A q \in resolving'[d] : q.fn = LookedUp(q.funcs, q.libv)'
    BY <2>2, <2>12 DEF SiteInv, LookedUp
  <2>14. \A d \in resolved' : d.funcs \in Lib /\ KeptHolds(d)'
    BY <2>10, <2>11
  <2>15. \A d \in Evaluation : \A q \in resolving'[d] : q.fn = LookedUp(q.funcs, q.libv)'
    BY <2>13
  <2>16. UNCHANGED answer /\ ResolvedAsLookedUp'
    BY <2>2 DEF SiteInv, ResolvedAsLookedUp
  <2> HIDE DEF p
  <2> QED BY <2>12, <2>14, <2>15, <2>16 DEF SiteInv
<1>3. ASSUME NEW l \in Lib, AddFunction(l) PROVE SiteInv'
  <2>1. /\ \A e \in Evaluation : resolving[e] = Nothing
        /\ defines' = [defines EXCEPT ![l] = @ + 1]
        /\ gen' = [gen EXCEPT ![l] = @ + 1]
        /\ UNCHANGED <<parent, resolved, resolving, answer>>
    BY <1>3 DEF AddFunction
  <2>2. SiteTypeOK'
    BY <1>0, <2>1 DEF SiteTypeOK
  <2>3. ASSUME NEW c \in resolved PROVE c.funcs \in Lib /\ KeptHolds(c)'
    <3>1. c.funcs \in Lib
      BY DEF SiteInv
    <3>2. PICK p \in Lib \cup {NoLib} :
             /\ \E k \in c.links : k.lib = c.funcs /\ k.parent = p
             /\ p # NoLib => \E k \in c.links : k.lib = p
             /\ \A k \in c.links : k.lib \in Lib /\ k.gen \in Nat /\ k.gen <= gen[k.lib]
             /\ (\A k \in c.links : gen[k.lib] = k.gen) =>
                   c.fn = FoundWith(c.funcs, p, c.libv)
      BY DEF SiteInv, KeptHolds
    <3>3. \A k \in c.links : k.gen <= gen'[k.lib] /\ (k.lib = l => gen'[l] # k.gen)
                                                   /\ (k.lib # l => gen'[k.lib] = gen[k.lib])
      BY <1>0, <2>1, <3>2 DEF SiteTypeOK
    <3>4. ASSUME \A k \in c.links : gen'[k.lib] = k.gen
          PROVE  c.fn = FoundWith(c.funcs, p, c.libv)'
      <4>1. \A k \in c.links : k.lib # l /\ gen[k.lib] = k.gen
        BY <3>3, <3>4
      <4>2. c.funcs # l /\ (p # NoLib => p # l)
        BY <3>2, <4>1
      <4>3. defines'[c.funcs] = defines[c.funcs] /\ (p # NoLib => defines'[p] = defines[p])
        BY <1>0, <2>1, <3>1, <4>2 DEF SiteTypeOK
      <4>4. FoundWith(c.funcs, p, c.libv)' = FoundWith(c.funcs, p, c.libv)
        BY <3>1, <4>3 DEF FoundWith
      <4> QED BY <3>2, <4>1, <4>4
    <3> QED BY <3>1, <3>2, <3>3, <3>4 DEF KeptHolds
  <2>4. \A e \in Evaluation : resolving'[e] = {}
    BY <2>1 DEF Nothing
  <2> QED BY <2>1, <2>2, <2>3, <2>4 DEF SiteInv, ResolvedAsLookedUp
<1>4. ASSUME NEW l \in Lib, NEW p \in Lib \cup {NoLib}, Reparent(l, p) PROVE SiteInv'
  <2>1. /\ \A e \in Evaluation : resolving[e] = Nothing
        /\ parent' = [parent EXCEPT ![l] = p]
        /\ UNCHANGED <<defines, gen, resolved, resolving, answer>>
    BY <1>4 DEF Reparent
  <2>2. SiteTypeOK'
    BY <1>0, <2>1 DEF SiteTypeOK
  <2>3. \A c \in resolved' : c.funcs \in Lib /\ KeptHolds(c)'
    BY <2>1 DEF SiteInv, KeptHolds, FoundWith
  <2>4. \A e \in Evaluation : resolving'[e] = {}
    BY <2>1 DEF Nothing
  <2> QED BY <2>1, <2>2, <2>3, <2>4 DEF SiteInv, ResolvedAsLookedUp
<1>5. CASE UNCHANGED siteVars
  BY <1>5 DEF siteVars, SiteInv, SiteTypeOK, ResolvedAsLookedUp, KeptHolds, FoundWith, LookedUp
<1> QED BY <1>1, <1>2, <1>3, <1>4, <1>5 DEF SiteNext

LEMMA SiteInvInit == SiteInit => SiteInv
<1> SUFFICES ASSUME SiteInit PROVE SiteInv
  OBVIOUS
<1>1. defines \in [Lib -> Nat] /\ gen \in [Lib -> Nat]
  BY DEF SiteInit, NotFound
<1>2. SiteTypeOK
  BY <1>1 DEF SiteInit, SiteTypeOK, Nothing
<1>3. resolved = {} /\ \A e \in Evaluation : resolving[e] = {}
  BY DEF SiteInit, Nothing
<1>4. ResolvedAsLookedUp /\ answer \in
         [Evaluation -> ((Lib \cup {NoLib}) \X Nat) \X ((Lib \cup {NoLib}) \X Nat)]
  BY DEF SiteInit, ResolvedAsLookedUp, Unknown, NotFound
<1> QED BY <1>2, <1>3, <1>4 DEF SiteInv

\* A call site never answers with a function its context's library would not
\* find: not one another evaluation left there meanwhile, nor one from before
\* a library of the chain was added to or given another parent and the first
\* parent back.
THEOREM ResolvedHolds == SiteSpec => []ResolvedAsLookedUp
<1>1. SiteInv => ResolvedAsLookedUp
  BY DEF SiteInv
<1> QED BY <1>1, SiteInvInit, SiteInvStep, PTL DEF SiteSpec

-----------------------------------------------------------------------------
(* The memo of derivatives by name.                                         *)

MemoType ==
    /\ IsFiniteSet(snapshot) /\ IsFiniteSet(pending)
    /\ memoMu \in Validation \cup {Nobody}
    /\ doing \in [Validation -> Steps]
    /\ name = [v \in Validation |-> name[v]]
    /\ begun = [v \in Validation |-> begun[v]]
    /\ overlapped \in [Validation -> BOOLEAN]

\* Who holds the lock is publishing.
Publishing == {"publish", "unlock"}
MemoLocked ==
    /\ \A v \in Validation : doing[v] \in Publishing => memoMu = v
    /\ memoMu # Nobody => doing[memoMu] \in Publishing

\* What is published and pending adds up to the bound at most, and the count
\* of pending entries is right, but between the two stores of a publication.
MemoSizes ==
    /\ Cardinality(snapshot) + Cardinality(pending) <= MaxOpenMemo
    /\ memoMu = Nobody => Cardinality(pending) <= Cardinality(snapshot)
    /\ IF \E v \in Validation : doing[v] = "unlock"
       THEN pending = {} ELSE np = Cardinality(pending)

\* A look-up that is past the snapshot can still find what was there when it
\* began, unless a publication overlapped it.
LookUps ==
    \A v \in Validation :
        /\ begun[v] \subseteq snapshot \cup pending
        /\ doing[v] \in {"np", "lock"} /\ name[v] \in begun[v] =>
              name[v] \in pending \/ overlapped[v]
        /\ doing[v] = "derive" /\ name[v] \in begun[v] => overlapped[v]

MemoInv == MemoType /\ MemoLocked /\ MemoSizes /\ LookUps

LEMMA Counts ==
    ASSUME NEW S, IsFiniteSet(S), NEW T, IsFiniteSet(T), NEW x
    PROVE  /\ Cardinality(S) \in Nat /\ Cardinality(T) \in Nat
           /\ Cardinality(S) = 0 <=> S = {}
           /\ IsFiniteSet(S \cup T) /\ Cardinality(S \cup T) \in Nat
           /\ Cardinality(S \cup T) <= Cardinality(S) + Cardinality(T)
           /\ IsFiniteSet(S \cup {x}) /\ Cardinality(S \cup {x}) \in Nat
           /\ Cardinality(S \cup {x}) =
                 IF x \in S THEN Cardinality(S) ELSE Cardinality(S) + 1
<1>1. Cardinality(S) \in Nat /\ Cardinality(T) \in Nat /\ (Cardinality(S) = 0 <=> S = {})
  BY FS_CardinalityType, FS_EmptySet
<1>2. /\ IsFiniteSet(S \cup T) /\ IsFiniteSet(S \cap T)
      /\ Cardinality(S \cup T) = Cardinality(S) + Cardinality(T) - Cardinality(S \cap T)
  BY FS_Union, FS_Intersection
<1>3. Cardinality(S \cup T) \in Nat /\ Cardinality(S \cap T) \in Nat
  BY <1>2, FS_CardinalityType
<1>4. /\ IsFiniteSet(S \cup {x})
      /\ Cardinality(S \cup {x}) =
            IF x \in S THEN Cardinality(S) ELSE Cardinality(S) + 1
  BY FS_AddElement
<1>5. Cardinality(S \cup {x}) \in Nat
  BY <1>4, FS_CardinalityType
<1> QED BY <1>1, <1>2, <1>3, <1>4, <1>5

\* A step of a look-up that changes nothing the others see.
LEMMA MemoReads ==
    ASSUME MemoInv, NEW v \in Validation, NEW s \in Steps,
           doing[v] \notin Publishing, s \notin Publishing, Goto(v, s),
           UNCHANGED <<snapshot, pending, np, memoMu, name, begun, overlapped>>,
           s \in {"np", "lock"} /\ name[v] \in begun[v] =>
              name[v] \in pending \/ overlapped[v],
           s = "derive" /\ name[v] \in begun[v] => overlapped[v]
    PROVE  MemoInv'
<1>1. /\ doing' \in [Validation -> Steps] /\ doing'[v] = s
      /\ \A w \in Validation : w # v => doing'[w] = doing[w]
  BY DEF Goto, MemoInv, MemoType
<1>2. MemoType'
  BY <1>1 DEF MemoInv, MemoType
<1>3. MemoLocked'
  BY <1>1 DEF MemoInv, MemoLocked, MemoType
<1>4. MemoSizes'
  <2>1. \A w \in Validation : doing'[w] = "unlock" <=> doing[w] = "unlock"
    BY <1>1 DEF Publishing
  <2> QED BY <2>1 DEF MemoInv, MemoSizes
<1>5. LookUps'
  BY <1>1 DEF MemoInv, LookUps
<1> QED BY <1>2, <1>3, <1>4, <1>5 DEF MemoInv

LEMMA MemoInvStep == MemoInv /\ [NameMemoNext]_memoVars => MemoInv' /\ [NothingForgotten]_memoVars
<1> SUFFICES ASSUME MemoInv, [NameMemoNext]_memoVars
             PROVE  MemoInv' /\ snapshot \cup pending \subseteq snapshot' \cup pending'
  BY DEF NothingForgotten
<1>0. MemoType /\ MemoLocked /\ MemoSizes /\ LookUps
  BY DEF MemoInv
<1>1. ASSUME NEW v \in Validation, Begin(v)
      PROVE  MemoInv' /\ snapshot \cup pending \subseteq snapshot' \cup pending'
  <2>1. /\ doing[v] = "idle" /\ doing' = [doing EXCEPT ![v] = "snapshot"]
        /\ UNCHANGED <<snapshot, pending, np, hits, memoMu>>
        /\ \E n \in MemoName : name' = [name EXCEPT ![v] = n]
        /\ begun' = [begun EXCEPT ![v] = snapshot \cup pending]
        /\ overlapped' = [overlapped EXCEPT ![v] = FALSE]
    BY <1>1 DEF Begin, At, Goto
  <2>2. /\ doing' \in [Validation -> Steps] /\ doing'[v] = "snapshot"
        /\ begun'[v] = snapshot \cup pending
        /\ \A w \in Validation : w # v =>
              /\ doing'[w] = doing[w] /\ name'[w] = name[w]
              /\ begun'[w] = begun[w] /\ overlapped'[w] = overlapped[w]
    BY <1>0, <2>1 DEF MemoType, Steps
  <2>3. MemoType'
    BY <1>0, <2>1, <2>2 DEF MemoType
  <2>4. MemoLocked' /\ MemoSizes'
    <3>1. \A w \in Validation : doing'[w] \in Publishing <=> doing[w] \in Publishing
      BY <2>1, <2>2 DEF Publishing
    <3>2. \A w \in Validation : doing'[w] = "unlock" <=> doing[w] = "unlock"
      BY <2>1, <2>2
    <3> QED BY <1>0, <2>1, <3>1, <3>2 DEF MemoLocked, MemoSizes, MemoType
  <2>5. LookUps'
    BY <1>0, <2>1, <2>2 DEF LookUps
  <2> QED BY <2>1, <2>3, <2>4, <2>5 DEF MemoInv
<1>2. ASSUME NEW v \in Validation, LoadSnapshot(v)
      PROVE  MemoInv' /\ snapshot \cup pending \subseteq snapshot' \cup pending'
  <2>1. /\ doing[v] = "snapshot"
        /\ Goto(v, IF name[v] \in snapshot THEN "idle" ELSE "np")
        /\ UNCHANGED <<snapshot, pending, np, memoMu, name, begun, overlapped>>
    BY <1>2 DEF LoadSnapshot, At
  <2>2. name[v] \notin snapshot /\ name[v] \in begun[v] => name[v] \in pending
    BY <1>0 DEF LookUps
  <2> QED BY <2>1, <2>2, MemoReads DEF Publishing, Steps
<1>3. ASSUME NEW v \in Validation, LoadNp(v)
      PROVE  MemoInv' /\ snapshot \cup pending \subseteq snapshot' \cup pending'
  <2>1. /\ doing[v] = "np" /\ Goto(v, IF np = 0 THEN "derive" ELSE "lock")
        /\ UNCHANGED <<snapshot, pending, np, memoMu, name, begun, overlapped>>
    BY <1>3 DEF LoadNp, At
  <2>2. name[v] \in pending => np # 0
    BY <1>0, Counts DEF MemoType, MemoSizes
  <2>3. name[v] \in begun[v] => name[v] \in pending \/ overlapped[v]
    BY <1>0, <2>1 DEF LookUps
  <2> QED BY <2>1, <2>2, <2>3, MemoReads DEF Publishing, Steps
<1>4. ASSUME NEW v \in Validation, LoadPending(v)
      PROVE  MemoInv' /\ snapshot \cup pending \subseteq snapshot' \cup pending'
  <2> DEFINE hit == name[v] \in pending
             publishes == hit /\ hits + 1 >= PendingHitsPublish
  <2>1. /\ doing[v] = "lock" /\ memoMu = Nobody
        /\ memoMu' = IF publishes THEN v ELSE Nobody
        /\ Goto(v, IF publishes THEN "publish" ELSE IF hit THEN "idle" ELSE "derive")
        /\ UNCHANGED <<snapshot, pending, np, name, begun, overlapped>>
    BY <1>4 DEF LoadPending, At
  <2>2. CASE publishes
    <3>0. memoMu' = v /\ Goto(v, "publish")
      <4> HIDE DEF publishes, hit
      <4> QED BY <2>1, <2>2
    <3>1. memoMu' = v /\ doing' = [doing EXCEPT ![v] = "publish"]
      BY <3>0 DEF Goto
    <3>2. /\ doing' \in [Validation -> Steps] /\ doing'[v] = "publish"
          /\ \A w \in Validation : w # v => doing'[w] = doing[w]
      BY <1>0, <3>1 DEF MemoType, Steps
    <3> HIDE DEF publishes
    <3>3. MemoType' /\ LookUps'
      BY <1>0, <2>1, <3>1, <3>2 DEF MemoType, LookUps
    <3>4. MemoLocked' /\ MemoSizes'
      <4>1. \A w \in Validation : doing[w] \notin Publishing
        BY <1>0, <2>1, NobodyAssumption DEF MemoLocked
      <4> QED BY <1>0, <2>1, <3>1, <3>2, <4>1, NobodyAssumption
              DEF MemoLocked, MemoSizes, Publishing
    <3> QED BY <2>1, <3>3, <3>4 DEF MemoInv
  <2>3. CASE ~publishes
    <3>1. memoMu' = memoMu /\ Goto(v, IF hit THEN "idle" ELSE "derive")
      BY <2>1, <2>3
    <3>2. name[v] \in begun[v] => name[v] \in pending \/ overlapped[v]
      BY <1>0, <2>1 DEF LookUps
    <3> QED BY <2>1, <3>1, <3>2, MemoReads DEF Publishing, Steps
  <2> QED BY <2>2, <2>3
<1>5. ASSUME NEW v \in Validation, Derive(v)
      PROVE  MemoInv' /\ snapshot \cup pending \subseteq snapshot' \cup pending'
  BY <1>5, MemoReads DEF Derive, At, Publishing, Steps
<1>6. ASSUME NEW v \in Validation, StoreName(v)
      PROVE  MemoInv' /\ snapshot \cup pending \subseteq snapshot' \cup pending'
  <2> DEFINE full == Cardinality(snapshot) + Cardinality(pending) >= MaxOpenMemo
             after == pending \cup {name[v]}
             publishes == Cardinality(after) > Cardinality(snapshot)
  <2>1. /\ doing[v] = "store" /\ memoMu = Nobody
        /\ UNCHANGED <<snapshot, hits, name, begun, overlapped>>
    BY <1>6 DEF StoreName, At
  <2>2. CASE name[v] \notin pending /\ full
    <3>1. Goto(v, "idle") /\ UNCHANGED <<pending, np, memoMu>>
      BY <1>6, <2>2 DEF StoreName
    <3> QED BY <2>1, <3>1, MemoReads DEF Publishing, Steps
  <2>3. CASE ~(name[v] \notin pending /\ full)
    <3>1. /\ pending' = after
          /\ np' = Cardinality(after)
          /\ memoMu' = IF publishes THEN v ELSE Nobody
          /\ Goto(v, IF publishes THEN "publish" ELSE "idle")
      BY <1>6, <2>3 DEF StoreName
    <3>2. /\ doing' \in [Validation -> Steps]
          /\ doing'[v] = IF publishes THEN "publish" ELSE "idle"
          /\ \A w \in Validation : w # v => doing'[w] = doing[w]
      BY <1>0, <3>1 DEF MemoType, Steps, Goto
    <3>3. /\ IsFiniteSet(after) /\ Cardinality(after) \in Nat
          /\ Cardinality(pending) \in Nat /\ Cardinality(snapshot) \in Nat
          /\ Cardinality(after) =
                IF name[v] \in pending THEN Cardinality(pending) ELSE Cardinality(pending) + 1
      BY <1>0, Counts DEF MemoType
    <3>4. Cardinality(snapshot) + Cardinality(after) <= MaxOpenMemo
      BY <1>0, <2>3, <3>3, NameMemoAssumption DEF MemoSizes
    <3>5. \A w \in Validation : doing[w] \notin Publishing
      BY <1>0, <2>1, NobodyAssumption DEF MemoLocked
    <3>6. ~publishes => Cardinality(after) <= Cardinality(snapshot)
      BY <3>3
    <3>7. pending \subseteq pending'
      BY <3>1
    <3>8. IsFiniteSet(pending')
      BY <3>1, <3>3
    <3> HIDE DEF publishes, after
    <3>9. MemoType'
      BY <1>0, <2>1, <3>1, <3>2, <3>8 DEF MemoType
    <3>10. MemoLocked'
      BY <1>0, <2>1, <3>1, <3>2, <3>5, NobodyAssumption DEF MemoLocked, Publishing
    <3>11. MemoSizes'
      <4>1. \A w \in Validation : doing'[w] # "unlock"
        BY <3>2, <3>5 DEF Publishing
      <4> QED BY <2>1, <3>1, <3>4, <3>6, <4>1, NobodyAssumption DEF MemoSizes
    <3>12. LookUps'
      <4>1. \A w \in Validation : doing'[w] \in {"np", "lock", "derive"} => doing'[w] = doing[w]
        BY <3>2
      <4> QED BY <1>0, <2>1, <3>7, <4>1 DEF LookUps
    <3> QED BY <2>1, <3>7, <3>9, <3>10, <3>11, <3>12 DEF MemoInv
  <2> QED BY <2>2, <2>3
<1>7. ASSUME NEW v \in Validation, PublishSnapshot(v)
      PROVE  MemoInv' /\ snapshot \cup pending \subseteq snapshot' \cup pending'
  <2>1. /\ doing[v] = "publish"
        /\ snapshot' = snapshot \cup pending /\ pending' = {}
        /\ doing' = [doing EXCEPT ![v] = "unlock"]
        /\ overlapped' = [w \in Validation |-> TRUE]
        /\ UNCHANGED <<np, memoMu, name, begun>>
    BY <1>7 DEF PublishSnapshot, At, Goto
  <2>2. /\ doing' \in [Validation -> Steps] /\ doing'[v] = "unlock"
        /\ \A w \in Validation : w # v => doing'[w] = doing[w]
    BY <1>0, <2>1 DEF MemoType, Steps
  <2>3. /\ IsFiniteSet(snapshot \cup pending) /\ IsFiniteSet({}) /\ Cardinality({}) = 0
        /\ Cardinality(snapshot \cup pending) \in Nat
        /\ Cardinality(snapshot \cup pending) <= Cardinality(snapshot) + Cardinality(pending)
        /\ Cardinality(snapshot) \in Nat /\ Cardinality(pending) \in Nat
    BY <1>0, Counts, FS_EmptySet DEF MemoType
  <2>4. MemoType' /\ LookUps'
    BY <1>0, <2>1, <2>2, <2>3 DEF MemoType, LookUps
  <2>5. MemoLocked'
    BY <1>0, <2>1, <2>2 DEF MemoLocked, Publishing
  <2>6. MemoSizes'
    <3>1. Cardinality(snapshot') + Cardinality(pending') <= MaxOpenMemo
      BY <1>0, <2>1, <2>3, NameMemoAssumption DEF MemoSizes
    <3>2. Cardinality(pending') <= Cardinality(snapshot')
      BY <2>1, <2>3
    <3> QED BY <2>1, <2>2, <3>1, <3>2 DEF MemoSizes
  <2> QED BY <2>1, <2>4, <2>5, <2>6 DEF MemoInv
<1>8. ASSUME NEW v \in Validation, PublishNp(v)
      PROVE  MemoInv' /\ snapshot \cup pending \subseteq snapshot' \cup pending'
  <2>1. /\ doing[v] = "unlock" /\ np' = 0 /\ memoMu' = Nobody
        /\ doing' = [doing EXCEPT ![v] = "idle"]
        /\ UNCHANGED <<snapshot, pending, name, begun, overlapped>>
    BY <1>8 DEF PublishNp, At, Goto
  <2>2. /\ doing' \in [Validation -> Steps] /\ doing'[v] = "idle"
        /\ \A w \in Validation : w # v => doing'[w] = doing[w]
    BY <1>0, <2>1 DEF MemoType, Steps
  <2>3. pending = {} /\ Cardinality({}) = 0 /\ Cardinality(snapshot) \in Nat
    BY <1>0, <2>1, Counts, FS_EmptySet DEF MemoSizes, MemoType
  <2>4. \A w \in Validation : w # v => doing[w] \notin Publishing
    BY <1>0, <2>1 DEF MemoLocked, Publishing
  <2>5. MemoType' /\ LookUps'
    BY <1>0, <2>1, <2>2 DEF MemoType, LookUps
  <2>6. MemoLocked'
    BY <2>1, <2>2, <2>4 DEF MemoLocked, Publishing
  <2>7. MemoSizes'
    BY <1>0, <2>1, <2>2, <2>3 DEF MemoSizes
  <2> QED BY <2>1, <2>5, <2>6, <2>7 DEF MemoInv
<1>9. CASE UNCHANGED memoVars
  BY <1>9 DEF memoVars, MemoInv, MemoType, MemoLocked, MemoSizes, LookUps
<1> QED BY <1>1, <1>2, <1>3, <1>4, <1>5, <1>6, <1>7, <1>8, <1>9 DEF NameMemoNext, Proceed

LEMMA MemoInvInit == NameMemoInit => MemoInv
<1> SUFFICES ASSUME NameMemoInit PROVE MemoInv
  OBVIOUS
<1>1. IsFiniteSet({}) /\ Cardinality({}) = 0
  BY FS_EmptySet
<1>2. MemoType
  BY <1>1 DEF NameMemoInit, MemoType, Steps
<1> QED BY <1>1, <1>2, NameMemoAssumption
        DEF NameMemoInit, MemoInv, MemoLocked, MemoSizes, LookUps, Publishing

LEMMA InvMemo == MemoInv => MemoBounded /\ MissedByPublication
<1> SUFFICES ASSUME MemoInv PROVE MemoBounded /\ MissedByPublication
  OBVIOUS
<1>1. /\ Cardinality(snapshot \cup pending) \in Nat
      /\ Cardinality(snapshot \cup pending) <= Cardinality(snapshot) + Cardinality(pending)
      /\ Cardinality(snapshot) \in Nat /\ Cardinality(pending) \in Nat
  BY Counts DEF MemoInv, MemoType
<1>2. Cardinality(snapshot \cup pending) <= MaxOpenMemo
  BY <1>1, NameMemoAssumption DEF MemoInv, MemoSizes
<1> QED BY <1>2 DEF MemoInv, MemoSizes, LookUps, MemoBounded, MissedByPublication, At

\* However many validations of a schema look up, store and publish at once, a
\* pattern's memo stays within maxOpenMemo, loses nothing, and hides a name it
\* had from nobody whom a publication did not overtake.
THEOREM MemoKeptHolds == NameMemoSpec => MemoKept
<1>1. NameMemoSpec => []MemoInv
  BY MemoInvInit, MemoInvStep, PTL DEF NameMemoSpec
<1>2. MemoInv' => MemoBounded' /\ MissedByPublication'
  BY InvMemo, PTL
<1>3. MemoInv /\ [NameMemoNext]_memoVars =>
         [MemoBounded' /\ MissedByPublication' /\ NothingForgotten]_memoVars
  BY <1>2, MemoInvStep
<1> QED BY <1>1, <1>3, PTL DEF NameMemoSpec, MemoKept
-----------------------------------------------------------------------------
(* The tables of the xpath package.                                         *)

HasCollation == {"put", "insert", "key", "copy"}

AskType == [step : AskStep, uri : Uri \cup {Idle.uri}, text : Text \cup {Idle.text},
            coll : 0 .. MaxParsed]

\* The table is written by the one goroutine that holds its lock, which finds
\* room in it; a collation's buffer is empty unless a goroutine holds its lock,
\* and then has that goroutine's text alone.
CacheInv ==
    /\ asks \in [Goroutine -> AskType]
    /\ parsed \in 0 .. MaxParsed
    /\ items \subseteq [uri : Uri \cup {Idle.uri}, coll : Collation] /\ IsFiniteSet(items)
    /\ itemsMu # Unlocked => Cardinality(items) < CachedMax
    /\ \A g \in Goroutine : asks[g].step = "insert" <=> itemsMu = g
    /\ \A g \in Goroutine : asks[g].step \in HasCollation => asks[g].coll \in Collation
    /\ CacheBounded

BufferInv ==
    /\ keyMu \in [Collation -> Goroutine \cup {Unlocked}]
    /\ buf \in [Collation -> SUBSET (Text \cup {Idle.text})]
    /\ \A g \in Goroutine :
          asks[g].step = "copy" => /\ keyMu[asks[g].coll] = g
                                   /\ buf[asks[g].coll] = {asks[g].text}
    /\ \A c \in Collation : keyMu[c] = Unlocked => buf[c] = {}
    /\ KeyOfItsText

StepMemoInv ==
    /\ parents \subseteq StepKey /\ IsFiniteSet(parents)
    /\ heldItems \in Nat /\ heldItems <= StepMemoMax
    /\ heldItems = SumOver(FoundBy, parents)

TablesInv == CacheInv /\ BufferInv /\ StepMemoInv

LEMMA TablesInvInit == MemoTablesInit => TablesInv
<1> SUFFICES ASSUME MemoTablesInit PROVE TablesInv
  OBVIOUS
<1>1. Idle.step = "idle" /\ Idle.coll = 0 /\ Idle \in AskType
  <2>1. 0 \in 0 .. MaxParsed
    BY MemoTablesAssumption
  <2> QED BY <2>1 DEF Idle, AskType, AskStep
<1>2. IsFiniteSet({}) /\ Cardinality({}) = 0
  BY FS_EmptySet
<1>3. CacheInv
  BY <1>1, <1>2, MemoTablesAssumption, UnlockedAssumption
  DEF MemoTablesInit, CacheInv, CacheBounded, HasCollation
<1>4. BufferInv
  BY <1>1 DEF MemoTablesInit, BufferInv, KeyOfItsText
<1>5. StepMemoInv
  <2>1. SumOver(FoundBy, {}) = 0
    BY SumEmpty
  <2> QED BY <1>2, <2>1, MemoTablesAssumption
          DEF MemoTablesInit, StepMemoInv
<1> QED BY <1>3, <1>4, <1>5 DEF TablesInv

LEMMA AskWith ==
    ASSUME NEW a \in AskType, NEW s \in AskStep, NEW c \in 0 .. MaxParsed
    PROVE  /\ [a EXCEPT !.step = s, !.coll = c] \in AskType
           /\ [a EXCEPT !.step = s, !.coll = c].step = s
           /\ [a EXCEPT !.step = s, !.coll = c].coll = c
<1> DEFINE b == [a EXCEPT !.step = s]
<1>1. b \in AskType /\ b.step = s
  BY DEF AskType
<1>2. [a EXCEPT !.step = s, !.coll = c] = [b EXCEPT !.coll = c]
  OBVIOUS
<1> HIDE DEF b
<1> QED BY <1>1, <1>2 DEF AskType

\* The goroutines' steps and the table.
LEMMA CacheInvStep ==
    ASSUME CacheInv, NEW g \in Goroutine,
           \/ Ask(g) \/ CacheGet(g) \/ ParseCollation(g)
           \/ CacheMakeRoom(g) \/ CacheInsert(g)
           \/ KeyFromString(g) \/ CopyKey(g)
    PROVE  CacheInv'
<1> USE MemoTablesAssumption, UnlockedAssumption DEF AskStep, AskType, HasCollation
<1>0. Idle \in AskType /\ Idle.step = "idle"
  BY DEF Idle
<1>1. CASE Ask(g)
  <2>1. PICK u \in Uri, x \in Text :
           asks' = [asks EXCEPT ![g] = [step |-> "get", uri |-> u, text |-> x, coll |-> 0]]
    BY <1>1 DEF Ask, Becomes
  <2> QED BY <1>1, <2>1 DEF Ask, Doing, CacheInv, CacheBounded
<1>2. CASE CacheGet(g)
  <2>1. CASE \E e \in items : Becomes(g, [asks[g] EXCEPT !.step = "key", !.coll = e.coll])
    <3>1. PICK e \in items : asks' = [asks EXCEPT ![g] = [asks[g] EXCEPT !.step = "key", !.coll = e.coll]]
      BY <2>1 DEF Becomes
    <3>2. e.coll \in Collation /\ asks[g] \in AskType /\ asks[g].step = "get"
      BY <1>2 DEF CacheGet, Doing, CacheInv
    <3> DEFINE r == [asks[g] EXCEPT !.step = "key", !.coll = e.coll]
    <3>3. e.coll \in 0 .. MaxParsed /\ "key" \in AskStep
      BY <3>2 DEF Collation
    <3>4. r \in AskType /\ r.step = "key" /\ r.coll \in Collation
      BY <3>2, <3>3, AskWith
    <3>5. asks' = [asks EXCEPT ![g] = r]
      BY <3>1
    <3> HIDE DEF r
    <3> QED BY <1>2, <3>2, <3>4, <3>5 DEF CacheGet, CacheInv, CacheBounded
  <2>2. CASE Becomes(g, [asks[g] EXCEPT !.step = "parse"])
    BY <1>2, <2>2 DEF CacheGet, Doing, Becomes, CacheInv, CacheBounded
  <2> QED BY <1>2, <2>1, <2>2 DEF CacheGet
<1>3. CASE ParseCollation(g)
  <2>1. PICK r \in AskType :
           asks' = [asks EXCEPT ![g] = r] /\ r.step \in {"put", "key"} /\ r.coll \in Collation
    <3> DEFINE goes == IF asks[g].uri \in CachedUri THEN "put" ELSE "key"
               r == [asks[g] EXCEPT !.coll = parsed + 1, !.step = goes]
    <3>1. asks[g] \in AskType /\ parsed + 1 \in Collation /\ goes \in {"put", "key"}
      BY <1>3 DEF ParseCollation, CacheInv, Collation
    <3>2. asks' = [asks EXCEPT ![g] = r]
      BY <1>3 DEF ParseCollation, Becomes
    <3> HIDE DEF goes
    <3>3. r = [asks[g] EXCEPT !.step = goes, !.coll = parsed + 1]
      BY <3>1 DEF AskType
    <3>4. r \in AskType /\ r.step = goes /\ r.coll = parsed + 1
      <4>1. parsed + 1 \in 0 .. MaxParsed /\ goes \in AskStep
        BY <3>1 DEF Collation
      <4> QED BY <3>1, <3>3, <4>1, AskWith
    <3> QED BY <3>1, <3>2, <3>4
  <2>2. parsed' \in 0 .. MaxParsed
    BY <1>3 DEF ParseCollation, CacheInv
  <2>3. UNCHANGED <<items, itemsMu>> /\ asks[g].step = "parse"
    BY <1>3 DEF ParseCollation, Doing
  <2> QED BY <2>1, <2>2, <2>3 DEF CacheInv, CacheBounded
<1>4. CASE CacheMakeRoom(g)
  <2>1. /\ IsFiniteSet(items') /\ Cardinality(items') < CachedMax
        /\ items' \subseteq items
    <3>1. Cardinality({}) = 0 /\ IsFiniteSet({}) /\ Cardinality(items) \in Nat
      BY FS_EmptySet, FS_CardinalityType DEF CacheInv
    <3> QED BY <1>4, <3>1 DEF CacheMakeRoom, CacheInv
  <2>2. \A h \in Goroutine : asks[h].step # "insert"
    BY <1>4 DEF CacheMakeRoom, CacheInv
  <2>3. /\ asks' = [asks EXCEPT ![g] = [asks[g] EXCEPT !.step = "insert"]]
        /\ itemsMu' = g /\ parsed' = parsed
        /\ asks[g].step = "put"
    BY <1>4 DEF CacheMakeRoom, Doing, Becomes
  <2>4. Cardinality(items') \in Nat
    BY <2>1, FS_CardinalityType
  <2>5. CacheBounded'
    BY <2>1, <2>4 DEF CacheInv, CacheBounded
  <2> QED BY <2>1, <2>2, <2>3, <2>5 DEF CacheInv
<1>5. CASE CacheInsert(g)
  <2> DEFINE a == asks[g]
             kept == {e \in items : e.uri # a.uri}
             new == [uri |-> a.uri, coll |-> a.coll]
  <2>1. a \in AskType /\ a.step = "insert" /\ itemsMu = g /\ a.coll \in Collation
    BY <1>5 DEF CacheInsert, Doing, CacheInv
  <2>2. items' = kept \cup {new}
    BY <1>5 DEF CacheInsert
  <2>3. IsFiniteSet(kept) /\ Cardinality(kept) <= Cardinality(items)
    BY FS_Subset DEF CacheInv
  <2>4. new \notin kept /\ new \in [uri : Uri \cup {Idle.uri}, coll : Collation]
    BY <2>1
  <2>5. Cardinality(items) < CachedMax
    BY <2>1 DEF CacheInv
  <2>6. IsFiniteSet(items') /\ Cardinality(items') = Cardinality(kept) + 1
    BY <2>2, <2>3, <2>4, FS_AddElement
  <2>7. Cardinality(items') <= CachedMax
    <3>1. Cardinality(kept) \in Nat /\ Cardinality(items) \in Nat
      BY <2>3, FS_CardinalityType DEF CacheInv
    <3> QED BY <2>3, <2>5, <2>6, <3>1
  <2>8. \A d, e \in items' : d.uri = e.uri => d = e
    <3>1. \A e \in kept : e.uri # new.uri
      OBVIOUS
    <3> QED BY <2>2, <3>1 DEF CacheInv, CacheBounded
  <2>9. items' \subseteq [uri : Uri \cup {Idle.uri}, coll : Collation]
    BY <2>2, <2>4 DEF CacheInv
  <2>10. /\ asks' = [asks EXCEPT ![g] = [asks[g] EXCEPT !.step = "key"]]
         /\ itemsMu' = Unlocked /\ parsed' = parsed
    BY <1>5 DEF CacheInsert, Becomes
  <2>11. asks \in [Goroutine -> AskType] /\ asks' \in [Goroutine -> AskType]
    BY <2>1, <2>10 DEF CacheInv
  <2>12. \A h \in Goroutine : asks'[h].step # "insert"
    BY <2>1, <2>10, <2>11 DEF CacheInv
  <2>13. \A h \in Goroutine : asks'[h].step \in HasCollation => asks'[h].coll \in Collation
    BY <2>1, <2>10, <2>11 DEF CacheInv
  <2>14. CacheBounded'
    BY <2>7, <2>8 DEF CacheBounded
  <2>15. parsed' \in 0 .. MaxParsed
    BY <2>10 DEF CacheInv
  <2> QED BY <2>6, <2>9, <2>10, <2>11, <2>12, <2>13, <2>14, <2>15 DEF CacheInv
<1>6. CASE KeyFromString(g)
  BY <1>6 DEF KeyFromString, Doing, Becomes, CacheInv, CacheBounded, Collation
<1>7. CASE CopyKey(g)
  BY <1>0, <1>7 DEF CopyKey, Doing, Becomes, CacheInv, CacheBounded
<1> QED BY <1>1, <1>2, <1>3, <1>4, <1>5, <1>6, <1>7

\* ... and the collations' buffers.
LEMMA BufferInvStep ==
    ASSUME CacheInv, BufferInv, NEW g \in Goroutine,
           \/ Ask(g) \/ CacheGet(g) \/ ParseCollation(g)
           \/ CacheMakeRoom(g) \/ CacheInsert(g)
           \/ KeyFromString(g) \/ CopyKey(g)
    PROVE  BufferInv'
<1> USE UnlockedAssumption
<1>0. asks \in [Goroutine -> AskType]
  BY DEF CacheInv
<1>1. ASSUME UNCHANGED <<keyMu, buf, keys>>,
             NEW r, r.step # "copy", asks' = [asks EXCEPT ![g] = r]
      PROVE  BufferInv'
  BY <1>0, <1>1 DEF BufferInv, KeyOfItsText
<1>2. CASE Ask(g)
  BY <1>1, <1>2 DEF Ask, Becomes
<1>3. CASE CacheGet(g)
  BY <1>0, <1>1, <1>3 DEF CacheGet, Becomes, AskType
<1>4. CASE ParseCollation(g)
  <2> DEFINE r == [asks[g] EXCEPT !.coll = parsed + 1,
                      !.step = IF asks[g].uri \in CachedUri THEN "put" ELSE "key"]
  <2>1. r.step # "copy"
    BY <1>0 DEF AskType
  <2>2. UNCHANGED <<keyMu, buf, keys>> /\ asks' = [asks EXCEPT ![g] = r]
    BY <1>4 DEF ParseCollation, Becomes
  <2> QED BY <1>1, <2>1, <2>2
<1>5. CASE CacheMakeRoom(g)
  BY <1>0, <1>1, <1>5 DEF CacheMakeRoom, Becomes, AskType
<1>6. CASE CacheInsert(g)
  BY <1>0, <1>1, <1>6 DEF CacheInsert, Becomes, AskType
<1>7. CASE KeyFromString(g)
  <2> DEFINE c == asks[g].coll
  <2>1. asks[g].step = "key" /\ c \in Collation /\ asks[g] \in AskType
    BY <1>0, <1>7 DEF KeyFromString, Doing, CacheInv, HasCollation
  <2>2. /\ keyMu[c] = Unlocked /\ buf[c] = {}
        /\ keyMu' = [keyMu EXCEPT ![c] = g]
        /\ buf' = [buf EXCEPT ![c] = buf[c] \cup {asks[g].text}]
        /\ asks' = [asks EXCEPT ![g] = [asks[g] EXCEPT !.step = "copy"]]
        /\ keys' = keys
    BY <1>7, <2>1 DEF KeyFromString, Becomes, BufferInv
  <2> HIDE DEF c
  <2>3. asks'[g].step = "copy" /\ asks'[g].coll = c /\ asks'[g].text = asks[g].text
    BY <1>0, <2>1, <2>2 DEF AskType, c
  <2>4. keyMu'[c] = g /\ buf'[c] = {asks[g].text}
    BY <2>1, <2>2 DEF BufferInv
  <2>5. \A h \in Goroutine : h # g /\ asks'[h].step = "copy" =>
            asks'[h] = asks[h] /\ asks[h].coll \in Collation /\ asks[h].coll # c
    BY <1>0, <2>2 DEF BufferInv, CacheInv, HasCollation
  <2>6. \A h \in Goroutine : asks'[h].step = "copy" =>
            keyMu'[asks'[h].coll] = h /\ buf'[asks'[h].coll] = {asks'[h].text}
    BY <2>2, <2>3, <2>4, <2>5 DEF BufferInv
  <2>7. \A d \in Collation : keyMu'[d] = Unlocked => buf'[d] = {}
    BY <2>1, <2>2 DEF BufferInv
  <2>8. /\ keyMu' \in [Collation -> Goroutine \cup {Unlocked}]
        /\ buf' \in [Collation -> SUBSET (Text \cup {Idle.text})]
    BY <2>1, <2>2 DEF BufferInv, AskType
  <2> QED BY <2>2, <2>6, <2>7, <2>8 DEF BufferInv, KeyOfItsText
<1>8. CASE CopyKey(g)
  <2> DEFINE c == asks[g].coll
  <2>1. asks[g].step = "copy" /\ c \in Collation /\ asks[g] \in AskType
    BY <1>0, <1>8 DEF CopyKey, Doing, CacheInv, HasCollation
  <2>2. /\ keyMu[c] = g /\ buf[c] = {asks[g].text}
        /\ keyMu' = [keyMu EXCEPT ![c] = Unlocked]
        /\ buf' = [buf EXCEPT ![c] = {}]
        /\ asks' = [asks EXCEPT ![g] = Idle]
        /\ keys' = keys \cup {[of |-> asks[g].text, bytes |-> {asks[g].text}]}
    BY <1>8, <2>1 DEF CopyKey, Becomes, BufferInv
  <2> HIDE DEF c
  <2>3. \A h \in Goroutine : asks'[h].step = "copy" =>
            h # g /\ asks'[h] = asks[h] /\ asks[h].coll \in Collation /\ asks[h].coll # c
    BY <1>0, <2>2 DEF BufferInv, CacheInv, HasCollation, Idle
  <2>4. \A h \in Goroutine : asks'[h].step = "copy" =>
            keyMu'[asks'[h].coll] = h /\ buf'[asks'[h].coll] = {asks'[h].text}
    BY <2>2, <2>3 DEF BufferInv
  <2>5. \A d \in Collation : keyMu'[d] = Unlocked => buf'[d] = {}
    BY <2>1, <2>2 DEF BufferInv
  <2>6. /\ keyMu' \in [Collation -> Goroutine \cup {Unlocked}]
        /\ buf' \in [Collation -> SUBSET (Text \cup {Idle.text})]
    BY <2>1, <2>2 DEF BufferInv
  <2>7. KeyOfItsText'
    BY <2>2 DEF BufferInv, KeyOfItsText
  <2> QED BY <2>4, <2>5, <2>6, <2>7 DEF BufferInv
<1> QED BY <1>2, <1>3, <1>4, <1>5, <1>6, <1>7, <1>8

\* A key is worked out once: what is held grows by what it finds.
LEMMA StepMemoInvStep ==
    ASSUME StepMemoInv, NEW k \in StepKey, NamedParents(k)
    PROVE  StepMemoInv'
<1>1. heldItems = SumOver(FoundBy, parents)
  BY DEF StepMemoInv
<1>2. SumOver(FoundBy, parents \cup {k}) = FoundBy[k] + SumOver(FoundBy, parents)
  <2>1. \A s \in parents \cup {k} : FoundBy[s] \in Nat
    BY MemoTablesAssumption DEF StepMemoInv
  <2>2. k \notin parents /\ IsFiniteSet(parents)
    BY DEF NamedParents, StepMemoInv
  <2> QED BY <2>1, <2>2, SumAdd
<1>3. FoundBy[k] \in Nat /\ heldItems \in Nat
  BY MemoTablesAssumption DEF StepMemoInv
<1>4. heldItems' = SumOver(FoundBy, parents') /\ heldItems' <= StepMemoMax /\ heldItems' \in Nat
  BY <1>1, <1>2, <1>3 DEF NamedParents
<1>5. IsFiniteSet(parents') /\ parents' \subseteq StepKey
  BY FS_AddElement DEF NamedParents, StepMemoInv
<1> QED BY <1>4, <1>5 DEF StepMemoInv

\* The tables' invariant holds of every reachable state.
THEOREM TablesInvariant == MemoTablesSpec => []TablesInv
<1>1. MemoTablesInit => TablesInv
  BY TablesInvInit
<1>2. TablesInv /\ [MemoTablesNext]_memoTablesVars => TablesInv'
  <2> SUFFICES ASSUME TablesInv, [MemoTablesNext]_memoTablesVars PROVE TablesInv'
    OBVIOUS
  <2>1. ASSUME NEW g \in Goroutine,
               \/ Ask(g) \/ CacheGet(g) \/ ParseCollation(g)
               \/ CacheMakeRoom(g) \/ CacheInsert(g)
               \/ KeyFromString(g) \/ CopyKey(g)
        PROVE  TablesInv'
    <3>1. CacheInv' /\ BufferInv'
      BY <2>1, CacheInvStep, BufferInvStep DEF TablesInv
    <3>2. UNCHANGED <<parents, heldItems>>
      BY <2>1 DEF Ask, CacheGet, ParseCollation, CacheMakeRoom, CacheInsert,
                  KeyFromString, CopyKey, stepVars
    <3>3. StepMemoInv'
      BY <3>2 DEF TablesInv, StepMemoInv
    <3> QED BY <3>1, <3>3 DEF TablesInv
  <2>2. ASSUME NEW k \in StepKey, NamedParents(k) PROVE TablesInv'
    <3>1. StepMemoInv'
      BY <2>2, StepMemoInvStep DEF TablesInv
    <3>2. CacheInv' /\ BufferInv'
      BY <2>2 DEF NamedParents, TablesInv, CacheInv, BufferInv, CacheBounded, KeyOfItsText
    <3> QED BY <3>1, <3>2 DEF TablesInv
  <2>3. CASE UNCHANGED memoTablesVars
    BY <2>3 DEF memoTablesVars, TablesInv, CacheInv, BufferInv, StepMemoInv,
                CacheBounded, KeyOfItsText
  <2> QED BY <2>1, <2>2, <2>3 DEF MemoTablesNext
<1> QED BY <1>1, <1>2, PTL DEF MemoTablesSpec

\* The tables keep to their bounds however the goroutines interleave, and a
\* key is of the string it was asked for (MemoTablesKept).
THEOREM MemoTablesHolds == MemoTablesSpec => []MemoTablesKept
<1>1. TablesInv => MemoTablesKept
  BY DEF TablesInv, CacheInv, BufferInv, StepMemoInv, MemoTablesKept,
         StepMemoAccounting, SumOver
<1> QED BY <1>1, TablesInvariant, PTL

-----------------------------------------------------------------------------
(* The namespace nodes of a tree.                                           *)

SideNodes == entries \cup HeldNodes

NodeType == [key : SideKey \cup {<<>>}, at : Slot]

SideTypes ==
    /\ entries \subseteq [key : SideKey, at : Slot]
    /\ cur \in 0 .. chunks /\ used \in 0 .. SideChunkLen /\ chunks \in 0 .. MaxChunks
    /\ freed \subseteq 1 .. chunks
    /\ held \in [Reader -> SUBSET NodeType]
    /\ armed \in BOOLEAN /\ ticks \in Nat /\ sweeps \in Nat

\* A slot is given to one node, and only slots below the next free one are
\* given; the chunk being filled is never freed.
SlotsGiven ==
    /\ \A m, n \in SideNodes : m.at = n.at => m = n
    /\ \A n \in SideNodes : n.at[1] \in 1 .. chunks /\ (n.at[1] = cur => n.at[2] < used)
    /\ cur \notin freed

\* A binding has one entry, and what is held of a binding is it.
EntriesAnswer ==
    /\ \A d, e \in entries : d.key = e.key => d = e
    /\ \A n \in HeldNodes : n.at[1] \notin freed /\ (n.key # <<>> => n \in entries)

SideInv == SideTypes /\ SlotsGiven /\ EntriesAnswer /\ OneSweepChain

LEMMA SideInvInit == SideInit => SideInv
<1> SUFFICES ASSUME SideInit PROVE SideInv
  OBVIOUS
<1>1. SideNodes = {} /\ HeldNodes = {}
  BY DEF SideInit, SideNodes, HeldNodes
<1>2. SideTypes
  <2>1. held \in [Reader -> SUBSET NodeType]
    BY DEF SideInit
  <2>2. 0 \in 0 .. MaxChunks /\ 0 \in 0 .. SideChunkLen
    BY SideTableAssumption
  <2>3. cur \in 0 .. chunks /\ used \in 0 .. SideChunkLen /\ chunks \in 0 .. MaxChunks
    BY <2>2 DEF SideInit
  <2>4. entries = {} /\ freed = {} /\ armed = FALSE /\ ticks = 0 /\ sweeps = 0
    BY DEF SideInit
  <2> QED BY <2>1, <2>3, <2>4 DEF SideTypes
<1>3. SlotsGiven /\ EntriesAnswer
  BY <1>1 DEF SideInit, SlotsGiven, EntriesAnswer
<1>4. OneSweepChain
  BY DEF SideInit, OneSweepChain
<1> QED BY <1>2, <1>3, <1>4 DEF SideInv

\* One more node is held.
LEMMA HoldFacts ==
    ASSUME SideTypes, NEW r \in Reader, NEW n \in NodeType, Hold(r, n)
    PROVE  /\ held' \in [Reader -> SUBSET NodeType]
           /\ HeldNodes' = HeldNodes \cup {n}
<1>1. held' = [held EXCEPT ![r] = held[r] \cup {n}] /\ held \in [Reader -> SUBSET NodeType]
  BY DEF Hold, SideTypes
<1> QED BY <1>1 DEF HeldNodes

LEMMA SideFound ==
    ASSUME SideInv, NEW r \in Reader, NEW e \in Live(entries), Hold(r, e),
           UNCHANGED <<entries, armed, cur, used, chunks, ticks, freed, sweeps>>
    PROVE  SideInv'
<1>1. e \in entries /\ e \in NodeType /\ e.at[1] \notin freed
  BY DEF Live, SideInv, SideTypes, NodeType
<1>2. held' \in [Reader -> SUBSET NodeType] /\ HeldNodes' = HeldNodes \cup {e}
  BY <1>1, HoldFacts DEF SideInv
<1>3. SideNodes' = SideNodes
  BY <1>1, <1>2 DEF SideNodes
<1> QED BY <1>1, <1>2, <1>3 DEF SideInv, SideTypes, SlotsGiven, EntriesAnswer, OneSweepChain

LEMMA SideAdded ==
    ASSUME SideInv, NEW r \in Reader, NEW key \in SideKey, Add(r, key),
           {e \in Live(entries) : e.key = key} = {},
           UNCHANGED <<freed, sweeps>>
    PROVE  SideInv'
<1> DEFINE fresh == cur = 0 \/ used = SideChunkLen
           c == IF fresh THEN chunks + 1 ELSE cur
           i == IF fresh THEN 0 ELSE used
           n == [key |-> key, at |-> <<c, i>>]
<1>1. /\ fresh => chunks < MaxChunks
      /\ chunks' = IF fresh THEN chunks + 1 ELSE chunks
      /\ cur' = c /\ used' = i + 1
      /\ entries' = {e \in entries : e.key # key} \cup {n}
      /\ armed' = TRUE
      /\ ticks' = IF armed THEN ticks ELSE ticks + 1
      /\ Hold(r, n)
  BY DEF Add
<1>2. /\ cur \in 0 .. chunks /\ chunks \in 0 .. MaxChunks /\ used \in 0 .. SideChunkLen
      /\ MaxChunks \in Nat /\ SideChunkLen \in Nat \ {0} /\ freed \subseteq 1 .. chunks
      /\ cur \notin freed
  BY SideTableAssumption DEF SideInv, SideTypes, SlotsGiven
<1>3. /\ c \in 1 .. chunks' /\ i \in 0 .. SideChunkLen - 1 /\ chunks' \in 0 .. MaxChunks
      /\ c \notin freed /\ freed \subseteq 1 .. chunks' /\ chunks <= chunks'
      /\ fresh => c \notin 1 .. chunks
      /\ ~fresh => c = cur /\ i = used
  BY <1>1, <1>2
<1> HIDE DEF c, i, fresh
<1>4. n \in [key : SideKey, at : Slot] /\ n \in NodeType /\ n.at[1] = c /\ n.at[2] = i
  BY <1>2, <1>3 DEF Slot, NodeType
<1>5. held' \in [Reader -> SUBSET NodeType] /\ HeldNodes' = HeldNodes \cup {n}
  BY <1>1, <1>4, HoldFacts DEF SideInv
<1>6. \A m \in SideNodes : m.at # n.at
  <2> SUFFICES ASSUME NEW m \in SideNodes, m.at = n.at PROVE FALSE
    OBVIOUS
  <2>1. m.at[1] = c /\ m.at[2] = i /\ m.at[1] \in 1 .. chunks /\ (m.at[1] = cur => m.at[2] < used)
    BY <1>4 DEF SideInv, SlotsGiven
  <2> QED BY <1>2, <1>3, <2>1
<1> HIDE DEF n
<1>7. \A m \in SideNodes' : m \in SideNodes \/ m = n
  BY <1>1, <1>5 DEF SideNodes
<1>8. \A l, m \in SideNodes' : l.at = m.at => l = m
  BY <1>6, <1>7 DEF SideInv, SlotsGiven
<1>9. \A m \in SideNodes' : m.at[1] \in 1 .. chunks' /\ (m.at[1] = cur' => m.at[2] < used')
  <2>1. n.at[1] \in 1 .. chunks' /\ n.at[2] < used'
    BY <1>1, <1>3, <1>4
  <2>2. ASSUME NEW m \in SideNodes
        PROVE  m.at[1] \in 1 .. chunks' /\ (m.at[1] = cur' => m.at[2] < used')
    <3>1. m.at[1] \in 1 .. chunks /\ (m.at[1] = cur => m.at[2] < used)
      BY DEF SideInv, SlotsGiven
    <3>2. m.at[2] \in Int
      BY DEF SideInv, SideTypes, SideNodes, HeldNodes, NodeType, Slot
    <3> QED BY <1>1, <1>2, <1>3, <3>1, <3>2
  <2> QED BY <1>7, <2>1, <2>2
<1>10. SlotsGiven'
  BY <1>1, <1>3, <1>8, <1>9 DEF SlotsGiven
<1>11. \A d, e \in entries' : d.key = e.key => d = e
  <2>1. n.key = key
    BY DEF n
  <2> QED BY <1>1, <2>1 DEF SideInv, EntriesAnswer
<1>12. \A m \in HeldNodes' : m.at[1] \notin freed' /\ (m.key # <<>> => m \in entries')
  <2>1. n.at[1] \notin freed' /\ n \in entries'
    BY <1>1, <1>3, <1>4
  <2>2. ASSUME NEW m \in HeldNodes
        PROVE  m.at[1] \notin freed' /\ (m.key # <<>> => m \in entries')
    <3>1. m.at[1] \notin freed /\ (m.key # <<>> => m \in entries)
      BY DEF SideInv, EntriesAnswer
    <3>2. m.key # <<>> => m.key # key
      BY <3>1 DEF Live
    <3> QED BY <1>1, <3>1, <3>2
  <2> QED BY <1>5, <2>1, <2>2
<1>13. entries' \subseteq [key : SideKey, at : Slot]
  BY <1>1, <1>4 DEF SideInv, SideTypes
<1>14. used' \in 0 .. SideChunkLen /\ cur' \in 0 .. chunks'
  BY <1>1, <1>2, <1>3
<1>15. ticks' \in Nat /\ ticks' + sweeps' = 1
  BY <1>1 DEF SideInv, SideTypes, OneSweepChain
<1> QED BY <1>1, <1>3, <1>5, <1>10, <1>11, <1>12, <1>13, <1>14, <1>15
        DEF SideInv, SideTypes, EntriesAnswer, OneSweepChain

LEMMA SideDrop ==
    ASSUME SideInv, NEW r \in Reader, Drop(r)
    PROVE  SideInv'
<1>1. PICK n \in held[r] : held' = [held EXCEPT ![r] = held[r] \ {n}]
  BY DEF Drop
<1>2. held' \in [Reader -> SUBSET NodeType] /\ HeldNodes' \subseteq HeldNodes
  BY <1>1 DEF HeldNodes, SideInv, SideTypes
<1>3. UNCHANGED <<entries, armed, cur, used, chunks, ticks, freed, sweeps>>
  BY DEF Drop
<1>4. SideNodes' \subseteq SideNodes
  BY <1>2, <1>3 DEF SideNodes
<1> QED BY <1>2, <1>3, <1>4 DEF SideInv, SideTypes, SlotsGiven, EntriesAnswer, OneSweepChain

\* The nodes of the elements removed stay with whoever holds them, as nodes of
\* no binding.
LEMMA SideTruncated ==
    ASSUME SideInv, NEW i \in Owner, SideTruncate(i)
    PROVE  SideInv'
<1> DEFINE as(n) == [n EXCEPT !.key = IF n.key # <<>> /\ n.key[1] >= i THEN <<>> ELSE @]
<1>1. /\ entries' = {e \in entries : e.key[1] < i}
      /\ cur' \in {cur, 0} /\ used' \in {used, 0} /\ (cur' = cur => used' = used \/ cur = 0)
      /\ held' = [r \in Reader |-> {as(n) : n \in held[r]}]
      /\ UNCHANGED <<armed, chunks, ticks, freed, sweeps>>
  BY DEF SideTruncate
<1>2. \A n \in NodeType :
        /\ as(n) \in NodeType /\ as(n).at = n.at
        /\ as(n).key # <<>> => as(n) = n /\ ~(n.key[1] >= i)
        /\ as(n).key = <<>> => n.key = <<>> \/ n.key[1] >= i
  BY DEF NodeType
<1>3. held \in [Reader -> SUBSET NodeType] /\ \A n \in HeldNodes : n \in NodeType
  BY DEF SideInv, SideTypes, HeldNodes
<1> HIDE DEF as
<1>4. held' \in [Reader -> SUBSET NodeType]
  BY <1>1, <1>2, <1>3
<1>5. \A m \in HeldNodes' : \E n \in HeldNodes : m = as(n)
  BY <1>1 DEF HeldNodes
<1>6. ASSUME NEW l \in SideNodes', NEW m \in SideNodes', l.at = m.at
      PROVE  l = m
  <2>1. \A x \in SideNodes' :
           \/ x \in entries /\ x.key[1] < i
           \/ \E n \in HeldNodes : x = as(n) /\ n \in NodeType
    BY <1>1, <1>3, <1>5 DEF SideNodes
  <2>2. ASSUME NEW x \in entries, x.key[1] < i, NEW n \in HeldNodes, n \in NodeType,
               x.at = as(n).at
        PROVE  x = as(n)
    <3>1. x = n
      BY <1>2, <2>2 DEF SideInv, SlotsGiven, SideNodes
    <3>2. x.key \in SideKey /\ x.key[1] \in Nat /\ i \in Nat
      BY SideTableAssumption DEF SideInv, SideTypes, SideKey
    <3>3. ~(n.key[1] >= i) /\ n.key # <<>>
      BY <2>2, <3>1, <3>2 DEF SideKey
    <3> QED BY <1>2, <2>2, <3>1, <3>3
  <2>3. ASSUME NEW n \in HeldNodes, NEW o \in HeldNodes, n \in NodeType, o \in NodeType,
               as(n).at = as(o).at
        PROVE  as(n) = as(o)
    BY <1>2, <2>3 DEF SideInv, SlotsGiven, SideNodes
  <2>4. ASSUME NEW x \in entries, NEW y \in entries, x.at = y.at PROVE x = y
    BY <2>4 DEF SideInv, SlotsGiven, SideNodes
  <2> QED BY <1>6, <2>1, <2>2, <2>3, <2>4
<1>7. \A m \in SideNodes' : \E n \in SideNodes : m.at = n.at
  BY <1>1, <1>2, <1>3, <1>5 DEF SideNodes
<1>8. \A m \in SideNodes' : m.at[1] \in 1 .. chunks' /\ (m.at[1] = cur' => m.at[2] < used')
  <2>1. \A n \in SideNodes : n.at[1] \in 1 .. chunks /\ (n.at[1] = cur => n.at[2] < used)
    BY DEF SideInv, SlotsGiven
  <2>2. chunks \in Nat /\ cur \in Nat
    BY SideTableAssumption DEF SideInv, SideTypes
  <2> QED BY <1>1, <1>7, <2>1, <2>2
<1>9. cur' \notin freed' /\ cur' \in 0 .. chunks' /\ used' \in 0 .. SideChunkLen
  BY <1>1, SideTableAssumption DEF SideInv, SlotsGiven, SideTypes
<1>10. SlotsGiven'
  BY <1>6, <1>8, <1>9 DEF SlotsGiven
<1>11. \A m \in HeldNodes' : m.at[1] \notin freed' /\ (m.key # <<>> => m \in entries')
  <2> SUFFICES ASSUME NEW n \in HeldNodes
               PROVE  as(n).at[1] \notin freed' /\ (as(n).key # <<>> => as(n) \in entries')
    BY <1>5
  <2>1. as(n).at = n.at /\ n \in NodeType
    BY <1>2, <1>3
  <2>2. ASSUME as(n).key # <<>> PROVE as(n) \in entries'
    <3>1. as(n) = n /\ ~(n.key[1] >= i) /\ n \in entries
      BY <1>2, <2>1, <2>2 DEF SideInv, EntriesAnswer
    <3>2. n.key[1] \in Nat /\ i \in Nat
      BY <3>1, SideTableAssumption DEF SideInv, SideTypes, SideKey
    <3> QED BY <1>1, <3>1, <3>2
  <2> QED BY <1>1, <2>1, <2>2 DEF SideInv, EntriesAnswer
<1>12. EntriesAnswer' /\ OneSweepChain'
  BY <1>1, <1>11 DEF SideInv, EntriesAnswer, OneSweepChain
<1>13. SideTypes'
  BY <1>1, <1>4, <1>9 DEF SideInv, SideTypes
<1> QED BY <1>10, <1>12, <1>13 DEF SideInv

\* A collection takes no chunk somebody holds a node of.
LEMMA SideCollected ==
    ASSUME SideInv, Collect
    PROVE  SideInv'
<1>1. PICK dead \in SUBSET ((1 .. chunks) \ (freed \cup Reachable)), k \in 0 .. ticks :
        freed' = freed \cup dead /\ ticks' = ticks - k /\ sweeps' = sweeps + k
  BY DEF Collect
<1>2. UNCHANGED <<entries, armed, cur, used, chunks, held>>
  BY DEF Collect
<1>3. HeldNodes' = HeldNodes /\ SideNodes' = SideNodes
  BY <1>2 DEF HeldNodes, SideNodes
<1>4. cur \notin dead /\ \A n \in HeldNodes : n.at[1] \notin dead
  BY <1>1 DEF Reachable, HeldNodes
<1>5. freed' \subseteq 1 .. chunks'
  BY <1>1, <1>2 DEF SideInv, SideTypes
<1>6. SlotsGiven' /\ EntriesAnswer'
  BY <1>1, <1>2, <1>3, <1>4 DEF SideInv, SlotsGiven, EntriesAnswer
<1>7. ticks' \in Nat /\ sweeps' \in Nat /\ ticks' + sweeps' = ticks + sweeps
  BY <1>1 DEF SideInv, SideTypes
<1> QED BY <1>2, <1>5, <1>6, <1>7 DEF SideInv, SideTypes, OneSweepChain

\* A sweep drops the entries nobody holds the node of, and arms the next one
\* only if it left any: the one that runs was the only one.
LEMMA SideSwept ==
    ASSUME SideInv, SideSweep
    PROVE  SideInv'
<1>1. /\ sweeps > 0 /\ entries' = Live(entries) /\ armed' = (Live(entries) # {})
      /\ cur' = 0 /\ used' = IF Live(entries) = {} THEN 0 ELSE used
      /\ ticks' = IF Live(entries) = {} THEN ticks ELSE ticks + 1
      /\ sweeps' = sweeps - 1
      /\ UNCHANGED <<chunks, freed, held>>
  BY DEF SideSweep
<1>2. ticks = 0 /\ sweeps = 1
  BY <1>1 DEF SideInv, SideTypes, OneSweepChain
<1>3. HeldNodes' = HeldNodes /\ entries' \subseteq entries /\ SideNodes' \subseteq SideNodes
  BY <1>1 DEF HeldNodes, SideNodes, Live
<1>4. /\ chunks \in Nat /\ freed \subseteq 1 .. chunks
      /\ used \in 0 .. SideChunkLen /\ SideChunkLen \in Nat
  BY SideTableAssumption DEF SideInv, SideTypes
<1>5. used' \in 0 .. SideChunkLen /\ cur' \in 0 .. chunks' /\ cur' \notin freed'
  BY <1>1, <1>4
<1>6. SlotsGiven'
  <2>1. \A n \in SideNodes' : n.at[1] \in 1 .. chunks' /\ n.at[1] # cur'
    BY <1>1, <1>3, <1>4 DEF SideInv, SlotsGiven
  <2> QED BY <1>3, <1>5, <2>1 DEF SideInv, SlotsGiven
<1>7. EntriesAnswer'
  BY <1>1, <1>3 DEF SideInv, EntriesAnswer, Live
<1>8. OneSweepChain' /\ ticks' \in Nat /\ sweeps' \in Nat /\ armed' \in BOOLEAN
  <2>1. CASE Live(entries) = {}
    <3>1. ticks' = 0 /\ sweeps' = 0 /\ entries' = {}
      BY <1>1, <1>2, <2>1
    <3>2. armed' = FALSE
      BY <1>1, <2>1, Zenon
    <3>3. (IF armed' THEN 1 ELSE 0) = 0
      BY <3>2
    <3>4. ticks' + sweeps' = 0
      BY <3>1
    <3>5. OneSweepChain'
      BY <3>1, <3>3, <3>4 DEF OneSweepChain
    <3> QED BY <3>1, <3>2, <3>5
  <2>2. CASE Live(entries) # {}
    <3>1. ticks' = 1 /\ sweeps' = 0
      BY <1>1, <1>2, <2>2
    <3>2. armed' = TRUE
      BY <1>1, <2>2, Zenon
    <3>3. (IF armed' THEN 1 ELSE 0) = 1
      BY <3>2
    <3>4. ticks' + sweeps' = 1
      BY <3>1
    <3>5. OneSweepChain'
      BY <3>2, <3>3, <3>4 DEF OneSweepChain
    <3> QED BY <3>1, <3>2, <3>5
  <2> QED BY <2>1, <2>2
<1> QED BY <1>1, <1>3, <1>5, <1>6, <1>7, <1>8 DEF SideInv, SideTypes

\* The invariant of a tree's table of namespace nodes, its chunks and its sweep.
THEOREM SideInvariant == SideSpec => []SideInv
<1>1. SideInit => SideInv
  BY SideInvInit
<1>2. SideInv /\ [SideNext]_sideVars => SideInv'
  <2> SUFFICES ASSUME SideInv, [SideNext]_sideVars PROVE SideInv'
    OBVIOUS
  <2>1. ASSUME NEW r \in Reader, NEW key \in SideKey, SideNode(r, key) PROVE SideInv'
    <3> DEFINE found == {e \in Live(entries) : e.key = key}
    <3>1. UNCHANGED <<freed, sweeps>>
      BY <2>1 DEF SideNode
    <3>2. CASE found # {}
      <4>1. /\ \E e \in found : Hold(r, e)
            /\ UNCHANGED <<entries, peak, armed, cur, used, chunks, ticks>>
        BY <2>1, <3>2 DEF SideNode
      <4>2. PICK e \in Live(entries) : Hold(r, e)
        BY <4>1
      <4> QED BY <3>1, <4>1, <4>2, SideFound
    <3>3. CASE found = {}
      <4>1. Add(r, key)
        BY <2>1, <3>3 DEF SideNode
      <4> QED BY <3>1, <3>3, <4>1, SideAdded
    <3> QED BY <3>2, <3>3
  <2>2. ASSUME NEW r \in Reader, Drop(r) PROVE SideInv'
    BY <2>2, SideDrop
  <2>3. ASSUME NEW i \in Owner, SideTruncate(i) PROVE SideInv'
    BY <2>3, SideTruncated
  <2>4. CASE Freeze \/ UNCHANGED sideVars
    <3>1. UNCHANGED <<entries, armed, cur, used, chunks, freed, held, ticks, sweeps>>
      BY <2>4 DEF Freeze, sideVars
    <3>2. HeldNodes' = HeldNodes /\ SideNodes' = SideNodes
      BY <3>1 DEF HeldNodes, SideNodes
    <3> QED BY <3>1, <3>2 DEF SideInv, SideTypes, SlotsGiven, EntriesAnswer, OneSweepChain
  <2>5. CASE Collect
    BY <2>5, SideCollected
  <2>6. CASE SideSweep
    BY <2>6, SideSwept
  <2> QED BY <2>1, <2>2, <2>3, <2>4, <2>5, <2>6 DEF SideNext
<1> QED BY <1>1, <1>2, PTL DEF SideSpec

\* Whoever holds the namespace node of a binding holds the one everybody else
\* is answered with, across collections and sweeps, and a tree has one chain of
\* sweeps (SideTableKept).
THEOREM SideTableHolds == SideSpec => []SideTableKept
<1>1. SideInv => SideTableKept
  <2> SUFFICES ASSUME SideInv PROVE NodeIdentity
    BY DEF SideInv, SideTableKept
  <2>1. ASSUME NEW n \in HeldNodes, n.key # <<>>
        PROVE  {e \in Live(entries) : e.key = n.key} = {n}
    <3>1. n \in Live(entries)
      BY <2>1 DEF SideInv, EntriesAnswer, Live
    <3>2. \A e \in Live(entries) : e.key = n.key => e = n
      BY <3>1 DEF SideInv, EntriesAnswer, Live
    <3> QED BY <3>1, <3>2
  <2>2. \A n \in HeldNodes : n.at[1] \notin freed
    BY DEF SideInv, EntriesAnswer
  <2>3. \A m, n \in HeldNodes : m.at = n.at => m = n
    BY DEF SideInv, SlotsGiven, SideNodes
  <2> QED BY <2>1, <2>2, <2>3 DEF NodeIdentity
<1> QED BY <1>1, SideInvariant, PTL

-----------------------------------------------------------------------------
(* The copies stripped of white space.                                      *)

StrippedTypes ==
    /\ source \in 0 .. MaxSources /\ sources \in 0 .. MaxSources /\ source <= sources
    /\ stripped \subseteq Entry /\ copies \in 0 .. MaxCopies
    /\ calling \in [Transform -> {NotCalling} \cup (StrippedKey \X SUBSET Copy)]
    /\ done \in [Transform -> SUBSET Entry]
    /\ seen \in [Transform -> SUBSET Entry]

\* A transform's own record is all it was answered, one copy for each key, and
\* it has a tree stripped only when it has no copy of it yet.
RecordIsWhatWasSeen ==
    \A t \in Transform :
        /\ seen[t] = done[t]
        /\ \A d, e \in done[t] : d.key = e.key => d = e
        /\ calling[t] # NotCalling => Of(done[t], calling[t][1]) = {}

\* A copy is of its key wherever it is: in the transform's record, in the
\* stylesheet's table, or just made.
CopiesOfTheirKey ==
    /\ \A t \in Transform : \A e \in done[t] : e.copy.of = e.key
    /\ \A e \in stripped : e.copy.of = e.key
    /\ \A t \in Transform : calling[t] # NotCalling =>
          \A copy \in calling[t][2] : copy.of = calling[t][1]

Bounded == IsFiniteSet(stripped) /\ StrippedBounded

StrippedInv == StrippedTypes /\ RecordIsWhatWasSeen /\ CopiesOfTheirKey /\ Bounded

LEMMA StrippedInvInit == StrippedInit => StrippedInv
<1> SUFFICES ASSUME StrippedInit PROVE StrippedInv
  OBVIOUS
<1>1. StrippedTypes
  <2>1. 0 \in 0 .. MaxSources /\ 0 \in 0 .. MaxCopies
    BY StrippedTreesAssumption
  <2>2. /\ calling \in [Transform -> {NotCalling} \cup (StrippedKey \X SUBSET Copy)]
        /\ done \in [Transform -> SUBSET Entry] /\ seen \in [Transform -> SUBSET Entry]
    BY DEF StrippedInit
  <2> QED BY <2>1, <2>2 DEF StrippedInit, StrippedTypes
<1>2. RecordIsWhatWasSeen /\ CopiesOfTheirKey
  BY DEF StrippedInit, RecordIsWhatWasSeen, CopiesOfTheirKey
<1>3. Bounded
  <2>1. stripped = {} /\ IsFiniteSet(stripped) /\ Cardinality(stripped) = 0
    BY FS_EmptySet DEF StrippedInit
  <2> QED BY <2>1, StrippedTreesAssumption DEF Bounded, StrippedBounded
<1> QED BY <1>1, <1>2, <1>3 DEF StrippedInv

\* An answer leaves the records what they have to be, when the transform's own
\* copy, if it has one, is what it is answered with.
LEMMA AnswerKept ==
    ASSUME StrippedTypes, RecordIsWhatWasSeen, CopiesOfTheirKey,
           NEW t \in Transform, NEW k \in StrippedKey, NEW copy \in Copy, copy.of = k,
           Of(done[t], k) \subseteq {[key |-> k, copy |-> copy]},
           Return(t, k, copy)
    PROVE  /\ calling' \in [Transform -> {NotCalling} \cup (StrippedKey \X SUBSET Copy)]
           /\ done' \in [Transform -> SUBSET Entry]
           /\ seen' \in [Transform -> SUBSET Entry]
           /\ RecordIsWhatWasSeen'
           /\ \A u \in Transform : \A e \in done'[u] : e.copy.of = e.key
           /\ \A u \in Transform : calling'[u] # NotCalling =>
                \A c \in calling'[u][2] : c.of = calling'[u][1]
<1> DEFINE new == [key |-> k, copy |-> copy]
<1>1. new \in Entry /\ new.key = k /\ new.copy = copy
  BY DEF Entry
<1> HIDE DEF new
<1>2. /\ done' = [done EXCEPT ![t] = {e \in done[t] : e.key # k} \cup {new}]
      /\ seen' = [seen EXCEPT ![t] = seen[t] \cup {new}]
      /\ calling' = [calling EXCEPT ![t] = NotCalling]
  BY DEF Return, new
<1>3. /\ calling \in [Transform -> {NotCalling} \cup (StrippedKey \X SUBSET Copy)]
      /\ done \in [Transform -> SUBSET Entry] /\ seen \in [Transform -> SUBSET Entry]
  BY DEF StrippedTypes
<1>4. {e \in done[t] : e.key = k} \subseteq {new} /\ seen[t] = done[t]
  BY DEF Of, new, RecordIsWhatWasSeen
<1>5. /\ done'[t] = seen'[t] /\ done'[t] = {e \in done[t] : e.key # k} \cup {new}
      /\ calling'[t] = NotCalling
  BY <1>2, <1>3, <1>4
<1>6. \A u \in Transform \ {t} :
        done'[u] = done[u] /\ seen'[u] = seen[u] /\ calling'[u] = calling[u]
  BY <1>2, <1>3
<1>7. /\ calling' \in [Transform -> {NotCalling} \cup (StrippedKey \X SUBSET Copy)]
      /\ done' \in [Transform -> SUBSET Entry] /\ seen' \in [Transform -> SUBSET Entry]
  BY <1>1, <1>2, <1>3
<1>8. RecordIsWhatWasSeen'
  <2>1. \A d, e \in done'[t] : d.key = e.key => d = e
    BY <1>1, <1>5 DEF RecordIsWhatWasSeen
  <2>2. ASSUME NEW u \in Transform \ {t}
        PROVE  /\ seen'[u] = done'[u]
               /\ \A d, e \in done'[u] : d.key = e.key => d = e
               /\ calling'[u] # NotCalling => Of(done'[u], calling'[u][1]) = {}
    BY <1>6 DEF RecordIsWhatWasSeen
  <2> QED BY <1>5, <2>1, <2>2 DEF RecordIsWhatWasSeen, Of
<1>9. \A u \in Transform : \A e \in done'[u] : e.copy.of = e.key
  BY <1>1, <1>5, <1>6 DEF CopiesOfTheirKey
<1>10. \A u \in Transform : calling'[u] # NotCalling =>
          \A c \in calling'[u][2] : c.of = calling'[u][1]
  BY <1>5, <1>6 DEF CopiesOfTheirKey
<1> QED BY <1>7, <1>8, <1>9, <1>10

\* What is kept after an eviction and an addition is within the bound.
LEMMA EvictedBounded ==
    ASSUME IsFiniteSet(stripped), Cardinality(stripped) <= StrippedMax,
           NEW es \in Evicted(stripped), NEW e
    PROVE  /\ es \subseteq stripped
           /\ IsFiniteSet(es \cup {e}) /\ Cardinality(es \cup {e}) <= StrippedMax
<1>1. Cardinality(stripped) \in Nat /\ StrippedMax \in Nat \ {0}
  BY FS_CardinalityType, StrippedTreesAssumption
<1>2. es \subseteq stripped /\ Cardinality(es) <= StrippedMax - 1
  BY <1>1 DEF Evicted
<1>3. IsFiniteSet(es) /\ Cardinality(es) \in Nat
  BY <1>2, FS_Subset, FS_CardinalityType
<1>4. IsFiniteSet(es \cup {e}) /\ Cardinality(es \cup {e}) <= Cardinality(es) + 1
  BY <1>3, FS_AddElement
<1>5. Cardinality(es \cup {e}) \in Nat
  BY <1>4, FS_CardinalityType
<1> QED BY <1>1, <1>2, <1>3, <1>4, <1>5

LEMMA ResolveStep ==
    ASSUME StrippedInv, NEW t \in Transform, NEW p \in Package, Resolve(t, p)
    PROVE  StrippedInv'
<1> DEFINE k == <<source, p>>
<1>1. /\ source # 0 /\ calling[t] = NotCalling
      /\ \/ \E e \in Of(done[t], k) : Return(t, k, e.copy)
         \/ Of(done[t], k) = {} /\ \E e \in Of(stripped, k) : Return(t, k, e.copy)
         \/ /\ Of(done[t], k) = {}
            /\ calling' = [calling EXCEPT ![t] = <<k, {}>>]
            /\ UNCHANGED <<done, seen>>
      /\ UNCHANGED <<source, sources, stripped, copies, registered, queued>>
  BY DEF Resolve
<1>2. k \in StrippedKey
  BY <1>1, StrippedTreesAssumption DEF StrippedInv, StrippedTypes, StrippedKey, Source
<1> HIDE DEF k
<1>3. Bounded'
  BY <1>1 DEF StrippedInv, Bounded, StrippedBounded
<1>4. ASSUME NEW e \in Entry, e.key = k, e.copy.of = e.key,
             Of(done[t], k) \subseteq {e}, Return(t, k, e.copy)
      PROVE  StrippedInv'
  <2>1. e = [key |-> k, copy |-> e.copy] /\ e.copy \in Copy
    BY <1>4 DEF Entry
  <2>2. Of(done[t], k) \subseteq {[key |-> k, copy |-> e.copy]}
    BY <1>4, <2>1
  <2>3. /\ calling' \in [Transform -> {NotCalling} \cup (StrippedKey \X SUBSET Copy)]
        /\ done' \in [Transform -> SUBSET Entry]
        /\ seen' \in [Transform -> SUBSET Entry]
        /\ RecordIsWhatWasSeen'
        /\ \A u \in Transform : \A d \in done'[u] : d.copy.of = d.key
        /\ \A u \in Transform : calling'[u] # NotCalling =>
             \A c \in calling'[u][2] : c.of = calling'[u][1]
    BY <1>2, <1>4, <2>1, <2>2, AnswerKept DEF StrippedInv
  <2> QED BY <1>1, <1>3, <2>3 DEF StrippedInv, StrippedTypes, CopiesOfTheirKey
<1>5. CASE \E e \in Of(done[t], k) : Return(t, k, e.copy)
  <2>1. PICK e \in Of(done[t], k) : Return(t, k, e.copy)
    BY <1>5
  <2>2. e \in done[t] /\ e \in Entry /\ e.key = k
    BY <2>1 DEF Of, StrippedInv, StrippedTypes
  <2>3. Of(done[t], k) \subseteq {e} /\ e.copy.of = e.key
    BY <2>2 DEF Of, StrippedInv, RecordIsWhatWasSeen, CopiesOfTheirKey
  <2> QED BY <1>4, <2>1, <2>2, <2>3
<1>6. CASE Of(done[t], k) = {} /\ \E e \in Of(stripped, k) : Return(t, k, e.copy)
  <2>1. PICK e \in Of(stripped, k) : Return(t, k, e.copy)
    BY <1>6
  <2>2. e \in Entry /\ e.key = k /\ e.copy.of = e.key
    BY <2>1 DEF Of, StrippedInv, StrippedTypes, CopiesOfTheirKey
  <2> QED BY <1>4, <1>6, <2>1, <2>2
<1>7. CASE /\ Of(done[t], k) = {}
           /\ calling' = [calling EXCEPT ![t] = <<k, {}>>]
           /\ UNCHANGED <<done, seen>>
  <2>1. calling \in [Transform -> {NotCalling} \cup (StrippedKey \X SUBSET Copy)]
    BY DEF StrippedInv, StrippedTypes
  <2>2. /\ calling' \in [Transform -> {NotCalling} \cup (StrippedKey \X SUBSET Copy)]
        /\ calling'[t] = <<k, {}>> /\ \A u \in Transform \ {t} : calling'[u] = calling[u]
    BY <1>2, <1>7, <2>1
  <2>3. RecordIsWhatWasSeen'
    BY <1>7, <2>2 DEF StrippedInv, RecordIsWhatWasSeen, Of
  <2>4. CopiesOfTheirKey'
    BY <1>1, <1>7, <2>2 DEF StrippedInv, CopiesOfTheirKey
  <2> QED BY <1>1, <1>3, <1>7, <2>2, <2>3, <2>4 DEF StrippedInv, StrippedTypes
<1> QED BY <1>1, <1>5, <1>6, <1>7

LEMMA StripStep ==
    ASSUME StrippedInv, NEW t \in Transform, Strip(t)
    PROVE  StrippedInv'
<1>1. /\ calling[t] # NotCalling /\ copies < MaxCopies /\ copies' = copies + 1
      /\ calling' = [calling EXCEPT ![t] =
            <<calling[t][1], {[nr |-> copies + 1, of |-> calling[t][1]]}>>]
      /\ UNCHANGED <<source, sources, stripped, done, seen, registered, queued>>
  BY DEF Strip
<1>2. calling \in [Transform -> {NotCalling} \cup (StrippedKey \X SUBSET Copy)]
  BY DEF StrippedInv, StrippedTypes
<1>3. PICK k \in StrippedKey : calling[t][1] = k
  BY <1>1, <1>2
<1> DEFINE made == [nr |-> copies + 1, of |-> k]
<1>4. copies + 1 \in 1 .. MaxCopies /\ copies' \in 0 .. MaxCopies
  BY <1>1, StrippedTreesAssumption DEF StrippedInv, StrippedTypes
<1>5. made \in Copy /\ made.of = k
  BY <1>3, <1>4 DEF Copy
<1>6. calling' = [calling EXCEPT ![t] = <<k, {made}>>]
  BY <1>1, <1>3
<1> HIDE DEF made
<1>7. /\ calling' \in [Transform -> {NotCalling} \cup (StrippedKey \X SUBSET Copy)]
      /\ calling'[t] = <<k, {made}>> /\ \A u \in Transform \ {t} : calling'[u] = calling[u]
  BY <1>2, <1>5, <1>6
<1>8. RecordIsWhatWasSeen'
  <2>1. Of(done[t], k) = {}
    BY <1>1, <1>3 DEF StrippedInv, RecordIsWhatWasSeen
  <2> QED BY <1>1, <1>7, <2>1 DEF StrippedInv, RecordIsWhatWasSeen, Of
<1>9. CopiesOfTheirKey'
  <2>1. \A u \in Transform : calling'[u] # NotCalling =>
           \A c \in calling'[u][2] : c.of = calling'[u][1]
    BY <1>5, <1>7 DEF StrippedInv, CopiesOfTheirKey
  <2> QED BY <1>1, <2>1 DEF StrippedInv, CopiesOfTheirKey
<1>10. Bounded'
  BY <1>1 DEF StrippedInv, Bounded, StrippedBounded
<1> QED BY <1>1, <1>4, <1>7, <1>8, <1>9, <1>10 DEF StrippedInv, StrippedTypes

LEMMA KeepStep ==
    ASSUME StrippedInv, NEW t \in Transform, Keep(t)
    PROVE  StrippedInv'
<1>1. PICK k \in StrippedKey : calling[t][1] = k
  BY DEF Keep, StrippedInv, StrippedTypes
<1>2. /\ calling[t] # NotCalling /\ calling[t][2] # {}
      /\ \/ /\ \E e \in Of(stripped, k) : Return(t, k, e.copy)
            /\ UNCHANGED <<stripped, registered>>
         \/ /\ Of(stripped, k) = {}
            /\ \E copy \in calling[t][2], es \in Evicted(stripped) :
                  /\ stripped' = es \cup {[key |-> k, copy |-> copy]}
                  /\ Return(t, k, copy)
            /\ registered' = registered \cup {k}
      /\ UNCHANGED <<source, sources, copies, queued>>
  BY <1>1 DEF Keep
<1>3. Of(done[t], k) = {}
  BY <1>1, <1>2 DEF StrippedInv, RecordIsWhatWasSeen
<1>4. ASSUME NEW copy \in Copy, copy.of = k, Return(t, k, copy)
      PROVE  /\ calling' \in [Transform -> {NotCalling} \cup (StrippedKey \X SUBSET Copy)]
             /\ done' \in [Transform -> SUBSET Entry]
             /\ seen' \in [Transform -> SUBSET Entry]
             /\ RecordIsWhatWasSeen'
             /\ \A u \in Transform : \A d \in done'[u] : d.copy.of = d.key
             /\ \A u \in Transform : calling'[u] # NotCalling =>
                  \A c \in calling'[u][2] : c.of = calling'[u][1]
  BY <1>3, <1>4, AnswerKept DEF StrippedInv
<1>5. CASE /\ \E e \in Of(stripped, k) : Return(t, k, e.copy)
           /\ UNCHANGED <<stripped, registered>>
  <2>1. PICK e \in Of(stripped, k) : Return(t, k, e.copy)
    BY <1>5
  <2>2. e \in Entry /\ e.copy \in Copy /\ e.copy.of = k
    BY <2>1 DEF Of, Entry, StrippedInv, StrippedTypes, CopiesOfTheirKey
  <2>3. Bounded'
    BY <1>2, <1>5 DEF StrippedInv, Bounded, StrippedBounded
  <2> QED BY <1>2, <1>4, <1>5, <2>1, <2>2, <2>3 DEF StrippedInv, StrippedTypes, CopiesOfTheirKey
<1>6. CASE /\ \E copy \in calling[t][2], es \in Evicted(stripped) :
                  /\ stripped' = es \cup {[key |-> k, copy |-> copy]}
                  /\ Return(t, k, copy)
           /\ registered' = registered \cup {k}
  <2>1. PICK copy \in calling[t][2], es \in Evicted(stripped) :
               stripped' = es \cup {[key |-> k, copy |-> copy]} /\ Return(t, k, copy)
    BY <1>6
  <2> DEFINE new == [key |-> k, copy |-> copy]
  <2>2. copy \in Copy /\ copy.of = k
    BY <1>1, <1>2, <2>1 DEF StrippedInv, StrippedTypes, CopiesOfTheirKey
  <2>3. new \in Entry /\ new.key = k /\ new.copy = copy
    BY <2>2 DEF Entry
  <2>4. stripped' = es \cup {new}
    BY <2>1
  <2> HIDE DEF new
  <2>5. es \subseteq stripped /\ IsFiniteSet(stripped') /\ Cardinality(stripped') <= StrippedMax
    BY <2>1, <2>4, EvictedBounded DEF StrippedInv, Bounded, StrippedBounded
  <2>6. stripped' \subseteq Entry /\ \A e \in stripped' : e.copy.of = e.key
    BY <2>2, <2>3, <2>4, <2>5 DEF StrippedInv, StrippedTypes, CopiesOfTheirKey
  <2>7. \A e \in stripped' : e.key \in registered' \cup queued'
    BY <1>2, <1>6, <2>3, <2>4, <2>5 DEF StrippedInv, Bounded, StrippedBounded
  <2>8. Bounded'
    BY <2>5, <2>7 DEF Bounded, StrippedBounded
  <2> QED BY <1>2, <1>4, <2>1, <2>2, <2>6, <2>8
          DEF StrippedInv, StrippedTypes, CopiesOfTheirKey
<1> QED BY <1>2, <1>5, <1>6

LEMMA EndTransformStep ==
    ASSUME StrippedInv, NEW t \in Transform, EndTransform(t)
    PROVE  StrippedInv'
<1>1. /\ calling[t] = NotCalling
      /\ done' = [done EXCEPT ![t] = {}] /\ seen' = [seen EXCEPT ![t] = {}]
      /\ UNCHANGED <<source, sources, stripped, copies, calling, registered, queued>>
  BY DEF EndTransform
<1>2. StrippedTypes'
  BY <1>1 DEF StrippedInv, StrippedTypes
<1>3. /\ done'[t] = {} /\ seen'[t] = {}
      /\ \A u \in Transform \ {t} : done'[u] = done[u] /\ seen'[u] = seen[u]
  BY <1>1 DEF StrippedInv, StrippedTypes
<1>4. RecordIsWhatWasSeen' /\ CopiesOfTheirKey'
  BY <1>1, <1>3 DEF StrippedInv, RecordIsWhatWasSeen, CopiesOfTheirKey, Of
<1>5. Bounded'
  BY <1>1 DEF StrippedInv, Bounded, StrippedBounded
<1> QED BY <1>2, <1>4, <1>5 DEF StrippedInv

\* The cleanup of a key drops its entry, and no other loses its own.
LEMMA CleanupsStep ==
    ASSUME StrippedInv, CollectTree \/ DropStripped
    PROVE  StrippedInv'
<1>1. UNCHANGED <<source, sources, copies, calling, done, seen>>
  BY DEF CollectTree, DropStripped
<1>2. RecordIsWhatWasSeen'
  BY <1>1 DEF StrippedInv, RecordIsWhatWasSeen
<1>3. stripped' \subseteq stripped /\ \A e \in stripped' : e.key \in registered' \cup queued'
  BY DEF StrippedInv, Bounded, StrippedBounded, CollectTree, DropStripped
<1>4. StrippedTypes' /\ CopiesOfTheirKey'
  BY <1>1, <1>3 DEF StrippedInv, StrippedTypes, CopiesOfTheirKey
<1>5. IsFiniteSet(stripped') /\ Cardinality(stripped') <= StrippedMax
  <2>1. IsFiniteSet(stripped) /\ Cardinality(stripped) <= StrippedMax
    BY DEF StrippedInv, Bounded, StrippedBounded
  <2>2. IsFiniteSet(stripped') /\ Cardinality(stripped') <= Cardinality(stripped)
    BY <1>3, <2>1, FS_Subset
  <2> QED BY <2>1, <2>2, FS_CardinalityType, StrippedTreesAssumption
<1> QED BY <1>2, <1>3, <1>4, <1>5 DEF StrippedInv, Bounded, StrippedBounded

\* The invariant of the stripped copies a stylesheet keeps and its transforms hold.
THEOREM StrippedInvariant == StrippedSpec => []StrippedInv
<1>1. StrippedInv /\ [StrippedNext]_strippedVars => StrippedInv'
  <2> SUFFICES ASSUME StrippedInv, [StrippedNext]_strippedVars PROVE StrippedInv'
    OBVIOUS
  <2>1. CASE Parse \/ Forget \/ UNCHANGED strippedVars
    <3>1. UNCHANGED <<stripped, copies, calling, done, seen, registered, queued>>
      BY <2>1 DEF Parse, Forget, strippedVars
    <3>2. source' \in 0 .. MaxSources /\ sources' \in 0 .. MaxSources /\ source' <= sources'
      BY <2>1, StrippedTreesAssumption
         DEF Parse, Forget, strippedVars, StrippedInv, StrippedTypes
    <3> QED BY <3>1, <3>2 DEF StrippedInv, StrippedTypes, RecordIsWhatWasSeen,
                              CopiesOfTheirKey, Bounded, StrippedBounded
  <2>2. ASSUME NEW t \in Transform, NEW p \in Package, Resolve(t, p) PROVE StrippedInv'
    BY <2>2, ResolveStep
  <2>3. ASSUME NEW t \in Transform, Strip(t) PROVE StrippedInv'
    BY <2>3, StripStep
  <2>4. ASSUME NEW t \in Transform, Keep(t) PROVE StrippedInv'
    BY <2>4, KeepStep
  <2>5. ASSUME NEW t \in Transform, EndTransform(t) PROVE StrippedInv'
    BY <2>5, EndTransformStep
  <2>6. CASE CollectTree \/ DropStripped
    BY <2>6, CleanupsStep
  <2> QED BY <2>1, <2>2, <2>3, <2>4, <2>5, <2>6 DEF StrippedNext
<1> QED BY <1>1, StrippedInvInit, PTL DEF StrippedSpec

\* In one transform fn:doc returns one copy of a tree for a package, made by
\* that package's declarations, whatever the stylesheet evicts and another
\* transform stores; the stylesheet's table is bounded and every entry has a
\* cleanup to come (StrippedKept).
THEOREM StrippedHolds == StrippedSpec => []StrippedKept
<1>1. StrippedInv => StrippedKept
  <2> SUFFICES ASSUME StrippedInv PROVE OneCopyPerTransform /\ StrippedForThePackage
    BY DEF StrippedInv, Bounded, StrippedKept
  <2> QED BY DEF StrippedInv, RecordIsWhatWasSeen, CopiesOfTheirKey,
                 OneCopyPerTransform, StrippedForThePackage
<1> QED BY <1>1, StrippedInvariant, PTL

-----------------------------------------------------------------------------
(* The nested stylesheets: sequences.                                       *)

\* The stages of Purged on the way through the first n entries of es.
Stages(es, n, f) ==
    f = [i \in 0 .. n |->
            IF i = 0 THEN <<>>
            ELSE IF Dead(es[i].key) THEN f[i - 1] ELSE Append(f[i - 1], es[i])]

LEMMA StagesExist ==
    ASSUME NEW es, Len(es) \in Nat
    PROVE  \E f : Stages(es, Len(es), f)
<1> DEFINE Bad == {n \in 0 .. Len(es) : ~ \E f : Stages(es, n, f)}
<1>1. SUFFICES ASSUME Bad # {} PROVE FALSE
  OBVIOUS
<1>2. PICK n \in Bad : \A m \in Bad : n <= m
  <2> HIDE DEF Bad
  <2>1. Bad \in SUBSET Nat
    BY DEF Bad
  <2> QED BY <1>1, <2>1, LeastNumber
<1>3. CASE n = 0
  <2>1. Stages(es, 0, [i \in 0 .. 0 |-> <<>>])
    BY DEF Stages
  <2> QED BY <1>2, <1>3, <2>1
<1>4. CASE n # 0
  <2>1. n - 1 \in 0 .. Len(es) /\ n \in Nat /\ n - 1 \notin Bad
    BY <1>2, <1>4
  <2>2. PICK f : Stages(es, n - 1, f)
    BY <2>1
  <2> DEFINE g == [i \in 0 .. n |->
                     IF i = n THEN IF Dead(es[n].key) THEN f[n - 1] ELSE Append(f[n - 1], es[n])
                     ELSE f[i]]
  <2>3. \A i \in 0 .. n - 1 : f[i] = IF i = 0 THEN <<>>
             ELSE IF Dead(es[i].key) THEN f[i - 1] ELSE Append(f[i - 1], es[i])
    BY <2>2 DEF Stages
  <2>4. g[n] = IF Dead(es[n].key) THEN f[n - 1] ELSE Append(f[n - 1], es[n])
    BY <2>1
  <2>5. \A i \in 0 .. n - 1 : g[i] = f[i]
    BY <2>1
  <2>6. ASSUME NEW i \in 0 .. n
        PROVE  g[i] = IF i = 0 THEN <<>>
                      ELSE IF Dead(es[i].key) THEN g[i - 1] ELSE Append(g[i - 1], es[i])
    <3> HIDE DEF g
    <3>1. CASE i = n
      BY <1>4, <2>1, <2>4, <2>5, <3>1
    <3>2. CASE i # n
      <4>1. i \in 0 .. n - 1 /\ (i # 0 => i - 1 \in 0 .. n - 1)
        BY <2>1, <3>2
      <4> QED BY <2>3, <2>5, <4>1
    <3> QED BY <3>1, <3>2
  <2>7. g = [i \in 0 .. n |->
                IF i = 0 THEN <<>>
                ELSE IF Dead(es[i].key) THEN g[i - 1] ELSE Append(g[i - 1], es[i])]
    <3>1. g = [i \in 0 .. n |-> g[i]]
      OBVIOUS
    <3> HIDE DEF g
    <3> QED BY <2>6, <3>1, Zenon
  <2> QED BY <1>2, <2>7 DEF Stages
<1> QED BY <1>3, <1>4

\* p lists elements of the first n of es, in their order.
Within(p, es, n) ==
    /\ \A i \in DOMAIN p : \E x \in 1 .. n : p[i] = es[x]
    /\ \A i, j \in DOMAIN p : i < j =>
          \E x, y \in 1 .. n : x < y /\ p[i] = es[x] /\ p[j] = es[y]

\* A purge leaves the entries that are not dead, in the order they were in.
LEMMA PurgedFacts ==
    ASSUME NEW S, NEW es \in Seq(S)
    PROVE  /\ Purged(es) \in Seq(S) /\ Len(Purged(es)) <= Len(es)
           /\ Within(Purged(es), es, Len(es))
           /\ \A i \in DOMAIN Purged(es) : ~Dead(Purged(es)[i].key)
           /\ \A x \in 1 .. Len(es) : ~Dead(es[x].key) =>
                 \E i \in DOMAIN Purged(es) : Purged(es)[i] = es[x]
<1> DEFINE f == CHOOSE g : Stages(es, Len(es), g)
           Good(n) == /\ f[n] \in Seq(S) /\ Len(f[n]) <= n
                      /\ Within(f[n], es, n)
                      /\ \A i \in DOMAIN f[n] : ~Dead(f[n][i].key)
                      /\ \A x \in 1 .. n : ~Dead(es[x].key) =>
                            \E i \in DOMAIN f[n] : f[n][i] = es[x]
           Bad == {n \in 0 .. Len(es) : ~Good(n)}
<1>1. Len(es) \in Nat /\ \A x \in 1 .. Len(es) : es[x] \in S
  OBVIOUS
<1>2. Stages(es, Len(es), f)
  BY <1>1, StagesExist
<1>3. Purged(es) = f[Len(es)]
  BY DEF Purged, Stages
<1> HIDE DEF f
<1>4. \A i \in 0 .. Len(es) : f[i] = IF i = 0 THEN <<>>
             ELSE IF Dead(es[i].key) THEN f[i - 1] ELSE Append(f[i - 1], es[i])
  BY <1>2 DEF Stages
<1>5. Bad = {}
  <2>1. SUFFICES ASSUME Bad # {} PROVE FALSE
    OBVIOUS
  <2>2. PICK n \in Bad : \A m \in Bad : n <= m
    <3> HIDE DEF Bad
    <3>1. Bad \in SUBSET Nat
      BY <1>1 DEF Bad
    <3> QED BY <2>1, <3>1, LeastNumber
  <2>3. CASE n = 0
    <3>1. f[0] = <<>>
      BY <1>1, <1>4
    <3>2. Good(0)
      BY <3>1 DEF Within
    <3> QED BY <2>2, <2>3, <3>2
  <2>4. CASE n # 0
    <3> DEFINE q == f[n - 1]
    <3>1. n \in Nat /\ n \in 1 .. Len(es) /\ n - 1 \in 0 .. Len(es) /\ n - 1 \notin Bad
      BY <1>1, <2>2, <2>4
    <3>2. Good(n - 1)
      BY <3>1
    <3>3. /\ q \in Seq(S) /\ Len(q) <= n - 1
          /\ Within(q, es, n - 1)
          /\ \A i \in DOMAIN q : ~Dead(q[i].key)
          /\ \A x \in 1 .. n - 1 : ~Dead(es[x].key) => \E i \in DOMAIN q : q[i] = es[x]
      BY <3>2
    <3> HIDE DEF q, Bad
    <3>4. Within(q, es, n)
      <4>1. 1 .. n - 1 \subseteq 1 .. n
        BY <3>1
      <4>2. \A i \in DOMAIN q : \E x \in 1 .. n : q[i] = es[x]
        BY <3>3, <4>1 DEF Within
      <4>3. ASSUME NEW i \in DOMAIN q, NEW j \in DOMAIN q, i < j
            PROVE  \E x, y \in 1 .. n : x < y /\ q[i] = es[x] /\ q[j] = es[y]
        <5>1. PICK x \in 1 .. n - 1, y \in 1 .. n - 1 :
                     x < y /\ q[i] = es[x] /\ q[j] = es[y]
          BY <3>3, <4>3 DEF Within
        <5> QED BY <4>1, <5>1
      <4> QED BY <4>2, <4>3 DEF Within
    <3>5. CASE Dead(es[n].key)
      <4>1. f[n] = q
        BY <1>4, <3>1, <3>5 DEF q
      <4>2. \A x \in 1 .. n : ~Dead(es[x].key) => x \in 1 .. n - 1
        BY <3>1, <3>5
      <4>3. Len(q) <= n
        BY <3>1, <3>3
      <4>4. Good(n)
        BY <3>3, <3>4, <4>1, <4>2, <4>3
      <4> QED BY <2>2, <4>4 DEF Bad
    <3>6. CASE ~Dead(es[n].key)
      <4> DEFINE r == Append(q, es[n])
      <4>1. f[n] = r
        <5>1. n # 0 /\ n \in 0 .. Len(es)
          BY <3>1
        <5>2. f[n] = Append(f[n - 1], es[n])
          BY <1>4, <3>6, <5>1
        <5> QED BY <5>2 DEF q
      <4>2. /\ r \in Seq(S) /\ Len(r) = Len(q) + 1 /\ DOMAIN r = 1 .. Len(q) + 1
            /\ DOMAIN q = 1 .. Len(q) /\ Len(q) \in Nat
            /\ \A i \in DOMAIN q : r[i] = q[i]
            /\ r[Len(q) + 1] = es[n]
        BY <1>1, <3>1, <3>3
      <4> HIDE DEF r
      <4>3. Len(r) <= n
        BY <3>1, <3>3, <4>2
      <4>4. \A i \in DOMAIN r : i \in DOMAIN q \/ i = Len(q) + 1
        BY <4>2
      <4>5. Within(r, es, n)
        <5>1. \A i \in DOMAIN r : \E x \in 1 .. n : r[i] = es[x]
          BY <3>1, <3>4, <4>2, <4>4 DEF Within
        <5>2. ASSUME NEW i \in DOMAIN r, NEW j \in DOMAIN r, i < j
              PROVE  \E x, y \in 1 .. n : x < y /\ r[i] = es[x] /\ r[j] = es[y]
          <6>1. i \in DOMAIN q
            BY <4>2, <5>2
          <6>2. CASE j \in DOMAIN q
            BY <3>4, <4>2, <5>2, <6>1, <6>2 DEF Within
          <6>3. CASE j = Len(q) + 1
            <7>1. PICK x \in 1 .. n - 1 : q[i] = es[x]
              BY <3>3, <6>1 DEF Within
            <7>2. x \in 1 .. n /\ n \in 1 .. n /\ x < n
              BY <3>1, <7>1
            <7> QED BY <4>2, <6>1, <6>3, <7>1, <7>2
          <6> QED BY <4>4, <6>2, <6>3
        <5> QED BY <5>1, <5>2 DEF Within
      <4>6. \A i \in DOMAIN r : ~Dead(r[i].key)
        BY <3>3, <3>6, <4>2, <4>4
      <4>7. \A x \in 1 .. n : ~Dead(es[x].key) => \E i \in DOMAIN r : r[i] = es[x]
        <5>1. DOMAIN q \subseteq DOMAIN r /\ Len(q) + 1 \in DOMAIN r
          BY <4>2
        <5>2. \A x \in 1 .. n : x \in 1 .. n - 1 \/ x = n
          BY <3>1
        <5> QED BY <3>3, <4>2, <5>1, <5>2
      <4>8. Good(n)
        BY <4>1, <4>2, <4>3, <4>5, <4>6, <4>7
      <4> QED BY <2>2, <4>8 DEF Bad
    <3> QED BY <3>5, <3>6
  <2> QED BY <2>3, <2>4
<1>6. Good(Len(es))
  BY <1>1, <1>5
<1> QED BY <1>3, <1>6

\* A list with one element in front of another list's.
LEMMA InFront ==
    ASSUME NEW S, NEW e \in S, NEW p \in Seq(S)
    PROVE  /\ <<e>> \o p \in Seq(S) /\ Len(<<e>> \o p) = Len(p) + 1
           /\ DOMAIN (<<e>> \o p) = 1 .. Len(p) + 1 /\ DOMAIN p = 1 .. Len(p)
           /\ Len(p) \in Nat
           /\ (<<e>> \o p)[1] = e
           /\ \A i \in 2 .. Len(p) + 1 : (<<e>> \o p)[i] = p[i - 1]
OBVIOUS

\* A list without one of its elements, and without the last.
LEMMA WithoutOne ==
    ASSUME NEW S, NEW es \in Seq(S), NEW i \in DOMAIN es
    PROVE  /\ RemoveAt(es, i) \in Seq(S) /\ Len(RemoveAt(es, i)) = Len(es) - 1
           /\ Within(RemoveAt(es, i), es, Len(es))
           /\ \A k \in DOMAIN RemoveAt(es, i) : \E x \in 1 .. Len(es) :
                 x # i /\ RemoveAt(es, i)[k] = es[x]
           /\ \A x \in 1 .. Len(es) : x # i =>
                 \E k \in DOMAIN RemoveAt(es, i) : RemoveAt(es, i)[k] = es[x]
<1> DEFINE p == RemoveAt(es, i)
           at(k) == IF k < i THEN k ELSE k + 1
<1>1. i \in 1 .. Len(es) /\ Len(es) \in Nat
  OBVIOUS
<1>2. /\ p \in Seq(S) /\ Len(p) = Len(es) - 1 /\ DOMAIN p = 1 .. Len(es) - 1
      /\ \A k \in 1 .. Len(es) - 1 : p[k] = es[at(k)]
  <2>1. /\ SubSeq(es, 1, i - 1) \in Seq(S) /\ Len(SubSeq(es, 1, i - 1)) = i - 1
        /\ \A k \in 1 .. i - 1 : SubSeq(es, 1, i - 1)[k] = es[k]
    BY <1>1
  <2>2. /\ SubSeq(es, i + 1, Len(es)) \in Seq(S)
        /\ Len(SubSeq(es, i + 1, Len(es))) = Len(es) - i
        /\ \A k \in 1 .. Len(es) - i : SubSeq(es, i + 1, Len(es))[k] = es[i + k]
    BY <1>1
  <2> DEFINE a == SubSeq(es, 1, i - 1)
             b == SubSeq(es, i + 1, Len(es))
  <2>3. p = a \o b
    BY DEF RemoveAt
  <2> HIDE DEF a, b, p
  <2>4. /\ a \in Seq(S) /\ b \in Seq(S) /\ Len(a) = i - 1 /\ Len(b) = Len(es) - i
        /\ \A k \in 1 .. i - 1 : a[k] = es[k]
        /\ \A k \in 1 .. Len(es) - i : b[k] = es[i + k]
    BY <2>1, <2>2 DEF a, b
  <2>5. p \in Seq(S) /\ Len(p) = Len(es) - 1
    BY <1>1, <2>3, <2>4
  <2>6. ASSUME NEW k \in 1 .. Len(es) - 1 PROVE p[k] = es[at(k)]
    <3>1. CASE k < i
      <4>1. k \in 1 .. i - 1
        BY <1>1, <3>1
      <4>2. p[k] = a[k]
        BY <1>1, <2>3, <2>4, <4>1
      <4> QED BY <2>4, <3>1, <4>1, <4>2
    <3>2. CASE ~(k < i)
      <4>1. k - (i - 1) \in 1 .. Len(es) - i /\ i + (k - (i - 1)) = k + 1
        BY <1>1, <3>2
      <4>2. p[k] = b[k - (i - 1)]
        BY <1>1, <2>3, <2>4, <3>2
      <4>3. b[k - (i - 1)] = es[k + 1]
        BY <2>4, <4>1
      <4> QED BY <3>2, <4>2, <4>3
    <3> QED BY <3>1, <3>2
  <2> QED BY <2>5, <2>6
<1> HIDE DEF p
<1>3. \A k \in 1 .. Len(es) - 1 : at(k) \in 1 .. Len(es) /\ at(k) # i
  BY <1>1
<1>4. \A k, l \in 1 .. Len(es) - 1 : k < l => at(k) < at(l)
  BY <1>1
<1>5. \A x \in 1 .. Len(es) : x # i => \E k \in 1 .. Len(es) - 1 : at(k) = x
  <2> SUFFICES ASSUME NEW x \in 1 .. Len(es), x # i
               PROVE  \E k \in 1 .. Len(es) - 1 : at(k) = x
    OBVIOUS
  <2>1. x < i => x \in 1 .. Len(es) - 1 /\ at(x) = x
    BY <1>1
  <2>2. x > i => x - 1 \in 1 .. Len(es) - 1 /\ at(x - 1) = x
    BY <1>1
  <2> QED BY <1>1, <2>1, <2>2
<1> HIDE DEF at
<1>6. Within(p, es, Len(es))
  BY <1>2, <1>3, <1>4 DEF Within
<1> QED BY <1>2, <1>3, <1>5, <1>6 DEF p

LEMMA WithoutLast ==
    ASSUME NEW S, NEW es \in Seq(S), es # <<>>
    PROVE  /\ Front(es) \in Seq(S) /\ Len(Front(es)) = Len(es) - 1
           /\ \A k \in 1 .. Len(es) - 1 : Front(es)[k] = es[k]
<1>1. Len(es) \in Nat /\ Len(es) # 0
  OBVIOUS
<1>2. Len(es) - 1 \in Nat /\ Len(es) - 1 <= Len(es)
  BY <1>1
<1>3. ASSUME NEW n \in Nat, n <= Len(es)
      PROVE  /\ SubSeq(es, 1, n) \in Seq(S) /\ Len(SubSeq(es, 1, n)) = n
             /\ \A k \in 1 .. n : SubSeq(es, 1, n)[k] = es[k]
  BY <1>1, <1>3
<1>4. /\ SubSeq(es, 1, Len(es) - 1) \in Seq(S) /\ Len(SubSeq(es, 1, Len(es) - 1)) = Len(es) - 1
      /\ \A k \in 1 .. Len(es) - 1 : SubSeq(es, 1, Len(es) - 1)[k] = es[k]
  BY <1>2, <1>3
<1> QED BY <1>4 DEF Front

LEMMA FrontBehind ==
    ASSUME NEW S, NEW e \in S, NEW q \in Seq(S), q # <<>>
    PROVE  Front(<<e>> \o q) = <<e>> \o Front(q)
<1> DEFINE l == <<e>> \o q
           f == Front(l)
           p == Front(q)
           g == <<e>> \o p
<1>1. /\ l \in Seq(S) /\ Len(l) = Len(q) + 1 /\ Len(q) \in Nat /\ Len(q) # 0
      /\ l[1] = e /\ \A i \in 2 .. Len(q) + 1 : l[i] = q[i - 1]
  BY InFront
<1>2. l # <<>>
  BY <1>1
<1> HIDE DEF l
<1>3. f \in Seq(S) /\ Len(f) = Len(l) - 1 /\ \A i \in 1 .. Len(l) - 1 : f[i] = l[i]
  BY <1>1, <1>2, WithoutLast
<1>4. p \in Seq(S) /\ Len(p) = Len(q) - 1 /\ \A i \in 1 .. Len(q) - 1 : p[i] = q[i]
  BY WithoutLast
<1> HIDE DEF f, p
<1>5. /\ g \in Seq(S) /\ Len(g) = Len(p) + 1
      /\ g[1] = e /\ \A i \in 2 .. Len(p) + 1 : g[i] = p[i - 1]
  BY <1>4, InFront
<1> HIDE DEF g
<1>6. Len(f) = Len(q) /\ Len(g) = Len(q)
  BY <1>1, <1>3, <1>4, <1>5
<1>7. ASSUME NEW i \in 1 .. Len(q) PROVE f[i] = g[i]
  <2>1. f[i] = l[i]
    BY <1>1, <1>3
  <2>2. CASE i = 1
    BY <1>1, <1>5, <2>1, <2>2
  <2>3. CASE i # 1
    <3>1. i \in 2 .. Len(q) + 1 /\ i \in 2 .. Len(p) + 1 /\ i - 1 \in 1 .. Len(q) - 1
      BY <1>1, <1>4, <2>3
    <3>2. l[i] = q[i - 1] /\ g[i] = p[i - 1] /\ p[i - 1] = q[i - 1]
      BY <1>1, <1>4, <1>5, <3>1
    <3> QED BY <2>1, <3>2
  <2> QED BY <2>2, <2>3
<1>8. f = g
  BY <1>3, <1>5, <1>6, <1>7
<1> QED BY <1>8 DEF f, g, l, p

-----------------------------------------------------------------------------
(* The nested stylesheets: the invariant.                                   *)

NestedEntry == [key : NestedKey, sheet : Sheet]

NestedTypes ==
    /\ order \in Seq(NestedEntry)
    /\ sheets \in 0 .. MaxSheets
    /\ call \in [Caller -> {NotCompiling} \cup (NestedKey \X SUBSET Sheet)]
    /\ got \in [Caller -> {NoAnswer} \cup (NestedKey \X Sheet)]

\* The list has a key once, and those asked for later before the others.
InOrder ==
    \A i, j \in DOMAIN order : i < j =>
        /\ order[i].key # order[j].key
        /\ <<order[i].key, order[j].key>> \in later

\* A sheet is of its key, in the list, with a caller, and in an answer; and the
\* resolver of a key that is being compiled is there.
SheetsOwn ==
    /\ \A i \in DOMAIN order : order[i].sheet.key = order[i].key
    /\ \A c \in Caller : call[c] # NotCompiling =>
          /\ ~Dead(call[c][1])
          /\ \A s \in call[c][2] : s.key = call[c][1]
    /\ SheetOfTheCall

NestedInv ==
    /\ NestedTypes /\ InOrder /\ SheetsOwn
    /\ byKey = {order[i].key : i \in DOMAIN order}
    /\ Len(order) <= NestedCacheSize

LEMMA NestedInvInit == NestedInit => NestedInv
<1> SUFFICES ASSUME NestedInit PROVE NestedInv
  OBVIOUS
<1>1. order = <<>> /\ order \in Seq(NestedEntry) /\ Len(order) = 0 /\ DOMAIN order = {}
  BY DEF NestedInit
<1>2. NestedTypes
  BY <1>1, NestedCacheAssumption DEF NestedInit, NestedTypes
<1>3. InOrder /\ byKey = {order[i].key : i \in DOMAIN order}
  BY <1>1 DEF NestedInit, InOrder
<1>4. SheetsOwn
  BY <1>1 DEF NestedInit, SheetsOwn, SheetOfTheCall
<1> QED BY <1>1, <1>2, <1>3, <1>4, NestedCacheAssumption DEF NestedInv

\* The sheet a key is answered with comes first, before entries of the list in
\* the order they were in: the list that results is in order.
LEMMA Refronted ==
    ASSUME NestedInv, NEW c \in Caller, NEW k \in NestedKey, NEW s \in Sheet, s.key = k,
           NEW p \in Seq(NestedEntry), Within(p, order, Len(order)),
           \A i \in DOMAIN p : p[i].key # k,
           order' = <<[key |-> k, sheet |-> s]>> \o p,
           Answer(c, k, s)
    PROVE  /\ order' \in Seq(NestedEntry) /\ Len(order') = Len(p) + 1
           /\ InOrder'
           /\ \A i \in DOMAIN order' : order'[i].sheet.key = order'[i].key
           /\ {order'[i].key : i \in DOMAIN order'} = {k} \cup {p[i].key : i \in DOMAIN p}
           /\ got' \in [Caller -> {NoAnswer} \cup (NestedKey \X Sheet)]
           /\ SheetOfTheCall'
<1> DEFINE e == [key |-> k, sheet |-> s]
<1>1. e \in NestedEntry /\ e.key = k /\ e.sheet.key = k
  BY DEF NestedEntry
<1>2. order' = <<e>> \o p
  OBVIOUS
<1> HIDE DEF e
<1>3. /\ order' \in Seq(NestedEntry) /\ Len(order') = Len(p) + 1
      /\ DOMAIN order' = 1 .. Len(p) + 1 /\ DOMAIN p = 1 .. Len(p) /\ Len(p) \in Nat
      /\ order'[1] = e
      /\ \A i \in 2 .. Len(p) + 1 : order'[i] = p[i - 1]
  BY <1>1, <1>2, InFront
<1>4. \A i \in DOMAIN order' : i = 1 \/ (i - 1 \in DOMAIN p /\ order'[i] = p[i - 1])
  BY <1>3
<1>5. DOMAIN order = 1 .. Len(order) /\ \A x \in DOMAIN order : order[x] \in NestedEntry
  BY DEF NestedInv, NestedTypes
<1>6. \A i \in DOMAIN p : \E x \in DOMAIN order : p[i] = order[x]
  BY <1>5 DEF Within
<1>7. \A i \in DOMAIN p : p[i].key \in NestedKey /\ p[i].sheet.key = p[i].key
  BY <1>5, <1>6 DEF NestedEntry, NestedInv, SheetsOwn
<1>8. later' = {q \in later : q[1] # k /\ q[2] # k} \cup ({k} \X (NestedKey \ {k}))
  BY DEF Answer
<1>9. ASSUME NEW i \in DOMAIN order', NEW j \in DOMAIN order', i < j
      PROVE  order'[i].key # order'[j].key /\ <<order'[i].key, order'[j].key>> \in later'
  <2>1. j - 1 \in DOMAIN p /\ order'[j] = p[j - 1]
    BY <1>3, <1>4, <1>9
  <2>2. CASE i = 1
    BY <1>1, <1>3, <1>7, <1>8, <2>1, <2>2
  <2>3. CASE i # 1
    <3>1. i - 1 \in DOMAIN p /\ order'[i] = p[i - 1] /\ i - 1 < j - 1
      BY <1>3, <1>4, <1>9, <2>3
    <3>2. PICK x \in DOMAIN order, y \in DOMAIN order :
                 x < y /\ p[i - 1] = order[x] /\ p[j - 1] = order[y]
      <4>1. \A a, b \in DOMAIN p : a < b =>
               \E x, y \in 1 .. Len(order) : x < y /\ p[a] = order[x] /\ p[b] = order[y]
        BY DEF Within
      <4>2. \E x, y \in 1 .. Len(order) :
               x < y /\ p[i - 1] = order[x] /\ p[j - 1] = order[y]
        BY <2>1, <3>1, <4>1
      <4> QED BY <1>5, <4>2
    <3>3. order[x].key # order[y].key /\ <<order[x].key, order[y].key>> \in later
      BY <3>2 DEF NestedInv, InOrder
    <3>4. order[x].key # k /\ order[y].key # k
      BY <2>1, <3>1, <3>2
    <3> QED BY <1>8, <2>1, <3>1, <3>2, <3>3, <3>4
  <2> QED BY <2>2, <2>3
<1>10. InOrder'
  BY <1>9 DEF InOrder
<1>11. \A i \in DOMAIN order' : order'[i].sheet.key = order'[i].key
  BY <1>1, <1>3, <1>4, <1>7
<1>12. {order'[i].key : i \in DOMAIN order'} = {k} \cup {p[i].key : i \in DOMAIN p}
  <2>1. \A i \in DOMAIN p : i + 1 \in DOMAIN order' /\ order'[i + 1] = p[i]
    BY <1>3
  <2>2. 1 \in DOMAIN order'
    BY <1>3
  <2> DEFINE now == {order'[i].key : i \in DOMAIN order'}
             rest == {p[i].key : i \in DOMAIN p}
  <2>3. now \subseteq {k} \cup rest
    BY <1>1, <1>3, <1>4
  <2>4. k \in now
    BY <1>1, <1>3, <2>2
  <2>5. rest \subseteq now
    BY <2>1
  <2> HIDE DEF now, rest
  <2>6. now = {k} \cup rest
    BY <2>3, <2>4, <2>5
  <2> QED BY <2>6 DEF now, rest
<1>13. got' = [got EXCEPT ![c] = <<k, s>>]
  BY DEF Answer
<1>14. got \in [Caller -> {NoAnswer} \cup (NestedKey \X Sheet)]
  BY DEF NestedInv, NestedTypes
<1>15. got' \in [Caller -> {NoAnswer} \cup (NestedKey \X Sheet)] /\ SheetOfTheCall'
  BY <1>13, <1>14 DEF NestedInv, SheetsOwn, SheetOfTheCall
<1> QED BY <1>3, <1>10, <1>11, <1>12, <1>15

LEMMA KeysDiffer ==
    ASSUME NestedInv
    PROVE  /\ DOMAIN order = 1 .. Len(order) /\ Len(order) \in Nat
           /\ \A x, y \in DOMAIN order : x # y => order[x].key # order[y].key
           /\ \A x \in DOMAIN order : order[x] \in NestedEntry
<1>1. order \in Seq(NestedEntry) /\ InOrder
  BY DEF NestedInv, NestedTypes
<1>2. DOMAIN order = 1 .. Len(order) /\ Len(order) \in Nat
  BY <1>1
<1>3. \A x, y \in DOMAIN order : x # y => x < y \/ y < x
  BY <1>2
<1>4. ASSUME NEW x \in DOMAIN order, NEW y \in DOMAIN order, x # y
      PROVE  order[x].key # order[y].key
  <2>1. \A i, j \in DOMAIN order : i < j => order[i].key # order[j].key
    BY <1>1 DEF InOrder
  <2>2. x < y \/ y < x
    BY <1>3, <1>4
  <2> QED BY <2>1, <2>2
<1>5. \A x \in DOMAIN order : order[x] \in NestedEntry
  BY <1>1
<1> QED BY <1>2, <1>4, <1>5

\* A key of the map is answered, by the entry's sheet or a later one: its entry
\* moves to the front.
LEMMA MovedToFront ==
    ASSUME NestedInv, NEW c \in Caller, NEW i \in DOMAIN order, NEW s \in Sheet,
           s.key = order[i].key,
           order' = <<[key |-> order[i].key, sheet |-> s]>> \o RemoveAt(order, i),
           Answer(c, order[i].key, s), UNCHANGED <<byKey, sheets, alive>>,
           call' = call \/ call' = [call EXCEPT ![c] = NotCompiling]
    PROVE  NestedInv'
<1> DEFINE k == order[i].key
           p == RemoveAt(order, i)
<1>1. /\ DOMAIN order = 1 .. Len(order) /\ Len(order) \in Nat
      /\ \A x, y \in DOMAIN order : x # y => order[x].key # order[y].key
      /\ \A x \in DOMAIN order : order[x] \in NestedEntry
  BY KeysDiffer
<1>2. order \in Seq(NestedEntry) /\ k \in NestedKey
  BY <1>1 DEF NestedInv, NestedTypes, NestedEntry
<1>3. /\ p \in Seq(NestedEntry) /\ Len(p) = Len(order) - 1
      /\ Within(p, order, Len(order))
      /\ \A j \in DOMAIN p : \E x \in 1 .. Len(order) : x # i /\ p[j] = order[x]
      /\ \A x \in 1 .. Len(order) : x # i => \E j \in DOMAIN p : p[j] = order[x]
  BY <1>2, WithoutOne
<1>4. ASSUME NEW j \in DOMAIN p PROVE p[j].key # k
  <2>1. PICK x \in 1 .. Len(order) : x # i /\ p[j] = order[x]
    BY <1>3
  <2> QED BY <1>1, <2>1
<1>5. order' = <<[key |-> k, sheet |-> s]>> \o p /\ Answer(c, k, s) /\ s.key = k
  OBVIOUS
<1> HIDE DEF p
<1>6. {p[j].key : j \in DOMAIN p} \cup {k} = {order[j].key : j \in DOMAIN order}
  <2>1. \A j \in DOMAIN p : p[j].key \in {order[x].key : x \in DOMAIN order}
    BY <1>1, <1>3
  <2>2. \A x \in DOMAIN order : order[x].key \in {p[j].key : j \in DOMAIN p} \cup {k}
    BY <1>1, <1>3
  <2> QED BY <2>1, <2>2
<1> HIDE DEF k
<1>7. /\ order' \in Seq(NestedEntry) /\ Len(order') = Len(p) + 1
      /\ InOrder'
      /\ \A j \in DOMAIN order' : order'[j].sheet.key = order'[j].key
      /\ {order'[j].key : j \in DOMAIN order'} = {k} \cup {p[j].key : j \in DOMAIN p}
      /\ got' \in [Caller -> {NoAnswer} \cup (NestedKey \X Sheet)]
      /\ SheetOfTheCall'
  BY <1>2, <1>3, <1>4, <1>5, Refronted
<1>8. /\ call' \in [Caller -> {NotCompiling} \cup (NestedKey \X SUBSET Sheet)]
      /\ \A d \in Caller : call'[d] \in {call[d], NotCompiling}
  BY DEF NestedInv, NestedTypes
<1>9. NestedTypes'
  BY <1>7, <1>8 DEF NestedInv, NestedTypes
<1>10. SheetsOwn'
  BY <1>7, <1>8 DEF NestedInv, SheetsOwn, Dead
<1>11. byKey' = {order'[j].key : j \in DOMAIN order'} /\ Len(order') <= NestedCacheSize
  <2>1. Len(order') = Len(order)
    <3>1. Len(p) = Len(order) - 1
      BY <1>3
    <3>2. Len(order') = Len(p) + 1
      BY <1>7
    <3>3. \A n \in Nat : (n - 1) + 1 = n
      OBVIOUS
    <3>4. Len(order') = (Len(order) - 1) + 1
      BY <3>1, <3>2, Zenon
    <3>5. Len(order) \in Nat
      BY <1>1
    <3> QED BY <3>3, <3>4, <3>5, Zenon
  <2>2. byKey' = {order[j].key : j \in DOMAIN order} /\ Len(order) <= NestedCacheSize
    BY DEF NestedInv
  <2> DEFINE before == {order[j].key : j \in DOMAIN order}
             now == {order'[j].key : j \in DOMAIN order'}
             rest == {p[j].key : j \in DOMAIN p}
  <2>3. rest \cup {k} = before /\ now = {k} \cup rest /\ byKey' = before
    BY <1>6, <1>7, <2>2
  <2> HIDE DEF before, now, rest
  <2>4. byKey' = now
    BY <2>3
  <2> QED BY <2>1, <2>2, <2>4 DEF now
<1> QED BY <1>7, <1>9, <1>10, <1>11 DEF NestedInv

LEMMA GetStep ==
    ASSUME NestedInv, NEW c \in Caller, NEW k \in NestedKey, Get(c, k)
    PROVE  NestedInv' /\ byKey' = byKey
<1>1. byKey' = byKey /\ UNCHANGED <<compiles, sheets, alive>> /\ call[c] = NotCompiling
      /\ ~Dead(k)
  BY DEF Get, Dead
<1>2. CASE k \in byKey
  <2>1. PICK i \in DOMAIN order :
           /\ order[i].key = k
           /\ order' = <<order[i]>> \o RemoveAt(order, i)
           /\ Answer(c, k, order[i].sheet)
           /\ UNCHANGED call
    BY <1>2 DEF Get
  <2>2. order[i] \in NestedEntry
    BY KeysDiffer
  <2>3. /\ order[i].sheet \in Sheet /\ order[i].sheet.key = order[i].key
        /\ order[i] = [key |-> order[i].key, sheet |-> order[i].sheet]
    BY <2>2 DEF NestedEntry, NestedInv, SheetsOwn
  <2> QED BY <1>1, <2>1, <2>3, MovedToFront
<1>3. CASE k \notin byKey
  <2>1. call' = [call EXCEPT ![c] = <<k, {}>>] /\ UNCHANGED <<order, got, later>>
    BY <1>3 DEF Get
  <2>2. /\ call' \in [Caller -> {NotCompiling} \cup (NestedKey \X SUBSET Sheet)]
        /\ call'[c] = <<k, {}>> /\ \A d \in Caller \ {c} : call'[d] = call[d]
    BY <2>1 DEF NestedInv, NestedTypes
  <2>3. SheetsOwn'
    BY <1>1, <2>1, <2>2 DEF NestedInv, SheetsOwn, SheetOfTheCall, Dead
  <2>4. NestedTypes'
    BY <1>1, <2>1, <2>2 DEF NestedInv, NestedTypes
  <2> QED BY <1>1, <2>1, <2>3, <2>4 DEF NestedInv, InOrder
<1> QED BY <1>1, <1>2, <1>3

\* A put: the key's entry, or a new one when the dead have made room for it.
LEMMA PutStep ==
    ASSUME NestedInv, NEW c \in Caller, PutCall(c)
    PROVE  NestedInv' /\ DeadGoFirst
<1>1. PICK k \in NestedKey : call[c][1] = k /\ call[c] # NotCompiling
  BY DEF PutCall, NestedInv, NestedTypes
<1> DEFINE new(s) == [key |-> k, sheet |-> s]
           q == Purged(order)
           es(s) == <<new(s)>> \o q
           kept(s) == IF Len(es(s)) > NestedCacheSize THEN Front(es(s)) ELSE es(s)
<1>2. PICK s \in call[c][2] :
        /\ IF k \in byKey
           THEN /\ \E i \in DOMAIN order :
                      order[i].key = k /\ order' = <<new(s)>> \o RemoveAt(order, i)
                /\ UNCHANGED byKey
           ELSE /\ order' = kept(s)
                /\ byKey' = (byKey \ ({e.key : e \in ToSet(order)}
                                         \ {e.key : e \in ToSet(kept(s))})) \cup {k}
        /\ Answer(c, k, s)
        /\ call' = [call EXCEPT ![c] = NotCompiling]
        /\ UNCHANGED <<sheets, alive>>
  BY <1>1 DEF PutCall, Put
<1>3. s \in Sheet /\ s.key = k /\ ~Dead(k)
  BY <1>1, <1>2 DEF NestedInv, NestedTypes, SheetsOwn
<1>4. CASE k \in byKey
  <2>1. PICK i \in DOMAIN order :
               order[i].key = k /\ order' = <<new(s)>> \o RemoveAt(order, i)
    BY <1>2, <1>4
  <2>2. NestedInv'
    BY <1>2, <1>3, <1>4, <2>1, MovedToFront
  <2> QED BY <1>2, <1>4, <2>2 DEF DeadGoFirst
<1>5. CASE k \notin byKey
  <2> DEFINE e == [key |-> k, sheet |-> s]
             l == <<e>> \o q
             full == Len(l) > NestedCacheSize
             p == IF full THEN Front(q) ELSE q
             keep == IF full THEN Front(l) ELSE l
  <2>1. /\ DOMAIN order = 1 .. Len(order) /\ Len(order) \in Nat
        /\ \A x \in DOMAIN order : order[x] \in NestedEntry
        /\ order \in Seq(NestedEntry)
    BY KeysDiffer DEF NestedInv, NestedTypes
  <2>2. /\ q \in Seq(NestedEntry) /\ Len(q) <= Len(order)
        /\ Within(q, order, Len(order))
        /\ \A i \in DOMAIN q : ~Dead(q[i].key)
        /\ \A x \in 1 .. Len(order) : ~Dead(order[x].key) =>
              \E i \in DOMAIN q : q[i] = order[x]
    BY <2>1, PurgedFacts
  <2>3. e \in NestedEntry /\ e.key = k
    BY <1>3 DEF NestedEntry
  <2>10. order' = keep /\
         byKey' = (byKey \ ({d.key : d \in ToSet(order)} \ {d.key : d \in ToSet(keep)})) \cup {k}
    BY <1>2, <1>5
  <2> HIDE DEF q, e
  <2>4. Len(l) = Len(q) + 1 /\ Len(q) \in Nat /\ DOMAIN q = 1 .. Len(q)
    BY <2>2, <2>3, InFront
  <2>5. NestedCacheSize \in Nat \ {0} /\ Len(order) <= NestedCacheSize
    BY NestedCacheAssumption DEF NestedInv
  <2> HIDE DEF l
  <2>6. /\ p \in Seq(NestedEntry) /\ DOMAIN p = 1 .. Len(p) /\ Len(p) \in Nat
        /\ Len(p) <= Len(q) /\ Len(p) + 1 <= NestedCacheSize
        /\ \A i \in DOMAIN p : i \in DOMAIN q /\ p[i] = q[i]
    <3>1. CASE full
      <4>1. q # <<>> /\ p = Front(q)
        BY <2>2, <2>4, <2>5, <3>1
      <4>2. /\ p \in Seq(NestedEntry) /\ Len(p) = Len(q) - 1
            /\ \A i \in 1 .. Len(q) - 1 : p[i] = q[i]
        BY <2>2, <4>1, WithoutLast
      <4> HIDE DEF p
      <4>3. DOMAIN p = 1 .. Len(p) /\ Len(p) \in Nat
        BY <4>2
      <4>4. Len(p) <= Len(q) /\ Len(p) + 1 <= NestedCacheSize
        BY <2>1, <2>2, <2>4, <2>5, <4>2
      <4>5. \A i \in DOMAIN p : i \in DOMAIN q /\ p[i] = q[i]
        BY <2>4, <4>2, <4>3
      <4> QED BY <4>2, <4>3, <4>4, <4>5
    <3>2. CASE ~full
      <4>1. p = q
        BY <3>2
      <4>2. Len(q) + 1 <= NestedCacheSize
        BY <2>4, <2>5, <3>2
      <4> HIDE DEF p
      <4> QED BY <2>2, <2>4, <4>1, <4>2
    <3> QED BY <3>1, <3>2
  <2>7. order' = <<e>> \o p
    <3>1. CASE full
      <4>1. q # <<>>
        BY <2>2, <2>4, <2>5, <3>1
      <4>2. Front(<<e>> \o q) = <<e>> \o Front(q)
        BY <2>2, <2>3, <4>1, FrontBehind
      <4> QED BY <2>10, <3>1, <4>2 DEF l
    <3>2. CASE ~full
      BY <2>10, <3>2 DEF l
    <3> QED BY <3>1, <3>2
  <2>8. Within(p, order, Len(order))
    <3>1. \A i \in DOMAIN p : \E x \in 1 .. Len(order) : p[i] = order[x]
      BY <2>2, <2>6 DEF Within
    <3>2. ASSUME NEW i \in DOMAIN p, NEW j \in DOMAIN p, i < j
          PROVE  \E x, y \in 1 .. Len(order) : x < y /\ p[i] = order[x] /\ p[j] = order[y]
      <4>1. i \in DOMAIN q /\ j \in DOMAIN q /\ p[i] = q[i] /\ p[j] = q[j]
        BY <2>6
      <4>2. \E x, y \in 1 .. Len(order) : x < y /\ q[i] = order[x] /\ q[j] = order[y]
        BY <2>2, <3>2, <4>1 DEF Within
      <4> QED BY <4>1, <4>2
    <3> QED BY <3>1, <3>2 DEF Within
  <2>9. \A i \in DOMAIN p : p[i].key \in byKey /\ p[i].key # k
    <3>1. \A i \in DOMAIN p : \E x \in DOMAIN order : p[i] = order[x]
      BY <2>1, <2>8 DEF Within
    <3> QED BY <1>5, <3>1 DEF NestedInv
  <2>11. byKey' = (byKey \ ({d.key : d \in ToSet(order)}
                              \ {d.key : d \in ToSet(order')})) \cup {k}
    BY <2>10
  <2> DEFINE before == {order[i].key : i \in DOMAIN order}
             now == {order'[i].key : i \in DOMAIN order'}
             rest == {p[i].key : i \in DOMAIN p}
  <2>12. p \in Seq(NestedEntry) /\ order' = <<[key |-> k, sheet |-> s]>> \o p
    BY <2>6, <2>7 DEF e
  <2>13. \A i \in DOMAIN p : ~Dead(p[i].key)
    BY <2>2, <2>6
  <2> HIDE DEF p, keep
  <2>15. /\ order' \in Seq(NestedEntry) /\ Len(order') = Len(p) + 1
         /\ InOrder'
         /\ \A i \in DOMAIN order' : order'[i].sheet.key = order'[i].key
         /\ {order'[i].key : i \in DOMAIN order'} = {k} \cup {p[i].key : i \in DOMAIN p}
         /\ got' \in [Caller -> {NoAnswer} \cup (NestedKey \X Sheet)]
         /\ SheetOfTheCall'
    <3>1. s \in Sheet /\ s.key = k /\ Answer(c, k, s) /\ \A i \in DOMAIN p : p[i].key # k
      BY <1>2, <1>3, <2>9
    <3> QED BY <1>1, <2>8, <2>12, <3>1, Refronted
  <2>16. before = byKey /\ rest \subseteq byKey
    BY <2>9 DEF NestedInv
  <2>17. byKey' = now
    <3>1. {d.key : d \in ToSet(order)} = before /\ {d.key : d \in ToSet(order')} = now
      BY DEF ToSet
    <3>2. byKey' = (byKey \ (before \ now)) \cup {k}
      BY <2>11, <3>1
    <3>3. now = {k} \cup rest
      BY <2>15
    <3> HIDE DEF before, now, rest
    <3> QED BY <1>5, <2>16, <3>2, <3>3
  <2>18. /\ call' \in [Caller -> {NotCompiling} \cup (NestedKey \X SUBSET Sheet)]
         /\ \A d \in Caller : call'[d] \in {call[d], NotCompiling}
    BY <1>2 DEF NestedInv, NestedTypes
  <2>19. NestedTypes' /\ SheetsOwn' /\ Len(order') <= NestedCacheSize
    <3>1. NestedTypes'
      BY <1>2, <2>15, <2>18 DEF NestedInv, NestedTypes
    <3>2. SheetsOwn'
      BY <1>2, <2>15, <2>18 DEF NestedInv, SheetsOwn, Dead
    <3> QED BY <2>6, <2>15, <3>1, <3>2
  <2>20. DeadGoFirst
    <3>1. CASE p = q
      <4>1. ASSUME NEW j \in byKey \ byKey' PROVE Dead(j)
        <5>1. PICK x \in DOMAIN order : order[x].key = j
          BY <4>1 DEF NestedInv
        <5>2. j \notin rest
          BY <2>15, <2>17
        <5>3. ~ \E i \in DOMAIN q : q[i] = order[x]
          BY <3>1, <5>1, <5>2
        <5> QED BY <2>1, <2>2, <5>1, <5>3
      <4> QED BY <4>1 DEF DeadGoFirst
    <3>2. CASE p # q
      <4>1. \A i \in DOMAIN order' : ~Dead(order'[i].key)
        <5>1. \A i \in DOMAIN order' : order'[i].key \in {k} \cup rest
          BY <2>15
        <5> QED BY <1>3, <2>13, <5>1
      <4> QED BY <4>1 DEF DeadGoFirst, ToSet
    <3> QED BY <3>1, <3>2
  <2> QED BY <2>15, <2>17, <2>19, <2>20 DEF NestedInv
<1> QED BY <1>4, <1>5

LEMMA CompileStep ==
    ASSUME NestedInv, NEW c \in Caller, CompileNested(c) \/ CompileFails(c)
    PROVE  NestedInv' /\ byKey' = byKey
<1>1. call \in [Caller -> {NotCompiling} \cup (NestedKey \X SUBSET Sheet)]
  BY DEF NestedInv, NestedTypes
<1>2. UNCHANGED <<order, byKey, got, later, alive>>
  BY DEF CompileNested, CompileFails
<1>3. CASE CompileNested(c)
  <2>1. PICK k \in NestedKey : call[c] = <<k, {}>> /\ call[c] # NotCompiling
    <3>1. call[c] # NotCompiling /\ call[c][2] = {}
      BY <1>3 DEF CompileNested
    <3> QED BY <1>1, <3>1
  <2> DEFINE s == [nr |-> sheets + 1, key |-> k]
  <2>2. s \in Sheet /\ s.key = k /\ sheets' \in 0 .. MaxSheets
    BY <1>3, <2>1, NestedCacheAssumption DEF CompileNested, NestedInv, NestedTypes, Sheet
  <2>3. call' = [call EXCEPT ![c] = <<k, {s}>>]
    BY <1>1, <1>3, <2>1 DEF CompileNested
  <2> HIDE DEF s
  <2>4. /\ call' \in [Caller -> {NotCompiling} \cup (NestedKey \X SUBSET Sheet)]
        /\ call'[c] = <<k, {s}>> /\ \A d \in Caller \ {c} : call'[d] = call[d]
    BY <1>1, <2>1, <2>2, <2>3
  <2>5. ~Dead(k)
    <3>1. ~Dead(call[c][1])
      BY <2>1 DEF NestedInv, SheetsOwn
    <3>2. call[c][1] = k
      BY <2>1
    <3> QED BY <3>1, <3>2
  <2>6. SheetsOwn'
    BY <1>2, <2>2, <2>4, <2>5 DEF NestedInv, SheetsOwn, SheetOfTheCall, Dead
  <2>7. NestedTypes'
    BY <1>2, <2>2, <2>4 DEF NestedInv, NestedTypes
  <2> QED BY <1>2, <2>6, <2>7 DEF NestedInv, InOrder
<1>4. CASE CompileFails(c)
  <2>1. call' = [call EXCEPT ![c] = NotCompiling] /\ sheets' = sheets
    BY <1>4 DEF CompileFails
  <2>2. /\ call' \in [Caller -> {NotCompiling} \cup (NestedKey \X SUBSET Sheet)]
        /\ \A d \in Caller : call'[d] \in {call[d], NotCompiling}
    BY <1>1, <2>1
  <2>3. SheetsOwn'
    BY <1>2, <2>2 DEF NestedInv, SheetsOwn, SheetOfTheCall, Dead
  <2>4. NestedTypes'
    BY <1>2, <2>1, <2>2 DEF NestedInv, NestedTypes
  <2> QED BY <1>2, <2>3, <2>4 DEF NestedInv, InOrder
<1> QED BY <1>2, <1>3, <1>4

\* A resolver is collected while no call has it: the keys being compiled live on.
LEMMA CollectStep ==
    ASSUME NestedInv, CollectResolver
    PROVE  NestedInv' /\ byKey' = byKey
<1>1. UNCHANGED <<order, byKey, compiles, sheets, call, got, later>>
  BY DEF CollectResolver
<1>2. \A c \in Caller : call[c] # NotCompiling =>
         (~Dead(call[c][1]) => call[c][1][2] \in alive')
  BY DEF CollectResolver, Dead
<1>3. SheetsOwn'
  BY <1>1, <1>2 DEF NestedInv, SheetsOwn, SheetOfTheCall, Dead
<1>4. NestedTypes'
  BY <1>1 DEF NestedInv, NestedTypes
<1> QED BY <1>1, <1>3, <1>4 DEF NestedInv, InOrder

LEMMA NestedInvStep ==
    ASSUME NestedInv, [NestedNext]_nestedVars PROVE NestedInv' /\ DeadGoFirst
<1>1. CASE UNCHANGED nestedVars
  <2>1. NestedInv'
    BY <1>1 DEF nestedVars, NestedInv, NestedTypes, InOrder, SheetsOwn, SheetOfTheCall, Dead
  <2> QED BY <1>1, <2>1 DEF nestedVars, DeadGoFirst
<1>2. ASSUME NEW c \in Caller, NEW k \in NestedKey, Get(c, k)
      PROVE  NestedInv' /\ DeadGoFirst
  <2>1. NestedInv' /\ byKey' = byKey
    BY <1>2, GetStep
  <2> QED BY <2>1 DEF DeadGoFirst
<1>3. ASSUME NEW c \in Caller, CompileNested(c) \/ CompileFails(c)
      PROVE  NestedInv' /\ DeadGoFirst
  <2>1. NestedInv' /\ byKey' = byKey
    BY <1>3, CompileStep
  <2> QED BY <2>1 DEF DeadGoFirst
<1>4. ASSUME NEW c \in Caller, PutCall(c) PROVE NestedInv' /\ DeadGoFirst
  BY <1>4, PutStep
<1>5. CASE CollectResolver
  <2>1. NestedInv' /\ byKey' = byKey
    BY <1>5, CollectStep
  <2> QED BY <2>1 DEF DeadGoFirst
<1> QED BY <1>1, <1>2, <1>3, <1>4, <1>5 DEF NestedNext

\* The keys differ, so there are as many as the list is long.
LEMMA NestedInvGives ==
    ASSUME NestedInv PROVE ListMatchesMap /\ SheetOfTheCall /\ LeastRecentLast
<1> DEFINE n == Len(order)
           keyAt == [i \in 1 .. n |-> order[i].key]
<1>1. /\ DOMAIN order = 1 .. n /\ n \in Nat
      /\ \A x, y \in DOMAIN order : x # y => order[x].key # order[y].key
  BY KeysDiffer
<1>2. byKey = {order[i].key : i \in DOMAIN order} /\ n <= NestedCacheSize
  BY DEF NestedInv
<1> HIDE DEF n
<1>3. keyAt \in Bijection(1 .. n, byKey)
  <2>1. keyAt \in [1 .. n -> byKey]
    BY <1>1, <1>2
  <2>2. \A x, y \in 1 .. n : keyAt[x] = keyAt[y] => x = y
    BY <1>1
  <2>3. \A k \in byKey : \E x \in 1 .. n : keyAt[x] = k
    BY <1>1, <1>2
  <2> QED BY <2>1, <2>2, <2>3 DEF Bijection, Injection, Surjection, IsInjective
<1>4. IsFiniteSet(1 .. n) /\ Cardinality(1 .. n) = n
  <2>1. 1 \in Int /\ n \in Int
    BY <1>1
  <2> QED BY <1>1, <2>1, FS_Interval
<1>5. Cardinality(byKey) = n
  <2>1. ExistsBijection(1 .. n, byKey)
    BY <1>3 DEF ExistsBijection
  <2> QED BY <1>4, <2>1, FS_Bijection
<1>6. ListMatchesMap
  BY <1>2, <1>5 DEF ListMatchesMap, n
<1>7. LeastRecentLast
  BY DEF NestedInv, InOrder, LeastRecentLast
<1> QED BY <1>6, <1>7 DEF NestedInv, SheetsOwn

\* The invariant of the list, the map and the calls of nestedCache.
THEOREM NestedInvariant == NestedSpec => []NestedInv
<1>1. NestedInit => NestedInv
  BY NestedInvInit
<1>2. NestedInv /\ [NestedNext]_nestedVars => NestedInv'
  BY NestedInvStep
<1> QED BY <1>1, <1>2, PTL DEF NestedSpec

\* Whatever callers ask for, put and let go at once, the list and the map have
\* the same keys and no more than the bound, a call runs the sheet of its own
\* key, the list is in the order the keys were last asked for, and a put drops a
\* living stylesheet only when no dead one is left (nestedCache.get and put).
THEOREM NestedHolds == NestedSpec => NestedKept
<1>1. ASSUME NestedInv, NestedInv', [NestedNext]_nestedVars
      PROVE  [ListMatchesMap' /\ SheetOfTheCall' /\ LeastRecentLast' /\ DeadGoFirst]_nestedVars
  <2>1. ListMatchesMap' /\ SheetOfTheCall' /\ LeastRecentLast'
    BY <1>1, NestedInvGives, PTL
  <2> QED BY <1>1, <2>1, NestedInvStep
<1> QED BY <1>1, NestedInvariant, PTL DEF NestedSpec, NestedKept
=============================================================================
