---------------------------- MODULE LiveBudgetProofs ----------------------------
(***************************************************************************)
(* Proofs about LiveBudget, for every bound, allowance and choice of what  *)
(* is charged: what is held stays charged, what is built stays bounded,    *)
(* and a refusal is reported.                                              *)
(***************************************************************************)
EXTENDS LiveBudget, TLAPS

LEMMA ChargeType == ASSUME NEW n \in ChargeSizes PROVE n \in Nat /\ n > 0
BY LiveBudgetAssumption

\* Every operation but EndItem charges, or leaves the counter alone.
LEMMA CountFacts ==
    ASSUME LiveTypeOK, NEW n \in Nat, n > 0, NEW ok \in BOOLEAN, CountNodes(n, ok)
    PROVE  /\ nodes' = nodes + n /\ builtNodes' \in Nat
           /\ nodesHit' \in BOOLEAN /\ refused' \in BOOLEAN /\ built' \in Nat
           /\ refused' = (refused \/ ~ok) /\ nodesHit' = (nodesHit \/ ~ok)
           /\ built' = IF ok THEN built + n ELSE built
           /\ ok => nodes' <= MaxNodes
           /\ nodesBuilt > 0 => (ok => builtNodes' = builtNodes + n /\ builtNodes' <= nodesBuilt)
           /\ builtNodes' >= builtNodes
<1>1. nodesBuilt \in Nat /\ MaxNodes \in Nat
  BY LiveBudgetAssumption DEF LiveTypeOK
<1>2. nodes \in Nat /\ builtNodes \in Nat /\ built \in Nat /\ nodesHit \in BOOLEAN /\ refused \in BOOLEAN
  BY DEF LiveTypeOK
<1> DEFINE inTotal == nodes + n <= MaxNodes /\ nodesBuilt > 0
<1>3. /\ nodes' = nodes + n
      /\ builtNodes' = IF inTotal THEN builtNodes + n ELSE builtNodes
      /\ ok <=> (nodes' <= MaxNodes /\ (inTotal => builtNodes' <= nodesBuilt))
      /\ nodesHit' = (nodesHit \/ ~ok) /\ refused' = (refused \/ ~ok)
      /\ built' = IF ok THEN built + n ELSE built
  BY DEF CountNodes
<1>4. nodesHit' \in BOOLEAN /\ refused' \in BOOLEAN
  BY <1>3, Zenon
<1>5. /\ builtNodes' \in Nat /\ built' \in Nat /\ builtNodes' >= builtNodes
      /\ ok => nodes' <= MaxNodes
      /\ nodesBuilt > 0 => (ok => builtNodes' = builtNodes + n /\ builtNodes' <= nodesBuilt)
  <2>1. CASE inTotal
    <3>1. builtNodes' = builtNodes + n
      BY <1>3, <2>1
    <3>2. CASE ok
      BY <1>1, <1>2, <1>3, <2>1, <3>1, <3>2
    <3>3. CASE ~ok
      <4>1. built' = built
        BY <1>3, <3>3
      <4> QED BY <1>1, <1>2, <2>1, <3>1, <3>3, <4>1
    <3> QED BY <3>2, <3>3
  <2>2. CASE ~inTotal
    <3>1. builtNodes' = builtNodes
      BY <1>3, <2>2
    <3>2. CASE ok
      BY <1>1, <1>2, <1>3, <2>2, <3>1, <3>2
    <3>3. CASE ~ok
      <4>1. built' = built
        BY <1>3, <3>3
      <4> QED BY <1>1, <1>2, <2>2, <3>1, <3>3, <4>1
    <3> QED BY <3>2, <3>3
  <2> QED BY <2>1, <2>2
<1> QED BY <1>3, <1>4, <1>5

\* What settle hands back and leaves: never more than the pool, never the part
\* of it that is still needed.
LEMMA SettleFacts ==
    ASSUME LiveTypeOK, NEW risen \in Nat, NEW need \in Nat
    PROVE  /\ Settle(risen, need).refund \in Nat
           /\ Settle(risen, need).live \in Nat
           /\ Settle(risen, need).refund <= risen + liveNodes
           /\ \/ Settle(risen, need).refund = 0
              \/ Settle(risen, need).refund <= risen + liveNodes - need
           /\ Settle(risen, need).live <= risen + liveNodes - Settle(risen, need).refund
           /\ nodesBuilt = 0 => Settle(risen, need).refund <= Allowance
<1> DEFINE pool == risen + liveNodes
           r0 == larger(pool - need, 0)
           r == IF nodesBuilt # 0 THEN r0 ELSE smaller(r0, Allowance)
           l == smaller(need, pool - r)
<1>1. liveNodes \in Nat /\ Allowance \in Nat /\ pool \in Nat
  BY LiveBudgetAssumption DEF LiveTypeOK
<1>2. r0 \in Nat /\ r0 <= pool /\ (r0 = 0 \/ r0 <= pool - need)
  BY <1>1 DEF larger
<1>3. r \in Nat /\ r <= r0 /\ (nodesBuilt = 0 => r <= Allowance)
  <2> HIDE DEF r0
  <2> QED BY <1>1, <1>2 DEF smaller
<1>4. l \in Nat /\ l <= pool - r
  <2>1. pool - r \in Nat
    <3> HIDE DEF r0, r, pool
    <3> QED BY <1>1, <1>2, <1>3
  <2> HIDE DEF r, pool
  <2> QED BY <2>1 DEF smaller
<1>5. Settle(risen, need) = [refund |-> r, live |-> l]
  BY DEF Settle
<1> HIDE DEF r, r0, l, pool
<1>6. r <= pool /\ (r = 0 \/ r <= pool - need)
  BY <1>1, <1>2, <1>3
<1> QED BY <1>1, <1>3, <1>4, <1>5, <1>6 DEF pool

-----------------------------------------------------------------------------
(* The inductive invariant.  When an item of the loop begins, the counter    *)
(* covers what is held for good and what stands for the state carried on;    *)
(* as long as the item holds nothing more for good it cannot hand back more  *)
(* than it charged and what stood for that state.                            *)

Covered ==
    /\ phase = "item" => n0 <= nodes
    /\ phase = "item" /\ ~spilled => liveNodes + kept <= n0
    /\ phase = "between" => liveNodes + kept <= nodes
    /\ ~on => liveNodes = 0

LiveInv == LiveTypeOK /\ HeldIsCharged /\ Covered

\* A charge of n covers n more of what is held.
LEMMA ChargeCovers ==
    \A n, total, k, c, f, more \in Nat :
        /\ more <= f + n /\ total >= k + c + f => total + n >= k + c + more
        /\ more <= k + n /\ total >= k + c + f => total + n >= more + c + f
        /\ more <= k + n /\ total >= c + k => total + n >= c + more
OBVIOUS

\* What covers a part covers less of it.
LEMMA LessCovered ==
    \A total, k, c, f, less \in Nat :
        less <= c + f /\ total >= k + c + f => total >= k + less /\ total >= k
OBVIOUS

\* What the end of an item does to the counter: nothing, or a refund that leaves
\* what is carried on, and what was held for good, charged.
LEMMA EndFacts ==
    ASSUME LiveInv, EndItem
    PROVE  /\ carried' \in Nat /\ carried' <= carried + fresh
           /\ \/ /\ nodes' = nodes
                 /\ liveNodes' = IF on THEN 0 ELSE liveNodes
              \/ /\ on /\ ~spilled
                 /\ nodes' \in Nat /\ liveNodes' \in Nat
                 /\ nodes' <= nodes
                 /\ nodes' >= kept + carried'
                 /\ nodes' >= liveNodes' + kept
                 /\ nodesBuilt = 0 => nodes <= nodes' + Allowance
<1>1. PICK again \in BOOLEAN, part \in 0 .. fresh, other \in {0, 1}, measured \in BOOLEAN :
        LET on2 == (IF again THEN carried ELSE 0) + part
            s == Settle(nodes - n0, on2 + other)
        IN  /\ carried' = on2
            /\ IF on /\ measured /\ ~spilled
               THEN nodes' = larger(nodes - s.refund, 0) /\ liveNodes' = s.live
               ELSE /\ UNCHANGED nodes
                    /\ liveNodes' = IF on THEN 0 ELSE liveNodes
  BY DEF EndItem
<1> DEFINE on2 == (IF again THEN carried ELSE 0) + part
           s == Settle(nodes - n0, on2 + other)
<1>2. /\ nodes \in Nat /\ n0 \in Nat /\ liveNodes \in Nat /\ kept \in Nat
      /\ carried \in Nat /\ fresh \in Nat /\ Allowance \in Nat
  BY LiveBudgetAssumption DEF LiveInv, LiveTypeOK
<1>3. carried' = on2 /\ on2 \in Nat /\ on2 <= carried + fresh
  BY <1>1, <1>2
<1>4. CASE on /\ measured /\ ~spilled
  <2>1. n0 <= nodes /\ liveNodes + kept <= n0 /\ nodes >= kept + carried + fresh
    BY <1>4 DEF LiveInv, Covered, HeldIsCharged, EndItem
  <2>2. nodes - n0 \in Nat /\ on2 + other \in Nat /\ on2 <= on2 + other
    BY <1>2, <1>3, <2>1
  <2>3. /\ s.refund \in Nat /\ s.live \in Nat
        /\ s.refund <= nodes - n0 + liveNodes
        /\ s.refund = 0 \/ s.refund <= nodes - n0 + liveNodes - (on2 + other)
        /\ s.live <= nodes - n0 + liveNodes - s.refund
        /\ nodesBuilt = 0 => s.refund <= Allowance
    <3> DEFINE risen == nodes - n0
               need == on2 + other
    <3>1. risen \in Nat /\ need \in Nat /\ LiveTypeOK
      BY <2>2 DEF LiveInv
    <3> HIDE DEF risen, need
    <3>2. /\ Settle(risen, need).refund \in Nat
          /\ Settle(risen, need).live \in Nat
          /\ Settle(risen, need).refund <= risen + liveNodes
          /\ \/ Settle(risen, need).refund = 0
             \/ Settle(risen, need).refund <= risen + liveNodes - need
          /\ Settle(risen, need).live <= risen + liveNodes - Settle(risen, need).refund
          /\ nodesBuilt = 0 => Settle(risen, need).refund <= Allowance
      BY <3>1, SettleFacts
    <3> QED BY <3>2 DEF risen, need
  <2>4. nodes' = larger(nodes - s.refund, 0) /\ liveNodes' = s.live
    BY <1>1, <1>4
  <2> HIDE DEF on2, s
  <2>5. nodes - s.refund \in Nat
    BY <1>2, <2>1, <2>3
  <2>6. nodes' = nodes - s.refund
    BY <2>4, <2>5 DEF larger
  <2> QED BY <1>2, <1>3, <1>4, <2>1, <2>2, <2>3, <2>4, <2>6
<1>5. CASE ~(on /\ measured /\ ~spilled)
  BY <1>1, <1>3, <1>5
<1> QED BY <1>4, <1>5

LEMMA LiveInvInit == LiveInit => LiveInv
<1> SUFFICES ASSUME LiveInit PROVE LiveInv
  OBVIOUS
<1>1. nodesBuilt \in Nat
  BY LiveBudgetAssumption DEF LiveInit
<1>2. LiveTypeOK
  BY <1>1 DEF LiveInit, LiveTypeOK
<1>3. HeldIsCharged
  BY DEF LiveInit, HeldIsCharged
<1>4. Covered
  BY DEF LiveInit, Covered
<1> QED BY <1>2, <1>3, <1>4 DEF LiveInv

LEMMA LiveInvStep == LiveInv /\ [LiveNext]_liveVars => LiveInv'
<1> SUFFICES ASSUME LiveInv, [LiveNext]_liveVars PROVE LiveInv'
  OBVIOUS
<1>0. /\ nodes \in Nat /\ n0 \in Nat /\ liveNodes \in Nat /\ kept \in Nat /\ built \in Nat
      /\ carried \in Nat /\ fresh \in Nat /\ itemsRead \in Nat /\ LiveTypeOK
  BY DEF LiveInv, LiveTypeOK
<1>1. ASSUME NEW n \in ChargeSizes, BuildTemporary(n) PROVE LiveInv'
  <2>1. PICK ok \in BOOLEAN : CountNodes(n, ok) /\ fresh' = IF ok THEN fresh + n ELSE fresh
    BY <1>1 DEF BuildTemporary
  <2>2. n \in Nat /\ n > 0
    BY ChargeType
  <2>3. /\ nodes' = nodes + n /\ builtNodes' \in Nat /\ built' \in Nat
        /\ nodesHit' \in BOOLEAN /\ refused' \in BOOLEAN
    BY <1>0, <2>1, <2>2, CountFacts
  <2>4. fresh' \in Nat /\ fresh' <= fresh + n
    BY <1>0, <2>1, <2>2
  <2>5. /\ phase = "item" /\ phase' = "item"
        /\ UNCHANGED <<nodesBuilt, on, liveNodes, n0, spilled, itemsRead, kept, carried>>
    BY <1>1 DEF BuildTemporary
  <2>6. LiveTypeOK'
    BY <1>0, <2>2, <2>3, <2>4, <2>5 DEF LiveTypeOK
  <2>7. HeldIsCharged'
    <3>1. nodes >= kept + carried + fresh
      BY <2>5 DEF LiveInv, HeldIsCharged
    <3>2. nodes' = nodes + n /\ kept' = kept /\ carried' = carried
      BY <2>3, <2>5
    <3>3. nodes + n >= kept + carried + fresh'
      BY <1>0, <2>2, <2>4, <3>1, ChargeCovers
    <3> QED BY <2>5, <3>2, <3>3 DEF HeldIsCharged
  <2>8. Covered'
    BY <1>0, <2>2, <2>3, <2>5 DEF LiveInv, Covered
  <2> QED BY <2>6, <2>7, <2>8 DEF LiveInv
<1>2. ASSUME NEW n \in ChargeSizes, BuildKept(n) PROVE LiveInv'
  <2>1. PICK ok \in BOOLEAN :
          /\ CountNodes(n, ok)
          /\ kept' = IF ok THEN kept + n ELSE kept
          /\ spilled' = (spilled \/ ok)
    BY <1>2 DEF BuildKept
  <2>2. n \in Nat /\ n > 0
    BY ChargeType
  <2>3. /\ nodes' = nodes + n /\ builtNodes' \in Nat /\ built' \in Nat
        /\ nodesHit' \in BOOLEAN /\ refused' \in BOOLEAN
    BY <1>0, <2>1, <2>2, CountFacts
  <2>4. /\ kept' \in Nat /\ kept' <= kept + n
        /\ spilled' \in BOOLEAN
        /\ ~spilled' => ~spilled /\ kept' = kept
    <3>1. spilled' \in BOOLEAN /\ (~spilled' => ~spilled /\ ~ok)
      BY <1>0, <2>1, Zenon
    <3>2. kept' \in Nat /\ kept' <= kept + n
      BY <1>0, <2>1, <2>2
    <3>3. ~ok => kept' = kept
      BY <2>1
    <3> QED BY <3>1, <3>2, <3>3
  <2>5. /\ phase' = phase
        /\ UNCHANGED <<nodesBuilt, on, liveNodes, n0, itemsRead, fresh, carried>>
    BY <1>2 DEF BuildKept
  <2>6. LiveTypeOK'
    BY <1>0, <2>2, <2>3, <2>4, <2>5 DEF LiveTypeOK
  <2> DEFINE held == IF phase = "item" THEN fresh ELSE 0
  <2>7. HeldIsCharged'
    <3>1. held \in Nat /\ nodes >= kept + carried + held
      BY <1>0 DEF LiveInv, HeldIsCharged
    <3>2. held = (IF phase = "item" THEN fresh ELSE 0)'
      BY <2>5
    <3> HIDE DEF held
    <3>3. nodes' = nodes + n /\ kept' <= kept + n /\ kept' \in Nat /\ carried' = carried
      BY <2>3, <2>4, <2>5
    <3>4. nodes + n >= kept' + carried + held
      BY <1>0, <2>2, <3>1, <3>3, ChargeCovers
    <3> QED BY <3>2, <3>3, <3>4 DEF HeldIsCharged
  <2>8. Covered'
    <3>1. /\ nodes' = nodes + n /\ kept' <= kept + n /\ kept' \in Nat
          /\ liveNodes' = liveNodes /\ n0' = n0 /\ phase' = phase /\ on' = on
      BY <2>3, <2>4, <2>5
    <3>2. phase = "item" => n0 <= nodes'
      BY <1>0, <2>2, <3>1 DEF LiveInv, Covered
    <3>3. phase = "item" /\ ~spilled' => liveNodes + kept' <= n0
      BY <2>4 DEF LiveInv, Covered
    <3>4. ASSUME phase = "between" PROVE liveNodes + kept' <= nodes'
      <4>1. nodes >= liveNodes + kept
        BY <1>0, <3>4 DEF LiveInv, Covered
      <4>2. nodes + n >= liveNodes + kept'
        BY <1>0, <2>2, <3>1, <4>1, ChargeCovers
      <4> QED BY <1>0, <2>2, <3>1, <4>2
    <3>5. ~on => liveNodes = 0
      BY DEF LiveInv, Covered
    <3> QED BY <3>1, <3>2, <3>3, <3>4, <3>5 DEF Covered
  <2> QED BY <2>6, <2>7, <2>8 DEF LiveInv
<1>3. ASSUME BeginItem PROVE LiveInv'
  <2>1. /\ phase = "between" /\ phase' = "item" /\ itemsRead' = itemsRead + 1
        /\ n0' = nodes /\ spilled' = FALSE /\ fresh' = 0
        /\ UNCHANGED <<nodesBuilt, nodes, builtNodes, nodesHit, on, liveNodes, built,
                       kept, carried, refused>>
    BY <1>3 DEF BeginItem
  <2>2. itemsRead' \in Nat
    BY <1>0, <2>1
  <2>3. LiveTypeOK'
    BY <1>0, <2>1, <2>2 DEF LiveTypeOK
  <2>4. HeldIsCharged'
    BY <1>0, <2>1 DEF LiveInv, HeldIsCharged
  <2>5. Covered'
    BY <1>0, <2>1 DEF LiveInv, Covered
  <2> QED BY <2>3, <2>4, <2>5 DEF LiveInv
<1>4. ASSUME EndItem PROVE LiveInv'
  <2>1. /\ phase = "item" /\ phase' = "between" /\ fresh' = 0
        /\ UNCHANGED <<nodesBuilt, builtNodes, nodesHit, on, n0, spilled, itemsRead, built,
                       kept, refused>>
    BY <1>4 DEF EndItem
  <2>2. nodes >= kept + carried + fresh
    BY <2>1 DEF LiveInv, HeldIsCharged
  <2>3. carried' \in Nat /\ carried' <= carried + fresh
    BY <1>4, EndFacts
  <2>4. CASE nodes' = nodes /\ liveNodes' = IF on THEN 0 ELSE liveNodes
    <3>1. liveNodes' = 0
      BY <2>4 DEF LiveInv, Covered
    <3>2. LiveTypeOK'
      BY <1>0, <2>1, <2>3, <2>4, <3>1 DEF LiveTypeOK
    <3> nodes' = nodes /\ kept' = kept /\ phase' # "item"
      BY <2>1, <2>4
    <3>3. nodes >= kept + carried' /\ nodes >= kept
      BY <1>0, <2>2, <2>3, LessCovered
    <3>6. kept + carried' + 0 = kept + carried' /\ 0 + kept = kept
      BY <1>0, <2>3
    <3>4. HeldIsCharged'
      BY <3>3, <3>6 DEF HeldIsCharged
    <3>5. Covered'
      <4>1. liveNodes' + kept' <= nodes'
        BY <1>0, <3>1, <3>3, <3>6
      <4> QED BY <2>1, <3>1, <4>1 DEF Covered
    <3> QED BY <3>2, <3>4, <3>5 DEF LiveInv
  <2>5. CASE /\ on /\ ~spilled
             /\ nodes' \in Nat /\ liveNodes' \in Nat
             /\ nodes' >= kept + carried'
             /\ nodes' >= liveNodes' + kept
    <3>1. LiveTypeOK'
      BY <1>0, <2>1, <2>3, <2>5 DEF LiveTypeOK
    <3>2. HeldIsCharged'
      <4>1. kept' = kept /\ phase' # "item" /\ nodes' >= kept' + carried'
        BY <2>1, <2>5
      <4> QED BY <1>0, <2>3, <4>1 DEF HeldIsCharged
    <3>3. Covered'
      BY <2>1, <2>5 DEF Covered
    <3> QED BY <3>1, <3>2, <3>3 DEF LiveInv
  <2> QED BY <1>4, <2>4, <2>5, EndFacts
<1>5. ASSUME BreakLoop PROVE LiveInv'
  BY <1>0, <1>5 DEF LiveInv, LiveTypeOK, HeldIsCharged, Covered, BreakLoop
<1>6. ASSUME FinishTransform PROVE LiveInv'
  BY <1>0, <1>6 DEF LiveInv, LiveTypeOK, HeldIsCharged, Covered, FinishTransform
<1>7. CASE UNCHANGED liveVars
  BY <1>0, <1>7 DEF LiveInv, LiveTypeOK, HeldIsCharged, Covered, liveVars
<1> QED BY <1>1, <1>2, <1>3, <1>4, <1>5, <1>6, <1>7 DEF LiveNext

\* What the transform holds, for good, for the next item or in this one, is
\* charged: settle never hands back the charge of a node somebody still has.
THEOREM HeldStaysCharged == LiveSpec => []HeldIsCharged
<1>1. LiveInv => HeldIsCharged
  BY DEF LiveInv
<1> QED BY <1>1, LiveInvInit, LiveInvStep, PTL DEF LiveSpec

-----------------------------------------------------------------------------
(* A refusal is latched where it is given, whatever is handed back later.    *)

Latched == nodesHit \in BOOLEAN /\ refused \in BOOLEAN /\ (refused => nodesHit)

RefusalInv == Latched /\ RefusalStands

LEMMA LatchedCount ==
    ASSUME Latched, NEW n, NEW ok \in BOOLEAN, CountNodes(n, ok)
    PROVE  Latched'
<1>1. nodesHit' = (nodesHit \/ ~ok) /\ refused' = (refused \/ ~ok)
  BY DEF CountNodes
<1> QED BY <1>1, Zenon DEF Latched

\* A transform whose builder was refused never returns a result as if it were
\* whole: its end finds the refusal although refunds lowered every counter.
THEOREM RefusalReported == LiveSpec => []RefusalStands
<1>1. LiveInit => RefusalInv
  BY DEF LiveInit, RefusalInv, Latched, RefusalStands
<1>2. RefusalInv /\ [LiveNext]_liveVars => RefusalInv'
  <2> SUFFICES ASSUME RefusalInv, [LiveNext]_liveVars PROVE RefusalInv'
    OBVIOUS
  <2>1. ASSUME NEW n \in ChargeSizes, BuildTemporary(n) PROVE RefusalInv'
    <3>1. Latched'
      BY <2>1, LatchedCount DEF BuildTemporary, RefusalInv
    <3>2. phase' = "item"
      BY <2>1 DEF BuildTemporary
    <3> QED BY <3>1, <3>2 DEF RefusalInv, RefusalStands
  <2>2. ASSUME NEW n \in ChargeSizes, BuildKept(n) PROVE RefusalInv'
    <3>1. Latched'
      BY <2>2, LatchedCount DEF BuildKept, RefusalInv
    <3>2. phase' # "returned"
      BY <2>2 DEF BuildKept
    <3> QED BY <3>1, <3>2 DEF RefusalInv, RefusalStands
  <2>3. ASSUME BeginItem \/ EndItem \/ BreakLoop PROVE RefusalInv'
    <3>1. UNCHANGED <<nodesHit, refused>> /\ phase' # "returned"
      BY <2>3 DEF BeginItem, EndItem, BreakLoop
    <3> QED BY <3>1 DEF RefusalInv, Latched, RefusalStands
  <2>4. ASSUME FinishTransform PROVE RefusalInv'
    <3>1. UNCHANGED <<nodesHit, refused>> /\ (phase' = "returned" => ~nodesHit)
      BY <2>4 DEF FinishTransform, NodesRefused
    <3> QED BY <3>1 DEF RefusalInv, Latched, RefusalStands
  <2>5. CASE UNCHANGED liveVars
    BY <2>5 DEF RefusalInv, Latched, RefusalStands, liveVars
  <2> QED BY <2>1, <2>2, <2>3, <2>4, <2>5 DEF LiveNext
<1>3. RefusalInv => RefusalStands
  BY DEF RefusalInv
<1> QED BY <1>1, <1>2, <1>3, PTL DEF LiveSpec

-----------------------------------------------------------------------------
(* What was built and is not charged was handed back, an allowance at most   *)
(* by an item that ended.                                                    *)

Ended == IF phase = "item" THEN itemsRead - 1 ELSE itemsRead

Built ==
    /\ phase = "item" => itemsRead > 0
    /\ nodesBuilt > 0 => built <= builtNodes /\ built <= nodesBuilt
    /\ nodesBuilt = 0 => /\ built <= nodes + Allowance * Ended
                         /\ built <= MaxNodes + Allowance * itemsRead

BuiltInv == LiveInv /\ Built

LEMMA AllowanceFacts ==
    \A i \in Nat : /\ Allowance * i \in Nat
                   /\ Allowance * (i + 1) = Allowance * i + Allowance
                   /\ Allowance * 0 = 0
BY LiveBudgetAssumption

LEMMA EndedFacts ==
    ASSUME BuiltInv
    PROVE  /\ Ended \in Nat /\ Allowance * Ended \in Nat /\ Allowance * itemsRead \in Nat
           /\ Allowance * Ended <= Allowance * itemsRead
           /\ phase = "item" => Allowance * itemsRead = Allowance * Ended + Allowance
           /\ phase # "item" => Ended = itemsRead
<1>1. itemsRead \in Nat /\ Allowance \in Nat
  BY LiveBudgetAssumption DEF BuiltInv, LiveInv, LiveTypeOK
<1>2. CASE phase = "item"
  <2>1. Ended = itemsRead - 1 /\ itemsRead > 0
    BY <1>2 DEF Ended, BuiltInv, Built
  <2>2. Ended \in Nat /\ itemsRead = Ended + 1
    BY <1>1, <2>1
  <2>3. Allowance * itemsRead = Allowance * Ended + Allowance /\ Allowance * Ended \in Nat
    BY <2>2, AllowanceFacts
  <2> DEFINE e == Allowance * Ended
  <2> HIDE DEF e
  <2>4. e \in Nat /\ e + Allowance \in Nat /\ e <= e + Allowance
    BY <1>1, <2>3 DEF e
  <2> QED BY <1>2, <2>2, <2>3, <2>4 DEF e
<1>3. CASE phase # "item"
  <2>1. Ended = itemsRead
    BY <1>3 DEF Ended
  <2>2. Allowance * itemsRead \in Nat
    BY <1>1, AllowanceFacts
  <2> QED BY <1>1, <1>3, <2>1, <2>2
<1> QED BY <1>2, <1>3

LEMMA BuiltCount ==
    ASSUME BuiltInv, NEW n \in ChargeSizes, NEW ok \in BOOLEAN, CountNodes(n, ok),
           UNCHANGED <<nodesBuilt, phase, itemsRead>>
    PROVE  Built'
<1>1. n \in Nat /\ n > 0
  BY ChargeType
<1>2. /\ nodes' = nodes + n /\ builtNodes' \in Nat /\ built' \in Nat
      /\ built' = IF ok THEN built + n ELSE built
      /\ ok => nodes' <= MaxNodes
      /\ nodesBuilt > 0 => (ok => builtNodes' = builtNodes + n /\ builtNodes' <= nodesBuilt)
      /\ builtNodes' >= builtNodes
  BY <1>1, CountFacts DEF BuiltInv, LiveInv
<1>3. /\ nodes \in Nat /\ built \in Nat /\ builtNodes \in Nat /\ nodesBuilt \in Nat
      /\ MaxNodes \in Nat
  BY LiveBudgetAssumption DEF BuiltInv, LiveInv, LiveTypeOK
<1> DEFINE e == Allowance * Ended
           t == Allowance * itemsRead
<1>4. e \in Nat /\ t \in Nat /\ e <= t
  BY EndedFacts
<1>5. Allowance * Ended' = e /\ Allowance * itemsRead' = t /\ nodesBuilt' = nodesBuilt
  BY DEF Ended
<1>6. /\ nodesBuilt > 0 => built <= builtNodes /\ built <= nodesBuilt
      /\ nodesBuilt = 0 => built <= nodes + e /\ built <= MaxNodes + t
  BY DEF BuiltInv, Built
<1> HIDE DEF e, t
<1>7. nodesBuilt > 0 => built' <= builtNodes' /\ built' <= nodesBuilt
  <2>1. CASE ok
    BY <1>1, <1>2, <1>3, <1>6, <2>1
  <2>2. CASE ~ok
    <3>1. built' = built
      BY <1>2, <2>2
    <3> QED BY <1>2, <1>3, <1>6, <3>1
  <2> QED BY <2>1, <2>2
<1>8. nodesBuilt = 0 => built' <= nodes' + e /\ built' <= MaxNodes + t
  <2>1. CASE ok
    BY <1>1, <1>2, <1>3, <1>4, <1>6, <2>1
  <2>2. CASE ~ok
    <3>1. built' = built
      BY <1>2, <2>2
    <3> QED BY <1>1, <1>2, <1>3, <1>4, <1>6, <3>1
  <2> QED BY <2>1, <2>2
<1>9. phase' = "item" => itemsRead' > 0
  BY DEF BuiltInv, Built
<1> QED BY <1>5, <1>7, <1>8, <1>9 DEF Built

LEMMA BuiltStep == BuiltInv /\ [LiveNext]_liveVars => Built'
<1> SUFFICES ASSUME BuiltInv, [LiveNext]_liveVars PROVE Built'
  OBVIOUS
<1>0. /\ nodes \in Nat /\ built \in Nat /\ itemsRead \in Nat /\ Allowance \in Nat
      /\ nodesBuilt \in Nat
  BY LiveBudgetAssumption DEF BuiltInv, LiveInv, LiveTypeOK
<1> DEFINE e == Allowance * Ended
           t == Allowance * itemsRead
<1>1. /\ e \in Nat /\ t \in Nat /\ e <= t
      /\ phase = "item" => t = e + Allowance
      /\ phase # "item" => Ended = itemsRead
  BY EndedFacts
<1>2. /\ nodesBuilt > 0 => built <= builtNodes /\ built <= nodesBuilt
      /\ nodesBuilt = 0 => built <= nodes + e /\ built <= MaxNodes + t
  BY DEF BuiltInv, Built
<1>3. ASSUME NEW n \in ChargeSizes, BuildTemporary(n) PROVE Built'
  BY <1>3, BuiltCount DEF BuildTemporary
<1>4. ASSUME NEW n \in ChargeSizes, BuildKept(n) PROVE Built'
  BY <1>4, BuiltCount DEF BuildKept
<1>5. ASSUME BeginItem PROVE Built'
  <2>1. /\ phase = "between" /\ phase' = "item" /\ itemsRead' = itemsRead + 1
        /\ UNCHANGED <<nodesBuilt, nodes, builtNodes, built>>
    BY <1>5 DEF BeginItem
  <2>2. Ended' = itemsRead /\ Ended = itemsRead
    <3>1. Ended' = itemsRead' - 1 /\ itemsRead' = itemsRead + 1
      BY <2>1 DEF Ended
    <3>2. \A i \in Nat : \A j, k : j = i + 1 /\ k = j - 1 => k = i
      OBVIOUS
    <3>3. Ended' = itemsRead
      BY <1>0, <3>1, <3>2
    <3>4. Ended = itemsRead
      BY <2>1 DEF Ended
    <3> QED BY <3>3, <3>4
  <2>3. Allowance * Ended' = e /\ Allowance * itemsRead' = e + Allowance /\ t = e
    BY <1>0, <2>1, <2>2, AllowanceFacts
  <2> HIDE DEF e, t
  <2>4. nodesBuilt = 0 => built <= MaxNodes + (e + Allowance)
    <3>1. MaxNodes \in Nat
      BY LiveBudgetAssumption
    <3> QED BY <1>0, <1>1, <1>2, <2>3, <3>1
  <2>5. itemsRead' > 0
    BY <1>0, <2>1
  <2> QED BY <1>2, <2>1, <2>3, <2>4, <2>5 DEF Built
<1>6. ASSUME EndItem PROVE Built'
  <2>1. /\ phase = "item" /\ phase' = "between"
        /\ UNCHANGED <<nodesBuilt, builtNodes, itemsRead, built>>
    BY <1>6 DEF EndItem
  <2>2. nodesBuilt = 0 => nodes <= nodes' + Allowance /\ nodes' \in Nat
    <3>1. CASE nodes' = nodes
      BY <1>0, <3>1
    <3>2. CASE nodes' \in Nat /\ (nodesBuilt = 0 => nodes <= nodes' + Allowance)
      BY <3>2
    <3> QED BY <1>6, <3>1, <3>2, EndFacts DEF BuiltInv
  <2>3. Ended' = itemsRead
    BY <2>1 DEF Ended
  <2>4. Allowance * Ended' = t /\ Allowance * itemsRead' = t
    BY <2>1, <2>3
  <2> HIDE DEF e, t
  <2>5. nodesBuilt = 0 => built <= nodes' + t
    BY <1>0, <1>1, <1>2, <2>1, <2>2
  <2> QED BY <1>2, <2>1, <2>4, <2>5 DEF Built
<1>7. ASSUME BreakLoop PROVE Built'
  <2>1. /\ phase = "item" /\ phase' = "broke"
        /\ UNCHANGED <<nodesBuilt, nodes, builtNodes, itemsRead, built>>
    BY <1>7 DEF BreakLoop
  <2>2. Allowance * Ended' = t /\ Allowance * itemsRead' = t
    BY <2>1 DEF Ended
  <2> HIDE DEF e, t
  <2>3. nodesBuilt = 0 => built <= nodes + t
    BY <1>0, <1>1, <1>2
  <2> QED BY <1>2, <2>1, <2>2, <2>3 DEF Built
<1>8. ASSUME FinishTransform PROVE Built'
  <2>1. /\ phase # "item" /\ phase' # "item"
        /\ UNCHANGED <<nodesBuilt, nodes, builtNodes, itemsRead, built>>
    BY <1>8 DEF FinishTransform
  <2>2. Ended' = Ended
    BY <2>1 DEF Ended
  <2> QED BY <2>1, <2>2 DEF BuiltInv, Built
<1>9. CASE UNCHANGED liveVars
  BY <1>9 DEF BuiltInv, Built, Ended, liveVars
<1> QED BY <1>3, <1>4, <1>5, <1>6, <1>7, <1>8, <1>9 DEF LiveNext

\* What a transform builds is bounded: by the total it was given, or by the
\* bound and one allowance for each item of the loop it read.
THEOREM BuiltBounded == LiveSpec => []TotalBounded
<1>1. LiveInit => BuiltInv
  <2> SUFFICES ASSUME LiveInit PROVE Built
    BY LiveInvInit DEF BuiltInv
  <2>1. built = 0 /\ nodes = 0 /\ builtNodes = 0 /\ Ended = 0 /\ itemsRead = 0 /\ phase = "between"
    BY DEF LiveInit, Ended
  <2>2. nodesBuilt \in Nat /\ MaxNodes \in Nat /\ Allowance * 0 = 0
    BY LiveBudgetAssumption, AllowanceFacts DEF LiveInit
  <2> QED BY <2>1, <2>2 DEF Built
<1>2. BuiltInv /\ [LiveNext]_liveVars => BuiltInv'
  BY BuiltStep, LiveInvStep DEF BuiltInv
<1>3. BuiltInv => TotalBounded
  <2> SUFFICES ASSUME BuiltInv PROVE TotalBounded
    OBVIOUS
  <2>1. nodesBuilt \in Nat
    BY LiveBudgetAssumption DEF BuiltInv, LiveInv, LiveTypeOK
  <2>2. nodesBuilt = 0 \/ nodesBuilt > 0
    BY <2>1
  <2> QED BY <2>1, <2>2 DEF BuiltInv, Built, TotalBounded
<1> QED BY <1>1, <1>2, <1>3, PTL DEF LiveSpec

\* The three together, as the runs check them: what a streamed loop was refused,
\* what it is charged and what it builds.
THEOREM BudgetIsKept == LiveSpec => []BudgetKept
BY HeldStaysCharged, RefusalReported, BuiltBounded, PTL DEF BudgetKept
=================================================================================
