------------------------------- MODULE LiveBudget -------------------------------
(***************************************************************************)
(* The budget of result nodes of one transform (xpath/context.go,          *)
(* countNodes) while it runs a streamed loop (xslt/livebudget.go).  The    *)
(* counter only rises, except that an item of the loop hands back, when it *)
(* ends, what it built and does not hold; a total that no refund lowers    *)
(* bounds what is built if the caller asks for one.  A builder that is     *)
(* refused latches the refusal and drops what it was given, and the        *)
(* transform goes on: only its end asks whether anything was refused.      *)
(*                                                                         *)
(* The budget of string bytes is kept and handed back by the same code     *)
(* over a second pair of counters, and is left out.                        *)
(***************************************************************************)
EXTENDS Integers

CONSTANTS
    MaxNodes,      \* limits.nodes
    Totals,        \* the choices of limits.nodesBuilt, 0 for none
    Allowance,     \* liveNodeAllowance, 4096 in the code
    ChargeSizes,   \* how many nodes are charged at once
    MaxItemsRead,  \* bound on the items of the loop
    MaxBuilt       \* bound on the nodes charged

ASSUME LiveBudgetAssumption ==
    /\ MaxNodes \in Nat /\ Allowance \in Nat
    /\ Totals \subseteq Nat
    /\ ChargeSizes \subseteq Nat \ {0}
    /\ MaxItemsRead \in Nat /\ MaxBuilt \in Nat

VARIABLES
    nodesBuilt,    \* limits.nodesBuilt
    nodes,         \* Env.nodes
    builtNodes,    \* limits.builtNodes
    nodesHit,      \* limits.nodesHit
    on,            \* liveLoop.on: the runtime records no copies
    liveNodes,     \* liveLoop.nodes: what of the counter stands for the
                   \* state carried on
    n0,            \* liveLoop.n0: the counter when the item began
    spilled,       \* the item wrote output or forced a global variable
    phase,         \* where the transform is
    itemsRead,     \* how many items the loop began
    built,         \* the nodes built, all told
    fresh,         \* those of them the item built and may drop or carry on
    kept,          \* those held for good: output and global variables
    carried,       \* those the iteration parameters hold
    refused        \* a builder was refused

liveVars == <<nodesBuilt, nodes, builtNodes, nodesHit, on, liveNodes, n0, spilled,
              phase, itemsRead, built, fresh, kept, carried, refused>>

LiveTypeOK ==
    /\ nodesBuilt \in Totals
    /\ nodes \in Nat /\ builtNodes \in Nat
    /\ nodesHit \in BOOLEAN /\ on \in BOOLEAN
    /\ liveNodes \in Nat /\ n0 \in Nat
    /\ spilled \in BOOLEAN /\ refused \in BOOLEAN
    /\ phase \in {"between", "item", "broke", "returned", "failed"}
    /\ itemsRead \in Nat
    /\ built \in Nat /\ fresh \in Nat /\ kept \in Nat /\ carried \in Nat

LiveInit ==
    /\ nodesBuilt \in Totals
    /\ nodes = 0 /\ builtNodes = 0 /\ nodesHit = FALSE
    /\ on \in BOOLEAN
    /\ liveNodes = 0 /\ n0 = 0 /\ spilled = FALSE
    /\ phase = "between" /\ itemsRead = 0
    /\ built = 0 /\ fresh = 0 /\ kept = 0 /\ carried = 0
    /\ refused = FALSE

-----------------------------------------------------------------------------
larger(m, n) == IF m > n THEN m ELSE n
smaller(m, n) == IF m < n THEN m ELSE n

\* countNodes: the counter, and the total if one is asked for.  What is refused
\* is charged and not built.
CountNodes(n, ok) ==
    LET inTotal == nodes + n <= MaxNodes /\ nodesBuilt > 0
    IN  /\ nodes' = nodes + n
        /\ builtNodes' = IF inTotal THEN builtNodes + n ELSE builtNodes
        /\ ok = (nodes' <= MaxNodes /\ (inTotal => builtNodes' <= nodesBuilt))
        /\ nodesHit' = (nodesHit \/ ~ok)
        /\ refused' = (refused \/ ~ok)
        /\ built' = IF ok THEN built + n ELSE built

\* Something of the item's is built that only the item refers to.
BuildTemporary(n) ==
    /\ phase = "item" /\ nodes + n <= MaxBuilt
    /\ \E ok \in BOOLEAN :
          CountNodes(n, ok) /\ fresh' = IF ok THEN fresh + n ELSE fresh
    /\ UNCHANGED <<nodesBuilt, on, liveNodes, n0, spilled, phase, itemsRead, kept, carried>>

\* Output is written, in an item or outside the loop, or a global is forced.
BuildKept(n) ==
    /\ phase \in {"between", "item", "broke"} /\ nodes + n <= MaxBuilt
    /\ \E ok \in BOOLEAN :
          /\ CountNodes(n, ok)
          /\ kept' = IF ok THEN kept + n ELSE kept
          /\ spilled' = (spilled \/ ok)
    /\ UNCHANGED <<nodesBuilt, on, liveNodes, n0, phase, itemsRead, fresh, carried>>

\* liveLoop.begin.
BeginItem ==
    /\ phase = "between" /\ itemsRead < MaxItemsRead
    /\ phase' = "item" /\ itemsRead' = itemsRead + 1
    /\ n0' = nodes /\ spilled' = FALSE /\ fresh' = 0
    /\ UNCHANGED <<nodesBuilt, nodes, builtNodes, nodesHit, on, liveNodes, built,
                   kept, carried, refused>>

\* Mutant: what was carried is handed back though it is carried on.
SettleCarried(risen, need) ==
    LET r == IF nodesBuilt # 0 THEN risen + liveNodes ELSE smaller(risen + liveNodes, Allowance)
    IN  [refund |-> r, live |-> smaller(need, risen + liveNodes - r)]

\* settle: what is handed back of what an item built and what stood for the
\* state carried so far, and what stands for it from now on.
Settle(risen, need) ==
    LET pool == risen + liveNodes
        r0 == larger(pool - need, 0)
        r == IF nodesBuilt # 0 THEN r0 ELSE smaller(r0, Allowance)
    IN  [refund |-> r, live |-> smaller(need, pool - r)]

\* liveLoop.end.  The parameters carry on what they carried, or not, and part
\* of what the item built; they may also refer to trees built before the loop,
\* which are measured with them, or hold what cannot be measured.
EndItem ==
    /\ phase = "item"
    /\ \E again \in BOOLEAN, part \in 0 .. fresh, other \in {0, 1}, measured \in BOOLEAN :
          LET on2 == (IF again THEN carried ELSE 0) + part
              s == Settle(nodes - n0, on2 + other)
          IN  /\ carried' = on2
              /\ IF on /\ measured /\ ~spilled
                 THEN /\ nodes' = larger(nodes - s.refund, 0)
                      /\ liveNodes' = s.live
                 ELSE /\ UNCHANGED nodes
                      /\ liveNodes' = IF on THEN 0 ELSE liveNodes
    /\ phase' = "between" /\ fresh' = 0
    /\ UNCHANGED <<nodesBuilt, builtNodes, nodesHit, on, n0, spilled, itemsRead, built,
                   kept, refused>>

\* xsl:break: the loop reads on and does nothing more.
BreakLoop ==
    /\ phase = "item"
    /\ phase' = "broke"
    /\ UNCHANGED <<nodesBuilt, nodes, builtNodes, nodesHit, on, liveNodes, n0, spilled,
                   itemsRead, built, fresh, kept, carried, refused>>

\* NodesRefused.
NodesRefused ==
    \/ nodes > MaxNodes
    \/ nodesBuilt > 0 /\ builtNodes > nodesBuilt
    \/ nodesHit

\* The end of Stylesheet.transform, or of the instruction that polls its builder.
FinishTransform ==
    /\ phase \in {"between", "broke"}
    /\ phase' = IF NodesRefused THEN "failed" ELSE "returned"
    /\ UNCHANGED <<nodesBuilt, nodes, builtNodes, nodesHit, on, liveNodes, n0, spilled,
                   itemsRead, built, fresh, kept, carried, refused>>

LiveNext ==
    \/ \E n \in ChargeSizes : BuildTemporary(n) \/ BuildKept(n)
    \/ BeginItem \/ EndItem \/ BreakLoop
    \/ FinishTransform

LiveSpec == LiveInit /\ [][LiveNext]_liveVars

-----------------------------------------------------------------------------
\* A transform whose builder was refused does not return a result, although the
\* refunds that followed brought every counter back under its bound: it would
\* be cut short at the bound and pass for whole.
RefusalStands == phase = "returned" => ~refused

\* What is held is charged: no item, however it mixes what it builds with what
\* it carries on, hands back the charge of a node that somebody still has.
HeldIsCharged == nodes >= kept + carried + (IF phase = "item" THEN fresh ELSE 0)

\* What is built stays within the total, or else within the bound and one
\* allowance an item.
TotalBounded ==
    built <= IF nodesBuilt > 0 THEN nodesBuilt ELSE MaxNodes + Allowance * itemsRead

\* The budget of a streamed loop: what it refused, what it charges and what it
\* lets through.
BudgetKept == RefusalStands /\ HeldIsCharged /\ TotalBounded

=================================================================================
