--------------------------------- MODULE MapTrie ---------------------------------
(***************************************************************************)
(* The maps of the data model (xdm/maparray.go): immutable, and kept in a  *)
(* trie over the digits of the keys' hashes (xdm/hamt.go) whose nodes maps *)
(* share.  An operation copies the nodes on the path it changes, except    *)
(* that a builder writes in place through the nodes that carry its token.  *)
(*                                                                         *)
(* A hash is a sequence of the digits the trie tells keys apart by, and at *)
(* its end the bits it does not look at: 64 bits are twelve digits of five *)
(* and four bits more.  Collision nodes and entries do not change once     *)
(* made, so they are values; nodes are the cells of a heap.                *)
(***************************************************************************)
EXTENDS Naturals, Sequences, FiniteSets, TLC
LOCAL INSTANCE SequencesExt

CONSTANTS
    Keys,          \* canonical keys
    HashOf,        \* the digits of a key's hash
    Tokens,        \* what the allocation of a builder's token may return
    MaxMaps,       \* bound on the maps kept
    MaxWrites      \* bound on the operations

ASSUME MapTrieAssumption ==
    /\ Tokens \subseteq Nat \ {0}
    /\ \A k, l \in Keys : Len(HashOf[k]) = Len(HashOf[l]) /\ Len(HashOf[k]) > 1
    /\ MaxMaps \in Nat /\ MaxWrites \in Nat

VARIABLES
    heap,       \* the nodes: their slots by digit, and the token they carry
    maps,       \* the maps handed out
    builder,    \* the map under construction, and its token
    writes      \* how many operations were made; their values are told apart by it

trieVars == <<heap, maps, builder, writes>>

NoNode == 0
NoToken == 0
NoSlot == [kind |-> "none"]
LeafSlot(e) == [kind |-> "leaf", entry |-> e]
CollisionSlot(h, es) == [kind |-> "collision", hash |-> h, entries |-> es]
NodeSlot(id) == [kind |-> "node", id |-> id]

\* hamtDepth: the level at which the hash is spent.
SpentAt(h) == Len(h) - 1
Digit(k, level) == HashOf[k][level + 1]

\* A map.  Two fields are history: the entries it stands for in the order of their
\* insertion, what the operations are specified to give, and whether it, or a map it
\* was made from, was lent to a builder that could write in its nodes.
MapValue(root, size, nextSeq, stands, lent) ==
    [root |-> root, size |-> size, nextSeq |-> nextSeq, stands |-> stands, lent |-> lent]

EmptyMap == MapValue(NoNode, 0, 0, <<>>, FALSE)
NoBuilder == [map |-> EmptyMap, token |-> NoToken, live |-> FALSE]

-----------------------------------------------------------------------------
(* The trie. *)

NewNode(hp, slots, token) == [heap |-> Append(hp, [slots |-> slots, edit |-> token]),
                            id |-> Len(hp) + 1]

\* Mutant: a node is written in place by anybody.
WriteInPlace(hp, id, digit, slot, token) ==
    [heap |-> [hp EXCEPT ![id].slots = (digit :> slot) @@ @], id |-> id]

\* mutable, and the write that follows it.
WriteSlot(hp, id, digit, slot, token) ==
    IF token # NoToken /\ hp[id].edit = token
    THEN [heap |-> [hp EXCEPT ![id].slots = (digit :> slot) @@ @], id |-> id]
    ELSE NewNode(hp, (digit :> slot) @@ hp[id].slots, token)

\* hamtCollision.put.
PutCollision(c, e) ==
    IF \E i \in DOMAIN c.entries : c.entries[i].key = e.key
    THEN LET i == CHOOSE i \in DOMAIN c.entries : c.entries[i].key = e.key
         IN  [slot |-> [c EXCEPT !.entries[i] = [e EXCEPT !.seq = c.entries[i].seq]],
              added |-> FALSE]
    ELSE [slot |-> [c EXCEPT !.entries = Append(@, e)], added |-> TRUE]

\* hamtMerge: a slot and an entry whose hashes agree so far.
RECURSIVE TrieMerge(_, _, _, _, _)
TrieMerge(hp, old, e, level, token) ==
    LET h == HashOf[e.key]
        oldHash == IF old.kind = "leaf" THEN HashOf[old.entry.key] ELSE old.hash
        od == oldHash[level + 1]
        nd == h[level + 1]
        entries == IF old.kind = "leaf" THEN <<old.entry>> ELSE old.entries
    IN  IF level = SpentAt(h)
        THEN [heap |-> hp, slot |-> CollisionSlot(h, Append(entries, e))]
        ELSE IF od = nd
        THEN LET below == TrieMerge(hp, old, e, level + 1, token)
                 node == NewNode(below.heap, nd :> below.slot, token)
             IN  [heap |-> node.heap, slot |-> NodeSlot(node.id)]
        ELSE LET node == NewNode(hp, od :> old @@ nd :> LeafSlot(e), token)
             IN  [heap |-> node.heap, slot |-> NodeSlot(node.id)]

\* hamtNode.put.
RECURSIVE TriePut(_, _, _, _, _)
TriePut(hp, id, e, level, token) ==
    LET digit == Digit(e.key, level)
        s == hp[id].slots[digit]
        Written(h2, slot, added) ==
            LET w == WriteSlot(h2, id, digit, slot, token)
            IN  [heap |-> w.heap, id |-> w.id, added |-> added]
        Merged == LET m == TrieMerge(hp, s, e, level + 1, token) IN Written(m.heap, m.slot, TRUE)
    IN  IF id = NoNode
        THEN LET node == NewNode(hp, digit :> LeafSlot(e), token)
             IN  [heap |-> node.heap, id |-> node.id, added |-> TRUE]
        ELSE IF digit \notin DOMAIN hp[id].slots
        THEN Written(hp, LeafSlot(e), TRUE)
        ELSE CASE s.kind = "leaf" ->
                    IF s.entry.key = e.key
                    THEN Written(hp, LeafSlot([e EXCEPT !.seq = s.entry.seq]), FALSE)
                    ELSE Merged
               [] s.kind = "collision" ->
                    IF s.hash = HashOf[e.key]
                    THEN LET c == PutCollision(s, e) IN Written(hp, c.slot, c.added)
                    ELSE Merged
               [] s.kind = "node" ->
                    LET below == TriePut(hp, s.id, e, level + 1, token)
                    IN  Written(below.heap, NodeSlot(below.id), below.added)

\* hamtNode.get.
RECURSIVE TrieGet(_, _, _, _)
TrieGet(hp, id, key, level) ==
    IF id = NoNode \/ Digit(key, level) \notin DOMAIN hp[id].slots THEN {}
    ELSE LET s == hp[id].slots[Digit(key, level)]
             At(c) == {i \in DOMAIN c : c[i].key = key /\ \A j \in 1 .. i - 1 : c[j].key # key}
         IN  CASE s.kind = "leaf" -> {e \in {s.entry} : e.key = key}
               [] s.kind = "collision" -> {s.entries[i] : i \in At(s.entries)}
               [] s.kind = "node" -> TrieGet(hp, s.id, key, level + 1)

Without(es, key) == SelectSeq(es, LAMBDA e : e.key # key)

\* A node left with a single leaf is replaced by that leaf, below the root.
Collapsed(slots, level) ==
    /\ Cardinality(DOMAIN slots) = 1 /\ level > 0
    /\ \A d \in DOMAIN slots : slots[d].kind = "leaf"

\* hamtNode.remove.
RECURSIVE TrieRemove(_, _, _, _)
TrieRemove(hp, id, key, level) ==
    LET digit == Digit(key, level)
        slots == hp[id].slots
        s == slots[digit]
        unchanged == [heap |-> hp, slot |-> NodeSlot(id), removed |-> FALSE]
        Put1(h2, slot) ==
            LET node == NewNode(h2, (digit :> slot) @@ slots, NoToken)
            IN  [heap |-> node.heap, slot |-> NodeSlot(node.id), removed |-> TRUE]
        rest == [d \in DOMAIN slots \ {digit} |-> slots[d]]
        Dropped(h2) ==
            IF DOMAIN rest = {} THEN [heap |-> h2, slot |-> NoSlot, removed |-> TRUE]
            ELSE IF Collapsed(rest, level)
            THEN [heap |-> h2, slot |-> rest[CHOOSE d \in DOMAIN rest : TRUE], removed |-> TRUE]
            ELSE LET node == NewNode(h2, rest, NoToken)
                 IN  [heap |-> node.heap, slot |-> NodeSlot(node.id), removed |-> TRUE]
    IN  IF digit \notin DOMAIN slots THEN unchanged
        ELSE CASE s.kind = "leaf" -> IF s.entry.key = key THEN Dropped(hp) ELSE unchanged
               [] s.kind = "collision" ->
                    LET left == Without(s.entries, key)
                    IN  IF left = s.entries THEN unchanged
                        ELSE IF Len(left) = 1 THEN Put1(hp, LeafSlot(left[1]))
                        ELSE Put1(hp, [s EXCEPT !.entries = left])
               [] s.kind = "node" ->
                    LET below == TrieRemove(hp, s.id, key, level + 1)
                    IN  IF ~below.removed THEN unchanged
                        ELSE IF below.slot = NoSlot THEN Dropped(below.heap)
                        ELSE Put1(below.heap, below.slot)

\* hamtNode.walk.
RECURSIVE TrieEntries(_, _)
TrieEntries(hp, id) ==
    IF id = NoNode THEN {}
    ELSE UNION {LET s == hp[id].slots[d]
                IN  CASE s.kind = "leaf" -> {s.entry}
                      [] s.kind = "collision" -> {s.entries[i] : i \in DOMAIN s.entries}
                      [] s.kind = "node" -> TrieEntries(hp, s.id)
                : d \in DOMAIN hp[id].slots}

\* MapItem.ordered.
Listing(m) == SetToSortSeq(TrieEntries(heap, m.root), LAMBDA e, f : e.seq < f.seq)

RECURSIVE NodesOf(_, _)
NodesOf(hp, id) ==
    IF id = NoNode THEN {}
    ELSE {id} \cup UNION {IF s.kind = "node" THEN NodesOf(hp, s.id) ELSE {}
                          : s \in {hp[id].slots[d] : d \in DOMAIN hp[id].slots}}

-----------------------------------------------------------------------------
(* The operations on maps. *)

Stored(stands, key, val) ==
    IF \E i \in DOMAIN stands : stands[i].key = key
    THEN [i \in DOMAIN stands |->
            IF stands[i].key = key THEN [key |-> key, val |-> val] ELSE stands[i]]
    ELSE Append(stands, [key |-> key, val |-> val])

\* What MapItem.Put and MapBuilder.Set make of a map.
Storing(m, key, token) ==
    LET r == TriePut(heap, m.root, [key |-> key, val |-> writes, seq |-> m.nextSeq], 0, token)
        new == IF r.added THEN 1 ELSE 0
    IN  [heap |-> r.heap,
         map |-> MapValue(r.id, m.size + new, m.nextSeq + new, Stored(m.stands, key, writes), m.lent)]

MapTrieInit ==
    /\ heap = <<>> /\ maps = <<EmptyMap>>
    /\ builder = NoBuilder /\ writes = 0

HandOut(m) == /\ Len(maps) < MaxMaps
              /\ maps' = Append(maps, m)

Counted == writes < MaxWrites /\ writes' = writes + 1

\* MapItem.Put.
PutKey(m, key) ==
    LET w == Storing(m, key, NoToken)
    IN  /\ Counted /\ HandOut(w.map) /\ heap' = w.heap
        /\ UNCHANGED builder

\* MapItem.RemoveAll: a call that removes nothing gives the map itself.
RECURSIVE RemoveEach(_, _, _)
RemoveEach(hp, m, keys) ==
    IF keys = <<>> THEN [heap |-> hp, map |-> m]
    ELSE LET r == TrieRemove(hp, m.root, Head(keys), 0)
         IN  IF m.root = NoNode \/ ~r.removed THEN RemoveEach(hp, m, Tail(keys))
             ELSE RemoveEach(r.heap,
                    MapValue(IF r.slot.kind = "node" THEN r.slot.id ELSE NoNode, m.size - 1,
                        m.nextSeq, Without(m.stands, Head(keys)), m.lent),
                    Tail(keys))

RemoveAll(m, keys) ==
    LET r == RemoveEach(heap, m, keys)
    IN  /\ Counted /\ heap' = r.heap
        /\ IF r.map.size = m.size THEN UNCHANGED maps ELSE HandOut(r.map)
        /\ UNCHANGED builder

\* NewMapBuilder, of an empty map, and NewMapBuilderFrom.  The token is the address
\* of a new hamtEdit, which has no size: it may be the address of an earlier one.
NewMapBuilderFrom(m) ==
    /\ ~builder.live
    /\ \E token \in Tokens :
          LET open == {id \in NodesOf(heap, m.root) : heap[id].edit = token}
              Lending(x) == [x EXCEPT !.lent = @ \/ NodesOf(heap, x.root) \cap open # {}]
          IN  /\ builder' = [map |-> Lending(m), token |-> token, live |-> TRUE]
              /\ maps' = [i \in DOMAIN maps |-> Lending(maps[i])]
    /\ Counted
    /\ UNCHANGED heap

\* MapBuilder.Set.
SetKey(key) ==
    LET w == Storing(builder.map, key, builder.token)
    IN  /\ builder.live
        /\ Counted /\ heap' = w.heap
        /\ builder' = [builder EXCEPT !.map = w.map]
        /\ UNCHANGED maps

\* MapBuilder.Build.
BuildMap ==
    /\ builder.live
    /\ HandOut(builder.map)
    /\ builder' = NoBuilder
    /\ UNCHANGED <<heap, writes>>

MapTrieNext ==
    \/ \E i \in DOMAIN maps :
          \/ NewMapBuilderFrom(maps[i])
          \/ \E k \in Keys : PutKey(maps[i], k)
          \/ \E k, l \in Keys : RemoveAll(maps[i], IF k = l THEN <<k>> ELSE <<k, l>>)
    \/ \E k \in Keys : SetKey(k)
    \/ BuildMap

MapTrieSpec == MapTrieInit /\ [][MapTrieNext]_trieVars

IsMap(m) ==
    /\ m.root \in 0 .. Len(heap) /\ m.size <= m.nextSeq
    /\ m.lent \in BOOLEAN /\ (~m.lent => (m.root = NoNode) = (m.size = 0))

MapTrieTypeOK ==
    /\ \A id \in DOMAIN heap :
          /\ heap[id].edit \in Tokens \cup {NoToken}
          /\ heap[id].slots # <<>>
          /\ \A d \in DOMAIN heap[id].slots : heap[id].slots[d].kind \in {"leaf", "collision", "node"}
    /\ \A i \in DOMAIN maps : IsMap(maps[i])
    /\ builder.live => IsMap(builder.map) /\ builder.token \in Tokens
    /\ writes \in 0 .. MaxWrites

-----------------------------------------------------------------------------
MapsInUse == {maps[i] : i \in DOMAIN maps} \cup {m \in {builder.map} : builder.live}

\* A map lists what it stood for when it was made, in the order of insertion.
Lists(m) ==
    /\ m.size = Len(m.stands)
    /\ [i \in 1 .. Len(Listing(m)) |->
          [key |-> Listing(m)[i].key, val |-> Listing(m)[i].val]] = m.stands

\* What it stood for is what it finds by the key, and nothing else.
Finds(m) ==
    \A k \in Keys :
        {e.val : e \in TrieGet(heap, m.root, k, 0)}
            = {m.stands[i].val : i \in {j \in DOMAIN m.stands : m.stands[j].key = k}}

\* A map lists and finds what it stood for, whatever was made from it or from a map
\* it shares nodes with: put, removed, or built in place over it.  A map that does not
\* is one with nodes that carried the token of a builder seeded with them, or was made
\* from such a map.
MapsAnswer == \A m \in MapsInUse : ~m.lent => Lists(m) /\ Finds(m)

\* NewMapBuilderFrom: "m itself is never written", and Build: no later builder will
\* match the token its nodes carry.  So no map is left out.
NeverWritten == \A m \in MapsInUse : Lists(m) /\ Finds(m)

=================================================================================
