-------------------------------- MODULE MemoTables --------------------------------
(***************************************************************************)
(* The memo tables of the xpath package that goroutines share.             *)
(*                                                                         *)
(* boundedCache (xpath/cache.go) keeps compiled regular expressions and    *)
(* parsed collations by their text and is emptied when it is full.  What   *)
(* it keeps is followed here as a UCA collation (xpath/collation.go): two  *)
(* callers may parse one URI twice, and the collation they share answers   *)
(* from one buffer, under its own lock.                                    *)
(*                                                                         *)
(* stepMemo (xpath/stepmemo.go) keeps the parents found by a               *)
(* descendant step over one transform's documents, up to a number of       *)
(* items, and never lets an entry go.                                      *)
(***************************************************************************)
EXTENDS Naturals, FiniteSets, FiniteSetsExt

CONSTANTS
    Goroutine,
    Uri,             \* what collations are asked for by
    CachedUri,       \* those no longer than maxCachedKey
    CachedMax,       \* boundedCache.max
    Text,            \* strings whose keys are asked for
    MaxParsed,       \* bound on the collations parsed
    StepKey,         \* namedParentsKey: a document and a name
    FoundBy,         \* how many items each of them finds
    StepMemoMax      \* stepMemoMaxItems, 2^20 in the code

ASSUME MemoTablesAssumption ==
    /\ CachedUri \subseteq Uri
    /\ CachedMax \in Nat \ {0}
    /\ MaxParsed \in Nat /\ StepMemoMax \in Nat
    /\ FoundBy \in [StepKey -> Nat]

Unlocked == "unlocked"

ASSUME UnlockedAssumption == Unlocked \notin Goroutine

Collation == 1 .. MaxParsed

VARIABLES
    items,       \* boundedCache.items: records of a URI and a collation
    itemsMu,     \* who holds boundedCache.mu
    parsed,      \* the collations parsed, numbered
    asks,        \* what a goroutine is about: a step, its URI, its text and
                 \* the collation it has (0 for none)
    keyMu,       \* who holds the lock of each collation
    buf,         \* what is in the buffer of each collation: texts
    keys,        \* the keys handed out: the text asked for and what was copied
    parents,     \* stepMemo.parents: the keys it has
    heldItems    \* stepMemo.held

memoTablesVars == <<items, itemsMu, parsed, asks, keyMu, buf, keys, parents, heldItems>>

AskStep == {"idle", "get", "parse", "put", "insert", "key", "copy"}
Idle == [step |-> "idle", uri |-> CHOOSE u \in Uri : TRUE,
         text |-> CHOOSE x \in Text : TRUE, coll |-> 0]

MemoTablesTypeOK ==
    /\ items \subseteq [uri : Uri, coll : Collation]
    /\ itemsMu \in Goroutine \cup {Unlocked}
    /\ parsed \in 0 .. MaxParsed
    /\ asks \in [Goroutine -> [step : AskStep, uri : Uri, text : Text,
                               coll : 0 .. MaxParsed]]
    /\ keyMu \in [Collation -> Goroutine \cup {Unlocked}]
    /\ buf \in [Collation -> SUBSET Text]
    /\ keys \subseteq [of : Text, bytes : SUBSET Text]
    /\ parents \subseteq StepKey
    /\ heldItems \in Nat

MemoTablesInit ==
    /\ items = {} /\ itemsMu = Unlocked /\ parsed = 0
    /\ asks = [g \in Goroutine |-> Idle]
    /\ keyMu = [c \in Collation |-> Unlocked]
    /\ buf = [c \in Collation |-> {}]
    /\ keys = {}
    /\ parents = {} /\ heldItems = 0

-----------------------------------------------------------------------------
stepVars == <<parents, heldItems>>
Doing(g, step) == asks[g].step = step
Becomes(g, r) == asks' = [asks EXCEPT ![g] = r]

\* A collation-aware function is called: ucaCollationFor, then key.
Ask(g) ==
    /\ Doing(g, "idle")
    /\ \E u \in Uri, x \in Text :
          Becomes(g, [step |-> "get", uri |-> u, text |-> x, coll |-> 0])
    /\ UNCHANGED <<items, itemsMu, parsed, keyMu, buf, keys, stepVars>>

\* boundedCache.Get.
CacheGet(g) ==
    LET hits == {e \in items : e.uri = asks[g].uri}
    IN  /\ Doing(g, "get") /\ itemsMu = Unlocked
        /\ \/ \E e \in hits : Becomes(g, [asks[g] EXCEPT !.step = "key", !.coll = e.coll])
           \/ hits = {} /\ Becomes(g, [asks[g] EXCEPT !.step = "parse"])
        /\ UNCHANGED <<items, itemsMu, parsed, keyMu, buf, keys, stepVars>>

\* parseUCACollation; a URI that is too long is not cached.
ParseCollation(g) ==
    /\ Doing(g, "parse") /\ parsed < MaxParsed
    /\ parsed' = parsed + 1
    /\ Becomes(g, [asks[g] EXCEPT !.coll = parsed + 1,
                      !.step = IF asks[g].uri \in CachedUri THEN "put" ELSE "key"])
    /\ UNCHANGED <<items, itemsMu, keyMu, buf, keys, stepVars>>

\* Mutant: the lock is let go between the check and the insertion.
CacheMakeRoomUnlocks(g) ==
    /\ Doing(g, "put") /\ itemsMu = Unlocked
    /\ items' = IF Cardinality(items) >= CachedMax THEN {} ELSE items
    /\ Becomes(g, [asks[g] EXCEPT !.step = "insert"])
    /\ UNCHANGED <<itemsMu, parsed, keyMu, buf, keys, stepVars>>

\* boundedCache.Put: the table is emptied when it is full, and the entry goes
\* in, under one hold of the lock.
CacheMakeRoom(g) ==
    /\ Doing(g, "put") /\ itemsMu = Unlocked
    /\ itemsMu' = g
    /\ items' = IF Cardinality(items) >= CachedMax THEN {} ELSE items
    /\ Becomes(g, [asks[g] EXCEPT !.step = "insert"])
    /\ UNCHANGED <<parsed, keyMu, buf, keys, stepVars>>

CacheInsert(g) ==
    LET a == asks[g]
    IN  /\ Doing(g, "insert")
        /\ items' = {e \in items : e.uri # a.uri} \cup {[uri |-> a.uri, coll |-> a.coll]}
        /\ itemsMu' = Unlocked
        /\ Becomes(g, [a EXCEPT !.step = "key"])
        /\ UNCHANGED <<parsed, keyMu, buf, keys, stepVars>>

\* ucaCollation.key: the key is made in the collation's buffer ...
KeyFromString(g) ==
    LET c == asks[g].coll
    IN  /\ Doing(g, "key") /\ keyMu[c] = Unlocked
        /\ keyMu' = [keyMu EXCEPT ![c] = g]
        /\ buf' = [buf EXCEPT ![c] = @ \cup {asks[g].text}]
        /\ Becomes(g, [asks[g] EXCEPT !.step = "copy"])
        /\ UNCHANGED <<items, itemsMu, parsed, keys, stepVars>>

\* ... and copied before the buffer is reset.
CopyKey(g) ==
    LET c == asks[g].coll
    IN  /\ Doing(g, "copy")
        /\ keys' = keys \cup {[of |-> asks[g].text, bytes |-> buf[c]]}
        /\ buf' = [buf EXCEPT ![c] = {}]
        /\ keyMu' = [keyMu EXCEPT ![c] = Unlocked]
        /\ Becomes(g, Idle)
        /\ UNCHANGED <<items, itemsMu, parsed, stepVars>>

\* namedParents: under one hold of stepMemo.mu, so that one key is worked out
\* once for one transform; past the bound it is worked out every time.
NamedParents(k) ==
    /\ k \notin parents
    /\ heldItems + FoundBy[k] <= StepMemoMax
    /\ parents' = parents \cup {k}
    /\ heldItems' = heldItems + FoundBy[k]
    /\ UNCHANGED <<items, itemsMu, parsed, asks, keyMu, buf, keys>>

MemoTablesNext ==
    \/ \E g \in Goroutine :
          \/ Ask(g) \/ CacheGet(g) \/ ParseCollation(g)
          \/ CacheMakeRoom(g) \/ CacheInsert(g)
          \/ KeyFromString(g) \/ CopyKey(g)
    \/ \E k \in StepKey : NamedParents(k)

MemoTablesSpec == MemoTablesInit /\ [][MemoTablesNext]_memoTablesVars

-----------------------------------------------------------------------------
\* The table never holds more than its bound, however many goroutines miss at
\* once; a caller that checked and inserted in two steps drove it to 1655
\* entries against 1024 (xpath/cache.go).  It holds one collation a URI.
CacheBounded ==
    /\ Cardinality(items) <= CachedMax
    /\ \A d, e \in items : d.uri = e.uri => d = e

\* A key is the key of the string it was asked for, although the collation and
\* its buffer are shared.
KeyOfItsText == \A k \in keys : k.bytes = {k.of}

\* The step memo counts exactly what it keeps and stays within its bound.
StepMemoAccounting ==
    /\ heldItems = MapThenSumSet(LAMBDA k : FoundBy[k], parents)
    /\ heldItems <= StepMemoMax

\* The tables keep to their bounds and answer with what was asked for.
MemoTablesKept == CacheBounded /\ KeyOfItsText /\ StepMemoAccounting

================================================================================
