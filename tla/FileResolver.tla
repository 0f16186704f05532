---------------------------- MODULE FileResolver ----------------------------
(***************************************************************************)
(* The document cache of xslt.FileResolver: the trees it retains within a  *)
(* count and a byte bound, the table of loads in flight that concurrent    *)
(* callers of one path wait on, and the allowance of entity expansion each *)
(* transform lends the parses it starts.                                   *)
(*                                                                         *)
(* A run is one goroutine using the resolver: a transform calling fn:doc   *)
(* (untracked loads), a compilation loading modules (tracked loads, which  *)
(* need source positions), or a host calling Preload.  A tree is named by  *)
(* the number of the parse that made it, so two trees are one node exactly *)
(* when their numbers are equal.  What a file holds may change between two *)
(* parses: its size is chosen at each.                                     *)
(***************************************************************************)
EXTENDS Integers, Sequences, FiniteSets, Functions

CONSTANTS
    Run,           \* the goroutines that share the resolver
    Path,          \* the files under its roots
    Sizes,         \* the sizes a file may have when it is read
    Expand,        \* the entity expansion each file asks for
    Ceiling,       \* xdm.maxTotalEntityBytes, the allowance of one evaluation
    CacheMax,      \* resolverCacheMax
    CacheMaxBytes, \* resolverCacheMaxBytes
    LoadMax,       \* bound on the calls made
    None           \* no run, no path

ASSUME FileResolverAssumption ==
    /\ None \notin Run \cup Path
    /\ Sizes \subseteq Nat
    /\ Expand \in [Path -> Nat]
    /\ Ceiling \in Nat /\ CacheMaxBytes \in Nat /\ LoadMax \in Nat
    /\ CacheMax \in Nat \ {0}

VARIABLES
    cache,         \* FileResolver.cache: the tree retained for a path
    sizes,         \* FileResolver.sizes: what each entry is charged
    cacheBytes,    \* FileResolver.cacheBytes
    inflight,      \* FileResolver.inflight: the parse under way for a key
    mu,            \* the run in a locked section of several steps, or None
    parses,        \* every parse so far: of which path, with positions or
                   \* not, by which run, whether it is the host's own, and
                   \* how it ended
    pc,            \* where in loadTracked or Preload a run is
    req,           \* the request it makes
    call,          \* the parse it makes or waits for
    result,        \* the size and the outcome of the parse it makes
    joined,        \* the last parse it waited for in this request
    spent,         \* the entity expansion charged to its own allowance
    loads,         \* the calls made so far
    got,           \* history: every tree returned, to whom, for what
    denied,        \* history: every error returned, to whom, from whom
    dropped        \* history: the paths the cache gave up a tree of

cacheVars == <<cache, sizes, cacheBytes>>
runVars == <<req, call, result, joined>>
history == <<got, denied, dropped>>
vars == <<cache, sizes, cacheBytes, inflight, mu, parses, pc, req, call,
          result, joined, spent, loads, got, denied, dropped>>

Key == Path \X BOOLEAN
Outcome == {"ok", "file", "allowance"}
Request == [path : Path, pos : BOOLEAN, own : BOOLEAN]
Tree == 1..Len(parses)

NoRequest == [path |-> None, pos |-> FALSE, own |-> FALSE]

Without(f, x) == [y \in DOMAIN f \ {x} |-> f[y]]
With(f, x, v) == [y \in DOMAIN f \cup {x} |-> IF y = x THEN v ELSE f[y]]

KeyOf(r) == <<req[r].path, req[r].pos>>

\* Mutant: positions are not asked for.
ServesAny(p, pos) == p \in DOMAIN cache

\* A cached tree serves a request that needs no more than it has.
Serves(p, pos) == p \in DOMAIN cache /\ (pos => parses[cache[p]].pos)

Init ==
    /\ cache = << >> /\ sizes = << >> /\ cacheBytes = 0
    /\ inflight = << >>
    /\ mu = None
    /\ parses = << >>
    /\ pc = [r \in Run |-> "idle"]
    /\ req = [r \in Run |-> NoRequest]
    /\ call = [r \in Run |-> 0]
    /\ result = [r \in Run |-> [size |-> 0, end |-> "ok"]]
    /\ joined = [r \in Run |-> 0]
    /\ spent = [r \in Run |-> 0]
    /\ loads = 0
    /\ got = {} /\ denied = {} /\ dropped = {}

-----------------------------------------------------------------------------
(* The end of a call: a tree, or an error and the run whose parse met it.   *)

Return(r, t) ==
    /\ pc' = [pc EXCEPT ![r] = "idle"]
    /\ got' = got \cup {[to |-> r, path |-> req[r].path, pos |-> req[r].pos,
                         tree |-> t, joined |-> joined[r]]}
    /\ UNCHANGED denied

Refuse(r, t, why) ==
    /\ pc' = [pc EXCEPT ![r] = "idle"]
    /\ denied' = denied \cup {[to |-> r, by |-> parses[t].by, why |-> why]}
    /\ UNCHANGED got

(* loadTracked begins. "own" says the parse is charged to the run's own     *)
(* allowance (ResolveDocumentIn, ResolveModuleWith) and not to a fresh one  *)
(* (ResolveDocument, ResolveModule).                                        *)
Load(r, p, pos, own) ==
    /\ pc[r] = "idle"
    /\ loads < LoadMax
    /\ loads' = loads + 1
    /\ pc' = [pc EXCEPT ![r] = "look"]
    /\ req' = [req EXCEPT ![r] = [path |-> p, pos |-> pos, own |-> own]]
    /\ joined' = [joined EXCEPT ![r] = 0]
    /\ UNCHANGED <<cacheVars, inflight, mu, parses, call, result, spent,
                   history>>

\* The locked section at the head of the loop, when the cache answers.
Hit(r) ==
    /\ pc[r] = "look" /\ mu = None
    /\ Serves(req[r].path, req[r].pos)
    /\ Return(r, cache[req[r].path])
    /\ UNCHANGED <<cacheVars, inflight, mu, parses, runVars, spent, loads,
                   dropped>>

\* Someone else is already reading this path.
Join(r) ==
    /\ pc[r] = "look" /\ mu = None
    /\ ~Serves(req[r].path, req[r].pos)
    /\ KeyOf(r) \in DOMAIN inflight
    /\ pc' = [pc EXCEPT ![r] = "wait"]
    /\ call' = [call EXCEPT ![r] = inflight[KeyOf(r)]]
    /\ UNCHANGED <<cacheVars, inflight, mu, parses, req, result, joined,
                   spent, loads, history>>

\* Mutant: a parse under way is not looked for.
StartAgain(r) ==
    /\ pc[r] = "look" /\ mu = None
    /\ ~Serves(req[r].path, req[r].pos)
    /\ parses' = Append(parses, [path |-> req[r].path, pos |-> req[r].pos,
                                 by |-> r, host |-> FALSE, end |-> "open"])
    /\ inflight' = With(inflight, KeyOf(r), Len(parses'))
    /\ call' = [call EXCEPT ![r] = Len(parses')]
    /\ pc' = [pc EXCEPT ![r] = "parse"]
    /\ UNCHANGED <<cacheVars, mu, req, result, joined, spent, loads, history>>

\* Nobody is: announce the parse and leave the lock to make it.
Start(r) ==
    /\ pc[r] = "look" /\ mu = None
    /\ ~Serves(req[r].path, req[r].pos)
    /\ KeyOf(r) \notin DOMAIN inflight
    /\ parses' = Append(parses, [path |-> req[r].path, pos |-> req[r].pos,
                                 by |-> r, host |-> FALSE, end |-> "open"])
    /\ inflight' = With(inflight, KeyOf(r), Len(parses'))
    /\ call' = [call EXCEPT ![r] = Len(parses')]
    /\ pc' = [pc EXCEPT ![r] = "parse"]
    /\ UNCHANGED <<cacheVars, mu, req, result, joined, spent, loads, history>>

(* parseUncached, under no lock. A parse charges what it expands before it  *)
(* may fail for another reason, and one that expands nothing charges        *)
(* nothing. Past the ceiling the exact spend no longer matters, so it stops *)
(* there.                                                                   *)
Charged(r, n) == n + IF req[r].own THEN spent[r] ELSE 0

Affords(r, n) == n > 0 => Charged(r, n) <= Ceiling

Spend(r, n) ==
    spent' = IF req[r].own
             THEN [spent EXCEPT ![r] = IF Charged(r, n) > Ceiling
                                       THEN Ceiling + 1 ELSE Charged(r, n)]
             ELSE spent

Parsed(r, size, end) ==
    /\ pc' = [pc EXCEPT ![r] = "publish"]
    /\ result' = [result EXCEPT ![r] = [size |-> size, end |-> end]]
    /\ UNCHANGED <<cacheVars, inflight, mu, parses, req, call, joined, loads,
                   history>>

Parse(r, size) ==
    /\ pc[r] = "parse"
    /\ Affords(r, Expand[req[r].path])
    /\ Spend(r, Expand[req[r].path])
    /\ Parsed(r, size, "ok")

ExpandTooMuch(r) ==
    /\ pc[r] = "parse"
    /\ ~Affords(r, Expand[req[r].path])
    /\ Spend(r, Expand[req[r].path])
    /\ Parsed(r, 0, "allowance")

\* The file is missing, too large, outside the roots or not well-formed, which
\* may be found after part of it was expanded.
ReadFails(r) ==
    /\ pc[r] = "parse"
    /\ \E n \in 0..Expand[req[r].path] : Affords(r, n) /\ Spend(r, n)
    /\ Parsed(r, 0, "file")

-----------------------------------------------------------------------------
(* publish, with the lock held throughout.                                  *)

\* Mutant: room is always made.
RejectedNever(size) == FALSE

\* It fits alone, but not beside what the cache holds.
Rejected(size) == size <= CacheMaxBytes /\ cacheBytes + size > CacheMaxBytes

MustEvict(size) ==
    /\ DOMAIN cache # {}
    /\ \/ Cardinality(DOMAIN cache) >= CacheMax
       \/ cacheBytes + size > CacheMaxBytes

\* Mutant: an entry's charge is not given back.
ForgetNoRefund(p) ==
    /\ cache' = Without(cache, p)
    /\ sizes' = Without(sizes, p)
    /\ UNCHANGED cacheBytes

\* An entry leaves and gives its charge back.
Forget(p) ==
    /\ cache' = Without(cache, p)
    /\ sizes' = Without(sizes, p)
    /\ cacheBytes' = IF p \in DOMAIN sizes THEN cacheBytes - sizes[p]
                     ELSE cacheBytes

\* Two loads made the trees, both for modules or both for documents.
SameKind(t, u) ==
    /\ ~parses[t].host /\ ~parses[u].host
    /\ parses[t].pos = parses[u].pos

\* The lock is taken and the entry that is replaced is removed. The history
\* counts it as given up when a tree of another kind takes its place.
Publish(r) ==
    LET p == req[r].path
        replaces == p \in DOMAIN cache /\ ~SameKind(cache[p], call[r])
    IN  /\ pc[r] \in {"publish", "preload"} /\ mu = None
        /\ result[r].end = "ok"
        /\ mu' = r
        /\ pc' = [pc EXCEPT ![r] = IF pc[r] = "publish" THEN "admit"
                                   ELSE "admitPreload"]
        /\ Forget(p)
        /\ dropped' = IF replaces THEN dropped \cup {p} ELSE dropped
        /\ UNCHANGED <<inflight, parses, runVars, spent, loads, got, denied>>

Admitting(r) == pc[r] \in {"admit", "admitPreload"}

\* One round of the eviction loop; Go's map order picks the victim.
Evict(r, victim) ==
    /\ Admitting(r)
    /\ ~Rejected(result[r].size)
    /\ MustEvict(result[r].size)
    /\ victim \in DOMAIN cache
    /\ Forget(victim)
    /\ dropped' = dropped \cup {victim}
    /\ UNCHANGED <<inflight, mu, parses, pc, runVars, spent, loads, got,
                   denied>>

\* Mutants: the path leaves the table and not the key; nothing leaves it.
UnlockByPath(r) ==
    /\ mu' = None
    /\ IF pc[r] = "admitPreload"
       THEN /\ pc' = [pc EXCEPT ![r] = "idle"]
            /\ UNCHANGED inflight
       ELSE /\ pc' = [pc EXCEPT ![r] = "close"]
            /\ inflight' = Without(inflight, <<req[r].path, FALSE>>)
    /\ UNCHANGED <<parses, runVars, spent, loads, got, denied>>

UnlockAnnounced(r) ==
    /\ mu' = None
    /\ pc' = [pc EXCEPT ![r] = IF pc[r] = "admitPreload" THEN "idle"
                               ELSE "close"]
    /\ UNCHANGED <<inflight, parses, runVars, spent, loads, got, denied>>

\* The lock is let go; a load also leaves the table of loads in flight.
Unlock(r) ==
    /\ mu' = None
    /\ IF pc[r] = "admitPreload"
       THEN /\ pc' = [pc EXCEPT ![r] = "idle"]
            /\ UNCHANGED inflight
       ELSE /\ pc' = [pc EXCEPT ![r] = "close"]
            /\ inflight' = Without(inflight, KeyOf(r))
    /\ UNCHANGED <<parses, runVars, spent, loads, got, denied>>

Reject(r) ==
    /\ Admitting(r)
    /\ Rejected(result[r].size)
    /\ dropped' = dropped \cup {req[r].path}
    /\ UNCHANGED cacheVars
    /\ Unlock(r)

Store(r) ==
    /\ Admitting(r)
    /\ ~Rejected(result[r].size)
    /\ ~MustEvict(result[r].size)
    /\ cache' = With(cache, req[r].path, call[r])
    /\ sizes' = With(sizes, req[r].path, result[r].size)
    /\ cacheBytes' = cacheBytes + result[r].size
    /\ UNCHANGED dropped
    /\ Unlock(r)

\* A failed parse publishes nothing.
Abandon(r) ==
    /\ pc[r] = "publish" /\ mu = None
    /\ result[r].end # "ok"
    /\ inflight' = Without(inflight, KeyOf(r))
    /\ pc' = [pc EXCEPT ![r] = "close"]
    /\ UNCHANGED <<cacheVars, mu, parses, runVars, spent, loads, history>>

\* The outcome is set, done is closed, and the load returns.
Close(r) ==
    /\ pc[r] = "close"
    /\ parses' = [parses EXCEPT ![call[r]].end = result[r].end]
    /\ IF result[r].end = "ok" THEN Return(r, call[r])
       ELSE Refuse(r, call[r], result[r].end)
    /\ UNCHANGED <<cacheVars, inflight, mu, runVars, spent, loads, dropped>>

\* A waiter shares the error, and looks again after a success.
Wake(r) ==
    /\ pc[r] = "wait"
    /\ parses[call[r]].end # "open"
    /\ joined' = [joined EXCEPT ![r] = call[r]]
    /\ IF parses[call[r]].end = "ok"
       THEN pc' = [pc EXCEPT ![r] = "look"] /\ UNCHANGED <<got, denied>>
       ELSE Refuse(r, call[r], parses[call[r]].end)
    /\ UNCHANGED <<cacheVars, inflight, mu, parses, req, call, result, spent,
                   loads, dropped>>

\* Mutant: no tree is taken for one.
PreloadNil(r, p, pos) ==
    /\ pc[r] = "idle"
    /\ loads < LoadMax
    /\ loads' = loads + 1
    /\ pc' = [pc EXCEPT ![r] = "preload"]
    /\ req' = [req EXCEPT ![r] = [path |-> p, pos |-> pos, own |-> FALSE]]
    /\ call' = [call EXCEPT ![r] = 0]
    /\ result' = [result EXCEPT ![r] = [size |-> 0, end |-> "ok"]]
    /\ UNCHANGED <<cacheVars, inflight, mu, parses, joined, spent, history>>

\* A tree the host parsed becomes the answer for a path, at no charge.
Preload(r, p, pos) ==
    /\ pc[r] = "idle"
    /\ loads < LoadMax
    /\ loads' = loads + 1
    /\ parses' = Append(parses, [path |-> p, pos |-> pos, by |-> r,
                                 host |-> TRUE, end |-> "ok"])
    /\ pc' = [pc EXCEPT ![r] = "preload"]
    /\ req' = [req EXCEPT ![r] = [path |-> p, pos |-> pos, own |-> FALSE]]
    /\ call' = [call EXCEPT ![r] = Len(parses')]
    /\ result' = [result EXCEPT ![r] = [size |-> 0, end |-> "ok"]]
    /\ UNCHANGED <<cacheVars, inflight, mu, joined, spent, history>>

-----------------------------------------------------------------------------
Step(r) ==
    \/ Hit(r) \/ Join(r) \/ Start(r)
    \/ \E size \in Sizes : Parse(r, size)
    \/ ExpandTooMuch(r) \/ ReadFails(r)
    \/ Publish(r) \/ \E victim \in Path : Evict(r, victim)
    \/ Reject(r) \/ Store(r) \/ Abandon(r) \/ Close(r) \/ Wake(r)

Quiet == \A r \in Run : pc[r] = "idle"

\* Every call allowed has been made and has returned.
Finished == loads = LoadMax /\ Quiet /\ UNCHANGED vars

Next ==
    \/ \E r \in Run :
        \/ \E p \in Path, pos, own \in BOOLEAN : Load(r, p, pos, own)
        \/ \E p \in Path, pos \in BOOLEAN : Preload(r, p, pos)
        \/ Step(r)
    \/ Finished

Spec == Init /\ [][Next]_vars

FairSpec == Spec /\ \A r \in Run : WF_vars(Step(r))
-----------------------------------------------------------------------------
(* Properties.                                                              *)

ParseRec == [path : Path, pos : BOOLEAN, by : Run, host : BOOLEAN,
             end : Outcome \cup {"open"}]

TypeOK ==
    /\ parses \in Seq(ParseRec)
    /\ DOMAIN cache \subseteq Path
    /\ \A p \in DOMAIN cache : cache[p] \in Tree
    /\ DOMAIN sizes \subseteq Path
    /\ \A p \in DOMAIN sizes : sizes[p] \in Nat
    /\ cacheBytes \in Int
    /\ DOMAIN inflight \subseteq Key
    /\ \A k \in DOMAIN inflight : inflight[k] \in Tree
    /\ mu \in Run \cup {None}
    /\ pc \in [Run -> {"idle", "look", "wait", "parse", "publish", "preload",
                       "admit", "admitPreload", "close"}]
    /\ req \in [Run -> Request \cup {NoRequest}]
    /\ call \in [Run -> 0..Len(parses)]
    /\ result \in [Run -> [size : Nat, end : Outcome]]
    /\ joined \in [Run -> 0..Len(parses)]
    /\ spent \in [Run -> 0..Ceiling + 1]
    /\ loads \in 0..LoadMax
    /\ got \subseteq [to : Run, path : Path, pos : BOOLEAN, tree : Tree,
                      joined : 0..Len(parses)]
    /\ denied \subseteq [to : Run, by : Run, why : Outcome]
    /\ dropped \subseteq Path

\* The books are kept: every retained tree is charged once, nothing else is,
\* and cacheBytes is the sum of the charges, through replacements, evictions
\* and refusals alike (publish, and the comment on the field sizes).
Accounting ==
    /\ DOMAIN sizes = DOMAIN cache
    /\ cacheBytes = SumFunction(sizes)

\* The cache never holds more documents than resolverCacheMax nor more bytes
\* than resolverCacheMaxBytes, but that a document larger than the bound may
\* be retained alone; Preload obeys the same bounds.
Bounded ==
    /\ Cardinality(DOMAIN cache) <= CacheMax
    /\ cacheBytes <= CacheMaxBytes \/ Cardinality(DOMAIN cache) = 1

\* The books and the bounds of the cache.
CacheKept == Accounting /\ Bounded

Parsing(r) == pc[r] \in {"parse", "publish", "admit"}

\* A path is parsed by one run at a time for one kind of request, the run the
\* table of loads in flight names; and whoever is waited for still has its
\* outcome to announce, so no waiter is left behind.
SingleFlight ==
    /\ \A r \in Run : Parsing(r) =>
        /\ KeyOf(r) \in DOMAIN inflight
        /\ inflight[KeyOf(r)] = call[r]
    /\ \A q, r \in Run :
        q # r /\ Parsing(q) /\ Parsing(r) => KeyOf(q) # KeyOf(r)
    /\ \A r \in Run : pc[r] = "wait" /\ parses[call[r]].end = "open" =>
        \E q \in Run : /\ Parsing(q) \/ pc[q] = "close"
                       /\ call[q] = call[r]

\* A call is answered with a tree of the file it asked for, and a module that
\* needs positions never with a tree parsed without them, whichever kind of
\* load put the tree in the cache or was waited for (loadTracked's loop).
RightTree ==
    \A g \in got : /\ parses[g.tree].path = g.path
                   /\ parses[g.tree].end \notin {"file", "allowance"}
                   /\ g.pos => parses[g.tree].pos

\* Two calls for one path are answered with the same tree, as fn:doc's node
\* identity requires, unless the cache evicted or refused a tree of that path,
\* or one of another kind took its place there: a module's with positions, a
\* document's without, or the host's own. Single flight leaves no other way
\* for two trees of one document to be handed out.
Identity ==
    \A g, h \in got :
        g.path = h.path /\ g.path \notin dropped => g.tree = h.tree

\* Publishing a document that would fit the byte bound alone costs another
\* document its place only when the cache is full by count: nothing is
\* evicted to make room for bytes (publish).
NothingEvictedForBytes ==
    [][\A r \in Run : \A p \in DOMAIN cache \ DOMAIN cache' :
          Admitting(r) /\ mu = r /\ result[r].size <= CacheMaxBytes
            => Cardinality(DOMAIN cache) >= CacheMax]_vars

\* Every call returns: whoever waits for a parse is woken when it ends.
Answered == \A r \in Run : pc[r] # "idle" ~> pc[r] = "idle"

\* "concurrent callers wait for that one parse rather than each doing their
\* own" (the field inflight): a caller that waited for a parse which succeeded
\* is not answered with a later parse of its own.
WaitersShare ==
    \A g \in got : g.joined # 0 /\ ~g.pos =>
        ~(g.tree > g.joined /\ parses[g.tree].by = g.to)

\* An allowance of entity expansion is scoped to one evaluation, so that the
\* spending of unrelated runs never refuses a document (ResolveDocumentIn).
AllowanceIsOwn == \A d \in denied : d.why = "allowance" => d.by = d.to
=============================================================================
