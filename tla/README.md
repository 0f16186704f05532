# Verification of go-xml

A TLA+ development of `github.com/knroy/go-xml/v2`: an XML toolkit in Go with an
XDM tree, XPath 3.1, XSLT 3.0, XQuery 3.1, XML Schema 1.1, RELAX NG, DTD
validation and canonical XML. The library starts no goroutine of its own. What is
hard about it is what its callers may do with it: one compiled stylesheet, one
resolver or one schema is shared by any number of goroutines, host functions called
in the middle of a transform may hand parts of that transform to other goroutines,
and a stylesheet may nest, catch, retry and read and write in any order it likes.

This file has the inventory of the system, the plan of the development, a
description of every module, of what each run checks and of what is proved.
Paths are relative to the repository's root. `PROJECT.json` is the index: for each
definition the source lines it models, for each property a mutation of the model
that breaks it, for each hazard the property that watches it.

| Module | What it is | Extends or instantiates |
| --- | --- | --- |
| `EvalLock` | the lock of one evaluation, its lazy variables, its stack of locals | |
| `SerialEval` | what that lock promises, abstractly | instantiated by `EvalLock` |
| `EvalLockProofs` | theorems about `EvalLock`: types, the lock, one evaluator | `EvalLock` |
| `EvalLockSerialProofs` | the rest of its safety, and the refinement of `SerialEval` | `EvalLockProofs` |
| `FileResolver` | the document cache shared by transforms | |
| `DocumentStore` | what the cache promises, abstractly | |
| `FileResolverStore` | the refinement from one to the other | `FileResolver`, instantiates `DocumentStore` |
| `FileResolverProofs` | theorems about `FileResolver` and the refinement | `FileResolverStore`, `FiniteSums` |
| `TransformDocs` | what one transform reads and writes, over a shared store | `DocumentStore` |
| `TransformDocsProofs` | theorems about `TransformDocs` | `TransformDocs` |
| `SideTable` | the namespace nodes of one tree, held weakly | |
| `NameMemo` | the derivatives by name that validations share | |
| `StrippedTrees` | the stripped copies that transforms of a stylesheet share | |
| `NestedCache` | the stylesheets compiled for `fn:transform` | |
| `MemoTables` | the memo tables of the `xpath` package | |
| `CallSites` | the function a call site found last | |
| `SharedTablesProofs` | theorems about the six modules before this line | those, `FiniteSums` |
| `LiveBudget` | the budget of result nodes over a streamed loop | |
| `LiveBudgetProofs` | theorems about `LiveBudget` | `LiveBudget` |
| `RelaxNG` | validation by derivatives | |
| `RelaxNGLanguage` | the documents a pattern denotes | `RelaxNG` |
| `MapTrie` | maps, and the trie they share | |
| `Inclusion` | XInclude: the calls under way and the stack of resources | |
| `IncludedContent` | what a pointer selects, and what an including document means | `Inclusion` |
| `ContentModel` | content models of XML Schema, and validity | |
| `Accumulators` | the values of an accumulator and the arrays they share | |
| `DocumentOrder` | the order in which a walk visits a tree | |
| `Windows` | the window clause of XQuery, and what its windows are | |
| `RuleIndex` | pattern matching, and the index of template rules | |
| `RuleChoice` | which template rule runs, and which the definition means | `RuleIndex` |
| `AlgorithmProofs` | theorems about windows, inclusion, accumulators and the index | `Windows`, `Inclusion`, `Accumulators`, `RuleIndex`, `FiniteSums` |
| `FiniteSums` | least elements and sums over finite sets, for the proofs | |
| `MCLibrary` | the modules from `SideTable` on, side by side | those, or their instances |
| `MCEvalLock`, `MCFileResolver`, `MCTransformDocs`, `MCRelaxNG`, `MCMapTrie`, `MCInclusion`, `MCContentModel`, `MCAccumulators`, `MCWindows`, `MCRuleChoice` | inputs and instances for TLC | the above |

## 1. Inventory

### 1.1 Parts with state that several goroutines share

**The evaluation of one transform** (`xpath/context.go`, `xpath/funcitem.go`,
`internal/xpathleaf/locals.go`, `xslt/runtime.go`, `xslt/transform.go`).
*State*: the runtime of a transform (builders, memo tables, budgets, the stack of
local variables), `EvalLock` (`shared`, `mu`, `owner`, `evaluating`) and one
`LazyVar` for each global.
*Operations*: `newRuntime` evaluates the eager globals; the body evaluates; a host
function is called (`hostCall`) and lets the lock go; a function item, a node's
context or `LookupVar` is used by another goroutine (`enterHost`, `LazyVar.get`) and
takes it; `Share` ends the evaluation's exclusive use.
*Interaction*: host code calls back into the evaluation that called it, from the
same goroutine or from others, and may wait for them.
*Hard*: the lock is taken only once something has escaped, so the first host call
must make a goroutine hold a lock it never took; a variable's evaluation is
suspended half-way whenever it reaches host code; the stack of locals belongs to one
goroutine whatever frames the others push.
*Correct when*: one goroutine uses the runtime at a time; frames find the locals as
they left them; a variable is forced by one goroutine and keeps its value; nobody
waits for ever; the lock is free in the end.

**The document cache** (`xslt/resolver.go`).
*State*: `cache`, `sizes`, `cacheBytes`, the table `inflight`, all under `mu`; the
memo of resolved links.
*Operations*: `ResolveModule(With)`, `ResolveDocument(In)`, `Preload`.
*Interaction*: called by compilations and by `fn:doc` in any transform; lends the
parse the caller's allowance of entity expansion (`xdm/dtd_entities.go`).
*Hard*: the parse is made outside the lock, callers wait for another's parse, trees
with and without positions take each other's place, the byte bound refuses instead
of evicting, an evicted tree may still be in someone's hands.
*Correct when*: two callers of a path hold one tree while the cache keeps the path;
one parse at a time for a key; the accounts add up and the bounds hold; every waiter
is woken; an answer is a tree of the file asked for, with what the caller needs.

**Memo tables.** `xpath/cache.go` (`boundedCache`: regexes, collations),
`xpath/stepmemo.go`, `xpath/callcache.go`, `xslt/fntransformcache.go` (`nestedCache`,
an LRU list of 16 compiled stylesheets with weak keys), `xslt/transform.go`
(`strippedTree`, weakly keyed), `xslt/stylesheet.go` (`stripMemo`),
`xslt/versionmemo.go`, `relaxng/pattern.go` (`nameMemo`: a snapshot read without a
lock, and a pending map), `xsd/parse.go` (compiled content models in a `sync.Map`),
`xsd/component.go` (`chainMemo`), `xdm/sideweak.go` (`sideTable`, swept after each
garbage collection), `xdm/record.go` (`recentNames`), `xdm/typeenv.go`.
*Correct when*: an answer is the one recomputation would give, a bound is a bound
with several callers, and where identity matters (namespace nodes, stripped trees)
there is one object for a key while anyone holds it.

**Budgets** (`xpath/context.go`, `xslt/livebudget.go`, `xdm/dtd_entities.go`):
counters of items, nodes, bytes and expanded text, shared by nested evaluations
(`AdoptBudget`), charged atomically, given back in part by streamed loops.
*Correct when*: a nested evaluation never gets a fresh allowance, what is given back
was charged, and a refusal is not undone by a refund.

### 1.2 Parts with state of one transform

**What a transform reads and writes** (`xslt/readdocs.go`, `xslt/sourcedoc.go`,
`xslt/resultdoc.go`, `xslt/try.go`, `xslt/streamburst.go`).
*State*: `docs` (answers of `fn:doc`), `readDocs`, `writtenDocs`, `resultHrefs`,
`baseURIUsed`, `secondary`.
*Operations*: `fn:doc` and its kin, `xsl:source-document` over a tree or in bursts,
`xsl:result-document`, `xsl:try`, the end of `Transform`.
*Interaction*: documents come from a resolver other transforms use too.
*Hard*: instructions nest and fail half-way, an error is caught and the transform
goes on with what the failed body recorded, a burst is abandoned and the instruction
starts over.
*Correct when*: one call has one tree; no two results have one URI; nothing is both
read and written.

**Instructions and template rules** (`xslt/instructions.go`, `apply.go`,
`ruleindex.go`, `grouping.go`, `merge.go`, `accumulator.go`): sequential. Rule
choice, grouping, merging and accumulators are algorithms with a short definition
in the XSLT specification.

**Builders** (`xdmbuild`): a stack of open elements and a policy.

### 1.3 Parts that compile, parse or compute

| Part | State | Correct when |
| --- | --- | --- |
| `xslt` compiler, packages, streamability | a compilation under `compileMu` | references resolve to the visible component |
| `xpath` parser, optimizer, functions | none | rewriting keeps the value |
| `xquery` | modules and their prologs | as `xpath`; windows partition their input |
| `xdm` parser, entities, XInclude | allowances, stacks of open URIs | loops end, limits hold across inclusions |
| `xdm` tree | arenas, node numbers, indexes | document order, subtree ranges |
| `xdm` maps | persistent trie | a finite map |
| `xsd` | components, automata, identity tables | the automaton accepts the model's language |
| `relaxng` | patterns, derivatives, memo points | a derivative denotes the residual language |
| `dtd`, `c14n`, serialisation, command line | little | text in, text out |

`PROJECT.json` lists every part with its status and the reason.

## 2. Plan

The order is by what can go wrong in ways a test does not reach: first what several
goroutines share and what hands control to the host, then the bookkeeping of a
transform over it, then counters and memo tables, last the pure algorithms.

1. **`EvalLock`**, with the abstract `SerialEval` it implements. *Done.*
   Proved: all of its safety, and the refinement.
2. **`FileResolver`**, with the abstract `DocumentStore`. *Done.* Proved: all of its
   safety, and the refinement.
3. **`TransformDocs`**, composed with `DocumentStore`, so that it is checked against
   what the resolver promises and not against one schedule of it. *Done.* Proved:
   all of its safety.
4. **`LiveBudget`**: the counter of nodes, its refusals and its refunds over a
   streamed loop. *Done.* Proved: all of its safety. Next: the bytes, which the same
   code counts, and the adoption of a budget by a nested transform (section 11).
5. The shared tables, with the garbage collector as an actor where they hold what
   they hold weakly: **`SideTable`**, **`NameMemo`**, **`StrippedTrees`**,
   **`NestedCache`**, **`MemoTables`**, **`CallSites`**. *Done.* Proved: all of
   their safety.
6. **`Inclusion`**: the stack of resources, local copies, fallbacks and the limits.
   *Done.* Proved: its types, the stack and the limit on nesting. What an including
   document means is stated beside it, in `IncludedContent`, and checked.
7. Pure algorithms, each against its definition over small inputs: **`RelaxNG`**,
   **`ContentModel`**, **`MapTrie`**, **`Accumulators`**, **`Windows`**,
   **`RuleChoice`**. *Done.* Proved: `Windows`, `Accumulators` and the index of
   `RuleChoice`. The others are written with recursive operators over data and stay
   with TLC. Next: to model restriction and identity constraints of `xsd`, grouping
   and merging, key indexes, and which component of a package is visible where.

## 3. `EvalLock`

### State and actions

A goroutine is a stack of frames; the innermost says what it is doing: `eval` (the
transform), `call` (a function item or an evaluation with a context the host was
given), `get` (a reference about to look at a variable under the lock), `force`
(the variable's evaluation), `host` (host code). A frame carries what its deferred
functions need: `rel`, the release that `Lock` returned; `ev` and `susp`, what
`yield` saved; `off`, the state of the locals when it began, a history used by
`LocalsConfined`. `pc` says where in a `Lock` or an unlock a goroutine is: the
owner and the mutex are set and cleared in separate steps, as in the code.

| Action | Code |
| --- | --- |
| `CallItem`, `CallReturn` | `enterHost` and its deferred release, `xpath/funcitem.go:168` |
| `ReadVar` | the unlocked read of `LazyVar.get`, `xpath/context.go:1260` |
| `GetVar` | the look under the lock, and the decision to force |
| `ForceOk`, `ForceFail` | the end of `Force`; `evalGlobals.force` keeps a failure |
| `Prime`, `Unbind`, `GlobalsFail`, `BeginBody` | `evalGlobals.prime` and `newRuntime`'s result |
| `EndTransform` | `finishLocals` and `EvalLock.Share` |
| `HostCall`, `HostReturn` | `hostCall` and `yield` |
| `Acquire`, `TakeOwner`, `Unlock` | the steps of `Lock` and of a release |

A host goroutine may do anything the API lets it with what escaped: call items,
read variables, nest them. Only host code that the transform itself called may wait
for the other goroutines (`join`): two pieces of host code waiting for each other
would be the host's own deadlock. Host code that evaluates a raw expression tree, and
values carried from one transform to another, take no lock (`docs/known-gaps.md`)
and are outside the model; a nested `fn:transform` runs under the lock of its caller.

### What is checked

`evallock_safety`: three goroutines, two eager globals, both of which may fail and
one of which is deferred, stacks of four frames. Two host goroutines are needed for
a lock to change hands without the evaluation's part in it; two globals for one to
read another while a third goroutine asks for either; four frames for host code to
call an item that forces a variable that calls host code. Symmetry exchanges the
host's goroutines, which no constant tells apart. Deadlock is not checked there,
since a failed `newRuntime` leaves the lock held (below), but in `evallock_live`.

- `OneEvaluator`: two goroutines never use the runtime at once.
- `LocalsConfined`: a frame finds the stack of locals on or off as it was when the
  frame began, and on only in the transform's own goroutine.
- `ForcedByOne`: a running variable has exactly one unfinished force.
- `HostHoldsNothing`: host code, or a goroutine that is done, holds no lock.
- `Settled`: a value stays, and an unbound variable stays unbound.
- `SerialSpec`: the refinement of `SerialEval`. There the user of the state is a
  variable; here it is the goroutine whose innermost frame evaluates.

`evallock_live`: two goroutines, one deferred global that may fail, three frames.
`Served`: whoever waits for the lock gets it. `FreeAfterReturn`: when the transform
has returned and no call is under way the lock is free. Nothing deadlocks.

*Fairness.* `Acquire` is strongly fair: Go's `sync.Mutex` changes to starvation mode
when a waiter has waited a millisecond, so a lock let go again and again is handed to
it. `TakeOwner` and `Unlock` are a running goroutine's next instructions, hence
weakly fair. The end of a frame at each depth is strongly fair: an evaluation or a
host call ends, however many others it begins meanwhile. That is an assumption about
stylesheets and hosts: one that loops for ever holds the lock for ever, in the code
as in the model. It is stated for each depth and not once, since ending inner frames
again and again must not count for the outer one.

`evallock_failed` (expected violation): when `newRuntime` fails after an eager
global reached host code, `Transform` returns before it has deferred `Share`
(`xslt/transform.go:503`), and the lock is never let go.

### What is proved (`EvalLockProofs`)

For any goroutines, variables and bound on frames:

- `TypeCorrect`: `Spec => []TypeOK`. `TypeOK` is inductive.
- `LockInvariant`: `Spec => []LockInv`, the strengthening of `OneEvaluator`. Once the
  lock is shared, a goroutine that uses the runtime owns it, and the owner holds the
  mutex (`Owned`); whoever is in a `Lock` or an unlock evaluates nothing (`Waiting`);
  a frame whose end lets the lock go began where it was not owned, at the bottom of
  its stack or directly above host code (`Frames`). `OneEvaluator` alone is not
  inductive: nothing in it says that the frame below host code, or below one that
  lets the lock go, does not evaluate before the lock is taken back.
- `OneEvaluatorHolds`: `Spec => []OneEvaluator`.

`EvalLockSerialProofs` goes on from there. Each result adds a part to the
invariant, and the parts together are `EvalInv`:

- `LocalsConfinedHolds`, from `LocalsInv`: whether the stack of locals is on or off
  follows from the frames of the transform's goroutine alone, of which at most one hides
  it and was made while the lock was held; whatever another goroutine evaluates began
  with it off; and while it is on and the lock shared, the transform's goroutine holds it.
- `HostHoldsNothingHolds`, from `HeldInv`: the mutex is held by the owner, or by a
  goroutine in the middle of a `Lock` or an unlock, and the owner evaluates. It rests on
  the order of frames (`Order`): host code is called by a frame that evaluates, and a
  frame that takes no lock begins on one that does.
- `ForcedByOneHolds`, from `ForceInv`: a variable is running exactly while one frame, of
  one goroutine, evaluates it.
- `SettledHolds`: `Spec => Settled`, an action property, from `GlobalsInv`: the global
  that `evalGlobals` has taken up is the one its frame names, and the error it met is of
  an evaluation that has ended.
- `FreeAfterReturnHolds`: `Spec => []FreeAfterReturn` for a stylesheet whose eager
  globals are all deferred, so that `newRuntime` does not fail. Without the
  hypothesis it is false, which is what `evallock_failed` shows.
- `SerialHolds`: `Spec => SerialSpec`. Every step is a step of `SerialEval` or leaves
  its variables alone: the runtime's user is the one goroutine that evaluates
  (`UserRight`), and changes by being let go first, once something has escaped.

Liveness (`Served`) is model-checked only.

## 4. `FileResolver`, `DocumentStore`

### State and actions

A run is a goroutine that uses the resolver. A tree is the number of the parse
that made it, so identity of nodes is equality of numbers. A load is `Load` (the
call), one of `Hit`, `Join`, `Start` (the locked section at the head of
`loadTracked`), `Parse`, `ExpandTooMuch` or `ReadFails` (outside the lock),
`Publish`, `Evict`, `Reject`, `Store` (`publish`, under the lock, the rounds of the
eviction loop one by one with any victim, as Go's map order is unspecified),
`Close` (the outcome is set and the channel closed), or `Wake` for a waiter.
Leaving `inflight` and closing the channel are separate steps, as in the code, and a
caller may come between them. `Preload` is the same `publish` with size 0 and no
parse. `own` says whether a load is charged to its run's allowance
(`ResolveDocumentIn`) or a fresh one (`ResolveDocument`).

`got`, `denied` and `dropped` are histories of answers, of refusals, and of paths of
which the cache gave up a tree. `LoadMax` bounds the calls made, hence the parses.
Paths outside the roots, symbolic links and the text of files are not modelled: a
file may fail to be read at any parse, and its size may be different at each.

### What is checked

`fileresolver_safety`: two runs, three files of size 1 or 3 at each read, room for two
documents and two bytes, three calls. Size 1 fits beside another, size 3 only alone;
the entity expansion of one file fits the allowance once. Three calls are the least
in which a third load finds what two others left behind: a tree evicted, replaced
by another kind, or in flight. Runs and the two files that expand nothing are
symmetric.

- `CacheKept`. `Accounting`: a charge for each cached tree and no other, and
  `cacheBytes` is their sum. `Bounded`: the two bounds, but for one document that
  exceeds them alone.
- `SingleFlight`: one parse at a time for a key, by the run the table names; a
  waiter's parse still has a run that will announce it.
- `RightTree`: answers are trees of the path, successful, with positions if needed.
- `Identity`: one tree for all callers of a path the cache never gave up.
- `NothingEvictedForBytes`: a document that would fit alone costs no other its place
  for bytes.
- `StoreSpec`: the refinement of `DocumentStore`, in which a load is a request, one
  commitment, and a reply. The map (`FileResolverStore`) says when the code
  commits: at `Hit`, at `Store` and at `Reject`. `TransformDocs` relies on it.

`fileresolver_live`: documents of size 2 and room for one, so that loads
evict each other by count. `Answered`: every call returns. *Fairness*: weak fairness of each run's steps, the scheduler's. A run only
waits for the mutex, whose sections are finite, and for a parse, which ends. A run
can look again only after someone else's success, so the bound on calls also bounds
how often it is overtaken: an unbounded stream of callers whose documents
are refused could in principle keep one waiting.

`fileresolver_allowance` (expected violation): a waiter is refused for what another
evaluation had spent.

### What is proved (`FileResolverProofs`)

For any runs, files, sizes and bounds:

- `TypeCorrect`: `TypeOK` with `Registers`, what a run's registers hold where it
  stands (its parse is of its path, made by it, still open; it holds the
  mutex exactly while it admits).
- `OneFlight`: `SingleFlight`, from `Flights`: the table and the parses under way
  are one, in both directions. The second direction, from the table back to a run,
  is what makes it inductive: `Start` sees only the table.
- `RightTreeAlways`: `RightTree`, from `Sound`: what is cached was parsed from the
  path and succeeded, though its end may not be announced yet.
- `OneTree`: `Identity`, from `Kept`: for a path that was not given up, the cache
  holds the tree of every answer and of every load about to return, and no load of
  the same kind is parsing it.

- `CacheKeptHolds`: `CacheKept`, from `Books`: what is charged is what is cached,
  `cacheBytes` is its sum, and the bounds hold, at every step of an admission. The sum is
  the community modules' `SumFunction`; `FiniteSums` proves how it changes when a key
  comes, goes or is charged anew, by a least subset for which it would not.
- `NothingEvictedHolds`: `Spec => NothingEvictedForBytes`, an action property.
- `StoreHolds`: `Spec => StoreSpec`, the refinement, step by step, from all of the above
  and a count of calls, which bounds the parses. `FileResolverStore` names what the map
  is made of. It is taken that no request and no answer equals the value `None`
  (`NoneAssumption`), which TLC evaluates for its model value.

Liveness (`Answered`) is model-checked only.

## 5. `TransformDocs`

### State and actions

The transform is run `Me` of a `DocumentStore` (not of the resolver in detail:
`StoreSpec` is what connects them). `stack` holds the instructions under way;
`pc` whether the transform runs, loads a document, has an error on its way up, or
has ended. A path stands for the absolute URI of the file.

| Action | Code |
| --- | --- |
| `CallDoc`, `DocLoaded`, `DocFails` | `readDocResolver.cached` and `record`, with `checkWrittenThenRead` |
| `OpenBurst`, `CloseBurst`, `FallBack`, `BurstFails` | `sourceDocumentInstr.executeBursts` |
| `OpenResult`, `CloseResult` | `resultDocumentInstr.Execute`: the checks come after the body |
| `OpenTry`, `CloseTry`, `Catch`, `Unwind` | `tryInstr.Execute` |
| `RaiseError` | `fn:error`, or any dynamic error |
| `Finish` | the end of `Transform`, with XTDE1490 for the principal result |
| `Store` | the resolver at work for others |

`DepthMax` bounds the nesting; `Elsewhere` says what the others ask for. `delivered`,
`streamed` and `forgotten` are histories. A burst admits no instruction that opens
anything (`planBursts`), but its select may call `fn:doc`, which is what makes
giving it up delicate.

### What is checked

`transformdocs_safety`: two `fn:doc` calls for one file; three hrefs, two for that
file and one, the empty one, with no URI; nesting of three; a store of one document
and another transform that preloads a second file, so that the first is forgotten
whenever it may be; two trees in all. Three levels are a result in a try in a
result, and any pair in another.

- `DocStable`: a call is always answered with one tree.
- `OneResultPerUri`: results differ in href and in URI, and the empty href does
  not stand beside a principal result.
- `ReadXorWritten`: what is read is not written, except what `unread` forgot.

Expected violations: `transformdocs_xtde1500` (the exception just made:
`unread` drops the record although `fn:doc` in the select has relied on it, and
`docs` answers later calls without a record); `transformdocs_rollback` (the result
documents of a failed `xsl:try` body are still there for the catch).

### What is proved (`TransformDocsProofs`)

For any other transforms, keys, hrefs and nesting, from the inductive invariant
`DocsInv`: `Shape` (types the proofs need), `Answers` (`docs` and the answers given
agree), `Recorded` (`hrefs` and `written` are those of `secondary`), `Ledger` (the
path of any read, and of any burst under way, is in `read` and not in `written`, or
was forgotten): `OneTreePerCall`, `OneResult` and `ReadOrWritten`. `Ledger`
speaks of bursts under way, since a burst is only counted as a read when it
ends, and its record must have kept writers off until then. `TypeCorrect`: `TypeOK`,
with what a step of the store keeps of its own types; it needs to know that a load of
the transform's is the one request of `Me` in the store. `DocsAssumption` keeps the
value `None` apart from paths, keys and requests.

## 6. The `library` run

The parts described in sections 7 to 9 share no state with each other, nor with the
lock, the resolver or the documents of a transform. `MCLibrary` makes one
specification of them: `part` says which of them a behaviour follows, and every
other part stays as `Init` made it. Each keeps its own `Init`, `Next` and
specification; the properties of several modules that answer one question are named
together (`SideTableKept`, `MemoKept`, ...). Deadlock is not checked in this run: a
document has been read, a map is not written any more, and there the part stops.

*Fairness* (`LibraryFairness`) is stated for the part a behaviour is about.
`CollectAll` and `SideSweep`, `CollectTree` and `DropStripped` are weakly fair: a
collection comes in the end and finds what nothing refers to, and the runtime runs the
cleanups of what it freed. A program that allocates no more collects no more, and then
nothing is lost by what stays. `Proceed`, the next step of a validation in `NameMemo`,
is strongly fair for each validation: its only wait is for a mutex whose sections are
straight-line code, which Go's starvation mode hands over.

| Part | Instance | Why it is enough |
| --- | --- | --- |
| `side` | two readers, two elements, chunks of two nodes, three chunks, two nodes held | a sweep finds a chunk freed, one held and one being filled |
| `memo` | two validations, three names, at most two remembered, two hits before a publication | one stores while the other publishes, and the bound is met |
| `stripped` | two transforms, two packages, one copy kept, two trees, three copies | a copy is evicted, and stored by another, while a transform strips |
| `nested` | two callers, three resolvers, room for two | a live and a dead entry compete for a place |
| `memotables` | two goroutines, three URIs of which two are kept, room for one, two texts; two steps of which one fits | two parse one URI at once; one makes a key in the buffer the other reads; the last item fits, or does not |
| `sites` | two evaluations, two libraries, versions 2.0 and 3.0, two changes | a change below the library the site looked in |
| `live` | budgets with and without a total, charges of one and two, three items, five nodes | what is temporary, carried and kept, mixed in an item |
| `relaxng` | 21 schemas, 860 documents | every kind of pattern in every other that matters, three levels |
| `maps` | three keys whose hashes differ at once, late or not, two tokens, four maps, four writes | a collision grows and shrinks; maps share nodes at each level; a built map is built over with its token and with another |
| `inclusion` | three resources, all their ways to include, nesting and fetches of three | loops through one and two others, with and without fallbacks; elements quoted in a fallback, around it, after it |
| `content` | repetitions in repetitions, choices, and 254 to 256 names at bounds from 254 to 256 | two scopes begin anew at one name; a byte is full |
| `accumulators` | trees of four nodes, rules that append, put before or bring back | a value recorded, grown twice and brought back |
| `windows` | four items, any start condition, ends that close early, late, never | a window over the next one's start |
| `rules` | 111 stylesheets of up to five modules, four nodes, three modes | imports in imports and includes; union branches apart in the order |

## 7. Tables that goroutines share

**`SideTable`** (`xdm/sideweak.go`, `Node.sideNode`). `SideNode` finds or makes the
namespace node of a binding; `Drop` is a reader that lets its nodes go; `Collect`
frees chunks nobody refers to, any of them, since an object may outlive the cycle that
began before it was dropped; `SideSweep` drops the entries of freed chunks and arms
itself again; `SideTruncate` is the builder giving up the end of the tree, `Freeze`
the end of the building.
`NodeIdentity`: whoever holds the node of a binding holds the one everybody else is
given, however many collections ago it was made. `OneSweepChain`: while entries are
left exactly one sweep is to come. `SideTableFreed`: when nobody holds a node, the
table goes, unless somebody asks again.

**`NameMemo`** (`relaxng/pattern.go`). A look-up is three reads, the snapshot, the
number of pending entries and the pending map, of which only the last is locked; a
publication writes snapshot and number one after the other.
`MemoBounded`: the bound, however many miss at once, and never more pending than
published. `MissedByPublication`: only a publication in between hides what was
remembered when the look-up began. `NothingForgotten`: no publication loses another's
entry. `HotNamesPublished`: a name asked for again and again is found without the
lock in the end.

**`StrippedTrees`** (`xslt/transform.go`). `Resolve`, `Strip` and `Keep` are the call
before, while and after the lock is free; the resolver beneath may forget a document
and parse it again; `CollectTree` and `DropStripped` are the collector and the cleanup.
`OneCopyPerTransform`: for one tree and package a transform is given one copy,
although the stylesheet may evict it or keep another's meanwhile.
`StrippedForThePackage`, `StrippedBounded`, and `CopiesGoWithTheTree`: a tree nobody
uses is freed and its copies with it.

**`NestedCache`** (`xslt/fntransformcache.go`). `Get`, `CompileNested` or
`CompileFails`, `PutCall`, and the collector, which may kill a key between any two.
`ListMatchesMap`: list and map hold the same keys, once, within the bound.
`SheetOfTheCall`: a call runs the stylesheet its key names. `LeastRecentLast`: the
order of the list is that of use; `later` is the history it is stated by, the pairs
of keys of which one was asked for after the other. `DeadGoFirst`: a live entry is
evicted only when none is dead.

**`MemoTables`** (`xpath/cache.go`, `collation.go`, `stepmemo.go`). `CacheBounded`:
the table keeps its bound however many miss at once. `KeyOfItsText`: a key is made of
its own string although the collation and its buffer are shared.
`StepMemoAccounting`: the step memo counts exactly what it keeps.

**`CallSites`** (`xpath/callcache.go`). Evaluations share a site; libraries change
only between evaluations, as the code requires. `ResolvedAsLookedUp`: a call is given
the function a look-up would find then.

### What is proved (`SharedTablesProofs`)

For any goroutines, keys and bounds, and as many collections as there may be:

- `SideTableHolds`. The invariant (`SideInv`): a slot of a chunk is given once and is
  behind the builder's mark, the chunk being filled is not freed, a key has one entry, and
  what anybody holds is in a chunk that is not freed and is the entry of its key. Identity
  of the nodes held says nothing about the slots that will be given next.
- `MemoKeptHolds`: `Spec => MemoKept`, an action property. The invariant (`MemoInv`)
  has the number of pending entries, which is read without a lock, equal to the size of
  the map but in the middle of a publication, and says of each step of a look-up where
  a name it was to find can be.
- `StrippedHolds`. The invariant (`StrippedInv`): a transform has kept what it was
  given, one copy for a key; a call under way is for a key it has none of; and a
  copy, in the table, with a transform or on its way there, is of its own key.
- `NestedHolds`: `NestedSpec => NestedKept`, an action property. The invariant
  (`NestedInv`) has the keys of the list distinct and in the order they were asked for,
  and keeps the resolvers of keys that are being compiled alive. What `put` purges is
  written as a recursive function; that there is one, and that what it leaves is the
  living entries in their order, is proved by a least stage at which it would fail.
- `MemoTablesHolds`, from what a goroutine holds at each step of its call: the room it
  saw is there while it has the lock, and the buffer is its string's until it is copied.
- `ResolvedHolds`, from `SiteInv`: what a site keeps is what a look-up finds for as long as
  the libraries it was found under have not changed.

`SideTableFreed`, `HotNamesPublished` and `CopiesGoWithTheTree` are liveness and are
model-checked only.

## 8. `LiveBudget`

A transform runs a streamed loop: `BeginItem`, any number of `BuildTemporary` (built
and dropped) and `BuildKept` (fed into the result or into the value carried on),
`EndItem`, which settles, or `BreakLoop`; `FinishTransform` asks whether anything was
refused. What is kept, carried and fresh in the item are histories the code does not
have: it knows of the counter, and of how much larger what it carries became.

- `RefusalStands`: a refused builder drops what it is given and goes on, and refunds
  bring the counters below their bounds again; the transform still fails.
- `HeldIsCharged`: no item hands back the charge of a node somebody has.
- `TotalBounded`: what is built stays within the total, or without one within the
  bound and one allowance for each item.

*Proved* (`LiveBudgetProofs`), for any budget, allowance and sizes:
`HeldStaysCharged`, from `LiveInv`, which adds to `HeldIsCharged` what it needs to be
inductive (`Covered`: the counter covers what was on the books when the item began,
and what may still be handed back is not kept), and rests on `SettleFacts`, the
bounds of what `settle` hands back;
`RefusalReported`, from the latch being set wherever a charge fails;
`BuiltBounded`, from `BuiltInv`, in which what was built is bounded by the counter and
the allowances of the items that ended; and `BudgetIsKept`, all three. `LiveTypeOK` is
part of `LiveInv`. Bytes of text go through the same code over other counters.

## 9. Algorithms against their definitions

**`RelaxNG`** and **`RelaxNGLanguage`** (`relaxng/derive.go`, `validate.go`). The
first reads a document event by event as the validator does: `StartElement`,
`Characters`, `EndElement`, `Conclude`, over patterns built by `Choice`, `Group` and
`After` with the merging the code does. The second says which documents a pattern
denotes, by dividing attributes and content. `VerdictIsMeaning` (`Sound`, `Complete`)
compares them; `SizeIndependentOfWidth` bounds the pattern whatever the number of
children, which only the merging in `Choice` achieves; `DerivativesHold` is both.
`relaxng_childless` (expected
violation): an element without children is nothing and the empty string at once, and
for a schema that reads it in both ways before different siblings the validator keeps
one of them.

**`MapTrie`** (`xdm/hamt.go`, `maparray.go`). Nodes are cells of a heap, so that
sharing shows. Keys with equal hashes go through collision nodes; builders write in
place, over any map. `MapsAnswer`: a map lists what it stood for when it was made, in
order of insertion, and finds it by key, whatever was made from it or from maps it
shares nodes with since. A builder knows its nodes by a token, the address of a
`hamtEdit`, and that is an empty struct: Go may give all `&hamtEdit{}` one address, so
`Tokens` are the addresses, and any of them may be given twice. Then the nodes of a map
that was built carry the token of the next builder, and `NewMapBuilderFrom` over that
map writes in them. The map record has a history field for it, `lent`; `MapsAnswer`
says that a map which answers wrongly is one of those, or was made from one, and of
those `NeverWritten` is false (section 11).

**`Inclusion`** and **`IncludedContent`** (`xdm/xinclude.go`). The calls under way are
a stack of frames, what they return as an error unwinds it. What a pointer selects
(`PointedAt`) and how a document looks to an include in it (`View`) are parameters of
`Inclusion`; `IncludedContent` has what the code computes for them.
`StackIsNesting`: the list the loop rule looks at is the documents being processed,
each once, whatever failed and was recovered from, and never more of them than
`MaxIncludeDepth`. `MeansWhatItIncludes`: the result is the recursive meaning of the
document, loops and refusals come through any fallback, and a pass over its limits may
end in that error. A local inclusion sees the document through `ViewOf`: elements that
have ended as they ended, those around it marked, in the fallbacks of other includes
too, used or not, since the code walks all children. The meaning does not go through
that view; it lists the elements that stand in the document (`Standing`) and says of
the first that has the ID whether it has ended, encloses the inclusion, or is quoted as
it was read.
*Proved* (`AlgorithmProofs`), for any resolver, any `PointedAt` and `View` and any
limits: `InclusionNested`, which is `StackIsNesting` and the types. The invariant,
`InclusionInv`, speaks of any calls and any stack (`Nested`, `Shallow`), so that one
lemma says that a step which begins and ends no document leaves both as they were, and
two more what beginning and ending one does. The limit is a property of depths: the
code gives every document and every fallback one level more than the call around it,
so the documents up to a call are no more than its depth, and `TooDeep` comes before
anything is begun at the last level. The loop rule alone would not bound them, since a
resolver may answer with ever new names.

**`ContentModel`** (`xsd/automaton.go`, `nfa.go`, `validate.go`). `Compile` builds
positions, follow sets and counters; `ReadChild` keeps every reading of the counts at
once, capped, merged and, in `SequenceMatcher`, narrowed to 254 as the code does; both
walkers are modelled, that and the validator's. `Valid` cuts the sequence up by
the particles. `Decides`: what is accepted is valid, and what is not accepted is not;
also for a walk that stopped at a name, whatever would have followed. `MatchedIsValid`
says that the validator decides `Valid`, and that the matcher does when its bounds are at
most 254, or out of the names' reach (`BoundsFitAByte`), and the model has a position. Of
the matcher it says besides what it decides for all bounds (`ValidInBytes`): the same
particle with every minimum above 254 out of reach (`InBytes`) and every maximum above
254 gone. The run has 254, 255 and 256 names at bounds of 254, 255 and 256, and the empty
choice, so that it stands on both sides of the limit; a mutant that counts to 255 breaks
it. That the matcher does not decide `Valid` past the limit contradicts a comment
(section 11).

**`Accumulators`** and **`DocumentOrder`** (`xslt/accumulator.go`). Values are Go
slices, with a length and a capacity over an array that others share. The walk is
over a list of events, `EventsOf` a tree; `DocumentOrder` has the list the code's
recursion makes, and `Accumulators` relies on no more of it than that each node is
entered once, then left once (`WalksAssumption`). `RecordedStand`: no append changes a
value recorded before. `StoredIsCharged`: what the table keeps alive is paid for, by
four cells for an item charged and one for an event: an array is doubled when it grows
and the smaller ones stay with the values recorded in them, and a value's first item
is free. The run leaves out walks in which two scopes, one in the other, are restored
at their ends; `accumulators_restored` (expected violation) is about those: the value
that comes back has room behind it, and the next append writes over a recorded one.
*Proved* (`AlgorithmProofs`), for any trees, any order of events `WalksAssumption`
allows and any limit: `AccumulatorsHold`, which is `ValuesKept`, both of the above,
and the types. Its hypothesis is `RestoredApart`, without which it is false, and which
`ScopesAssumption` says the walks of the run satisfy. The
invariant, `AccumInv`: the current value holds the items the rules make it
(`ValueStands`); when it has room behind it, no recorded value reaches past its end in
that array (`NothingBehind`), so that an append in place writes where nobody reads;
while a node that will restore its value is open, the current value is that value, or
longer, or in another array (`ScopesKept`), so that what comes back is not the
shorter of two values that share room; and a value with no room behind it has twice its
length to spare (`RoomIsPaid`), which is what the next doubling takes.

**`Windows`** (`xquery/window.go`). `EmittedAreTheWindows`: what has been emitted is
every window up to the item reached, in order, by the definition of tumbling and
sliding windows with and without end conditions and `only end`.
*Proved* (`AlgorithmProofs`), for every clause whose conditions hold at items of its
sequence (`WindowsAssumption`): `WindowsHolds`. The invariant says that no item the
search for an end has passed closes the window, and that every window of a tumbling
clause before the item reached ends before it. The definition is recursive, an item
starts a window when those before it let it, and that it defines anything is proved
by a least length for which it would not (`FreeExists`).

**`RuleIndex`** and **`RuleChoice`** (`xslt/compile.go`, `stylesheet.go`, `ruleindex.go`,
`pattern.go`, `apply.go`).
The compiler's numbering of modules, the split of unions, the sort, the index, and
the choices of `xsl:apply-templates`, `xsl:next-match` and `xsl:apply-imports`, with
`on-multiple-match="fail"`. Beside it runs `meant`, the rule that the definition by the
import tree means: the code keeps a number and an interval where the definition has a
tree. `RuleIsMeant`: they agree at every step, and a choice is refused exactly when two
declarations tie. Its hypothesis, `NumberedInOrder`, excludes stylesheets for which the
numbering disagrees with the tree (section 11).
*Proved* (`AlgorithmProofs`): `IndexHidesNothing`, what the comment on `ruleIndex` says of
it: for any rules, the candidates that match a node are those a scan of all the rules of
the mode finds, in the same places of the list. Its lemma is that `ruleKeys` mirrors
`nodeTestHolds`: a pattern that matches a node has the node's kind among its kinds or
its name among its names.

## 10. The runs

| Run | What it asks | Expected |
| --- | --- | --- |
| `evallock_safety` | one evaluator, confined locals, settled variables, refinement | passes |
| `evallock_live` | whoever waits is served; the lock is free in the end | passes |
| `evallock_failed` | the lock after a failed start | violation |
| `fileresolver_safety` | accounts, bounds, identity, single flight, refinement | passes |
| `fileresolver_live` | every call returns | passes |
| `fileresolver_allowance` | whose allowance refuses | violation |
| `transformdocs_safety` | stable documents, distinct results, reads and writes apart | passes |
| `transformdocs_xtde1500` | the record a burst takes back | violation |
| `transformdocs_rollback` | results of a failed `xsl:try` | violation |
| `library` | sections 6 to 9 | passes |
| `relaxng_childless` | two readings of an element without children | violation |
| `accumulators_restored` | two scopes restored, one in the other | violation |

## 11. Further observations

Disagreements between code and comments, or between two parts of the code, that no run
of section 10 states. Three have a `.cfg` of their own, under which TLC finds the
violation named:

- `xpath/context.go:1081-1083` says a variable being forced is out of scope "for
  the goroutine running it". A force that is in host code has let the lock go, and a
  reference on any goroutine then finds it running and reports it as undeclared
  (`:1269`); a global that was reading it fails for good.
- `xslt/resolver.go:108-112` says concurrent callers wait for one parse "rather than
  each doing their own". A waiter looks in the cache again (`:613`), and when the tree
  was refused or has been evicted by then it parses the file itself, so that callers who
  were concurrent hold two trees. `FileResolver_flight.cfg` shows it, as a violation of
  `WaitersShare`.
- `xslt/readdocs.go:34-35` says a `FileResolver`'s answer for one path is fixed for
  the transform by the resolver's own cache. `docs` is keyed by the call, and
  two calls that name one file differently get two trees when the first was evicted,
  replaced or refused between them.
- `xslt/resultdoc.go:234` claims the base output URI for an empty href only, so a
  href that resolves to it stands beside a principal result, which
  `xslt/transform.go:746-749` rules out.
- An empty href claims the base output URI before its own checks; when it is refused
  and the error caught, the transform still ends in XTDE1490 (`xslt/resultdoc.go:235`).
- `preNumbered` (`xslt/compile.go:1979`, set at `:2100`) holds for the whole
  compilation. A module that an included module imports, and that is imported again
  elsewhere, is skipped the second time, where `xslt/static.go:144-149` says that a
  module imported twice contributes its declarations twice, at two precedences. And
  where XSLT 3.0 lets an `xsl:import` follow an `xsl:include` (`xslt/staticerrors.go:137-141`),
  that import is numbered before what the included module imports, so that the
  earlier one wins. `RuleIsMeant` without its hypothesis shows both, on
  `ImportedAgain` and `ImportedLate` of `MCRuleChoice`.
- `NewMapBuilderFrom` says "m itself is never written" (`xdm/maparray.go:252-253`), and
  `Build` that no later builder will match the token its nodes carry (`:288-290`).
  `hamtEdit` is an empty struct (`xdm/hamt.go:42`), and Go may give all `&hamtEdit{}` one
  address: then `mutable` (`:87`) returns the nodes of a map that was built as they are,
  and `Set` of a builder over that map changes it, and what shares nodes with it.
  `MapTrie_seeded.cfg` shows it in six states, as a violation of `NeverWritten`.
- `encodeCounts` writes a count above 254 as 254. Its comment says that "an occurrence
  bound larger than 254 is capped, because past a scope's maximum the exact count no
  longer changes any decision" (`xsd/nfa.go:126-129`), and `xsd/occurs_boundary_test.go:13-18`
  that this is no ceiling on `minOccurs` or `maxOccurs`. `capCount` caps at the bound, not
  at a byte: `SequenceMatcher` accepts 256 names where `maxOccurs` is 255, and rejects
  255 where both bounds are. The validator does not. `ContentModel_capped.cfg` shows it,
  as a violation of `WalkDecides`.
- `xsd/automaton.go:409` says an empty choice matches nothing, not even the empty
  sequence; for a model without positions `matchNames` takes the empty sequence before
  it looks at `nullable` (`xsd/nfa.go:408`).
- A trie splits on the first 60 bits of a hash. Keys that differ only in the other
  four share a collision node, and `hamtMerge` of such a node may list a key twice.
  `xdm/hamt.go:185-187` says a node left with a single leaf is replaced by it; a parent
  left with one when its child collapsed is not.
- `xpath/context.go:1840-1844` says a nested evaluation never resets the allowance of
  its caller. An XSLT context does not hold its item counter, and a nested
  `fn:transform` adopts the counter with that flag (`xpath/context.go:1868`,
  `xslt/runtime.go:907`): each expression of the nested transform resets, in
  `Compiled.Eval` (`xpath/xpath.go:330`), what the calling expression has been charged.
- A local inclusion of an element that comes later in the document copies the
  `xi:include`s in it as they are.

## 12. What is out of reach or left out

Formatting, serialisation, lexing and the text of documents; the meaning of
XPath expressions, patterns and types; the file system and the network; panics.

Of the parts that are modelled: circular imports, packages and overrides, atomic values
and built-in rules (`RuleChoice`); wildcards, open content, all groups, substitution
groups and the limits on a model's size (`ContentModel`); datatypes that do not
normalise white space, and the compilation of schemas (`RelaxNG`); base URIs,
attributes, merged text, IDs of `xi:include` elements and repeated IDs (`Inclusion`); bytes, and nested transforms
(`LiveBudget`); key indexes; `planBursts`. Grouping, merging and sorting, the
expression evaluator and its function library, the schema assembler and identity
constraints are sequential and not modelled: they are most of the code, and what
can go wrong in them is their meaning over data.

## 13. Proved, and checked only

Every safety property, action property and refinement of sections 3, 4, 5, 7 and 8, and
of section 9 `StackIsNesting`, `ValuesKept` and `EmittedAreTheWindows`, is a theorem for
all values of the constants, with the types of their modules; `IndexHidesNothing` is a
part of what `RuleIsMeant` relies on. Left to TLC alone are:

- liveness (`Served`, `Answered`, `SideTableFreed`, `HotNamesPublished`,
  `CopiesGoWithTheTree`), which rests on fairness and `ENABLED`, beyond the prover;
- `DerivativesHold`, `MapsAnswer`, `MeansWhatItIncludes`, `MatchedIsValid` and
  `RuleIsMeant`: their modules (`RelaxNG`, `RelaxNGLanguage`, `MapTrie`,
  `IncludedContent`, `ContentModel`, `RuleChoice`) compute over trees with recursive
  operators, which the prover does not take, and what they claim is an induction over
  those trees. The order in `DocumentOrder` is recursive too: that it satisfies
  `WalksAssumption` is evaluated for the trees of the run;
- `LibraryTypeOK`, the types of all the parts of `MCLibrary` together, which reaches
  those modules. The parts that are proved about have their types in their
  theorems.

Where an argument is an induction over finite data (sums, the purge of a list, the
windows before an item), the library's induction theorems do not apply, since they
take a predicate as a parameter. `FiniteSums` has what stands for them: a
set of subsets of a finite set has a minimal one, and a set of numbers a least
(`LeastSubset`, `LeastNumber`), so that the least counterexample leads to a
contradiction.

Proving changed the models where they said less, or more, than was so.
`LoadPending` of `NameMemo` and `KindsOf` of `RuleIndex` were `CASE`s whose guards
overlapped, of which TLC takes the first and the semantics any: the one is an `IF` now
and the other asks for the widest pattern first, in the order of the code. That `None`
is not a path, a key, a request or an answer was relied on and not said.
`StoredIsCharged` bounded the cells kept by two for an item charged and one for an
event, which is false: five values, each one item longer than the last, keep arrays of
1, 2, 4 and 8 cells for a charge of four. The walks of the run did not grow a value one
by one; `OneByOne` of `MCAccumulators` does.
And the depth of a call was bounded by one more than `MaxIncludeDepth`, which no call
reaches.

## 14. Running it

    tlc -config EvalLock_safety.cfg MCEvalLock
    tlc -config Library.cfg MCLibrary
    tlapm EvalLockSerialProofs.tla

and likewise for the other modules. The longest run takes about three minutes on
two cores, the proofs together some ten minutes.
