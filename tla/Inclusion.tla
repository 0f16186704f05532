-------------------------------- MODULE Inclusion --------------------------------
(***************************************************************************)
(* XInclude (xdm/xinclude.go): a document is copied top-down, and each     *)
(* xi:include is replaced by the document it names, itself processed, or   *)
(* by its fallback.  Documents that include one another in a loop and      *)
(* passes that grow too large end in an error no fallback recovers from.   *)
(*                                                                         *)
(* The calls that are under way are the frames of a stack; what each       *)
(* returns as an error is `raised` and unwinds it.  A document is a        *)
(* sequence of leaves, of elements, which are known by their IDs, and of   *)
(* includes.  Base URIs, attributes and the merging of text are left out.  *)
(* What a pointer selects and how a document looks to an include in it are *)
(* computed over contents, by the operators of IncludedContent.            *)
(***************************************************************************)
EXTENDS Naturals, Sequences, FiniteSets, TLC

CONSTANTS
    Worlds,             \* what the resolver may answer, by URI
    PointedAt(_, _),    \* the element of a content a pointer selects, if there is one
    View(_, _, _),      \* a document as an include in it sees it
    TopUri,             \* the URI of the including document
    MaxIncludeDepth,    \* maxIncludeDepth, 40 in the code
    MaxIncludeFetches   \* maxIncludeFetches, 200 in the code

ASSUME InclusionAssumption == MaxIncludeDepth \in Nat /\ MaxIncludeFetches \in Nat

VARIABLES
    resources,          \* what the resolver answers
    frames,             \* the calls under way: of processTree for a document, of
                        \* copyChildren for an element or a fallback
    including,          \* includeProc.stack
    fetches,            \* includeProc.fetches
    finished,           \* includeProc.done
    raised,             \* the error being returned: none, plain, loop or limit
    result              \* what ProcessXInclude returned

inclusionVars == <<resources, frames, including, fetches, finished, raised, result>>

NoHref == "no href"
NoPointer == "no pointer"
NoFallback == <<[kind |-> "no fallback"]>>

LeafItem(n) == [kind |-> "leaf", name |-> n]
ElementItem(id, content) == [kind |-> "element", id |-> id, content |-> content]
IncludeItem(href, parse, xptr, fallback) ==
    [kind |-> "include", href |-> href, parse |-> parse, xptr |-> xptr, fallback |-> fallback]
\* A fallback outside an include, or an include the rules of syntax forbid.
Misplaced == [kind |-> "misplaced"]

\* A resource is its content, or what is wrong with it: it is missing, no XML,
\* or over the limits of the parser.
Resource(status, content) == [status |-> status, content |-> content]

\* The mark of an element around the include that looks at it.
AroundMark == [kind |-> "around"]

\* isAncestorOf.
IsAround(x) == x.content # <<>> /\ Head(x.content) = AroundMark

-----------------------------------------------------------------------------
Inner == frames[Len(frames)]
Outer == SubSeq(frames, 1, Len(frames) - 1)

Frame(kind, item, todo, out, depth, serial) ==
    [kind |-> kind, item |-> item, todo |-> todo, out |-> out,
     depth |-> depth, serial |-> serial]

\* The document the innermost call is in, as it was read, the elements that call
\* is nested in, and those that are finished.
FramesHere == {f \in {frames[i] : i \in DOMAIN frames} : f.serial = Inner.serial}
InnerDocument ==
    LET f == CHOOSE f \in FramesHere : f.kind = "document"
    IN  resources[IF f.item.href = NoHref THEN TopUri ELSE f.item.href].content
OpenElements == {f.item.id : f \in {g \in FramesHere : g.kind = "element"}}

FinishedHere ==
    [id \in {k[2] : k \in {l \in DOMAIN finished : l[1] = Inner.serial}} |->
        finished[<<Inner.serial, id>>]]

Working == result = "working" /\ raised = "none"
ReadNext == Head(Inner.todo)
Reading(kind) == Working /\ Inner.todo # <<>> /\ ReadNext.kind = kind
AtEnd(kind) == Working /\ Inner.todo = <<>> /\ Inner.kind = kind
Consumed == [frames EXCEPT ![Len(frames)].todo = Tail(@)]
Emitting(fs, content) == [fs EXCEPT ![Len(fs)].out = @ \o content]

\* Mutant: a document that is left stays on the stack.
StayedOn == including

\* The stack of resources when a document is left.
Popped == SubSeq(including, 1, Len(including) - 1)

\* The negation of fatalIncludeError.
Recovers(error) == error = "plain"

\* The end of expandInclude after an error: the fallback is written where the
\* include is, one level down, or the error is returned.
Fails(error, inc, fs) ==
    IF Recovers(error) /\ inc.fallback # NoFallback
    THEN LET at == fs[Len(fs)]
         IN  /\ frames' = Append(fs, Frame("fallback", inc, inc.fallback, at.out,
                                           at.depth + 1, at.serial))
             /\ raised' = "none"
    ELSE frames' = fs /\ raised' = error

-----------------------------------------------------------------------------
(* processTree and copyChildren. *)

InclusionInit ==
    /\ resources \in Worlds
    \* A document that was not read from anywhere has no base.
    /\ including \in {<<>>, <<TopUri>>}
    /\ frames = <<Frame("document", IncludeItem(NoHref, "xml", NoPointer, NoFallback),
                        resources[TopUri].content, <<>>, 0, 0)>>
    /\ fetches = 0 /\ finished = <<>>
    /\ raised = "none" /\ result = "working"

CopyLeaf ==
    /\ Reading("leaf")
    /\ frames' = Emitting(Consumed, <<ReadNext>>)
    /\ UNCHANGED <<resources, including, fetches, finished, raised, result>>

BeginElement ==
    /\ Reading("element")
    /\ frames' = Append(Consumed, Frame("element", ReadNext, ReadNext.content, <<>>,
                                        Inner.depth, Inner.serial))
    /\ UNCHANGED <<resources, including, fetches, finished, raised, result>>

FinishElement ==
    /\ AtEnd("element")
    /\ frames' = Emitting(Outer, <<ElementItem(Inner.item.id, Inner.out)>>)
    /\ finished' = <<Inner.serial, Inner.item.id>> :> Inner.out @@ finished
    /\ UNCHANGED <<resources, including, fetches, raised, result>>

RefuseMisplaced ==
    /\ Reading("misplaced")
    /\ raised' = "plain"
    /\ UNCHANGED <<resources, frames, including, fetches, finished, result>>

FinishFallback ==
    /\ AtEnd("fallback")
    /\ frames' = [Outer EXCEPT ![Len(Outer)].out = Inner.out]
    /\ UNCHANGED <<resources, including, fetches, finished, raised, result>>

\* The document is processed: what was asked of it is appended where the
\* include was.  The including document is returned.
FinishDocument ==
    /\ AtEnd("document")
    /\ IF Len(frames) = 1
       THEN result' = "included" /\ UNCHANGED <<frames, including, raised>>
       ELSE /\ including' = Popped
            /\ UNCHANGED result
            /\ LET xptr == Inner.item.xptr
                   picked == PointedAt(Inner.out, xptr)
               IN  IF xptr = NoPointer
                   THEN frames' = Emitting(Outer, Inner.out) /\ UNCHANGED raised
                   ELSE IF picked = {} THEN Fails("plain", Inner.item, Outer)
                   ELSE /\ \E x \in picked : frames' = Emitting(Outer, <<x>>)
                        /\ UNCHANGED raised
    /\ UNCHANGED <<resources, fetches, finished>>

-----------------------------------------------------------------------------
(* expandInclude. *)

TooDeep ==
    /\ Reading("include") /\ Inner.depth >= MaxIncludeDepth
    /\ raised' = "limit"
    /\ UNCHANGED <<resources, frames, including, fetches, finished, result>>

Expanding == Reading("include") /\ Inner.depth < MaxIncludeDepth
IsLocal(inc) == inc.href = NoHref /\ inc.parse = "xml" /\ inc.xptr # NoPointer

\* selectLocal.
SelectLocal ==
    /\ Expanding /\ IsLocal(ReadNext)
    /\ LET picked == PointedAt(View(FinishedHere, OpenElements, InnerDocument), ReadNext.xptr)
       IN  IF picked = {} THEN Fails("plain", ReadNext, Consumed)
           ELSE \E x \in picked :
                   IF IsAround(x) THEN Fails("loop", ReadNext, Consumed)
                   ELSE frames' = Emitting(Consumed, <<x>>) /\ UNCHANGED raised
    /\ UNCHANGED <<resources, including, fetches, finished, result>>

\* An include without an href names the document it is in.
Target(inc) == IF inc.href # NoHref THEN inc.href
               ELSE IF including = <<>> THEN NoHref ELSE including[Len(including)]

\* fetchText.
IncludeText ==
    /\ Expanding /\ ReadNext.parse = "text"
    /\ IF fetches >= MaxIncludeFetches
       THEN Fails("limit", ReadNext, Consumed) /\ UNCHANGED fetches
       ELSE /\ fetches' = fetches + 1
            /\ LET uri == Target(ReadNext)
               IN  IF uri = NoHref \/ resources[uri].status = "missing"
                   THEN Fails("plain", ReadNext, Consumed)
                   ELSE /\ frames' = Emitting(Consumed, <<LeafItem(uri)>>)
                        /\ UNCHANGED raised
    /\ UNCHANGED <<resources, including, finished, result>>

\* fetch, up to the processing of what was read.
FetchXML ==
    /\ Expanding /\ ReadNext.parse = "xml" /\ ~IsLocal(ReadNext)
    /\ LET uri == Target(ReadNext)
           Refuse(error) == Fails(error, ReadNext, Consumed) /\ UNCHANGED including
       IN  IF fetches >= MaxIncludeFetches
           THEN Refuse("limit") /\ UNCHANGED fetches
           ELSE /\ fetches' = fetches + 1
                /\ IF uri = NoHref \/ resources[uri].status = "missing" THEN Refuse("plain")
                   ELSE IF \E i \in DOMAIN including : including[i] = uri THEN Refuse("loop")
                   ELSE CASE resources[uri].status = "malformed" -> Refuse("plain")
                          [] resources[uri].status = "excessive" -> Refuse("limit")
                          [] OTHER ->
                               /\ including' = Append(including, uri)
                               /\ frames' = Append(Consumed,
                                    Frame("document", IncludeItem(uri, ReadNext.parse,
                                                      ReadNext.xptr, ReadNext.fallback),
                                          resources[uri].content, <<>>, Inner.depth + 1,
                                          fetches'))
                               /\ UNCHANGED raised
    /\ UNCHANGED <<resources, finished, result>>

\* An error passes through a call.  A document that fails is an include that
\* failed, of the document around it.
ReturnError ==
    /\ result = "working" /\ raised # "none"
    /\ IF Len(frames) = 1 THEN result' = raised /\ UNCHANGED <<frames, including, raised>>
       ELSE /\ UNCHANGED result
            /\ IF Inner.kind = "document"
               THEN /\ including' = Popped
                    /\ Fails(raised, Inner.item, Outer)
               ELSE frames' = Outer /\ UNCHANGED <<including, raised>>
    /\ UNCHANGED <<resources, fetches, finished>>

InclusionNext ==
    \/ CopyLeaf \/ BeginElement \/ FinishElement
    \/ RefuseMisplaced \/ FinishFallback \/ FinishDocument
    \/ TooDeep \/ SelectLocal \/ IncludeText \/ FetchXML
    \/ ReturnError

InclusionSpec == InclusionInit /\ [][InclusionNext]_inclusionVars

-----------------------------------------------------------------------------
InclusionTypeOK ==
    /\ resources \in Worlds
    /\ \A i \in DOMAIN frames :
          /\ frames[i].kind \in {"document", "element", "fallback"}
          /\ frames[i].depth \in 0 .. MaxIncludeDepth
          /\ frames[i].serial \in 0 .. fetches
    /\ frames # <<>> /\ frames[1].kind = "document"
    /\ fetches \in 0 .. MaxIncludeFetches
    /\ raised \in {"none", "plain", "loop", "limit"}
    /\ result \in {"working", "included", "plain", "loop", "limit"}

\* The stack the loop rule looks at is the documents being processed, each once,
\* whatever errors were recovered from on the way: a document that failed and
\* was replaced by a fallback may be included again, and one that is being
\* included may not.  Nor are there ever more of them than the limit allows.
DocumentsIncluded == {i \in 2 .. Len(frames) : frames[i].kind = "document"}
Within(i) == {j \in DocumentsIncluded : j > i}
StackIsNesting ==
    /\ Len(including) - Cardinality(DocumentsIncluded) \in {0, 1}
    /\ \A i \in DocumentsIncluded :
          including[Len(including) - Cardinality(Within(i))] = frames[i].item.href
    /\ \A i, j \in DOMAIN including : including[i] = including[j] => i = j
    /\ Cardinality(DocumentsIncluded) <= MaxIncludeDepth

===================================================================================
