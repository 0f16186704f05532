---------------------------- MODULE TransformDocs ----------------------------
(***************************************************************************)
(* The documents one transform reads and writes: readDocResolver, which    *)
(* remembers the answers of fn:doc and records what was read;              *)
(* xsl:result-document, which records what was written and refuses what    *)
(* was read (XTDE1500) or written before (XTDE1490); xsl:source-document   *)
(* run in bursts, which reads a file the resolver has no tree of; and      *)
(* xsl:try.  The transform is run Me of a DocumentStore, the               *)
(* FileResolver it may share with other transforms.  A path stands for the *)
(* absolute URI it is known by.                                            *)
(***************************************************************************)
EXTENDS DocumentStore, Sequences

CONSTANTS
    Me,         \* the run that is this transform
    Key,        \* fn:doc calls: an argument, a base URI and a package
    PathOf,     \* the path a call resolves to
    Href,       \* hrefs of xsl:result-document
    Base,       \* the absent or empty href, which names the base output URI
    UriOf,      \* the URI an href resolves to, None when no base is known
    Bursts,     \* how a planned xsl:source-document runs: "items" evaluates
                \* the select of one instruction over the bursts, "read" feeds
                \* them to the body of an xsl:for-each or xsl:iterate
    Elsewhere,  \* what the other transforms and the host ask the resolver for
    DepthMax    \* bound on nested instructions

ASSUME DocsAssumption ==
    /\ Me \in Run
    /\ PathOf \in [Key -> Path]
    /\ Base \in Href
    /\ None \notin Path \cup Key \cup Ask   \* None is neither a path nor a call
    /\ UriOf \in [Href -> Path \cup {None}]
    /\ Bursts \subseteq {"items", "read"}
    /\ Elsewhere \subseteq Ask
    /\ DepthMax \in Nat

VARIABLES
    pc,         \* "run", "load", "raise", "done" or "failed"
    stack,      \* the instructions being executed, innermost last
    asked,      \* the fn:doc call being loaded
    docs,       \* readDocResolver.docs
    read,       \* runtime.readDocs
    written,    \* runtime.writtenDocs
    hrefs,      \* runtime.resultHrefs
    baseUsed,   \* runtime.baseURIUsed
    secondary,  \* runtime.secondary
    principal,  \* whether the finished transform wrote a principal result
    delivered,  \* history: the answers fn:doc gave
    streamed,   \* history: the paths read to the end in bursts
    forgotten   \* history: the paths given up in bursts and not read before

reads == <<docs, read, delivered, streamed, forgotten>>
results == <<written, hrefs, baseUsed, secondary, principal>>
transformVars == <<pc, stack, asked, reads, results>>
vars == <<storeVars, transformVars>>

Frame ==
    [kind : {"result"}, href : Href]
        \cup [kind : {"try"}, mark : Nat]
        \cup [kind : {"catch"}, mark : Nat, at : Nat]
        \cup [kind : {"items", "read"}, key : Key, fresh : BOOLEAN]

Init ==
    /\ StoreInit
    /\ pc = "run" /\ stack = << >> /\ asked = None
    /\ docs = << >> /\ read = {} /\ written = {} /\ hrefs = {}
    /\ baseUsed = FALSE /\ secondary = << >> /\ principal = FALSE
    /\ delivered = {} /\ streamed = {} /\ forgotten = {}

Top == stack[Len(stack)]
Below == SubSeq(stack, 1, Len(stack) - 1)
In(kinds) == stack # << >> /\ Top.kind \in kinds

\* An instruction may begin here.  What planBursts admits into a burst calls
\* fn:doc, but holds no instruction that opens anything.
Instructs == pc = "run" /\ ~In({"items", "read"}) /\ Len(stack) < DepthMax

Push(frame) == stack' = Append(stack, frame)
Pop == stack' = Below

(***************************************************************************)
(* fn:doc, fn:document, fn:doc-available and an xsl:source-document that   *)
(* is not run in bursts.                                                   *)
(***************************************************************************)
Deliver(k, id) == delivered' = delivered \cup {[key |-> k, tree |-> id]}

\* docs answers without asking the resolver, and records nothing.
Remembered(k) ==
    /\ k \in DOMAIN docs
    /\ Deliver(k, docs[k])
    /\ pc' = "run"
    /\ UNCHANGED <<storeVars, asked, docs>>

\* Mutant: a document is asked for as a stylesheet module is.
AskTracked(k) ==
    /\ k \notin DOMAIN docs
    /\ Request(Me, [path |-> PathOf[k], pos |-> TRUE, host |-> FALSE])
    /\ pc' = "load" /\ asked' = k
    /\ UNCHANGED <<docs, delivered>>

AskResolver(k) ==
    /\ k \notin DOMAIN docs
    /\ Request(Me, [path |-> PathOf[k], pos |-> FALSE, host |-> FALSE])
    /\ pc' = "load" /\ asked' = k
    /\ UNCHANGED <<docs, delivered>>

\* Mutant: every call asks the resolver.
AskEveryTime(k) ==
    /\ Request(Me, [path |-> PathOf[k], pos |-> FALSE, host |-> FALSE])
    /\ pc' = "load" /\ asked' = k
    /\ UNCHANGED <<docs, delivered>>

Cached(k) == Remembered(k) \/ AskResolver(k)

CallDoc(k) ==
    /\ pc = "run"
    /\ Cached(k)
    /\ UNCHANGED <<stack, read, streamed, forgotten, results>>

\* The error reaches the caller, or fn:doc-available answers false.
RaiseOrFalse == pc' \in {"raise", "run"}

\* The resolver answers: the tree is recorded as read, and refused when the
\* transform has written its URI.
DocLoaded ==
    LET p == PathOf[asked]
        id == IF holds[Me] = None THEN current[p].id ELSE holds[Me].id
    IN  /\ pc = "load"
        /\ Hit(Me) \/ Reply(Me)
        /\ read' = read \cup {p}
        /\ IF p \in written
           THEN RaiseOrFalse /\ UNCHANGED <<docs, delivered>>
           ELSE /\ pc' = "run"
                /\ docs' = [k \in DOMAIN docs \cup {asked} |->
                                IF k = asked THEN id ELSE docs[k]]
                /\ Deliver(asked, id)
        /\ asked' = None
        /\ UNCHANGED <<stack, streamed, forgotten, results>>

DocFails ==
    /\ pc = "load"
    /\ Fail(Me)
    /\ RaiseOrFalse
    /\ asked' = None
    /\ UNCHANGED <<stack, reads, results>>

(***************************************************************************)
(* xsl:source-document run in bursts.                                      *)
(***************************************************************************)
OpenBurst(k, kind) ==
    LET p == PathOf[k]
    IN  /\ Instructs
        /\ k \notin DOMAIN docs /\ p \notin DOMAIN current
        /\ read' = read \cup {p}
        /\ IF p \in written
           THEN pc' = "raise" /\ UNCHANGED stack
           ELSE /\ Push([kind |-> kind, key |-> k, fresh |-> p \notin read])
                /\ UNCHANGED pc
        /\ UNCHANGED <<storeVars, asked, docs, delivered, streamed, forgotten,
                       results>>

CloseBurst ==
    /\ pc = "run" /\ In({"items", "read"})
    /\ Pop
    /\ streamed' = streamed \cup {PathOf[Top.key]}
    /\ UNCHANGED <<storeVars, pc, asked, docs, read, delivered, forgotten,
                   results>>

\* Mutant: the record goes even if an earlier read made it.
UnreadAlways ==
    LET p == PathOf[Top.key]
    IN  /\ read' = read \ {p}
        /\ forgotten' = IF Top.fresh THEN forgotten \cup {p} ELSE forgotten

\* The document does not count as read unless it did before.
Unread ==
    LET p == PathOf[Top.key]
    IN  IF Top.fresh
        THEN read' = read \ {p} /\ forgotten' = forgotten \cup {p}
        ELSE UNCHANGED <<read, forgotten>>

\* Whatever goes wrong in the select or in the file, or a fold that bursts
\* cannot do, the instruction starts over from the whole tree.
FallBack ==
    /\ pc \in {"run", "raise"} /\ In({"items"})
    /\ Unread
    /\ Pop
    /\ Cached(Top.key)
    /\ UNCHANGED <<streamed, results>>

\* The file, and not the body, fails: the body has run for what came before.
BurstFails ==
    /\ pc = "run" /\ In({"read"})
    /\ Unread
    /\ Pop
    /\ pc' = "raise"
    /\ UNCHANGED <<storeVars, asked, docs, delivered, streamed, results>>

(***************************************************************************)
(* xsl:result-document.                                                    *)
(***************************************************************************)
OpenResult(h) ==
    /\ Instructs
    /\ Push([kind |-> "result", href |-> h])
    /\ UNCHANGED <<storeVars, pc, asked, reads, results>>

\* Mutant: the hrefs are compared as they are written.
RefusedByHref(h) == UriOf[h] \in read \/ h \in hrefs

\* checkReadThenWrite, and the URI and the href of an earlier result.
Refused(h) == UriOf[h] \in read \/ h \in hrefs \/ UriOf[h] \in written

CloseResult ==
    LET h == Top.href
    IN  /\ pc = "run" /\ In({"result"})
        /\ Pop
        /\ baseUsed' = (baseUsed \/ h = Base)
        /\ IF Refused(h)
           THEN pc' = "raise" /\ UNCHANGED <<written, hrefs, secondary>>
           ELSE /\ secondary' = Append(secondary, h)
                /\ hrefs' = hrefs \cup {h}
                /\ written' = written \cup ({UriOf[h]} \ {None})
                /\ UNCHANGED pc
        /\ UNCHANGED <<storeVars, asked, reads, principal>>

(***************************************************************************)
(* xsl:try, errors and the end of the transform.                           *)
(***************************************************************************)
OpenTry ==
    /\ Instructs
    /\ Push([kind |-> "try", mark |-> Len(secondary)])
    /\ UNCHANGED <<storeVars, pc, asked, reads, results>>

\* The body of an xsl:try or of an xsl:catch ends.
CloseTry ==
    /\ pc = "run" /\ In({"try", "catch"})
    /\ Pop
    /\ UNCHANGED <<storeVars, pc, asked, reads, results>>

\* An xsl:catch takes the error: the builder of the body is dropped.
Catch ==
    /\ pc = "raise" /\ In({"try"})
    /\ pc' = "run"
    /\ stack' = Append(Below, [kind |-> "catch", mark |-> Top.mark,
                               at |-> Len(secondary)])
    /\ UNCHANGED <<storeVars, asked, reads, results>>

\* No catch clause takes the error, or the instruction has none.
Unwind ==
    /\ pc = "raise" /\ stack # << >> /\ ~In({"items"})
    /\ Pop
    /\ UNCHANGED <<storeVars, pc, asked, reads, results>>

RaiseError ==
    /\ pc = "run"
    /\ pc' = "raise"
    /\ UNCHANGED <<storeVars, stack, asked, reads, results>>

Finish(output) ==
    /\ stack = << >>
    /\ \/ /\ pc = "raise"
          /\ pc' = "failed" /\ UNCHANGED principal
       \/ /\ pc = "run"
          /\ pc' = IF baseUsed /\ output THEN "failed" ELSE "done"
          /\ principal' = output
    /\ UNCHANGED <<storeVars, stack, asked, reads, written, hrefs, baseUsed,
                   secondary>>

\* Transform has returned.
Ended ==
    /\ pc \in {"done", "failed"}
    /\ UNCHANGED vars

\* The resolver at work, and the other transforms that share it.
Store ==
    /\ \/ \E r \in Run : Supersede(r) \/ \E id \in Tree : Make(r, id)
       \/ \E r \in Run \ {Me} :
            (\E ask \in Elsewhere : Request(r, ask)) \/ Hit(r) \/ Reply(r) \/ Fail(r)
       \/ \E p \in Path : Evict(p)
    /\ UNCHANGED transformVars

Next ==
    \/ \E k \in Key : CallDoc(k) \/ \E kind \in Bursts : OpenBurst(k, kind)
    \/ DocLoaded \/ DocFails
    \/ CloseBurst \/ FallBack \/ BurstFails
    \/ \E h \in Href : OpenResult(h)
    \/ CloseResult
    \/ OpenTry \/ CloseTry \/ Catch \/ Unwind \/ RaiseError
    \/ \E output \in BOOLEAN : Finish(output)
    \/ Ended
    \/ Store

Spec == Init /\ [][Next]_vars

-----------------------------------------------------------------------------
(***************************************************************************)
(* Properties.                                                             *)
(***************************************************************************)

\* Every variable has its type, and a load is always the transform's own.
TypeOK ==
    /\ pc \in {"run", "load", "raise", "done", "failed"}
    /\ stack \in Seq(Frame)
    /\ asked \in Key \cup {None}
    /\ (pc = "load") = (asked # None)
    /\ (wants[Me] # None) = (pc = "load")
    /\ pc = "load" => wants[Me] = [path |-> PathOf[asked], pos |-> FALSE,
                                   host |-> FALSE]
    /\ DOMAIN docs \subseteq Key /\ \A k \in DOMAIN docs : docs[k] \in Tree
    /\ read \subseteq Path /\ written \subseteq Path /\ hrefs \subseteq Href
    /\ baseUsed \in BOOLEAN /\ principal \in BOOLEAN
    /\ secondary \in Seq(Href)
    /\ delivered \subseteq [key : Key, tree : Tree]
    /\ streamed \subseteq Path /\ forgotten \subseteq Path

Written == {UriOf[secondary[i]] : i \in DOMAIN secondary} \ {None}
Read == {PathOf[d.key] : d \in delivered} \cup streamed

\* However result documents nest and fail, no two of them have one href or one
\* URI, and none without an href stands beside a principal result
\* (XTDE1490: resultDocumentInstr.Execute and the end of Transform).
OneResultPerUri ==
    /\ \A i, j \in DOMAIN secondary :
        i # j => /\ secondary[i] # secondary[j]
                 /\ \/ UriOf[secondary[i]] # UriOf[secondary[j]]
                    \/ UriOf[secondary[i]] = None
    /\ pc = "done" /\ principal =>
        \A i \in DOMAIN secondary : secondary[i] # Base

\* One fn:doc call gives one tree throughout the transform, whatever other
\* transforms make the resolver forget (readDocResolver.docs).
DocStable ==
    \A d, e \in delivered : d.key = e.key => d.tree = e.tree

\* No resource is both read and written, unless the record of its being read
\* was dropped with a burst that was given up (readDocResolver.cached,
\* checkReadThenWrite, unread).
ReadXorWritten == Read \cap Written \subseteq forgotten

(***************************************************************************)
(* What the comments of the code say and the code does not do.             *)
(***************************************************************************)

\* "the pair no longer depends on which instruction the stylesheet happens to
\* reach first" (XTDE1500): no resource is both read and written.
Xtde1500 == Read \cap Written = {}

\* "output the failed body wrote is discarded before the catch runs": an
\* xsl:catch begins with the result documents there were before the body.
RolledBack ==
    \A i \in DOMAIN stack : stack[i].kind = "catch" => stack[i].at = stack[i].mark
=============================================================================
