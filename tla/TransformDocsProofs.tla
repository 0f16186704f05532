------------------------ MODULE TransformDocsProofs ------------------------
(***************************************************************************)
(* Proofs about TransformDocs: one fn:doc call has one tree, no URI has    *)
(* two results, and nothing is both read and written but what was          *)
(* forgotten with a burst.                                                 *)
(***************************************************************************)
EXTENDS TransformDocs, TLAPS

-----------------------------------------------------------------------------
(* The inductive invariant.                                                 *)

BurstFrame(f) == f.kind \in {"items", "read"}

\* The types the proofs need.
Shape ==
    /\ stack \in Seq(Frame)
    /\ secondary \in Seq(Href)
    /\ pc = "load" => asked \in Key
    /\ DOMAIN docs \subseteq Key
    /\ \A d \in delivered : d.key \in Key

\* docs and the answers given agree.
Answers ==
    /\ \A d \in delivered : d.key \in DOMAIN docs /\ docs[d.key] = d.tree
    /\ \A k \in DOMAIN docs : \E d \in delivered : d.key = k
    /\ pc = "load" => asked \notin DOMAIN docs

\* The hrefs and URIs recorded are those of the result documents.
Recorded ==
    /\ hrefs = {secondary[i] : i \in DOMAIN secondary}
    /\ written = Written
    /\ Base \in hrefs => baseUsed
    /\ pc = "done" /\ principal => ~baseUsed

\* The path of a read or of a burst under way: its record stands and keeps
\* writers off, or was forgotten.
Guarded(p) == p \in read \cup forgotten /\ (p \in written => p \in forgotten)

Ledger ==
    /\ \A p \in Read : Guarded(p)
    /\ \A i \in DOMAIN stack : BurstFrame(stack[i]) => Guarded(PathOf[stack[i].key])

-----------------------------------------------------------------------------
(* Stacks and sequences.                                                    *)

LEMMA Popped ==
    ASSUME NEW S, NEW s \in Seq(S), s # << >>
    PROVE  /\ SubSeq(s, 1, Len(s) - 1) \in Seq(S)
           /\ \A i \in DOMAIN SubSeq(s, 1, Len(s) - 1) :
                i \in DOMAIN s /\ SubSeq(s, 1, Len(s) - 1)[i] = s[i]
           /\ s[Len(s)] \in S
    OBVIOUS

LEMMA Pushed ==
    ASSUME NEW S, NEW s \in Seq(S), NEW x \in S
    PROVE  /\ Append(s, x) \in Seq(S)
           /\ \A i \in DOMAIN Append(s, x) :
                \/ i \in DOMAIN s /\ Append(s, x)[i] = s[i]
                \/ Append(s, x)[i] = x
           /\ \A i \in DOMAIN s : i \in DOMAIN Append(s, x)
                                  /\ Append(s, x)[i] = s[i]
           /\ Append(s, x)[Len(s) + 1] = x
           /\ Len(s) + 1 \in DOMAIN Append(s, x)
           /\ \A i \in DOMAIN Append(s, x) : i \in DOMAIN s \/ i = Len(s) + 1
    OBVIOUS

\* The three ways a step moves the stack: it is left or popped, a frame is
\* pushed, or the innermost is replaced by a catch.
Kept == \A i \in DOMAIN stack' : i \in DOMAIN stack /\ stack'[i] = stack[i]
Opened(f) == \A i \in DOMAIN stack' :
    \/ i \in DOMAIN stack /\ stack'[i] = stack[i]
    \/ stack'[i] = f

LEMMA PopKeeps ==
    ASSUME stack \in Seq(Frame), stack # << >>, Pop
    PROVE  /\ stack' \in Seq(Frame) /\ Kept /\ Top \in Frame
    BY Popped DEF Pop, Below, Top, Kept

LEMMA PushOpens ==
    ASSUME stack \in Seq(Frame), NEW f \in Frame, Push(f)
    PROVE  stack' \in Seq(Frame) /\ Opened(f)
    BY Pushed DEF Push, Opened

LEMMA SameKeeps ==
    ASSUME UNCHANGED stack
    PROVE  Kept
    BY DEF Kept

LEMMA CatchOpens ==
    ASSUME Shape, Catch
    PROVE  /\ stack' \in Seq(Frame)
           /\ \E f \in Frame : f.kind = "catch" /\ Opened(f)
  <1>1. stack # << >> /\ Top.kind = "try"
    BY DEF Catch, In
  <1>2. /\ Below \in Seq(Frame)
        /\ \A i \in DOMAIN Below : i \in DOMAIN stack /\ Below[i] = stack[i]
        /\ Top \in Frame
    BY <1>1, Popped DEF Shape, Below, Top
  <1>3. Top.mark \in Nat
    BY <1>1, <1>2 DEF Frame
  <1>4. Len(secondary) \in Nat
    BY DEF Shape
  <1> DEFINE f == [kind |-> "catch", mark |-> Top.mark, at |-> Len(secondary)]
  <1>5. f \in Frame /\ f.kind = "catch"
    BY <1>3, <1>4 DEF Frame
  <1>6. stack' = Append(Below, f)
    BY DEF Catch
  <1>7. stack' \in Seq(Frame) /\ Opened(f)
    BY <1>2, <1>5, <1>6, Pushed DEF Opened
  <1> QED
    BY <1>5, <1>7

-----------------------------------------------------------------------------
(* The types.                                                               *)

LEMMA ShapeInit ==
    ASSUME Init
    PROVE  Shape
    BY DEF Init, Shape

LEMMA CachedShape ==
    ASSUME Shape, NEW k \in Key, Cached(k)
    PROVE  /\ pc' = "load" => asked' \in Key
           /\ DOMAIN docs' \subseteq Key
           /\ \A d \in delivered' : d.key \in Key
  <1>1. CASE Remembered(k)
    BY <1>1 DEF Shape, Remembered, Deliver
  <1>2. CASE AskResolver(k)
    BY <1>2 DEF Shape, AskResolver
  <1> QED
    BY <1>1, <1>2 DEF Cached

LEMMA ShapeStep ==
    ASSUME Shape, [Next]_vars
    PROVE  Shape'
  <1>1. ASSUME NEW k \in Key, CallDoc(k)
        PROVE  Shape'
    BY <1>1, CachedShape DEF CallDoc, Shape, results
  <1>2. ASSUME NEW k \in Key, NEW kind \in Bursts, OpenBurst(k, kind)
        PROVE  Shape'
    <2> DEFINE f == [kind |-> kind, key |-> k, fresh |-> PathOf[k] \notin read]
    <2>1. f \in Frame
      BY DocsAssumption DEF Frame
    <2>2. stack' \in Seq(Frame)
      BY <1>2, <2>1, PushOpens DEF OpenBurst, Shape
    <2>3. pc' = "raise" \/ pc' = "run"
      BY <1>2 DEF OpenBurst, Instructs
    <2> QED
      BY <1>2, <2>2, <2>3 DEF OpenBurst, Shape, results
  <1>3. CASE DocLoaded
    BY <1>3 DEF DocLoaded, Deliver, RaiseOrFalse, Shape, results
  <1>4. CASE DocFails
    BY <1>4 DEF DocFails, RaiseOrFalse, Shape, reads, results
  <1>5. CASE CloseBurst
    BY <1>5, PopKeeps DEF CloseBurst, In, Shape, results
  <1>6. CASE FallBack
    <2>1. stack' \in Seq(Frame) /\ Top \in Frame
      BY <1>6, PopKeeps DEF FallBack, In, Shape
    <2>2. Top.key \in Key
      BY <1>6, <2>1 DEF FallBack, In, Frame
    <2>3. UNCHANGED results
      BY <1>6 DEF FallBack
    <2>4. /\ pc' = "load" => asked' \in Key
          /\ DOMAIN docs' \subseteq Key
          /\ \A d \in delivered' : d.key \in Key
      BY <1>6, <2>2, CachedShape DEF FallBack
    <2> QED
      BY <2>1, <2>3, <2>4 DEF Shape, results
  <1>7. CASE BurstFails
    BY <1>7, PopKeeps DEF BurstFails, In, Shape, results
  <1>8. ASSUME NEW h \in Href, OpenResult(h)
        PROVE  Shape'
    <2>1. [kind |-> "result", href |-> h] \in Frame
      BY DEF Frame
    <2>2. stack' \in Seq(Frame)
      BY <1>8, <2>1, PushOpens DEF OpenResult, Shape
    <2> QED
      BY <1>8, <2>2 DEF OpenResult, Shape, reads, results
  <1>9. CASE CloseResult
    <2>1. stack' \in Seq(Frame) /\ Top \in Frame
      BY <1>9, PopKeeps DEF CloseResult, In, Shape
    <2>2. Top.href \in Href
      BY <1>9, <2>1 DEF CloseResult, In, Frame
    <2>3. secondary' \in Seq(Href)
      BY <1>9, <2>2 DEF CloseResult, Shape
    <2>4. pc' # "load"
      BY <1>9 DEF CloseResult
    <2> QED
      BY <1>9, <2>1, <2>3, <2>4 DEF CloseResult, Shape, reads
  <1>10. CASE OpenTry
    <2>1. [kind |-> "try", mark |-> Len(secondary)] \in Frame
      BY DEF Frame, Shape
    <2>2. stack' \in Seq(Frame)
      BY <1>10, <2>1, PushOpens DEF OpenTry, Shape
    <2> QED
      BY <1>10, <2>2 DEF OpenTry, Shape, reads, results
  <1>11. CASE CloseTry
    BY <1>11, PopKeeps DEF CloseTry, In, Shape, reads, results
  <1>12. CASE Catch
    BY <1>12, CatchOpens DEF Catch, Shape, reads, results
  <1>13. CASE Unwind
    BY <1>13, PopKeeps DEF Unwind, Shape, reads, results
  <1>14. CASE RaiseError
    BY <1>14 DEF RaiseError, Shape, reads, results
  <1>15. ASSUME NEW output \in BOOLEAN, Finish(output)
         PROVE  Shape'
    BY <1>15 DEF Finish, Shape, reads
  <1>16. CASE UNCHANGED transformVars
    BY <1>16 DEF transformVars, Shape, reads, results
  <1> QED
    BY <1>1, <1>2, <1>3, <1>4, <1>5, <1>6, <1>7, <1>8, <1>9, <1>10, <1>11,
       <1>12, <1>13, <1>14, <1>15, <1>16 DEF Next, Ended, Store, vars

-----------------------------------------------------------------------------
(* One tree for one call.                                                   *)

LEMMA AnswersInit ==
    ASSUME Init
    PROVE  Answers
    BY DEF Init, Answers

LEMMA CachedAnswers ==
    ASSUME Answers, NEW k, Cached(k)
    PROVE  Answers'
  <1>1. CASE Remembered(k)
    BY <1>1 DEF Answers, Remembered, Deliver
  <1>2. CASE AskResolver(k)
    BY <1>2 DEF Answers, AskResolver
  <1> QED
    BY <1>1, <1>2 DEF Cached

LEMMA AnswersStep ==
    ASSUME Answers, [Next]_vars
    PROVE  Answers'
  <1>1. CASE DocLoaded
    <2>1. pc' # "load" /\ asked \notin DOMAIN docs
      BY <1>1 DEF DocLoaded, RaiseOrFalse, Answers
    <2>2. CASE UNCHANGED <<docs, delivered>>
      BY <2>1, <2>2 DEF Answers
    <2>3. CASE ~UNCHANGED <<docs, delivered>>
      <3> DEFINE id == IF holds[Me] = None THEN current[PathOf[asked]].id
                                           ELSE holds[Me].id
      <3> HIDE DEF id
      <3>1. /\ docs' = [k \in DOMAIN docs \cup {asked} |->
                            IF k = asked THEN id ELSE docs[k]]
            /\ delivered' = delivered \cup {[key |-> asked, tree |-> id]}
        BY <1>1, <2>3 DEF DocLoaded, Deliver, id
      <3>2. ASSUME NEW d \in delivered'
            PROVE  d.key \in DOMAIN docs' /\ docs'[d.key] = d.tree
        <4>1. CASE d \in delivered
          BY <2>1, <3>1, <4>1 DEF Answers
        <4>2. CASE d = [key |-> asked, tree |-> id]
          BY <3>1, <4>2
        <4> QED
          BY <3>1, <4>1, <4>2
      <3>3. ASSUME NEW k \in DOMAIN docs'
            PROVE  \E d \in delivered' : d.key = k
        <4>1. CASE k \in DOMAIN docs
          BY <3>1, <4>1 DEF Answers
        <4>2. CASE k = asked
          <5> DEFINE d == [key |-> asked, tree |-> id]
          <5>1. d \in delivered' /\ d.key = k
            BY <3>1, <4>2
          <5> QED
            BY <5>1
        <4> QED
          BY <3>1, <4>1, <4>2
      <3> QED
        BY <2>1, <3>2, <3>3 DEF Answers
    <2> QED
      BY <2>2, <2>3
  <1>2. ASSUME NEW k, Cached(k)
        PROVE  Answers'
    BY <1>2, CachedAnswers
  <1> DEFINE Aside ==
        /\ UNCHANGED <<docs, delivered>>
        /\ pc' = "load" => pc = "load" /\ UNCHANGED asked
  <1>3. CASE Aside
    BY <1>3 DEF Answers
  <1>4. DocLoaded \/ (\E k : Cached(k)) \/ Aside
    <2>1. CASE UNCHANGED transformVars
      BY <2>1 DEF transformVars, reads
    <2>2. CASE DocFails \/ CloseBurst \/ BurstFails \/ CloseResult
      BY <2>2 DEF DocFails, RaiseOrFalse, CloseBurst, BurstFails, CloseResult,
                  reads
    <2>3. CASE OpenTry \/ CloseTry \/ Catch \/ Unwind \/ RaiseError
      BY <2>3 DEF OpenTry, CloseTry, Catch, Unwind, RaiseError, reads
    <2>4. ASSUME NEW h \in Href, OpenResult(h)
          PROVE  Aside
      BY <2>4 DEF OpenResult, reads
    <2>5. ASSUME NEW output \in BOOLEAN, Finish(output)
          PROVE  Aside
      BY <2>5 DEF Finish, reads
    <2>6. ASSUME NEW k \in Key, NEW kind \in Bursts, OpenBurst(k, kind)
          PROVE  Aside
      BY <2>6 DEF OpenBurst
    <2>7. ASSUME NEW k \in Key, CallDoc(k)
          PROVE  Cached(k)
      BY <2>7 DEF CallDoc
    <2>8. CASE FallBack
      BY <2>8 DEF FallBack
    <2> QED
      BY <2>1, <2>2, <2>3, <2>4, <2>5, <2>6, <2>7, <2>8
         DEF Next, Ended, Store, vars
  <1> QED
    BY <1>1, <1>2, <1>3, <1>4

-----------------------------------------------------------------------------
(* One result for one URI.                                                  *)

LEMMA RecordedInit ==
    ASSUME Init
    PROVE  Recorded /\ OneResultPerUri
    BY DEF Init, Recorded, Written, OneResultPerUri

\* A result document that is recorded has a new href and a new URI.
LEMMA RecordedAppend ==
    ASSUME Shape, Recorded, OneResultPerUri,
           NEW h \in Href,
           secondary' = Append(secondary, h),
           hrefs' = hrefs \cup {h},
           written' = written \cup ({UriOf[h]} \ {None}),
           h \notin hrefs, UriOf[h] \notin written,
           baseUsed' = (baseUsed \/ h = Base),
           pc' # "done"
    PROVE  Recorded' /\ OneResultPerUri'
  <1>0. secondary \in Seq(Href)
    BY DEF Shape
  <1> DEFINE n == Len(secondary) + 1
  <1>1. /\ \A i \in DOMAIN secondary : i \in DOMAIN secondary'
                                       /\ secondary'[i] = secondary[i]
        /\ secondary'[n] = h /\ n \in DOMAIN secondary'
        /\ \A i \in DOMAIN secondary' : i \in DOMAIN secondary \/ i = n
    BY <1>0, Pushed
  <1> HIDE DEF n
  <1>2. hrefs' = {secondary'[i] : i \in DOMAIN secondary'}
    BY <1>1 DEF Recorded
  <1>3. written' = Written'
    BY <1>1 DEF Recorded, Written
  <1>4. ASSUME NEW i \in DOMAIN secondary
        PROVE  /\ secondary[i] # h
               /\ UriOf[secondary[i]] # UriOf[h] \/ UriOf[h] = None
    BY <1>4 DEF Recorded, Written
  <1>5. OneResultPerUri'
    BY <1>1, <1>4 DEF OneResultPerUri
  <1> QED
    BY <1>2, <1>3, <1>5 DEF Recorded

LEMMA RecordedStep ==
    ASSUME Shape, Recorded, OneResultPerUri, [Next]_vars
    PROVE  Recorded' /\ OneResultPerUri'
  <1> DEFINE Aside == /\ UNCHANGED <<secondary, hrefs, written, baseUsed>>
                      /\ pc' = "done" => UNCHANGED <<pc, principal>>
  <1>1. CASE Aside
    BY <1>1 DEF Recorded, Written, OneResultPerUri
  <1>2. CASE CloseResult
    <2> DEFINE h == Top.href
    <2>1. h \in Href
      <3>1. Top \in Frame
        BY <1>2, PopKeeps DEF CloseResult, In, Shape
      <3> QED
        BY <1>2, <3>1 DEF CloseResult, In, Frame
    <2>2. baseUsed' = (baseUsed \/ h = Base) /\ pc' # "done"
      BY <1>2 DEF CloseResult
    <2>3. CASE Refused(h)
      BY <1>2, <2>2, <2>3 DEF CloseResult, Recorded, Written, OneResultPerUri
    <2>4. CASE ~Refused(h)
      <3>1. /\ secondary' = Append(secondary, h)
            /\ hrefs' = hrefs \cup {h}
            /\ written' = written \cup ({UriOf[h]} \ {None})
        BY <1>2, <2>4 DEF CloseResult
      <3> QED
        BY <2>1, <2>2, <2>4, <3>1, RecordedAppend DEF Refused
    <2> QED
      BY <2>3, <2>4
  <1>3. ASSUME NEW output \in BOOLEAN, Finish(output)
        PROVE  Recorded' /\ OneResultPerUri'
    <2>1. UNCHANGED <<secondary, hrefs, written, baseUsed>>
      BY <1>3 DEF Finish
    <2>2. pc' = "done" /\ principal' => ~baseUsed
      BY <1>3 DEF Finish
    <2>3. ASSUME pc' = "done", principal', NEW i \in DOMAIN secondary
          PROVE  secondary[i] # Base
      BY <2>2, <2>3 DEF Recorded
    <2> QED
      BY <2>1, <2>2, <2>3 DEF Recorded, Written, OneResultPerUri
  <1>4. CloseResult \/ (\E output \in BOOLEAN : Finish(output)) \/ Aside
    <2>1. CASE UNCHANGED transformVars
      BY <2>1 DEF transformVars, results
    <2>2. CASE DocLoaded \/ DocFails \/ CloseBurst \/ BurstFails
      BY <2>2 DEF DocLoaded, DocFails, RaiseOrFalse, CloseBurst, BurstFails,
                  results
    <2>3. CASE OpenTry \/ CloseTry \/ Catch \/ Unwind \/ RaiseError
      BY <2>3 DEF OpenTry, CloseTry, Catch, Unwind, RaiseError, results
    <2>4. ASSUME NEW h \in Href, OpenResult(h)
          PROVE  Aside
      BY <2>4 DEF OpenResult, results
    <2>5. ASSUME NEW k \in Key, NEW kind \in Bursts, OpenBurst(k, kind)
          PROVE  Aside
      BY <2>5 DEF OpenBurst, results, Instructs
    <2>6. ASSUME NEW k \in Key, CallDoc(k)
          PROVE  Aside
      BY <2>6 DEF CallDoc, Cached, Remembered, AskResolver, results
    <2>7. CASE FallBack
      BY <2>7 DEF FallBack, Cached, Remembered, AskResolver, results
    <2> QED
      BY <2>1, <2>2, <2>3, <2>4, <2>5, <2>6, <2>7
         DEF Next, Ended, Store, vars
  <1> QED
    BY <1>1, <1>2, <1>3, <1>4

-----------------------------------------------------------------------------
(* Reads and writes.                                                        *)

LEMMA LedgerInit ==
    ASSUME Init
    PROVE  Ledger
    BY DEF Init, Ledger, Read

\* A record of a read is only ever given up for one of being forgotten.
LEMMA UnreadGuards ==
    ASSUME Unread, UNCHANGED written
    PROVE  \A p : Guarded(p) => Guarded(p)'
    BY DEF Unread, Guarded

\* A result document is refused where a record of a read stands.
LEMMA WriteGuards ==
    ASSUME CloseResult
    PROVE  \A p : Guarded(p) => Guarded(p)'
  <1>1. UNCHANGED <<read, forgotten>>
    BY DEF CloseResult, reads
  <1>2. \A p : p \in written' => p \in written \/ p \notin read
    BY DEF CloseResult, Refused
  <1> QED
    BY <1>1, <1>2 DEF Guarded

\* What a call of fn:doc answers from docs was read before.
LEMMA CachedReads ==
    ASSUME Shape, Answers, NEW k \in Key, Cached(k)
    PROVE  \A d \in delivered' : PathOf[d.key] \in Read
  <1>1. CASE Remembered(k)
    <2>1. PICK e \in delivered : e.key = k
      BY <1>1 DEF Remembered, Answers
    <2>2. PathOf[k] \in Read
      BY <2>1 DEF Read
    <2> QED
      BY <1>1, <2>2 DEF Remembered, Deliver, Read
  <1>2. CASE AskResolver(k)
    BY <1>2 DEF AskResolver, Read
  <1> QED
    BY <1>1, <1>2 DEF Cached

\* Guards that stand go on standing, so a step has only to see to the paths it
\* has read and to the burst it has opened.
LEMMA LedgerKept ==
    ASSUME Ledger, \A p : Guarded(p) => Guarded(p)',
           \A p \in Read' : p \in Read \/ Guarded(p)',
           \/ Kept
           \/ \E f : /\ Opened(f)
                     /\ BurstFrame(f) => Guarded(PathOf[f.key])'
    PROVE  Ledger'
  <1>1. \A p \in Read' : Guarded(p)'
    BY DEF Ledger
  <1>2. ASSUME NEW i \in DOMAIN stack'
        PROVE  (BurstFrame(stack[i]) => Guarded(PathOf[stack[i].key]))'
    <2> SUFFICES ASSUME NEW f, stack'[i] = f, BurstFrame(f)
                 PROVE  Guarded(PathOf[f.key])'
      BY DEF BurstFrame, Guarded
    <2>1. CASE i \in DOMAIN stack /\ stack[i] = f
      <3>1. Guarded(PathOf[f.key])
        BY <2>1 DEF Ledger
      <3> QED
        BY <3>1
    <2>2. CASE ~(i \in DOMAIN stack /\ stack[i] = f)
      <3>1. ~Kept
        BY <2>2 DEF Kept
      <3>2. PICK g : Opened(g) /\ (BurstFrame(g) => Guarded(PathOf[g.key])')
        BY <3>1
      <3>3. f = g
        BY <2>2, <3>2 DEF Opened
      <3> QED
        BY <3>2, <3>3
    <2> QED
      BY <2>1, <2>2
  <1> QED
    BY <1>1, <1>2 DEF Ledger

LEMMA LedgerStep ==
    ASSUME Shape, Answers, Ledger, [Next]_vars
    PROVE  Ledger'
  <1> DEFINE SameRecords == UNCHANGED <<read, written, forgotten>>
             SameReads == UNCHANGED <<delivered, streamed>>
             Quiet == SameRecords /\ SameReads
  <1>1. SameRecords => \A p : Guarded(p) => Guarded(p)'
    BY DEF Guarded
  <1>2. SameReads => \A p \in Read' : p \in Read
    BY DEF Read
  <1>3. ASSUME Quiet, Kept
        PROVE  Ledger'
    BY <1>1, <1>2, <1>3, LedgerKept
  <1>4. ASSUME Quiet, NEW f, Opened(f), ~BurstFrame(f)
        PROVE  Ledger'
    BY <1>1, <1>2, <1>4, LedgerKept
  <1>5. ASSUME NEW k \in Key, CallDoc(k)
        PROVE  Ledger'
    <2>1. SameRecords /\ UNCHANGED <<stack, streamed>>
      BY <1>5 DEF CallDoc, results
    <2>2. \A p \in Read' : p \in Read
      <3>1. \A d \in delivered' : PathOf[d.key] \in Read
        BY <1>5, CachedReads DEF CallDoc
      <3> QED
        BY <2>1, <3>1 DEF Read
    <2> QED
      BY <1>1, <2>1, <2>2, SameKeeps, LedgerKept
  <1>6. ASSUME NEW k \in Key, NEW kind \in Bursts, OpenBurst(k, kind)
        PROVE  Ledger'
    <2>1. /\ read' = read \cup {PathOf[k]}
          /\ UNCHANGED <<written, forgotten, delivered, streamed>>
      BY <1>6 DEF OpenBurst, results
    <2>2. \A p : Guarded(p) => Guarded(p)'
      BY <2>1 DEF Guarded
    <2>3. CASE PathOf[k] \in written
      <3>1. UNCHANGED stack
        BY <1>6, <2>3 DEF OpenBurst
      <3> QED
        BY <1>2, <2>1, <2>2, <3>1, SameKeeps, LedgerKept
    <2>4. CASE PathOf[k] \notin written
      <3> DEFINE f == [kind |-> kind, key |-> k, fresh |-> PathOf[k] \notin read]
      <3>1. f \in Frame
        BY DocsAssumption DEF Frame
      <3>2. Opened(f)
        BY <1>6, <2>4, <3>1, PushOpens DEF OpenBurst, Shape
      <3>3. Guarded(PathOf[f.key])'
        BY <2>1, <2>4 DEF Guarded
      <3> QED
        BY <1>2, <2>1, <2>2, <3>2, <3>3, LedgerKept
    <2> QED
      BY <2>3, <2>4
  <1>7. CASE DocLoaded
    <2>1. /\ read' = read \cup {PathOf[asked]}
          /\ UNCHANGED <<stack, written, forgotten, streamed>>
      BY <1>7 DEF DocLoaded, results
    <2>2. \A p : Guarded(p) => Guarded(p)'
      BY <2>1 DEF Guarded
    <2>3. \A d \in delivered' :
            d \in delivered \/ (d.key = asked /\ PathOf[asked] \notin written)
      BY <1>7 DEF DocLoaded, Deliver
    <2>4. \A p \in Read' : p \in Read \/ Guarded(p)'
      BY <2>1, <2>3 DEF Read, Guarded
    <2> QED
      BY <2>1, <2>2, <2>4, SameKeeps, LedgerKept
  <1>8. CASE CloseBurst
    <2>1. Kept /\ Top \in Frame
      BY <1>8, PopKeeps DEF CloseBurst, In, Shape
    <2>2. Guarded(PathOf[Top.key])
      BY <1>8 DEF CloseBurst, In, Ledger, Top, BurstFrame, Shape
    <2>3. /\ SameRecords
          /\ streamed' = streamed \cup {PathOf[Top.key]}
          /\ UNCHANGED delivered
      BY <1>8 DEF CloseBurst, results
    <2>4. \A p \in Read' : p \in Read \/ Guarded(p)'
      BY <1>1, <2>2, <2>3 DEF Read
    <2> QED
      BY <1>1, <2>1, <2>3, <2>4, LedgerKept
  <1>9. CASE FallBack
    <2>1. Kept /\ Top \in Frame
      BY <1>9, PopKeeps DEF FallBack, In, Shape
    <2>2. Top.key \in Key
      BY <1>9, <2>1 DEF FallBack, In, Frame
    <2>3. Unread /\ UNCHANGED <<written, streamed>>
      BY <1>9 DEF FallBack, results
    <2>4. \A d \in delivered' : PathOf[d.key] \in Read
      BY <1>9, <2>2, CachedReads DEF FallBack
    <2>5. \A p \in Read' : p \in Read
      BY <2>3, <2>4 DEF Read
    <2> QED
      BY <2>1, <2>3, <2>5, UnreadGuards, LedgerKept
  <1>10. CASE BurstFails
    <2>1. Kept
      BY <1>10, PopKeeps DEF BurstFails, In, Shape
    <2>2. Unread /\ SameReads /\ UNCHANGED written
      BY <1>10 DEF BurstFails, results
    <2> QED
      BY <1>2, <2>1, <2>2, UnreadGuards, LedgerKept
  <1>11. ASSUME NEW h \in Href, OpenResult(h)
         PROVE  Ledger'
    <2> DEFINE f == [kind |-> "result", href |-> h]
    <2>1. f \in Frame /\ ~BurstFrame(f)
      BY DEF Frame, BurstFrame
    <2>2. Opened(f)
      BY <1>11, <2>1, PushOpens DEF OpenResult, Shape
    <2> HIDE DEF f
    <2> QED
      BY <1>4, <1>11, <2>1, <2>2 DEF OpenResult, reads, results
  <1>12. CASE CloseResult
    <2>1. Kept
      BY <1>12, PopKeeps DEF CloseResult, In, Shape
    <2>2. SameReads
      BY <1>12 DEF CloseResult, reads
    <2> QED
      BY <1>2, <1>12, <2>1, <2>2, WriteGuards, LedgerKept
  <1>13. CASE OpenTry
    <2> DEFINE f == [kind |-> "try", mark |-> Len(secondary)]
    <2>1. f \in Frame /\ ~BurstFrame(f)
      BY DEF Frame, BurstFrame, Shape
    <2>2. Opened(f)
      BY <1>13, <2>1, PushOpens DEF OpenTry, Shape
    <2> HIDE DEF f
    <2> QED
      BY <1>4, <1>13, <2>1, <2>2 DEF OpenTry, reads, results
  <1>14. CASE Catch
    <2>1. PICK f \in Frame : f.kind = "catch" /\ Opened(f)
      BY <1>14, CatchOpens
    <2>2. ~BurstFrame(f)
      BY <2>1 DEF BurstFrame
    <2> QED
      BY <1>4, <1>14, <2>1, <2>2 DEF Catch, reads, results
  <1>15. CASE CloseTry
    BY <1>3, <1>15, PopKeeps DEF CloseTry, In, Shape, reads, results
  <1>16. CASE Unwind
    BY <1>3, <1>16, PopKeeps DEF Unwind, Shape, reads, results
  <1>17. CASE DocFails \/ RaiseError
    BY <1>3, <1>17, SameKeeps DEF DocFails, RaiseError, reads, results
  <1>18. ASSUME NEW output \in BOOLEAN, Finish(output)
         PROVE  Ledger'
    BY <1>3, <1>18, SameKeeps DEF Finish, reads
  <1>19. CASE UNCHANGED transformVars
    BY <1>3, <1>19, SameKeeps DEF transformVars, reads, results
  <1> QED
    BY <1>5, <1>6, <1>7, <1>8, <1>9, <1>10, <1>11, <1>12, <1>13, <1>14,
       <1>15, <1>16, <1>17, <1>18, <1>19 DEF Next, Ended, Store, vars

-----------------------------------------------------------------------------
(* The theorems.                                                            *)

DocsInv == Shape /\ Answers /\ Recorded /\ OneResultPerUri /\ Ledger

LEMMA DocsInvAlways == Spec => []DocsInv
  <1>1. Init => DocsInv
    BY ShapeInit, AnswersInit, RecordedInit, LedgerInit DEF DocsInv
  <1>2. DocsInv /\ [Next]_vars => DocsInv'
    BY ShapeStep, AnswersStep, RecordedStep, LedgerStep DEF DocsInv
  <1> QED
    BY <1>1, <1>2, PTL DEF Spec

\* Whatever other transforms make a shared resolver forget, every fn:doc call
\* of a transform with the same arguments has the same tree
\* (readDocResolver.cached).
THEOREM OneTreePerCall == Spec => []DocStable
  <1>1. DocsInv => DocStable
    BY DEF DocsInv, Answers, DocStable
  <1> QED
    BY <1>1, DocsInvAlways, PTL

\* However deep result documents nest and whatever fails among them, each URI
\* and each href has one at most (resultDocumentInstr.Execute, Transform).
THEOREM OneResult == Spec => []OneResultPerUri
  <1>1. DocsInv => OneResultPerUri
    BY DEF DocsInv
  <1> QED
    BY <1>1, DocsInvAlways, PTL

\* A transform reads no resource it writes, and writes none it reads, but for
\* those whose record went with a burst that was given up (checkReadThenWrite,
\* checkWrittenThenRead, executeBursts).
THEOREM ReadOrWritten == Spec => []ReadXorWritten
  <1>1. DocsInv => ReadXorWritten
    BY DEF DocsInv, Ledger, Guarded, Recorded, ReadXorWritten
  <1> QED
    BY <1>1, DocsInvAlways, PTL

-----------------------------------------------------------------------------
(* The types of the store, and the transform's own load in it.              *)

StoreTypes ==
    /\ DOMAIN current \subseteq Path /\ \A p \in DOMAIN current : current[p] \in Answer
    /\ wants \in [Run -> Ask \cup {None}]
    /\ holds \in [Run -> Answer \cup {None}]

AskOf(k) == [path |-> PathOf[k], pos |-> FALSE, host |-> FALSE]

\* While fn:doc waits, and only then, the store has a request of Me: the one
\* fn:doc made.
OwnLoad ==
    \/ pc = "load" /\ asked \in Key /\ wants[Me] = AskOf(asked)
    \/ pc \in {"run", "raise", "done", "failed"} /\ asked = None /\ wants[Me] = None

DataTypes ==
    /\ \A k \in DOMAIN docs : docs[k] \in Tree
    /\ read \subseteq Path /\ written \subseteq Path /\ hrefs \subseteq Href
    /\ baseUsed \in BOOLEAN /\ principal \in BOOLEAN
    /\ delivered \subseteq [key : Key, tree : Tree]
    /\ streamed \subseteq Path /\ forgotten \subseteq Path

TypeInv == Shape /\ StoreTypes /\ OwnLoad /\ DataTypes

LEMMA AskFacts ==
    ASSUME NEW k \in Key
    PROVE  AskOf(k) \in Ask /\ AskOf(k) # None /\ k # None /\ PathOf[k] \in Path
  <1>1. PathOf[k] \in Path /\ None \notin Path \cup Key \cup Ask
    BY DocsAssumption
  <1>2. AskOf(k) \in Ask
    BY <1>1 DEF AskOf, Ask
  <1> HIDE DEF AskOf
  <1> QED BY <1>1, <1>2

LEMMA TypeInvImplies == TypeInv => TypeOK
  <1> SUFFICES ASSUME TypeInv PROVE TypeOK
    OBVIOUS
  <1>1. /\ pc \in {"run", "load", "raise", "done", "failed"} /\ asked \in Key \cup {None}
        /\ (pc = "load") = (asked # None) /\ (wants[Me] # None) = (pc = "load")
        /\ pc = "load" => wants[Me] = AskOf(asked)
    <2>1. CASE pc = "load"
      BY <2>1, AskFacts DEF TypeInv, OwnLoad
    <2>2. CASE pc # "load"
      BY <2>2 DEF TypeInv, OwnLoad
    <2> QED BY <2>1, <2>2
  <1> QED
    BY <1>1 DEF TypeInv, Shape, DataTypes, TypeOK, AskOf

LEMMA TypeInvInit ==
    ASSUME Init
    PROVE  TypeInv
  <1>1. StoreTypes
    BY DEF Init, StoreInit, StoreTypes
  <1>2. OwnLoad
    BY DocsAssumption DEF Init, StoreInit, OwnLoad
  <1>3. DataTypes
    <2>1. docs = << >> /\ \A k \in DOMAIN docs : docs[k] \in Tree
      BY DEF Init
    <2>2. baseUsed = FALSE /\ principal = FALSE
      BY DEF Init
    <2>3. /\ read = {} /\ written = {} /\ hrefs = {}
          /\ delivered = {} /\ streamed = {} /\ forgotten = {}
      BY DEF Init
    <2> QED BY <2>1, <2>2, <2>3 DEF DataTypes
  <1> QED BY <1>1, <1>2, <1>3, ShapeInit DEF TypeInv

\* What a step of the store does to its types, and to the request of a run
\* that takes no part in it.
LEMMA RequestTypes ==
    ASSUME StoreTypes, NEW r \in Run, NEW ask \in Ask, Request(r, ask)
    PROVE  /\ StoreTypes' /\ wants'[r] = ask
           /\ \A s \in Run \ {r} : wants'[s] = wants[s]
    BY DEF Request, StoreTypes

LEMMA ReturnTypes ==
    ASSUME StoreTypes, NEW r \in Run, Hit(r) \/ Reply(r) \/ Fail(r)
    PROVE  /\ StoreTypes' /\ wants'[r] = None
           /\ \A s \in Run \ {r} : wants'[s] = wants[s]
  <1>1. /\ wants' = [wants EXCEPT ![r] = None] /\ UNCHANGED current
        /\ holds' = holds \/ holds' = [holds EXCEPT ![r] = None]
    BY DEF Hit, Reply, Fail, Returns
  <1> QED BY <1>1 DEF StoreTypes

\* Only the host's Preload ends when its tree is made: a load waits for it.
LEMMA MakeTypes ==
    ASSUME StoreTypes, NEW r \in Run, NEW id \in Tree, Make(r, id)
    PROVE  /\ StoreTypes'
           /\ \A s \in Run : (s # r \/ ~wants[s].host) => wants'[s] = wants[s]
  <1> DEFINE ask == wants[r]
             t == [id |-> id, pos |-> ask.pos, host |-> ask.host]
  <1>1. ask \in Ask
    BY DEF Make, Making, StoreTypes
  <1>2. t \in Answer /\ ask.path \in Path
    BY <1>1 DEF Ask, Answer
  <1>3. /\ \/ UNCHANGED current
           \/ current' = [p \in DOMAIN current \cup {ask.path} |->
                            IF p = ask.path THEN t ELSE current[p]]
        /\ IF ask.host
           THEN wants' = [wants EXCEPT ![r] = None] /\ UNCHANGED holds
           ELSE holds' = [holds EXCEPT ![r] = t] /\ UNCHANGED wants
    BY DEF Make
  <1> HIDE DEF t
  <1>4. DOMAIN current' \subseteq Path /\ \A p \in DOMAIN current' : current'[p] \in Answer
    BY <1>2, <1>3 DEF StoreTypes
  <1>5. wants' \in [Run -> Ask \cup {None}] /\ holds' \in [Run -> Answer \cup {None}]
    BY <1>2, <1>3 DEF StoreTypes
  <1>6. \A s \in Run : (s # r \/ ~wants[s].host) => wants'[s] = wants[s]
    BY <1>3 DEF StoreTypes
  <1> QED BY <1>4, <1>5, <1>6 DEF StoreTypes

LEMMA RoomTypes ==
    ASSUME StoreTypes,
           (\E r \in Run : Supersede(r)) \/ (\E p \in Path : Evict(p))
    PROVE  StoreTypes' /\ UNCHANGED wants
  <1>1. UNCHANGED <<wants, holds>>
        /\ \E q : current' = [p \in DOMAIN current \ {q} |-> current[p]]
    BY DEF Supersede, Evict
  <1> QED BY <1>1 DEF StoreTypes

\* The resolver and the other transforms leave the transform's request alone.
LEMMA StoreStepTypes ==
    ASSUME StoreTypes, OwnLoad, Store
    PROVE  StoreTypes' /\ OwnLoad'
  <1>1. UNCHANGED <<pc, asked>>
    BY DEF Store, transformVars
  <1>2. SUFFICES StoreTypes' /\ wants'[Me] = wants[Me]
    BY <1>1, <1>2 DEF OwnLoad
  <1>3. ASSUME NEW r \in Run, NEW id \in Tree, Make(r, id)
        PROVE  StoreTypes' /\ wants'[Me] = wants[Me]
    <2>1. r = Me => ~wants[Me].host
      BY <1>3 DEF Make, Making, OwnLoad, AskOf
    <2> QED BY <1>3, <2>1, MakeTypes, DocsAssumption
  <1>4. ASSUME NEW r \in Run \ {Me}, NEW ask \in Elsewhere, Request(r, ask)
        PROVE  StoreTypes' /\ wants'[Me] = wants[Me]
    BY <1>4, RequestTypes, DocsAssumption
  <1>5. ASSUME NEW r \in Run \ {Me}, Hit(r) \/ Reply(r) \/ Fail(r)
        PROVE  StoreTypes' /\ wants'[Me] = wants[Me]
    BY <1>5, ReturnTypes, DocsAssumption
  <1>6. CASE (\E r \in Run : Supersede(r)) \/ (\E p \in Path : Evict(p))
    BY <1>6, RoomTypes
  <1> QED BY <1>3, <1>4, <1>5, <1>6 DEF Store

LEMMA CachedTypes ==
    ASSUME StoreTypes, pc # "load", OwnLoad, DataTypes, NEW k \in Key, Cached(k)
    PROVE  /\ StoreTypes' /\ OwnLoad'
           /\ \A j \in DOMAIN docs' : docs'[j] \in Tree
           /\ delivered' \subseteq [key : Key, tree : Tree]
  <1>1. CASE Remembered(k)
    <2>1. docs[k] \in Tree /\ [key |-> k, tree |-> docs[k]] \in [key : Key, tree : Tree]
      BY <1>1 DEF Remembered, DataTypes
    <2> QED
      BY <1>1, <2>1 DEF Remembered, Deliver, storeVars, StoreTypes, OwnLoad, DataTypes
  <1>2. CASE AskResolver(k)
    <2>1. StoreTypes' /\ wants'[Me] = AskOf(k)
      BY <1>2, AskFacts, RequestTypes, DocsAssumption DEF AskResolver, AskOf
    <2> QED
      BY <1>2, <2>1 DEF AskResolver, OwnLoad, DataTypes
  <1> QED BY <1>1, <1>2 DEF Cached

\* The answer is the tree the store stands by for the path, or the one it made.
LEMMA LoadedTypes ==
    ASSUME TypeInv, DocLoaded
    PROVE  StoreTypes' /\ OwnLoad' /\ DataTypes'
  <1> DEFINE p == PathOf[asked]
             id == IF holds[Me] = None THEN current[p].id ELSE holds[Me].id
  <1>1. /\ pc = "load" /\ asked \in Key /\ wants[Me] = AskOf(asked)
        /\ StoreTypes /\ DataTypes /\ Me \in Run
    BY DocsAssumption DEF DocLoaded, TypeInv, OwnLoad
  <1>2. StoreTypes' /\ wants'[Me] = None
    BY <1>1, ReturnTypes DEF DocLoaded
  <1>3. id \in Tree
    <2>1. CASE Hit(Me)
      <3>1. holds[Me] = None /\ p \in DOMAIN current
        BY <1>1, <2>1 DEF Hit, Loading, Making, AskOf
      <3>2. current[p] \in Answer
        BY <1>1, <3>1 DEF StoreTypes
      <3> QED BY <3>1, <3>2 DEF Answer
    <2>2. CASE Reply(Me)
      <3>1. holds[Me] # None /\ holds[Me] \in Answer
        BY <1>1, <2>2 DEF Reply, StoreTypes
      <3> QED BY <3>1 DEF Answer
    <2> QED BY <2>1, <2>2 DEF DocLoaded
  <1>4. p \in Path
    BY <1>1, AskFacts
  <1>5. /\ read' = read \cup {p} /\ asked' = None
        /\ IF p \in written
           THEN pc' \in {"raise", "run"} /\ UNCHANGED <<docs, delivered>>
           ELSE /\ pc' = "run"
                /\ docs' = [k \in DOMAIN docs \cup {asked} |->
                                IF k = asked THEN id ELSE docs[k]]
                /\ delivered' = delivered \cup {[key |-> asked, tree |-> id]}
        /\ UNCHANGED <<streamed, forgotten, written, hrefs, baseUsed, secondary, principal>>
    BY DEF DocLoaded, RaiseOrFalse, Deliver, results
  <1> HIDE DEF id, p
  <1>6. OwnLoad'
    BY <1>2, <1>5 DEF OwnLoad
  <1>7. \A k \in DOMAIN docs' : docs'[k] \in Tree
    BY <1>1, <1>3, <1>5 DEF DataTypes
  <1>8. delivered' \subseteq [key : Key, tree : Tree]
    BY <1>1, <1>3, <1>5 DEF DataTypes
  <1> QED BY <1>1, <1>2, <1>4, <1>5, <1>6, <1>7, <1>8 DEF DataTypes

LEMMA TypesStep ==
    ASSUME TypeInv, [Next]_vars
    PROVE  StoreTypes' /\ OwnLoad' /\ DataTypes'
  <1> USE DEF TypeInv
  <1>1. ASSUME NEW k \in Key, CallDoc(k)
        PROVE  StoreTypes' /\ OwnLoad' /\ DataTypes'
    BY <1>1, CachedTypes DEF CallDoc, DataTypes, results
  <1>2. ASSUME NEW k \in Key, NEW kind \in Bursts, OpenBurst(k, kind)
        PROVE  StoreTypes' /\ OwnLoad' /\ DataTypes'
    <2>1. PathOf[k] \in Path
      BY AskFacts
    <2> QED BY <1>2, <2>1
            DEF OpenBurst, Instructs, storeVars, StoreTypes, OwnLoad, DataTypes, results
  <1>3. CASE DocLoaded
    BY <1>3, LoadedTypes
  <1>4. CASE DocFails
    <2>1. StoreTypes' /\ wants'[Me] = None
      BY <1>4, ReturnTypes, DocsAssumption DEF DocFails
    <2> QED BY <1>4, <2>1 DEF DocFails, RaiseOrFalse, OwnLoad, DataTypes, reads, results
  <1>5. ASSUME In({"items", "read"})
        PROVE  Top \in Frame /\ Top.key \in Key /\ PathOf[Top.key] \in Path
    <2>1. Top \in Frame
      BY <1>5, Popped DEF In, Top, Shape
    <2>2. Top.key \in Key
      BY <1>5, <2>1 DEF In, Frame
    <2> QED BY <2>1, <2>2, AskFacts
  <1>6. CASE CloseBurst
    BY <1>5, <1>6 DEF CloseBurst, storeVars, StoreTypes, OwnLoad, DataTypes, results
  <1>7. ASSUME In({"items", "read"}), Unread
        PROVE  read' \subseteq Path /\ forgotten' \subseteq Path
    BY <1>5, <1>7 DEF Unread, DataTypes
  <1>8. CASE FallBack
    <2>1. In({"items", "read"}) /\ pc # "load"
      BY <1>8 DEF FallBack, In
    <2>2. /\ StoreTypes' /\ OwnLoad'
          /\ \A j \in DOMAIN docs' : docs'[j] \in Tree
          /\ delivered' \subseteq [key : Key, tree : Tree]
      BY <1>5, <1>8, <2>1, CachedTypes DEF FallBack
    <2> QED BY <1>7, <1>8, <2>1, <2>2 DEF FallBack, DataTypes, results
  <1>9. CASE BurstFails
    <2>1. In({"items", "read"})
      BY <1>9 DEF BurstFails, In
    <2> QED BY <1>7, <1>9, <2>1
            DEF BurstFails, storeVars, StoreTypes, OwnLoad, DataTypes, results
  <1>10. CASE CloseResult
    <2>1. Top.href \in Href
      <3>1. Top \in Frame
        BY <1>10, Popped DEF CloseResult, In, Top, Shape
      <3> QED BY <1>10, <3>1 DEF CloseResult, In, Frame
    <2>2. UriOf[Top.href] \in Path \cup {None}
      BY <2>1, DocsAssumption
    <2>3. hrefs' \subseteq Href /\ written' \subseteq Path
      BY <1>10, <2>1, <2>2 DEF CloseResult, DataTypes
    <2>4. baseUsed' \in BOOLEAN
      BY <1>10 DEF CloseResult
    <2>5. pc = "run" /\ pc' \in {"run", "raise"}
      BY <1>10 DEF CloseResult
    <2> QED BY <1>10, <2>3, <2>4, <2>5
            DEF CloseResult, storeVars, StoreTypes, OwnLoad, DataTypes, reads
  <1>11. CASE \/ \E h \in Href : OpenResult(h)
              \/ OpenTry \/ CloseTry \/ Catch \/ Unwind \/ RaiseError
    <2>1. pc \in {"run", "raise"} /\ pc' \in {"run", "raise"} /\ UNCHANGED <<storeVars, asked, reads, results>>
      BY <1>11 DEF OpenResult, OpenTry, CloseTry, Catch, Unwind, RaiseError, Instructs, In
    <2> QED BY <2>1 DEF storeVars, StoreTypes, OwnLoad, DataTypes, reads, results
  <1>12. ASSUME NEW output \in BOOLEAN, Finish(output)
         PROVE  StoreTypes' /\ OwnLoad' /\ DataTypes'
    <2>1. /\ pc \in {"run", "raise"} /\ pc' \in {"done", "failed"} /\ principal' \in BOOLEAN
          /\ UNCHANGED <<storeVars, asked, reads, written, hrefs, baseUsed>>
      BY <1>12 DEF Finish, DataTypes
    <2> QED BY <2>1 DEF storeVars, StoreTypes, OwnLoad, DataTypes, reads
  <1>13. CASE Ended \/ UNCHANGED vars
    BY <1>13 DEF Ended, vars, transformVars, storeVars, StoreTypes, OwnLoad, DataTypes,
                 reads, results
  <1>14. CASE Store
    BY <1>14, StoreStepTypes DEF Store, transformVars, DataTypes, reads, results
  <1> QED
    BY <1>1, <1>2, <1>3, <1>4, <1>6, <1>8, <1>9, <1>10, <1>11, <1>12, <1>13, <1>14 DEF Next

\* Every variable has its type, and the one request the transform has in the
\* resolver is that of the fn:doc call it waits in (readDocResolver.cached).
THEOREM TypeCorrect == Spec => []TypeOK
  <1>1. Init => TypeInv
    BY TypeInvInit
  <1>2. TypeInv /\ [Next]_vars => TypeInv'
    BY ShapeStep, TypesStep DEF TypeInv
  <1> QED
    BY <1>1, <1>2, TypeInvImplies, PTL DEF Spec
=============================================================================
