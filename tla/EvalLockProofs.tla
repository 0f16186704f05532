--------------------------- MODULE EvalLockProofs ---------------------------
(***************************************************************************)
(* Proofs about EvalLock: its types, that the lock's own fields agree      *)
(* with the frames of the goroutines, and that one of them evaluates.      *)
(***************************************************************************)
EXTENDS EvalLock, SequenceTheorems, TLAPS

-----------------------------------------------------------------------------
(* The frames of a goroutine.                                               *)

LEMMA GoroutineFacts == Main \in Goroutines /\ None \notin Goroutines
BY EvalLockAssumption DEF Goroutines

\* The innermost frame of a goroutine that has one.
LEMMA TopFacts ==
    ASSUME NEW s \in Seq(Frame), s # <<>>
    PROVE  /\ Len(s) \in Nat \ {0}
           /\ s[Len(s)] \in Frame
<1>1. Len(s) \in Nat /\ Len(s) # 0
  OBVIOUS
<1> QED BY <1>1

\* A frame begins: the others stay as they were.
LEMMA PushFacts ==
    ASSUME NEW s \in Seq(Frame), NEW f \in Frame
    PROVE  /\ Append(s, f) \in Seq(Frame)
           /\ Append(s, f) # <<>>
           /\ Len(Append(s, f)) = Len(s) + 1
           /\ Append(s, f)[Len(s) + 1] = f
           /\ \A i \in 1..Len(s) : Append(s, f)[i] = s[i]
OBVIOUS

\* A frame ends: the others stay as they were.
LEMMA PopFacts ==
    ASSUME NEW s \in Seq(Frame), s # <<>>
    PROVE  LET t == SubSeq(s, 1, Len(s) - 1)
           IN  /\ t \in Seq(Frame)
               /\ Len(t) = Len(s) - 1
               /\ \A i \in 1..Len(t) : t[i] = s[i]
<1>1. Len(s) \in Nat /\ Len(s) # 0
  OBVIOUS
<1>2. \A i \in 1..(Len(s) - 1) : s[i] \in Frame
  BY <1>1
<1> DEFINE n == Len(s) - 1
<1>3. n \in Nat /\ 1 \in Int /\ n \in Int
  BY <1>1
<1>4. /\ SubSeq(s, 1, n) \in Seq(Frame)
      /\ Len(SubSeq(s, 1, n)) = IF 1 <= n THEN n - 1 + 1 ELSE 0
      /\ \A i \in 1..(n - 1 + 1) : SubSeq(s, 1, n)[i] = s[1 + i - 1]
  <2> HIDE DEF n
  <2> QED BY <1>2, <1>3, SubSeqProperties DEF n
<1>5. Len(SubSeq(s, 1, n)) = n
  <2> HIDE DEF n
  <2>1. CASE 1 <= n
    BY <1>3, <1>4, <2>1
  <2>2. CASE ~(1 <= n)
    BY <1>3, <1>4, <2>2
  <2> QED BY <2>1, <2>2
<1>6. ASSUME NEW i \in 1..n PROVE SubSeq(s, 1, n)[i] = s[i]
  <2>1. i \in 1..(n - 1 + 1) /\ 1 + i - 1 = i
    BY <1>3, <1>6
  <2> QED BY <1>4, <2>1
<1> QED BY <1>4, <1>5, <1>6

LEMMA PopType ==
    ASSUME NEW s \in Seq(Frame)
    PROVE  SubSeq(s, 1, Len(s) - 1) \in Seq(Frame)
<1>1. CASE s = <<>>
  <2>1. Len(s) = 0 /\ Len(s) - 1 \in Int /\ 1 \in Int /\ Len(s) - 1 < 1
    BY <1>1
  <2>2. SubSeq(s, 1, Len(s) - 1) = <<>>
    BY <2>1, SubSeqEmpty
  <2> QED BY <2>2
<1>2. CASE s # <<>>
  BY <1>2, PopFacts
<1> QED BY <1>1, <1>2

\* One frame is replaced.
LEMMA SetFacts ==
    ASSUME NEW s \in Seq(Frame), NEW i \in 1..Len(s), NEW f \in Frame
    PROVE  /\ [s EXCEPT ![i] = f] \in Seq(Frame)
           /\ [s EXCEPT ![i] = f] # <<>>
           /\ Len([s EXCEPT ![i] = f]) = Len(s)
           /\ [s EXCEPT ![i] = f][i] = f
           /\ \A j \in 1..Len(s) : j # i => [s EXCEPT ![i] = f][j] = s[j]
OBVIOUS

\* What remains of g's frames when the innermost ends, an error raised or not.
LEMMA BelowFacts ==
    ASSUME NEW g \in Goroutines, stack[g] \in Seq(Frame), stack[g] # <<>>, NEW raised
    PROVE  /\ Below(g, raised) \in Seq(Frame)
           /\ Len(Below(g, raised)) = Depth(g) - 1
           /\ \A i \in 1..(Depth(g) - 1) :
                 /\ Below(g, raised)[i].k = stack[g][i].k
                 /\ Below(g, raised)[i].v = stack[g][i].v
                 /\ Below(g, raised)[i].rel = stack[g][i].rel
                 /\ Below(g, raised)[i].ev = stack[g][i].ev
                 /\ Below(g, raised)[i].susp = stack[g][i].susp
                 /\ Below(g, raised)[i].off = stack[g][i].off
                 /\ stack[g][i].k \notin raised \/ i # Depth(g) - 1 =>
                       Below(g, raised)[i].bad = stack[g][i].bad
<1> DEFINE s == Popped(g)
<1>1. /\ s \in Seq(Frame)
      /\ Len(s) = Depth(g) - 1
      /\ \A i \in 1..Len(s) : s[i] = stack[g][i]
  BY PopFacts DEF Popped, Depth
<1>2. CASE s # <<>> /\ s[Len(s)].k \in raised
  <2>1. Below(g, raised) = [s EXCEPT ![Len(s)].bad = TRUE]
    BY <1>2 DEF Below
  <2>2. s[Len(s)] \in Frame /\ Len(s) \in 1..Len(s)
    BY <1>1, <1>2, TopFacts
  <2>3. [s[Len(s)] EXCEPT !.bad = TRUE] \in Frame
    BY <2>2 DEF Frame
  <2>4. Below(g, raised) = [s EXCEPT ![Len(s)] = [s[Len(s)] EXCEPT !.bad = TRUE]]
    BY <2>1
  <2>5. /\ Below(g, raised) \in Seq(Frame)
        /\ Len(Below(g, raised)) = Len(s)
        /\ Below(g, raised)[Len(s)] = [s[Len(s)] EXCEPT !.bad = TRUE]
        /\ \A j \in 1..Len(s) : j # Len(s) => Below(g, raised)[j] = s[j]
    BY <1>1, <2>2, <2>3, <2>4, SetFacts
  <2>6. /\ Below(g, raised)[Len(s)].k = s[Len(s)].k
        /\ Below(g, raised)[Len(s)].v = s[Len(s)].v
        /\ Below(g, raised)[Len(s)].rel = s[Len(s)].rel
        /\ Below(g, raised)[Len(s)].ev = s[Len(s)].ev
        /\ Below(g, raised)[Len(s)].susp = s[Len(s)].susp
        /\ Below(g, raised)[Len(s)].off = s[Len(s)].off
    BY <2>2, <2>5 DEF Frame
  <2> QED BY <1>1, <1>2, <2>2, <2>5, <2>6
<1>3. CASE ~(s # <<>> /\ s[Len(s)].k \in raised)
  <2>1. Below(g, raised) = s
    BY <1>3 DEF Below
  <2> QED BY <1>1, <2>1
<1> QED BY <1>2, <1>3

-----------------------------------------------------------------------------
(* Type correctness.                                                        *)

LEMMA FrameFacts ==
    /\ \A v \in Vars : NewFrame("get", v) \in Frame
    /\ \A k \in {"eval", "call", "host"} : NewFrame(k, None) \in Frame
    /\ \A r, e, s, j \in BOOLEAN : HostFrame(r, e, s, j) \in Frame
    /\ NoWant \in Frame
    /\ \A f \in Frame, b \in BOOLEAN :
          /\ [f EXCEPT !.off = b] \in Frame
          /\ [f EXCEPT !.rel = TRUE] \in Frame
          /\ [f EXCEPT !.bad = b] \in Frame
BY DEF Frame, Kinds, NewFrame, HostFrame, NoWant

\* A Lock leaves the frames, the positions and the wants well typed.
LEMMA LockType ==
    ASSUME TypeOK, NEW g \in Goroutines, NEW f \in Frame, Lock(g, f)
    PROVE  /\ stack' \in [Goroutines -> Seq(Frame)]
           /\ pc' \in [Goroutines -> {"run", "lock", "locked", "unlock"}]
           /\ want' \in [Goroutines -> Frame]
<1>1. [f EXCEPT !.off = off] \in Frame /\ [f EXCEPT !.rel = TRUE] \in Frame
  BY FrameFacts DEF TypeOK
<1>2. stack[g] \in Seq(Frame)
  BY DEF TypeOK
<1>3. Pushed(g, [f EXCEPT !.off = off]) \in Seq(Frame)
  BY <1>1, <1>2, PushFacts DEF Pushed
<1>4. CASE shared /\ owner # g
  <2>1. /\ pc' = [pc EXCEPT ![g] = "lock"]
        /\ want' = [want EXCEPT ![g] = [f EXCEPT !.rel = TRUE]]
        /\ stack' = stack
    BY <1>4 DEF Lock, LockIf
  <2> QED BY <1>1, <2>1 DEF TypeOK
<1>5. CASE ~(shared /\ owner # g)
  <2>1. /\ stack' = [stack EXCEPT ![g] = Pushed(g, [f EXCEPT !.off = off])]
        /\ pc' = pc
        /\ want' = want
    BY <1>5 DEF Lock, LockIf
  <2> QED BY <1>3, <2>1 DEF TypeOK
<1> QED BY <1>4, <1>5

\* The end of a frame does too, and leaves the rest of what Return changes
\* well typed.
LEMMA ReturnType ==
    ASSUME TypeOK, NEW g \in Goroutines, NEW raised, stack[g] # <<>>, Return(g, raised)
    PROVE  /\ shared' = shared /\ mu' = mu /\ evaluating' = evaluating
           /\ off' = off /\ escaped' = escaped /\ want' = want
           /\ owner' \in Goroutines \cup {None}
           /\ stack' \in [Goroutines -> Seq(Frame)]
           /\ pc' \in [Goroutines -> {"run", "lock", "locked", "unlock"}]
<1>1. Below(g, raised) \in Seq(Frame)
  BY BelowFacts DEF TypeOK
<1>2. stack' = [stack EXCEPT ![g] = Below(g, raised)]
  BY DEF Return
<1>3. stack' \in [Goroutines -> Seq(Frame)]
  BY <1>1, <1>2 DEF TypeOK
<1> QED BY <1>3 DEF Return, LetGo, TypeOK

LEMMA TopType ==
    ASSUME TypeOK, NEW g \in Goroutines, stack[g] # <<>>
    PROVE  Top(g) \in Frame
BY TopFacts DEF TypeOK, Top, Depth

LEMMA TypeStep == TypeOK /\ [Next]_vars => TypeOK'
<1> SUFFICES ASSUME TypeOK, [Next]_vars
             PROVE  TypeOK'
  OBVIOUS
<1> USE GoroutineFacts
<1>1. ASSUME NEW g \in Goroutines, CallItem(g) PROVE TypeOK'
  <2>1. NewFrame("call", None) \in Frame
    BY FrameFacts DEF Kinds
  <2>2. Lock(g, NewFrame("call", None))
    BY <1>1 DEF CallItem
  <2> QED BY <1>1, <2>1, <2>2, LockType DEF CallItem, TypeOK, lockVars, varVars
<1>2. ASSUME NEW g \in Goroutines, CallReturn(g) PROVE TypeOK'
  <2>1. stack[g] # <<>> /\ Return(g, {}) /\ UNCHANGED varVars
    BY <1>2 DEF CallReturn, Uses
  <2> QED BY <2>1, ReturnType DEF TypeOK, varVars
<1>3. ASSUME NEW g \in Goroutines, NEW v \in Vars, ReadVar(g, v) PROVE TypeOK'
  <2>1. NewFrame("get", v) \in Frame
    BY FrameFacts DEF Kinds
  <2>2. Lock(g, NewFrame("get", v))
    BY <1>3 DEF ReadVar
  <2> QED BY <1>3, <2>1, <2>2, LockType DEF ReadVar, TypeOK, lockVars, varVars
<1>4. ASSUME NEW g \in Goroutines, GetVar(g) PROVE TypeOK'
  <2> DEFINE v == Top(g).v
  <2>1. stack[g] # <<>> /\ Top(g).k = "get"
    BY <1>4 DEF GetVar, GetVarBy, Uses
  <2>2. CASE Return(g, {}) /\ UNCHANGED varVars
    BY <2>1, <2>2, ReturnType DEF TypeOK, varVars
  <2>3. CASE Return(g, {"force"}) /\ UNCHANGED varVars
    BY <2>1, <2>3, ReturnType DEF TypeOK, varVars
  <2>4. CASE /\ state[v] = "pending"
             /\ state' = [state EXCEPT ![v] = "running"]
             /\ stack' = [stack EXCEPT
                    ![g][Depth(g)] = [Top(g) EXCEPT !.k = "force",
                                                    !.bad = (v \in kept)]]
             /\ UNCHANGED <<lockVars, off, kept, primed, phase, escaped, pc, want>>
    <3> DEFINE f == [Top(g) EXCEPT !.k = "force", !.bad = (v \in kept)]
    <3>1. Top(g) \in Frame /\ Top(g).v \in Vars
      BY <2>1, TopType DEF Frame
    <3>2. f \in Frame
      <4>1. (v \in kept) \in BOOLEAN
        OBVIOUS
      <4> QED BY <3>1, <4>1 DEF Frame, Kinds
    <3>3. stack[g] \in Seq(Frame) /\ Depth(g) \in 1..Len(stack[g])
      BY <2>1, TopFacts DEF TypeOK, Depth
    <3>4. stack' = [stack EXCEPT ![g] = [stack[g] EXCEPT ![Depth(g)] = f]]
      BY <2>4
    <3>5. stack' \in [Goroutines -> Seq(Frame)]
      <4> HIDE DEF f
      <4>1. [stack[g] EXCEPT ![Depth(g)] = f] \in Seq(Frame)
        BY <3>2, <3>3, SetFacts
      <4> QED BY <3>4, <4>1 DEF TypeOK
    <3> QED BY <2>4, <3>5 DEF TypeOK, lockVars
  <2> QED BY <1>4, <2>2, <2>3, <2>4 DEF GetVar, GetVarBy
<1>5. ASSUME NEW g \in Goroutines, ForceOk(g) PROVE TypeOK'
  <2>1. stack[g] # <<>> /\ Return(g, {})
    BY <1>5 DEF ForceOk, Uses
  <2>2. /\ state' = [state EXCEPT ![Top(g).v] = "done"]
        /\ UNCHANGED <<kept, primed, phase>>
    BY <1>5 DEF ForceOk
  <2> QED BY <2>1, <2>2, ReturnType DEF TypeOK
<1>6. ASSUME NEW g \in Goroutines, ForceFail(g) PROVE TypeOK'
  <2>1. PICK raised : stack[g] # <<>> /\ Return(g, raised)
    BY <1>6 DEF ForceFail, Uses
  <2>2. /\ state' = [state EXCEPT ![Top(g).v] = "pending"]
        /\ kept' = kept \cup {Top(g).v}
        /\ UNCHANGED <<primed, phase>>
    BY <1>6 DEF ForceFail
  <2>3. Top(g).v \in Vars
    BY <1>6, <2>1, TopType DEF ForceFail, Frame
  <2> QED BY <2>1, <2>2, <2>3, ReturnType DEF TypeOK
<1>7. ASSUME NEW g \in Goroutines, NEW join \in BOOLEAN, HostCall(g, join) PROVE TypeOK'
  <2> DEFINE takeBack == ~shared \/ Mine(g)
             susp == ~off /\ Local(g)
             f == HostFrame(takeBack, shared => evaluating, susp, join)
  <2>1. HostRun(g, join, takeBack, susp, Mine(g))
    BY <1>7 DEF HostCall
  <2>2. takeBack \in BOOLEAN /\ susp \in BOOLEAN /\ (shared => evaluating) \in BOOLEAN
    OBVIOUS
  <2> HIDE DEF takeBack, susp
  <2>3. f \in Frame
    BY <2>2, FrameFacts
  <2>4. Pushed(g, f) \in Seq(Frame)
    BY <2>3, PushFacts DEF Pushed, TypeOK
  <2>5. stack' = [stack EXCEPT ![g] = Pushed(g, f)]
    BY <2>1 DEF HostRun
  <2>6. stack' \in [Goroutines -> Seq(Frame)]
    BY <2>4, <2>5 DEF TypeOK
  <2>7. /\ shared' = TRUE /\ escaped' = TRUE /\ off' = (off \/ susp)
        /\ UNCHANGED <<mu, varVars, want>>
    BY <2>1 DEF HostRun
  <2>8. /\ evaluating' \in BOOLEAN
        /\ owner' \in Goroutines \cup {None}
        /\ pc' \in [Goroutines -> {"run", "lock", "locked", "unlock"}]
    BY <2>1 DEF HostRun, LetGo, TypeOK
  <2>9. off' \in BOOLEAN
    BY <2>2, <2>7
  <2> QED BY <2>6, <2>7, <2>8, <2>9 DEF TypeOK, varVars
<1>8. ASSUME NEW g \in Goroutines, HostReturn(g) PROVE TypeOK'
  <2>1. stack[g] # <<>>
    BY <1>8 DEF HostReturn, InHost
  <2>2. Top(g) \in Frame /\ Popped(g) \in Seq(Frame)
    BY <2>1, TopType, PopFacts DEF Popped, Depth, TypeOK
  <2> QED BY <1>8, <2>2 DEF HostReturn, TypeOK, lockVars, varVars
<1>9. ASSUME NEW g \in Goroutines, Acquire(g) PROVE TypeOK'
  BY <1>9 DEF Acquire, TypeOK, varVars
<1>10. ASSUME NEW g \in Goroutines, TakeOwner(g) PROVE TypeOK'
  <2>1. Popped(g) \in Seq(Frame)
    BY PopType DEF Popped, Depth, TypeOK
  <2>2. want[g] \in Frame /\ [want[g] EXCEPT !.off = off] \in Frame
    BY FrameFacts DEF TypeOK
  <2>3. Pushed(g, [want[g] EXCEPT !.off = off]) \in Seq(Frame)
    BY <2>2, PushFacts DEF Pushed, TypeOK
  <2>4. stack' \in [Goroutines -> Seq(Frame)]
    BY <1>10, <2>1, <2>3 DEF TakeOwner, TypeOK
  <2>5. want' \in [Goroutines -> Frame]
    BY <1>10, FrameFacts DEF TakeOwner, TypeOK
  <2>6. want[g].ev \in BOOLEAN /\ want[g].susp \in BOOLEAN
    BY <2>2 DEF Frame
  <2>7. evaluating' \in BOOLEAN /\ off' \in BOOLEAN
    BY <1>10, <2>6 DEF TakeOwner, TypeOK
  <2> QED BY <1>10, <2>4, <2>5, <2>7 DEF TakeOwner, TypeOK, varVars
<1>11. ASSUME NEW g \in Goroutines, Unlock(g) PROVE TypeOK'
  BY <1>11 DEF Unlock, TypeOK, varVars
<1>12. ASSUME NEW v \in Vars, Prime(v) PROVE TypeOK'
  <2>1. stack[Main] # <<>> /\ v \in Eager
    BY <1>12 DEF Prime, InGlobals, Uses
  <2>2. Top(Main) \in Frame
    BY <2>1, TopType
  <2> DEFINE e == [Top(Main) EXCEPT !.v = v]
             f == [NewFrame("get", v) EXCEPT !.off = off]
  <2>3. e \in Frame
    BY <2>2 DEF Frame
  <2>4. f \in Frame
    BY FrameFacts DEF TypeOK
  <2>5. stack' = stack \/ stack' = [stack EXCEPT ![Main] = <<e, f>>]
    BY <1>12 DEF Prime
  <2>6. <<e, f>> \in Seq(Frame)
    <3> HIDE DEF e, f
    <3> QED BY <2>3, <2>4
  <2>7. stack' \in [Goroutines -> Seq(Frame)]
    BY <2>5, <2>6 DEF TypeOK
  <2> QED BY <1>12, <2>1, <2>7 DEF Prime, TypeOK, lockVars
<1>13. ASSUME NEW v \in Vars, Unbind(v) PROVE TypeOK'
  <2>1. stack[Main] # <<>> /\ Depth(Main) = 1
    BY <1>13 DEF Unbind, InGlobals, Uses
  <2>2. Top(Main) \in Frame /\ 1 \in 1..Len(stack[Main]) /\ stack[Main] \in Seq(Frame)
    BY <2>1, TopType, TopFacts DEF TypeOK, Depth
  <2> DEFINE f == [stack[Main][1] EXCEPT !.bad = FALSE]
  <2>3. f \in Frame
    BY <2>1, <2>2, FrameFacts DEF Top
  <2>4. stack' = [stack EXCEPT ![Main] = [stack[Main] EXCEPT ![1] = f]]
    BY <1>13 DEF Unbind
  <2>5. stack' \in [Goroutines -> Seq(Frame)]
    <3> HIDE DEF f
    <3>1. [stack[Main] EXCEPT ![1] = f] \in Seq(Frame)
      BY <2>2, <2>3, SetFacts
    <3> QED BY <2>4, <3>1 DEF TypeOK
  <2> QED BY <1>13, <2>5 DEF Unbind, TypeOK, lockVars
<1>14. CASE GlobalsFail
  BY <1>14 DEF GlobalsFail, TypeOK, lockVars
<1>15. CASE BeginBody
  BY <1>15 DEF BeginBody, TypeOK, lockVars
<1>16. CASE EndTransform
  <2>1. /\ shared' \in BOOLEAN /\ evaluating' \in BOOLEAN
        /\ owner' \in Goroutines \cup {None}
        /\ pc' \in [Goroutines -> {"run", "lock", "locked", "unlock"}]
    BY <1>16 DEF EndTransform, Share, LetGo, TypeOK
  <2>2. stack' \in [Goroutines -> Seq(Frame)]
    BY <1>16 DEF EndTransform, TypeOK
  <2> QED BY <1>16, <2>1, <2>2 DEF EndTransform, TypeOK
<1>17. CASE UNCHANGED vars
  BY <1>17 DEF vars, TypeOK
<1>18. ASSUME NEW g \in Goroutines, Step(g) PROVE TypeOK'
  BY <1>1, <1>2, <1>3, <1>4, <1>5, <1>6, <1>7, <1>8, <1>9, <1>10, <1>11, <1>18 DEF Step
<1>19. CASE MainStep
  BY <1>7, <1>12, <1>13, <1>14, <1>15, <1>16, <1>19 DEF MainStep
<1> QED BY <1>17, <1>18, <1>19 DEF Next

LEMMA TypeInit == Init => TypeOK
<1> SUFFICES ASSUME Init PROVE TypeOK
  OBVIOUS
<1>1. NewFrame("eval", None) \in Frame /\ NoWant \in Frame
  BY FrameFacts
<1>2. <<NewFrame("eval", None)>> \in Seq(Frame) /\ <<>> \in Seq(Frame)
  BY <1>1
<1> QED BY <1>1, <1>2 DEF Init, TypeOK

\* Every variable keeps its type: in particular newRuntime evaluates no global
\* but the eager ones.
THEOREM TypeCorrect == Spec => []TypeOK
<1>1. Init => TypeOK
  BY TypeInit
<1>2. TypeOK /\ [Next]_vars => TypeOK'
  BY TypeStep
<1> QED BY <1>1, <1>2, PTL DEF Spec

-----------------------------------------------------------------------------
(* One goroutine at a time.                                                 *)

\* A goroutine that uses the runtime owns the lock once it is shared, and the
\* owner holds mu; before that only Main has frames.
Owned(g) ==
    /\ Uses(g) /\ shared => owner = g
    /\ owner = g => mu = g
    /\ pc[g] \in {"locked", "unlock"} => mu = g /\ owner # g
    /\ pc[g] # "run" => shared
    /\ ~shared => g = Main \/ stack[g] = <<>>

\* Whoever waits for the lock, or has just let it go, is not evaluating: it
\* has no frame, or its innermost is host code.
Waiting(g) ==
    /\ pc[g] # "run" => stack[g] = <<>> \/ Top(g).k = "host"
    /\ pc[g] \in {"lock", "locked"} /\ want[g].k = "host" => stack[g] # <<>>

\* A frame whose end lets the lock go began where the lock was not owned: in
\* host code or with no frame below.  Host code always takes the lock back.
Frames(g) ==
    \A i \in 1..Depth(g) :
        /\ stack[g][i].rel => shared
        /\ stack[g][i].k = "host" => stack[g][i].rel
        /\ stack[g][i].k # "host" /\ stack[g][i].rel =>
              i = 1 \/ stack[g][i - 1].k = "host"

Apart(g) == Owned(g) /\ Waiting(g) /\ Frames(g)

LockInv ==
    /\ TypeOK
    /\ escaped => shared
    /\ \A g \in Goroutines : Apart(g)

\* A goroutine that takes no part in a step stays as it was, as long as the
\* lock does not leave it.
LEMMA Bystander ==
    ASSUME LockInv, NEW g \in Goroutines, NEW h \in Goroutines, h # g,
           stack'[h] = stack[h], pc'[h] = pc[h], want'[h] = want[h],
           owner' = owner \/ (owner' # h /\ mu = g),
           mu' = mu \/ mu = g \/ mu = None,
           shared' = shared \/ (shared' /\ stack[h] = <<>>)
    PROVE  Apart(h)'
<1>1. Apart(h) /\ h # None
  BY GoroutineFacts DEF LockInv
<1>2. mu = h => mu' = h
  BY <1>1
<1>3. mu = h => owner' = owner
  BY <1>1
<1>4. Owned(h)'
  BY <1>1, <1>2, <1>3 DEF Apart, Owned, Uses, Top, Depth
<1>5. Waiting(h)'
  BY <1>1 DEF Apart, Waiting, Top, Depth
<1>6. Frames(h)'
  BY <1>1 DEF Apart, Frames, Depth
<1> QED BY <1>4, <1>5, <1>6 DEF Apart

\* What a step leaves unchanged but for goroutine g.
LEMMA Others1 ==
    ASSUME LockInv, NEW g \in Goroutines, Apart(g)',
           \A h \in Goroutines \ {g} :
              stack'[h] = stack[h] /\ pc'[h] = pc[h] /\ want'[h] = want[h],
           owner' = owner \/ (owner' \in {g, None} /\ mu = g),
           mu' = mu \/ mu = g \/ mu = None,
           shared' = shared \/ (shared' /\ g = Main),
           escaped' => shared', TypeOK'
    PROVE  LockInv'
<1>1. ASSUME NEW h \in Goroutines, h # g PROVE Apart(h)'
  <2>1. shared' = shared \/ (shared' /\ stack[h] = <<>>)
    <3>1. CASE shared
      BY <3>1 DEF LockInv, TypeOK
    <3>2. CASE ~shared
      <4>1. h = Main \/ stack[h] = <<>>
        BY <3>2 DEF LockInv, Apart, Owned
      <4> QED BY <1>1, <4>1
    <3> QED BY <3>1, <3>2
  <2>2. owner' = owner \/ (owner' # h /\ mu = g)
    BY <1>1, GoroutineFacts
  <2> QED BY <1>1, <2>1, <2>2, Bystander
<1> QED BY <1>1 DEF LockInv

\* A Lock for a frame: either g waits, and was not evaluating, or it has the
\* lock or needs none.
LEMMA LockStep ==
    ASSUME LockInv, NEW g \in Goroutines, NEW f \in Frame, f.k # "host", ~f.rel,
           Acts(g) \/ InHost(g) \/ (Idle(g) /\ escaped),
           Lock(g, f), UNCHANGED <<lockVars, escaped>>
    PROVE  /\ Apart(g)'
           /\ \A h \in Goroutines \ {g} :
                 stack'[h] = stack[h] /\ pc'[h] = pc[h] /\ want'[h] = want[h]
<1>1. /\ TypeOK /\ Owned(g) /\ Waiting(g) /\ Frames(g) /\ (escaped => shared)
      /\ stack[g] \in Seq(Frame)
  BY DEF LockInv, Apart, TypeOK
<1>2. pc[g] = "run" /\ (Acts(g) => Uses(g))
  BY DEF Acts, Uses, InHost, Idle
<1>3. CASE shared /\ owner # g
  <2>1. /\ pc' = [pc EXCEPT ![g] = "lock"]
        /\ want' = [want EXCEPT ![g] = [f EXCEPT !.rel = TRUE]]
        /\ stack' = stack
    BY <1>3 DEF Lock, LockIf
  <2>2. pc'[g] = "lock" /\ want'[g] = [f EXCEPT !.rel = TRUE]
    BY <1>1, <2>1 DEF TypeOK
  <2>3. want'[g].k # "host"
    BY <2>2 DEF Frame
  <2>4. ~Acts(g)
    BY <1>1, <1>2, <1>3 DEF Owned
  <2>5. stack[g] = <<>> \/ Top(g).k = "host"
    BY <2>4 DEF InHost, Idle
  <2>6. Owned(g)'
    BY <1>1, <1>3, <2>1, <2>2 DEF Owned, Uses, lockVars
  <2>7. Waiting(g)' /\ Frames(g)'
    BY <1>1, <2>1, <2>2, <2>3, <2>5 DEF Waiting, Frames, Top, Depth, lockVars
  <2> QED BY <1>1, <2>1, <2>6, <2>7 DEF Apart, TypeOK
<1>4. CASE ~(shared /\ owner # g)
  <2> DEFINE e == [f EXCEPT !.off = off]
  <2>1. /\ stack' = [stack EXCEPT ![g] = Append(stack[g], e)]
        /\ pc' = pc
        /\ want' = want
    BY <1>4 DEF Lock, LockIf, Pushed
  <2>2. e \in Frame /\ e.k # "host" /\ ~e.rel
    <3>1. e \in Frame
      BY <1>1, FrameFacts DEF TypeOK
    <3>2. e.k = f.k /\ e.rel = f.rel
      BY DEF Frame
    <3> QED BY <3>1, <3>2
  <2> HIDE DEF e
  <2>9. stack'[g] = Append(stack[g], e)
    BY <1>1, <2>1 DEF TypeOK
  <2>3. /\ stack'[g] = Append(stack[g], e)
        /\ stack'[g] # <<>>
        /\ Depth(g)' = Depth(g) + 1
        /\ stack'[g][Depth(g) + 1] = e
        /\ \A i \in 1..Depth(g) : stack'[g][i] = stack[g][i]
        /\ Depth(g) \in Nat
    BY <1>1, <2>2, <2>9, PushFacts DEF Depth
  <2>4. ~shared => g = Main
    BY <1>1, <1>2 DEF Owned, Uses, InHost
  <2>5. Owned(g)'
    BY <1>1, <1>2, <1>4, <2>1, <2>4 DEF Owned, lockVars
  <2>6. Waiting(g)'
    BY <1>2, <2>1 DEF Waiting
  <2>7. Frames(g)'
    <3> SUFFICES ASSUME NEW i \in 1..(Depth(g) + 1)
                 PROVE  /\ stack'[g][i].rel => shared'
                        /\ stack'[g][i].k = "host" => stack'[g][i].rel
                        /\ stack'[g][i].k # "host" /\ stack'[g][i].rel =>
                              i = 1 \/ stack'[g][i - 1].k = "host"
      BY <2>3 DEF Frames
    <3>1. CASE i = Depth(g) + 1
      BY <2>2, <2>3, <3>1
    <3>2. CASE i # Depth(g) + 1
      <4>1. i \in 1..Depth(g) /\ (i = 1 \/ i - 1 \in 1..Depth(g))
        BY <2>3, <3>2
      <4> QED BY <1>1, <2>3, <4>1 DEF Frames, lockVars
    <3> QED BY <3>1, <3>2
  <2> QED BY <1>1, <2>1, <2>5, <2>6, <2>7 DEF Apart, TypeOK
<1> QED BY <1>3, <1>4

\* The end of a frame that evaluates: it lets the lock go exactly when g had
\* taken it for that frame, and what it returns to then needs no lock.
LEMMA ReturnStep ==
    ASSUME LockInv, NEW g \in Goroutines, NEW raised, Uses(g), Return(g, raised)
    PROVE  /\ Apart(g)'
           /\ \A h \in Goroutines \ {g} :
                 stack'[h] = stack[h] /\ pc'[h] = pc[h] /\ want'[h] = want[h]
           /\ owner' = owner \/ (owner' \in {g, None} /\ mu = g)
           /\ UNCHANGED <<shared, mu, escaped>>
<1>1. /\ TypeOK /\ Owned(g) /\ Waiting(g) /\ Frames(g)
      /\ stack[g] \in Seq(Frame) /\ stack[g] # <<>> /\ pc[g] = "run"
  BY DEF LockInv, Apart, TypeOK, Uses
<1>2. /\ stack' = [stack EXCEPT ![g] = Below(g, raised)]
      /\ UNCHANGED <<shared, mu, escaped, want>>
  BY DEF Return
<1> DEFINE d == Depth(g)
<1>3. /\ d \in Nat \ {0}
      /\ stack'[g] = Below(g, raised)
      /\ Depth(g)' = d - 1
      /\ \A i \in 1..(d - 1) : /\ stack'[g][i].k = stack[g][i].k
                               /\ stack'[g][i].rel = stack[g][i].rel
  BY <1>1, <1>2, BelowFacts, TopFacts DEF TypeOK, Depth
<1>4. Frames(g)'
  <2> SUFFICES ASSUME NEW i \in 1..(d - 1)
               PROVE  /\ stack'[g][i].rel => shared'
                      /\ stack'[g][i].k = "host" => stack'[g][i].rel
                      /\ stack'[g][i].k # "host" /\ stack'[g][i].rel =>
                            i = 1 \/ stack'[g][i - 1].k = "host"
    BY <1>3 DEF Frames
  <2>1. i \in 1..d /\ (i = 1 \/ i - 1 \in 1..(d - 1))
    BY <1>3
  <2> QED BY <1>1, <1>2, <1>3, <2>1 DEF Frames
<1>5. CASE Top(g).rel
  <2>1. owner' = None /\ pc' = [pc EXCEPT ![g] = "unlock"]
    BY <1>5 DEF Return, LetGo
  <2>2. pc'[g] = "unlock"
    BY <1>1, <2>1 DEF TypeOK
  <2>3. d \in 1..d /\ Top(g) = stack[g][d] /\ Top(g).k # "host"
    BY <1>3 DEF Top, Uses
  <2>4. shared /\ owner = g /\ mu = g
    BY <1>1, <1>5, <2>3 DEF Frames, Owned
  <2>5. d = 1 \/ stack[g][d - 1].k = "host"
    BY <1>1, <1>5, <2>3 DEF Frames
  <2>6. stack'[g] = <<>> \/ Top(g)'.k = "host"
    <3>1. CASE d = 1
      <4>1. Len(stack'[g]) = 0
        BY <1>3, <3>1 DEF Depth
      <4>2. Below(g, raised) \in Seq(Frame)
        BY <1>1, BelowFacts DEF TypeOK
      <4> QED BY <1>3, <4>1, <4>2
    <3>2. CASE d # 1
      BY <1>3, <2>5, <3>2 DEF Top
    <3> QED BY <3>1, <3>2
  <2>7. Owned(g)'
    BY <1>2, <2>1, <2>2, <2>4, GoroutineFacts DEF Owned, Uses
  <2>8. Waiting(g)'
    BY <2>2, <2>6 DEF Waiting
  <2> QED BY <1>1, <1>2, <1>4, <2>1, <2>4, <2>7, <2>8 DEF Apart, TypeOK
<1>6. CASE ~Top(g).rel
  <2>1. UNCHANGED <<owner, pc>>
    BY <1>6 DEF Return
  <2>2. ~shared => g = Main
    BY <1>1 DEF Owned
  <2>3. Owned(g)'
    BY <1>1, <1>2, <2>1, <2>2 DEF Owned, Uses
  <2>4. Waiting(g)'
    BY <1>1, <2>1 DEF Waiting
  <2> QED BY <1>1, <1>2, <1>4, <2>1, <2>3, <2>4 DEF Apart, TypeOK
<1> QED BY <1>5, <1>6

LEMMA LockInvStep == LockInv /\ [Next]_vars => LockInv'
<1> SUFFICES ASSUME LockInv, [Next]_vars
             PROVE  LockInv'
  OBVIOUS
<1> USE GoroutineFacts
<1>0. TypeOK /\ TypeOK'
  BY TypeStep DEF LockInv
<1>1. ASSUME NEW g \in Goroutines, CallItem(g) PROVE LockInv'
  <2>1. NewFrame("call", None) \in Frame
    BY FrameFacts
  <2>2. NewFrame("call", None).k # "host" /\ ~NewFrame("call", None).rel
    BY DEF NewFrame
  <2>3. /\ Acts(g) \/ InHost(g) \/ (Idle(g) /\ escaped)
        /\ Lock(g, NewFrame("call", None))
        /\ UNCHANGED <<lockVars, escaped>>
    BY <1>1 DEF CallItem
  <2>4. /\ Apart(g)'
        /\ \A h \in Goroutines \ {g} :
              stack'[h] = stack[h] /\ pc'[h] = pc[h] /\ want'[h] = want[h]
    BY <2>1, <2>2, <2>3, LockStep
  <2> QED BY <1>0, <2>3, <2>4, Others1 DEF lockVars, LockInv
<1>2. ASSUME NEW g \in Goroutines, CallReturn(g) PROVE LockInv'
  <2>1. Uses(g) /\ Return(g, {})
    BY <1>2 DEF CallReturn
  <2> QED BY <1>0, <2>1, ReturnStep, Others1 DEF LockInv
<1>3. ASSUME NEW g \in Goroutines, NEW v \in Vars, ReadVar(g, v) PROVE LockInv'
  <2>1. NewFrame("get", v) \in Frame
    BY FrameFacts
  <2>2. NewFrame("get", v).k # "host" /\ ~NewFrame("get", v).rel
    BY DEF NewFrame
  <2>3. /\ Acts(g) \/ InHost(g) \/ (Idle(g) /\ escaped)
        /\ Lock(g, NewFrame("get", v))
        /\ UNCHANGED <<lockVars, escaped>>
    BY <1>3 DEF ReadVar
  <2>4. /\ Apart(g)'
        /\ \A h \in Goroutines \ {g} :
              stack'[h] = stack[h] /\ pc'[h] = pc[h] /\ want'[h] = want[h]
    BY <2>1, <2>2, <2>3, LockStep
  <2> QED BY <1>0, <2>3, <2>4, Others1 DEF lockVars, LockInv
<1>4. ASSUME NEW g \in Goroutines, GetVar(g) PROVE LockInv'
  <2>1. Uses(g) /\ Top(g).k = "get" /\ stack[g] # <<>>
    BY <1>4 DEF GetVar, GetVarBy, Uses
  <2>2. CASE \E raised : Return(g, raised)
    BY <1>0, <2>1, <2>2, ReturnStep, Others1 DEF LockInv
  <2>3. CASE /\ stack' = [stack EXCEPT
                    ![g][Depth(g)] = [Top(g) EXCEPT !.k = "force",
                                                    !.bad = (Top(g).v \in kept)]]
             /\ UNCHANGED <<lockVars, off, kept, primed, phase, escaped, pc, want>>
    <3> DEFINE f == [Top(g) EXCEPT !.k = "force", !.bad = (Top(g).v \in kept)]
               d == Depth(g)
    <3>1. Top(g) \in Frame
      BY <1>0, <2>1, TopType
    <3>2. f.k = "force" /\ f.rel = Top(g).rel
      BY <3>1 DEF Frame
    <3>3. stack[g] \in Seq(Frame) /\ d \in Nat \ {0} /\ Top(g) = stack[g][d]
      BY <1>0, <2>1, TopFacts DEF TypeOK, Depth, Top
    <3> HIDE DEF f
    <3>4. stack'[g] = [stack[g] EXCEPT ![d] = f]
      BY <1>0, <2>3 DEF TypeOK, f
    <3>5. /\ stack'[g] # <<>> /\ Depth(g)' = d
          /\ stack'[g][d] = f
          /\ \A i \in 1..d : i # d => stack'[g][i] = stack[g][i]
      BY <3>3, <3>4 DEF Depth
    <3>6. Apart(g)
      BY DEF LockInv
    <3>7. Owned(g)' /\ Waiting(g)'
      BY <2>1, <2>3, <3>2, <3>5, <3>6 DEF Apart, Owned, Waiting, Uses, lockVars
    <3>8. Frames(g)'
      <4> SUFFICES ASSUME NEW i \in 1..d
                   PROVE  /\ stack'[g][i].rel => shared'
                          /\ stack'[g][i].k = "host" => stack'[g][i].rel
                          /\ stack'[g][i].k # "host" /\ stack'[g][i].rel =>
                                i = 1 \/ stack'[g][i - 1].k = "host"
        BY <3>5 DEF Frames
      <4>1. /\ stack[g][i].rel => shared
            /\ stack[g][i].k = "host" => stack[g][i].rel
            /\ stack[g][i].k # "host" /\ stack[g][i].rel =>
                  i = 1 \/ stack[g][i - 1].k = "host"
        BY <3>6 DEF Apart, Frames
      <4>2. i # 1 => stack'[g][i - 1] = stack[g][i - 1]
        BY <3>3, <3>5
      <4> QED BY <2>1, <2>3, <3>2, <3>3, <3>5, <4>1, <4>2 DEF lockVars
    <3>9. Apart(g)'
      BY <3>7, <3>8 DEF Apart
    <3>10. \A h \in Goroutines \ {g} :
              stack'[h] = stack[h] /\ pc'[h] = pc[h] /\ want'[h] = want[h]
      BY <1>0, <2>3 DEF TypeOK
    <3> QED BY <1>0, <2>3, <3>9, <3>10, Others1 DEF lockVars, LockInv
  <2> QED BY <1>4, <2>2, <2>3 DEF GetVar, GetVarBy
<1>5. ASSUME NEW g \in Goroutines, ForceOk(g) PROVE LockInv'
  <2>1. Uses(g) /\ Return(g, {})
    BY <1>5 DEF ForceOk
  <2> QED BY <1>0, <2>1, ReturnStep, Others1 DEF LockInv
<1>6. ASSUME NEW g \in Goroutines, ForceFail(g) PROVE LockInv'
  <2>1. PICK raised : Uses(g) /\ Return(g, raised)
    BY <1>6 DEF ForceFail
  <2> QED BY <1>0, <2>1, ReturnStep, Others1 DEF LockInv
<1>7. ASSUME NEW g \in Goroutines, NEW join \in BOOLEAN, HostCall(g, join) PROVE LockInv'
  <2> DEFINE susp == ~off /\ Local(g)
             ev == shared => evaluating
             f == HostFrame(~shared \/ Mine(g), ev, susp, join)
  <2>1. HostRun(g, join, ~shared \/ Mine(g), susp, Mine(g))
    BY <1>7 DEF HostCall
  <2>2. Uses(g) /\ pc[g] = "run" /\ stack[g] # <<>> /\ stack[g] \in Seq(Frame)
    BY <1>0, <2>1 DEF HostRun, Acts, Uses, TypeOK
  <2>3. Apart(g)
    BY DEF LockInv
  <2>4. (shared => Mine(g)) /\ (~shared => g = Main) /\ (Mine(g) => mu = g /\ shared)
    BY <2>2, <2>3 DEF Apart, Owned, Mine
  <2>5. f.k = "host" /\ f.rel
    BY <2>4 DEF HostFrame
  <2>6. f \in Frame
    <3>1. susp \in BOOLEAN /\ ev \in BOOLEAN /\ (~shared \/ Mine(g)) \in BOOLEAN
      OBVIOUS
    <3> QED BY <3>1, FrameFacts
  <2>7. stack' = [stack EXCEPT ![g] = Append(stack[g], f)]
    BY <2>1 DEF HostRun, Pushed
  <2> HIDE DEF f
  <2>8. stack'[g] = Append(stack[g], f)
    BY <1>0, <2>7 DEF TypeOK
  <2>9. /\ stack'[g] # <<>> /\ Depth(g)' = Depth(g) + 1
        /\ stack'[g][Depth(g) + 1] = f
        /\ \A i \in 1..Depth(g) : stack'[g][i] = stack[g][i]
        /\ Depth(g) \in Nat
    BY <2>2, <2>6, <2>8, PushFacts DEF Depth
  <2>10. shared' /\ escaped' /\ UNCHANGED <<mu, want>>
    BY <2>1 DEF HostRun
  <2>11. IF Mine(g) THEN owner' = None /\ pc' = [pc EXCEPT ![g] = "unlock"]
                    ELSE UNCHANGED <<owner, pc>>
    BY <2>1 DEF HostRun, LetGo
  <2>12. Top(g)' = f
    BY <2>9 DEF Top
  <2>13. Owned(g)'
    <3>1. CASE Mine(g)
      <4>1. pc'[g] = "unlock"
        BY <1>0, <2>11, <3>1 DEF TypeOK
      <4> QED BY <2>4, <2>10, <2>11, <3>1, <4>1 DEF Owned, Uses
    <3>2. CASE ~Mine(g)
      BY <2>2, <2>3, <2>5, <2>10, <2>11, <2>12, <3>2 DEF Apart, Owned, Uses
    <3> QED BY <3>1, <3>2
  <2>14. Waiting(g)'
    <3>1. pc'[g] \in {"run", "unlock"}
      BY <1>0, <2>2, <2>11 DEF TypeOK
    <3> QED BY <2>5, <2>12, <3>1 DEF Waiting
  <2>15. Frames(g)'
    <3> SUFFICES ASSUME NEW i \in 1..(Depth(g) + 1)
                 PROVE  /\ stack'[g][i].rel => shared'
                        /\ stack'[g][i].k = "host" => stack'[g][i].rel
                        /\ stack'[g][i].k # "host" /\ stack'[g][i].rel =>
                              i = 1 \/ stack'[g][i - 1].k = "host"
      BY <2>9 DEF Frames
    <3>1. CASE i = Depth(g) + 1
      BY <2>5, <2>9, <2>10, <3>1
    <3>2. CASE i # Depth(g) + 1
      <4>1. i \in 1..Depth(g) /\ (i = 1 \/ i - 1 \in 1..Depth(g))
        BY <2>9, <3>2
      <4> QED BY <2>3, <2>9, <2>10, <4>1 DEF Apart, Frames
    <3> QED BY <3>1, <3>2
  <2>16. \A h \in Goroutines \ {g} :
            stack'[h] = stack[h] /\ pc'[h] = pc[h] /\ want'[h] = want[h]
    BY <1>0, <2>7, <2>10, <2>11 DEF TypeOK
  <2>17. owner' = owner \/ (owner' \in {g, None} /\ mu = g)
    BY <2>4, <2>11
  <2>18. shared' = shared \/ (shared' /\ g = Main)
    BY <1>0, <2>4, <2>10 DEF TypeOK
  <2>19. Apart(g)'
    BY <2>13, <2>14, <2>15 DEF Apart
  <2> QED BY <1>0, <2>10, <2>16, <2>17, <2>18, <2>19, Others1
<1>8. ASSUME NEW g \in Goroutines, HostReturn(g) PROVE LockInv'
  <2>1. /\ pc[g] = "run" /\ stack[g] # <<>> /\ Top(g).k = "host"
        /\ stack[g] \in Seq(Frame) /\ Apart(g)
    BY <1>0, <1>8 DEF HostReturn, InHost, TypeOK, LockInv
  <2>2. Depth(g) \in 1..Depth(g)
    BY <2>1, TopFacts DEF Depth
  <2>3. Top(g).rel /\ shared
    BY <2>1, <2>2 DEF Apart, Frames, Top
  <2>4. /\ pc' = [pc EXCEPT ![g] = "lock"]
        /\ want' = [want EXCEPT ![g] = Top(g)]
        /\ UNCHANGED <<stack, lockVars, escaped>>
    BY <1>8, <2>3 DEF HostReturn
  <2>5. pc'[g] = "lock"
    BY <1>0, <2>4 DEF TypeOK
  <2>6. Apart(g)'
    BY <2>1, <2>3, <2>4, <2>5
       DEF Apart, Owned, Waiting, Frames, Uses, Top, Depth, lockVars
  <2>7. \A h \in Goroutines \ {g} :
            stack'[h] = stack[h] /\ pc'[h] = pc[h] /\ want'[h] = want[h]
    BY <1>0, <2>4 DEF TypeOK
  <2> QED BY <1>0, <2>4, <2>6, <2>7, Others1 DEF lockVars, LockInv
<1>9. ASSUME NEW g \in Goroutines, Acquire(g) PROVE LockInv'
  <2>1. /\ pc[g] = "lock" /\ mu = None /\ mu' = g
        /\ pc' = [pc EXCEPT ![g] = "locked"]
        /\ UNCHANGED <<shared, owner, escaped, stack, want>>
    BY <1>9 DEF Acquire
  <2>2. pc'[g] = "locked" /\ Apart(g)
    BY <1>0, <2>1 DEF TypeOK, LockInv
  <2>3. owner # g
    BY <2>1, <2>2 DEF Apart, Owned
  <2>4. Apart(g)'
    BY <2>1, <2>2, <2>3 DEF Apart, Owned, Waiting, Frames, Uses, Top, Depth
  <2>5. \A h \in Goroutines \ {g} :
            stack'[h] = stack[h] /\ pc'[h] = pc[h] /\ want'[h] = want[h]
    BY <1>0, <2>1 DEF TypeOK
  <2> QED BY <1>0, <2>1, <2>4, <2>5, Others1 DEF LockInv
<1>10. ASSUME NEW g \in Goroutines, TakeOwner(g) PROVE LockInv'
  <2>1. /\ pc[g] = "locked" /\ owner' = g
        /\ pc' = [pc EXCEPT ![g] = "run"]
        /\ want' = [want EXCEPT ![g] = NoWant]
        /\ UNCHANGED <<shared, mu, escaped>>
    BY <1>10 DEF TakeOwner
  <2>2. pc'[g] = "run" /\ Apart(g) /\ stack[g] \in Seq(Frame)
    BY <1>0, <2>1 DEF TypeOK, LockInv
  <2>3. mu = g /\ shared
    BY <2>1, <2>2 DEF Apart, Owned
  <2>4. Owned(g)' /\ Waiting(g)'
    BY <2>1, <2>2, <2>3 DEF Owned, Waiting
  <2>5. ASSUME want[g].k = "host" PROVE Frames(g)'
    <3>1. stack[g] # <<>>
      BY <2>1, <2>2, <2>5 DEF Apart, Waiting
    <3>2. stack' = [stack EXCEPT ![g] = Popped(g)]
      BY <1>10, <2>5 DEF TakeOwner
    <3>3. /\ Depth(g) \in Nat \ {0}
          /\ Depth(g)' = Depth(g) - 1
          /\ \A i \in 1..(Depth(g) - 1) : stack'[g][i] = stack[g][i]
      BY <1>0, <2>2, <3>1, <3>2, PopFacts, TopFacts DEF TypeOK, Depth, Popped
    <3>4. Frames(g)'
      <4> SUFFICES ASSUME NEW i \in 1..(Depth(g) - 1)
                   PROVE  /\ stack'[g][i].rel => shared'
                          /\ stack'[g][i].k = "host" => stack'[g][i].rel
                          /\ stack'[g][i].k # "host" /\ stack'[g][i].rel =>
                                i = 1 \/ stack'[g][i - 1].k = "host"
        BY <3>3 DEF Frames
      <4>1. i \in 1..Depth(g) /\ (i = 1 \/ i - 1 \in 1..(Depth(g) - 1))
        BY <3>3
      <4> QED BY <2>1, <2>2, <3>3, <4>1 DEF Apart, Frames
    <3> QED BY <3>4
  <2>6. ASSUME want[g].k # "host" PROVE Frames(g)'
    <3> DEFINE f == [want[g] EXCEPT !.off = off]
    <3>1. f \in Frame
      BY <1>0, FrameFacts DEF TypeOK
    <3>2. f.k # "host"
      BY <1>0, <2>6 DEF TypeOK, Frame
    <3>3. stack' = [stack EXCEPT ![g] = Append(stack[g], f)]
      BY <1>10, <2>6 DEF TakeOwner, Pushed
    <3> HIDE DEF f
    <3>4. stack'[g] = Append(stack[g], f)
      BY <1>0, <3>3 DEF TypeOK
    <3>5. /\ Depth(g)' = Depth(g) + 1
          /\ stack'[g][Depth(g) + 1] = f
          /\ \A i \in 1..Depth(g) : stack'[g][i] = stack[g][i]
          /\ Depth(g) \in Nat
      BY <2>2, <3>1, <3>4, PushFacts DEF Depth
    <3>6. Depth(g) = 0 \/ stack[g][Depth(g)].k = "host"
      BY <2>1, <2>2 DEF Apart, Waiting, Top, Depth
    <3>7. Frames(g)'
      <4> SUFFICES ASSUME NEW i \in 1..(Depth(g) + 1)
                   PROVE  /\ stack'[g][i].rel => shared'
                          /\ stack'[g][i].k = "host" => stack'[g][i].rel
                          /\ stack'[g][i].k # "host" /\ stack'[g][i].rel =>
                                i = 1 \/ stack'[g][i - 1].k = "host"
        BY <3>5 DEF Frames
      <4>1. CASE i = Depth(g) + 1
        <5>1. i = 1 \/ (i - 1 = Depth(g) /\ Depth(g) \in 1..Depth(g))
          BY <3>5, <4>1
        <5> QED BY <2>1, <2>3, <3>2, <3>5, <3>6, <4>1, <5>1
      <4>2. CASE i # Depth(g) + 1
        <5>1. i \in 1..Depth(g) /\ (i = 1 \/ i - 1 \in 1..Depth(g))
          BY <3>5, <4>2
        <5> QED BY <2>1, <2>2, <3>5, <5>1 DEF Apart, Frames
      <4> QED BY <4>1, <4>2
    <3> QED BY <3>7
  <2>7. \A h \in Goroutines \ {g} :
            stack'[h] = stack[h] /\ pc'[h] = pc[h] /\ want'[h] = want[h]
    BY <1>0, <1>10, <2>1 DEF TypeOK, TakeOwner
  <2>8. Frames(g)'
    BY <2>5, <2>6
  <2>9. Apart(g)'
    BY <2>4, <2>8 DEF Apart
  <2> QED BY <1>0, <2>1, <2>3, <2>7, <2>9, Others1 DEF LockInv
<1>11. ASSUME NEW g \in Goroutines, Unlock(g) PROVE LockInv'
  <2>1. /\ pc[g] = "unlock" /\ mu' = None
        /\ pc' = [pc EXCEPT ![g] = "run"]
        /\ UNCHANGED <<shared, owner, escaped, stack, want>>
    BY <1>11 DEF Unlock
  <2>2. pc'[g] = "run" /\ Apart(g)
    BY <1>0, <2>1 DEF TypeOK, LockInv
  <2>3. mu = g /\ owner # g /\ (stack[g] = <<>> \/ Top(g).k = "host")
    BY <2>1, <2>2 DEF Apart, Owned, Waiting
  <2>4. Apart(g)'
    BY <2>1, <2>2, <2>3 DEF Apart, Owned, Waiting, Frames, Uses, Top, Depth
  <2>5. \A h \in Goroutines \ {g} :
            stack'[h] = stack[h] /\ pc'[h] = pc[h] /\ want'[h] = want[h]
    BY <1>0, <2>1 DEF TypeOK
  <2> QED BY <1>0, <2>1, <2>3, <2>4, <2>5, Others1 DEF LockInv
<1>12. ASSUME NEW v \in Vars, Prime(v) PROVE LockInv'
  <2> DEFINE e == [Top(Main) EXCEPT !.v = v]
             f == [NewFrame("get", v) EXCEPT !.off = off]
  <2>1. /\ stack[Main] # <<>> /\ Top(Main).k # "host" /\ Depth(Main) = 1
        /\ pc[Main] = "run"
        /\ UNCHANGED <<lockVars, escaped, pc, want>>
        /\ stack' = stack \/ stack' = [stack EXCEPT ![Main] = <<e, f>>]
    BY <1>12 DEF Prime, InGlobals, Uses
  <2>2. Top(Main) = stack[Main][1] /\ Top(Main) \in Frame /\ Apart(Main)
    BY <1>0, <2>1, TopType DEF Top, LockInv
  <2>3. /\ e.k = Top(Main).k /\ e.rel = Top(Main).rel
        /\ f.k # "host" /\ ~f.rel
    BY <2>2 DEF Frame, NewFrame
  <2>4. CASE stack' = stack
    <3>1. Apart(Main)'
      BY <2>1, <2>2, <2>4 DEF Apart, Owned, Waiting, Frames, Uses, Top, Depth, lockVars
    <3> QED BY <1>0, <2>1, <2>4, <3>1, Others1 DEF lockVars, LockInv
  <2>5. CASE stack' = [stack EXCEPT ![Main] = <<e, f>>]
    <3> HIDE DEF e, f
    <3>1. stack'[Main] = <<e, f>>
      BY <1>0, <2>5 DEF TypeOK
    <3>2. /\ stack'[Main] # <<>> /\ Depth(Main)' = 2
          /\ stack'[Main][1] = e /\ stack'[Main][2] = f
      BY <3>1 DEF Depth
    <3>3. Owned(Main)' /\ Waiting(Main)'
      BY <2>1, <2>2, <3>2 DEF Apart, Owned, Waiting, Uses, lockVars
    <3>4. Frames(Main)'
      BY <2>1, <2>2, <2>3, <3>2 DEF Apart, Frames, lockVars
    <3>5. Apart(Main)'
      BY <3>3, <3>4 DEF Apart
    <3>6. \A h \in Goroutines \ {Main} :
            stack'[h] = stack[h] /\ pc'[h] = pc[h] /\ want'[h] = want[h]
      BY <1>0, <2>1, <2>5 DEF TypeOK
    <3> QED BY <1>0, <2>1, <3>5, <3>6, Others1 DEF lockVars, LockInv
  <2> QED BY <2>1, <2>4, <2>5
<1>13. ASSUME NEW v \in Vars, Unbind(v) PROVE LockInv'
  <2> DEFINE f == [stack[Main][1] EXCEPT !.bad = FALSE]
  <2>1. /\ stack[Main] # <<>> /\ Top(Main).k # "host" /\ Depth(Main) = 1
        /\ pc[Main] = "run"
        /\ UNCHANGED <<lockVars, escaped, pc, want>>
        /\ stack' = [stack EXCEPT ![Main] = [stack[Main] EXCEPT ![1] = f]]
    BY <1>13 DEF Unbind, InGlobals, Uses
  <2>2. /\ Top(Main) = stack[Main][1] /\ Top(Main) \in Frame /\ Apart(Main)
        /\ stack[Main] \in Seq(Frame)
    BY <1>0, <2>1, TopType DEF Top, LockInv, TypeOK
  <2>3. f.k = Top(Main).k /\ f.rel = Top(Main).rel
    BY <2>2 DEF Frame
  <2> HIDE DEF f
  <2>4. stack'[Main] = [stack[Main] EXCEPT ![1] = f]
    BY <1>0, <2>1 DEF TypeOK
  <2>5. stack'[Main] # <<>> /\ Depth(Main)' = 1 /\ stack'[Main][1] = f
    BY <2>1, <2>2, <2>4 DEF Depth
  <2>6. Apart(Main)'
    BY <2>1, <2>2, <2>3, <2>5 DEF Apart, Owned, Waiting, Frames, Uses, lockVars
  <2>7. \A h \in Goroutines \ {Main} :
          stack'[h] = stack[h] /\ pc'[h] = pc[h] /\ want'[h] = want[h]
    BY <1>0, <2>1 DEF TypeOK
  <2> QED BY <1>0, <2>1, <2>6, <2>7, Others1 DEF lockVars, LockInv
<1>14. CASE GlobalsFail
  <2>1. /\ stack[Main] # <<>> /\ pc[Main] = "run"
        /\ UNCHANGED <<lockVars, escaped, pc, want>>
        /\ stack' = [stack EXCEPT ![Main] = <<>>]
    BY <1>14 DEF GlobalsFail, InGlobals, Uses
  <2>2. stack'[Main] = <<>> /\ Depth(Main)' = 0 /\ Apart(Main)
    BY <1>0, <2>1 DEF TypeOK, LockInv, Depth
  <2>3. Apart(Main)'
    BY <2>1, <2>2 DEF Apart, Owned, Waiting, Frames, Uses, lockVars
  <2>4. \A h \in Goroutines \ {Main} :
          stack'[h] = stack[h] /\ pc'[h] = pc[h] /\ want'[h] = want[h]
    BY <1>0, <2>1 DEF TypeOK
  <2> QED BY <1>0, <2>1, <2>3, <2>4, Others1 DEF lockVars, LockInv
<1>15. CASE BeginBody
  BY <1>0, <1>15
     DEF BeginBody, LockInv, Apart, Owned, Waiting, Frames, Uses, Top, Depth, lockVars
<1>16. CASE EndTransform
  <2>1. /\ stack[Main] # <<>> /\ pc[Main] = "run" /\ Uses(Main)
        /\ stack' = [stack EXCEPT ![Main] = <<>>]
        /\ UNCHANGED <<mu, want>>
    BY <1>16 DEF EndTransform, Uses
  <2>2. stack'[Main] = <<>> /\ Depth(Main)' = 0 /\ Apart(Main)
    BY <1>0, <2>1 DEF TypeOK, LockInv, Depth
  <2>3. shared'
    BY <1>16 DEF EndTransform, Share
  <2>4. \/ UNCHANGED <<owner, pc>>
        \/ shared /\ owner = Main /\ owner' = None /\ pc' = [pc EXCEPT ![Main] = "unlock"]
    BY <1>16 DEF EndTransform, Share, LetGo
  <2>5. Owned(Main)'
    <3>1. CASE UNCHANGED <<owner, pc>>
      BY <2>1, <2>2, <2>3, <3>1 DEF Apart, Owned, Uses
    <3>2. CASE owner = Main /\ owner' = None /\ pc' = [pc EXCEPT ![Main] = "unlock"]
      BY <2>1, <2>2, <2>3, <3>2 DEF Apart, Owned, Uses
    <3> QED BY <2>4, <3>1, <3>2
  <2>6. Waiting(Main)'
    <3>1. pc'[Main] \in {"run", "unlock"}
      BY <1>0, <2>1, <2>4 DEF TypeOK
    <3> QED BY <2>2, <3>1 DEF Waiting
  <2>7. Apart(Main)'
    BY <2>2, <2>5, <2>6 DEF Apart, Frames
  <2>8. \A h \in Goroutines \ {Main} :
          stack'[h] = stack[h] /\ pc'[h] = pc[h] /\ want'[h] = want[h]
    BY <1>0, <2>1, <2>4 DEF TypeOK
  <2>9. owner' = owner \/ (owner' \in {Main, None} /\ mu = Main)
    BY <2>2, <2>4 DEF Apart, Owned
  <2> QED BY <1>0, <2>1, <2>3, <2>7, <2>8, <2>9, Others1
<1>17. CASE UNCHANGED vars
  BY <1>0, <1>17
     DEF vars, LockInv, Apart, Owned, Waiting, Frames, Uses, Top, Depth
<1>18. ASSUME NEW g \in Goroutines, Step(g) PROVE LockInv'
  BY <1>1, <1>2, <1>3, <1>4, <1>5, <1>6, <1>7, <1>8, <1>9, <1>10, <1>11, <1>18 DEF Step
<1>19. CASE MainStep
  BY <1>7, <1>12, <1>13, <1>14, <1>15, <1>16, <1>19 DEF MainStep
<1> QED BY <1>17, <1>18, <1>19 DEF Next

LEMMA LockInvInit == Init => LockInv
<1> SUFFICES ASSUME Init PROVE LockInv
  OBVIOUS
<1>1. TypeOK
  BY TypeInit
<1>2. ASSUME NEW g \in Goroutines PROVE Apart(g)
  <2>1. CASE g = Main
    <3>1. /\ stack[g] = <<NewFrame("eval", None)>> /\ pc[g] = "run"
          /\ ~shared /\ owner = None
      BY <2>1 DEF Init
    <3>2. Depth(g) = 1 /\ stack[g][1] = NewFrame("eval", None)
      BY <3>1 DEF Depth
    <3>3. stack[g][1].k = "eval" /\ ~stack[g][1].rel
      BY <3>2 DEF NewFrame
    <3> QED BY <2>1, <3>1, <3>2, <3>3, GoroutineFacts
         DEF Apart, Owned, Waiting, Frames
  <2>2. CASE g # Main
    <3>1. /\ stack[g] = <<>> /\ pc[g] = "run"
          /\ ~shared /\ owner = None
      BY <2>2 DEF Init
    <3>2. Depth(g) = 0
      BY <3>1 DEF Depth
    <3> QED BY <3>1, <3>2, GoroutineFacts
         DEF Apart, Owned, Waiting, Frames
  <2> QED BY <2>1, <2>2
<1> QED BY <1>1, <1>2 DEF LockInv, Init

\* The lock's bookkeeping is right at every step.
THEOREM LockInvariant == Spec => []LockInv
<1> QED BY LockInvInit, LockInvStep, PTL DEF Spec

LEMMA LockInvSerial == LockInv => OneEvaluator
<1> SUFFICES ASSUME LockInv, NEW g \in Goroutines, NEW h \in Goroutines,
                    Uses(g), Uses(h)
             PROVE  g = h
  BY DEF OneEvaluator
<1>1. Owned(g) /\ Owned(h)
  BY DEF LockInv, Apart
<1> QED BY <1>1 DEF Owned, Uses

\* However many goroutines the host has, whatever variables the stylesheet
\* declares and however deep the calls nest, two goroutines never use the
\* transform's runtime at once.
THEOREM OneEvaluatorHolds == Spec => []OneEvaluator
<1> QED BY LockInvariant, LockInvSerial, PTL

=============================================================================
