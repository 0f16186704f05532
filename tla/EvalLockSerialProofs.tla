------------------------ MODULE EvalLockSerialProofs ------------------------
(***************************************************************************)
(* Proofs about EvalLock that rest on the lock's bookkeeping being right   *)
(* (EvalLockProofs): the stack of locals, who holds the lock when, the     *)
(* forces of a variable, and the one-at-a-time use of the runtime.         *)
(***************************************************************************)
EXTENDS EvalLockProofs

-----------------------------------------------------------------------------
(* What the steps do to the frames of a goroutine.                          *)

\* Two frames that differ in no more than their variable, an error met, and
\* whether they look a variable up or evaluate it.
Like(e, f) ==
    /\ (e.k = "host") = (f.k = "host")
    /\ (e.k = "eval") = (f.k = "eval")
    /\ e.rel = f.rel
    /\ e.ev = f.ev
    /\ e.susp = f.susp
    /\ e.off = f.off

Stays(g) == stack'[g] = stack[g] /\ pc'[g] = pc[g] /\ want'[g] = want[g]

\* The frames of g stay, or one more begins, or the innermost ends.
Keeps(g) ==
    /\ Depth(g)' = Depth(g)
    /\ \A i \in 1..Depth(g) : Like(stack'[g][i], stack[g][i])

Begins(g, f) ==
    /\ Depth(g)' = Depth(g) + 1
    /\ stack'[g][Depth(g) + 1] = f
    /\ \A i \in 1..Depth(g) : Like(stack'[g][i], stack[g][i])

Ends(g) ==
    /\ Depth(g) # 0
    /\ Depth(g)' = Depth(g) - 1
    /\ \A i \in 1..(Depth(g) - 1) : Like(stack'[g][i], stack[g][i])

LEMMA DepthType == TypeOK => \A g \in Goroutines : Depth(g) \in Nat
BY DEF TypeOK, Depth

LEMMA StaysKeeps ==
    ASSUME NEW g \in Goroutines, stack'[g] = stack[g]
    PROVE  Keeps(g)
BY DEF Keeps, Like, Depth

\* A call or a reference waits for the lock, or its frame begins.
LEMMA LockEffect ==
    ASSUME LockInv, NEW g \in Goroutines, NEW f \in Frame,
           Acts(g) \/ InHost(g) \/ (Idle(g) /\ escaped), Lock(g, f)
    PROVE  /\ \A h \in Goroutines \ {g} : Stays(h)
           /\ pc[g] = "run"
           /\ \/ /\ shared /\ owner # g /\ ~Uses(g)
                 /\ pc'[g] = "lock" /\ want'[g] = [f EXCEPT !.rel = TRUE]
                 /\ stack'[g] = stack[g] /\ stack' = stack
              \/ /\ ~(shared /\ owner # g)
                 /\ pc'[g] = pc[g] /\ want'[g] = want[g]
                 /\ Begins(g, [f EXCEPT !.off = off])
                 /\ stack'[g] = Append(stack[g], [f EXCEPT !.off = off])
                 /\ \A i \in 1..Depth(g) : stack'[g][i] = stack[g][i]
<1>1. TypeOK /\ Apart(g) /\ stack[g] \in Seq(Frame)
  BY DEF LockInv, TypeOK
<1>2. pc[g] = "run"
  BY DEF Acts, InHost, Idle, Uses
<1>3. CASE shared /\ owner # g
  <2>1. /\ pc' = [pc EXCEPT ![g] = "lock"]
        /\ want' = [want EXCEPT ![g] = [f EXCEPT !.rel = TRUE]]
        /\ stack' = stack
    BY <1>3 DEF Lock, LockIf
  <2>2. ~Uses(g)
    BY <1>1, <1>3 DEF Apart, Owned
  <2> QED BY <1>1, <1>2, <1>3, <2>1, <2>2 DEF TypeOK, Stays
<1>4. CASE ~(shared /\ owner # g)
  <2> DEFINE e == [f EXCEPT !.off = off]
  <2>1. /\ stack' = [stack EXCEPT ![g] = Append(stack[g], e)]
        /\ pc' = pc
        /\ want' = want
    BY <1>4 DEF Lock, LockIf, Pushed
  <2>2. e \in Frame
    BY <1>1, FrameFacts DEF TypeOK
  <2> HIDE DEF e
  <2>3. stack'[g] = Append(stack[g], e)
    BY <1>1, <2>1 DEF TypeOK
  <2>4. /\ Depth(g)' = Depth(g) + 1
        /\ stack'[g][Depth(g) + 1] = e
        /\ \A i \in 1..Depth(g) : stack'[g][i] = stack[g][i]
    BY <1>1, <2>2, <2>3, PushFacts DEF Depth
  <2>5. Begins(g, e)
    BY <2>4 DEF Begins, Like
  <2> QED BY <1>1, <1>2, <1>4, <2>1, <2>3, <2>4, <2>5 DEF TypeOK, Stays, e
<1> QED BY <1>3, <1>4

\* The innermost frame of g, which evaluates, ends.
LEMMA ReturnEffect ==
    ASSUME LockInv, NEW g \in Goroutines, NEW raised, Uses(g), Return(g, raised)
    PROVE  /\ \A h \in Goroutines \ {g} : Stays(h)
           /\ want'[g] = want[g] /\ pc[g] = "run"
           /\ stack[g] # <<>> /\ Depth(g) \in 1..Depth(g)
           /\ stack'[g] = Below(g, raised)
           /\ Ends(g)
           /\ UNCHANGED <<shared, mu, evaluating, off, escaped>>
           /\ IF Top(g).rel
              THEN pc'[g] = "unlock" /\ owner' = None
              ELSE pc'[g] = pc[g] /\ owner' = owner
<1>1. TypeOK /\ stack[g] \in Seq(Frame) /\ stack[g] # <<>> /\ pc[g] = "run"
  BY DEF LockInv, TypeOK, Uses
<1>2. /\ stack' = [stack EXCEPT ![g] = Below(g, raised)]
      /\ UNCHANGED <<shared, mu, evaluating, off, escaped, want>>
      /\ IF Top(g).rel THEN owner' = None /\ pc' = [pc EXCEPT ![g] = "unlock"]
                       ELSE UNCHANGED <<owner, pc>>
  BY DEF Return, LetGo
<1>3. Depth(g) \in Nat \ {0}
  BY <1>1, TopFacts DEF Depth
<1>4. stack'[g] = Below(g, raised)
  BY <1>1, <1>2 DEF TypeOK
<1>5. Ends(g)
  BY <1>1, <1>3, <1>4, BelowFacts DEF Ends, Like, Depth
<1> QED BY <1>1, <1>2, <1>3, <1>4, <1>5 DEF TypeOK, Stays

\* A reference found its variable pending: its frame evaluates it now.
ForceBegins(g) ==
    /\ Top(g).k = "get"
    /\ state[Top(g).v] = "pending"
    /\ state' = [state EXCEPT ![Top(g).v] = "running"]
    /\ stack' = [stack EXCEPT ![g][Depth(g)] =
                    [Top(g) EXCEPT !.k = "force", !.bad = (Top(g).v \in kept)]]
    /\ UNCHANGED <<lockVars, off, kept, primed, phase, escaped, pc, want>>

LEMMA ForceEffect ==
    ASSUME LockInv, NEW g \in Goroutines, Uses(g), ForceBegins(g)
    PROVE  /\ \A h \in Goroutines \ {g} : Stays(h)
           /\ want'[g] = want[g] /\ pc'[g] = pc[g]
           /\ Depth(g) \in 1..Depth(g) /\ Depth(g)' = Depth(g)
           /\ stack'[g][Depth(g)].k = "force"
           /\ stack'[g][Depth(g)].v = Top(g).v
           /\ \A i \in 1..Depth(g) : i # Depth(g) => stack'[g][i] = stack[g][i]
           /\ Keeps(g)
<1>1. /\ TypeOK /\ stack[g] \in Seq(Frame) /\ stack[g] # <<>>
      /\ Top(g) \in Frame /\ Top(g) = stack[g][Depth(g)]
  BY TopType DEF LockInv, TypeOK, Uses, Top
<1> DEFINE f == [Top(g) EXCEPT !.k = "force", !.bad = (Top(g).v \in kept)]
           d == Depth(g)
<1>2. d \in 1..Len(stack[g]) /\ d = Len(stack[g])
  BY <1>1, TopFacts DEF Depth
<1>3. Like(f, Top(g)) /\ f.k = "force" /\ f.v = Top(g).v
  BY <1>1 DEF ForceBegins, Like, Frame
<1>4. stack'[g] = [stack[g] EXCEPT ![d] = f]
  BY <1>1 DEF ForceBegins, TypeOK
<1> HIDE DEF f
<1>5. /\ stack'[g][d] = f /\ Len(stack'[g]) = d
      /\ \A i \in 1..d : i # d => stack'[g][i] = stack[g][i]
  BY <1>1, <1>2, <1>4
<1>6. Keeps(g)
  BY <1>1, <1>3, <1>5 DEF Keeps, Like, Depth
<1> QED BY <1>1, <1>2, <1>3, <1>5, <1>6 DEF ForceBegins, TypeOK, Stays, Depth

\* Evaluation on g runs host code.  It holds the lock if that is shared, so
\* it will take the lock back.
HostFrameOf(g, join) ==
    HostFrame(TRUE, shared => evaluating, ~off /\ (shared => evaluating), join)

LEMMA HostEffect ==
    ASSUME LockInv, NEW g \in Goroutines, NEW join \in BOOLEAN, HostCall(g, join)
    PROVE  LET f == HostFrameOf(g, join)
           IN  /\ \A h \in Goroutines \ {g} : Stays(h)
               /\ want'[g] = want[g] /\ Acts(g) /\ Uses(g) /\ pc[g] = "run"
               /\ Begins(g, f) /\ Depth(g) < MaxDepth
               /\ \A i \in 1..Depth(g) : stack'[g][i] = stack[g][i]
               /\ shared => owner = g
               /\ ~shared => g = Main
               /\ shared' /\ escaped' /\ off' = (off \/ f.susp)
               /\ UNCHANGED <<mu, varVars>>
               /\ IF shared
                  THEN pc'[g] = "unlock" /\ owner' = None /\ ~evaluating'
                  ELSE pc'[g] = pc[g] /\ owner' = owner /\ evaluating' = evaluating
<1> DEFINE f == HostFrameOf(g, join)
           h0 == HostFrame(~shared \/ Mine(g), shared => evaluating, ~off /\ Local(g), join)
<1>1. HostRun(g, join, ~shared \/ Mine(g), ~off /\ Local(g), Mine(g))
  BY DEF HostCall
<1>2. TypeOK /\ Acts(g) /\ Uses(g) /\ pc[g] = "run" /\ stack[g] \in Seq(Frame)
      /\ stack[g] # <<>> /\ Apart(g)
  BY <1>1 DEF HostRun, Acts, Uses, LockInv, TypeOK
<1>3. (shared => owner = g) /\ (~shared => g = Main)
  BY <1>2 DEF Apart, Owned
<1>4. Mine(g) = shared
  BY <1>2, <1>3 DEF Mine, TypeOK
<1>5. h0 = f
  <2>1. (~shared \/ Mine(g)) = TRUE
    BY <1>4
  <2>2. (~off /\ Local(g)) = (~off /\ (shared => evaluating))
    BY <1>4 DEF Local
  <2> QED BY <2>1, <2>2 DEF HostFrameOf
<1>6. f \in Frame
  BY FrameFacts DEF HostFrameOf
<1>7. f.susp = (~off /\ Local(g))
  <2>1. (~off /\ Local(g)) = (~off /\ (shared => evaluating))
    BY <1>4 DEF Local
  <2> QED BY <2>1 DEF HostFrameOf, HostFrame
<1>8. /\ stack' = [stack EXCEPT ![g] = Append(stack[g], f)]
      /\ shared' = TRUE /\ escaped' = TRUE /\ off' = (off \/ f.susp)
      /\ Depth(g) < MaxDepth
      /\ UNCHANGED <<mu, varVars, want>>
      /\ IF shared
         THEN evaluating' = FALSE /\ owner' = None /\ pc' = [pc EXCEPT ![g] = "unlock"]
         ELSE UNCHANGED <<evaluating, owner, pc>>
  BY <1>1, <1>4, <1>5, <1>7 DEF HostRun, LetGo, Pushed
<1> HIDE DEF f, h0
<1>9. stack'[g] = Append(stack[g], f)
  BY <1>2, <1>8 DEF TypeOK
<1>10. /\ Depth(g)' = Depth(g) + 1
       /\ stack'[g][Depth(g) + 1] = f
       /\ \A i \in 1..Depth(g) : stack'[g][i] = stack[g][i]
  BY <1>2, <1>6, <1>9, PushFacts DEF Depth
<1>11. Begins(g, f)
  BY <1>10 DEF Begins, Like
<1> QED BY <1>2, <1>3, <1>8, <1>10, <1>11 DEF TypeOK, Stays, f

\* Host code returns: it waits for the lock.
LEMMA HostReturnEffect ==
    ASSUME LockInv, NEW g \in Goroutines, HostReturn(g)
    PROVE  /\ \A h \in Goroutines \ {g} : Stays(h)
           /\ pc[g] = "run" /\ stack[g] # <<>> /\ Top(g).k = "host"
           /\ Depth(g) \in 1..Depth(g)
           /\ stack' = stack
           /\ pc'[g] = "lock" /\ want'[g] = Top(g)
           /\ shared
           /\ UNCHANGED <<lockVars, off, varVars, escaped>>
<1>1. /\ pc[g] = "run" /\ stack[g] # <<>> /\ Top(g).k = "host"
      /\ stack[g] \in Seq(Frame) /\ Apart(g) /\ TypeOK
  BY DEF HostReturn, InHost, TypeOK, LockInv
<1>2. Depth(g) \in 1..Depth(g)
  BY <1>1, TopFacts DEF Depth
<1>3. Top(g).rel /\ shared
  BY <1>1, <1>2 DEF Apart, Frames, Top
<1>4. /\ pc' = [pc EXCEPT ![g] = "lock"]
      /\ want' = [want EXCEPT ![g] = Top(g)]
      /\ UNCHANGED <<stack, lockVars, off, varVars, escaped>>
  BY <1>3 DEF HostReturn
<1> QED BY <1>1, <1>2, <1>3, <1>4 DEF TypeOK, Stays

\* The goroutine that locked mu becomes the owner: host code is resumed from,
\* or the frame the lock was taken for begins.
LEMMA TakeEffect ==
    ASSUME LockInv, NEW g \in Goroutines, TakeOwner(g)
    PROVE  /\ \A h \in Goroutines \ {g} : Stays(h)
           /\ pc[g] = "locked" /\ pc'[g] = "run" /\ mu = g /\ owner' = g /\ shared
           /\ stack[g] = <<>> \/ (Top(g).k = "host" /\ Depth(g) \in 1..Depth(g))
           /\ UNCHANGED <<shared, mu, varVars, escaped>>
           /\ IF want[g].k = "host"
              THEN /\ stack[g] # <<>> /\ Ends(g)
                   /\ \A i \in 1..(Depth(g) - 1) : stack'[g][i] = stack[g][i]
                   /\ evaluating' = want[g].ev
                   /\ off' = (off /\ ~want[g].susp)
              ELSE /\ Begins(g, [want[g] EXCEPT !.off = off])
                   /\ \A i \in 1..Depth(g) : stack'[g][i] = stack[g][i]
                   /\ UNCHANGED <<evaluating, off>>
<1>1. /\ pc[g] = "locked" /\ owner' = g
      /\ pc' = [pc EXCEPT ![g] = "run"]
      /\ want' = [want EXCEPT ![g] = NoWant]
      /\ UNCHANGED <<shared, mu, varVars, escaped>>
  BY DEF TakeOwner
<1>2. Apart(g) /\ stack[g] \in Seq(Frame) /\ TypeOK /\ want[g] \in Frame
  BY DEF TypeOK, LockInv
<1>3. mu = g /\ shared /\ (stack[g] = <<>> \/ Top(g).k = "host")
  BY <1>1, <1>2 DEF Apart, Owned, Waiting
<1>4. \A h \in Goroutines \ {g} : Stays(h)
  BY <1>1, <1>2 DEF TakeOwner, TypeOK, Stays
<1>5. CASE want[g].k = "host"
  <2>1. stack[g] # <<>>
    BY <1>1, <1>2, <1>5 DEF Apart, Waiting
  <2>2. /\ stack' = [stack EXCEPT ![g] = Popped(g)]
        /\ evaluating' = want[g].ev
        /\ off' = (off /\ ~want[g].susp)
    BY <1>5 DEF TakeOwner
  <2>3. /\ Depth(g) \in Nat \ {0}
        /\ Depth(g)' = Depth(g) - 1
        /\ \A i \in 1..(Depth(g) - 1) : stack'[g][i] = stack[g][i]
    BY <1>2, <2>1, <2>2, PopFacts, TopFacts DEF TypeOK, Depth, Popped
  <2>4. Ends(g)
    BY <2>3 DEF Ends, Like
  <2> QED BY <1>1, <1>2, <1>3, <1>4, <1>5, <2>1, <2>2, <2>3, <2>4 DEF TypeOK
<1>6. CASE want[g].k # "host"
  <2> DEFINE f == [want[g] EXCEPT !.off = off]
  <2>1. f \in Frame
    BY <1>2, FrameFacts DEF TypeOK
  <2>2. /\ stack' = [stack EXCEPT ![g] = Append(stack[g], f)]
        /\ UNCHANGED <<evaluating, off>>
    BY <1>6 DEF TakeOwner, Pushed
  <2> HIDE DEF f
  <2>3. stack'[g] = Append(stack[g], f)
    BY <1>2, <2>2 DEF TypeOK
  <2>4. /\ Depth(g)' = Depth(g) + 1
        /\ stack'[g][Depth(g) + 1] = f
        /\ \A i \in 1..Depth(g) : stack'[g][i] = stack[g][i]
    BY <1>2, <2>1, <2>3, PushFacts DEF Depth
  <2>5. Begins(g, f)
    BY <2>4 DEF Begins, Like
  <2>6. stack[g] # <<>> => Depth(g) \in 1..Depth(g)
    BY <1>2, TopFacts DEF Depth
  <2> QED BY <1>1, <1>2, <1>3, <1>4, <1>6, <2>2, <2>4, <2>5, <2>6 DEF TypeOK, f
<1> QED BY <1>5, <1>6

\* evalGlobals takes the next global up.
LEMMA PrimeEffect ==
    ASSUME LockInv, NEW v \in Vars, Prime(v)
    PROVE  LET f == [NewFrame("get", v) EXCEPT !.off = off]
           IN  /\ \A h \in Goroutines \ {Main} : Stays(h)
               /\ Uses(Main) /\ phase = "globals" /\ Depth(Main) = 1 /\ v \in Eager
               /\ pc'[Main] = pc[Main] /\ want'[Main] = want[Main]
               /\ ~stack[Main][1].bad
               /\ UNCHANGED <<lockVars, off, state, kept, phase, escaped>>
               /\ \/ stack' = stack
                  \/ /\ 1 < MaxDepth /\ Begins(Main, f)
                     /\ stack'[Main][1] = [stack[Main][1] EXCEPT !.v = v]
<1> DEFINE e == [Top(Main) EXCEPT !.v = v]
           f == [NewFrame("get", v) EXCEPT !.off = off]
<1>1. /\ Uses(Main) /\ phase = "globals" /\ Depth(Main) = 1 /\ v \in Eager
      /\ stack[Main] # <<>> /\ ~Top(Main).bad /\ 1 < MaxDepth
      /\ UNCHANGED <<lockVars, off, state, kept, phase, escaped, pc, want>>
      /\ stack' = stack \/ stack' = [stack EXCEPT ![Main] = <<e, f>>]
  BY DEF Prime, InGlobals, Uses
<1>2. /\ TypeOK /\ Top(Main) = stack[Main][1] /\ Top(Main) \in Frame
  BY <1>1, TopType, GoroutineFacts DEF Top, LockInv
<1>3. CASE stack' = stack
  BY <1>1, <1>2, <1>3 DEF Stays
<1>4. CASE stack' = [stack EXCEPT ![Main] = <<e, f>>]
  <2>1. Like(e, Top(Main))
    BY <1>2 DEF Like, Frame
  <2> HIDE DEF e, f
  <2>2. stack'[Main] = <<e, f>>
    BY <1>2, <1>4, GoroutineFacts DEF TypeOK
  <2>3. stack'[Main][1] = e /\ stack'[Main][2] = f /\ Depth(Main)' = 2
    BY <2>2 DEF Depth
  <2>4. Begins(Main, f)
    BY <1>1, <1>2, <2>1, <2>3 DEF Begins
  <2>5. \A h \in Goroutines \ {Main} : Stays(h)
    BY <1>1, <1>2, <1>4 DEF TypeOK, Stays
  <2> QED BY <1>1, <1>2, <2>3, <2>4, <2>5 DEF e, f
<1> QED BY <1>1, <1>3, <1>4

\* A deferred global is taken out of scope.
LEMMA UnbindEffect ==
    ASSUME LockInv, NEW v \in Vars, Unbind(v)
    PROVE  /\ \A h \in Goroutines \ {Main} : Stays(h)
           /\ Uses(Main) /\ phase = "globals" /\ Depth(Main) = 1
           /\ stack[Main][1].bad /\ stack[Main][1].v = v /\ v \in Deferred
           /\ pc'[Main] = pc[Main] /\ want'[Main] = want[Main]
           /\ state' = [state EXCEPT ![v] = "unbound"]
           /\ UNCHANGED <<lockVars, off, kept, primed, phase, escaped>>
           /\ Keeps(Main)
           /\ stack'[Main][1] = [stack[Main][1] EXCEPT !.bad = FALSE]
<1> DEFINE f == [stack[Main][1] EXCEPT !.bad = FALSE]
<1>1. /\ Uses(Main) /\ phase = "globals" /\ Depth(Main) = 1 /\ v \in Deferred
      /\ stack[Main] # <<>> /\ Top(Main).bad /\ Top(Main).v = v
      /\ state' = [state EXCEPT ![v] = "unbound"]
      /\ UNCHANGED <<lockVars, off, kept, primed, phase, escaped, pc, want>>
      /\ stack' = [stack EXCEPT ![Main] = [stack[Main] EXCEPT ![1] = f]]
  BY DEF Unbind, InGlobals, Uses
<1>2. /\ TypeOK /\ Top(Main) = stack[Main][1] /\ Top(Main) \in Frame
      /\ stack[Main] \in Seq(Frame)
  BY <1>1, TopType, GoroutineFacts DEF Top, LockInv, TypeOK
<1>3. Like(f, Top(Main))
  BY <1>2 DEF Like, Frame
<1> HIDE DEF f
<1>4. stack'[Main] = [stack[Main] EXCEPT ![1] = f]
  BY <1>1, <1>2, GoroutineFacts DEF TypeOK
<1>5. stack'[Main][1] = f /\ Depth(Main)' = 1
  BY <1>1, <1>2, <1>4 DEF Depth
<1>6. Keeps(Main)
  BY <1>1, <1>2, <1>3, <1>5 DEF Keeps
<1>7. \A h \in Goroutines \ {Main} : Stays(h)
  BY <1>1, <1>2 DEF TypeOK, Stays
<1> QED BY <1>1, <1>2, <1>5, <1>6, <1>7 DEF f

\* newRuntime fails, or the transform returns: Main has no frame any more.
LEMMA ClearEffect ==
    ASSUME LockInv, GlobalsFail \/ EndTransform
    PROVE  /\ \A h \in Goroutines \ {Main} : Stays(h)
           /\ Uses(Main) /\ Depth(Main) = 1 /\ Top(Main) = stack[Main][1]
           /\ stack'[Main] = <<>> /\ Depth(Main)' = 0
           /\ want'[Main] = want[Main]
           /\ UNCHANGED <<mu, state, kept, primed>>
<1>1. /\ Uses(Main) /\ Depth(Main) = 1
      /\ stack' = [stack EXCEPT ![Main] = <<>>]
      /\ UNCHANGED <<mu, state, kept, primed, want>>
      /\ pc' = pc \/ pc' = [pc EXCEPT ![Main] = "unlock"]
  BY DEF GlobalsFail, InGlobals, EndTransform, Share, LetGo, lockVars
<1>2. TypeOK
  BY DEF LockInv
<1>3. \A h \in Goroutines \ {Main} : Stays(h)
  BY <1>1, <1>2 DEF TypeOK, Stays
<1>4. stack'[Main] = <<>> /\ Depth(Main)' = 0
  BY <1>1, <1>2, GoroutineFacts DEF TypeOK, Depth
<1> QED BY <1>1, <1>3, <1>4 DEF Top

-----------------------------------------------------------------------------
(* The stack of locals.                                                     *)

\* A call of host code by which Main's locals were hidden, at a depth; and
\* whether the stack of locals is off for what Main does at a depth: it is
\* closed, or hidden by one of the frames below.
Hidden(i) == stack[Main][i].k = "host" /\ stack[Main][i].susp
OffAt(n) == phase = "ended" \/ \E i \in 1..n : Hidden(i)

\* The locals are on or off by Main's frames alone.  One call at most hides
\* them, it was made while the lock was held if it was shared, and its return
\* restores that.
MainLocals ==
    /\ off = OffAt(Depth(Main))
    /\ \A i \in 1..Depth(Main) :
        IF stack[Main][i].k = "host"
        THEN /\ OffAt(i)
             /\ stack[Main][i].susp => stack[Main][i].ev /\ phase # "ended"
        ELSE /\ stack[Main][i].off = OffAt(i)
             /\ stack[Main][i].rel => stack[Main][i].off
    /\ \A i, j \in 1..Depth(Main) : Hidden(i) /\ Hidden(j) => i = j
    /\ pc[Main] # "run" => off

\* Whatever another goroutine evaluates began with the locals off.
OtherLocals(g) ==
    \A i \in 1..Depth(g) :
        IF stack[g][i].k = "host" THEN ~stack[g][i].susp ELSE stack[g][i].off

\* What a goroutine waits for the lock for.
Wants(g) ==
    pc[g] \in {"lock", "locked"} =>
        IF want[g].k = "host" THEN want[g] = Top(g)
        ELSE want[g].k \in {"call", "get"} /\ want[g].rel /\ Depth(g) < MaxDepth

\* While the locals are on and the lock is shared, Main holds it and the lock
\* says so.
LocalsInv ==
    /\ MainLocals
    /\ \A g \in Others : OtherLocals(g)
    /\ \A g \in Goroutines : Wants(g)
    /\ ~off /\ shared => owner = Main /\ evaluating

LEMMA OffAtLike ==
    ASSUME NEW n \in Nat,
           \A i \in 1..n : Like(stack'[Main][i], stack[Main][i]),
           (phase' = "ended") = (phase = "ended")
    PROVE  /\ \A i \in 1..n : Hidden(i)' = Hidden(i)
           /\ \A m \in 0..n : OffAt(m)' = OffAt(m)
<1>1. \A i \in 1..n : Hidden(i)' = Hidden(i)
  BY DEF Like, Hidden
<1>2. ASSUME NEW m \in 0..n PROVE OffAt(m)' = OffAt(m)
  <2>1. 1..m \subseteq 1..n
    OBVIOUS
  <2> QED BY <1>1, <2>1 DEF OffAt
<1> QED BY <1>1, <1>2

LEMMA LocalsKeep ==
    ASSUME TypeOK, MainLocals, Keeps(Main), off' = off,
           (phase' = "ended") = (phase = "ended"), pc'[Main] # "run" => off
    PROVE  MainLocals'
<1>1. Depth(Main) \in Nat /\ Depth(Main)' = Depth(Main)
  BY DepthType, GoroutineFacts DEF Keeps
<1>2. /\ \A i \in 1..Depth(Main) : Hidden(i)' = Hidden(i)
      /\ \A m \in 0..Depth(Main) : OffAt(m)' = OffAt(m)
      /\ \A i \in 1..Depth(Main) : Like(stack'[Main][i], stack[Main][i])
  BY <1>1, OffAtLike DEF Keeps
<1>3. OffAt(Depth(Main))' = OffAt(Depth(Main))
  BY <1>1, <1>2 DEF OffAt
<1> QED BY <1>1, <1>2, <1>3 DEF MainLocals, Like

LEMMA LocalsBegin ==
    ASSUME TypeOK, MainLocals, NEW f, Begins(Main, f), off' = off,
           (phase' = "ended") = (phase = "ended"), pc'[Main] # "run" => off,
           f.k # "host", f.off = off, f.rel => off
    PROVE  MainLocals'
<1>0. PICK n \in Nat : Depth(Main) = n
  BY DepthType, GoroutineFacts
<1>1. Depth(Main)' = n + 1 /\ stack'[Main][n + 1] = f
  BY <1>0 DEF Begins
<1>2. /\ \A i \in 1..n : Hidden(i)' = Hidden(i)
      /\ \A m \in 0..n : OffAt(m)' = OffAt(m)
      /\ \A i \in 1..n : Like(stack'[Main][i], stack[Main][i])
  BY <1>0, OffAtLike DEF Begins
<1>3. ~Hidden(n + 1)'
  BY <1>1 DEF Hidden
<1>4. OffAt(n + 1)' = OffAt(n)'
  <2>1. 1..(n + 1) = 1..n \cup {n + 1}
    BY <1>1
  <2> QED BY <1>3, <2>1 DEF OffAt
<1>5. OffAt(n)' = off /\ off = OffAt(n)
  BY <1>0, <1>2 DEF MainLocals
<1>6. \A i \in 1..(n + 1) : i \in 1..n \/ i = n + 1
  BY <1>1
<1>7. OffAt(Depth(Main))' = OffAt(n + 1)'
  BY <1>1 DEF OffAt
<1>8. ASSUME NEW i \in 1..(n + 1)
      PROVE  IF stack'[Main][i].k = "host"
             THEN /\ OffAt(i)'
                  /\ stack'[Main][i].susp => stack'[Main][i].ev /\ phase' # "ended"
             ELSE /\ stack'[Main][i].off = OffAt(i)'
                  /\ stack'[Main][i].rel => stack'[Main][i].off
  <2>1. CASE i = n + 1
    BY <1>1, <1>4, <1>5, <2>1
  <2>2. CASE i \in 1..n
    BY <1>0, <1>2, <2>2 DEF MainLocals, Like
  <2> QED BY <1>6, <2>1, <2>2
<1>9. ASSUME NEW i \in 1..(n + 1), NEW j \in 1..(n + 1), Hidden(i)', Hidden(j)'
      PROVE  i = j
  BY <1>0, <1>2, <1>3, <1>6, <1>9 DEF MainLocals
<1> QED BY <1>1, <1>4, <1>5, <1>7, <1>8, <1>9 DEF MainLocals

LEMMA LocalsHost ==
    ASSUME TypeOK, MainLocals, NEW f, Begins(Main, f), f.k = "host",
           f.susp \in BOOLEAN, off' = (off \/ f.susp), off',
           f.susp => ~off /\ f.ev, phase' = phase
    PROVE  MainLocals'
<1>0. PICK n \in Nat : Depth(Main) = n
  BY DepthType, GoroutineFacts
<1>1. Depth(Main)' = n + 1 /\ stack'[Main][n + 1] = f
  BY <1>0 DEF Begins
<1>2. /\ \A i \in 1..n : Hidden(i)' = Hidden(i)
      /\ \A m \in 0..n : OffAt(m)' = OffAt(m)
      /\ \A i \in 1..n : Like(stack'[Main][i], stack[Main][i])
  BY <1>0, OffAtLike DEF Begins
<1>3. Hidden(n + 1)' = f.susp
  BY <1>1 DEF Hidden
<1>4. OffAt(n + 1)' = (OffAt(n)' \/ f.susp)
  <2>1. 1..(n + 1) = 1..n \cup {n + 1}
    BY <1>1
  <2> QED BY <1>3, <2>1 DEF OffAt
<1>5. OffAt(n)' = off /\ off = OffAt(n)
  BY <1>0, <1>2 DEF MainLocals
<1>6. \A i \in 1..(n + 1) : i \in 1..n \/ i = n + 1
  BY <1>1
<1>7. OffAt(Depth(Main))' = OffAt(n + 1)'
  BY <1>1 DEF OffAt
<1>8. f.susp => phase # "ended" /\ \A i \in 1..n : ~Hidden(i)
  BY <1>5 DEF OffAt
<1>9. ASSUME NEW i \in 1..(n + 1)
      PROVE  IF stack'[Main][i].k = "host"
             THEN /\ OffAt(i)'
                  /\ stack'[Main][i].susp => stack'[Main][i].ev /\ phase' # "ended"
             ELSE /\ stack'[Main][i].off = OffAt(i)'
                  /\ stack'[Main][i].rel => stack'[Main][i].off
  <2>1. CASE i = n + 1
    BY <1>1, <1>4, <1>5, <1>8, <2>1
  <2>2. CASE i \in 1..n
    BY <1>0, <1>2, <2>2 DEF MainLocals, Like
  <2> QED BY <1>6, <2>1, <2>2
<1>10. ASSUME NEW i \in 1..(n + 1), NEW j \in 1..(n + 1), Hidden(i)', Hidden(j)'
       PROVE  i = j
  BY <1>0, <1>2, <1>3, <1>6, <1>8, <1>10 DEF MainLocals
<1> QED BY <1>1, <1>4, <1>5, <1>7, <1>9, <1>10 DEF MainLocals

LEMMA LocalsEnd ==
    ASSUME TypeOK, MainLocals, Ends(Main), phase' = phase,
           stack[Main][Depth(Main)].k = "host" =>
              /\ off' = (off /\ ~stack[Main][Depth(Main)].susp)
              /\ stack[Main][Depth(Main)].susp \in BOOLEAN,
           stack[Main][Depth(Main)].k # "host" => off' = off,
           pc'[Main] # "run" => off'
    PROVE  MainLocals'
<1>1. PICK n \in Nat : Depth(Main) = n + 1 /\ Depth(Main)' = n
  <2>1. Depth(Main) \in Nat \ {0} /\ Depth(Main)' = Depth(Main) - 1
    BY DepthType, GoroutineFacts DEF Ends
  <2>2. Depth(Main) - 1 \in Nat /\ Depth(Main) = (Depth(Main) - 1) + 1
    BY <2>1
  <2> QED BY <2>1, <2>2
<1>2. /\ \A i \in 1..n : Hidden(i)' = Hidden(i)
      /\ \A m \in 0..n : OffAt(m)' = OffAt(m)
      /\ \A i \in 1..n : Like(stack'[Main][i], stack[Main][i])
  <2>1. \A i \in 1..n : Like(stack'[Main][i], stack[Main][i])
    BY <1>1 DEF Ends
  <2> QED BY <1>1, <2>1, OffAtLike
<1>3. OffAt(Depth(Main))' = OffAt(n)' /\ OffAt(n)' = OffAt(n)
  <2>1. OffAt(Depth(Main))' = OffAt(n)'
    BY <1>1 DEF OffAt
  <2> QED BY <1>1, <1>2, <2>1
<1>4. off = (OffAt(n) \/ Hidden(n + 1))
  <2>1. 1..(n + 1) = 1..n \cup {n + 1}
    BY <1>1
  <2> QED BY <1>1, <2>1 DEF OffAt, MainLocals
<1>5. \A i \in 1..n : i \in 1..(n + 1) /\ i # n + 1
  BY <1>1
<1>6. Hidden(n + 1) => ~OffAt(n)
  BY <1>1, <1>5 DEF OffAt, MainLocals, Hidden
<1>7. off' = OffAt(n)
  BY <1>1, <1>4, <1>6 DEF Hidden, OffAt
<1>8. ASSUME NEW i \in 1..n
      PROVE  IF stack'[Main][i].k = "host"
             THEN /\ OffAt(i)'
                  /\ stack'[Main][i].susp => stack'[Main][i].ev /\ phase' # "ended"
             ELSE /\ stack'[Main][i].off = OffAt(i)'
                  /\ stack'[Main][i].rel => stack'[Main][i].off
  <2>1. IF stack[Main][i].k = "host"
        THEN /\ OffAt(i)
             /\ stack[Main][i].susp => stack[Main][i].ev /\ phase # "ended"
        ELSE /\ stack[Main][i].off = OffAt(i)
             /\ stack[Main][i].rel => stack[Main][i].off
    BY <1>1, <1>5 DEF MainLocals
  <2>2. OffAt(i)' = OffAt(i) /\ Like(stack'[Main][i], stack[Main][i])
    BY <1>2
  <2> QED BY <2>1, <2>2 DEF Like
<1>9. ASSUME NEW i \in 1..n, NEW j \in 1..n, Hidden(i)', Hidden(j)'
      PROVE  i = j
  BY <1>1, <1>2, <1>5, <1>9 DEF MainLocals
<1> QED BY <1>1, <1>3, <1>7, <1>8, <1>9 DEF MainLocals

LEMMA OtherKeep ==
    ASSUME TypeOK, NEW g \in Goroutines, OtherLocals(g), Keeps(g)
    PROVE  OtherLocals(g)'
BY DEF OtherLocals, Keeps, Like

LEMMA OtherBegin ==
    ASSUME TypeOK, NEW g \in Goroutines, NEW f, OtherLocals(g), Begins(g, f),
           IF f.k = "host" THEN ~f.susp ELSE f.off
    PROVE  OtherLocals(g)'
<1>0. PICK n \in Nat : Depth(g) = n
  BY DepthType
<1>1. Depth(g)' = n + 1 /\ stack'[g][n + 1] = f
  BY <1>0 DEF Begins
<1>2. ASSUME NEW i \in 1..(n + 1)
      PROVE  IF stack'[g][i].k = "host" THEN ~stack'[g][i].susp ELSE stack'[g][i].off
  <2>1. CASE i = n + 1
    BY <1>1, <2>1
  <2>2. CASE i \in 1..n
    BY <1>0, <2>2 DEF OtherLocals, Begins, Like
  <2> QED BY <2>1, <2>2
<1> QED BY <1>1, <1>2 DEF OtherLocals

LEMMA OtherEnd ==
    ASSUME TypeOK, NEW g \in Goroutines, OtherLocals(g), Ends(g)
    PROVE  OtherLocals(g)'
<1>1. Depth(g) \in Nat /\ 1..(Depth(g) - 1) \subseteq 1..Depth(g)
  BY DepthType
<1> QED BY <1>1 DEF OtherLocals, Ends, Like

\* A step of one goroutine: the locals are as the others need them.
LEMMA LocalsFrom ==
    ASSUME LockInv, LocalsInv, NEW g \in Goroutines,
           \A h \in Goroutines \ {g} : Stays(h),
           IF g = Main THEN MainLocals'
                       ELSE OtherLocals(g)' /\ off' = off /\ phase' = phase,
           Wants(g)',
           ~off' /\ shared' => owner' = Main /\ evaluating'
    PROVE  LocalsInv'
<1>1. MainLocals'
  <2>1. CASE g = Main
    BY <2>1
  <2>2. CASE g # Main
    <3>1. Stays(Main)
      BY <2>2, GoroutineFacts
    <3>2. Keeps(Main) /\ TypeOK
      BY <3>1, StaysKeeps, GoroutineFacts DEF Stays, LockInv
    <3>3. pc'[Main] # "run" => off
      BY <3>1 DEF Stays, LocalsInv, MainLocals
    <3> QED BY <2>2, <3>2, <3>3, LocalsKeep DEF LocalsInv
  <2> QED BY <2>1, <2>2
<1>2. ASSUME NEW h \in Others PROVE OtherLocals(h)'
  <2>1. h \in Goroutines /\ h # Main
    BY EvalLockAssumption DEF Goroutines
  <2>2. CASE h = g
    BY <2>1, <2>2
  <2>3. CASE h # g
    <3>1. Keeps(h)
      BY <2>1, <2>3, StaysKeeps DEF Stays
    <3> QED BY <2>1, <3>1, OtherKeep DEF LocalsInv, LockInv
  <2> QED BY <2>2, <2>3
<1>3. ASSUME NEW h \in Goroutines PROVE Wants(h)'
  <2>1. CASE h = g
    BY <2>1
  <2>2. CASE h # g
    BY <2>2 DEF LocalsInv, Wants, Stays, Top, Depth
  <2> QED BY <2>1, <2>2
<1> QED BY <1>1, <1>2, <1>3 DEF LocalsInv

\* A call or a reference.
LEMMA LocalsLock ==
    ASSUME LockInv, LocalsInv, NEW g \in Goroutines, NEW f \in Frame,
           f.k \in {"call", "get"}, ~f.rel, Depth(g) < MaxDepth,
           Acts(g) \/ InHost(g) \/ (Idle(g) /\ escaped), Lock(g, f),
           UNCHANGED <<lockVars, off, phase>>
    PROVE  LocalsInv'
<1> DEFINE e == [f EXCEPT !.off = off]
           w == [f EXCEPT !.rel = TRUE]
<1>1. TypeOK /\ Apart(g) /\ (~off /\ shared => owner = Main /\ evaluating)
      /\ (g # Main => OtherLocals(g)) /\ MainLocals
  BY DEF LockInv, LocalsInv, Goroutines
<1>2. e.k # "host" /\ e.off = off /\ ~e.rel /\ w.k \in {"call", "get"} /\ w.rel
  BY DEF Frame
<1>3. UNCHANGED <<off, shared, owner, evaluating, phase>>
  BY DEF lockVars
<1> HIDE DEF e, w
<1>4. CASE /\ shared /\ owner # g /\ pc'[g] = "lock" /\ want'[g] = w
           /\ stack'[g] = stack[g]
  <2>1. Keeps(g)
    BY <1>4, StaysKeeps
  <2>2. g = Main => off
    BY <1>1, <1>4
  <2>3. IF g = Main THEN MainLocals' ELSE OtherLocals(g)'
    BY <1>1, <1>3, <2>1, <2>2, LocalsKeep, OtherKeep
  <2>4. Wants(g)'
    BY <1>2, <1>4, <2>1 DEF Wants, Keeps
  <2>5. \A h \in Goroutines \ {g} : Stays(h)
    BY LockEffect
  <2> QED BY <1>1, <1>3, <2>3, <2>4, <2>5, LocalsFrom
<1>5. CASE ~(shared /\ owner # g) /\ pc'[g] = pc[g] /\ pc[g] = "run" /\ Begins(g, e)
  <2>1. g # Main => shared
    BY <1>1 DEF Apart, Owned, Acts, Uses, InHost, Idle, LockInv
  <2>2. g # Main => off
    BY <1>1, <1>5, <2>1
  <2>3. IF g = Main THEN MainLocals' ELSE OtherLocals(g)'
    BY <1>1, <1>2, <1>3, <1>5, <2>2, LocalsBegin, OtherBegin
  <2>4. Wants(g)'
    BY <1>5 DEF Wants
  <2>5. \A h \in Goroutines \ {g} : Stays(h)
    BY LockEffect
  <2> QED BY <1>1, <1>3, <2>3, <2>4, <2>5, LocalsFrom
<1> QED BY <1>4, <1>5, LockEffect DEF e, w

\* The end of a frame that evaluates.
LEMMA LocalsReturn ==
    ASSUME LockInv, LocalsInv, NEW g \in Goroutines, NEW raised,
           Uses(g), Return(g, raised), phase' = phase
    PROVE  LocalsInv'
<1>1. /\ TypeOK /\ (~off /\ shared => owner = Main /\ evaluating) /\ Apart(g)
      /\ (g # Main => OtherLocals(g)) /\ MainLocals
  BY DEF LockInv, LocalsInv, Goroutines
<1>2. /\ \A h \in Goroutines \ {g} : Stays(h)
      /\ pc[g] = "run" /\ Depth(g) \in 1..Depth(g) /\ Ends(g)
      /\ UNCHANGED <<shared, evaluating, off>>
      /\ IF Top(g).rel THEN pc'[g] = "unlock" /\ owner' = None
                       ELSE pc'[g] = pc[g] /\ owner' = owner
  BY ReturnEffect
<1>3. Top(g).k # "host" /\ Top(g) = stack[g][Depth(g)]
  BY DEF Uses, Top
<1>4. g = Main /\ Top(g).rel => off
  <2>1. ASSUME g = Main, Top(g).rel PROVE off
    <3>1. Top(g).off /\ Top(g).off = OffAt(Depth(Main)) /\ off = OffAt(Depth(Main))
      BY <1>1, <1>2, <1>3, <2>1 DEF MainLocals
    <3> QED BY <3>1
  <2> QED BY <2>1
<1>5. CASE g = Main
  <2>1. pc'[Main] # "run" => off'
    BY <1>2, <1>4, <1>5
  <2>2. MainLocals'
    BY <1>1, <1>2, <1>3, <1>5, <2>1, LocalsEnd
  <2>3. ~off' /\ shared' => owner' = Main /\ evaluating'
    BY <1>1, <1>2, <1>4, <1>5
  <2>4. Wants(g)'
    BY <1>2 DEF Wants
  <2> QED BY <1>2, <1>5, <2>2, <2>3, <2>4, LocalsFrom
<1>6. CASE g # Main
  <2>1. OtherLocals(g)'
    BY <1>1, <1>2, <1>6, OtherEnd
  <2>2. ~off /\ shared => owner = Main /\ ~Uses(g)
    BY <1>1, <1>6 DEF Apart, Owned
  <2>3. Wants(g)'
    BY <1>2 DEF Wants
  <2> QED BY <1>2, <1>6, <2>1, <2>2, <2>3, LocalsFrom
<1> QED BY <1>5, <1>6

\* Evaluation runs host code: the locals are off for it, whoever evaluates.
LEMMA LocalsHostCall ==
    ASSUME LockInv, LocalsInv, NEW g \in Goroutines, NEW join \in BOOLEAN,
           HostCall(g, join)
    PROVE  LocalsInv'
<1> DEFINE f == HostFrameOf(g, join)
<1>1. /\ TypeOK /\ (~off /\ shared => owner = Main /\ evaluating)
      /\ (g # Main => OtherLocals(g)) /\ MainLocals
  BY DEF LockInv, LocalsInv, Goroutines
<1>2. /\ \A h \in Goroutines \ {g} : Stays(h)
      /\ pc[g] = "run" /\ Begins(g, f)
      /\ shared => owner = g
      /\ ~shared => g = Main
      /\ shared' /\ off' = (off \/ f.susp) /\ phase' = phase
      /\ IF shared THEN pc'[g] = "unlock" ELSE pc'[g] = pc[g]
  BY HostEffect DEF varVars
<1>3. /\ f.k = "host" /\ f.susp = (~off /\ (shared => evaluating))
      /\ f.ev = (shared => evaluating)
  BY DEF HostFrameOf, HostFrame
<1> HIDE DEF f
<1>4. off'
  BY <1>1, <1>2, <1>3
<1>5. Wants(g)'
  BY <1>2 DEF Wants
<1>6. CASE g = Main
  <2>1. MainLocals'
    BY <1>1, <1>2, <1>3, <1>4, <1>6, LocalsHost
  <2> QED BY <1>2, <1>4, <1>5, <1>6, <2>1, LocalsFrom
<1>7. CASE g # Main
  <2>1. off /\ ~f.susp
    BY <1>1, <1>2, <1>3, <1>7
  <2>2. OtherLocals(g)'
    BY <1>1, <1>2, <1>3, <1>7, <2>1, OtherBegin
  <2>3. off' = off
    BY <1>1, <1>2, <2>1 DEF TypeOK
  <2> QED BY <1>2, <1>4, <1>5, <1>7, <2>2, <2>3, LocalsFrom
<1> QED BY <1>6, <1>7

LEMMA LocalsTake ==
    ASSUME LockInv, LocalsInv, NEW g \in Goroutines, TakeOwner(g)
    PROVE  LocalsInv'
<1>1. /\ TypeOK /\ (~off /\ shared => owner = Main /\ evaluating)
      /\ (g # Main => OtherLocals(g)) /\ MainLocals /\ Wants(g) /\ want[g] \in Frame
      /\ Apart(Main)
  BY GoroutineFacts DEF LockInv, LocalsInv, Goroutines, TypeOK
<1>2. /\ \A h \in Goroutines \ {g} : Stays(h)
      /\ pc[g] = "locked" /\ pc'[g] = "run" /\ mu = g /\ owner' = g /\ shared
      /\ phase' = phase
  BY TakeEffect DEF varVars
<1>3. off
  <2>1. ASSUME ~off PROVE FALSE
    <3>1. owner = Main /\ g = Main
      BY <1>1, <1>2, <2>1 DEF Apart, Owned
    <3> QED BY <1>1, <1>2, <2>1, <3>1 DEF MainLocals
  <2> QED BY <2>1
<1>4. Wants(g)'
  BY <1>2 DEF Wants
<1>5. CASE want[g].k = "host"
  <2>1. /\ Ends(g) /\ stack[g] # <<>> /\ Top(g).k = "host" /\ Depth(g) \in 1..Depth(g)
        /\ evaluating' = want[g].ev
        /\ off' = (off /\ ~want[g].susp)
    BY <1>5, TakeEffect
  <2>2. want[g] = stack[g][Depth(g)]
    BY <1>1, <1>2, <1>5 DEF Wants, Top
  <2>3. want[g].susp \in BOOLEAN
    BY <1>1 DEF Frame
  <2>4. CASE g = Main
    <3>1. MainLocals'
      BY <1>1, <1>2, <1>5, <2>1, <2>2, <2>3, <2>4, LocalsEnd
    <3>2. want[g].susp => want[g].ev
      BY <1>1, <1>5, <2>1, <2>2, <2>4 DEF MainLocals
    <3>3. ~off' => owner' = Main /\ evaluating'
      BY <1>2, <1>3, <2>1, <2>4, <3>2
    <3> QED BY <1>2, <1>4, <2>4, <3>1, <3>3, LocalsFrom
  <2>5. CASE g # Main
    <3>1. ~want[g].susp
      BY <1>1, <1>5, <2>1, <2>2, <2>5 DEF OtherLocals
    <3>2. off' = off
      BY <1>1, <2>1, <3>1 DEF TypeOK
    <3>3. OtherLocals(g)'
      BY <1>1, <2>1, <2>5, OtherEnd
    <3> QED BY <1>2, <1>3, <1>4, <2>5, <3>2, <3>3, LocalsFrom
  <2> QED BY <2>4, <2>5
<1>6. CASE want[g].k # "host"
  <2> DEFINE f == [want[g] EXCEPT !.off = off]
  <2>1. Begins(g, f) /\ off' = off
    BY <1>6, TakeEffect
  <2>2. f.k # "host" /\ f.off = off
    BY <1>1, <1>6 DEF Frame
  <2> HIDE DEF f
  <2>3. IF g = Main THEN MainLocals' ELSE OtherLocals(g)'
    BY <1>1, <1>2, <1>3, <2>1, <2>2, LocalsBegin, OtherBegin
  <2> QED BY <1>2, <1>3, <1>4, <2>1, <2>3, LocalsFrom
<1> QED BY <1>5, <1>6

LEMMA LocalsInvStep == LockInv /\ LocalsInv /\ [Next]_vars => LocalsInv'
<1> SUFFICES ASSUME LockInv, LocalsInv, [Next]_vars
             PROVE  LocalsInv'
  OBVIOUS
<1>0. /\ TypeOK /\ Main \in Goroutines /\ MainLocals /\ Wants(Main)
      /\ (~off /\ shared => owner = Main /\ evaluating)
      /\ \A g \in Goroutines : Apart(g) /\ (g # Main => OtherLocals(g)) /\ Wants(g)
  BY GoroutineFacts DEF LockInv, LocalsInv, Goroutines
<1>1. ASSUME NEW g \in Goroutines, CallItem(g) PROVE LocalsInv'
  <2>1. /\ NewFrame("call", None) \in Frame
        /\ NewFrame("call", None).k = "call" /\ ~NewFrame("call", None).rel
    BY FrameFacts DEF NewFrame
  <2> QED BY <1>1, <2>1, LocalsLock DEF CallItem, varVars
<1>2. ASSUME NEW g \in Goroutines, CallReturn(g) PROVE LocalsInv'
  BY <1>2, LocalsReturn DEF CallReturn, varVars
<1>3. ASSUME NEW g \in Goroutines, NEW v \in Vars, ReadVar(g, v) PROVE LocalsInv'
  <2>1. /\ NewFrame("get", v) \in Frame
        /\ NewFrame("get", v).k = "get" /\ ~NewFrame("get", v).rel
    BY FrameFacts DEF NewFrame
  <2> QED BY <1>3, <2>1, LocalsLock DEF ReadVar, varVars
<1>4. ASSUME NEW g \in Goroutines, GetVar(g) PROVE LocalsInv'
  <2>1. Uses(g)
    BY <1>4 DEF GetVar, GetVarBy
  <2>2. CASE (\E raised : Return(g, raised)) /\ UNCHANGED varVars
    BY <2>1, <2>2, LocalsReturn DEF varVars
  <2>3. CASE ForceBegins(g)
    <3>1. /\ \A h \in Goroutines \ {g} : Stays(h)
          /\ pc'[g] = pc[g] /\ Keeps(g)
          /\ UNCHANGED <<off, shared, owner, evaluating, phase>>
      BY <2>1, <2>3, ForceEffect DEF ForceBegins, lockVars
    <3>2. pc[g] = "run"
      BY <2>1 DEF Uses
    <3>3. IF g = Main THEN MainLocals' ELSE OtherLocals(g)'
      BY <1>0, <3>1, <3>2, LocalsKeep, OtherKeep
    <3>4. Wants(g)'
      BY <3>1, <3>2 DEF Wants
    <3> QED BY <1>0, <3>1, <3>3, <3>4, LocalsFrom
  <2> QED BY <1>4, <2>2, <2>3 DEF GetVar, GetVarBy, ForceBegins
<1>5. ASSUME NEW g \in Goroutines, ForceOk(g) PROVE LocalsInv'
  BY <1>5, LocalsReturn DEF ForceOk
<1>6. ASSUME NEW g \in Goroutines, ForceFail(g) PROVE LocalsInv'
  BY <1>6, LocalsReturn DEF ForceFail
<1>7. ASSUME NEW g \in Goroutines, NEW join \in BOOLEAN, HostCall(g, join) PROVE LocalsInv'
  BY <1>7, LocalsHostCall
<1>8. ASSUME NEW g \in Goroutines, HostReturn(g) PROVE LocalsInv'
  <2>1. /\ \A h \in Goroutines \ {g} : Stays(h)
        /\ stack[g] # <<>> /\ Top(g).k = "host" /\ Depth(g) \in 1..Depth(g)
        /\ stack' = stack /\ pc'[g] = "lock" /\ want'[g] = Top(g)
        /\ UNCHANGED <<off, shared, owner, evaluating, phase>>
    BY <1>8, HostReturnEffect DEF lockVars, varVars
  <2>2. Keeps(g)
    BY <2>1, StaysKeeps
  <2>3. g = Main => off
    <3>1. g = Main => OffAt(Depth(Main)) /\ off = OffAt(Depth(Main))
      BY <1>0, <2>1 DEF MainLocals, Top
    <3> QED BY <3>1
  <2>4. IF g = Main THEN MainLocals' ELSE OtherLocals(g)'
    BY <1>0, <2>1, <2>2, <2>3, LocalsKeep, OtherKeep
  <2>5. Wants(g)'
    BY <2>1 DEF Wants, Top, Depth
  <2> QED BY <1>0, <2>1, <2>4, <2>5, LocalsFrom
<1>9. ASSUME NEW g \in Goroutines, Acquire(g) PROVE LocalsInv'
  <2>1. /\ pc[g] = "lock" /\ pc'[g] = "locked" /\ stack' = stack
        /\ want' = want
        /\ \A h \in Goroutines \ {g} : Stays(h)
        /\ UNCHANGED <<off, shared, owner, evaluating, phase>>
    BY <1>0, <1>9 DEF Acquire, TypeOK, Stays, varVars
  <2>2. Keeps(g)
    BY <2>1, StaysKeeps
  <2>3. IF g = Main THEN MainLocals' ELSE OtherLocals(g)'
    <3>1. g = Main => off
      BY <1>0, <2>1 DEF MainLocals
    <3> QED BY <1>0, <2>1, <2>2, <3>1, LocalsKeep, OtherKeep
  <2>4. Wants(g)'
    BY <1>0, <2>1 DEF Wants, Top, Depth
  <2> QED BY <1>0, <2>1, <2>3, <2>4, LocalsFrom
<1>10. ASSUME NEW g \in Goroutines, TakeOwner(g) PROVE LocalsInv'
  BY <1>10, LocalsTake
<1>11. ASSUME NEW g \in Goroutines, Unlock(g) PROVE LocalsInv'
  <2>1. /\ pc'[g] = "run" /\ stack' = stack
        /\ \A h \in Goroutines \ {g} : Stays(h)
        /\ UNCHANGED <<off, shared, owner, evaluating, phase>>
    BY <1>0, <1>11 DEF Unlock, TypeOK, Stays, varVars
  <2>2. Keeps(g)
    BY <2>1, StaysKeeps
  <2>3. IF g = Main THEN MainLocals' ELSE OtherLocals(g)'
    BY <1>0, <2>1, <2>2, LocalsKeep, OtherKeep
  <2>4. Wants(g)'
    BY <2>1 DEF Wants
  <2> QED BY <1>0, <2>1, <2>3, <2>4, LocalsFrom
<1>12. ASSUME NEW v \in Vars, Prime(v) PROVE LocalsInv'
  <2> DEFINE f == [NewFrame("get", v) EXCEPT !.off = off]
  <2>1. /\ \A h \in Goroutines \ {Main} : Stays(h)
        /\ pc[Main] = "run" /\ pc'[Main] = pc[Main]
        /\ UNCHANGED <<off, shared, owner, evaluating, phase>>
        /\ stack' = stack \/ Begins(Main, f)
    BY <1>12, PrimeEffect DEF lockVars, Uses
  <2>2. f.k # "host" /\ f.off = off /\ ~f.rel
    BY DEF NewFrame
  <2> HIDE DEF f
  <2>3. MainLocals'
    BY <1>0, <2>1, <2>2, StaysKeeps, LocalsKeep, LocalsBegin
  <2>4. Wants(Main)'
    BY <2>1 DEF Wants
  <2> QED BY <1>0, <2>1, <2>3, <2>4, LocalsFrom
<1>13. ASSUME NEW v \in Vars, Unbind(v) PROVE LocalsInv'
  <2>1. /\ \A h \in Goroutines \ {Main} : Stays(h)
        /\ pc[Main] = "run" /\ pc'[Main] = pc[Main]
        /\ UNCHANGED <<off, shared, owner, evaluating, phase>>
        /\ Keeps(Main)
    BY <1>13, UnbindEffect DEF lockVars, Uses
  <2>2. MainLocals'
    BY <1>0, <2>1, LocalsKeep
  <2>3. Wants(Main)'
    BY <2>1 DEF Wants
  <2> QED BY <1>0, <2>1, <2>2, <2>3, LocalsFrom
<1>14. ASSUME GlobalsFail \/ EndTransform PROVE LocalsInv'
  <2>1. /\ \A h \in Goroutines \ {Main} : Stays(h)
        /\ Uses(Main) /\ Depth(Main) = 1 /\ Top(Main) = stack[Main][1]
        /\ stack'[Main] = <<>> /\ Depth(Main)' = 0
    BY <1>14, ClearEffect
  <2>2. OffAt(1) = (phase = "ended") /\ off = (phase = "ended")
    <3>1. ~Hidden(1)
      BY <2>1 DEF Hidden, Uses
    <3>2. OffAt(1) = (phase = "ended")
      BY <3>1 DEF OffAt
    <3>3. off = OffAt(1)
      BY <1>0, <2>1 DEF MainLocals
    <3> QED BY <3>2, <3>3
  <2>3. (OffAt(0) = (phase = "ended"))'
    BY DEF OffAt
  <2>4. off' = (phase' = "ended")
    BY <1>14, <2>2 DEF GlobalsFail, EndTransform, InGlobals
  <2>5. pc'[Main] # "run" => off'
    BY <1>14, <2>1 DEF GlobalsFail, EndTransform, Uses
  <2>6. MainLocals'
    BY <2>1, <2>3, <2>4, <2>5 DEF MainLocals, OffAt
  <2>7. Wants(Main)'
    <3>1. pc'[Main] \in {"run", "unlock"}
      BY <1>0, <1>14, <2>1 DEF GlobalsFail, EndTransform, Share, LetGo, Uses, TypeOK
    <3> QED BY <3>1 DEF Wants
  <2>8. ~off' /\ shared' => owner' = Main /\ evaluating'
    BY <1>0, <1>14 DEF GlobalsFail, EndTransform, lockVars
  <2> QED BY <1>0, <2>1, <2>6, <2>7, <2>8, LocalsFrom
<1>15. CASE BeginBody
  <2>1. /\ UNCHANGED <<stack, pc, want, off, shared, owner, evaluating>>
        /\ phase = "globals" /\ phase' = "body" /\ pc[Main] = "run"
    BY <1>15 DEF BeginBody, InGlobals, Uses, lockVars
  <2>2. Keeps(Main) /\ \A h \in Goroutines \ {Main} : Stays(h)
    BY <1>0, <2>1, StaysKeeps DEF Stays
  <2>3. MainLocals'
    BY <1>0, <2>1, <2>2, LocalsKeep
  <2>4. Wants(Main)'
    BY <2>1 DEF Wants
  <2> QED BY <1>0, <2>1, <2>2, <2>3, <2>4, LocalsFrom
<1>16. CASE UNCHANGED vars
  BY <1>16 DEF vars, LocalsInv, MainLocals, OtherLocals, Wants, OffAt, Hidden, Top, Depth
<1>17. ASSUME NEW g \in Goroutines, Step(g) PROVE LocalsInv'
  BY <1>1, <1>2, <1>3, <1>4, <1>5, <1>6, <1>7, <1>8, <1>9, <1>10, <1>11, <1>17 DEF Step
<1>18. CASE MainStep
  BY <1>0, <1>7, <1>12, <1>13, <1>14, <1>15, <1>18 DEF MainStep
<1> QED BY <1>16, <1>17, <1>18 DEF Next

LEMMA LocalsInvInit == Init => LocalsInv
<1> SUFFICES ASSUME Init PROVE LocalsInv
  OBVIOUS
<1>1. \A g \in Goroutines : pc[g] = "run"
  BY DEF Init
<1>2. stack[Main] = <<NewFrame("eval", None)>> /\ Depth(Main) = 1
  BY GoroutineFacts DEF Init, Depth
<1>3. stack[Main][1].k = "eval" /\ ~stack[Main][1].off /\ ~stack[Main][1].rel
  BY <1>2 DEF NewFrame
<1>4. ~Hidden(1) /\ ~OffAt(1)
  <2>1. ~Hidden(1)
    BY <1>3 DEF Hidden
  <2>2. phase # "ended" /\ \A i \in 1..1 : ~Hidden(i)
    BY <2>1 DEF Init
  <2> QED BY <2>1, <2>2 DEF OffAt
<1>5. off = OffAt(1) /\ stack[Main][1].off = OffAt(1)
  <2>1. OffAt(1) = FALSE
    BY <1>4 DEF OffAt
  <2>2. off = FALSE
    BY DEF Init
  <2>3. stack[Main][1].off = FALSE
    BY <1>2 DEF NewFrame
  <2> QED BY <2>1, <2>2, <2>3
<1>6. MainLocals
  <2>1. \A i \in 1..1 : i = 1
    OBVIOUS
  <2> QED BY <1>1, <1>2, <1>3, <1>5, <2>1, GoroutineFacts DEF MainLocals
<1>7. ASSUME NEW g \in Others PROVE OtherLocals(g)
  <2>1. stack[g] = <<>>
    BY EvalLockAssumption DEF Init, Goroutines
  <2>2. Depth(g) = 0
    BY <2>1 DEF Depth
  <2> QED BY <2>2 DEF OtherLocals
<1> QED BY <1>1, <1>6, <1>7 DEF LocalsInv, Wants, Init

\* What the locals are on or off by holds at every step.
THEOREM LocalsInvariant == Spec => [](LockInv /\ LocalsInv)
<1>1. Init => LockInv /\ LocalsInv
  BY LockInvInit, LocalsInvInit
<1>2. LockInv /\ LocalsInv /\ [Next]_vars => (LockInv /\ LocalsInv)'
  BY LockInvStep, LocalsInvStep
<1> QED BY <1>1, <1>2, PTL DEF Spec

LEMMA InvConfines == LockInv /\ LocalsInv => LocalsConfined
<1> SUFFICES ASSUME LockInv, LocalsInv, NEW g \in Goroutines, Uses(g)
             PROVE  off = Top(g).off /\ (~off => g = Main)
  BY DEF LocalsConfined
<1>1. /\ TypeOK /\ Apart(g) /\ MainLocals
      /\ (~off /\ shared => owner = Main) /\ (g # Main => OtherLocals(g))
      /\ stack[g] \in Seq(Frame) /\ stack[g] # <<>>
  BY DEF LockInv, LocalsInv, Goroutines, TypeOK, Uses
<1>2. Depth(g) \in 1..Depth(g) /\ Top(g) = stack[g][Depth(g)] /\ Top(g).k # "host"
  BY <1>1, TopFacts DEF Depth, Top, Uses
<1>3. ~off => g = Main
  <2>1. ~shared => g = Main
    BY <1>1 DEF Apart, Owned
  <2>2. shared => owner = g
    BY <1>1 DEF Apart, Owned
  <2> QED BY <1>1, <2>1, <2>2
<1>4. CASE g = Main
  <2>1. Top(g).off = OffAt(Depth(Main)) /\ off = OffAt(Depth(Main))
    BY <1>1, <1>2, <1>4 DEF MainLocals
  <2> QED BY <1>3, <2>1
<1>5. CASE g # Main
  <2>1. Top(g).off /\ off
    BY <1>1, <1>2, <1>3, <1>5 DEF OtherLocals
  <2>2. Top(g).off \in BOOLEAN /\ off \in BOOLEAN
    BY <1>1, TopType DEF Frame, TypeOK
  <2> QED BY <1>3, <2>1, <2>2
<1> QED BY <1>4, <1>5

\* Whatever evaluates finds the stack of locals on or off as it was when its
\* frame began, however often the lock changed hands in between, and finds it
\* on on the transform's own goroutine only.
THEOREM LocalsConfinedHolds == Spec => []LocalsConfined
<1> QED BY LocalsInvariant, InvConfines, PTL

-----------------------------------------------------------------------------
(* Who holds the lock.                                                      *)

\* The order of a goroutine's frames.  The transform is Main's outermost
\* frame; host code is called by a frame that evaluates; and a frame that
\* begins without taking the lock begins on one that evaluates, or after a
\* failed newRuntime, which keeps the lock.
Order(g) ==
    \A i \in 1..Depth(g) :
        /\ stack[g][i].k = "eval" => g = Main /\ i = 1 /\ phase \in {"globals", "body"}
        /\ stack[g][i].k # "eval" => i <= MaxDepth
        /\ stack[g][i].k = "host" => i # 1 /\ stack[g][i - 1].k # "host"
        /\ stack[g][i].k # "host" /\ ~stack[g][i].rel =>
              \/ i # 1 /\ stack[g][i - 1].k # "host"
              \/ i = 1 /\ g = Main /\ (stack[g][i].k = "eval" \/ phase = "failed")

\* The owner evaluates, but for Main once newRuntime has failed; and mu is
\* held by the owner, or by who is about to be it or was it until now.
Held(g) ==
    /\ mu = g => owner = g \/ pc[g] \in {"locked", "unlock"}
    /\ owner = g =>
          /\ shared
          /\ Uses(g) \/ (g = Main /\ phase = "failed" /\ Idle(g))

HeldInv ==
    /\ phase \in {"globals", "body"} =>
          stack[Main] # <<>> /\ stack[Main][1].k = "eval"
    /\ \A g \in Goroutines : Order(g) /\ Held(g)

LEMMA OrderKeep ==
    ASSUME TypeOK, NEW g \in Goroutines, Order(g), Keeps(g),
           g = Main => phase' = phase \/ (phase = "globals" /\ phase' = "body")
    PROVE  Order(g)'
<1>0. PICK n \in Nat : Depth(g) = n
  BY DepthType
<1>1. Depth(g)' = n /\ \A i \in 1..n : Like(stack'[g][i], stack[g][i])
  BY <1>0 DEF Keeps
<1>2. \A i \in 1..n : i # 1 => i - 1 \in 1..n
  OBVIOUS
<1> QED BY <1>0, <1>1, <1>2 DEF Order, Like

LEMMA OrderBegin ==
    ASSUME TypeOK, NEW g \in Goroutines, NEW f, Order(g), Begins(g, f),
           phase' = phase, f.k # "eval", Depth(g) < MaxDepth,
           \/ Depth(g) # 0 /\ stack[g][Depth(g)].k # "host"
           \/ Depth(g) = 0 /\ g = Main /\ phase = "failed" /\ f.k # "host"
           \/ f.k # "host" /\ f.rel
    PROVE  Order(g)'
<1>0. PICK n \in Nat : Depth(g) = n
  BY DepthType
<1>1. /\ Depth(g)' = n + 1 /\ stack'[g][n + 1] = f
      /\ \A i \in 1..n : Like(stack'[g][i], stack[g][i])
  BY <1>0 DEF Begins
<1>2. ASSUME NEW i \in 1..(n + 1)
      PROVE  /\ stack'[g][i].k = "eval" => g = Main /\ i = 1 /\ phase' \in {"globals", "body"}
             /\ stack'[g][i].k # "eval" => i <= MaxDepth
             /\ stack'[g][i].k = "host" => i # 1 /\ stack'[g][i - 1].k # "host"
             /\ stack'[g][i].k # "host" /\ ~stack'[g][i].rel =>
                   \/ i # 1 /\ stack'[g][i - 1].k # "host"
                   \/ i = 1 /\ g = Main /\ (stack'[g][i].k = "eval" \/ phase' = "failed")
  <2>1. CASE i = n + 1
    <3>1. n # 0 => n \in 1..n /\ i - 1 = n
      BY <2>1
    <3>2. i <= MaxDepth
      BY <1>0, <2>1, EvalLockAssumption
    <3> QED BY <1>0, <1>1, <2>1, <3>1, <3>2 DEF Like
  <2>2. CASE i \in 1..n
    <3>1. i # 1 => i - 1 \in 1..n
      BY <2>2
    <3> QED BY <1>0, <1>1, <2>2, <3>1 DEF Order, Like
  <2> QED BY <2>1, <2>2
<1> QED BY <1>1, <1>2 DEF Order

LEMMA OrderEnd ==
    ASSUME TypeOK, NEW g \in Goroutines, Order(g), Ends(g), phase' = phase
    PROVE  Order(g)'
<1>0. PICK n \in Nat : Depth(g) = n + 1 /\ Depth(g)' = n
  <2>1. Depth(g) \in Nat \ {0} /\ Depth(g)' = Depth(g) - 1
    BY DepthType DEF Ends
  <2>2. Depth(g) - 1 \in Nat /\ Depth(g) = (Depth(g) - 1) + 1
    BY <2>1
  <2> QED BY <2>1, <2>2
<1>1. \A i \in 1..n : Like(stack'[g][i], stack[g][i])
  BY <1>0 DEF Ends
<1>2. \A i \in 1..n : i \in 1..(n + 1) /\ (i # 1 => i - 1 \in 1..n)
  BY <1>0
<1> QED BY <1>0, <1>1, <1>2 DEF Order, Like

\* A step of one goroutine: the lock is with the others as it was.
LEMMA HeldFrom ==
    ASSUME LockInv, HeldInv, NEW g \in Goroutines,
           \A h \in Goroutines \ {g} : Stays(h),
           Order(g)', Held(g)', shared => shared',
           g # Main => phase' = phase,
           g = Main /\ phase' \in {"globals", "body"} =>
              stack'[Main] # <<>> /\ stack'[Main][1].k = "eval",
           \A h \in Goroutines \ {g} :
              (mu' = h => mu = h) /\ (owner' = h <=> owner = h)
    PROVE  HeldInv'
<1>1. ASSUME NEW h \in Goroutines, h # g PROVE Order(h)' /\ Held(h)'
  <2>1. Stays(h) /\ (h = Main => phase' = phase)
    BY <1>1
  <2>2. Keeps(h) /\ TypeOK
    BY <2>1, StaysKeeps DEF Stays, LockInv
  <2>3. Order(h)'
    BY <2>1, <2>2, OrderKeep DEF HeldInv
  <2>4. Held(h)'
    BY <1>1, <2>1 DEF Stays, HeldInv, Held, Uses, Idle, Top, Depth
  <2> QED BY <2>3, <2>4
<1>2. phase' \in {"globals", "body"} => stack'[Main] # <<>> /\ stack'[Main][1].k = "eval"
  BY GoroutineFacts DEF HeldInv, Stays
<1> QED BY <1>1, <1>2 DEF HeldInv

\* A call or a reference.
LEMMA HeldLock ==
    ASSUME LockInv, HeldInv, NEW g \in Goroutines, NEW f \in Frame,
           f.k \in {"call", "get"}, ~f.rel, Depth(g) < MaxDepth,
           Acts(g) \/ InHost(g) \/ (Idle(g) /\ escaped), Lock(g, f),
           UNCHANGED <<lockVars, off, phase>>
    PROVE  HeldInv'
<1> DEFINE e == [f EXCEPT !.off = off]
<1>1. TypeOK /\ Apart(g) /\ Order(g) /\ Held(g) /\ stack[g] \in Seq(Frame)
      /\ (escaped => shared)
  BY DEF LockInv, HeldInv, TypeOK
<1>2. e.k # "host" /\ e.k # "eval" /\ ~e.rel /\ e \in Frame
  <2>1. e \in Frame
    BY <1>1, FrameFacts DEF TypeOK
  <2>2. e.k = f.k /\ e.rel = f.rel
    BY DEF Frame
  <2> QED BY <2>1, <2>2
<1>3. UNCHANGED <<shared, mu, owner, phase>> /\ pc[g] = "run"
      /\ \A h \in Goroutines \ {g} : Stays(h)
  BY LockEffect DEF lockVars
<1>4. stack[g] # <<>> => Depth(g) \in 1..Depth(g) /\ Depth(g) # 0
  BY <1>1, TopFacts DEF Depth
<1> HIDE DEF e
<1>5. CASE /\ shared /\ owner # g /\ stack'[g] = stack[g]
  <2>1. Order(g)'
    BY <1>1, <1>3, <1>5, StaysKeeps, OrderKeep
  <2>2. Held(g)'
    BY <1>1, <1>3, <1>5 DEF Held
  <2>3. g = Main /\ phase' \in {"globals", "body"} =>
           stack'[Main] # <<>> /\ stack'[Main][1].k = "eval"
    BY <1>3, <1>5 DEF HeldInv
  <2> QED BY <1>3, <2>1, <2>2, <2>3, HeldFrom
<1>6. CASE /\ ~(shared /\ owner # g) /\ pc'[g] = pc[g] /\ Begins(g, e)
           /\ stack'[g] = Append(stack[g], e)
           /\ \A i \in 1..Depth(g) : stack'[g][i] = stack[g][i]
  <2>1. ~InHost(g)
    <3>1. ASSUME InHost(g) PROVE FALSE
      <4>1. stack[g] # <<>> /\ Top(g).k = "host" /\ Top(g) = stack[g][Depth(g)]
        BY <3>1 DEF InHost, Top
      <4>2. shared
        BY <1>1, <1>4, <4>1 DEF Apart, Frames
      <4> QED BY <1>1, <1>6, <4>1, <4>2 DEF Held, Uses, Idle
    <3> QED BY <3>1
  <2>2. \/ Depth(g) # 0 /\ stack[g][Depth(g)].k # "host"
        \/ Depth(g) = 0 /\ g = Main /\ phase = "failed"
    <3>1. CASE Acts(g)
      BY <1>4, <3>1 DEF Acts, Uses, Top
    <3>2. CASE Idle(g) /\ escaped
      BY <1>1, <1>6, <3>2 DEF Held, Uses, Idle, Depth
    <3> QED BY <2>1, <3>1, <3>2
  <2>3. Order(g)'
    BY <1>1, <1>2, <1>3, <1>6, <2>2, OrderBegin
  <2>4. stack'[g] # <<>> /\ Top(g)' = e
    BY <1>1, <1>2, <1>6, PushFacts DEF Begins, Top
  <2>5. Held(g)'
    BY <1>1, <1>2, <1>3, <1>6, <2>4 DEF Held, Uses
  <2>6. g = Main /\ phase' \in {"globals", "body"} =>
           stack'[Main] # <<>> /\ stack'[Main][1].k = "eval"
    <3>1. ASSUME g = Main, phase \in {"globals", "body"}
          PROVE  stack'[Main][1] = stack[Main][1]
      <4>1. stack[Main] # <<>> /\ Depth(Main) \in Nat /\ Depth(Main) # 0
        BY <1>1, <1>4, <3>1 DEF HeldInv, Depth
      <4>2. 1 \in 1..Depth(Main)
        BY <4>1
      <4> QED BY <1>6, <3>1, <4>2
    <3> QED BY <1>3, <2>4, <3>1 DEF HeldInv
  <2> QED BY <1>3, <2>3, <2>5, <2>6, HeldFrom
<1> QED BY <1>5, <1>6, LockEffect DEF e

\* A step that leaves the lock and the phase alone, and the frames but for
\* their variables and errors.
LEMMA HeldKeep ==
    ASSUME LockInv, HeldInv, NEW g \in Goroutines,
           \A h \in Goroutines \ {g} : Stays(h),
           Keeps(g), stack[g] # <<>>, stack'[g] # <<>>, pc'[g] = pc[g],
           UNCHANGED <<shared, mu, owner>>,
           phase' = phase \/ (g = Main /\ phase = "globals" /\ phase' = "body")
    PROVE  HeldInv'
<1>1. TypeOK /\ Order(g) /\ Held(g) /\ stack[g] \in Seq(Frame)
  BY DEF LockInv, HeldInv, TypeOK
<1>2. Depth(g) \in Nat /\ Depth(g) # 0
  BY <1>1 DEF Depth
<1>3. /\ 1 \in 1..Depth(g) /\ Depth(g) \in 1..Depth(g)
      /\ Depth(g)' = Depth(g)
      /\ Like(stack'[g][1], stack[g][1])
      /\ Like(Top(g)', Top(g))
  BY <1>2 DEF Keeps, Top
<1>4. Order(g)'
  BY <1>1, OrderKeep
<1>5. Held(g)'
  BY <1>1, <1>3 DEF Held, Uses, Idle, Like
<1>6. g = Main /\ phase' \in {"globals", "body"} =>
         stack'[Main] # <<>> /\ stack'[Main][1].k = "eval"
  BY <1>3 DEF HeldInv, Like
<1> QED BY <1>4, <1>5, <1>6, HeldFrom

\* The end of a frame that evaluates, unless it is the transform itself.
LEMMA HeldReturn ==
    ASSUME LockInv, HeldInv, NEW g \in Goroutines, NEW raised,
           Uses(g), Top(g).k # "eval", Return(g, raised), phase' = phase
    PROVE  HeldInv'
<1>1. /\ TypeOK /\ Apart(g) /\ Order(g) /\ Held(g)
      /\ stack[g] \in Seq(Frame) /\ stack[g] # <<>> /\ pc[g] = "run"
  BY DEF LockInv, HeldInv, TypeOK, Uses
<1>2. /\ \A h \in Goroutines \ {g} : Stays(h)
      /\ Ends(g) /\ UNCHANGED <<shared, mu>>
      /\ stack'[g] = Below(g, raised)
      /\ IF Top(g).rel THEN pc'[g] = "unlock" /\ owner' = None
                       ELSE pc'[g] = pc[g] /\ owner' = owner
  BY ReturnEffect
<1>3. PICK n \in Nat : Depth(g) = n + 1 /\ Depth(g)' = n
  <2>1. Depth(g) \in Nat \ {0} /\ Depth(g)' = Depth(g) - 1
    BY <1>1, <1>2, DepthType DEF Ends
  <2>2. Depth(g) - 1 \in Nat /\ Depth(g) = (Depth(g) - 1) + 1
    BY <2>1
  <2> QED BY <2>1, <2>2
<1>4. Top(g) = stack[g][n + 1] /\ n + 1 \in 1..(n + 1) /\ Top(g).k # "host"
  BY <1>3 DEF Top, Uses
<1>5. stack'[g] \in Seq(Frame) /\ Len(stack'[g]) = n
  BY <1>1, <1>2, <1>3, BelowFacts DEF Depth
<1>6. n # 0 => /\ stack'[g] # <<>> /\ Like(Top(g)', stack[g][n])
               /\ Like(stack'[g][1], stack[g][1])
  BY <1>2, <1>3, <1>5 DEF Ends, Top
<1>7. n = 0 => stack'[g] = <<>>
  BY <1>5
<1>8. Order(g)'
  BY <1>1, <1>2, OrderEnd
<1>9. CASE Top(g).rel
  <2>1. owner = g /\ mu = g
    BY <1>1, <1>3, <1>4, <1>9 DEF Apart, Frames, Owned
  <2>2. Held(g)'
    BY <1>2, <1>9, GoroutineFacts DEF Held
  <2>3. g = Main /\ phase' \in {"globals", "body"} =>
           stack'[Main] # <<>> /\ stack'[Main][1].k = "eval"
    BY <1>1, <1>4, <1>6 DEF HeldInv, Like
  <2> QED BY <1>2, <1>8, <1>9, <2>1, <2>2, <2>3, GoroutineFacts, HeldFrom
<1>10. CASE ~Top(g).rel
  <2>1. \/ n # 0 /\ stack[g][n].k # "host"
        \/ n = 0 /\ g = Main /\ phase = "failed"
    BY <1>1, <1>3, <1>4, <1>10 DEF Order
  <2>2. pc'[g] = "run" /\ owner' = owner /\ UNCHANGED <<shared, mu>>
    BY <1>1, <1>2, <1>10
  <2>3. Uses(g)' \/ (g = Main /\ phase' = "failed" /\ Idle(g)')
    <3>1. CASE n # 0 /\ stack[g][n].k # "host"
      BY <1>6, <2>2, <3>1 DEF Uses, Like
    <3>2. CASE n = 0 /\ g = Main /\ phase = "failed"
      BY <1>7, <2>2, <3>2 DEF Idle
    <3> QED BY <2>1, <3>1, <3>2
  <2>4. Held(g)'
    BY <1>1, <2>2, <2>3 DEF Held
  <2>5. g = Main /\ phase' \in {"globals", "body"} =>
           stack'[Main] # <<>> /\ stack'[Main][1].k = "eval"
    BY <1>1, <1>4, <1>6 DEF HeldInv, Like
  <2> QED BY <1>2, <1>8, <2>2, <2>4, <2>5, HeldFrom
<1> QED BY <1>9, <1>10

\* Evaluation runs host code, and holds the lock no more.
LEMMA HeldHostCall ==
    ASSUME LockInv, HeldInv, NEW g \in Goroutines, NEW join \in BOOLEAN,
           HostCall(g, join)
    PROVE  HeldInv'
<1> DEFINE f == HostFrameOf(g, join)
<1>1. TypeOK /\ Order(g) /\ Held(g) /\ Apart(g) /\ stack[g] \in Seq(Frame)
  BY DEF LockInv, HeldInv, TypeOK
<1>2. /\ \A h \in Goroutines \ {g} : Stays(h)
      /\ Uses(g) /\ pc[g] = "run" /\ Begins(g, f) /\ Depth(g) < MaxDepth
      /\ \A i \in 1..Depth(g) : stack'[g][i] = stack[g][i]
      /\ shared => owner = g
      /\ shared' /\ mu' = mu /\ phase' = phase
      /\ IF shared THEN pc'[g] = "unlock" /\ owner' = None
                   ELSE pc'[g] = pc[g] /\ owner' = owner
  BY HostEffect DEF varVars
<1>3. f.k = "host"
  BY DEF HostFrameOf, HostFrame
<1> HIDE DEF f
<1>4. /\ stack[g] # <<>> /\ Depth(g) \in 1..Depth(g) /\ 1 \in 1..Depth(g)
      /\ Depth(g) # 0 /\ stack[g][Depth(g)].k # "host"
  BY <1>1, <1>2, TopFacts DEF Uses, Depth, Top
<1>5. Order(g)'
  BY <1>1, <1>2, <1>3, <1>4, OrderBegin
<1>6. ~shared => owner # g /\ mu # g
  BY <1>1, <1>2 DEF Held
<1>7. Held(g)'
  <2>1. CASE shared
    BY <1>2, <2>1, GoroutineFacts DEF Held
  <2>2. CASE ~shared
    BY <1>2, <1>6, <2>2 DEF Held
  <2> QED BY <2>1, <2>2
<1>8. g = Main /\ phase' \in {"globals", "body"} =>
         stack'[Main] # <<>> /\ stack'[Main][1].k = "eval"
  <2>1. Depth(g)' = Depth(g) + 1 /\ stack'[g][1] = stack[g][1]
    BY <1>2, <1>4 DEF Begins
  <2>2. stack'[g] # <<>>
    <3>1. Depth(g)' # 0
      BY <1>1, <2>1, DepthType
    <3> QED BY <3>1 DEF Depth
  <2> QED BY <1>2, <2>1, <2>2 DEF HeldInv
<1> QED BY <1>2, <1>5, <1>7, <1>8, GoroutineFacts, HeldFrom

LEMMA HeldTake ==
    ASSUME LockInv, LocalsInv, HeldInv, NEW g \in Goroutines, TakeOwner(g)
    PROVE  HeldInv'
<1>1. /\ TypeOK /\ TypeOK' /\ Order(g) /\ Held(g) /\ Apart(g) /\ Wants(g)
      /\ stack[g] \in Seq(Frame) /\ want[g] \in Frame /\ stack'[g] \in Seq(Frame)
  <2>1. TypeOK'
    BY TypeStep DEF LockInv, Next, Step
  <2> QED BY <2>1 DEF LockInv, LocalsInv, HeldInv, TypeOK
<1>2. /\ \A h \in Goroutines \ {g} : Stays(h)
      /\ pc[g] = "locked" /\ pc'[g] = "run" /\ mu = g /\ owner' = g /\ shared
      /\ UNCHANGED <<shared, mu>> /\ phase' = phase
  BY TakeEffect DEF varVars
<1>3. \A h \in Goroutines \ {g} : owner # h
  BY <1>2 DEF LockInv, Apart, Owned
<1>4. CASE want[g].k = "host"
  <2>1. /\ Ends(g) /\ stack[g] # <<>> /\ Top(g).k = "host" /\ Depth(g) \in 1..Depth(g)
        /\ \A i \in 1..(Depth(g) - 1) : stack'[g][i] = stack[g][i]
    BY <1>4, TakeEffect
  <2>2. /\ Depth(g) # 1 /\ stack[g][Depth(g) - 1].k # "host"
    BY <1>1, <2>1 DEF Order, Top
  <2>3. /\ Depth(g)' = Depth(g) - 1 /\ Depth(g) - 1 \in 1..(Depth(g) - 1)
        /\ 1 \in 1..(Depth(g) - 1)
    BY <1>1, <2>1, <2>2, DepthType DEF Ends
  <2>4. stack'[g] # <<>> /\ Top(g)' = stack[g][Depth(g) - 1]
    BY <1>1, <2>1, <2>3 DEF Depth, Top
  <2>5. Uses(g)'
    BY <1>2, <2>2, <2>4 DEF Uses
  <2>6. Order(g)'
    BY <1>1, <1>2, <2>1, OrderEnd
  <2>7. Held(g)'
    BY <1>2, <2>5 DEF Held
  <2>8. g = Main /\ phase' \in {"globals", "body"} =>
           stack'[Main] # <<>> /\ stack'[Main][1].k = "eval"
    BY <1>2, <2>1, <2>3, <2>4 DEF HeldInv
  <2> QED BY <1>2, <1>3, <2>6, <2>7, <2>8, HeldFrom
<1>5. CASE want[g].k # "host"
  <2> DEFINE f == [want[g] EXCEPT !.off = off]
  <2>1. Begins(g, f) /\ \A i \in 1..Depth(g) : stack'[g][i] = stack[g][i]
    BY <1>5, TakeEffect
  <2>2. f.k # "host" /\ f.k # "eval" /\ f.rel /\ Depth(g) < MaxDepth
    BY <1>1, <1>2, <1>5 DEF Wants, Frame
  <2> HIDE DEF f
  <2>3. Depth(g) \in Nat /\ Depth(g)' = Depth(g) + 1 /\ stack'[g][Depth(g) + 1] = f
    BY <1>1, <2>1, DepthType DEF Begins
  <2>4. stack'[g] # <<>> /\ Top(g)' = f
    BY <1>1, <2>3 DEF Depth, Top
  <2>5. Uses(g)'
    BY <1>2, <2>2, <2>4 DEF Uses
  <2>6. Order(g)'
    BY <1>1, <1>2, <2>1, <2>2, OrderBegin
  <2>7. Held(g)'
    BY <1>2, <2>5 DEF Held
  <2>8. g = Main /\ phase' \in {"globals", "body"} =>
           stack'[Main] # <<>> /\ stack'[Main][1].k = "eval"
    <3>1. ASSUME g = Main, phase \in {"globals", "body"}
          PROVE  1 \in 1..Depth(g)
      <4>1. Depth(g) # 0
        BY <1>1, <3>1 DEF HeldInv, Depth
      <4> QED BY <2>3, <4>1
    <3> QED BY <1>2, <2>1, <2>4, <3>1 DEF HeldInv
  <2> QED BY <1>2, <1>3, <2>6, <2>7, <2>8, HeldFrom
<1> QED BY <1>4, <1>5

LEMMA HeldClear ==
    ASSUME LockInv, LocalsInv, HeldInv, GlobalsFail \/ EndTransform
    PROVE  HeldInv'
<1>1. /\ \A h \in Goroutines \ {Main} : Stays(h)
      /\ Uses(Main) /\ Depth(Main) = 1 /\ Top(Main) = stack[Main][1]
      /\ stack'[Main] = <<>> /\ Depth(Main)' = 0 /\ mu' = mu
  BY ClearEffect
<1>2. /\ TypeOK /\ Main \in Goroutines /\ None # Main /\ Held(Main) /\ Apart(Main)
      /\ MainLocals /\ (~off /\ shared => evaluating) /\ pc[Main] = "run"
      /\ stack[Main][1].k # "host" /\ phase \in {"globals", "body"}
  BY <1>1, GoroutineFacts DEF LockInv, LocalsInv, HeldInv, Uses, GlobalsFail,
     EndTransform, InGlobals
<1>3. Order(Main)'
  BY <1>1 DEF Order
<1>4. CASE GlobalsFail
  <2>1. phase' = "failed" /\ UNCHANGED <<shared, mu, owner, pc>>
    BY <1>4 DEF GlobalsFail, lockVars
  <2>2. Held(Main)'
    BY <1>1, <1>2, <2>1 DEF Held, Idle
  <2> QED BY <1>1, <1>2, <1>3, <2>1, <2>2, HeldFrom
<1>5. CASE EndTransform
  <2>1. phase' = "ended" /\ Share
    BY <1>5 DEF EndTransform
  <2>2. CASE ~shared
    <3>1. shared' /\ UNCHANGED <<owner, pc>>
      BY <2>1, <2>2 DEF Share
    <3>2. owner # Main /\ mu # Main
      BY <1>2, <2>2 DEF Held
    <3>3. Held(Main)'
      BY <1>1, <3>1, <3>2 DEF Held
    <3> QED BY <1>1, <1>2, <1>3, <2>1, <3>1, <3>3, HeldFrom
  <2>3. CASE shared
    <3>1. owner = Main /\ mu = Main
      BY <1>1, <1>2, <2>3 DEF Apart, Owned
    <3>2. ~off
      <4>1. ~Hidden(1)
        BY <1>2 DEF Hidden
      <4>2. ~OffAt(1)
        BY <1>2, <4>1 DEF OffAt
      <4>3. off = OffAt(1)
        BY <1>1, <1>2 DEF MainLocals
      <4> QED BY <4>2, <4>3
    <3>3. owner' = None /\ pc' = [pc EXCEPT ![Main] = "unlock"] /\ shared' = shared
      BY <1>2, <2>1, <2>3, <3>1, <3>2 DEF Share, LetGo
    <3>4. pc'[Main] = "unlock"
      BY <1>2, <3>3 DEF TypeOK
    <3>5. Held(Main)'
      BY <1>2, <3>3, <3>4 DEF Held
    <3> QED BY <1>1, <1>2, <1>3, <2>1, <3>1, <3>3, <3>5, GoroutineFacts, HeldFrom
  <2> QED BY <2>2, <2>3
<1> QED BY <1>4, <1>5

LEMMA HeldInvStep == LockInv /\ LocalsInv /\ HeldInv /\ [Next]_vars => HeldInv'
<1> SUFFICES ASSUME LockInv, LocalsInv, HeldInv, [Next]_vars
             PROVE  HeldInv'
  OBVIOUS
<1>0. TypeOK /\ Main \in Goroutines /\ \A g \in Goroutines : Apart(g) /\ Order(g) /\ Held(g)
  BY GoroutineFacts DEF LockInv, HeldInv
<1>1. ASSUME NEW g \in Goroutines, CallItem(g) PROVE HeldInv'
  <2>1. /\ NewFrame("call", None) \in Frame
        /\ NewFrame("call", None).k = "call" /\ ~NewFrame("call", None).rel
    BY FrameFacts DEF NewFrame
  <2> QED BY <1>1, <2>1, HeldLock DEF CallItem, varVars
<1>2. ASSUME NEW g \in Goroutines, CallReturn(g) PROVE HeldInv'
  BY <1>2, HeldReturn DEF CallReturn, varVars
<1>3. ASSUME NEW g \in Goroutines, NEW v \in Vars, ReadVar(g, v) PROVE HeldInv'
  <2>1. /\ NewFrame("get", v) \in Frame
        /\ NewFrame("get", v).k = "get" /\ ~NewFrame("get", v).rel
    BY FrameFacts DEF NewFrame
  <2> QED BY <1>3, <2>1, HeldLock DEF ReadVar, varVars
<1>4. ASSUME NEW g \in Goroutines, GetVar(g) PROVE HeldInv'
  <2>1. Uses(g) /\ Top(g).k = "get" /\ stack[g] # <<>>
    BY <1>4 DEF GetVar, GetVarBy, Uses
  <2>2. CASE (\E raised : Return(g, raised)) /\ UNCHANGED varVars
    BY <2>1, <2>2, HeldReturn DEF varVars
  <2>3. CASE ForceBegins(g)
    <3>1. /\ \A h \in Goroutines \ {g} : Stays(h)
          /\ pc'[g] = pc[g] /\ Keeps(g) /\ Depth(g)' = Depth(g) /\ Depth(g) \in 1..Depth(g)
          /\ UNCHANGED <<shared, mu, owner, phase>>
      BY <2>1, <2>3, ForceEffect DEF ForceBegins, lockVars
    <3>2. stack'[g] # <<>>
      BY <3>1, <1>0, DepthType DEF Depth
    <3> QED BY <2>1, <3>1, <3>2, HeldKeep
  <2> QED BY <1>4, <2>2, <2>3 DEF GetVar, GetVarBy, ForceBegins
<1>5. ASSUME NEW g \in Goroutines, ForceOk(g) PROVE HeldInv'
  BY <1>5, HeldReturn DEF ForceOk
<1>6. ASSUME NEW g \in Goroutines, ForceFail(g) PROVE HeldInv'
  BY <1>6, HeldReturn DEF ForceFail
<1>7. ASSUME NEW g \in Goroutines, NEW join \in BOOLEAN, HostCall(g, join) PROVE HeldInv'
  BY <1>7, HeldHostCall
<1>8. ASSUME NEW g \in Goroutines, HostReturn(g) PROVE HeldInv'
  <2>1. /\ \A h \in Goroutines \ {g} : Stays(h)
        /\ stack[g] # <<>> /\ Top(g).k = "host" /\ pc[g] = "run"
        /\ stack' = stack /\ shared /\ pc'[g] = "lock"
        /\ UNCHANGED <<shared, mu, owner, phase>>
    BY <1>8, HostReturnEffect DEF lockVars, varVars
  <2>2. mu # g /\ owner # g
    BY <1>0, <2>1 DEF Held, Uses, Idle
  <2>3. Order(g)'
    BY <1>0, <2>1, StaysKeeps, OrderKeep
  <2>4. Held(g)'
    BY <2>1, <2>2 DEF Held
  <2>5. g = Main /\ phase' \in {"globals", "body"} =>
           stack'[Main] # <<>> /\ stack'[Main][1].k = "eval"
    BY <2>1 DEF HeldInv
  <2> QED BY <2>1, <2>3, <2>4, <2>5, HeldFrom
<1>9. ASSUME NEW g \in Goroutines, Acquire(g) PROVE HeldInv'
  <2>1. /\ pc[g] = "lock" /\ pc'[g] = "locked" /\ stack' = stack
        /\ mu = None /\ mu' = g
        /\ \A h \in Goroutines \ {g} : Stays(h)
        /\ UNCHANGED <<shared, owner, phase>>
    BY <1>0, <1>9 DEF Acquire, TypeOK, Stays, varVars
  <2>2. owner # g
    BY <1>0, <2>1 DEF Held, Uses, Idle
  <2>3. Order(g)'
    BY <1>0, <2>1, StaysKeeps, OrderKeep
  <2>4. Held(g)'
    BY <2>1, <2>2 DEF Held
  <2>5. g = Main /\ phase' \in {"globals", "body"} =>
           stack'[Main] # <<>> /\ stack'[Main][1].k = "eval"
    BY <2>1 DEF HeldInv
  <2> QED BY <2>1, <2>3, <2>4, <2>5, HeldFrom
<1>10. ASSUME NEW g \in Goroutines, TakeOwner(g) PROVE HeldInv'
  BY <1>10, HeldTake
<1>11. ASSUME NEW g \in Goroutines, Unlock(g) PROVE HeldInv'
  <2>1. /\ pc[g] = "unlock" /\ pc'[g] = "run" /\ stack' = stack /\ mu' = None
        /\ \A h \in Goroutines \ {g} : Stays(h)
        /\ UNCHANGED <<shared, owner, phase>>
    BY <1>0, <1>11 DEF Unlock, TypeOK, Stays, varVars
  <2>2. mu = g /\ owner # g
    BY <1>0, <2>1 DEF Apart, Owned
  <2>3. Order(g)'
    BY <1>0, <2>1, StaysKeeps, OrderKeep
  <2>4. Held(g)'
    BY <2>1, <2>2, GoroutineFacts DEF Held
  <2>5. g = Main /\ phase' \in {"globals", "body"} =>
           stack'[Main] # <<>> /\ stack'[Main][1].k = "eval"
    BY <2>1 DEF HeldInv
  <2> QED BY <2>1, <2>3, <2>4, <2>5, GoroutineFacts, HeldFrom
<1>12. ASSUME NEW v \in Vars, Prime(v) PROVE HeldInv'
  <2> DEFINE f == [NewFrame("get", v) EXCEPT !.off = off]
  <2>1. /\ \A h \in Goroutines \ {Main} : Stays(h)
        /\ pc[Main] = "run" /\ pc'[Main] = pc[Main] /\ Uses(Main)
        /\ Depth(Main) = 1 /\ phase = "globals"
        /\ UNCHANGED <<shared, mu, owner, phase>>
        /\ stack' = stack \/ (1 < MaxDepth /\ Begins(Main, f))
    BY <1>12, PrimeEffect DEF lockVars, Uses
  <2>2. f.k = "get"
    BY DEF NewFrame
  <2> HIDE DEF f
  <2>3. stack[Main] # <<>> /\ stack[Main][1].k # "host" /\ stack[Main][1].k = "eval"
    BY <2>1 DEF HeldInv
  <2>4. CASE stack' = stack
    BY <1>0, <2>1, <2>3, <2>4, StaysKeeps, HeldKeep
  <2>5. CASE 1 < MaxDepth /\ Begins(Main, f)
    <3>1. Order(Main)'
      BY <1>0, <2>1, <2>2, <2>3, <2>5, OrderBegin
    <3>2. /\ Depth(Main)' = 2 /\ stack'[Main][2] = f
          /\ Like(stack'[Main][1], stack[Main][1])
      BY <2>1, <2>5 DEF Begins
    <3>3. stack'[Main] # <<>> /\ Top(Main)' = f
      BY <3>2 DEF Depth, Top
    <3>4. Held(Main)'
      BY <1>0, <2>1, <2>2, <3>3 DEF Held, Uses
    <3>5. stack'[Main][1].k = "eval"
      BY <2>3, <3>2 DEF Like
    <3> QED BY <1>0, <2>1, <3>1, <3>3, <3>4, <3>5, HeldFrom
  <2> QED BY <2>1, <2>4, <2>5
<1>13. ASSUME NEW v \in Vars, Unbind(v) PROVE HeldInv'
  <2>1. /\ \A h \in Goroutines \ {Main} : Stays(h)
        /\ stack[Main] # <<>> /\ pc'[Main] = pc[Main] /\ Depth(Main) = 1
        /\ UNCHANGED <<shared, mu, owner, phase>>
        /\ Keeps(Main)
    BY <1>13, UnbindEffect DEF lockVars, Uses
  <2>2. stack'[Main] # <<>>
    BY <2>1 DEF Keeps, Depth
  <2> QED BY <1>0, <2>1, <2>2, HeldKeep
<1>14. ASSUME GlobalsFail \/ EndTransform PROVE HeldInv'
  BY <1>14, HeldClear
<1>15. CASE BeginBody
  <2>1. /\ UNCHANGED <<stack, pc, want, shared, mu, owner>>
        /\ phase = "globals" /\ phase' = "body" /\ stack[Main] # <<>>
    BY <1>15 DEF BeginBody, InGlobals, Uses, lockVars
  <2> QED BY <1>0, <2>1, StaysKeeps, HeldKeep DEF Stays
<1>16. CASE UNCHANGED vars
  BY <1>16 DEF vars, HeldInv, Order, Held, Uses, Idle, Top, Depth
<1>17. ASSUME NEW g \in Goroutines, Step(g) PROVE HeldInv'
  BY <1>1, <1>2, <1>3, <1>4, <1>5, <1>6, <1>7, <1>8, <1>9, <1>10, <1>11, <1>17 DEF Step
<1>18. CASE MainStep
  BY <1>0, <1>7, <1>12, <1>13, <1>14, <1>15, <1>18 DEF MainStep
<1> QED BY <1>16, <1>17, <1>18 DEF Next

LEMMA HeldInvInit == Init => HeldInv
<1> SUFFICES ASSUME Init PROVE HeldInv
  OBVIOUS
<1>1. ASSUME NEW g \in Goroutines PROVE Order(g) /\ Held(g)
  <2>1. mu # g /\ owner # g
    BY GoroutineFacts DEF Init
  <2>2. CASE g = Main
    <3>1. stack[g] = <<NewFrame("eval", None)>> /\ Depth(g) = 1
      BY <2>2 DEF Init, Depth
    <3>2. stack[g][1].k = "eval" /\ phase = "globals"
      BY <3>1 DEF NewFrame, Init
    <3>3. \A i \in 1..1 : i = 1
      OBVIOUS
    <3> QED BY <2>1, <2>2, <3>1, <3>2, <3>3 DEF Order, Held
  <2>3. CASE g # Main
    <3>1. stack[g] = <<>> /\ Depth(g) = 0
      BY <2>3 DEF Init, Depth
    <3> QED BY <2>1, <3>1 DEF Order, Held
  <2> QED BY <2>2, <2>3
<1>2. stack[Main] = <<NewFrame("eval", None)>>
  BY GoroutineFacts DEF Init
<1> QED BY <1>1, <1>2 DEF HeldInv, NewFrame

\* Who owns the lock, and who holds its mutex, is right at every step.
THEOREM HeldInvariant == Spec => [](LockInv /\ LocalsInv /\ HeldInv)
<1>1. Init => LockInv /\ LocalsInv /\ HeldInv
  BY LockInvInit, LocalsInvInit, HeldInvInit
<1>2. LockInv /\ LocalsInv /\ HeldInv /\ [Next]_vars => (LockInv /\ LocalsInv /\ HeldInv)'
  BY LockInvStep, LocalsInvStep, HeldInvStep
<1> QED BY <1>1, <1>2, PTL DEF Spec

LEMMA InvFrees == LockInv /\ HeldInv => HostHoldsNothing
<1> SUFFICES ASSUME LockInv, HeldInv, NEW g \in Goroutines,
                    InHost(g) \/ (Idle(g) /\ phase # "failed")
             PROVE  mu # g /\ owner # g
  BY DEF HostHoldsNothing
<1>1. Held(g) /\ pc[g] = "run"
  BY DEF HeldInv, InHost, Idle
<1>2. ~Uses(g) /\ ~(phase = "failed" /\ Idle(g))
  BY DEF Uses, InHost, Idle
<1> QED BY <1>1, <1>2 DEF Held

\* However the calls nest and whoever waits for whom, host code and a
\* goroutine that is done hold no lock another goroutine could need; only a
\* newRuntime that failed keeps it.
THEOREM HostHoldsNothingHolds == Spec => []HostHoldsNothing
<1> QED BY HeldInvariant, InvFrees, PTL

-----------------------------------------------------------------------------
(* The forces of a variable.                                                *)

\* Frame i of g evaluates v.
Forces(g, i, v) ==
    /\ i \in 1..Depth(g)
    /\ stack[g][i].k = "force"
    /\ stack[g][i].v = v

\* A variable is running exactly while one frame evaluates it.
ForceInv ==
    /\ \A g \in Goroutines, i \in Nat, v \in Vars :
          Forces(g, i, v) => state[v] = "running"
    /\ \A v \in Vars : state[v] = "running" =>
          \E g \in Goroutines, i \in Nat : Forces(g, i, v)
    /\ \A g, h \in Goroutines, i, j \in Nat, v \in Vars :
          Forces(g, i, v) /\ Forces(h, j, v) => g = h /\ i = j

\* evalGlobals notes the global it has taken up in the transform's frame; an
\* error that global met is of an evaluation that has ended.
GlobalsInv ==
    phase = "globals" =>
        /\ Depth(Main) # 1 =>
              /\ stack[Main][1].v = stack[Main][2].v
              /\ stack[Main][1].v \in Eager
              /\ ~stack[Main][1].bad
        /\ stack[Main][1].bad =>
              /\ stack[Main][1].v \in Eager
              /\ state[stack[Main][1].v] = "pending"

LEMMA ForcesStay ==
    ASSUME NEW g \in Goroutines, stack'[g] = stack[g], NEW i, NEW v
    PROVE  Forces(g, i, v)' = Forces(g, i, v)
BY DEF Forces, Depth

LEMMA ForcesSame ==
    ASSUME ForceInv, state' = state,
           \A g \in Goroutines, i \in Nat, v \in Vars :
              Forces(g, i, v)' <=> Forces(g, i, v)
    PROVE  ForceInv'
BY DEF ForceInv

\* A frame that evaluates no variable begins.
LEMMA ForcesBegin ==
    ASSUME TypeOK, NEW g \in Goroutines, Depth(g)' = Depth(g) + 1,
           stack'[g][Depth(g) + 1].k # "force",
           \A i \in 1..Depth(g) : /\ stack'[g][i].k = stack[g][i].k
                                  /\ stack[g][i].k = "force" =>
                                        stack'[g][i].v = stack[g][i].v
    PROVE  \A i \in Nat, v \in Vars : Forces(g, i, v)' <=> Forces(g, i, v)
<1>0. PICK n \in Nat : Depth(g) = n
  BY DepthType
<1>1. \A i \in 1..(n + 1) : i = n + 1 \/ i \in 1..n
  OBVIOUS
<1>2. 1..n \subseteq 1..(n + 1)
  OBVIOUS
<1> QED BY <1>0, <1>1, <1>2 DEF Forces

\* A frame that evaluates no variable ends.
LEMMA ForcesEnd ==
    ASSUME TypeOK, NEW g \in Goroutines, Depth(g) # 0, Depth(g)' = Depth(g) - 1,
           stack[g][Depth(g)].k # "force",
           \A i \in 1..(Depth(g) - 1) : /\ stack'[g][i].k = stack[g][i].k
                                        /\ stack'[g][i].v = stack[g][i].v
    PROVE  \A i \in Nat, v \in Vars : Forces(g, i, v)' <=> Forces(g, i, v)
<1>0. PICK n \in Nat : Depth(g) = n + 1 /\ Depth(g)' = n
  <2>1. Depth(g) \in Nat \ {0}
    BY DepthType
  <2>2. Depth(g) - 1 \in Nat /\ Depth(g) = (Depth(g) - 1) + 1
    BY <2>1
  <2> QED BY <2>2
<1>1. \A i \in 1..(n + 1) : i = n + 1 \/ i \in 1..n
  OBVIOUS
<1>2. 1..n \subseteq 1..(n + 1)
  OBVIOUS
<1> QED BY <1>0, <1>1, <1>2 DEF Forces

\* What the end of a frame leaves of the variables' frames.
LEMMA ReturnForces ==
    ASSUME LockInv, NEW g \in Goroutines, NEW raised, Uses(g), Return(g, raised)
    PROVE  /\ Depth(g) \in Nat \ {0} /\ Depth(g)' = Depth(g) - 1
           /\ Top(g) = stack[g][Depth(g)]
           /\ \A i \in 1..(Depth(g) - 1) :
                 /\ stack'[g][i].k = stack[g][i].k
                 /\ stack'[g][i].v = stack[g][i].v
                 /\ stack[g][i].k \notin raised \/ i # Depth(g) - 1 =>
                       stack'[g][i].bad = stack[g][i].bad
           /\ \A h \in Goroutines \ {g} : stack'[h] = stack[h]
<1>1. stack'[g] = Below(g, raised) /\ stack[g] \in Seq(Frame) /\ stack[g] # <<>>
  BY ReturnEffect DEF LockInv, TypeOK
<1>2. \A h \in Goroutines \ {g} : stack'[h] = stack[h]
  BY ReturnEffect DEF Stays
<1>3. Depth(g) \in Nat \ {0}
  BY <1>1, TopFacts DEF Depth
<1> QED BY <1>1, <1>2, <1>3, BelowFacts DEF Depth, Top

\* The end of a frame that evaluates no variable.
LEMMA ForceReturn ==
    ASSUME LockInv, ForceInv, NEW g \in Goroutines, NEW raised, Uses(g),
           Return(g, raised), Top(g).k # "force", state' = state
    PROVE  ForceInv'
<1>1. TypeOK
  BY DEF LockInv
<1>2. \A i \in Nat, v \in Vars : Forces(g, i, v)' <=> Forces(g, i, v)
  BY <1>1, ReturnForces, ForcesEnd
<1> QED BY <1>2, ReturnForces, ForcesStay, ForcesSame

\* The evaluation of a variable ends, with or without a value.
LEMMA ForceSettles ==
    ASSUME LockInv, ForceInv, NEW g \in Goroutines, NEW raised, Uses(g),
           Return(g, raised), Top(g).k = "force", NEW s, s # "running",
           state' = [state EXCEPT ![Top(g).v] = s]
    PROVE  ForceInv' /\ Top(g).v \in Vars /\ state[Top(g).v] = "running"
<1>0. TypeOK /\ stack[g] # <<>>
  BY DEF LockInv, Uses
<1>1. PICK n \in Nat : Depth(g) = n + 1 /\ Depth(g)' = n
  <2>1. Depth(g) \in Nat \ {0} /\ Depth(g)' = Depth(g) - 1
    BY ReturnForces
  <2>2. Depth(g) - 1 \in Nat /\ Depth(g) = (Depth(g) - 1) + 1
    BY <2>1
  <2> QED BY <2>1, <2>2
<1>2. PICK w \in Vars : w = Top(g).v
  BY <1>0, TopType DEF Frame
<1>3. Forces(g, n + 1, w) /\ state[w] = "running"
  <2>1. Forces(g, n + 1, w)
    BY <1>1, <1>2, ReturnForces DEF Forces
  <2> QED BY <2>1 DEF ForceInv
<1>4. \A i \in Nat, v \in Vars :
         Forces(g, i, v)' <=> Forces(g, i, v) /\ i # n + 1
  <2>1. \A i \in 1..(n + 1) : i # n + 1 => i \in 1..n
    OBVIOUS
  <2>2. \A i \in 1..n : i \in 1..(n + 1) /\ i # n + 1
    OBVIOUS
  <2> QED BY <1>1, <2>1, <2>2, ReturnForces DEF Forces
<1>5. \A h \in Goroutines \ {g}, i \in Nat, v \in Vars :
         Forces(h, i, v)' <=> Forces(h, i, v)
  BY ReturnForces, ForcesStay
<1>6. \A v \in Vars : state'[v] = IF v = w THEN s ELSE state[v]
  BY <1>0, <1>2 DEF TypeOK
<1>7. ASSUME NEW h \in Goroutines, NEW i \in Nat, NEW v \in Vars, Forces(h, i, v)'
      PROVE  Forces(h, i, v) /\ v # w
  <2>1. Forces(h, i, v) /\ (h = g => i # n + 1)
    BY <1>4, <1>5, <1>7
  <2> QED BY <1>3, <2>1 DEF ForceInv
<1>8. ASSUME NEW v \in Vars, state'[v] = "running"
      PROVE  \E h \in Goroutines, i \in Nat : Forces(h, i, v)'
  <2>1. v # w /\ state[v] = "running"
    BY <1>6, <1>8
  <2>2. PICK h \in Goroutines, i \in Nat : Forces(h, i, v)
    BY <2>1 DEF ForceInv
  <2>3. ~(h = g /\ i = n + 1)
    BY <1>3, <2>1, <2>2 DEF Forces
  <2> QED BY <1>4, <1>5, <2>2, <2>3
<1> QED BY <1>2, <1>3, <1>6, <1>7, <1>8 DEF ForceInv

\* The evaluation of a pending variable begins.
LEMMA ForceStarts ==
    ASSUME LockInv, ForceInv, NEW g \in Goroutines, Uses(g), ForceBegins(g)
    PROVE  ForceInv' /\ Top(g).v \in Vars
<1>0. TypeOK /\ stack[g] # <<>>
  BY DEF LockInv, Uses
<1>1. PICK n \in Nat : Depth(g) = n
  BY <1>0, DepthType
<1>2. PICK w \in Vars : w = Top(g).v
  BY <1>0, TopType DEF Frame, ForceBegins
<1>3. /\ n \in 1..n /\ Depth(g)' = n /\ Top(g) = stack[g][n]
      /\ stack'[g][n].k = "force" /\ stack'[g][n].v = w
      /\ stack[g][n].k = "get"
      /\ \A i \in 1..n : i # n => stack'[g][i] = stack[g][i]
  BY <1>1, <1>2, ForceEffect DEF ForceBegins, Top
<1>4. \A i \in Nat, v \in Vars :
         Forces(g, i, v)' <=> Forces(g, i, v) \/ (i = n /\ v = w)
  BY <1>1, <1>3 DEF Forces
<1>5. \A h \in Goroutines \ {g}, i \in Nat, v \in Vars :
         Forces(h, i, v)' <=> Forces(h, i, v)
  BY ForceEffect, ForcesStay DEF Stays
<1>6. /\ \A v \in Vars : state'[v] = IF v = w THEN "running" ELSE state[v]
      /\ state[w] = "pending"
  BY <1>0, <1>2 DEF TypeOK, ForceBegins
<1>7. \A h \in Goroutines, i \in Nat : ~Forces(h, i, w)
  BY <1>6 DEF ForceInv
<1>8. \A h \in Goroutines, i \in Nat, v \in Vars :
         Forces(h, i, v)' <=> Forces(h, i, v) \/ (h = g /\ i = n /\ v = w)
  BY <1>4, <1>5
<1>9. ASSUME NEW v \in Vars, state'[v] = "running"
      PROVE  \E h \in Goroutines, i \in Nat : Forces(h, i, v)'
  BY <1>6, <1>8, <1>9 DEF ForceInv
<1>10. \A h \in Goroutines, i \in Nat, v \in Vars :
          Forces(h, i, v)' => state'[v] = "running"
  BY <1>6, <1>8 DEF ForceInv
<1>11. \A h1, h2 \in Goroutines, i, j \in Nat, v \in Vars :
          Forces(h1, i, v)' /\ Forces(h2, j, v)' => h1 = h2 /\ i = j
  BY <1>7, <1>8 DEF ForceInv
<1> QED BY <1>2, <1>9, <1>10, <1>11 DEF ForceInv

\* A frame that evaluates no variable begins on g, or nothing changes.
LEMMA ForcePush ==
    ASSUME TypeOK, ForceInv, NEW g \in Goroutines, state' = state,
           \A h \in Goroutines \ {g} : stack'[h] = stack[h],
           \/ stack'[g] = stack[g]
           \/ /\ Depth(g)' = Depth(g) + 1
              /\ stack'[g][Depth(g) + 1].k # "force"
              /\ \A i \in 1..Depth(g) : /\ stack'[g][i].k = stack[g][i].k
                                        /\ stack[g][i].k = "force" =>
                                              stack'[g][i].v = stack[g][i].v
    PROVE  ForceInv'
<1>1. \A i \in Nat, v \in Vars : Forces(g, i, v)' <=> Forces(g, i, v)
  BY ForcesBegin, ForcesStay
<1> QED BY <1>1, ForcesStay, ForcesSame

LEMMA ForceLock ==
    ASSUME LockInv, ForceInv, NEW g \in Goroutines, NEW f \in Frame,
           f.k \in {"call", "get"},
           Acts(g) \/ InHost(g) \/ (Idle(g) /\ escaped), Lock(g, f), state' = state
    PROVE  ForceInv'
<1>1. /\ \A h \in Goroutines \ {g} : Stays(h)
      /\ \/ stack'[g] = stack[g]
         \/ /\ Begins(g, [f EXCEPT !.off = off])
            /\ \A i \in 1..Depth(g) : stack'[g][i] = stack[g][i]
  BY LockEffect
<1>2. [f EXCEPT !.off = off].k # "force"
  BY DEF Frame
<1>3. TypeOK
  BY DEF LockInv
<1> HIDE DEF Frame
<1> QED BY <1>1, <1>2, <1>3, ForcePush DEF Stays, Begins

\* What a variable's evaluation turns its state into.
LEMMA ForceInvStep ==
    LockInv /\ LocalsInv /\ HeldInv /\ ForceInv /\ GlobalsInv /\ [Next]_vars => ForceInv'
<1> SUFFICES ASSUME LockInv, LocalsInv, HeldInv, ForceInv, GlobalsInv, [Next]_vars
             PROVE  ForceInv'
  OBVIOUS
<1>0. TypeOK /\ Main \in Goroutines
  BY GoroutineFacts DEF LockInv
<1>1. ASSUME NEW g \in Goroutines, CallItem(g) PROVE ForceInv'
  <2>1. NewFrame("call", None) \in Frame /\ NewFrame("call", None).k = "call"
    BY FrameFacts DEF NewFrame
  <2> QED BY <1>1, <2>1, ForceLock DEF CallItem, varVars
<1>2. ASSUME NEW g \in Goroutines, CallReturn(g) PROVE ForceInv'
  BY <1>2, ForceReturn DEF CallReturn, varVars
<1>3. ASSUME NEW g \in Goroutines, NEW v \in Vars, ReadVar(g, v) PROVE ForceInv'
  <2>1. NewFrame("get", v) \in Frame /\ NewFrame("get", v).k = "get"
    BY FrameFacts DEF NewFrame
  <2> QED BY <1>3, <2>1, ForceLock DEF ReadVar, varVars
<1>4. ASSUME NEW g \in Goroutines, GetVar(g) PROVE ForceInv'
  <2>1. Uses(g) /\ Top(g).k # "force"
    BY <1>4 DEF GetVar, GetVarBy
  <2>2. CASE (\E raised : Return(g, raised)) /\ UNCHANGED varVars
    BY <2>1, <2>2, ForceReturn DEF varVars
  <2>3. CASE ForceBegins(g)
    BY <2>1, <2>3, ForceStarts
  <2> QED BY <1>4, <2>2, <2>3 DEF GetVar, GetVarBy, ForceBegins
<1>5. ASSUME NEW g \in Goroutines, ForceOk(g) PROVE ForceInv'
  BY <1>5, ForceSettles DEF ForceOk
<1>6. ASSUME NEW g \in Goroutines, ForceFail(g) PROVE ForceInv'
  BY <1>6, ForceSettles DEF ForceFail
<1>7. ASSUME NEW g \in Goroutines, NEW join \in BOOLEAN, HostCall(g, join) PROVE ForceInv'
  <2>1. /\ \A h \in Goroutines \ {g} : stack'[h] = stack[h]
        /\ Begins(g, HostFrameOf(g, join)) /\ state' = state
        /\ \A i \in 1..Depth(g) : stack'[g][i] = stack[g][i]
    BY <1>7, HostEffect DEF Stays, varVars
  <2>2. HostFrameOf(g, join).k # "force"
    BY DEF HostFrameOf, HostFrame
  <2> HIDE DEF HostFrameOf
  <2> QED BY <1>0, <2>1, <2>2, ForcePush DEF Begins
<1>8. ASSUME NEW g \in Goroutines, HostReturn(g) PROVE ForceInv'
  BY <1>0, <1>8, HostReturnEffect, ForcePush DEF varVars
<1>9. ASSUME NEW g \in Goroutines, Acquire(g) \/ Unlock(g) PROVE ForceInv'
  BY <1>0, <1>9, ForcePush DEF Acquire, Unlock, varVars
<1>10. ASSUME NEW g \in Goroutines, TakeOwner(g) PROVE ForceInv'
  <2>1. /\ \A h \in Goroutines \ {g} : stack'[h] = stack[h]
        /\ state' = state /\ Wants(g) /\ pc[g] = "locked" /\ want[g] \in Frame
        /\ stack[g] = <<>> \/ Top(g).k = "host"
    BY <1>0, <1>10, TakeEffect DEF Stays, varVars, LocalsInv, TypeOK
  <2>2. CASE want[g].k = "host"
    <3>1. /\ stack[g] # <<>> /\ Ends(g)
          /\ \A i \in 1..(Depth(g) - 1) : stack'[g][i] = stack[g][i]
      BY <1>10, <2>2, TakeEffect
    <3>2. stack[g][Depth(g)].k # "force"
      BY <2>1, <3>1 DEF Top
    <3>3. \A i \in Nat, v \in Vars : Forces(g, i, v)' <=> Forces(g, i, v)
      BY <1>0, <3>1, <3>2, ForcesEnd DEF Ends
    <3> QED BY <2>1, <3>3, ForcesStay, ForcesSame
  <2>3. CASE want[g].k # "host"
    <3>1. /\ Begins(g, [want[g] EXCEPT !.off = off])
          /\ \A i \in 1..Depth(g) : stack'[g][i] = stack[g][i]
      BY <1>10, <2>3, TakeEffect
    <3>2. [want[g] EXCEPT !.off = off].k # "force"
      BY <2>1, <2>3 DEF Wants, Frame
    <3> QED BY <1>0, <2>1, <3>1, <3>2, ForcePush DEF Begins
  <2> QED BY <2>2, <2>3
<1>11. ASSUME NEW v \in Vars, Prime(v) PROVE ForceInv'
  <2> DEFINE f == [NewFrame("get", v) EXCEPT !.off = off]
  <2>1. /\ \A h \in Goroutines \ {Main} : stack'[h] = stack[h]
        /\ Uses(Main) /\ phase = "globals" /\ Depth(Main) = 1 /\ state' = state
        /\ \/ stack' = stack
           \/ /\ Begins(Main, f)
              /\ stack'[Main][1] = [stack[Main][1] EXCEPT !.v = v]
    BY <1>11, PrimeEffect DEF Stays
  <2>2. f.k # "force"
    BY DEF NewFrame
  <2> HIDE DEF f
  <2>3. stack[Main][1].k = "eval" /\ stack[Main][1] \in Frame
    BY <1>0, <2>1, TopType DEF HeldInv, Top, Uses
  <2>4. stack'[Main][1] = [stack[Main][1] EXCEPT !.v = v] => stack'[Main][1].k = "eval"
    BY <2>3 DEF Frame
  <2>5. \A i \in 1..1 : i = 1
    OBVIOUS
  <2>6. CASE stack' = stack
    BY <1>0, <2>1, <2>6, ForcePush
  <2>7. CASE Begins(Main, f) /\ stack'[Main][1] = [stack[Main][1] EXCEPT !.v = v]
    <3>1. Depth(Main)' = Depth(Main) + 1 /\ stack'[Main][Depth(Main) + 1].k # "force"
      BY <2>2, <2>7 DEF Begins
    <3>2. \A i \in 1..Depth(Main) : /\ stack'[Main][i].k = stack[Main][i].k
                                    /\ stack[Main][i].k # "force"
      BY <2>1, <2>3, <2>4, <2>5, <2>7
    <3> QED BY <1>0, <2>1, <3>1, <3>2, ForcePush
  <2> QED BY <2>1, <2>6, <2>7
<1>12. ASSUME NEW v \in Vars, Unbind(v) PROVE ForceInv'
  <2>1. /\ \A h \in Goroutines \ {Main} : stack'[h] = stack[h]
        /\ Uses(Main) /\ phase = "globals" /\ Depth(Main) = 1
        /\ stack[Main][1].bad /\ stack[Main][1].v = v
        /\ state' = [state EXCEPT ![v] = "unbound"]
        /\ Depth(Main)' = 1
        /\ stack'[Main][1] = [stack[Main][1] EXCEPT !.bad = FALSE]
    BY <1>12, UnbindEffect DEF Stays, Keeps
  <2>2. state[v] = "pending"
    BY <2>1 DEF GlobalsInv
  <2>3. stack[Main][1].k = "eval" /\ stack[Main][1] \in Frame
    BY <1>0, <2>1, TopType DEF HeldInv, Top, Uses
  <2>4. stack'[Main][1].k = "eval"
    BY <2>1, <2>3 DEF Frame
  <2>5. \A i \in 1..1 : i = 1
    OBVIOUS
  <2>6. \A i \in Nat, w \in Vars : ~Forces(Main, i, w) /\ ~Forces(Main, i, w)'
    BY <2>1, <2>3, <2>4, <2>5 DEF Forces
  <2>7. \A g \in Goroutines, i \in Nat, w \in Vars :
           Forces(g, i, w)' <=> Forces(g, i, w)
    BY <2>1, <2>6, ForcesStay
  <2>8. \A w \in Vars : state'[w] = "running" <=> state[w] = "running"
    BY <1>0, <2>1, <2>2 DEF TypeOK
  <2> QED BY <2>7, <2>8 DEF ForceInv
<1>13. CASE GlobalsFail \/ EndTransform
  <2>1. /\ \A h \in Goroutines \ {Main} : stack'[h] = stack[h]
        /\ Uses(Main) /\ Depth(Main) = 1 /\ Depth(Main)' = 0 /\ state' = state
    BY <1>13, ClearEffect DEF Stays
  <2>2. stack[Main][1].k = "eval"
    BY <1>13 DEF GlobalsFail, EndTransform, InGlobals, HeldInv
  <2>3. \A i \in 1..1 : i = 1
    OBVIOUS
  <2>4. \A i \in Nat, w \in Vars : ~Forces(Main, i, w) /\ ~Forces(Main, i, w)'
    BY <2>1, <2>2, <2>3 DEF Forces
  <2> QED BY <2>1, <2>4, ForcesStay, ForcesSame
<1>14. CASE BeginBody
  BY <1>0, <1>14, ForcePush DEF BeginBody
<1>15. CASE UNCHANGED vars
  BY <1>0, <1>15, ForcePush DEF vars
<1>16. ASSUME NEW g \in Goroutines, Step(g) PROVE ForceInv'
  BY <1>1, <1>2, <1>3, <1>4, <1>5, <1>6, <1>7, <1>8, <1>9, <1>10, <1>16 DEF Step
<1>17. CASE MainStep
  BY <1>0, <1>7, <1>11, <1>12, <1>13, <1>14, <1>17 DEF MainStep
<1> QED BY <1>15, <1>16, <1>17 DEF Next

\* While evalGlobals runs, the transform's frame is the innermost only when
\* evalGlobals itself uses the runtime.
LEMMA GlobalsTop ==
    ASSUME LockInv, HeldInv, phase = "globals"
    PROVE  /\ Depth(Main) \in Nat \ {0}
           /\ stack[Main] # <<>>
           /\ Depth(Main) = 1 => Uses(Main) /\ Top(Main).k = "eval"
<1>1. /\ TypeOK /\ stack[Main] # <<>> /\ stack[Main][1].k = "eval"
      /\ stack[Main] \in Seq(Frame) /\ Apart(Main)
  BY GoroutineFacts DEF LockInv, HeldInv, TypeOK
<1>2. Depth(Main) \in Nat \ {0}
  BY <1>1, TopFacts DEF Depth
<1>3. ASSUME Depth(Main) = 1 PROVE Uses(Main) /\ Top(Main).k = "eval"
  BY <1>1, <1>3 DEF Uses, Top, Apart, Waiting
<1> QED BY <1>1, <1>2, <1>3

\* Another goroutine changes nothing evalGlobals relies on.
LEMMA GlobalsOther ==
    ASSUME LockInv, HeldInv, GlobalsInv, NEW g \in Goroutines, g # Main,
           stack'[Main] = stack[Main], phase' = phase, state' = state \/ Uses(g)
    PROVE  GlobalsInv'
<1> SUFFICES ASSUME phase = "globals" PROVE GlobalsInv'
  BY DEF GlobalsInv
<1>1. Depth(Main)' = Depth(Main)
  BY DEF Depth
<1>2. ASSUME stack[Main][1].bad PROVE state' = state
  <2>1. Uses(Main)
    BY <1>2, GlobalsTop DEF GlobalsInv
  <2> QED BY <2>1, LockInvSerial, GoroutineFacts DEF OneEvaluator
<1> QED BY <1>1, <1>2 DEF GlobalsInv

\* A step of Main while it evaluates a global leaves which one it is.
LEMMA GlobalsDeep ==
    ASSUME GlobalsInv, phase = "globals" => Depth(Main) # 1,
           phase' = phase,
           stack'[Main][1].v = stack[Main][1].v,
           stack'[Main][1].bad = stack[Main][1].bad,
           Depth(Main)' # 1 => stack'[Main][2].v = stack[Main][2].v
    PROVE  GlobalsInv'
BY DEF GlobalsInv

\* A frame that ends without an error for the transform's own frame.
LEMMA GlobalsReturn ==
    ASSUME LockInv, HeldInv, GlobalsInv, NEW g \in Goroutines, NEW raised,
           Uses(g), Return(g, raised), Top(g).k # "eval", "eval" \notin raised,
           phase' = phase
    PROVE  GlobalsInv'
<1>1. CASE g # Main
  BY <1>1, ReturnForces, GoroutineFacts, GlobalsOther
<1>2. CASE g = Main
  <2> SUFFICES ASSUME phase = "globals" PROVE GlobalsInv'
    BY DEF GlobalsInv
  <2>1. /\ Depth(Main) \in Nat \ {0, 1} /\ Depth(Main)' = Depth(Main) - 1
        /\ stack[Main][1].k = "eval"
    BY <1>2, GlobalsTop, ReturnForces DEF HeldInv
  <2>2. 1 \in 1..(Depth(Main) - 1)
    BY <2>1
  <2>3. Depth(Main)' # 1 => 2 \in 1..(Depth(Main) - 1)
    BY <2>1
  <2>4. stack'[Main][1].v = stack[Main][1].v /\ stack'[Main][1].bad = stack[Main][1].bad
    BY <1>2, <2>1, <2>2, ReturnForces
  <2>5. Depth(Main)' # 1 => stack'[Main][2].v = stack[Main][2].v
    BY <1>2, <2>3, ReturnForces
  <2> QED BY <2>1, <2>4, <2>5, GlobalsDeep
<1> QED BY <1>1, <1>2

\* The evaluation of a global fails.
LEMMA GlobalsForceFail ==
    ASSUME LockInv, HeldInv, ForceInv, GlobalsInv, NEW g \in Goroutines, ForceFail(g)
    PROVE  GlobalsInv'
<1> DEFINE raised == IF phase = "globals" THEN {"eval", "force"} ELSE {"force"}
<1>1. /\ Uses(g) /\ Top(g).k = "force" /\ Return(g, raised) /\ phase' = phase
      /\ state' = [state EXCEPT ![Top(g).v] = "pending"]
  BY DEF ForceFail
<1>2. Top(g).v \in Vars /\ TypeOK
  BY <1>1, ForceSettles DEF LockInv
<1> HIDE DEF raised
<1>3. CASE g # Main
  BY <1>1, <1>3, ReturnForces, GoroutineFacts, GlobalsOther
<1>4. CASE g = Main
  <2> SUFFICES ASSUME phase = "globals" PROVE GlobalsInv'
    BY <1>1 DEF GlobalsInv
  <2>1. /\ Depth(Main) \in Nat \ {0, 1} /\ Depth(Main)' = Depth(Main) - 1
        /\ stack[Main][1].k = "eval"
    BY <1>1, <1>4, GlobalsTop, ReturnForces DEF HeldInv
  <2>2. 1 \in 1..(Depth(Main) - 1)
    BY <2>1
  <2>3. stack'[Main][1].v = stack[Main][1].v
    BY <1>1, <1>4, <2>2, ReturnForces
  <2>4. CASE Depth(Main) = 2
    <3>1. stack[Main][1].v = Top(Main).v /\ stack[Main][1].v \in Eager
      BY <1>1, <1>4, <2>4, ReturnForces DEF GlobalsInv
    <3>2. state'[stack'[Main][1].v] = "pending"
      BY <1>1, <1>2, <1>4, <2>3, <3>1 DEF TypeOK
    <3> QED BY <2>1, <2>3, <2>4, <3>1, <3>2 DEF GlobalsInv
  <2>5. CASE Depth(Main) # 2
    <3>1. 1 # Depth(Main) - 1 /\ 2 \in 1..(Depth(Main) - 1)
      BY <2>1, <2>5
    <3>2. /\ stack'[Main][1].bad = stack[Main][1].bad
          /\ stack'[Main][2].v = stack[Main][2].v
      BY <1>1, <1>4, <2>2, <3>1, ReturnForces
    <3> QED BY <1>1, <2>1, <2>3, <3>2, GlobalsDeep
  <2> QED BY <2>4, <2>5
<1> QED BY <1>3, <1>4

\* A frame begins on one of a global's evaluation, or none does.
LEMMA GlobalsPush ==
    ASSUME LockInv, HeldInv, GlobalsInv, NEW g \in Goroutines,
           phase = "globals" /\ g = Main => Depth(Main) # 1,
           phase' = phase, state' = state,
           \A h \in Goroutines \ {g} : stack'[h] = stack[h],
           \/ stack'[g] = stack[g]
           \/ /\ Depth(g)' = Depth(g) + 1
              /\ \A i \in 1..Depth(g) : stack'[g][i] = stack[g][i]
    PROVE  GlobalsInv'
<1>1. CASE g # Main
  BY <1>1, GoroutineFacts, GlobalsOther
<1>2. CASE g = Main
  <2> SUFFICES ASSUME phase = "globals" PROVE GlobalsInv'
    BY DEF GlobalsInv
  <2>1. Depth(Main) \in Nat \ {0, 1}
    BY <1>2, GlobalsTop
  <2>2. 1 \in 1..Depth(Main) /\ 2 \in 1..Depth(Main)
    BY <2>1
  <2>3. stack'[Main][1] = stack[Main][1] /\ stack'[Main][2] = stack[Main][2]
    BY <1>2, <2>2
  <2> QED BY <2>1, <2>3, GlobalsDeep
<1> QED BY <1>1, <1>2

LEMMA GlobalsLock ==
    ASSUME LockInv, HeldInv, GlobalsInv, NEW g \in Goroutines, NEW f \in Frame,
           Acts(g) \/ InHost(g) \/ (Idle(g) /\ escaped), Lock(g, f),
           state' = state, phase' = phase
    PROVE  GlobalsInv'
<1>1. /\ \A h \in Goroutines \ {g} : stack'[h] = stack[h]
      /\ \/ stack'[g] = stack[g]
         \/ /\ Depth(g)' = Depth(g) + 1
            /\ \A i \in 1..Depth(g) : stack'[g][i] = stack[g][i]
  BY LockEffect DEF Stays, Begins
<1>2. phase = "globals" /\ g = Main => Depth(Main) # 1
  BY GlobalsTop DEF Acts, InHost, Idle
<1> QED BY <1>1, <1>2, GlobalsPush

LEMMA GlobalsInvStep ==
    LockInv /\ LocalsInv /\ HeldInv /\ ForceInv /\ GlobalsInv /\ [Next]_vars => GlobalsInv'
<1> SUFFICES ASSUME LockInv, LocalsInv, HeldInv, ForceInv, GlobalsInv, [Next]_vars
             PROVE  GlobalsInv'
  OBVIOUS
<1>0. TypeOK /\ Main \in Goroutines
  BY GoroutineFacts DEF LockInv
<1>1. ASSUME NEW g \in Goroutines, CallItem(g) PROVE GlobalsInv'
  <2>1. NewFrame("call", None) \in Frame
    BY FrameFacts
  <2> QED BY <1>1, <2>1, GlobalsLock DEF CallItem, varVars
<1>2. ASSUME NEW g \in Goroutines, CallReturn(g) PROVE GlobalsInv'
  BY <1>2, GlobalsReturn DEF CallReturn, varVars
<1>3. ASSUME NEW g \in Goroutines, NEW v \in Vars, ReadVar(g, v) PROVE GlobalsInv'
  <2>1. NewFrame("get", v) \in Frame
    BY FrameFacts
  <2> QED BY <1>3, <2>1, GlobalsLock DEF ReadVar, varVars
<1>4. ASSUME NEW g \in Goroutines, GetVar(g) PROVE GlobalsInv'
  <2>1. Uses(g) /\ Top(g).k = "get"
    BY <1>4 DEF GetVar, GetVarBy
  <2>2. CASE (Return(g, {}) \/ Return(g, {"force"})) /\ UNCHANGED varVars
    BY <2>1, <2>2, GlobalsReturn DEF varVars
  <2>3. CASE ForceBegins(g)
    <3>1. /\ \A h \in Goroutines \ {g} : stack'[h] = stack[h]
          /\ Depth(g) \in 1..Depth(g) /\ Depth(g)' = Depth(g)
          /\ stack'[g][Depth(g)].v = Top(g).v /\ Top(g) = stack[g][Depth(g)]
          /\ \A i \in 1..Depth(g) : i # Depth(g) => stack'[g][i] = stack[g][i]
          /\ phase' = phase
      BY <2>1, <2>3, ForceEffect DEF ForceBegins, Stays, Top
    <3>2. CASE g # Main
      BY <1>0, <2>1, <3>1, <3>2, GlobalsOther
    <3>3. CASE g = Main
      <4> SUFFICES ASSUME phase = "globals" PROVE GlobalsInv'
        BY <3>1 DEF GlobalsInv
      <4>1. Depth(Main) \in Nat \ {0, 1}
        BY <2>1, <3>3, GlobalsTop
      <4>2. 1 \in 1..Depth(Main) /\ 2 \in 1..Depth(Main) /\ 1 # Depth(Main)
        BY <4>1
      <4>3. stack'[Main][1] = stack[Main][1] /\ stack'[Main][2].v = stack[Main][2].v
        BY <3>1, <3>3, <4>2
      <4> QED BY <3>1, <4>1, <4>3, GlobalsDeep
    <3> QED BY <3>2, <3>3
  <2> QED BY <1>4, <2>2, <2>3 DEF GetVar, GetVarBy, ForceBegins
<1>5. ASSUME NEW g \in Goroutines, ForceOk(g) PROVE GlobalsInv'
  BY <1>5, GlobalsReturn DEF ForceOk
<1>6. ASSUME NEW g \in Goroutines, ForceFail(g) PROVE GlobalsInv'
  BY <1>6, GlobalsForceFail
<1>7. ASSUME NEW g \in Goroutines, NEW join \in BOOLEAN, HostCall(g, join) PROVE GlobalsInv'
  <2>1. /\ \A h \in Goroutines \ {g} : stack'[h] = stack[h]
        /\ Depth(g)' = Depth(g) + 1 /\ state' = state /\ phase' = phase /\ Acts(g)
        /\ \A i \in 1..Depth(g) : stack'[g][i] = stack[g][i]
    BY <1>7, HostEffect DEF Stays, varVars, Begins
  <2>2. phase = "globals" /\ g = Main => Depth(Main) # 1
    BY <2>1, GlobalsTop DEF Acts
  <2> QED BY <2>1, <2>2, GlobalsPush
<1>8. ASSUME NEW g \in Goroutines, HostReturn(g) PROVE GlobalsInv'
  BY <1>8, HostReturnEffect DEF varVars, GlobalsInv, Depth
<1>9. ASSUME NEW g \in Goroutines, Acquire(g) \/ Unlock(g) PROVE GlobalsInv'
  BY <1>9 DEF Acquire, Unlock, varVars, GlobalsInv, Depth
<1>10. ASSUME NEW g \in Goroutines, TakeOwner(g) PROVE GlobalsInv'
  <2>1. /\ \A h \in Goroutines \ {g} : stack'[h] = stack[h]
        /\ state' = state /\ phase' = phase
        /\ stack[g] = <<>> \/ Top(g).k = "host"
    BY <1>10, TakeEffect DEF Stays, varVars
  <2>2. phase = "globals" /\ g = Main => Depth(Main) # 1
    BY <2>1, GlobalsTop
  <2>3. CASE want[g].k = "host"
    <3>1. Depth(g)' = Depth(g) - 1 /\ \A i \in 1..(Depth(g) - 1) : stack'[g][i] = stack[g][i]
      BY <1>10, <2>3, TakeEffect DEF Ends
    <3>2. CASE g # Main
      BY <1>0, <2>1, <3>2, GlobalsOther
    <3>3. CASE g = Main
      <4> SUFFICES ASSUME phase = "globals" PROVE GlobalsInv'
        BY <2>1 DEF GlobalsInv
      <4>1. Depth(Main) \in Nat \ {0, 1}
        BY <2>2, <3>3, GlobalsTop
      <4>2. 1 \in 1..(Depth(Main) - 1) /\ (Depth(Main)' # 1 => 2 \in 1..(Depth(Main) - 1))
        BY <3>1, <3>3, <4>1
      <4> QED BY <2>1, <3>1, <3>3, <4>1, <4>2, GlobalsDeep
    <3> QED BY <3>2, <3>3
  <2>4. CASE want[g].k # "host"
    BY <1>10, <2>1, <2>2, <2>4, TakeEffect, GlobalsPush DEF Begins
  <2> QED BY <2>3, <2>4
<1>11. ASSUME NEW v \in Vars, Prime(v) PROVE GlobalsInv'
  <2> DEFINE f == [NewFrame("get", v) EXCEPT !.off = off]
  <2>1. /\ Depth(Main) = 1 /\ v \in Eager /\ ~stack[Main][1].bad
        /\ UNCHANGED <<state, phase>> /\ stack[Main] # <<>>
        /\ \/ stack' = stack
           \/ /\ Begins(Main, f)
              /\ stack'[Main][1] = [stack[Main][1] EXCEPT !.v = v]
    BY <1>11, PrimeEffect DEF Uses
  <2>2. f.v = v
    BY DEF NewFrame
  <2>3. stack[Main][1] \in Frame
    BY <1>0, <2>1, TopType DEF Top
  <2> HIDE DEF f
  <2>4. CASE stack' = stack
    BY <2>1, <2>4 DEF GlobalsInv, Depth
  <2>5. CASE Begins(Main, f) /\ stack'[Main][1] = [stack[Main][1] EXCEPT !.v = v]
    <3>1. Depth(Main)' = 2 /\ stack'[Main][2].v = v
      BY <2>1, <2>2, <2>5 DEF Begins
    <3>2. stack'[Main][1].v = v /\ ~stack'[Main][1].bad
      BY <2>1, <2>3, <2>5 DEF Frame
    <3> QED BY <2>1, <3>1, <3>2 DEF GlobalsInv
  <2> QED BY <2>1, <2>4, <2>5
<1>12. ASSUME NEW v \in Vars, Unbind(v) PROVE GlobalsInv'
  <2>1. /\ Depth(Main)' = 1 /\ stack[Main] # <<>> /\ Depth(Main) = 1
        /\ stack'[Main][1] = [stack[Main][1] EXCEPT !.bad = FALSE]
    BY <1>12, UnbindEffect DEF Keeps, Uses
  <2>2. stack[Main][1] \in Frame
    BY <1>0, <2>1, TopType DEF Top
  <2>3. ~stack'[Main][1].bad
    BY <2>1, <2>2 DEF Frame
  <2> QED BY <2>1, <2>3 DEF GlobalsInv
<1>13. CASE GlobalsFail \/ EndTransform \/ BeginBody
  BY <1>13 DEF GlobalsFail, EndTransform, BeginBody, GlobalsInv
<1>14. CASE UNCHANGED vars
  BY <1>14 DEF vars, GlobalsInv, Depth
<1>15. ASSUME NEW g \in Goroutines, Step(g) PROVE GlobalsInv'
  BY <1>1, <1>2, <1>3, <1>4, <1>5, <1>6, <1>7, <1>8, <1>9, <1>10, <1>15 DEF Step
<1>16. CASE MainStep
  BY <1>0, <1>7, <1>11, <1>12, <1>13, <1>16 DEF MainStep
<1> QED BY <1>14, <1>15, <1>16 DEF Next

LEMMA ForceInvInit == Init => ForceInv /\ GlobalsInv
<1> SUFFICES ASSUME Init PROVE ForceInv /\ GlobalsInv
  OBVIOUS
<1>1. stack[Main] = <<NewFrame("eval", None)>>
  BY GoroutineFacts DEF Init
<1>2. /\ Depth(Main) = 1 /\ stack[Main][1].k = "eval" /\ ~stack[Main][1].bad
  BY <1>1 DEF Depth, NewFrame
<1>3. \A i \in 1..1 : i = 1
  OBVIOUS
<1>4. ASSUME NEW g \in Goroutines, NEW i \in Nat, NEW v \in Vars PROVE ~Forces(g, i, v)
  <2>1. CASE g = Main
    BY <1>2, <1>3, <2>1 DEF Forces
  <2>2. CASE g # Main
    <3>1. Depth(g) = 0
      BY <2>2 DEF Init, Depth
    <3> QED BY <3>1 DEF Forces
  <2> QED BY <2>1, <2>2
<1>5. \A v \in Vars : state[v] # "running"
  BY DEF Init
<1> QED BY <1>2, <1>4, <1>5 DEF ForceInv, GlobalsInv

EvalInv == LockInv /\ LocalsInv /\ HeldInv /\ ForceInv /\ GlobalsInv

LEMMA EvalInvStep == EvalInv /\ [Next]_vars => EvalInv'
BY LockInvStep, LocalsInvStep, HeldInvStep, ForceInvStep, GlobalsInvStep DEF EvalInv

\* The frames that evaluate a variable agree with its state at every step.
THEOREM EvalInvariant == Spec => []EvalInv
<1>1. Init => EvalInv
  BY LockInvInit, LocalsInvInit, HeldInvInit, ForceInvInit DEF EvalInv
<1> QED BY <1>1, EvalInvStep, PTL DEF Spec

LEMMA InvForces == EvalInv => ForcedByOne
<1> SUFFICES ASSUME EvalInv, NEW v \in Vars
             PROVE  IF state[v] = "running"
                    THEN \E p \in ForceFrames(v) : ForceFrames(v) = {p}
                    ELSE ForceFrames(v) = {}
  BY DEF ForcedByOne
<1>1. \A g \in Goroutines : Depth(g) \in Nat
  BY DepthType DEF EvalInv, LockInv
<1>2. \A p \in ForceFrames(v) :
         p[1] \in Goroutines /\ p[2] \in Nat /\ p = <<p[1], p[2]>> /\ Forces(p[1], p[2], v)
  BY <1>1 DEF ForceFrames, Forces
<1>3. ASSUME NEW g \in Goroutines, NEW i \in Nat, Forces(g, i, v)
      PROVE  <<g, i>> \in ForceFrames(v)
  <2>1. i <= MaxDepth
    BY <1>3 DEF EvalInv, HeldInv, Order, Forces
  <2>2. i \in 1..MaxDepth /\ i <= Depth(g)
    BY <1>1, <1>3, <2>1, EvalLockAssumption DEF Forces
  <2> QED BY <1>3, <2>2 DEF ForceFrames, Forces
<1>4. CASE state[v] = "running"
  <2>1. PICK g \in Goroutines, i \in Nat : Forces(g, i, v)
    BY <1>4 DEF EvalInv, ForceInv
  <2>2. \A p \in ForceFrames(v) : p = <<g, i>>
    BY <1>2, <2>1 DEF EvalInv, ForceInv
  <2>3. <<g, i>> \in ForceFrames(v)
    BY <1>3, <2>1
  <2>4. ForceFrames(v) = {<<g, i>>}
    BY <2>2, <2>3
  <2> QED BY <1>4, <2>3, <2>4
<1>5. CASE state[v] # "running"
  <2>1. \A p \in ForceFrames(v) : FALSE
    BY <1>2, <1>5 DEF EvalInv, ForceInv
  <2> QED BY <1>5, <2>1
<1> QED BY <1>4, <1>5

\* A variable is running exactly while one force of it is unfinished, on
\* whichever goroutine and at whatever depth: LazyVar.get begins no second.
THEOREM ForcedByOneHolds == Spec => []ForcedByOne
<1> QED BY EvalInvariant, InvForces, PTL

-----------------------------------------------------------------------------
(* What becomes of a variable.                                              *)

\* How a step may change the states: a pending variable starts to run, one
\* that runs ends with a value or without, and one that is pending is unbound.
LEMMA StateStep ==
    ASSUME EvalInv, [Next]_vars
    PROVE  \/ state' = state
           \/ \E v \in Vars, s \in {"running", "pending", "done", "unbound"} :
                 /\ state' = [state EXCEPT ![v] = s]
                 /\ s \in {"running", "unbound"} => state[v] = "pending"
                 /\ s \in {"pending", "done"} => state[v] = "running"
<1> DEFINE Moves == \/ state' = state
                    \/ \E v \in Vars, s \in {"running", "pending", "done", "unbound"} :
                          /\ state' = [state EXCEPT ![v] = s]
                          /\ s \in {"running", "unbound"} => state[v] = "pending"
                          /\ s \in {"pending", "done"} => state[v] = "running"
<1> SUFFICES Moves
  OBVIOUS
<1>0. LockInv /\ ForceInv /\ GlobalsInv
  BY DEF EvalInv
<1>1. ASSUME NEW g \in Goroutines, GetVar(g) PROVE Moves
  <2>1. Uses(g)
    BY <1>1 DEF GetVar, GetVarBy
  <2>2. CASE ForceBegins(g)
    <3>1. Top(g).v \in Vars
      BY <1>0, <2>1, <2>2, ForceStarts
    <3> QED BY <2>2, <3>1 DEF ForceBegins
  <2>3. CASE UNCHANGED varVars
    BY <2>3 DEF varVars
  <2> QED BY <1>1, <2>2, <2>3 DEF GetVar, GetVarBy, ForceBegins
<1>2. ASSUME NEW g \in Goroutines, ForceOk(g) PROVE Moves
  <2>1. Top(g).v \in Vars /\ state[Top(g).v] = "running"
    BY <1>0, <1>2, ForceSettles DEF ForceOk
  <2> QED BY <1>2, <2>1 DEF ForceOk
<1>3. ASSUME NEW g \in Goroutines, ForceFail(g) PROVE Moves
  <2>1. Top(g).v \in Vars /\ state[Top(g).v] = "running"
    BY <1>0, <1>3, ForceSettles DEF ForceFail
  <2> QED BY <1>3, <2>1 DEF ForceFail
<1>4. ASSUME NEW v \in Vars, Unbind(v) PROVE Moves
  <2>1. state[v] = "pending" /\ state' = [state EXCEPT ![v] = "unbound"]
    BY <1>0, <1>4, UnbindEffect DEF GlobalsInv
  <2> QED BY <2>1
<1>5. CASE UNCHANGED vars
  BY <1>5 DEF vars
<1>6. ASSUME NEW g \in Goroutines, Step(g) PROVE Moves
  <2>1. CASE GetVar(g) \/ ForceOk(g) \/ ForceFail(g)
    BY <1>1, <1>2, <1>3, <2>1
  <2>2. CASE CallItem(g) \/ CallReturn(g) \/ \E v \in Vars : ReadVar(g, v)
    BY <2>2 DEF CallItem, CallReturn, ReadVar, varVars
  <2>3. CASE HostCall(g, FALSE) \/ HostReturn(g) \/ Acquire(g) \/ TakeOwner(g) \/ Unlock(g)
    BY <2>3 DEF HostCall, HostRun, HostReturn, Acquire, TakeOwner, Unlock, varVars
  <2> QED BY <1>6, <2>1, <2>2, <2>3 DEF Step
<1>7. CASE MainStep
  <2>1. CASE HostCall(Main, TRUE) \/ GlobalsFail \/ BeginBody \/ EndTransform
    BY <2>1 DEF HostCall, HostRun, GlobalsFail, BeginBody, EndTransform, varVars
  <2>2. CASE \E v \in Vars : Prime(v)
    BY <2>2 DEF Prime
  <2> QED BY <1>4, <1>7, <2>1, <2>2 DEF MainStep
<1> QED BY <1>5, <1>6, <1>7 DEF Next

\* A variable that has a value keeps it, and one that evalGlobals unbound
\* stays out of scope, whoever was reading or evaluating it meanwhile.
THEOREM SettledHolds == Spec => Settled
<1>1. EvalInv /\ [Next]_vars =>
         [\A v \in Vars : state[v] \in {"done", "unbound"} => state'[v] = state[v]]_vars
  <2> SUFFICES ASSUME EvalInv, [Next]_vars, NEW v \in Vars, state[v] \in {"done", "unbound"}
               PROVE  state'[v] = state[v]
    OBVIOUS
  <2>1. TypeOK
    BY DEF EvalInv, LockInv
  <2> QED BY <2>1, StateStep DEF TypeOK
<1> QED BY <1>1, EvalInvariant, PTL DEF Spec, Settled

-----------------------------------------------------------------------------
(* The lock after the transform.                                            *)

\* Only an eager global that is not deferred makes newRuntime fail.
NoFailure == Deferred = Eager => phase # "failed"

LEMMA NoFailureStep == EvalInv /\ NoFailure /\ [Next]_vars => NoFailure'
<1> SUFFICES ASSUME EvalInv, Deferred = Eager, phase # "failed", [Next]_vars
             PROVE  phase' # "failed"
  BY DEF NoFailure
<1>1. ~GlobalsFail
  BY GlobalsTop DEF GlobalsFail, InGlobals, EvalInv, GlobalsInv, Top
<1>2. ASSUME NEW g \in Goroutines, Step(g) PROVE phase' # "failed"
  <2>1. CASE GetVar(g) \/ ForceOk(g) \/ ForceFail(g)
    BY <2>1 DEF GetVar, GetVarBy, ForceOk, ForceFail, varVars
  <2>2. CASE CallItem(g) \/ CallReturn(g) \/ \E v \in Vars : ReadVar(g, v)
    BY <2>2 DEF CallItem, CallReturn, ReadVar, varVars
  <2>3. CASE HostCall(g, FALSE) \/ HostReturn(g) \/ Acquire(g) \/ TakeOwner(g) \/ Unlock(g)
    BY <2>3 DEF HostCall, HostRun, HostReturn, Acquire, TakeOwner, Unlock, varVars
  <2> QED BY <1>2, <2>1, <2>2, <2>3 DEF Step
<1>3. CASE MainStep
  BY <1>1, <1>3 DEF MainStep, HostCall, HostRun, Prime, Unbind, BeginBody, EndTransform, varVars
<1> QED BY <1>2, <1>3 DEF Next, vars

\* The lock is free whenever the transform has returned and nothing runs,
\* for a stylesheet whose eager globals may all fail later: then newRuntime
\* cannot fail, which is what keeps the lock otherwise.
THEOREM FreeAfterReturnHolds ==
    ASSUME Deferred = Eager
    PROVE  Spec => []FreeAfterReturn
<1>1. Init => NoFailure
  BY DEF Init, NoFailure
<1>2. EvalInv /\ NoFailure => FreeAfterReturn
  <2> SUFFICES ASSUME EvalInv, NoFailure, \A g \in Goroutines : Idle(g)
               PROVE  mu = None
    BY DEF FreeAfterReturn
  <2>1. phase # "failed"
    BY DEF NoFailure
  <2>2. \A g \in Goroutines : mu # g
    BY <2>1, InvFrees DEF EvalInv, HostHoldsNothing
  <2> QED BY <2>2 DEF EvalInv, LockInv, TypeOK
<1> QED BY <1>1, <1>2, NoFailureStep, EvalInvariant, PTL DEF Spec

-----------------------------------------------------------------------------
(* The lock implements one-at-a-time use.                                   *)

\* The lock is shared only once something that reaches the runtime escapes.
GoneInv == shared => escaped

LEMMA GoneStep == GoneInv /\ [Next]_vars => GoneInv'
<1> SUFFICES ASSUME GoneInv, [Next]_vars PROVE GoneInv'
  OBVIOUS
<1>1. ASSUME NEW g \in Goroutines, Step(g) PROVE GoneInv'
  <2>1. CASE CallItem(g) \/ \E v \in Vars : ReadVar(g, v)
    BY <2>1 DEF CallItem, ReadVar, lockVars, GoneInv
  <2>2. CASE CallReturn(g) \/ GetVar(g) \/ ForceOk(g) \/ ForceFail(g)
    BY <2>2 DEF CallReturn, GetVar, GetVarBy, ForceOk, ForceFail, Return, lockVars, GoneInv
  <2>3. CASE HostCall(g, FALSE) \/ HostReturn(g) \/ Acquire(g) \/ TakeOwner(g) \/ Unlock(g)
    BY <2>3 DEF HostCall, HostRun, HostReturn, Acquire, TakeOwner, Unlock, lockVars, GoneInv
  <2> QED BY <1>1, <2>1, <2>2, <2>3 DEF Step
<1>2. CASE MainStep
  BY <1>2 DEF MainStep, HostCall, HostRun, Prime, Unbind, GlobalsFail, BeginBody,
     EndTransform, lockVars, GoneInv
<1>3. CASE UNCHANGED vars
  BY <1>3 DEF vars, GoneInv
<1> QED BY <1>1, <1>2, <1>3 DEF Next

\* The user is the goroutine that evaluates.
UserRight ==
    /\ user \in Goroutines \cup {None}
    /\ \A g \in Goroutines : Uses(g) <=> user = g

LEMMA UserIs == LockInv => UserRight
<1> SUFFICES ASSUME LockInv PROVE UserRight
  OBVIOUS
<1>1. CASE \E g \in Goroutines : Uses(g)
  <2>1. user = CHOOSE g \in Goroutines : Uses(g)
    BY <1>1 DEF user
  <2>2. user \in Goroutines /\ Uses(user)
    BY <1>1, <2>1
  <2> QED BY <2>2, LockInvSerial DEF OneEvaluator, UserRight
<1>2. CASE ~\E g \in Goroutines : Uses(g)
  <2>1. user = None
    BY <1>2 DEF user
  <2> QED BY <1>2, <2>1, GoroutineFacts DEF UserRight
<1> QED BY <1>1, <1>2

done == {v \in Vars : state[v] = "done"}

LEMMA UsesStays ==
    ASSUME NEW h \in Goroutines, Stays(h)
    PROVE  Uses(h)' <=> Uses(h)
BY DEF Stays, Uses, Top, Depth

\* Two steps that have the same user on both sides, or a new one on one.
LEMMA SameUser ==
    ASSUME UserRight, UserRight', \A h \in Goroutines : Uses(h)' <=> Uses(h)
    PROVE  user' = user
BY GoroutineFacts DEF UserRight

LEMMA Comes ==
    ASSUME UserRight, UserRight', NEW g \in Goroutines, EvalInv, GoneInv,
           \A h \in Goroutines \ {g} : Stays(h),
           shared, owner = g \/ mu = g, ~Uses(g), Uses(g)',
           escaped' = escaped, state' = state
    PROVE  Serial!Enter(g)
<1>1. ASSUME NEW h \in Goroutines PROVE ~Uses(h)
  <2>1. Apart(h) /\ Apart(g)
    BY DEF EvalInv, LockInv
  <2>2. Uses(h) => owner = h /\ mu = h
    BY <2>1 DEF Apart, Owned
  <2> QED BY <2>2
<1>2. user = None
  BY <1>1 DEF UserRight
<1>3. user' = g
  BY DEF UserRight
<1> QED BY <1>2, <1>3 DEF Serial!Enter, GoneInv

LEMMA Goes ==
    ASSUME UserRight, UserRight', NEW g \in Goroutines,
           \A h \in Goroutines \ {g} : Stays(h),
           Uses(g), ~Uses(g)', escaped' \in {escaped, TRUE}, done' = done
    PROVE  Serial!Leave
<1>1. user = g /\ g # None
  BY GoroutineFacts DEF UserRight
<1>2. \A h \in Goroutines : ~Uses(h)'
  BY <1>1, UsesStays DEF UserRight
<1>3. user' = None
  BY <1>2 DEF UserRight
<1> QED BY <1>1, <1>3 DEF Serial!Leave, done

\* A step after which the same goroutine evaluates, and no variable has a value
\* it had not, is none of the abstract specification's.
LEMMA Stutters ==
    ASSUME UserRight, UserRight', \A h \in Goroutines : Uses(h)' <=> Uses(h),
           escaped' = escaped, done' = done
    PROVE  UNCHANGED Serial!vars
BY SameUser DEF Serial!vars, done

LEMMA SerialLock ==
    ASSUME EvalInv, GoneInv, UserRight, UserRight', NEW g \in Goroutines, NEW f \in Frame,
           f.k \in {"call", "get"},
           Acts(g) \/ InHost(g) \/ (Idle(g) /\ escaped), Lock(g, f),
           state' = state, escaped' = escaped
    PROVE  [Serial!Next]_Serial!vars
<1>0. LockInv /\ Apart(g) /\ Held(g) /\ TypeOK
  BY DEF EvalInv, LockInv, HeldInv
<1>1. /\ \A h \in Goroutines \ {g} : Stays(h)
      /\ pc[g] = "run"
      /\ \/ ~Uses(g) /\ pc'[g] = "lock"
         \/ /\ ~(shared /\ owner # g) /\ pc'[g] = "run"
            /\ Begins(g, [f EXCEPT !.off = off])
  BY <1>0, LockEffect
<1>2. CASE ~Uses(g) /\ pc'[g] = "lock"
  <2>1. ~Uses(g)'
    BY <1>2 DEF Uses
  <2> QED BY <1>1, <1>2, <2>1, UsesStays, Stutters DEF done
<1>3. CASE ~(shared /\ owner # g) /\ pc'[g] = "run" /\ Begins(g, [f EXCEPT !.off = off])
  <2>1. [f EXCEPT !.off = off].k # "host"
    BY DEF Frame
  <2>2. PICK n \in Nat : Depth(g) = n
    BY <1>0, DepthType
  <2>3. Len(stack'[g]) = n + 1 /\ stack'[g][n + 1].k # "host"
    BY <1>3, <2>1, <2>2 DEF Begins, Depth
  <2>4. Uses(g)'
    BY <1>3, <2>2, <2>3 DEF Uses, Top, Depth
  <2>5. CASE Uses(g)
    BY <1>1, <2>4, <2>5, UsesStays, Stutters DEF done
  <2>6. CASE ~Uses(g)
    <3>1. shared
      <4>1. CASE InHost(g)
        <5>1. stack[g] \in Seq(Frame) /\ stack[g] # <<>> /\ Top(g).k = "host"
          BY <1>0, <4>1 DEF TypeOK, InHost
        <5>2. Depth(g) \in 1..Depth(g)
          BY <5>1, TopFacts DEF Depth
        <5> QED BY <1>0, <5>1, <5>2 DEF Apart, Frames, Top
      <4>2. CASE Idle(g) /\ escaped
        BY <1>0, <4>2 DEF LockInv
      <4> QED BY <2>6, <4>1, <4>2 DEF Acts
    <3>2. owner = g
      BY <1>3, <3>1
    <3> QED BY <1>1, <2>4, <2>6, <3>1, <3>2, Comes DEF Serial!Next
  <2> QED BY <2>5, <2>6
<1> QED BY <1>1, <1>2, <1>3

LEMMA SerialReturn ==
    ASSUME EvalInv, UserRight, UserRight', NEW g \in Goroutines, NEW raised,
           Uses(g), Return(g, raised), done' = done
    PROVE  [Serial!Next]_Serial!vars
<1>1. /\ \A h \in Goroutines \ {g} : Stays(h)
      /\ escaped' = escaped
  BY ReturnEffect DEF EvalInv
<1>2. CASE Uses(g)'
  BY <1>1, <1>2, UsesStays, Stutters
<1>3. CASE ~Uses(g)'
  BY <1>1, <1>3, Goes DEF Serial!Next
<1> QED BY <1>2, <1>3

\* A variable gets its value, and the frame that evaluated it ends.
LEMMA SerialForceOk ==
    ASSUME EvalInv, UserRight, UserRight', NEW g \in Goroutines, ForceOk(g)
    PROVE  [Serial!Next]_Serial!vars
<1>1. /\ Uses(g) /\ Return(g, {}) /\ Top(g).k = "force"
      /\ state' = [state EXCEPT ![Top(g).v] = "done"]
  BY DEF ForceOk
<1>2. PICK w \in Vars : w = Top(g).v /\ state[w] = "running"
  BY <1>1, ForceSettles DEF EvalInv
<1>3. TypeOK
  BY DEF EvalInv, LockInv
<1>4. w \notin done /\ done' = done \cup {w}
  BY <1>1, <1>2, <1>3 DEF done, TypeOK
<1>5. /\ \A h \in Goroutines \ {g} : Stays(h)
      /\ escaped' = escaped
  BY <1>1, ReturnEffect DEF EvalInv
<1>6. user = g /\ g # None
  BY <1>1, GoroutineFacts DEF UserRight
<1>7. \A h \in Goroutines \ {g} : ~Uses(h)'
  BY <1>5, <1>6, UsesStays DEF UserRight
<1>8. user' \in {user, None}
  BY <1>6, <1>7 DEF UserRight
<1>9. Serial!Settle(w)
  BY <1>4, <1>5, <1>6, <1>8 DEF Serial!Settle, done
<1> QED BY <1>2, <1>9 DEF Serial!Next

LEMMA SerialTake ==
    ASSUME EvalInv, GoneInv, UserRight, UserRight', NEW g \in Goroutines, TakeOwner(g)
    PROVE  [Serial!Next]_Serial!vars
<1>0. TypeOK /\ Order(g) /\ Wants(g) /\ want[g] \in Frame /\ LockInv
  BY DEF EvalInv, LockInv, TypeOK, HeldInv, LocalsInv
<1>1. /\ \A h \in Goroutines \ {g} : Stays(h)
      /\ pc[g] = "locked" /\ pc'[g] = "run" /\ mu = g /\ shared
      /\ stack[g] = <<>> \/ (Top(g).k = "host" /\ Depth(g) \in 1..Depth(g))
      /\ escaped' = escaped /\ state' = state
      /\ IF want[g].k = "host"
         THEN /\ stack[g] # <<>> /\ Ends(g)
              /\ \A i \in 1..(Depth(g) - 1) : stack'[g][i] = stack[g][i]
         ELSE Begins(g, [want[g] EXCEPT !.off = off])
  BY <1>0, TakeEffect DEF varVars
<1>2. ~Uses(g)
  BY <1>1 DEF Uses
<1>3. Uses(g)'
  <2>1. CASE want[g].k = "host"
    <3>1. PICK n \in Nat : Depth(g) = n
      BY <1>0, DepthType
    <3>2. stack[g][n].k = "host" /\ n \in 1..n /\ Len(stack'[g]) = n - 1
      BY <1>1, <2>1, <3>1 DEF Top, Ends, Depth
    <3>3. n # 1 /\ stack[g][n - 1].k # "host"
      BY <1>0, <3>1, <3>2 DEF Order
    <3>4. n - 1 \in 1..(n - 1) /\ n - 1 # 0
      BY <3>2, <3>3
    <3>5. stack'[g][n - 1].k # "host"
      BY <1>1, <2>1, <3>1, <3>3, <3>4
    <3> QED BY <1>1, <3>2, <3>4, <3>5 DEF Uses, Top, Depth
  <2>2. CASE want[g].k # "host"
    <3>1. [want[g] EXCEPT !.off = off].k # "host"
      BY <1>0, <2>2 DEF Frame
    <3>2. PICK n \in Nat : Depth(g) = n
      BY <1>0, DepthType
    <3>3. Len(stack'[g]) = n + 1 /\ stack'[g][n + 1].k # "host"
      BY <1>1, <2>2, <3>1, <3>2 DEF Begins, Depth
    <3> QED BY <1>1, <3>2, <3>3 DEF Uses, Top, Depth
  <2> QED BY <2>1, <2>2
<1>4. Serial!Enter(g)
  BY <1>1, <1>2, <1>3, Comes
<1> QED BY <1>4 DEF Serial!Next

LEMMA SerialStep ==
    ASSUME EvalInv, GoneInv, UserRight, UserRight', [Next]_vars
    PROVE  [Serial!Next]_Serial!vars
<1>0. LockInv /\ TypeOK /\ Main \in Goroutines /\ GlobalsInv
  BY GoroutineFacts DEF EvalInv, LockInv
<1>1. ASSUME NEW g \in Goroutines, CallItem(g) PROVE [Serial!Next]_Serial!vars
  <2>1. NewFrame("call", None) \in Frame /\ NewFrame("call", None).k = "call"
    BY FrameFacts DEF NewFrame
  <2> QED BY <1>1, <2>1, SerialLock DEF CallItem, varVars
<1>2. ASSUME NEW g \in Goroutines, CallReturn(g) PROVE [Serial!Next]_Serial!vars
  BY <1>2, SerialReturn DEF CallReturn, varVars, done
<1>3. ASSUME NEW g \in Goroutines, NEW v \in Vars, ReadVar(g, v)
      PROVE  [Serial!Next]_Serial!vars
  <2>1. NewFrame("get", v) \in Frame /\ NewFrame("get", v).k = "get"
    BY FrameFacts DEF NewFrame
  <2> QED BY <1>3, <2>1, SerialLock DEF ReadVar, varVars
<1>4. ASSUME NEW g \in Goroutines, GetVar(g) PROVE [Serial!Next]_Serial!vars
  <2>1. Uses(g)
    BY <1>4 DEF GetVar, GetVarBy
  <2>2. CASE (\E raised : Return(g, raised)) /\ UNCHANGED varVars
    BY <2>1, <2>2, SerialReturn DEF varVars, done
  <2>3. CASE ForceBegins(g)
    <3>1. /\ \A h \in Goroutines \ {g} : Stays(h)
          /\ pc'[g] = pc[g] /\ Depth(g)' = Depth(g) /\ stack'[g][Depth(g)].k = "force"
          /\ Depth(g) \in 1..Depth(g)
          /\ escaped' = escaped /\ Top(g).v \in Vars
      BY <1>0, <2>1, <2>3, ForceEffect, ForceStarts DEF ForceBegins, EvalInv
    <3>2. Uses(g)'
      BY <2>1, <3>1 DEF Uses, Top, Depth
    <3>3. done' = done
      BY <1>0, <2>3, <3>1 DEF ForceBegins, done, TypeOK
    <3> QED BY <2>1, <3>1, <3>2, <3>3, UsesStays, Stutters
  <2> QED BY <1>4, <2>2, <2>3 DEF GetVar, GetVarBy, ForceBegins
<1>5. ASSUME NEW g \in Goroutines, ForceOk(g) PROVE [Serial!Next]_Serial!vars
  BY <1>5, SerialForceOk
<1>6. ASSUME NEW g \in Goroutines, ForceFail(g) PROVE [Serial!Next]_Serial!vars
  <2>1. /\ Uses(g) /\ \E raised : Return(g, raised)
        /\ state' = [state EXCEPT ![Top(g).v] = "pending"]
        /\ state[Top(g).v] = "running"
    BY <1>6, ForceSettles DEF ForceFail, EvalInv
  <2>2. done' = done
    BY <1>0, <2>1 DEF done, TypeOK
  <2> QED BY <2>1, <2>2, SerialReturn
<1>7. ASSUME NEW g \in Goroutines, NEW join \in BOOLEAN, HostCall(g, join)
      PROVE  [Serial!Next]_Serial!vars
  <2>1. /\ \A h \in Goroutines \ {g} : Stays(h)
        /\ Uses(g) /\ Begins(g, HostFrameOf(g, join)) /\ escaped' = TRUE
        /\ state' = state
    BY <1>0, <1>7, HostEffect DEF varVars
  <2>2. HostFrameOf(g, join).k = "host"
    BY DEF HostFrameOf, HostFrame
  <2> HIDE DEF HostFrameOf
  <2>3. ~Uses(g)'
    BY <2>1, <2>2 DEF Begins, Uses, Top, Depth
  <2>4. done' = done
    BY <2>1 DEF done
  <2> QED BY <2>1, <2>3, <2>4, Goes DEF Serial!Next
<1>8. ASSUME NEW g \in Goroutines, HostReturn(g) PROVE [Serial!Next]_Serial!vars
  <2>1. /\ \A h \in Goroutines \ {g} : Stays(h)
        /\ Top(g).k = "host" /\ pc'[g] = "lock" /\ escaped' = escaped /\ state' = state
    BY <1>0, <1>8, HostReturnEffect DEF varVars
  <2>2. ~Uses(g) /\ ~Uses(g)'
    BY <2>1 DEF Uses
  <2> QED BY <2>1, <2>2, UsesStays, Stutters DEF done
<1>9. ASSUME NEW g \in Goroutines, Acquire(g) \/ Unlock(g) PROVE [Serial!Next]_Serial!vars
  <2>1. /\ stack' = stack /\ escaped' = escaped /\ state' = state /\ want' = want
        /\ \/ pc[g] = "lock" /\ pc' = [pc EXCEPT ![g] = "locked"]
           \/ pc[g] = "unlock" /\ pc' = [pc EXCEPT ![g] = "run"]
    BY <1>9 DEF Acquire, Unlock, varVars
  <2>2. \A h \in Goroutines \ {g} : Stays(h)
    BY <1>0, <2>1 DEF TypeOK, Stays
  <2>3. ~Uses(g)
    BY <2>1 DEF Uses
  <2>4. ~Uses(g)'
    <3>1. stack[g] = <<>> \/ Top(g).k = "host"
      BY <1>0, <2>1 DEF LockInv, Apart, Waiting
    <3> QED BY <2>1, <3>1 DEF Uses, Top, Depth
  <2> QED BY <2>1, <2>2, <2>3, <2>4, UsesStays, Stutters DEF done
<1>10. ASSUME NEW g \in Goroutines, TakeOwner(g) PROVE [Serial!Next]_Serial!vars
  BY <1>10, SerialTake
<1>11. ASSUME NEW v \in Vars, Prime(v) PROVE [Serial!Next]_Serial!vars
  <2> DEFINE f == [NewFrame("get", v) EXCEPT !.off = off]
  <2>1. /\ \A h \in Goroutines \ {Main} : Stays(h)
        /\ Uses(Main) /\ Depth(Main) = 1 /\ pc'[Main] = pc[Main]
        /\ escaped' = escaped /\ state' = state
        /\ stack' = stack \/ Begins(Main, f)
    BY <1>0, <1>11, PrimeEffect
  <2>2. f.k # "host"
    BY DEF NewFrame
  <2> HIDE DEF f
  <2>3. Uses(Main)'
    BY <2>1, <2>2 DEF Begins, Uses, Top, Depth
  <2> QED BY <2>1, <2>3, UsesStays, Stutters DEF done
<1>12. ASSUME NEW v \in Vars, Unbind(v) PROVE [Serial!Next]_Serial!vars
  <2>1. /\ \A h \in Goroutines \ {Main} : Stays(h)
        /\ Uses(Main) /\ Depth(Main) = 1 /\ pc'[Main] = pc[Main]
        /\ escaped' = escaped /\ Keeps(Main)
        /\ state' = [state EXCEPT ![v] = "unbound"] /\ state[v] = "pending"
    BY <1>0, <1>12, UnbindEffect DEF GlobalsInv
  <2>2. Depth(Main)' = 1 /\ (stack'[Main][1].k = "host") = (stack[Main][1].k = "host")
    BY <2>1 DEF Keeps, Like
  <2>3. Uses(Main)'
    BY <2>1, <2>2 DEF Uses, Top, Depth
  <2>4. done' = done
    BY <1>0, <2>1 DEF done, TypeOK
  <2> QED BY <2>1, <2>3, <2>4, UsesStays, Stutters
<1>13. CASE GlobalsFail \/ EndTransform
  <2>1. /\ \A h \in Goroutines \ {Main} : Stays(h)
        /\ Uses(Main) /\ stack'[Main] = <<>> /\ state' = state
    BY <1>0, <1>13, ClearEffect
  <2>2. escaped' \in {escaped, TRUE}
    BY <1>13 DEF GlobalsFail, EndTransform
  <2>3. ~Uses(Main)'
    BY <2>1 DEF Uses
  <2>4. done' = done
    BY <2>1 DEF done
  <2> QED BY <1>0, <2>1, <2>2, <2>3, <2>4, Goes DEF Serial!Next
<1>14. CASE BeginBody \/ UNCHANGED vars
  <2>1. UNCHANGED <<stack, pc, want, escaped, state>>
    BY <1>14 DEF BeginBody, vars
  <2>2. done' = done /\ \A h \in Goroutines : Stays(h)
    BY <2>1 DEF Stays, done
  <2> QED BY <2>1, <2>2, UsesStays, Stutters
<1>15. ASSUME NEW g \in Goroutines, Step(g) PROVE [Serial!Next]_Serial!vars
  BY <1>1, <1>2, <1>3, <1>4, <1>5, <1>6, <1>7, <1>8, <1>9, <1>10, <1>15 DEF Step
<1>16. CASE MainStep
  BY <1>0, <1>7, <1>11, <1>12, <1>13, <1>14, <1>16 DEF MainStep
<1> QED BY <1>14, <1>15, <1>16 DEF Next

LEMMA SerialInit == Init => Serial!Init
<1> SUFFICES ASSUME Init PROVE Serial!Init
  OBVIOUS
<1>1. UserRight
  BY LockInvInit, UserIs
<1>2. stack[Main] = <<NewFrame("eval", None)>> /\ pc[Main] = "run"
  BY GoroutineFacts DEF Init
<1>3. Uses(Main)
  BY <1>2 DEF Uses, Top, Depth, NewFrame
<1>4. user = Main
  BY <1>1, <1>3, GoroutineFacts DEF UserRight
<1>5. escaped = FALSE /\ {v \in Vars : state[v] = "done"} = {}
  BY DEF Init
<1> QED BY <1>4, <1>5 DEF Serial!Init

\* EvalLock implements SerialEval: under every interleaving the runtime has
\* one user, which changes only by being let go first and only once something
\* has escaped, and which alone gives variables their values.
THEOREM SerialHolds == Spec => SerialSpec
<1>1. Init => GoneInv
  BY DEF Init, GoneInv
<1>2. EvalInv => UserRight
  BY UserIs DEF EvalInv
<1>3. EvalInv /\ GoneInv /\ UserRight /\ UserRight' /\ [Next]_vars
         => [Serial!Next]_Serial!vars
  BY SerialStep
<1> QED BY <1>1, <1>2, <1>3, GoneStep, SerialInit, EvalInvariant, PTL
    DEF Spec, SerialSpec, Serial!Spec
=============================================================================
