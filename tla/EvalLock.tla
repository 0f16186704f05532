------------------------------ MODULE EvalLock ------------------------------
(***************************************************************************)
(* The lock that serialises the use of one XSLT transform's runtime        *)
(* (xpath.EvalLock), the global variables forced under it (xpath.LazyVar), *)
(* and the stack of local bindings only the transform's own goroutine may  *)
(* write (xpathleaf.Locals).                                               *)
(*                                                                         *)
(* Every goroutine is a stack of frames.  "eval" is the transform itself;  *)
(* "call" the body of a function item, or an evaluation with a context     *)
(* that host code was handed; "get" a reference that found its variable    *)
(* not evaluated yet and is about to look again under the lock; "force"    *)
(* the variable's evaluation; "host" code of the host, which may hand what *)
(* it was given to other goroutines.  Host code that evaluates the raw     *)
(* expression tree takes no lock and is outside the model, as              *)
(* docs/known-gaps.md says.                                                *)
(***************************************************************************)
EXTENDS Naturals, Sequences

CONSTANTS
    Main,          \* the goroutine that runs the transform
    Others,        \* goroutines of the host
    Vars,          \* the stylesheet's global variables
    Eager,         \* the globals evaluated before the transform's body, each
                   \* for its own sake: one that only a deferred global
                   \* depends on is not modelled as eager
    Deferred,      \* the eager globals whose failure is owed to a reference
    Fallible,      \* the globals whose evaluation may fail
    MaxDepth,      \* bound on the frames of one goroutine
    None           \* no goroutine, no variable

Goroutines == {Main} \cup Others

ASSUME EvalLockAssumption ==
    /\ Main \notin Others
    /\ None \notin Goroutines \cup Vars
    /\ Eager \subseteq Vars
    /\ Deferred \subseteq Eager
    /\ MaxDepth \in Nat

VARIABLES
    shared,        \* EvalLock.shared
    mu,            \* the goroutine that locked EvalLock.mu, or None
    owner,         \* EvalLock.owner
    evaluating,    \* EvalLock.evaluating
    off,           \* Locals.off: the stack of locals is suspended or closed
    state,         \* LazyVar.state of every global
    kept,          \* the globals whose failure evalGlobals keeps
    primed,        \* the eager globals evalGlobals has evaluated
    phase,         \* how far Main's transform has come
    escaped,       \* a value that reaches the runtime has left Main
    stack,         \* the frames of every goroutine, the innermost last
    pc,            \* where in a Lock or an Unlock a goroutine is
    want           \* the frame a goroutine takes the lock for

lockVars == <<shared, mu, owner, evaluating>>
varVars == <<state, kept, primed, phase>>
vars == <<shared, mu, owner, evaluating, off, state, kept, primed, phase,
          escaped, stack, pc, want>>

-----------------------------------------------------------------------------
(* Frames. "rel" says the frame's end lets the lock go (for host code:      *)
(* takes it back); "ev" and "susp" are what a yield saved; "off" is the     *)
(* state of the locals when the frame began; "bad" an error met in it;      *)
(* "join" that host code waits for the goroutines it started.               *)

Kinds == {"eval", "call", "get", "force", "host"}

Frame ==
    {f \in [k : Kinds, v : Vars \cup {None}, rel : BOOLEAN, ev : BOOLEAN,
            susp : BOOLEAN, off : BOOLEAN, bad : BOOLEAN, join : BOOLEAN] :
        f.k \in {"get", "force"} => f.v \in Vars}

NewFrame(k, v) ==
    [k |-> k, v |-> v, rel |-> FALSE, ev |-> FALSE, susp |-> FALSE,
     off |-> FALSE, bad |-> FALSE, join |-> FALSE]

HostFrame(rel, ev, susp, join) ==
    [k |-> "host", v |-> None, rel |-> rel, ev |-> ev, susp |-> susp,
     off |-> FALSE, bad |-> FALSE, join |-> join]

Depth(g) == Len(stack[g])
Top(g) == stack[g][Depth(g)]
Pushed(g, f) == Append(stack[g], f)
Popped(g) == SubSeq(stack[g], 1, Depth(g) - 1)

Idle(g) == pc[g] = "run" /\ stack[g] = <<>>
InHost(g) == pc[g] = "run" /\ stack[g] # <<>> /\ Top(g).k = "host"
Uses(g) == pc[g] = "run" /\ stack[g] # <<>> /\ Top(g).k # "host"

\* g is in the middle of evaluating something, free to call and to read.
Acts(g) ==
    /\ Uses(g)
    /\ ~Top(g).bad
    /\ \/ Top(g).k \in {"call", "force"}
       \/ Top(g).k = "eval" /\ phase = "body"

\* The frames below the innermost one of g.  The error that one ends with, if
\* any, is raised in the frame it returns to when that is of one of the given
\* kinds.
Below(g, raised) ==
    LET s == Popped(g)
    IN  IF s # <<>> /\ s[Len(s)].k \in raised
        THEN [s EXCEPT ![Len(s)].bad = TRUE]
        ELSE s

TypeOK ==
    /\ shared \in BOOLEAN
    /\ mu \in Goroutines \cup {None}
    /\ owner \in Goroutines \cup {None}
    /\ evaluating \in BOOLEAN
    /\ off \in BOOLEAN
    /\ state \in [Vars -> {"pending", "running", "done", "unbound"}]
    /\ kept \in SUBSET Vars
    /\ primed \in SUBSET Eager
    /\ phase \in {"globals", "body", "ended", "failed"}
    /\ escaped \in BOOLEAN
    /\ stack \in [Goroutines -> Seq(Frame)]
    /\ pc \in [Goroutines -> {"run", "lock", "locked", "unlock"}]
    /\ want \in [Goroutines -> Frame]

NoWant == NewFrame("host", None)

\* newRuntime on Main, before it evaluates the eager globals.
Init ==
    /\ shared = FALSE
    /\ mu = None
    /\ owner = None
    /\ evaluating = FALSE
    /\ off = FALSE
    /\ state = [v \in Vars |-> "pending"]
    /\ kept = {}
    /\ primed = {}
    /\ phase = "globals"
    /\ escaped = FALSE
    /\ stack = [g \in Goroutines |->
                  IF g = Main THEN <<NewFrame("eval", None)>> ELSE <<>>]
    /\ pc = [g \in Goroutines |-> "run"]
    /\ want = [g \in Goroutines |-> NoWant]

-----------------------------------------------------------------------------
(* Taking and letting go of the lock.                                       *)

LockIf(g, f, needed) ==
    IF needed
    THEN /\ pc' = [pc EXCEPT ![g] = "lock"]
         /\ want' = [want EXCEPT ![g] = [f EXCEPT !.rel = TRUE]]
         /\ UNCHANGED stack
    ELSE /\ stack' = [stack EXCEPT ![g] = Pushed(g, [f EXCEPT !.off = off])]
         /\ UNCHANGED <<pc, want>>

\* Mutants: the owner is only compared with none; the lock is not re-entrant.
LockIfUnowned(g, f) == LockIf(g, f, shared /\ owner = None)
LockNotReentrant(g, f) == LockIf(g, f, shared)

\* EvalLock.Lock, for what frame f is: nothing to take when the lock is not
\* shared or g owns it already.
Lock(g, f) == LockIf(g, f, shared /\ owner # g)

\* mu.Lock returns.
Acquire(g) ==
    /\ pc[g] = "lock"
    /\ mu = None
    /\ mu' = g
    /\ pc' = [pc EXCEPT ![g] = "locked"]
    /\ UNCHANGED <<shared, owner, evaluating, off, varVars, escaped, stack, want>>

\* The owner is stored, and the frame the lock was taken for begins; a yield
\* that is resumed restores what it saved instead.
TakeOwner(g) ==
    /\ pc[g] = "locked"
    /\ owner' = g
    /\ pc' = [pc EXCEPT ![g] = "run"]
    /\ want' = [want EXCEPT ![g] = NoWant]
    /\ IF want[g].k = "host"
       THEN /\ evaluating' = want[g].ev
            /\ off' = (off /\ ~want[g].susp)
            /\ stack' = [stack EXCEPT ![g] = Popped(g)]
       ELSE /\ stack' = [stack EXCEPT
                            ![g] = Pushed(g, [want[g] EXCEPT !.off = off])]
            /\ UNCHANGED <<evaluating, off>>
    /\ UNCHANGED <<shared, mu, varVars, escaped>>

\* The first half of a release: the owner is cleared before mu is unlocked.
LetGo(g) ==
    /\ owner' = None
    /\ pc' = [pc EXCEPT ![g] = "unlock"]

Unlock(g) ==
    /\ pc[g] = "unlock"
    /\ mu' = None
    /\ pc' = [pc EXCEPT ![g] = "run"]
    /\ UNCHANGED <<shared, owner, evaluating, off, varVars, escaped, stack, want>>

\* The end of the innermost frame of g, whose deferred release runs.
Return(g, raised) ==
    /\ stack' = [stack EXCEPT ![g] = Below(g, raised)]
    /\ IF Top(g).rel THEN LetGo(g) ELSE UNCHANGED <<owner, pc>>
    /\ UNCHANGED <<shared, mu, evaluating, off, escaped, want>>

-----------------------------------------------------------------------------
(* Function items and evaluations with a foreign context.                   *)

\* A function item is called, or an expression evaluated with a context the
\* host was handed (enterHost, evalForeign).  An evaluation that calls an
\* item owns the lock if it is shared, so skipping Lock and taking it come to
\* the same there.
CallItem(g) ==
    /\ Acts(g) \/ InHost(g) \/ (Idle(g) /\ escaped)
    /\ Depth(g) < MaxDepth
    /\ Lock(g, NewFrame("call", None))
    /\ UNCHANGED <<lockVars, off, varVars, escaped>>

CallReturn(g) ==
    /\ Uses(g)
    /\ Top(g).k = "call"
    /\ Return(g, {})
    /\ UNCHANGED varVars

-----------------------------------------------------------------------------
(* Lazy variables.                                                          *)

\* Mutant: the frame does not know its variable.
ReadUnnamed(g, v) ==
    /\ Acts(g) \/ InHost(g) \/ (Idle(g) /\ escaped)
    /\ state[v] # "done"
    /\ Depth(g) < MaxDepth
    /\ Lock(g, NewFrame("get", None))
    /\ UNCHANGED <<lockVars, off, varVars, escaped>>

\* A reference to a variable no goroutine has evaluated, in an expression or
\* by the host's Context.LookupVar: LazyVar.get.  One that finds lazyDone reads
\* the value and changes nothing.
ReadVar(g, v) ==
    /\ Acts(g) \/ InHost(g) \/ (Idle(g) /\ escaped)
    /\ state[v] # "done"
    /\ Depth(g) < MaxDepth
    /\ Lock(g, NewFrame("get", v))
    /\ UNCHANGED <<lockVars, off, varVars, escaped>>

GetVarBy(g, answered, missing, forced) ==
    /\ Uses(g)
    /\ Top(g).k = "get"
    /\ LET v == Top(g).v
       IN  \/ /\ state[v] \in answered
              /\ Return(g, {})
              /\ UNCHANGED varVars
           \/ /\ state[v] \in missing
              /\ Return(g, {"force"})
              /\ UNCHANGED varVars
           \/ /\ state[v] \in forced
              /\ state' = [state EXCEPT ![v] = "running"]
              /\ stack' = [stack EXCEPT
                    ![g][Depth(g)] = [Top(g) EXCEPT !.k = "force",
                                                    !.bad = (v \in kept)]]
              /\ UNCHANGED <<lockVars, off, kept, primed, phase, escaped, pc, want>>

\* Mutants: the state is not looked at again under the lock; a variable that
\* is being forced is forced again.
GetVarUnchecked(g) == GetVarBy(g, {}, {"running", "unbound"}, {"pending", "done"})
GetVarForcedTwice(g) == GetVarBy(g, {"done"}, {"unbound"}, {"pending", "running"})

\* What get does with the state it finds once it has the lock: a variable
\* that is evaluated answers, one that is running or unbound is not in
\* scope, and a pending one is forced.  evalGlobals' force answers a kept
\* failure at once.
GetVar(g) == GetVarBy(g, {"done"}, {"running", "unbound"}, {"pending"})

ForceOk(g) ==
    /\ Uses(g)
    /\ Top(g).k = "force"
    /\ ~Top(g).bad
    /\ state' = [state EXCEPT ![Top(g).v] = "done"]
    /\ Return(g, {})
    /\ UNCHANGED <<kept, primed, phase>>

\* A failed force leaves the variable pending; evalGlobals keeps the error,
\* which fails the global that needed the value, and the priming of one.  The
\* body and a function item may catch what they meet.
ForceFail(g) ==
    /\ Uses(g)
    /\ Top(g).k = "force"
    /\ Top(g).bad \/ Top(g).v \in Fallible
    /\ state' = [state EXCEPT ![Top(g).v] = "pending"]
    /\ kept' = kept \cup {Top(g).v}
    /\ Return(g, IF phase = "globals" THEN {"eval", "force"} ELSE {"force"})
    /\ UNCHANGED <<primed, phase>>

-----------------------------------------------------------------------------
(* The transform.                                                           *)

\* Main is in newRuntime, evaluating no global.
InGlobals ==
    /\ Uses(Main)
    /\ phase = "globals"
    /\ Depth(Main) = 1

\* evalGlobals reads the next eager global.  LazyVar.get's Lock has nothing to
\* take, since Main owns the lock here if it is shared.
Prime(v) ==
    /\ InGlobals
    /\ ~Top(Main).bad
    /\ v \in Eager \ primed
    /\ 1 < MaxDepth
    /\ primed' = primed \cup {v}
    /\ IF state[v] = "done"
       THEN UNCHANGED stack
       ELSE stack' = [stack EXCEPT ![Main] =
               <<[Top(Main) EXCEPT !.v = v], [NewFrame("get", v) EXCEPT !.off = off]>>]
    /\ UNCHANGED <<lockVars, off, state, kept, phase, escaped, pc, want>>

\* A deferred global failed: it is taken out of scope.  Unbind's Lock has
\* nothing to take, since Main owns the lock here if it is shared.
Unbind(v) ==
    /\ InGlobals
    /\ Top(Main).bad
    /\ Top(Main).v = v
    /\ v \in Deferred
    /\ state' = [state EXCEPT ![v] = "unbound"]
    /\ stack' = [stack EXCEPT ![Main][1].bad = FALSE]
    /\ UNCHANGED <<lockVars, off, kept, primed, phase, escaped, pc, want>>

\* An eager global failed: newRuntime returns the error, before Transform has
\* deferred Share and finishLocals.
GlobalsFail ==
    /\ InGlobals
    /\ Top(Main).bad
    /\ Top(Main).v \notin Deferred
    /\ stack' = [stack EXCEPT ![Main] = <<>>]
    /\ phase' = "failed"
    /\ UNCHANGED <<lockVars, off, state, kept, primed, escaped, pc, want>>

BeginBody ==
    /\ InGlobals
    /\ ~Top(Main).bad
    /\ primed = Eager
    /\ phase' = "body"
    /\ UNCHANGED <<lockVars, off, state, kept, primed, escaped, stack, pc, want>>

\* Mutant: a lock that a host call has shared is not let go.
ShareOnce ==
    /\ shared' = TRUE
    /\ UNCHANGED <<owner, evaluating, pc>>

\* EvalLock.Share on Main.
Share ==
    IF ~shared
    THEN /\ shared' = TRUE
         /\ UNCHANGED <<owner, evaluating, pc>>
    ELSE /\ IF owner = Main /\ evaluating
            THEN evaluating' = FALSE /\ LetGo(Main)
            ELSE UNCHANGED <<owner, evaluating, pc>>
         /\ UNCHANGED shared

\* The transform returns, with a result or an error: finishLocals closes the
\* stack of locals, then Share lets the runtime go.
EndTransform ==
    /\ Uses(Main)
    /\ phase = "body"
    /\ Depth(Main) = 1
    /\ Top(Main).k = "eval"
    /\ off' = TRUE
    /\ Share
    /\ phase' = "ended"
    /\ escaped' = TRUE
    /\ stack' = [stack EXCEPT ![Main] = <<>>]
    /\ UNCHANGED <<mu, state, kept, primed, want>>

-----------------------------------------------------------------------------
(* Host code.                                                               *)

\* Evaluation on g runs host code, to which something that reaches the
\* runtime escapes; susp says the locals are hidden meanwhile, letGo that the
\* lock is let go, and takeBack that it is taken when host code returns.
HostRun(g, join, takeBack, susp, letGo) ==
    /\ Acts(g)
    /\ Depth(g) < MaxDepth
    /\ stack' = [stack EXCEPT ![g] = Pushed(g,
                    HostFrame(takeBack, shared => evaluating, susp, join))]
    /\ shared' = TRUE
    /\ escaped' = TRUE
    /\ off' = (off \/ susp)
    /\ IF letGo
       THEN evaluating' = FALSE /\ LetGo(g)
       ELSE UNCHANGED <<evaluating, owner, pc>>
    /\ UNCHANGED <<mu, varVars, want>>

\* g holds the shared lock; g is evaluating with the locals.
Mine(g) == shared /\ owner = g
Local(g) == shared => Mine(g) /\ evaluating

\* Mutants: the first call does not make the evaluation hold the lock; the
\* locals are hidden by the first call only; the lock is kept for the call.
HostCallNotTaken(g, join) ==
    HostRun(g, join, Mine(g), ~off /\ Local(g), Mine(g))
HostCallLocalsOn(g, join) ==
    HostRun(g, join, ~shared \/ Mine(g), ~off /\ ~shared, Mine(g))
HostCallKept(g, join) ==
    HostRun(g, join, ~shared, ~off /\ Local(g), FALSE)

\* hostCall: the lock, which the first call shares, is let go for the call.
HostCall(g, join) ==
    HostRun(g, join, ~shared \/ Mine(g), ~off /\ Local(g), Mine(g))

\* Host code returns, once the goroutines it waits for, if any, are done; the
\* evaluation that called it takes the lock back.
HostReturn(g) ==
    /\ InHost(g)
    /\ Top(g).join => \A h \in Goroutines \ {g} : Idle(h)
    /\ IF Top(g).rel
       THEN /\ pc' = [pc EXCEPT ![g] = "lock"]
            /\ want' = [want EXCEPT ![g] = Top(g)]
            /\ UNCHANGED stack
       ELSE /\ stack' = [stack EXCEPT ![g] = Popped(g)]
            /\ UNCHANGED <<pc, want>>
    /\ UNCHANGED <<lockVars, off, varVars, escaped>>

-----------------------------------------------------------------------------
Step(g) ==
    \/ CallItem(g)
    \/ CallReturn(g)
    \/ \E v \in Vars : ReadVar(g, v)
    \/ GetVar(g)
    \/ ForceOk(g)
    \/ ForceFail(g)
    \/ HostCall(g, FALSE)
    \/ HostReturn(g)
    \/ Acquire(g)
    \/ TakeOwner(g)
    \/ Unlock(g)

\* Only the host code the transform itself calls waits for other goroutines:
\* two that wait for each other would be the host's deadlock.
MainStep ==
    \/ HostCall(Main, TRUE)
    \/ \E v \in Vars : Prime(v) \/ Unbind(v)
    \/ GlobalsFail
    \/ BeginBody
    \/ EndTransform

Next == MainStep \/ \E g \in Goroutines : Step(g)

Spec == Init /\ [][Next]_vars

\* The end of the innermost frame of g.
Finish(g) ==
    \/ CallReturn(g)
    \/ GetVar(g)
    \/ ForceOk(g)
    \/ ForceFail(g)
    \/ HostReturn(g)
    \/ (g = Main /\ (GlobalsFail \/ EndTransform))

\* Every evaluation and every host call ends, whatever it calls meanwhile;
\* the scheduler runs every goroutine; and sync.Mutex hands the lock to a
\* goroutine that has waited a millisecond before any that comes later, so
\* none waits forever for a lock that is let go again and again.
Fairness ==
    /\ \A g \in Goroutines :
          /\ SF_vars(Acquire(g))
          /\ WF_vars(TakeOwner(g) \/ Unlock(g))
          /\ \A d \in 1..MaxDepth : SF_vars(Depth(g) = d /\ Finish(g))
    /\ WF_vars(BeginBody \/ \E v \in Vars : Prime(v) \/ Unbind(v))

FairSpec == Spec /\ Fairness

-----------------------------------------------------------------------------
(* Properties.                                                              *)

\* Two goroutines never use the runtime at once, whoever called what in which
\* order: "a host's state ... must not reach from two goroutines at once".
OneEvaluator ==
    \A g, h \in Goroutines : Uses(g) /\ Uses(h) => g = h

\* Every frame finds the stack of locals on or off as it was when the frame
\* began: what localsMark and enterFrame noted is taken back from the stack it
\* was noted on, however often the lock changed hands in between.  Only the
\* transform's own goroutine ever finds it on.
LocalsConfined ==
    \A g \in Goroutines : Uses(g) =>
        /\ off = Top(g).off
        /\ ~off => g = Main

\* A variable is running exactly while one goroutine has one force of it
\* unfinished, so that no second evaluation of it can begin.
ForceFrames(v) ==
    {p \in Goroutines \X (1..MaxDepth) :
        /\ p[2] <= Depth(p[1])
        /\ stack[p[1]][p[2]].k = "force"
        /\ stack[p[1]][p[2]].v = v}

ForcedByOne ==
    \A v \in Vars :
        IF state[v] = "running"
        THEN \E p \in ForceFrames(v) : ForceFrames(v) = {p}
        ELSE ForceFrames(v) = {}

\* Host code, and a goroutine that is done, hold no lock another goroutine
\* could need, unless newRuntime failed.
HostHoldsNothing ==
    \A g \in Goroutines :
        InHost(g) \/ (Idle(g) /\ phase # "failed") => mu # g /\ owner # g

\* The lock is free once the transform has returned, whether it returned a
\* result or an error, and stays free unless a call takes it.
FreeAfterReturn ==
    phase \in {"ended", "failed"} /\ (\A g \in Goroutines : Idle(g)) => mu = None

\* A variable that has a value keeps it, and one that was unbound stays out of
\* scope, even when a force of it was running meanwhile.
Settled ==
    [][\A v \in Vars :
          state[v] \in {"done", "unbound"} => state'[v] = state[v]]_vars

\* Every call and every reference that waits for the lock gets it, and what
\* the host waits for is done some day.
Served ==
    \A g \in Goroutines : pc[g] = "lock" ~> pc[g] # "lock"

\* The lock implements one-at-a-time use of the runtime: the goroutine whose
\* innermost frame evaluates is the user, and between two users there is none.
user == IF \E g \in Goroutines : Uses(g)
        THEN CHOOSE g \in Goroutines : Uses(g)
        ELSE None

Serial == INSTANCE SerialEval WITH
    user <- user, gone <- escaped, settled <- {v \in Vars : state[v] = "done"}

SerialSpec == Serial!Spec

=============================================================================
