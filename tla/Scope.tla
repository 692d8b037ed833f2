------------------------------- MODULE Scope -------------------------------
(***************************************************************************)
(* The scope of package scoped: spawning, admission through the            *)
(* concurrency limit, execution with panic recovery, error recording under *)
(* the two policies, cancellation, and finalization by Run, Wait and       *)
(* WaitTimeout.                                                            *)
(*                                                                         *)
(* Every task is a goroutine with a program counter; the waiters are the   *)
(* goroutines that finalize the scope.  A step of the model is one access  *)
(* to shared state: a critical section of a mutex, one operation on an     *)
(* atomic, the WaitGroup, the context or the semaphore channel.  What a    *)
(* task's function does is not modelled, only how it ends.  WithOnEvent    *)
(* and WithTaskTracking are on, so that their state is there to check.     *)
(***************************************************************************)
EXTENDS Integers, FiniteSets, Sequences

CONSTANTS
    Tasks,        \* the calls of Go and Spawn the program may make
    Nesting,      \* those made with Spawn: the task gets a child Spawner
    Waiters,      \* the goroutines that finalize the scope
    Configs,      \* the configurations a scope may be created with
    Root,         \* the root Spawner
    NoTask        \* no error has been stored in firstErr

\* The fields of config that matter here; zero is unlimited.  Manual tells
\* New followed by Wait or WaitTimeout from Run.
Config == [policy : {"FailFast", "Collect"}, limit : Nat, maxErrors : Nat,
           panicAsErr : BOOLEAN, manual : BOOLEAN]

ASSUME ScopeAssumption ==
    /\ IsFiniteSet(Tasks)
    /\ Nesting \subseteq Tasks
    /\ Configs \subseteq Config
    /\ Root \notin Tasks
    /\ NoTask \notin Tasks

VARIABLES
    cfg,          \* s.cfg, which never changes
    open,         \* the Spawners that accept calls: Root, or the task it was given to
    pc,           \* where each task's goroutine is
    wg,           \* the counter of s.wg
    active,       \* s.activeTasks
    sem,          \* the number of elements in the channel s.sem
    running,      \* s.runningTasks
    cause,        \* why s.ctx is cancelled, or "none"
    outcome,      \* how each task's function ended
    firstErr,     \* the task whose error is in s.firstErr, or NoTask
    errs,         \* the tasks whose errors are in s.errs
    dropped,      \* s.droppedErrors
    panics,       \* the tasks whose panics are in s.panics
    events,       \* the kinds of event reported for each task
    tally,        \* the counters completed, errored, panicked and cancelled
    phase,        \* how far finalization has come
    wasCancelled, \* finalize's local ctxWasCancelled
    finErr,       \* what s.finErr holds
    finPanic,     \* has s.finPanic been set?
    caller,       \* what each waiter is doing
    ret           \* what the last call of each waiter returned

joinVars == <<open, wg, active>>
slotVars == <<sem, running>>
errVars  == <<firstErr, errs, dropped, panics>>
logVars  == <<events, tally>>
finVars  == <<phase, wasCancelled, finErr, finPanic>>
waitVars == <<caller, ret>>

vars == <<cfg, pc, joinVars, slotVars, cause, outcome, errVars, logVars, finVars, waitVars>>

-----------------------------------------------------------------------------

EventKinds == {"started", "done", "errored", "panicked", "cancelled"}

\* Places of a goroutine before its function has ended, ...
Before == {"admit", "check", "running"}
\* ... between the end of the function and its deferred calls, ...
After == {"panicked", "closing", "emitting", "recording", "cancelling"}
\* ... and its deferred calls, in the order they run.
Deferred == {"unregister", "release", "wgdone"}

LivePC == Before \cup After \cup Deferred
PCs == LivePC \cup {"unspawned", "deactivate", "gone"}

\* A goroutine that has sent on s.sem and not yet received from it.
HoldsSlot == LivePC \ {"admit", "wgdone"}

At(places) == {t \in Tasks : pc[t] \in places}
Live == At(LivePC)
Holders == At(HoldsSlot)
Listed == At(HoldsSlot \ {"release"})
Unfinished == At(LivePC \cup {"deactivate"})
Spawned == {t \in Tasks : pc[t] # "unspawned"}

Cancelled == cause # "none"
Settled == phase \in {"settling", "done"}

\* The error exec returns for t is not nil.
Failed(t) == outcome[t] = "err" \/ (outcome[t] = "panic" /\ cfg.panicAsErr)

\* Only the first cancellation of a context sets its cause.
CancelWith(c) == cause' = IF Cancelled THEN cause ELSE c

Goto(t, from, to) == pc[t] = from /\ pc' = [pc EXCEPT ![t] = to]

Init ==
    /\ cfg \in Configs
    /\ open = {Root}
    /\ pc = [t \in Tasks |-> "unspawned"]
    /\ wg = 0
    /\ active = 0
    /\ sem = 0
    /\ running = {}
    /\ cause = "none"
    /\ outcome = [t \in Tasks |-> "none"]
    /\ firstErr = NoTask
    /\ errs = {}
    /\ dropped = 0
    /\ panics = {}
    /\ events = [t \in Tasks |-> <<>>]
    /\ tally = [k \in EventKinds \ {"started"} |-> 0]
    /\ phase = "open"
    /\ wasCancelled = FALSE
    /\ finErr = "unset"
    /\ finPanic = FALSE
    /\ caller = [w \in Waiters |-> "idle"]
    /\ ret = [w \in Waiters |-> "none"]

-----------------------------------------------------------------------------
(* Spawning and admission *)

\* Mutation of BeginTask: sp.open is tested before sp.mu is taken.
BeginUnlocked(sp, t) ==
    /\ Goto(t, "unspawned", "admit")
    /\ wg' = wg + 1
    /\ active' = active + 1
    /\ UNCHANGED <<cfg, open, slotVars, cause, outcome, errVars, logVars, finVars, waitVars>>

\* Go or Spawn on the Spawner sp: the check of sp.open and wg.Add are one
\* critical section of sp.mu.  A call on a closed Spawner panics and changes
\* nothing.
BeginTask(sp, t) ==
    /\ sp \in open
    /\ Goto(t, "unspawned", "admit")
    /\ wg' = wg + 1
    /\ active' = active + 1
    /\ UNCHANGED <<cfg, open, slotVars, cause, outcome, errVars, logVars, finVars, waitVars>>

\* Mutation of Acquire: a channel with room for one more.
AcquireOneMore(t) ==
    /\ Goto(t, "admit", "check")
    /\ IF cfg.limit > 0 THEN sem <= cfg.limit /\ sem' = sem + 1 ELSE sem' = sem
    /\ running' = running \cup {t}
    /\ UNCHANGED <<cfg, joinVars, cause, outcome, errVars, logVars, finVars, waitVars>>

\* The send on s.sem, when there is one, and registerTask.
Acquire(t) ==
    /\ Goto(t, "admit", "check")
    /\ IF cfg.limit > 0 THEN sem < cfg.limit /\ sem' = sem + 1 ELSE sem' = sem
    /\ running' = running \cup {t}
    /\ UNCHANGED <<cfg, joinVars, cause, outcome, errVars, logVars, finVars, waitVars>>

\* The other branch of the select: the context is cancelled while the task
\* waits for a slot.  Nothing is reported and nothing is recorded.
AbandonAdmission(t) ==
    /\ cfg.limit > 0
    /\ Cancelled
    /\ Goto(t, "admit", "wgdone")
    /\ UNCHANGED <<cfg, joinVars, slotVars, cause, outcome, errVars, logVars, finVars, waitVars>>

\* Mutation of SkipCancelled: the task returns before wg.Done is deferred.
SkipUndeferred(t) ==
    /\ Cancelled
    /\ Goto(t, "check", "gone")
    /\ events' = [events EXCEPT ![t] = Append(@, "cancelled")]
    /\ UNCHANGED <<cfg, joinVars, slotVars, cause, outcome, errVars, tally, finVars, waitVars>>

SkipCancelled(t) ==
    /\ Cancelled
    /\ Goto(t, "check", "unregister")
    /\ events' = [events EXCEPT ![t] = Append(@, "cancelled")]
    /\ UNCHANGED <<cfg, joinVars, slotVars, cause, outcome, errVars, tally, finVars, waitVars>>

Start(t) ==
    /\ ~Cancelled
    /\ Goto(t, "check", "running")
    /\ open' = IF t \in Nesting THEN open \cup {t} ELSE open
    /\ events' = [events EXCEPT ![t] = Append(@, "started")]
    /\ UNCHANGED <<cfg, wg, active, slotVars, cause, outcome, errVars, tally, finVars, waitVars>>

-----------------------------------------------------------------------------
(* Execution *)

AfterExec(t) == IF t \in Nesting THEN "closing" ELSE "emitting"

FnReturns(t, o) ==
    /\ Goto(t, "running", AfterExec(t))
    /\ outcome' = [outcome EXCEPT ![t] = o]
    /\ UNCHANGED <<cfg, joinVars, slotVars, cause, errVars, logVars, finVars, waitVars>>

\* exec recovers a panic: with WithPanicAsError it becomes the task's error;
\* without, it is kept in s.panics and the error stays nil.
FnPanics(t) ==
    /\ Goto(t, "running", IF cfg.panicAsErr THEN AfterExec(t) ELSE "panicked")
    /\ outcome' = [outcome EXCEPT ![t] = "panic"]
    /\ panics' = IF cfg.panicAsErr THEN panics ELSE panics \cup {t}
    /\ UNCHANGED <<cfg, joinVars, slotVars, cause, firstErr, errs, dropped, logVars, finVars, waitVars>>

CancelOnPanic(t) ==
    /\ Goto(t, "panicked", AfterExec(t))
    /\ CancelWith("panic")
    /\ UNCHANGED <<cfg, joinVars, slotVars, outcome, errVars, logVars, finVars, waitVars>>

\* Mutation of CloseChild: child.close() is forgotten.
CloseForgotten(t) ==
    /\ Goto(t, "closing", "emitting")
    /\ UNCHANGED <<cfg, joinVars, slotVars, cause, outcome, errVars, logVars, finVars, waitVars>>

CloseChild(t) ==
    /\ Goto(t, "closing", "emitting")
    /\ open' = open \ {t}
    /\ UNCHANGED <<cfg, wg, active, slotVars, cause, outcome, errVars, logVars, finVars, waitVars>>

\* The switch of emitCompletionEvent, in its order.
CompletionKind(t) ==
    IF ~Failed(t) THEN "done"
    ELSE IF outcome[t] = "panic" THEN "panicked"
    ELSE IF Cancelled THEN "cancelled"
    ELSE "errored"

\* Mutation of EmitCompletion: cancelled tasks are reported but not counted.
EmitUncounted(t) ==
    /\ Goto(t, "emitting", IF Failed(t) THEN "recording" ELSE "unregister")
    /\ events' = [events EXCEPT ![t] = Append(@, CompletionKind(t))]
    /\ tally' = IF CompletionKind(t) = "cancelled" THEN tally
                ELSE [tally EXCEPT ![CompletionKind(t)] = @ + 1]
    /\ UNCHANGED <<cfg, joinVars, slotVars, cause, outcome, errVars, finVars, waitVars>>

EmitCompletion(t) ==
    /\ Goto(t, "emitting", IF Failed(t) THEN "recording" ELSE "unregister")
    /\ events' = [events EXCEPT ![t] = Append(@, CompletionKind(t))]
    /\ tally' = [tally EXCEPT ![CompletionKind(t)] = @ + 1]
    /\ UNCHANGED <<cfg, joinVars, slotVars, cause, outcome, errVars, finVars, waitVars>>

-----------------------------------------------------------------------------
(* Recording an error: recordError *)

\* Mutation of RecordFirst: the siblings are not cancelled.
RecordAlone(t) ==
    /\ cfg.policy = "FailFast"
    /\ firstErr = NoTask
    /\ Goto(t, "recording", "unregister")
    /\ firstErr' = t
    /\ UNCHANGED <<cfg, joinVars, slotVars, cause, outcome, errs, dropped, panics, logVars, finVars, waitVars>>

\* The first caller of errOnce.Do stores its error, ...
RecordFirst(t) ==
    /\ cfg.policy = "FailFast"
    /\ firstErr = NoTask
    /\ Goto(t, "recording", "cancelling")
    /\ firstErr' = t
    /\ UNCHANGED <<cfg, joinVars, slotVars, cause, outcome, errs, dropped, panics, logVars, finVars, waitVars>>

\* ... then cancels its siblings, ...
CancelSiblings(t) ==
    /\ Goto(t, "cancelling", "unregister")
    /\ CancelWith("task")
    /\ UNCHANGED <<cfg, joinVars, slotVars, outcome, errVars, logVars, finVars, waitVars>>

\* Mutation of RecordLater: without errOnce the last error wins.
RecordLast(t) ==
    /\ cfg.policy = "FailFast"
    /\ firstErr # NoTask
    /\ pc[firstErr] # "cancelling"
    /\ Goto(t, "recording", "unregister")
    /\ firstErr' = t
    /\ UNCHANGED <<cfg, joinVars, slotVars, cause, outcome, errs, dropped, panics, logVars, finVars, waitVars>>

\* ... and every other caller waits for the first to be through.
RecordLater(t) ==
    /\ cfg.policy = "FailFast"
    /\ firstErr # NoTask
    /\ pc[firstErr] # "cancelling"
    /\ Goto(t, "recording", "unregister")
    /\ UNCHANGED <<cfg, joinVars, slotVars, cause, outcome, errVars, logVars, finVars, waitVars>>

\* Mutation of ErrorsFull: off by one.
ErrorsOverfull == cfg.maxErrors > 0 /\ Cardinality(errs) > cfg.maxErrors

ErrorsFull == cfg.maxErrors > 0 /\ Cardinality(errs) >= cfg.maxErrors

RecordCollect(t) ==
    /\ cfg.policy = "Collect"
    /\ Goto(t, "recording", "unregister")
    /\ IF ErrorsFull
         THEN dropped' = dropped + 1 /\ errs' = errs
         ELSE errs' = errs \cup {t} /\ dropped' = dropped
    /\ UNCHANGED <<cfg, joinVars, slotVars, cause, outcome, firstErr, panics, logVars, finVars, waitVars>>

-----------------------------------------------------------------------------
(* The deferred calls of the goroutine, last deferred first *)

Unregister(t) ==
    /\ Goto(t, "unregister", IF cfg.limit > 0 THEN "release" ELSE "wgdone")
    /\ running' = running \ {t}
    /\ UNCHANGED <<cfg, joinVars, sem, cause, outcome, errVars, logVars, finVars, waitVars>>

ReleaseSlot(t) ==
    /\ Goto(t, "release", "wgdone")
    /\ sem' = sem - 1
    /\ UNCHANGED <<cfg, joinVars, running, cause, outcome, errVars, logVars, finVars, waitVars>>

WgDone(t) ==
    /\ Goto(t, "wgdone", "deactivate")
    /\ wg' = wg - 1
    /\ UNCHANGED <<cfg, open, active, slotVars, cause, outcome, errVars, logVars, finVars, waitVars>>

Deactivate(t) ==
    /\ Goto(t, "deactivate", "gone")
    /\ active' = active - 1
    /\ UNCHANGED <<cfg, open, wg, slotVars, cause, outcome, errVars, logVars, finVars, waitVars>>

-----------------------------------------------------------------------------
(* Cancellation from outside *)

\* The context given to Run or New is cancelled or expires.
ParentCancel ==
    /\ ~Cancelled
    /\ CancelWith("parent")
    /\ UNCHANGED <<cfg, pc, joinVars, slotVars, outcome, errVars, logVars, finVars, waitVars>>

UserCancel ==
    /\ cfg.manual
    /\ ~Cancelled
    /\ CancelWith("user")
    /\ UNCHANGED <<cfg, pc, joinVars, slotVars, outcome, errVars, logVars, finVars, waitVars>>

-----------------------------------------------------------------------------
(* Finalization *)

\* A waiter calls Wait ("wait") or WaitTimeout ("timed"), which leaves
\* doFinalize to a goroutine of its own; or Run's callback ends, by returning
\* ("run") or by panicking ("runpanic"), which happens once.
Calls == IF cfg.manual THEN {"wait", "timed"} ELSE {"run", "runpanic"}

Call(w, how) ==
    /\ how \in Calls
    /\ caller[w] = "idle"
    /\ cfg.manual \/ phase = "open"
    /\ caller' = [caller EXCEPT ![w] = how]
    /\ phase' = IF phase = "open" THEN "called" ELSE phase
    /\ UNCHANGED <<cfg, pc, joinVars, slotVars, cause, outcome, errVars, logVars, wasCancelled, finErr, finPanic, ret>>

\* Mutation of EnterOnce: finalization without finOnce, again for a later call.
EnterAgain ==
    /\ phase \in {"called", "done"}
    /\ phase' = "joining"
    /\ open' = open \ {Root}
    /\ UNCHANGED <<cfg, pc, wg, active, slotVars, cause, outcome, errVars, logVars, wasCancelled, finErr, finPanic, waitVars>>

\* The one caller that gets through the once closes the root Spawner.
EnterOnce ==
    /\ phase = "called"
    /\ phase' = "joining"
    /\ open' = open \ {Root}
    /\ UNCHANGED <<cfg, pc, wg, active, slotVars, cause, outcome, errVars, logVars, wasCancelled, finErr, finPanic, waitVars>>

\* Mutation of Join: a cancelled scope does not wait for its tasks.
JoinImpatient ==
    /\ phase = "joining"
    /\ wg = 0 \/ Cancelled
    /\ phase' = "settling"
    /\ wasCancelled' = Cancelled
    /\ UNCHANGED <<cfg, pc, joinVars, slotVars, cause, outcome, errVars, logVars, finErr, finPanic, waitVars>>

\* wg.Wait returns, and ctxWasCancelled is read.
Join ==
    /\ phase = "joining"
    /\ wg = 0
    /\ phase' = "settling"
    /\ wasCancelled' = Cancelled
    /\ UNCHANGED <<cfg, pc, joinVars, slotVars, cause, outcome, errVars, logVars, finErr, finPanic, waitVars>>

Recorded == IF cfg.policy = "FailFast" THEN firstErr # NoTask ELSE errs # {}

\* Mutation of Verdict: the error of the context is not consulted.
VerdictOfErrors == IF Recorded THEN "errs" ELSE "nil"

\* Mutation of Verdict: it is consulted after the scope's own cancel.
VerdictAfterCancel == IF Recorded THEN "errs" ELSE "ctx"

Verdict == IF Recorded THEN "errs" ELSE IF wasCancelled THEN "ctx" ELSE "nil"

\* The rest of finalize, up to closing finDone.
Settle ==
    /\ phase = "settling"
    /\ phase' = "done"
    /\ CancelWith("final")
    /\ finPanic' = (~cfg.panicAsErr /\ panics # {})
    /\ finErr' = Verdict
    /\ UNCHANGED <<cfg, pc, joinVars, slotVars, outcome, errVars, logVars, wasCancelled, waitVars>>

\* A panic of Run's callback takes precedence over a task's panic, and that
\* over an error.
Answer(w) ==
    IF caller[w] = "runpanic" THEN "setupPanic"
    ELSE IF finPanic THEN "panic"
    ELSE finErr

Return(w) ==
    /\ caller[w] \in Calls
    /\ phase = "done"
    /\ ret' = [ret EXCEPT ![w] = Answer(w)]
    /\ caller' = [caller EXCEPT ![w] = "returned"]
    /\ UNCHANGED <<cfg, pc, joinVars, slotVars, cause, outcome, errVars, logVars, finVars>>

\* The timer of WaitTimeout fires; the caller may wait again.
TimeOut(w) ==
    /\ caller[w] = "timed"
    /\ ret' = [ret EXCEPT ![w] = "deadline"]
    /\ caller' = [caller EXCEPT ![w] = "idle"]
    /\ UNCHANGED <<cfg, pc, joinVars, slotVars, cause, outcome, errVars, logVars, finVars>>

\* The program has finished; anything else that cannot move is a deadlock.
Terminated ==
    /\ \A t \in Tasks : pc[t] \in {"unspawned", "gone"}
    /\ phase = "done"
    /\ \A w \in Waiters : caller[w] \in {"idle", "returned"}
    /\ UNCHANGED vars

-----------------------------------------------------------------------------

\* The steps of a task's goroutine that the library makes by itself.
TaskStep(t) ==
    \/ Acquire(t) \/ AbandonAdmission(t) \/ SkipCancelled(t) \/ Start(t)
    \/ CancelOnPanic(t) \/ CloseChild(t) \/ EmitCompletion(t)
    \/ RecordFirst(t) \/ CancelSiblings(t) \/ RecordLater(t) \/ RecordCollect(t)
    \/ Unregister(t) \/ ReleaseSlot(t) \/ WgDone(t) \/ Deactivate(t)

\* The end of a task's function, which is the program's own doing.
FnEnds(t) ==
    \/ \E o \in {"ok", "err"} : FnReturns(t, o)
    \/ FnPanics(t)

FinalizeStep == EnterOnce \/ Join \/ Settle

Next ==
    \/ \E sp \in Tasks \cup {Root}, t \in Tasks : BeginTask(sp, t)
    \/ \E t \in Tasks : TaskStep(t)
    \/ \E t \in Tasks : FnEnds(t)
    \/ ParentCancel
    \/ UserCancel
    \/ \E w \in Waiters, how \in {"wait", "timed", "run", "runpanic"} : Call(w, how)
    \/ FinalizeStep
    \/ \E w \in Waiters : Return(w)
    \/ \E w \in Waiters : TimeOut(w)
    \/ Terminated

Spec == Init /\ [][Next]_vars

(***************************************************************************)
(* Fairness.  The Go scheduler runs every runnable goroutine, so each      *)
(* library step is weakly fair, and the runtime serves the goroutines      *)
(* blocked on a channel send in order, so a send on s.sem that is possible *)
(* again and again is made.  A task's function is required to return only  *)
(* once its context is cancelled (Cooperative): nothing is assumed about   *)
(* when the parent cancels, or about a function before that.               *)
(***************************************************************************)
Cooperative(t) == Cancelled /\ FnEnds(t)

Fairness ==
    /\ \A t \in Tasks :
        /\ WF_vars(TaskStep(t))
        /\ SF_vars(Acquire(t))
        /\ WF_vars(Cooperative(t))
    /\ WF_vars(FinalizeStep)
    /\ \A w \in Waiters : WF_vars(Return(w))

FairSpec == Spec /\ Fairness
-----------------------------------------------------------------------------
(* Properties *)

TypeOK ==
    /\ cfg \in Configs
    /\ open \subseteq Tasks \cup {Root}
    /\ pc \in [Tasks -> PCs]
    /\ wg \in Nat
    /\ active \in Nat
    /\ sem \in 0..cfg.limit
    /\ running \subseteq Tasks
    /\ cause \in {"none", "parent", "user", "task", "panic", "final"}
    /\ outcome \in [Tasks -> {"none", "ok", "err", "panic"}]
    /\ firstErr \in Tasks \cup {NoTask}
    /\ errs \subseteq Tasks
    /\ dropped \in Nat
    /\ panics \subseteq Tasks
    /\ events \in [Tasks -> Seq(EventKinds)]
    /\ tally \in [EventKinds \ {"started"} -> Nat]
    /\ phase \in {"open", "called", "joining", "settling", "done"}
    /\ wasCancelled \in BOOLEAN
    /\ finErr \in {"unset", "nil", "errs", "ctx"}
    /\ finPanic \in BOOLEAN
    /\ caller \in [Waiters -> {"idle", "returned"} \cup Calls]
    /\ ret \in [Waiters -> {"none", "nil", "errs", "ctx", "panic", "deadline", "setupPanic"}]

\* Structured concurrency: once finalize has passed wg.Wait, no task that was
\* ever spawned, through whichever Spawner, still has work to do, every
\* Spawner is closed and every slot of the semaphore is free.
StructuredJoin ==
    Settled => Live = {} /\ open = {} /\ running = {} /\ sem = 0

\* WithLimit: no more than limit functions execute at once, and the tracker
\* read by Snapshot and the stall detector never lists more than that.
BoundedExecution ==
    cfg.limit > 0 =>
        /\ Cardinality(running) <= cfg.limit
        /\ {t \in Tasks : pc[t] = "running"} \subseteq running

\* A nil answer means that every task spawned ran to its end and returned nil:
\* a failed, panicked, skipped or abandoned task never goes unnoticed.
NoSilentFailure ==
    \A w \in Waiters : ret[w] = "nil" =>
        \A t \in Spawned : outcome[t] = "ok"

\* An answer that is not nil has a culprit: a task that failed, a task that
\* panicked, or a cancellation from outside.  The scope's own final cancel is
\* never reported as an error.
NoSpuriousFailure ==
    \A w \in Waiters :
        /\ ret[w] = "errs" => \E t \in Spawned : Failed(t)
        /\ ret[w] = "ctx" => cause \in {"parent", "user"}
        /\ ret[w] = "panic" => ~cfg.panicAsErr /\ \E t \in Spawned : outcome[t] = "panic"

\* FailFast reports the task that stopped the others, not one of those it
\* stopped: if a task's error is what cancelled the scope, the task named in
\* firstErr had ended by itself, before any cancellation.
BlameIsOriginal ==
    cause = "task" =>
        /\ firstErr # NoTask
        /\ Failed(firstErr)
        /\ events[firstErr] \in {<<"started", "errored">>, <<"started", "panicked">>}

\* A task that has nothing left to record.
Past(t) == pc[t] \in Deferred \cup {"deactivate", "gone"}

\* Collect with WithMaxErrors: every failure is stored or counted as dropped,
\* and none is dropped while there is room.
ErrorAccounting ==
    cfg.policy = "Collect" =>
        /\ Cardinality(errs) + dropped = Cardinality({t \in Tasks : Failed(t) /\ Past(t)})
        /\ dropped > 0 => Cardinality(errs) = cfg.maxErrors

\* All the waiters that got an answer got the same one: Wait is idempotent and
\* WaitTimeout may run beside it.
WaitersAgree ==
    \A v, w \in Waiters :
        {ret[v], ret[w]} \cap {"none", "deadline"} = {} => ret[v] = ret[w]

\* By the time finalize is past wg.Wait, each function that ended has reported
\* its start and its end, and the counters account for all of them.
HooksComplete ==
    LET ended == {t \in Tasks : outcome[t] # "none"}
    IN  Settled =>
          /\ \A t \in ended : Len(events[t]) = 2 /\ events[t][1] = "started"
          /\ tally["done"] + tally["errored"] + tally["panicked"] + tally["cancelled"]
                = Cardinality(ended)

\* Nothing that a task reports is lost: each error is kept or counted as dropped,
\* each function that ended has told the hooks and is in one counter.
Accounting == ErrorAccounting /\ HooksComplete

\* What Wait reports is final: after the join no error, panic, event or count
\* is added, so a hook never fires after Wait has returned.
NothingAfterJoin ==
    [][Settled => UNCHANGED <<errVars, logVars, outcome>>]_vars

\* Tasks as members of a group; see the module TaskGroup.
Membership(t) ==
    IF pc[t] = "unspawned" THEN "out"
    ELSE IF pc[t] \in LivePC THEN "live"
    ELSE CASE outcome[t] = "ok"    -> "succeeded"
           [] outcome[t] = "err"   -> "failed"
           [] outcome[t] = "panic" -> IF cfg.panicAsErr THEN "failed" ELSE "panicked"
           [] outcome[t] = "none"  -> "dropped"

GroupVerdict ==
    IF phase # "done" THEN "pending"
    ELSE IF finPanic THEN "panic"
    ELSE IF finErr = "nil" THEN "ok"
    ELSE "error"

Group == INSTANCE TaskGroup WITH
    stopOnError <- cfg.policy = "FailFast",
    members     <- [t \in Tasks |-> Membership(t)],
    accepting   <- Root \in open,
    stopped     <- Cancelled,
    verdict     <- GroupVerdict

\* The scope implements its abstract specification.
ImplementsTaskGroup == Group!Spec

\* Cancellation drains: when the scope is cancelled, everyone who waits for it
\* gets an answer, whichever tasks were waiting for a slot, starting, running
\* or spawning at that moment.
CancelDrains ==
    \A w \in Waiters :
        (caller[w] \in Calls \ {"timed"} /\ Cancelled) ~> (caller[w] = "returned")

\* FailFast: the failure of one task is enough for every waiter to get an
\* answer, though no other task would ever have returned by itself.
FailureDrains ==
    \A w \in Waiters :
        (caller[w] \in Calls \ {"timed"} /\ cfg.policy = "FailFast" /\ \E t \in Tasks : Failed(t))
            ~> (caller[w] = "returned")

\* A caller of Wait is answered once the scope has a reason to end.
Drains == CancelDrains /\ FailureDrains
-----------------------------------------------------------------------------
(***************************************************************************)
(* The inductive invariant.  StructuredJoin and NoSilentFailure are not    *)
(* inductive by themselves: the first rests on what wg counts and on who   *)
(* may still spawn, the second on what a task has left behind by the time  *)
(* it is done.                                                             *)
(***************************************************************************)

\* wg counts the live tasks, activeTasks also those about to leave it, the
\* channel s.sem those that hold a slot, and runningTasks lists them until they
\* are about to give it back.
Counting ==
    /\ wg = Cardinality(Live)
    /\ active = Cardinality(Unfinished)
    /\ cfg.limit > 0 => sem = Cardinality(Holders)
    /\ cfg.limit = 0 => sem = 0 /\ \A t \in Tasks : pc[t] # "release"
    /\ running = Listed

\* A child Spawner is open only while its task is live, the root Spawner only
\* until finalization begins; so wg cannot leave zero once Join has seen it.
Doors ==
    /\ \A t \in Tasks :
        t \in open => t \in Nesting /\ pc[t] \in {"running", "panicked", "closing"}
    /\ Root \in open <=> phase \in {"open", "called"}
    /\ Settled => Live = {}

\* Where a goroutine is and how its function ended.
Progress ==
    \A t \in Tasks :
        /\ pc[t] \in Before \cup {"unspawned"} => outcome[t] = "none"
        /\ pc[t] \in After => outcome[t] # "none"
        /\ pc[t] \in {"recording", "cancelling"} => Failed(t)
        /\ pc[t] = "panicked" => outcome[t] = "panic" /\ ~cfg.panicAsErr
        /\ pc[t] = "cancelling" => firstErr = t

\* What a task leaves behind: its error, its panic, or a cancelled context.
Traces ==
    /\ \A t \in Tasks :
        /\ Past(t) /\ Failed(t) => Recorded
        /\ Past(t) /\ outcome[t] = "none" => Cancelled
        /\ t \in panics <=> outcome[t] = "panic" /\ ~cfg.panicAsErr
        /\ Past(t) /\ Failed(t) /\ cfg.policy = "FailFast" => Cancelled
        /\ t \in panics /\ pc[t] # "panicked" => Cancelled
        /\ t \in errs => Failed(t) /\ cfg.policy = "Collect"
    /\ firstErr # NoTask =>
        /\ Failed(firstErr)
        /\ cfg.policy = "FailFast"
        /\ pc[firstErr] = "cancelling" \/ (Past(firstErr) /\ Cancelled)

\* Where a cancellation comes from.
Causes ==
    /\ cause = "task" => firstErr # NoTask
    /\ cause = "panic" => panics # {}
    /\ cause = "final" => phase = "done" /\ ~wasCancelled

\* What a task has reported so far; in particular, a task on its way to
\* cancelling the others has reported its own failure.
OwnFailure == {<<"started", "errored">>, <<"started", "panicked">>}

Reports ==
    /\ \A t \in Tasks :
        /\ pc[t] \in {"unspawned", "admit", "check"} => events[t] = <<>>
        /\ pc[t] \in {"running", "panicked", "closing", "emitting"} => events[t] = <<"started">>
        /\ pc[t] \in {"recording", "cancelling"} /\ ~Cancelled => events[t] \in OwnFailure
    /\ cause = "task" => events[firstErr] \in OwnFailure

\* Run has one caller; Wait has many, none of which panics by itself.
Calling ==
    /\ phase = "open" => \A w \in Waiters : caller[w] = "idle"
    /\ \A w \in Waiters :
        /\ cfg.manual => ret[w] # "setupPanic"
        /\ ~cfg.manual /\ caller[w] = "idle" => ret[w] = "none"
    /\ ~cfg.manual =>
        \A v, w \in Waiters : caller[v] # "idle" /\ caller[w] # "idle" => v = w

\* What finalize computes, and what the callers are told.
Finishing ==
    /\ Settled /\ (\E t \in Spawned : outcome[t] = "none") => wasCancelled
    /\ Settled /\ wasCancelled => Cancelled
    /\ phase = "done" => finErr = Verdict /\ finPanic = (~cfg.panicAsErr /\ panics # {})
    /\ \A w \in Waiters :
        ret[w] \in {"nil", "errs", "ctx", "panic"} =>
            phase = "done" /\ ret[w] = (IF finPanic THEN "panic" ELSE finErr)

\* The tasks that have told the hooks how their function ended, and those whose
\* failure has been kept or dropped.
Reported == {t \in Tasks : outcome[t] # "none" /\ (pc[t] \in {"recording", "cancelling"} \/ Past(t))}
Noted == {t \in Tasks : Failed(t) /\ Past(t)}

\* What the counters and the list of errors add up to, at every moment.
Accounts ==
    /\ tally["done"] + tally["errored"] + tally["panicked"] + tally["cancelled"] = Cardinality(Reported)
    /\ \A t \in Reported : Len(events[t]) = 2 /\ events[t][1] = "started"
    /\ errs \subseteq Noted
    /\ cfg.policy = "Collect" =>
        /\ Cardinality(errs) + dropped = Cardinality(Noted)
        /\ cfg.maxErrors > 0 => Cardinality(errs) <= cfg.maxErrors
        /\ dropped > 0 => cfg.maxErrors > 0 /\ Cardinality(errs) = cfg.maxErrors

IInv ==
    /\ TypeOK /\ Counting /\ Doors /\ Progress /\ Traces
    /\ Causes /\ Reports /\ Calling /\ Finishing /\ Accounts
=============================================================================
