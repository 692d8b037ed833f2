---------------------------- MODULE ParallelMap ----------------------------
(***************************************************************************)
(* ParallelMap and makeParallelNext of src/stream.go with Stream.Next      *)
(* around them.  A dispatcher, which is a task of a scope, pulls the items *)
(* of a source and starts a worker for each, up to a limit; a worker maps  *)
(* its item and sends the result on resCh, or drops it when its context is *)
(* cancelled; the one reader of the stream takes results from resCh and,   *)
(* in ordered mode, keeps those that come too early in `pending'.  The     *)
(* semaphore pendingSem bounds the items that are out in ordered mode.     *)
(*                                                                         *)
(* Three contexts reach the dispatcher: that of its task, that given to    *)
(* ParallelMap, and mapCtx, below the latter, which Stop cancels as well.  *)
(* A bridge goroutine carries the end of mapCtx over to runCtx, below the  *)
(* task's context, which the source and the workers see.                   *)
(*                                                                         *)
(* Items are 0, 1, ...; a value is known by the item it comes from.        *)
(***************************************************************************)
EXTENDS Integers, FiniteSets, Sequences, SequencesExt

CONSTANT
    Configs     \* the settings to consider, one of which is chosen initially

Config ==
    [ordered : BOOLEAN, workers : Nat \ {0}, buffer : Nat, maxPending : Nat,
     items : Nat, srcFails : BOOLEAN, outcomes : SUBSET {"ok", "err", "eof"}]

ASSUME ConfigsAssumption == Configs \subseteq Config

VARIABLES
    cfg,            \* the settings
    ctxDone,        \* the context given to ParallelMap is cancelled
    taskDone,       \* the context of the dispatcher's task is cancelled
    readDone,       \* the context the reader gives to Next is cancelled
    stopped,        \* Stop has cancelled mapCtx
    runCancelled,   \* runCancel has been called
    bridge,         \* the goroutine that carries mapCtx over to runCtx
    dpc,            \* what the dispatcher is about to do
    derr,           \* whether the dispatcher returns an error to its scope
    taken,          \* the items taken from the source, inputIdx
    pendingSem,     \* tokens in the semaphore of ordered mode
    wpc,            \* the worker of each item
    outcome,        \* how the mapper ended on each item
    resCh, closed,  \* the channel of results
    cpc,            \* the reader: outside Next or in its loop
    pending,        \* results that came early, in ordered mode
    nextIdx,        \* the item the reader emits next, in ordered mode
    emitted,        \* the items returned to the reader, in order
    last,           \* what the last call of Next returned
    streamErr       \* the errors joined into Err()

envVars == <<ctxDone, taskDone, readDone, stopped>>
dispVars == <<dpc, derr, taken, bridge, runCancelled>>
workVars == <<wpc, outcome>>
readVars == <<cpc, pending, nextIdx, emitted, last>>
vars == <<cfg, envVars, dispVars, pendingSem, workVars, resCh, closed,
          readVars, streamErr>>

Items == 0 .. cfg.items - 1

\* The errors of a stream: that of the mapper on item i is i itself.
SourceError == -1   \* the source's own
CancelError == -2   \* a cancelled context, from the source
ReadError   == -3   \* a cancelled context, from the reader
GapError    == -4   \* ErrStreamGap

\* The workers that hold a slot of sem and are counted by wg.
Busy == {i \in Items : wpc[i] \in {"fn", "send"}}

\* mapCtx.Err() # nil and runCtx.Err() # nil
MapDone == ctxDone \/ stopped
RunDone == taskDone \/ runCancelled

\* The capacity of pendingSem; 0 stands for no semaphore.
PendingLimit(c) ==
    IF ~c.ordered THEN 0
    ELSE IF c.maxPending = 0 THEN 2 * c.workers ELSE c.maxPending

Init ==
    /\ cfg \in Configs
    /\ ctxDone = FALSE /\ taskDone = FALSE /\ readDone = FALSE /\ stopped = FALSE
    /\ runCancelled = FALSE /\ bridge = "none"
    /\ dpc = "new" /\ derr = FALSE /\ taken = 0
    /\ pendingSem = 0
    /\ wpc = [i \in Items |-> "none"] /\ outcome = [i \in Items |-> "none"]
    /\ resCh = <<>> /\ closed = FALSE
    /\ cpc = "idle" /\ pending = {} /\ nextIdx = 0
    /\ emitted = <<>> /\ last = "none" /\ streamErr = {}

-----------------------------------------------------------------------------
(* The dispatcher. *)

DispatcherGoes(from, to) == dpc = from /\ dpc' = to

\* The scope starts the task, and with it the bridge.
Begin ==
    /\ ~taskDone
    /\ DispatcherGoes("new", "next")
    /\ bridge' = "waiting"
    /\ UNCHANGED <<cfg, envVars, derr, taken, runCancelled, pendingSem,
                   workVars, resCh, closed, readVars, streamErr>>

\* The scope skips a task whose context is cancelled before it starts, while
\* it waits for a slot of the scope for instance.  resCh stays open.
Skipped ==
    /\ taskDone
    /\ DispatcherGoes("new", "skipped")
    /\ UNCHANGED <<cfg, envVars, derr, taken, bridge, runCancelled, pendingSem,
                   workVars, resCh, closed, readVars, streamErr>>

\* src.Next returns an item.
Pull ==
    /\ taken < cfg.items
    /\ DispatcherGoes("next", IF PendingLimit(cfg) > 0 THEN "pend" ELSE "sem")
    /\ taken' = taken + 1
    /\ UNCHANGED <<cfg, envVars, derr, bridge, runCancelled, pendingSem,
                   workVars, resCh, closed, readVars, streamErr>>

\* src.Next returns io.EOF or an error of its own, which is recorded.
SourceEnds ==
    /\ taken = cfg.items
    /\ DispatcherGoes("next", "join")
    /\ streamErr' = IF cfg.srcFails THEN streamErr \union {SourceError} ELSE streamErr
    /\ UNCHANGED <<cfg, envVars, derr, taken, bridge, runCancelled, pendingSem,
                   workVars, resCh, closed, readVars>>

\* Mutation of ConsumerStopped: every error of the source counts.
ConsumerStoppedNever == FALSE

\* The cancellation of mapCtx that comes from the reader alone is no error.
ConsumerStopped == MapDone /\ ~ctxDone

\* src.Next returns the error of its context.
SourceCancelled ==
    /\ RunDone
    /\ DispatcherGoes("next", "join")
    /\ streamErr' = IF ConsumerStopped THEN streamErr
                    ELSE streamErr \union {CancelError}
    /\ UNCHANGED <<cfg, envVars, derr, taken, bridge, runCancelled, pendingSem,
                   workVars, resCh, closed, readVars>>

\* A token of pendingSem for the item just taken.
TakeToken ==
    /\ pendingSem < PendingLimit(cfg)
    /\ DispatcherGoes("pend", "sem")
    /\ pendingSem' = pendingSem + 1
    /\ UNCHANGED <<cfg, envVars, derr, taken, bridge, runCancelled,
                   workVars, resCh, closed, readVars, streamErr>>

\* A slot of sem, and the goroutine for the item.
StartWorker ==
    /\ Cardinality(Busy) < cfg.workers
    /\ DispatcherGoes("sem", "next")
    /\ wpc' = [wpc EXCEPT ![taken - 1] = "fn"]
    /\ UNCHANGED <<cfg, envVars, derr, taken, bridge, runCancelled, pendingSem,
                   outcome, resCh, closed, readVars, streamErr>>

\* Cancellation while the dispatcher waits for a token or for a slot.
GiveUp ==
    /\ RunDone
    /\ dpc \in {"pend", "sem"}
    /\ dpc' = "giveup"
    /\ UNCHANGED <<cfg, envVars, derr, taken, bridge, runCancelled, pendingSem,
                   workVars, resCh, closed, readVars, streamErr>>

\* Mutation of Join: the early returns forget wg.Wait.
JoinOnlyAtEnd ==
    /\ dpc \in {"join", "giveup"}
    /\ dpc = "join" => Busy = {}
    /\ dpc' = "unwind"
    /\ derr' = (dpc = "giveup" /\ ctxDone)
    /\ runCancelled' = TRUE
    /\ UNCHANGED <<cfg, envVars, taken, bridge, pendingSem,
                   workVars, resCh, closed, readVars, streamErr>>

\* wg.Wait, the value to return, and runCancel, the first of the deferred calls.
Join ==
    /\ dpc \in {"join", "giveup"}
    /\ Busy = {}
    /\ dpc' = "unwind"
    /\ derr' = (dpc = "giveup" /\ ctxDone)
    /\ runCancelled' = TRUE
    /\ UNCHANGED <<cfg, envVars, taken, bridge, pendingSem,
                   workVars, resCh, closed, readVars, streamErr>>

\* <-done, then close(resCh).
CloseResults ==
    /\ bridge = "done"
    /\ DispatcherGoes("unwind", "gone")
    /\ closed' = TRUE
    /\ UNCHANGED <<cfg, envVars, derr, taken, bridge, runCancelled, pendingSem,
                   workVars, resCh, readVars, streamErr>>

\* Mutation of Bridge: the bridge waits for the wrong context only.
BridgeRunOnly ==
    /\ bridge = "waiting"
    /\ bridge' = "done"
    /\ RunDone /\ UNCHANGED runCancelled
    /\ UNCHANGED <<cfg, envVars, dpc, derr, taken, pendingSem,
                   workVars, resCh, closed, readVars, streamErr>>

\* The select of the bridge; when both contexts are done, either case.
Bridge ==
    /\ bridge = "waiting"
    /\ bridge' = "done"
    /\ \/ MapDone /\ runCancelled' = TRUE
       \/ RunDone /\ UNCHANGED runCancelled
    /\ UNCHANGED <<cfg, envVars, dpc, derr, taken, pendingSem,
                   workVars, resCh, closed, readVars, streamErr>>

-----------------------------------------------------------------------------
(* The worker of item i.  Its deferred <-sem and wg.Done follow the send at *)
(* once: only the dispatcher looks at them, and it looks at one of them.    *)

\* The mapper returns a value or an error, io.EOF possibly; a panic becomes
\* an error.
FnEnds(i) ==
    /\ wpc[i] = "fn"
    /\ wpc' = [wpc EXCEPT ![i] = "send"]
    /\ \E o \in cfg.outcomes : outcome' = [outcome EXCEPT ![i] = o]
    /\ UNCHANGED <<cfg, envVars, dispVars, pendingSem, resCh, closed, readVars,
                   streamErr>>

SendResult(i) ==
    /\ wpc[i] = "send"
    /\ Len(resCh) < cfg.buffer + cfg.workers
    /\ wpc' = [wpc EXCEPT ![i] = "gone"]
    /\ resCh' = Append(resCh, i)
    /\ UNCHANGED <<cfg, envVars, dispVars, pendingSem, outcome, closed, readVars,
                   streamErr>>

\* Mutation of DropResult: a worker that finds the channel full drops its
\* result.
DropWhenFull(i) ==
    /\ wpc[i] = "send"
    /\ RunDone \/ Len(resCh) = cfg.buffer + cfg.workers
    /\ wpc' = [wpc EXCEPT ![i] = "gone"]
    /\ UNCHANGED <<cfg, envVars, dispVars, pendingSem, outcome, resCh, closed,
                   readVars, streamErr>>

DropResult(i) ==
    /\ wpc[i] = "send"
    /\ RunDone
    /\ wpc' = [wpc EXCEPT ![i] = "gone"]
    /\ UNCHANGED <<cfg, envVars, dispVars, pendingSem, outcome, resCh, closed,
                   readVars, streamErr>>

WorkerStep(i) == FnEnds(i) \/ SendResult(i) \/ DropResult(i)

-----------------------------------------------------------------------------
(* The reader. *)

\* Nothing more is asked of a stream that has come to its end.
Ended == last \in {"eof", "eof item", "gap", "gap error", "cancel"}

CallNext ==
    /\ cpc = "idle" /\ ~Ended
    /\ cpc' = "loop"
    /\ UNCHANGED <<cfg, envVars, dispVars, pendingSem, workVars, resCh, closed,
                   pending, nextIdx, emitted, last, streamErr>>

\* Next returns `answer'; an error other than io.EOF is joined into Err().
Return(answer, errs) ==
    /\ cpc' = "idle"
    /\ last' = answer
    /\ streamErr' = streamErr \union errs

\* What the result of item i makes Next return, and what it records.
AnswerOf(i) == CASE outcome[i] = "ok"  -> "item"
                 [] outcome[i] = "err" -> "error"
                 [] outcome[i] = "eof" -> "eof item"
ErrorsOf(i) == IF outcome[i] = "err" THEN {i} ELSE {}

CanEmit == cfg.ordered /\ nextIdx \in pending

\* Mutation of EmitPending: the reader keeps the token of what it emits.
EmitKeepingToken ==
    /\ cpc = "loop" /\ CanEmit
    /\ UNCHANGED pendingSem
    /\ pending' = pending \ {nextIdx}
    /\ nextIdx' = nextIdx + 1
    /\ emitted' = Append(emitted, nextIdx)
    /\ Return(AnswerOf(nextIdx), ErrorsOf(nextIdx))
    /\ UNCHANGED <<cfg, envVars, dispVars, workVars, resCh, closed>>

\* The next item in order is at hand; its token goes back, or Next blocks.
EmitPending ==
    /\ cpc = "loop" /\ CanEmit
    /\ pendingSem > 0
    /\ pendingSem' = pendingSem - 1
    /\ pending' = pending \ {nextIdx}
    /\ nextIdx' = nextIdx + 1
    /\ emitted' = Append(emitted, nextIdx)
    /\ Return(AnswerOf(nextIdx), ErrorsOf(nextIdx))
    /\ UNCHANGED <<cfg, envVars, dispVars, workVars, resCh, closed>>

\* Next waits in its select unless it can emit.
Waiting == cpc = "loop" /\ ~CanEmit

ReadCancelled ==
    /\ Waiting /\ readDone
    /\ Return("cancel", {ReadError})
    /\ UNCHANGED <<cfg, envVars, dispVars, pendingSem, workVars, resCh, closed,
                   pending, nextIdx, emitted>>

\* Mutation of Keep: the token goes back when the result is received, not
\* when it is emitted.
KeepReleasing ==
    /\ Waiting /\ cfg.ordered
    /\ resCh # <<>>
    /\ resCh' = Tail(resCh)
    /\ pending' = pending \union {Head(resCh)}
    /\ pendingSem' = pendingSem - 1
    /\ UNCHANGED <<cfg, envVars, dispVars, workVars, closed,
                   cpc, nextIdx, emitted, last, streamErr>>

\* A result in ordered mode is kept and the loop goes on.
Keep ==
    /\ Waiting /\ cfg.ordered
    /\ resCh # <<>>
    /\ resCh' = Tail(resCh)
    /\ pending' = pending \union {Head(resCh)}
    /\ UNCHANGED <<cfg, envVars, dispVars, pendingSem, workVars, closed,
                   cpc, nextIdx, emitted, last, streamErr>>

\* A result in unordered mode is returned.
EmitReceived ==
    /\ Waiting /\ ~cfg.ordered
    /\ resCh # <<>>
    /\ resCh' = Tail(resCh)
    /\ emitted' = Append(emitted, Head(resCh))
    /\ Return(AnswerOf(Head(resCh)), ErrorsOf(Head(resCh)))
    /\ UNCHANGED <<cfg, envVars, dispVars, pendingSem, workVars, closed,
                   pending, nextIdx>>

\* resCh is closed and empty: the end of the stream, or a gap before results
\* that are still pending, one of which may carry an error to report instead.
FindClosed ==
    /\ Waiting
    /\ resCh = <<>> /\ closed
    /\ LET failed == {i \in pending : outcome[i] # "ok"} IN
       IF pending = {} THEN Return("eof", {})
       ELSE IF failed = {} THEN Return("gap", {GapError})
       ELSE \E i \in failed :
              Return(IF outcome[i] = "err" THEN "gap error" ELSE "eof item",
                     ErrorsOf(i))
    /\ UNCHANGED <<cfg, envVars, dispVars, pendingSem, workVars, resCh, closed,
                   pending, nextIdx, emitted>>

ReaderStep ==
    \/ CallNext \/ EmitPending \/ Keep \/ EmitReceived
    \/ FindClosed \/ ReadCancelled

-----------------------------------------------------------------------------
(* The contexts and Stop, which may come at any time and from anywhere. *)

CancelCtx ==
    /\ ~ctxDone /\ ctxDone' = TRUE
    /\ UNCHANGED <<cfg, taskDone, readDone, stopped, dispVars, pendingSem,
                   workVars, resCh, closed, readVars, streamErr>>

CancelTask ==
    /\ ~taskDone /\ taskDone' = TRUE
    /\ UNCHANGED <<cfg, ctxDone, readDone, stopped, dispVars, pendingSem,
                   workVars, resCh, closed, readVars, streamErr>>

CancelRead ==
    /\ ~readDone /\ readDone' = TRUE
    /\ UNCHANGED <<cfg, ctxDone, taskDone, stopped, dispVars, pendingSem,
                   workVars, resCh, closed, readVars, streamErr>>

Stop ==
    /\ ~stopped /\ stopped' = TRUE
    /\ UNCHANGED <<cfg, ctxDone, taskDone, readDone, dispVars, pendingSem,
                   workVars, resCh, closed, readVars, streamErr>>

DispatcherStep ==
    \/ Begin \/ Skipped \/ Pull \/ SourceEnds \/ SourceCancelled
    \/ TakeToken \/ StartWorker \/ GiveUp \/ Join \/ CloseResults

Next ==
    \/ DispatcherStep
    \/ Bridge
    \/ \E i \in Items : WorkerStep(i)
    \/ ReaderStep
    \/ CancelCtx \/ CancelTask \/ CancelRead \/ Stop

Spec == Init /\ [][Next]_vars

\* Goroutines that can run do run; mappers and sources return.  The contexts,
\* Stop and the decision to call Next are up to the user.
FairSpec ==
    /\ Spec
    /\ WF_vars(DispatcherStep) /\ WF_vars(Bridge)
    /\ WF_vars(\E i \in Items : WorkerStep(i))
    /\ WF_vars(ReaderStep /\ ~CallNext)

-----------------------------------------------------------------------------
(* What must hold in every state. *)

TypeOK ==
    /\ cfg \in Configs
    /\ ctxDone \in BOOLEAN /\ taskDone \in BOOLEAN /\ readDone \in BOOLEAN
    /\ stopped \in BOOLEAN /\ runCancelled \in BOOLEAN /\ derr \in BOOLEAN
    /\ bridge \in {"none", "waiting", "done"}
    /\ dpc \in {"new", "next", "pend", "sem", "join", "giveup", "unwind",
                "gone", "skipped"}
    /\ taken \in 0 .. cfg.items
    /\ pendingSem \in 0 .. PendingLimit(cfg)
    /\ wpc \in [Items -> {"none", "fn", "send", "gone"}]
    /\ outcome \in [Items -> {"none", "ok", "err", "eof"}]
    /\ resCh \in Seq(Items) /\ Len(resCh) <= cfg.buffer + cfg.workers
    /\ closed \in BOOLEAN
    /\ cpc \in {"idle", "loop"}
    /\ pending \subseteq Items
    /\ nextIdx \in 0 .. cfg.items
    /\ emitted \in Seq(Items)
    /\ last \in {"none", "item", "error", "eof item", "eof", "gap",
                 "gap error", "cancel"}
    /\ streamErr \subseteq Items \union {SourceError, CancelError, ReadError, GapError}

\* No context is done and nobody has called Stop.
Undisturbed == ~ctxDone /\ ~taskDone /\ ~stopped

\* The reader gets every item at most once, in order mode in the order of the
\* source; and when it finds the end of the stream, and nothing was cancelled,
\* it has had every item, and Err() has the error of the source and of every
\* item that failed.  It is never told of a gap without a cancellation.
DeliveredInFull ==
    /\ IsInjective(emitted)
    /\ cfg.ordered => \A k \in DOMAIN emitted : emitted[k] = k - 1
    /\ Undisturbed => last \notin {"gap", "gap error"}
    /\ Undisturbed /\ last = "eof" =>
         /\ ToSet(emitted) = Items
         /\ \A i \in Items : outcome[i] = "err" => i \in streamErr
         /\ cfg.srcFails => SourceError \in streamErr

\* No field leaves its range, which bounds resCh by its capacity and its blocked
\* senders; and in order mode every item on its way to the reader holds a token, so
\* the buffer of early results is bounded by MaxPending and the <-pendingSem of the
\* reader, which looks at no context, never blocks.
TokensCoverResults ==
    /\ TypeOK
    /\ cfg.ordered =>
        Cardinality(pending) + Len(resCh) + Cardinality(Busy) <= pendingSem

\* resCh is closed after the last worker has left: no send on a closed channel,
\* whichever way the dispatcher ends.
ClosedAfterWorkers == closed => Busy = {}

\* A stream that its reader stops early (Take, Stop) makes neither the scope
\* fail nor Err() report the cancellation.
StopIsNoError == ~ctxDone /\ ~taskDone => ~derr /\ CancelError \notin streamErr

-----------------------------------------------------------------------------
(* What must happen. *)

\* A stream that is stopped or cancelled gives its dispatcher back to the
\* scope, even when nobody reads any more and the workers cannot send.
StopDrains == (MapDone \/ taskDone) ~> (dpc \in {"gone", "skipped"})

\* A reader that keeps calling Next comes to an end, once the dispatcher has
\* started: neither the tokens nor the slots nor resCh run dry for good.
ReaderReachesEnd ==
    WF_vars(CallNext) => ((dpc = "next") ~> Ended)

\* Both sides of a ParallelMap come to an end (stream.go:494-608, 617-676).
BothEnd == StopDrains /\ ReaderReachesEnd
=============================================================================
