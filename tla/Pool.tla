-------------------------------- MODULE Pool --------------------------------
(***************************************************************************)
(* The worker pool of package scoped: Submit and TrySubmit, the workers    *)
(* and their queue, Close, and the metrics ticker.                         *)
(*                                                                         *)
(* Submit tests the flag closed, and sends on the queue later; Close sets  *)
(* the flag, closes the channel later, and the send that comes too late    *)
(* panics and is recovered.  A task's function may itself submit, which    *)
(* blocks its worker.  A step is one operation on the channel, an atomic   *)
(* or a mutex-protected list.  What a function does is left out, except    *)
(* that it may submit and how it ends.                                     *)
(***************************************************************************)
EXTENDS Integers, FiniteSets, Sequences

CONSTANTS
    Tasks,      \* the functions the program may submit, each at most once
    Workers,    \* the goroutines that NewPool may start
    Crews,      \* the sets of these that it is asked to start
    Closers,    \* the goroutines that call Close
    Sizes,      \* the queue sizes a pool may be created with
    Outside,    \* the caller of a Submit that is not a task of the pool
    NoTask      \* a worker has no task

ASSUME PoolAssumption ==
    /\ IsFiniteSet(Tasks) /\ IsFiniteSet(Workers)
    /\ Crews \subseteq SUBSET Workers /\ {} \notin Crews
    /\ Sizes \subseteq Nat
    /\ Outside \notin Tasks /\ NoTask \notin Tasks

VARIABLES
    size,       \* cap(p.tasks), which never changes
    queue,      \* the elements of the channel p.tasks
    shut,       \* has the channel been closed?
    closed,     \* p.closed
    ctxDone,    \* is p.ctx cancelled?
    call,       \* where the call that submits each task is, or what it returned
    by,         \* who makes that call
    place,      \* where each worker is
    job,        \* the task each worker has
    outcome,    \* how each task's function ended
    submitted,  \* p.submitted
    completed,  \* p.completed
    errored,    \* p.errored
    errs,       \* the tasks whose errors are in p.errs
    closer,     \* what each caller of Close is doing
    answer,     \* what its Close returned
    ticker      \* the goroutine of WithPoolMetrics

chanVars   == <<size, queue, shut>>
doorVars   == <<closed, ctxDone>>
callVars   == <<call, by>>
workVars   == <<place, job>>
countVars  == <<submitted, completed, errored>>
closeVars  == <<closer, answer>>

vars == <<chanVars, doorVars, callVars, workVars, outcome, countVars, errs, closeVars, ticker>>

\* A call under way, a call that was accepted, and one that was not.
Pending == {"submitting", "trying"}
Accepted == {"counting", "accepted"}
Rejected == {"closedErr", "ctxErr", "false"}

\* Where a worker has a task.
Busy == {"running", "erring", "landing"}

Init ==
    /\ size \in Sizes
    /\ queue = <<>>
    /\ shut = FALSE
    /\ closed = FALSE
    /\ ctxDone = FALSE
    /\ call = [t \in Tasks |-> "none"]
    /\ by = [t \in Tasks |-> Outside]
    /\ \E started \in Crews :
          place = [w \in Workers |-> IF w \in started THEN "receiving" ELSE "gone"]
    /\ job = [w \in Workers |-> NoTask]
    /\ outcome = [t \in Tasks |-> "none"]
    /\ submitted = 0
    /\ completed = 0
    /\ errored = 0
    /\ errs = {}
    /\ closer = [c \in Closers |-> "idle"]
    /\ answer = [c \in Closers |-> "none"]
    /\ ticker = "waiting"

-----------------------------------------------------------------------------
(* Submit and TrySubmit *)

\* A function that has a call of its own under way is blocked in it.
Blocked(u) == \E t \in Tasks : by[t] = u /\ call[t] \in Pending \cup {"counting"}

MayCall(u) ==
    u = Outside \/ (~Blocked(u) /\ \E w \in Workers : place[w] = "running" /\ job[w] = u)

\* The check of p.closed with which both begin.
Submit(t, u) ==
    /\ call[t] = "none"
    /\ MayCall(u)
    /\ call' = [call EXCEPT ![t] = IF closed THEN "closedErr" ELSE "submitting"]
    /\ by' = [by EXCEPT ![t] = u]
    /\ UNCHANGED <<chanVars, doorVars, workVars, outcome, countVars, errs, closeVars, ticker>>

TrySubmit(t, u) ==
    /\ call[t] = "none"
    /\ MayCall(u)
    /\ call' = [call EXCEPT ![t] = IF closed THEN "false" ELSE "trying"]
    /\ by' = [by EXCEPT ![t] = u]
    /\ UNCHANGED <<chanVars, doorVars, workVars, outcome, countVars, errs, closeVars, ticker>>

\* The send finds room in the buffer, ...
Enqueue(t) ==
    /\ call[t] \in Pending
    /\ ~shut
    /\ Len(queue) < size
    /\ queue' = Append(queue, t)
    /\ call' = [call EXCEPT ![t] = "counting"]
    /\ UNCHANGED <<size, shut, doorVars, by, workVars, outcome, countVars, errs, closeVars, ticker>>

\* ... or, without a buffer, a worker that is waiting to receive.
Handoff(t, w) ==
    /\ call[t] \in Pending
    /\ ~shut
    /\ size = 0
    /\ place[w] = "receiving"
    /\ place' = [place EXCEPT ![w] = "running"]
    /\ job' = [job EXCEPT ![w] = t]
    /\ call' = [call EXCEPT ![t] = "counting"]
    /\ UNCHANGED <<chanVars, doorVars, by, outcome, countVars, errs, closeVars, ticker>>

\* The send on the closed channel panics; the deferred recover turns that into
\* ErrPoolClosed or false.
SendPanics(t) ==
    /\ call[t] \in Pending
    /\ shut
    /\ call' = [call EXCEPT ![t] = IF @ = "submitting" THEN "closedErr" ELSE "false"]
    /\ UNCHANGED <<chanVars, doorVars, by, workVars, outcome, countVars, errs, closeVars, ticker>>

\* Mutation of GiveUp: Submit does not look at the context.
NeverGiveUp(t) == FALSE

\* The other branch of Submit's select, ...
GiveUp(t) ==
    /\ call[t] = "submitting"
    /\ ctxDone
    /\ call' = [call EXCEPT ![t] = "ctxErr"]
    /\ UNCHANGED <<chanVars, doorVars, by, workVars, outcome, countVars, errs, closeVars, ticker>>

\* ... and of TrySubmit's.  Without a buffer no worker may have got as far as
\* the receive.
Refuse(t) ==
    /\ call[t] = "trying"
    /\ ~shut
    /\ Len(queue) = size
    /\ call' = [call EXCEPT ![t] = "false"]
    /\ UNCHANGED <<chanVars, doorVars, by, workVars, outcome, countVars, errs, closeVars, ticker>>

\* Mutation of CountSubmitted: the context is tested once more after the send.
CountOrCancel(t) ==
    /\ call[t] = "counting"
    /\ call' = [call EXCEPT ![t] = IF ctxDone THEN "ctxErr" ELSE "accepted"]
    /\ submitted' = submitted + 1
    /\ UNCHANGED <<chanVars, doorVars, by, workVars, outcome, completed, errored, errs, closeVars, ticker>>

CountSubmitted(t) ==
    /\ call[t] = "counting"
    /\ call' = [call EXCEPT ![t] = "accepted"]
    /\ submitted' = submitted + 1
    /\ UNCHANGED <<chanVars, doorVars, by, workVars, outcome, completed, errored, errs, closeVars, ticker>>

-----------------------------------------------------------------------------
(* The workers *)

Receive(w) ==
    /\ place[w] = "receiving"
    /\ queue # <<>>
    /\ place' = [place EXCEPT ![w] = "running"]
    /\ job' = [job EXCEPT ![w] = Head(queue)]
    /\ queue' = Tail(queue)
    /\ UNCHANGED <<size, shut, doorVars, callVars, outcome, countVars, errs, closeVars, ticker>>

\* Mutation of LeaveLoop: a worker leaves as soon as the pool is closed.
LeaveLoopEarly(w) ==
    /\ place[w] = "receiving"
    /\ closed
    /\ place' = [place EXCEPT ![w] = "gone"]
    /\ UNCHANGED <<chanVars, doorVars, callVars, job, outcome, countVars, errs, closeVars, ticker>>

\* The range over p.tasks ends, and wg.Done is called, once the channel is
\* closed and empty.
LeaveLoop(w) ==
    /\ place[w] = "receiving"
    /\ shut /\ queue = <<>>
    /\ place' = [place EXCEPT ![w] = "gone"]
    /\ UNCHANGED <<chanVars, doorVars, callVars, job, outcome, countVars, errs, closeVars, ticker>>

\* The function returns nil or an error; a panic is recovered and becomes an
\* error too.
FnEnds(w, o) ==
    /\ place[w] = "running"
    /\ ~Blocked(job[w])
    /\ outcome' = [outcome EXCEPT ![job[w]] = o]
    /\ place' = [place EXCEPT ![w] = IF o = "ok" THEN "landing" ELSE "erring"]
    /\ UNCHANGED <<chanVars, doorVars, callVars, job, countVars, errs, closeVars, ticker>>

\* Mutation of KeepError: the list is overwritten instead of appended to.
KeepLastError(w) ==
    /\ place[w] = "erring"
    /\ errored' = errored + 1
    /\ errs' = {job[w]}
    /\ place' = [place EXCEPT ![w] = "landing"]
    /\ UNCHANGED <<chanVars, doorVars, callVars, job, outcome, submitted, completed, closeVars, ticker>>

KeepError(w) ==
    /\ place[w] = "erring"
    /\ errored' = errored + 1
    /\ errs' = errs \cup {job[w]}
    /\ place' = [place EXCEPT ![w] = "landing"]
    /\ UNCHANGED <<chanVars, doorVars, callVars, job, outcome, submitted, completed, closeVars, ticker>>

\* Mutation of Complete: only the functions that succeed are counted.
CompleteSuccess(w) ==
    /\ place[w] = "landing"
    /\ completed' = completed + (IF outcome[job[w]] = "ok" THEN 1 ELSE 0)
    /\ place' = [place EXCEPT ![w] = "receiving"]
    /\ job' = [job EXCEPT ![w] = NoTask]
    /\ UNCHANGED <<chanVars, doorVars, callVars, outcome, submitted, errored, errs, closeVars, ticker>>

\* The deferred function of runTask, and back to the queue.
Complete(w) ==
    /\ place[w] = "landing"
    /\ completed' = completed + 1
    /\ place' = [place EXCEPT ![w] = "receiving"]
    /\ job' = [job EXCEPT ![w] = NoTask]
    /\ UNCHANGED <<chanVars, doorVars, callVars, outcome, submitted, errored, errs, closeVars, ticker>>

-----------------------------------------------------------------------------
(* Close, the context and the metrics ticker *)

\* The compare-and-swap of p.closed: one caller wins it.
CallClose(c) ==
    /\ closer[c] = "idle"
    /\ closer' = [closer EXCEPT ![c] = IF closed THEN "waiting" ELSE "closing"]
    /\ closed' = TRUE
    /\ UNCHANGED <<chanVars, ctxDone, callVars, workVars, outcome, countVars, errs, answer, ticker>>

\* Mutation of CloseChannel: the channel is left open.
CloseFlagOnly(c) ==
    /\ closer[c] = "closing"
    /\ closer' = [closer EXCEPT ![c] = "waiting"]
    /\ UNCHANGED <<chanVars, doorVars, callVars, workVars, outcome, countVars, errs, answer, ticker>>

CloseChannel(c) ==
    /\ closer[c] = "closing"
    /\ shut' = TRUE
    /\ closer' = [closer EXCEPT ![c] = "waiting"]
    /\ UNCHANGED <<size, queue, doorVars, callVars, workVars, outcome, countVars, errs, answer, ticker>>

\* Mutation of FinishClose: it waits for the queue and not for the workers.
FinishCloseEarly(c) ==
    /\ closer[c] = "waiting"
    /\ shut /\ queue = <<>>
    /\ ctxDone' = TRUE
    /\ closer' = [closer EXCEPT ![c] = "returned"]
    /\ answer' = [answer EXCEPT ![c] = IF errs = {} THEN "nil" ELSE "errs"]
    /\ UNCHANGED <<chanVars, closed, callVars, workVars, outcome, countVars, errs, ticker>>

\* wg.Wait returns; the rest of Close.
FinishClose(c) ==
    /\ closer[c] = "waiting"
    /\ \A w \in Workers : place[w] = "gone"
    /\ ctxDone' = TRUE
    /\ closer' = [closer EXCEPT ![c] = "returned"]
    /\ answer' = [answer EXCEPT ![c] = IF errs = {} THEN "nil" ELSE "errs"]
    /\ UNCHANGED <<chanVars, closed, callVars, workVars, outcome, countVars, errs, ticker>>

ParentCancel ==
    /\ ~ctxDone
    /\ ctxDone' = TRUE
    /\ UNCHANGED <<chanVars, closed, callVars, workVars, outcome, countVars, errs, closeVars, ticker>>

\* The ticker fires: the callback is called, unless the pool is closed.
Tick ==
    /\ ticker = "waiting"
    /\ ticker' = IF closed THEN "gone" ELSE "calling"
    /\ UNCHANGED <<chanVars, doorVars, callVars, workVars, outcome, countVars, errs, closeVars>>

TickDone ==
    /\ ticker = "calling"
    /\ ticker' = "waiting"
    /\ UNCHANGED <<chanVars, doorVars, callVars, workVars, outcome, countVars, errs, closeVars>>

\* Mutation of TickStop: the goroutine does not listen to the context.
TickOn == FALSE

TickStop ==
    /\ ticker = "waiting"
    /\ ctxDone
    /\ ticker' = "gone"
    /\ UNCHANGED <<chanVars, doorVars, callVars, workVars, outcome, countVars, errs, closeVars>>

-----------------------------------------------------------------------------

CallStep(t) ==
    \/ Enqueue(t) \/ (\E w \in Workers : Handoff(t, w))
    \/ SendPanics(t) \/ GiveUp(t) \/ Refuse(t) \/ CountSubmitted(t)

WorkerStep(w) ==
    \/ Receive(w) \/ LeaveLoop(w)
    \/ (\E o \in {"ok", "err"} : FnEnds(w, o))
    \/ KeepError(w) \/ Complete(w)

TickerStep == Tick \/ TickDone \/ TickStop

Next ==
    \/ \E t \in Tasks, u \in Tasks \cup {Outside} : Submit(t, u) \/ TrySubmit(t, u)
    \/ \E t \in Tasks : CallStep(t)
    \/ \E w \in Workers : WorkerStep(w)
    \/ \E c \in Closers : CallClose(c) \/ CloseChannel(c) \/ FinishClose(c)
    \/ ParentCancel
    \/ TickerStep

Spec == Init /\ [][Next]_vars

(***************************************************************************)
(* Fairness: runnable goroutines run; the functions submitted return, which *)
(* is what Close waits for.  Nothing is assumed of who calls Close or when  *)
(* the context is cancelled, and a submission in a full queue may wait.     *)
(***************************************************************************)
Fairness ==
    /\ \A t \in Tasks : WF_vars(CallStep(t))
    /\ \A w \in Workers : WF_vars(WorkerStep(w))
    /\ \A c \in Closers : WF_vars(CloseChannel(c) \/ FinishClose(c))
    /\ WF_vars(TickDone) /\ WF_vars(TickStop)

FairSpec == Spec /\ Fairness
-----------------------------------------------------------------------------
(* Properties *)

TypeOK ==
    /\ size \in Sizes
    /\ queue \in Seq(Tasks) /\ Len(queue) <= size
    /\ shut \in BOOLEAN /\ closed \in BOOLEAN /\ ctxDone \in BOOLEAN
    /\ call \in [Tasks -> {"none"} \cup Pending \cup Accepted \cup Rejected]
    /\ by \in [Tasks -> Tasks \cup {Outside}]
    /\ place \in [Workers -> {"receiving", "gone"} \cup Busy]
    /\ job \in [Workers -> Tasks \cup {NoTask}]
    /\ outcome \in [Tasks -> {"none", "ok", "err"}]
    /\ submitted \in Nat /\ completed \in Nat /\ errored \in Nat
    /\ errs \subseteq Tasks
    /\ closer \in [Closers -> {"idle", "closing", "waiting", "returned"}]
    /\ answer \in [Closers -> {"none", "nil", "errs"}]
    /\ ticker \in {"waiting", "calling", "gone"}

Queued == {queue[i] : i \in 1..Len(queue)}
Occupied == {w \in Workers : place[w] \in Busy}
Held == {job[w] : w \in Occupied}
Counting == {t \in Tasks : call[t] = "counting"}

\* A submission that was refused leaves nothing behind, even when its send
\* raced with Close: its function never runs.
RejectedNeverRuns ==
    \A t \in Tasks : call[t] \in Rejected =>
        outcome[t] = "none" /\ t \notin Queued \cup Held

\* A submission that was accepted, even one that raced with Close, is run
\* before any Close returns.
AcceptedRunsBeforeClose ==
    \A c \in Closers : closer[c] = "returned" =>
        \A t \in Tasks : call[t] \in Accepted => outcome[t] # "none"

\* The answers of Submit and TrySubmit are kept, also by Close.
SubmissionsKept == RejectedNeverRuns /\ AcceptedRunsBeforeClose

\* Every Close returns the same: an error exactly if some function failed.
CloseReportsFailures ==
    \A c \in Closers : closer[c] = "returned" =>
        /\ answer[c] = "errs" <=> \E t \in Tasks : outcome[t] = "err"
        /\ errs = {t \in Tasks : outcome[t] = "err"}
        /\ errored = Cardinality(errs)

\* Stats: the submissions counted, and those about to be, are the tasks in the
\* queue, with the workers, or completed.  Submitted may lag behind Completed,
\* by the calls that have sent and not yet counted.
StatsAccount == submitted + Cardinality(Counting) = Len(queue) + Cardinality(Occupied) + completed

\* What the pool reports of its tasks is true, at every moment and for every Close.
Reports == CloseReportsFailures /\ StatsAccount

\* Tasks as members of a group, as for the scope.
Membership(t) ==
    IF call[t] \notin Accepted THEN "out"
    ELSE IF t \in Queued \cup Held THEN "live"
    ELSE IF outcome[t] = "ok" THEN "succeeded"
    ELSE "failed"

GroupVerdict ==
    IF \A c \in Closers : answer[c] = "none" THEN "pending"
    ELSE IF \E c \in Closers : answer[c] = "errs" THEN "error"
    ELSE "ok"

Group == INSTANCE TaskGroup WITH
    stopOnError <- FALSE,
    members     <- [t \in Tasks |-> Membership(t)],
    accepting   <- ~shut,
    stopped     <- ctxDone,
    verdict     <- GroupVerdict

\* The pool keeps the promise of a TaskGroup too: nobody joins once it is shut,
\* one verdict when everybody has left, and it never changes.
ImplementsTaskGroup == Group!Spec

\* Close returns, whoever was blocked in a submission at that moment: a worker
\* whose function waits for room in the queue is woken by the close.
CloseReturns ==
    \A c \in Closers : closer[c] # "idle" ~> closer[c] = "returned"

\* Every Submit under way when the pool is closed or its context is cancelled
\* returns, and the goroutines the pool has started end after Close.
SubmitReturns ==
    \A t \in Tasks : (call[t] = "submitting" /\ ctxDone) ~> call[t] # "submitting"

NothingLeaks ==
    \A c \in Closers :
        closer[c] # "idle" ~> (\A w \in Workers : place[w] = "gone") /\ ticker = "gone"

\* Everything ends once the pool is closed: Close, the submissions under way, and
\* the goroutines.
CloseCompletes == CloseReturns /\ SubmitReturns /\ NothingLeaks

-----------------------------------------------------------------------------
(***************************************************************************)
(* The inductive invariant.  What Submit and Close promise rests on where  *)
(* a task is: once in the queue, with one worker, or at its end, and then  *)
(* only if its submission was accepted; and on the last worker leaving     *)
(* after the channel has been closed and emptied.                          *)
(***************************************************************************)

\* No task is twice in the queue or with two workers, or in both places.
Placed ==
    /\ \A i, j \in 1..Len(queue) : queue[i] = queue[j] => i = j
    /\ \A i \in 1..Len(queue) :
        outcome[queue[i]] = "none" /\ \A w \in Workers : job[w] # queue[i]
    /\ \A w \in Workers :
        /\ place[w] \in Busy <=> job[w] # NoTask
        /\ place[w] = "running" => outcome[job[w]] = "none"
        /\ place[w] = "erring" => outcome[job[w]] = "err"
        /\ place[w] = "landing" => outcome[job[w]] # "none"
    /\ \A v, w \in Workers : job[v] = job[w] /\ job[v] # NoTask => v = w

\* The tasks that are somewhere are those whose submission was accepted.
Admitted ==
    \A t \in Tasks :
        call[t] \in Accepted
            <=> \/ outcome[t] # "none"
                \/ \E i \in 1..Len(queue) : queue[i] = t
                \/ \E w \in Workers : job[w] = t

\* The flag, the channel and the workers go in this order.
Doors ==
    /\ (\A w \in Workers : place[w] = "gone") => shut /\ queue = <<>>
    /\ \A c \in Closers :
        /\ closer[c] = "returned" => ctxDone /\ \A w \in Workers : place[w] = "gone"
        /\ closer[c] # "returned" => answer[c] = "none"

\* Each error is in the list once its worker has put it there.
Errors ==
    /\ \A t \in Tasks :
        t \in errs <=> outcome[t] = "err" /\ ~\E w \in Workers : place[w] = "erring" /\ job[w] = t
    /\ errored = Cardinality(errs)
    /\ \A c \in Closers :
        closer[c] = "returned" => answer[c] = (IF errs = {} THEN "nil" ELSE "errs")

IInv == TypeOK /\ Placed /\ Admitted /\ Doors /\ Errors /\ StatsAccount
=============================================================================
