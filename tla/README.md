# A verification of `scoped`

`scoped` is a Go library for structured concurrency: a *scope* owns the
goroutines started in it and does not end before they do. Around the scope the
library has results, a semaphore, a worker pool, pull streams with a parallel
map, races, and a package of channel utilities. This directory holds TLA+
models of the parts that interleave, TLC configurations that check them on small
instances, and theorems about them that TLAPS checks for every value of the
constants. Line numbers below are those of the repository.

## 1. Inventory

### The scope (`scope.go`, `spawner.go`, `options.go`, `panic.go`)

*State.* The WaitGroup `wg`, the counter `activeTasks`, the slot channel `sem`,
the tracker `runningTasks`, the context and its cause, `firstErr` or `errs` with
`droppedErrors`, `panics`, the outcome counters, the `sync.Once` of finalization
with `finErr` and `finPanic`, and the `closed` flag of every Spawner.

*Operations.* `New`, `Run`, `Go`, `Spawn` (nested, each task with a Spawner of
its own), `Cancel`, `Wait`, `WaitTimeout`, `Snapshot`, `DroppedErrors`; inside,
`beginTask`, admission through `sem`, `exec` with panic recovery, the hooks,
`recordError`, the chain of deferred calls, `finalize`.

*Interaction.* Tasks call the Spawner they were given; hooks call back into user
code; several goroutines may finalize; the parent context, `Cancel`, a failing
task under `FailFast` and a panic all cancel the same context, and the first sets
the cause.

*Hard.* A spawn racing with the close of its Spawner and with `wg.Wait`; slots
that must come back on five ways out; two failures at once; a cancellation read
just before the scope cancels itself; `WaitTimeout` leaving a finalizer behind.

*Correct if* no task outlives the join; the limit holds; a nil answer means
every task succeeded, and an error has a culprit; all callers get one answer;
nothing is recorded or reported after the join; cancellation always drains.

### Results (`result.go`)

*State.* A value, an error and a channel closed once. *Operations.*
`SpawnResult`, `Wait`, `Done`. *Interaction.* The deferred resolution runs inside
a scope task, before the scope sees the outcome; readers are outside, or are
tasks that hold a slot. *Hard.* A task that never runs; a reader that learns of a
failure before the scope does. *Correct if* what a reader was told and what
`Scope.Wait` says never contradict each other, and a Result that a running task
owes arrives.

### Semaphore (`semaphore.go`)

*State.* A buffered channel and an atomic counter that follow each other with a
gap. *Operations.* `Acquire`, `TryAcquire`, `Release`. *Hard.* The gap, and
misuse: a `Release` without an `Acquire`. *Correct if* the capacity holds, a
matched `Release` neither blocks nor panics, and `Acquire` returns.

### Pool (`pool.go`)

*State.* The task channel, the `closed` flag, a context, counters, the error
list, the workers' WaitGroup. *Operations.* `Submit`, `TrySubmit`, `Close`,
`Stats`, the workers, the metrics goroutine. *Hard.* `Submit` checks the flag
and sends later, so its send may meet a closed channel and panic; a task may
submit to its own pool; two calls of `Close`. *Correct if* accepted tasks run
before `Close` returns, refused ones never do, failures are all reported, and no
goroutine stays behind.

### Streams (`stream.go`, `stream_ops.go`)

*State.* A `next` function, the joined error, a stop function run once, counters;
each operator keeps variables in its closure (a count, a held item, a partial
batch, the sub-stream of `FlatMap`); `ParallelMap` adds a dispatcher (a scope
task), workers, a result channel, a bridge between contexts, a token semaphore and
a reorder buffer. *Operations.* Sources, sequential operators, `ParallelMap`,
`FlatMap`, terminals, `ToChanScope`, `Stop`. *Hard.* Three contexts and a stop that
may end the dispatcher anywhere; results out of order; bounded buffering; a reader
that leaves; `Stop` in one goroutine while `Next` runs in another; errors and ends
that meet half-filled closures. *Correct if* the reader gets each item once, in
order where promised, all of them when nothing is cancelled; a terminal never
answers nil over a failure and stops what it read; the dispatcher always comes
back to its scope.

### Helpers and races (`helpers.go`, `race.go`)

`ForEachSlice` and `MapSlice` run a task for each item, or a few workers on strided
items (the fast path); `SpawnRetry` has a loop with a select of a timer and a context;
`Race` runs functions in goroutines and takes the first success. *Hard.* Workers that
answer nil when they see a cancellation; two cases of a select ready at once; losers
nobody waits for. *Correct if* nil means that every item was done, each item is called at
most once and within the limit, and the answers of races and retries name what happened.

### Nested scopes (`SpawnScope`, `SpawnTimeout`) and task errors (`task_error.go`)

*State.* None of their own: `SpawnScope` is a task whose function is a `Run`, below the
context of the task, which `SpawnTimeout` may give a deadline. *Operations.* `IsTaskError`,
`TaskOf`, `CauseOf` and `AllTaskErrors` take apart the error that comes out.
*Interaction.* Cancellations descend; errors and panics climb, are wrapped once for each
scope and joined under `Collect`. *Hard.* Two policies and two ways to take a panic that
may differ; failures caused by a cancellation race with its cause. *Correct if* one scope
encloses the other, no failure or panic gets lost on the way up, an error is attributed to
a task of the scope that is asked, and a cancellation ends both scopes.

### Channel utilities (`chanx/`)

*State and operations.* Goroutines that read one or several channels and write
others until an input is closed or a context is cancelled (`Map`, `Merge`, `Buffer`,
`Tee`, `Broadcast`, `Zip`, `Partition`, `Throttle`, `Debounce`, ...), and `Closable`,
a channel with a close that senders may race with. *Hard.* A batch whose flush the
context interrupts, and the deferred flush after it; the last worker of `Merge`;
a clock that fires while a send blocks; a reader that has left; `Send` between the
two updates of `Close`. *Correct if* no value is lost, doubled or moved without a
cancellation, outputs are closed exactly once and last, the goroutine ends, and
what `Send` answers is true.

`examples/` holds programs that use the library; they have no logic of their own.

## 2. Modules

| module | what it is |
|---|---|
| `TaskGroup` | the abstract promise of whatever runs tasks: members join, leave, one verdict |
| `Scope` | the scope, at the grain of one access to shared state; its properties, the refinement of `TaskGroup`, the inductive invariant |
| `ScopeProofs` | theorems about `Scope`, the refinement included, and from them those about `Result` |
| `Result` | `SpawnResult` composed with `Scope` (EXTENDS it; every step of the scope stays, with its meaning for Results) |
| `Semaphore` | the semaphore |
| `Pool` | the pool; a second refinement of `TaskGroup` |
| `PoolProofs` | theorems about `Pool`, the refinement included |
| `ParallelMap`, `ParallelMapProofs` | the parallel map with its reader, and its theorems |
| `Stream`, `StreamProofs` | the other streams: a source, one operator, one terminal, and `Stop` from elsewhere; their theorems |
| `Stage`, `StageProofs` | the nineteen goroutine loops of `chanx`, and their theorems |
| `Closable` | the closable channel |
| `ChannelProofs` | theorems about `Semaphore` and `Closable`, the two components that wrap a channel |
| `Helpers`, `HelpersProofs` | `ForEachSlice`, `MapSlice`, `Race`, `SpawnRetry`, and their theorems |
| `Nested` | a scope in a task of another, the errors and panics between them; two refinements of `TaskGroup` |
| `NestedProofs` | theorems about `Nested`, the refinements included |
| `TaskErrors` | the functions of `task_error.go`, on the errors of `Nested` |
| `MC*` | constants for TLC, one for each of the models |

### How state and actions correspond to the code

A *goroutine* is a program counter, a *context* a flag or a cause, a *channel* a
sequence or, when only its length matters, a number. A step is one critical
section or one operation on an atomic, a WaitGroup, a context or a channel. Steps
that touch only their own goroutine are joined to the next shared one. What user
functions compute is left out; how they end (return nil, an error, panic) is a
choice. `PROJECT.json` names the lines behind each definition. An operator whose
comment begins *Mutation of* is not part of a model: it is a wrong variant of the
definition it names, kept to see that the properties notice.

**Scope.** `pc[t]` follows the goroutine of `Spawn`: `admit` (select on `sem`),
`check` (the context is looked at), `running`, then `panicked` (between the append
to `s.panics` and its cancel), `closing` (`child.close`), `emitting`,
`recording`, `cancelling` (between `firstErr` being set and the cancel, inside the
`sync.Once`, which is why a second failing task must wait: `RecordLater`), and the
deferred calls in the order Go runs them: `unregister`, `release`, `wgdone`,
`deactivate`. `phase` follows finalization: `called`, `joining`
(inside the Once, root Spawner closed), `settling` (past `wg.Wait`,
`ctxWasCancelled` read), `done`. `Call`, `Return`, `TimeOut` are the callers of
`Run`, `Wait` and `WaitTimeout`; a `WaitTimeout` that gives up leaves its finalizer
running. Task tracking and hooks are on, since they only add state. `CompletionKind` takes
an error that only wraps a `*PanicError` (`scope.go:232`) for a plain error; the kind of the
event and the counter differ in the code, and no property tells them apart.

**Result.** Each scope action is either lifted unchanged or, for `BeginTask` and
the end of a function, strengthened with the Spawner used and the value resolved.
A task that waits for a Result may not end before the wait does. `SpawnResult` keeps the
child Spawner from its function (`result.go:56`), where the model lets it be used: there
are more ways to spawn in the model than in the code.

**Semaphore.** `sent` is between the send and the increment in `Acquire`,
`lowered` between the decrement and the receive in `Release`, `undoing` has seen a
negative counter. Only `Misusers` call `Release` without a slot.

**Pool.** A call of `Submit` or `TrySubmit` has passed the check of `closed` in
state `submitting` or `trying`, has sent but not counted in `counting`. The
unbuffered queue hands over only to a worker that receives. `FnEnds` covers return
and recovered panic; `KeepError` is both the increment of `errored` and the append to
the list after it, which differ only while the worker is between them; a task's function
may call `Submit` and then blocks its worker. The initial state chooses the crew (how many workers) and the queue size.

**ParallelMap.** `dpc` follows the dispatcher: `next` (in `src.Next`), `pend`
(select on `pendingSem`), `sem` (select on `sem`), `join`/`giveup` (in `wg.Wait`, on
the normal way out or on an early return), `unwind` (deferred calls), `gone`;
`skipped` if the scope never ran it. `RunDone` is `runCtx`, which ends with the
task's context or by `runCancel`; the bridge calls that when `mapCtx` ends. The
reader is inside `Next` in `loop`. An item stands for its value; `outcome` is the
mapper's result, which may be `io.EOF`. The drain at `stream.go:640-648` has no
action of its own: the loop has already looked for `nextIdx` when it gets there,
so that branch cannot be taken.

**Stream.** One step is one call of `Next` on an underlying stream with what the
operator and the terminal do on the way back: `Yield`, `End` and `Break` are the
three ways such a call returns, `OnItem`, `OnEof` and `OnErr` what the operator's
closure `m` makes of it, `OnGot` what the
terminal does with an item, and `Proceed` the way on or out. The kinds of source
differ in when they may yield, end and fail (`CanYield`, `CanEnd`, `CanFail`). Two are
`Free`: a function given to `NewStream` may answer anything at any time, an item after
`io.EOF` included, which `Batch` can notice (`cuts` are the places where the source has
answered `io.EOF`); the kind `parallel` stands for a `ParallelMap`, whose mapper may do the
same, and which may answer `io.EOF` with a recorded error (`hidden`). An error may bring a
value (`with`): a partial batch, a value of the function of `Map`, or that of the source;
only `First` hands it on. The function of `Map` may answer `io.EOF`, too, and so end a
stream whose source is open. `Stop` and `StopOne` are `stopNow`, from the terminal or from outside;
the first to come runs the stop function and the other waits.

**Stage.** All loops have one shape: select on inputs, a clock and the context,
then a send in a select with the context. `Receive`, `InputEnds`, `Tick` and
`OnCancelled` are the cases of the first select, `Send` and `GiveUp` of the second;
`Return` and `Closer` close the outputs. An operator for each function says what it
makes of an item, a tick and the end. Time is a clock that fires when it
likes; `time.Now` in the sliding window is a choice of how many items have expired.
The environment closes inputs, cancels, reads, and leaves. What an output has to be
is said of whole sequences, without a loop: `ItemsDeliver` selects, from what a
function makes of the items received, the positions meant for an output; the
functions that hold items have properties of their own: `BatchesDeliver` and
`DebounceDelivers`, which say, too, that nothing stays behind in a goroutine that has left
without a cancellation, and `SlidingDelivers`, by which every window is a run of the items
and neither end of a window moves back; it does not say that each item is in some window.

**Closable.** `ClosableInit`, `ClosableNext` and `ClosableSpec` carry the module's name because
`ChannelProofs` extends it beside `Semaphore`. A sender is `checked` between its load of the flag and its select,
`missed` when `TrySend` took the default case and is about to load the flag again. A
closer is `flagging`, `closing`, or `waiting` for the `sync.Once`. The consumer does
what the comment on `Chan` (`closable.go:116-127`) recommends.

**Helpers.** The scope under `ForEachSlice` and `MapSlice` is reduced to slots, a
cancellation and the join, since `Scope` has its steps. The fast path has one
goroutine for each worker and a stride; `Race` a buffered channel and a reader;
`SpawnRetry` a delay that doubles, with `waited` the backoffs that have passed.

**Nested.** An error is a tree, with below each node what its `Unwrap` gives; the operators
on it, in `TaskErrors`, are the functions of `task_error.go`, and `As` and `Chain` stand for
the package `errors`. `Chain` unwraps four times, as deep as an error of two scopes goes:
the joined errors of the outer, the error of `Host`, the joined errors of the inner, the
error of a task and what it wraps. Of each scope the module keeps who is in it, its door, its context, its
errors and its verdict. `Record` joins what `Scope` does in several steps (hooks,
`recordError` and the cancel), and `Finalize` the whole of finalize, the end of `Run` and,
for the inner scope, that of the function of `Host`. `ScopesNest` shows that what is
left is still a `TaskGroup`, the promise `Scope` was shown to keep; what happens inside
these steps is the business of `Scope`. `SpawnScope` gives its function no Spawner of the
outer scope, so `Host` spawns nothing there. Slots, hooks and `WithMaxErrors` are left out.

## 3. Runs

| run | instance | what it shows | states |
|---|---|---|---|
| `scope` | 3 tasks (2 nesting), 1 caller, 4 configurations | joined, bounded, nothing silent, nothing spurious, blame, accounts of errors and events, frozen after the join, refinement of `TaskGroup`, `IInv` of the proofs | 1120 k |
| `scope_waiters` | 2 tasks, 2 callers of `Wait` and `WaitTimeout`, FailFast with one slot, fair | callers agree; cancellation and failure drain the scope | 165 k |
| `result` | 2 tasks, both with Results, 1 slot, 1 outside reader, fair | Results and `Wait` agree, Results of running tasks arrive | 197 k |
| `semaphore` | 3 users of 2 slots, one rogue, fair | no blocked `Release`, `IInv`, `Acquire` returns | 16 k |
| `pool` | 2 submissions, from outside or a task; crews of one or two, 2 closers, queue 0 and 1; fair | accepted and refused tasks, reports of `Close` and `Stats`, `IInv`, refinement, everything ends | 157 k |
| `parallel_map` | 3 items; 5 settings, ordered or not, 1 or 2 workers and tokens, failing source and mappers; fair | delivery, bounded buffering, close after the last worker, stop is no error, dispatcher and reader end | 601 k |
| `stream` | every operator, source and terminal; 3 items of 2 values, sub-streams of 2 | items, answers and stops are those of the definition on whole sequences | 852 k |
| `stage` | the nineteen loops; 4 items, n = 2, 2 outputs, 3 windows, fair | delivery, closing last, the rate of `Throttle`, everything ends | 150 k |
| `closable` | 3 senders, 2 closers, capacity 0 and 1, fair | `ClosableInv` (closing in order, true answers), no blocked sender after `Close` | 468 k |
| `helpers` | up to 4 items, racers or attempts; limits 0, 1, 2; both policies, with and without hooks; fair | answers are true, and come | 91 k |
| `nested` | 2 tasks in a scope inside a scope with 1 more; both policies and ways to take panics for each, deadline or not | one scope encloses the other; attribution, nothing lost, the cause named, panics climb; both are `TaskGroup`s | 1120 k |
| `result_hang` | small | the finding below, which refutes a sentence of the documentation | |

**Bounds.** All are in the MC modules and configurations: the number of goroutines, the
capacities, the settings, and the items an input or a source offers (`MaxItems`, `MaxSub`,
`MaxWindows`, `MaxCalls`); counters are bounded by these. Two tasks are needed for a race
of failures, a third for a task that waits for a slot meanwhile or is spawned by a task
that is failing; two callers for agreement; three users of two slots for contention; three
items with two workers for a result that comes two places too early and for a token that
runs out; three items of two values for a batch of two with a rest, for a repeated value,
and for a predicate that fails and then holds again; four for two full batches, a refilled
bucket and a second round of `FanOut`; two inner tasks for one that fails and one that is
cancelled for it (with a deadline only the pairs of scopes whose panics are not errors are
taken); four items and two workers for a second turn of the stride; three senders for one
that is refused while one is blocked and one has sent. Further goroutines of a kind repeat
what these do; for the scope, the Results, the semaphore, the pool, the parallel map, the
closable channel, the streams, the stages, the helpers and the nested scopes the theorems
remove the bound. Symmetry is used in a run without liveness properties only.
`ImplementsTaskGroup` is a safety property (`TaskGroup!Spec` has no fairness).

**Fairness.** Goroutines that can run do run (weak fairness of each goroutine),
which the Go scheduler gives. A sender blocked on a slot channel is served when
slots keep coming free (strong fairness of `Acquire` in the scope and of `Send` in the
semaphore): the runtime queues blocked senders. A call of `Submit` needs no more than weak
fairness in the pool. A select takes a case
that is ready again and again (strong fairness of `InputEnds` in `Stage`): Go chooses
among the ready ones at random. User functions are required to return once their
context is cancelled (`Cooperative`), nothing before; in the pool and in the mapper,
to return. `Helpers!Answers` puts this in its premise. A holder of a semaphore slot
releases it. Nothing is assumed about when, or whether, a context is cancelled or
`Cancel`, `Close`, `Stop` are called, nor that anyone reads: `ReaderReachesEnd` and
`Stage!Ends` say so in their premises, and `SendersReturn` holds without a consumer.

**Deadlock.** TLC checks for it in the scope and semaphore runs, where terminated programs
stutter explicitly or do not terminate. It is off where the program really stops (pool,
streams, stages, closable channel, helpers, nested scopes), and in the result runs because
a reader may wait for ever, which is a finding.

## 4. Proofs

What is assumed: `ScopeAssumption`, `SemaphoreAssumption`, `PoolAssumption`,
`ClosableAssumption`, `ResultAssumption`, `ConfigsAssumption`, `HelpersAssumption`,
`StageAssumption`, `StreamAssumption` and `NestedAssumption`, that is, finite sets of tasks,
users, workers and senders, settings of the right type, crews that are not empty, a host
that is no leaf, and no number that the function panics on (zero or a negative one). No bound on the number of tasks, callers, slots, workers, items or errors remains.

*Scope.* `StructuredJoin` is not inductive: that no task is live after `wg.Wait`
needs to know what `wg` counts (`Counting`) and that nobody is left who could raise
it again (`Doors`: a child Spawner is open only while its task is live, the root
only before finalization has closed it). `NoSilentFailure` needs to know what a task
leaves behind by the time it counts itself out (`Traces`: its error, its panic, or
a cancelled context), where each goroutine is (`Progress`), and what finalize has
computed (`Finishing`); `BlameIsOriginal` needs `Causes` and `Reports`. `IInv` is
their conjunction with `TypeOK`; `ScopeProofs` has one lemma for each group of
actions and a theorem for each property that follows. Cardinalities change by
one lemma for a place that gains or loses a task. `Accounting` (every error noted is
stored or dropped, and dropped only from a full list; every event is told once) is a
statement about numbers: `Accounts` says of which tasks they are, those past their
`recordError` and those past their hook, so that a step changes set and number
together. A second part of `ScopeProofs` shows that, under `IInv`, each step of the scope is a step of `TaskGroup` or a stutter: only
`BeginTask` admits, only `WgDone` lets a member leave, only the last step of
finalize decides.

*Result.* Every behaviour of `Result` is one of `Scope` (`IsScope`), so `IInv` is at
hand. `RInv` adds that a Result is resolved while its task runs, with what the scope
is about to see as its outcome, that one still unresolved after that belongs to a task
that never started, and that a reader has been told what the Result holds. What a reader
knows of is therefore the outcome of the task, then or later, and if that is a failure, by
`NotSilent` no caller of `Wait` gets nil. Each reader reads once; that all readers of a
Result hear the same follows, for what they hear is the outcome.

*Semaphore.* `IInv` says that channel and counter differ by exactly the calls
between their two updates. A user in `lowered` has decremented a counter that
stayed non-negative, so at least as many elements are in the channel as there are
such users (`FloorHolds`): `Release` never blocks, even when misused.

*Pool.* That an accepted task has run when `Close` returns needs to know where it is
meanwhile. `Placed`: a task is at one place of the queue or with one worker, and not
yet run while it waits. `Admitted`: a task is accepted exactly if it is there or has
an outcome. `Doors`: the channel is shut only under the flag, a worker leaves only a
shut and empty queue, and a caller of `Close` returns only when all have left.
`Errors`: the list, its counter and the outcomes say the same, but for the workers in
between. `StatsAccount` is the sum of the counters. The end of `PoolProofs` shows the pool
to be a `TaskGroup` with the scope's promises: the send of a submission admits, the last
step of `runTask` leaves, and the first `Close` that returns decides; a hand-over
without a buffer and a send into one are the same step of the group.

*Stage.* `OutputsRight` compares an output with what was received, at every moment, and
says nothing of what is between the two: the memory of the goroutine and the sends it has
yet to make. The invariant does, function by function. `ItemsInv`, for those that make one
value of an item: the positions already sent are an initial part of those chosen; a
value under way is the next (`Selects` gains one position at the end, `SelectsMore`); and
`Memorized` says what the counter or the held item stands for. `MergeInv` counts the items of each input
on the output. `HeldInv`, for those that hold items: what is being sent is what is held, and
at the end it is sent unless the context keeps it back. On it rest `DebounceInv`,
`BatchesInv` (the batches and the held rest are consecutive runs, `Runs`), `ReasonsInv`
(their sizes and reasons) and `SlidingInv` (runs that start no later than what is held). `ClosedInv`
says why a goroutine has left its loop, and `RateInv` that what `Throttle` may still send at
once, tokens, the item in its hand and a kept tick, is what the rate leaves it. `GathersIs`,
`FlushesIs` and `GivesIs` describe the steps of all five windows, so that each invariant is
four cases. That nothing is still held at the end, without a cancellation, was added to the
delivery properties on the way.

*Closable.* `CloseInOrder` (the flag before the channel, one caller in the `sync.Once`)
is what makes the truth of the answers inductive: a call that begins after a
`Close` has returned finds the flag.

*ParallelMap.* `DeliveredInFull` needs to know where each item is: with a worker, in
the channel, kept by the reader or returned, at one of these places and once
(`Places`), and without a cancellation nowhere else (`Complete`). In ordered mode
what was returned is what comes first (`Order`). `Tokens` is `TokensCoverResults` with
the token of the item that the dispatcher holds; without that term it is not
inductive. `Dispatch` says that items after the last one taken have no worker, and
that the deferred calls begin when all workers have left; `Blame` traces every
cancelled context back to the user, so that dropping a result shows that somebody
cancelled. That the reader of an undisturbed stream meets no gap is `NoGap`: every
item is kept or returned, those returned are the first, and the next is not kept.

*Stream.* What comes out of an operator does not depend on who reads it, so the invariant
has three parts. `OperatorInv` relates the items that were pulled and those that came out
to the variables of the closure, operator by operator: `Take` and `Skip` have counted what they say,
`Distinct` holds the set of what it was given, `Batch` what follows the last of the places
where the items are cut into batches (`CutAt`; after `N` items or where the source has
ended, and nowhere else), `Zip` the item without a partner,
`FlatMap` is in the sub-stream of the last item and the streams it has not made yet are
empty. `SingleMoves` makes two cases of a
step of any operator with one input: an item is answered, or nothing more comes.
`TallyInv` and `AnswerInv` are about the terminal alone: its tally is what the items make
it (but for the item that a cancelled `ToChanScope` holds), `Any` and `All` have seen
nothing yet that would end them, and an error or a recorded failure is always an answer.
`StopInv` says which streams Stop still has to reach: one that `FlatMap` leaves is stopped
when it is left, so what is made and not stopped are the source, the current sub-stream and
the second input of `Zip`, which is what the stop function lists. The definitions that say
what should come out are without recursion (a selection of positions, the places where batches
end, the places of a grid), so that one more item is one more position at the end
(`SelectsMore`, `CutGrows`, `JoinedMore`).

*Helpers.* `AnswersTrue` is about the moment of the answer; the invariant says of every
goroutine which item, attempt or racer it is at and what it has behind it. `SliceInv`: a
worker of the fast path is at an item of its own residue and has done those a stride or
more below, unless the scope knows of a failure or a cancellation. That two workers never
meet, and that together they leave out no item, is arithmetic on numbers a stride apart.
`RaceInv`: what is in the channel of `Race` is what racers returned, and the reader has
counted those it took. `RetryInv`: the backoffs passed are those before the attempt, each
twice the one before.

*Nested.* The verdicts of two scopes are trees of errors, but none is made in a step: each
is put together from what was recorded, and what was recorded is how a task ended. `Shapes`
says that the lists of a scope hold ends of its tasks and nothing else, `Traces` that every
end is in them as the policy wants it, `Verdicts` what a verdict is made of, `Endings` that
`Host` ends as the inner Run does, and `Inside` that the inner scope lives while `Host`
runs. `PanicsClimb` and the first half of `FailuresClimb` follow by going up, scope by
scope. The second half, that an error names a cause, needs `Blame`: a scope is cancelled
from within only for what it has recorded, and the first failure recorded, which `FailFast`
reports, is not of a task that was cancelled for another. For the refinements, `Visible`
describes a step by what either group sees of it, for any of the two scopes; `OuterGroup` and
`InnerGroup` then read it as a step of theirs. `NamedByVerdict` is about the tree that the
functions of `task_error.go` are given: the error of a Run is a TaskError of that scope, or a
joined list of them that is not empty and names no task twice, each over what the function of
its task returned. Its invariant is `NamesOnce`, the same of the recorded list: a task
is recorded when it begins to leave, so it is not yet in the list. TLC has checked this invariant and those of
`HelpersProofs` and `StreamProofs` on the instances of the runs before they were proved.

*Only model-checked.* Liveness and everything about ENABLED, which are out of the prover's
reach, and `Attributed`, which is about the recursive functions of `task_error.go`: what
those compute for every error is an induction over data, which is out of reach as well.
What they are applied to is proved: by `NamedByVerdict` the list at the top of the error of a
Run holds TaskErrors only, and a TaskError ends the walk. That the walk then returns just this
list is what `Attributed` leaves to TLC.
Only `TaskErrors` uses RECURSIVE operators, and no module with a theorem reaches it. Every
other property of the passing runs is stated by a theorem.

## 5. Findings

*A Result that never resolves* (`result.go:78`, run `result_hang`). If the scope is
cancelled before the task's function starts, the deferred resolution is never registered
and `Wait` blocks for ever, where `result.go:76` promises that it "blocks until the task
completes"; a parent that waits like this keeps the scope from ending.

Seen while modelling, without a run of their own:

- Scope. The deferred `wg.Done` runs before the decrement of `activeTasks`
  (`spawner.go:46-47`), so `ActiveTasks` may be above zero after `Wait`, where a test
  expects zero (`scope_test.go:815`). Without `WithPanicAsError` a recovered panic is
  reported as `EventDone` (`scope.go:229`, against `options.go:30,34`). A task
  cancelled while it waits for a slot emits no event and raises no counter
  (`spawner.go:54-57`), though `options.go:36,186` suggest `EventCancelled`.
- Pool. `Submit` may accept a task after its context is cancelled (`pool.go:194-199`, a
  select with both cases ready).
- Semaphore. A rogue `Release` can make a rightful one panic and lose its slot
  (`semaphore.go:55-58`), the reason for the exception in `AcquireEnds`.
- Closable. A `Send` past its check may succeed after `Close` has returned
  (`closable.go:107`), and nobody may ever read its value.
- Stages. `Zip` does not notice that its second input is closed while the first is
  silent (`zip.go:13`). `BufferWithReason` gives `FlushClose` on a cancellation, too
  (`buffer.go:109`), even with a full batch. After a pause `Throttle` sends a full
  bucket and then at its rate, more than n items in one period (`throttle.go:13-15`). `First`
  may be ended by a closed input though another would deliver.
- Streams. `TakeWhile` goes on when it is asked again after its end. All terminals but
  `First` drop what comes with an error, such as the partial batch of `Batch`. A function
  given to `Map` that answers `io.EOF` ends the stream: the terminal answers nil with the
  source still open, and the item is lost (`stream.go:397`), the exception in `AnswerRight`
  and in `Meant`. A sub-stream that `FlatMap` makes after a
  `Stop` from outside is not stopped (`stream.go:93-94`), the exception in
  `StopReaches`. An error that a `ParallelMap` has recorded with `io.EOF` is not seen
  through a stream derived from it, the exception in `AnswerRight`.
- Missing items (`stream.go:663`). A cancelled ordered `ParallelMap` whose lost items come
  last ends in `io.EOF` with `Err()` nil, not in `ErrStreamGap` (`stream.go:15`).
- Task errors (`task_error.go:77`). `AllTaskErrors` "recursively collects every
  [*TaskError] from err's chain", but stops at the first of each branch: of a
  `SpawnScope` it gives the hosting task, not the tasks inside. It is why `Attributed`
  holds. `CauseOf` likewise gives the error of the inner scope rather than the root cause
  that `Readme.md:82` speaks of.
- Helpers. `Race` does not wait for the losers, and answers `ctx.Err()` rather than the
  last error when the context ends after all have failed. "If ctx is cancelled before any
  task succeeds, Race returns ctx.Err()" (`race.go:14-15`) is not what a task gets that
  succeeds after the cancellation: its success is sent, and `Race` returns it with nil
  (`race.go:64-68`). `RaceHonest` allows both answers, and `Answers` demands the success
  only if it was sent before the cancellation, where comment and code agree. The select of `SpawnRetry`
  may start another attempt after a cancellation.

## 6. What is not modelled

The metrics and stall tickers of the scope, whose callbacks only read; `Snapshot`, which
reads six counters one after the other and may show a sum that never was (`scope.go:481`);
durations and the contents of errors and events; `runtime.Goexit` in user functions
(`spawner.go:97`, `pool.go:148`) and panics in hooks (`spawner.go:115`), which leave the
paths all modules assume; a `Close` called from a function of its own pool
(`pool.go:233`), which waits for itself; calls that panic by contract (nil arguments, `Go`
on a closed Spawner), which leave the state as it is; the detector of concurrent `Next`
and the counters of `Stats` in streams; chains of several operators (one operator over an
arbitrary source stands for each link); deeper nesting than one scope in another, and, of
two nested scopes, liveness; `Send`, `TrySend`, `RecvBatch` and their like in `chanx`,
each one select or a loop around one; the examples, programs that use the library.

## 7. Plan

In this order: an abstract ordered stream (a reader gets a prefix of what the source gave,
and the whole of it at an undisturbed end), which `ParallelMap` and the sequential operators
refine, so that chains of operators follow by composition; `Nested` for any depth of nesting.
