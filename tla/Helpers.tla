------------------------------ MODULE Helpers ------------------------------
(***************************************************************************)
(* The helpers that call a function on many items, or one item many times: *)
(* ForEachSlice and MapSlice, on a scope; Race, on goroutines of its own;  *)
(* SpawnRetry, in a task.  A call is numbered by its item or its attempt.  *)
(* The scope is reduced to what the helpers see of it (slots, one error    *)
(* that cancels, the join); module Scope has its steps one by one.         *)
(***************************************************************************)
EXTENDS Integers, FiniteSets, SequencesExt

CONSTANTS
    Kinds,      \* the helpers considered
    MaxCalls,   \* bound: the items, or n + 1 for the n of SpawnRetry
    Limits      \* the values of WithLimit considered, 0 for none

ASSUME HelpersAssumption ==
    /\ Kinds \subseteq {"forEach", "map", "race", "retry"}
    /\ MaxCalls \in Nat /\ Limits \subseteq Nat

VARIABLES
    cfg,        \* the helper, the number of items, the options
    count,      \* per call, how often it was made
    outcome,    \* per call: "none", "running", "ok", "err"
    gor,        \* the goroutines: control point, and the item each is at
    cut,        \* the context given to the functions is cancelled
    parent,     \* the context given to the helper is cancelled
    blame,      \* the call whose error is recorded first, or 0
    results,    \* MapSlice: per item "zero", "value" or "err"
    chan,       \* Race: the goroutines, in the order of their sends
    taken,      \* Race: how many of these the reader has received
    closed,     \* Race: the channel is closed
    delay,      \* SpawnRetry: the next backoff, in units of the first
    waited,     \* SpawnRetry: the backoffs that have passed, in order
    answer      \* what the helper returns: kind "none" before

vars == <<cfg, count, outcome, gor, cut, parent, blame, results, chan, taken, closed,
          delay, waited, answer>>

Slices == {"forEach", "map"}
Calls  == 1 .. cfg.n

\* The fast path: a few workers instead of a task for each item.
shouldUseWorkerFastPath(c) ==
    c.kind \in Slices /\ c.n > 0 /\ c.limit > 0 /\ c.policy = "FailFast" /\ ~c.hooks
workerCount(c) == IF c.limit <= 0 \/ c.limit > c.n THEN c.n ELSE c.limit
FastPath == shouldUseWorkerFastPath(cfg)

Goroutines(c) == IF shouldUseWorkerFastPath(c) THEN 1 .. workerCount(c)
                 ELSE IF c.kind = "retry" THEN {1} ELSE 1 .. c.n
Gors == Goroutines(cfg)

Ret(k, i) == [kind |-> k, call |-> i]

Init ==
    /\ cfg \in [kind : Kinds, n : 0 .. MaxCalls, limit : Limits,
                policy : {"FailFast", "Collect"}, hooks : BOOLEAN]
    /\ cfg.kind \notin Slices => cfg.limit = 0 /\ cfg.policy = "FailFast" /\ ~cfg.hooks
    /\ cfg.kind = "retry" => cfg.n > 0
    /\ count = [i \in Calls |-> IF cfg.kind = "race" THEN 1 ELSE 0]
    /\ outcome = [i \in Calls |-> IF cfg.kind = "race" THEN "running" ELSE "none"]
    /\ gor = [g \in Gors |-> [pc |-> IF cfg.kind = "race" THEN "call" ELSE "new", at |-> g]]
    /\ cut = FALSE /\ parent = FALSE /\ blame = 0
    /\ results = [i \in Calls |-> "zero"]
    /\ chan = <<>> /\ taken = 0 /\ closed = FALSE
    /\ delay = 1 /\ waited = <<>>
    /\ answer = IF cfg.kind = "race" /\ cfg.n = 0 THEN Ret("nil", 0) ELSE Ret("none", 0)

At(g, pc) == gor[g].pc = pc
Goto(g, pc) == gor' = [gor EXCEPT ![g].pc = pc]

Make(g, i) ==
    /\ count' = [count EXCEPT ![i] = @ + 1]
    /\ outcome' = [outcome EXCEPT ![i] = "running"]
    /\ gor' = [gor EXCEPT ![g] = [pc |-> "call", at |-> i]]

-----------------------------------------------------------------------------
\* ForEachSlice and MapSlice.

\* A task gets a slot, gives up waiting for one, or is skipped.
Admit(g) ==
    /\ cfg.kind \in Slices /\ At(g, "new")
    /\ cfg.limit > 0 =>
          Cardinality({h \in Gors : gor[h].pc \in {"admitted", "loop", "call"}}) < cfg.limit
    /\ Goto(g, "admitted")
    /\ UNCHANGED <<cfg, count, outcome, cut, parent, blame, results, chan, taken, closed,
                   delay, waited, answer>>

Skip(g) ==
    /\ cfg.kind \in Slices /\ cut
    /\ At(g, "admitted") \/ (At(g, "new") /\ cfg.limit > 0)
    /\ Goto(g, "gone")
    /\ UNCHANGED <<cfg, count, outcome, cut, parent, blame, results, chan, taken, closed,
                   delay, waited, answer>>

StartTask(g) ==
    /\ At(g, "admitted") /\ ~cut
    /\ Goto(g, "loop")
    /\ UNCHANGED <<cfg, count, outcome, cut, parent, blame, results, chan, taken, closed,
                   delay, waited, answer>>

\* A worker looks at the context before each of its items.
CallItem(g) ==
    /\ At(g, "loop") /\ gor[g].at <= cfg.n
    /\ FastPath => ~cut
    /\ Make(g, gor[g].at)
    /\ UNCHANGED <<cfg, cut, parent, blame, results, chan, taken, closed, delay, waited, answer>>

\* A worker returns nil, at its end and also when it was cancelled.
LeaveLoop(g) ==
    /\ At(g, "loop") /\ FastPath
    /\ gor[g].at > cfg.n \/ cut
    /\ Goto(g, "gone")
    /\ UNCHANGED <<cfg, count, outcome, cut, parent, blame, results, chan, taken, closed,
                   delay, waited, answer>>

\* The error of a task reaches the scope, except in a MapSlice that collects.
Recorded == ~(cfg.kind = "map" /\ cfg.policy = "Collect")

\* Mutation of Stride: one item too far.
StrideFurther == workerCount(cfg) + 1

Stride == workerCount(cfg)

ItemDone(g) ==
    /\ cfg.kind \in Slices /\ At(g, "call")
    /\ outcome' = [outcome EXCEPT ![gor[g].at] = "ok"]
    /\ results' = IF cfg.kind = "map" THEN [results EXCEPT ![gor[g].at] = "value"] ELSE results
    /\ gor' = IF FastPath THEN [gor EXCEPT ![g] = [pc |-> "loop", at |-> @.at + Stride]]
                          ELSE [gor EXCEPT ![g].pc = "gone"]
    /\ UNCHANGED <<cfg, count, cut, parent, blame, chan, taken, closed, delay, waited, answer>>

ItemFails(g) ==
    /\ cfg.kind \in Slices /\ At(g, "call")
    /\ outcome' = [outcome EXCEPT ![gor[g].at] = "err"]
    /\ results' = IF cfg.kind = "map" THEN [results EXCEPT ![gor[g].at] = "err"] ELSE results
    /\ blame' = IF Recorded /\ blame = 0 THEN gor[g].at ELSE blame
    /\ cut' = (cut \/ cfg.policy = "FailFast")
    /\ Goto(g, "gone")
    /\ UNCHANGED <<cfg, count, parent, chan, taken, closed, delay, waited, answer>>

\* Wait joins the tasks; its own cancel comes after it has looked at the context.
Verdict == IF blame # 0 THEN Ret("err", blame)
           ELSE IF cut THEN Ret("ctx", 0) ELSE Ret("nil", 0)

Wait ==
    /\ cfg.kind \in Slices /\ answer.kind = "none"
    /\ \A g \in Gors : At(g, "gone")
    /\ answer' = Verdict
    /\ cut' = TRUE
    /\ results' = IF Verdict.kind # "nil" /\ cfg.policy = "FailFast"
                  THEN [i \in Calls |-> "zero"] ELSE results
    /\ UNCHANGED <<cfg, count, outcome, gor, parent, blame, chan, taken, closed, delay, waited>>

-----------------------------------------------------------------------------
\* Race.

RacerReturns(g) ==
    /\ cfg.kind = "race" /\ At(g, "call")
    /\ \E o \in {"ok", "err"} : outcome' = [outcome EXCEPT ![g] = o]
    /\ Goto(g, "send")
    /\ UNCHANGED <<cfg, count, cut, parent, blame, results, chan, taken, closed,
                   delay, waited, answer>>

\* Mutation of Room: a channel without a buffer for those who come late.
RoomForOne == IF answer.kind = "none" THEN 1 ELSE 0

Room == cfg.n

SendResult(g) ==
    /\ At(g, "send") /\ Len(chan) - taken < Room
    /\ chan' = Append(chan, g)
    /\ Goto(g, "gone")
    /\ UNCHANGED <<cfg, count, outcome, cut, parent, blame, results, taken, closed,
                   delay, waited, answer>>

Close ==
    /\ cfg.kind = "race" /\ cfg.n > 0 /\ ~closed
    /\ \A g \in Gors : At(g, "gone")
    /\ closed' = TRUE
    /\ UNCHANGED <<cfg, count, outcome, gor, cut, parent, blame, results, chan, taken,
                   delay, waited, answer>>

\* Mutation of Receive: the first to come wins, failed or not.
ReceiveAny ==
    /\ cfg.kind = "race" /\ answer.kind = "none" /\ taken < Len(chan)
    /\ taken' = taken + 1
    /\ answer' = Ret(IF outcome[chan[taken + 1]] = "ok" THEN "nil" ELSE "err", chan[taken + 1])
    /\ cut' = TRUE
    /\ UNCHANGED <<cfg, count, outcome, gor, parent, blame, results, chan, closed, delay, waited>>

\* The reader takes the results one by one, up to the first success.
Receive ==
    /\ cfg.kind = "race" /\ answer.kind = "none" /\ taken < Len(chan)
    /\ taken' = taken + 1
    /\ LET g == chan[taken + 1]
       IN IF outcome[g] = "ok" THEN answer' = Ret("nil", g) /\ cut' = TRUE /\ UNCHANGED blame
                               ELSE blame' = g /\ UNCHANGED <<answer, cut>>
    /\ UNCHANGED <<cfg, count, outcome, gor, parent, results, chan, closed, delay, waited>>

AllFailed ==
    /\ cfg.kind = "race" /\ answer.kind = "none" /\ closed /\ taken = Len(chan)
    /\ answer' = IF parent THEN Ret("ctx", 0) ELSE Ret("err", blame)
    /\ cut' = TRUE
    /\ UNCHANGED <<cfg, count, outcome, gor, parent, blame, results, chan, taken, closed,
                   delay, waited>>

-----------------------------------------------------------------------------
\* SpawnRetry, in a task that has started.

FirstAttempt ==
    /\ cfg.kind = "retry" /\ At(1, "new")
    /\ Make(1, 1)
    /\ UNCHANGED <<cfg, cut, parent, blame, results, chan, taken, closed, delay, waited, answer>>

AttemptSucceeds ==
    /\ cfg.kind = "retry" /\ At(1, "call")
    /\ outcome' = [outcome EXCEPT ![gor[1].at] = "ok"]
    /\ answer' = Ret("nil", gor[1].at) /\ Goto(1, "gone")
    /\ UNCHANGED <<cfg, count, cut, parent, blame, results, chan, taken, closed, delay, waited>>

AttemptFails ==
    /\ cfg.kind = "retry" /\ At(1, "call")
    /\ outcome' = [outcome EXCEPT ![gor[1].at] = "err"]
    /\ blame' = gor[1].at
    /\ IF gor[1].at = cfg.n
       THEN answer' = Ret("err", gor[1].at) /\ Goto(1, "gone")
       ELSE UNCHANGED answer /\ Goto(1, "backoff")
    /\ UNCHANGED <<cfg, count, cut, parent, results, chan, taken, closed, delay, waited>>

\* Mutation of Elapsed: the delay is doubled before the timer is made, too.
ElapsedDoubled ==
    /\ cfg.kind = "retry" /\ At(1, "backoff")
    /\ waited' = Append(waited, 2 * delay) /\ delay' = 2 * delay
    /\ Make(1, gor[1].at + 1)
    /\ UNCHANGED <<cfg, cut, parent, blame, results, chan, taken, closed, answer>>

\* The select takes the timer, whether or not the context is cancelled as well.
Elapsed ==
    /\ cfg.kind = "retry" /\ At(1, "backoff")
    /\ waited' = Append(waited, delay) /\ delay' = 2 * delay
    /\ Make(1, gor[1].at + 1)
    /\ UNCHANGED <<cfg, cut, parent, blame, results, chan, taken, closed, answer>>

SeeContext ==
    /\ cfg.kind = "retry" /\ At(1, "backoff") /\ cut
    /\ answer' = Ret("ctx", 0) /\ Goto(1, "gone")
    /\ UNCHANGED <<cfg, count, outcome, cut, parent, blame, results, chan, taken, closed,
                   delay, waited>>

-----------------------------------------------------------------------------
ParentCancel ==
    /\ ~parent
    /\ parent' = TRUE /\ cut' = TRUE
    /\ UNCHANGED <<cfg, count, outcome, gor, blame, results, chan, taken, closed, delay,
                   waited, answer>>

FnEnds(g) == ItemDone(g) \/ ItemFails(g) \/ RacerReturns(g)
FnEnds1   == AttemptSucceeds \/ AttemptFails
GoStep(g) == Admit(g) \/ Skip(g) \/ StartTask(g) \/ CallItem(g) \/ LeaveLoop(g) \/ SendResult(g)
RaceStep  == Close \/ Receive \/ AllFailed

Next ==
    \/ \E g \in Gors : GoStep(g) \/ FnEnds(g)
    \/ Wait \/ RaceStep
    \/ FirstAttempt \/ FnEnds1 \/ Elapsed \/ SeeContext
    \/ ParentCancel

\* What is ready to run does; a function returns when it likes, and a timer may take
\* its time, as the backoffs grow.
Fairness ==
    /\ \A g \in 1 .. MaxCalls : WF_vars(g \in Gors /\ GoStep(g))
    /\ WF_vars(Wait) /\ WF_vars(RaceStep)
    /\ WF_vars(FirstAttempt) /\ WF_vars(SeeContext)

Spec     == Init /\ [][Next]_vars
FairSpec == Spec /\ Fairness

-----------------------------------------------------------------------------
\* ForEachSlice and MapSlice call the function on no item twice, nor on more items
\* at once than the limit.  An answer of nil means every item was done, or for a
\* MapSlice that collects has its error in its result; an error is that of an item;
\* the context is blamed only when the caller's has ended.  No result contradicts
\* the call it is of (helpers.go:23-52, 89-139).
SliceHonest ==
    cfg.kind \in Slices =>
        /\ \A i \in Calls : count[i] <= 1
        /\ cfg.limit > 0 => Cardinality({i \in Calls : outcome[i] = "running"}) <= cfg.limit
        /\ answer.kind = "nil" =>
              \A i \in Calls : outcome[i] = "ok" \/ (~Recorded /\ outcome[i] = "err")
        /\ answer.kind = "err" => outcome[answer.call] = "err"
        /\ answer.kind = "ctx" => parent
        /\ cfg.kind = "map" /\ (answer.kind = "nil" \/ cfg.policy = "Collect") =>
              \A i \in Calls : /\ results[i] = "value" <=> outcome[i] = "ok"
                               /\ results[i] = "err" <=> outcome[i] = "err"

\* Race answers with the first success that was sent, whatever failed before and
\* whatever comes after, and with an error only when every task has failed; the
\* tasks that go on are cancelled when it returns (race.go:42-75).
RaceHonest ==
    cfg.kind = "race" /\ cfg.n > 0 /\ answer.kind # "none" =>
        /\ cut
        /\ answer.kind = "nil" =>
              \E k \in DOMAIN chan :
                  /\ chan[k] = answer.call /\ outcome[chan[k]] = "ok"
                  /\ \A j \in 1 .. k - 1 : outcome[chan[j]] = "err"
        /\ answer.kind # "nil" => \A i \in Calls : outcome[i] = "err"
        /\ answer.kind = "err" => answer.call = Last(chan)
        /\ answer.kind = "ctx" => parent

\* The backoffs that were waited for: each is twice the one before.
Doubling == \A k \in DOMAIN waited : waited[k] = IF k = 1 THEN 1 ELSE 2 * waited[k - 1]

\* SpawnRetry makes each attempt after one backoff more, twice as long as the last,
\* and never after a success; it fails with the last of n + 1 errors, and with the
\* context only between two attempts (helpers.go:228-246).
RetryHonest ==
    cfg.kind = "retry" =>
        /\ \A i \in Calls : count[i] = 1 => \A j \in 1 .. i - 1 : outcome[j] = "err"
        /\ At(1, "call") => Len(waited) = gor[1].at - 1 /\ Doubling
        /\ answer.kind = "nil" => outcome[answer.call] = "ok"
        /\ answer.kind = "err" => \A i \in Calls : outcome[i] = "err"
        /\ answer.kind = "ctx" => cut /\ \E i \in Calls : count[i] = 0

\* ForEachSlice, MapSlice, Race and SpawnRetry tell the truth.
AnswersTrue == SliceHonest /\ RaceHonest /\ RetryHonest

NoneRunning == \A i \in Calls : outcome[i] # "running"
AllGone == answer.kind # "none" /\ \A g \in Gors : At(g, "gone")

Succeeded == \E k \in DOMAIN chan : outcome[chan[k]] = "ok"

\* The helper answers and leaves no goroutine behind, provided the functions return;
\* SpawnRetry does once its context is cancelled.  Race does not wait for the losers:
\* one success that was sent before the caller's context ended is enough, though the
\* other tasks never return (race.go:13-15, 42-75).
Answers ==
    /\ ([]<>NoneRunning /\ <>(cfg.kind # "retry" \/ cut)) => <>AllGone
    /\ (Succeeded /\ ~parent) ~> (answer.kind = "nil")
=============================================================================
