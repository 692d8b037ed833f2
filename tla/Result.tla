------------------------------- MODULE Result -------------------------------
(***************************************************************************)
(* SpawnResult on top of a scope: some of the tasks started with Spawn     *)
(* resolve a Result, in a deferred call that runs when the function has    *)
(* ended and before exec sees its error or its panic.  Goroutines outside  *)
(* the scope, and the functions of tasks that have spawned others, wait    *)
(* for Results, with Wait or through the channel of Done.                  *)
(*                                                                         *)
(* The module adds to each step of Scope what it means for the Results.    *)
(***************************************************************************)
EXTENDS Scope

CONSTANTS
    Results,    \* the tasks started with SpawnResult
    Readers     \* the goroutines outside the scope that wait for a Result, once each

ASSUME ResultAssumption ==
    /\ Results \subseteq Nesting
    /\ Readers \cap Tasks = {}

VARIABLES
    value,      \* what each Result holds: "unset" until r.done is closed
    parent,     \* whose Spawner each task was started with
    reads,      \* the Result that each goroutine waits for, or NoTask
    got         \* what each reader's wait has returned, and for which

rvars == <<vars, value, parent, reads, got>>

Nothing == [of |-> NoTask, value |-> "unset"]

RInit ==
    /\ Init
    /\ value = [r \in Results |-> "unset"]
    /\ parent = [t \in Tasks |-> NoTask]
    /\ reads = [x \in Readers \cup Tasks |-> NoTask]
    /\ got = [x \in Readers |-> Nothing]

-----------------------------------------------------------------------------

\* The goroutine of t runs the program's own code: it is neither waiting for a
\* Result nor past its end.
Executing(t) ==
    /\ pc[t] = "running"
    /\ reads[t] = NoTask
    /\ t \in Results => value[t] = "unset"

\* SpawnResult, Spawn or Go.  Only a task that executes uses its own Spawner.
\* SpawnResult keeps this Spawner from its function, which may have another one at
\* hand: no distinction is made, so there are more ways to spawn here than in the code.
RBegin(sp, t) ==
    /\ sp \in Tasks => Executing(sp)
    /\ BeginTask(sp, t)
    /\ parent' = [parent EXCEPT ![t] = sp]
    /\ UNCHANGED <<value, reads, got>>

\* The function of a SpawnResult ends, and the deferred call resolves the
\* Result: with its value, its error, or the panic it is unwinding from.
Resolve(r, o) ==
    /\ Executing(r)
    /\ value' = [value EXCEPT ![r] = o]
    /\ UNCHANGED <<vars, parent, reads, got>>

\* Mutation of Ended: the deferred call swallows the panic.
EndedQuietly(t, o) ==
    IF t \in Results THEN value[t] # "unset" /\ o = (IF value[t] = "err" THEN "err" ELSE "ok")
    ELSE reads[t] = NoTask

\* Mutation of Ended: the call that resolves is not deferred, and a panic
\* passes it by.
EndedUnresolved(t, o) ==
    IF t \in Results
    THEN value[t] = o \/ (o = "panic" /\ Executing(t))
    ELSE reads[t] = NoTask

\* The function of t ends with o, for exec: a SpawnResult ends as it resolved.
Ended(t, o) == IF t \in Results THEN value[t] = o ELSE reads[t] = NoTask

RFnEnds(t) ==
    /\ \/ \E o \in {"ok", "err"} : Ended(t, o) /\ FnReturns(t, o)
       \/ Ended(t, "panic") /\ FnPanics(t)
    /\ UNCHANGED <<value, parent, reads, got>>

\* Wait for the Result of r: a reader that has been given it, or the function
\* that called SpawnResult.
StartReading(x, r) ==
    /\ reads[x] = NoTask
    /\ pc[r] # "unspawned"
    /\ IF x \in Tasks THEN Executing(x) /\ parent[r] = x ELSE got[x] = Nothing
    /\ reads' = [reads EXCEPT ![x] = r]
    /\ UNCHANGED <<vars, value, parent, got>>

\* r.done is closed.
FinishReading(x) ==
    /\ reads[x] # NoTask
    /\ value[reads[x]] # "unset"
    /\ got' = IF x \in Readers
                 THEN [got EXCEPT ![x] = [of |-> reads[x], value |-> value[reads[x]]]]
                 ELSE got
    /\ reads' = [reads EXCEPT ![x] = NoTask]
    /\ UNCHANGED <<vars, value, parent>>

\* The steps of the scope that the Results have no part in.
ScopeStep ==
    /\ \/ \E t \in Tasks : TaskStep(t)
       \/ ParentCancel \/ UserCancel
       \/ \E w \in Waiters, how \in {"wait", "timed", "run", "runpanic"} : Call(w, how)
       \/ FinalizeStep
       \/ \E w \in Waiters : Return(w) \/ TimeOut(w)
    /\ UNCHANGED <<value, parent, reads, got>>

RNext ==
    \/ \E sp \in Tasks \cup {Root}, t \in Tasks : RBegin(sp, t)
    \/ \E r \in Results, o \in {"ok", "err", "panic"} : Resolve(r, o)
    \/ \E t \in Tasks : RFnEnds(t)
    \/ \E x \in Readers \cup Tasks, r \in Results : StartReading(x, r)
    \/ \E x \in Readers \cup Tasks : FinishReading(x)
    \/ ScopeStep

RSpec == RInit /\ [][RNext]_rvars

(***************************************************************************)
(* Fairness, as for the scope: goroutines run, and functions end once the  *)
(* context is cancelled, unless they wait for a Result, which does not     *)
(* look at the context.                                                    *)
(***************************************************************************)
RFairness ==
    /\ \A t \in Tasks :
        /\ WF_rvars(TaskStep(t) /\ ScopeStep)
        /\ SF_rvars(Acquire(t) /\ ScopeStep)
        /\ WF_rvars(Cancelled /\ RFnEnds(t))
    /\ \A r \in Results : WF_rvars(Cancelled /\ \E o \in {"ok", "err", "panic"} : Resolve(r, o))
    /\ \A x \in Readers \cup Tasks : WF_rvars(FinishReading(x))
    /\ WF_rvars(FinalizeStep /\ ScopeStep)
    /\ \A w \in Waiters : WF_rvars(Return(w) /\ ScopeStep)

RFairSpec == RSpec /\ RFairness

-----------------------------------------------------------------------------
(* Properties *)

\* A Result is resolved before the scope knows how its task ended.  What a reader is
\* told, then or later, is how the task ends for the scope; and once a reader has been
\* given an error or a panic, no caller of Wait is told that all is well
\* (result.go:24-31, 60-69).
ReadersAndWaitersAgree ==
    \A x \in Readers : got[x].value # "unset" =>
        /\ outcome[got[x].of] \in {"none", got[x].value}
        /\ got[x].value # "ok" => \A w \in Waiters : ret[w] # "nil"

\* After the scope has been joined every Result is resolved, unless its task
\* never ran, and then no caller of Wait is told that all is well.
ResolvedByJoin ==
    Settled => \A r \in Results : pc[r] # "unspawned" /\ value[r] = "unset" =>
        events[r] \in {<<>>, <<"cancelled">>} /\ \A w \in Waiters : ret[w] # "nil"

\* The Result of a task that runs is delivered, once the scope is cancelled,
\* unless the task waits for a Result itself.
RunningResultArrives ==
    \A x \in Readers, r \in Results :
        (reads[x] = r /\ pc[r] = "running" /\ Cancelled) ~> (reads[x] # r \/ reads[r] # NoTask)

\* "Wait blocks until the task completes."  The task of a SpawnResult that is
\* abandoned or skipped completes and its Result is never resolved.
WaitEndsWithTask ==
    \A x \in Readers, r \in Results :
        (reads[x] = r /\ pc[r] = "gone") ~> reads[x] # r
=============================================================================
