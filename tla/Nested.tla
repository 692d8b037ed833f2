------------------------------- MODULE Nested -------------------------------
(***************************************************************************)
(* A scope inside a task of another (SpawnScope of src/helpers.go), and    *)
(* the errors and panics that climb from one to the other.  Each of the    *)
(* two scopes is reduced to what its task can notice: who is in it, its    *)
(* door, its context, its errors and its verdict; that this is a           *)
(* TaskGroup, as Scope is, is one of the properties.  The task that hosts  *)
(* the inner scope may have a deadline of its own (SpawnTimeout).          *)
(***************************************************************************)
EXTENDS Integers, SequencesExt

CONSTANTS
    OuterLeaves, InnerLeaves,   \* the tasks whose functions are the user's
    Host,                       \* the task of the outer scope that runs the inner
    Configs                     \* the configurations of the pair of scopes

Scopes == {"outer", "inner"}
Tasks  == OuterLeaves \cup InnerLeaves \cup {Host}
In(s)  == IF s = "inner" THEN InnerLeaves ELSE OuterLeaves \cup {Host}
ScopeOf(t) == IF t \in InnerLeaves THEN "inner" ELSE "outer"

Options == [policy : {"FailFast", "Collect"}, panicAsErr : BOOLEAN]
Config  == [outer : Options, inner : Options, deadline : BOOLEAN]

ASSUME NestedAssumption ==
    /\ OuterLeaves \cap InnerLeaves = {} /\ Host \notin OuterLeaves \cup InnerLeaves
    /\ Configs \subseteq Config

VARIABLES
    cfg,            \* per scope its policy and WithPanicAsError; has Host a deadline?
    task,           \* per task "new", "spawned", "running", "ended", "leaving", "left"
    how,            \* how its function ended: an error, Nil, or NotYet
    userCancelled,  \* the context given to the outer Run is cancelled
    expired,        \* the deadline of Host has passed
    cancelled,      \* per scope: cancel has been called
    shut,           \* per scope: the root Spawner is closed
    fell,           \* per scope: the function given to Run has panicked
    errs, panics,   \* per scope: what it has recorded, errs[1] being firstErr
    verdict         \* per scope: what its Run ended with

vars == <<cfg, task, how, userCancelled, expired, cancelled, shut, fell, errs, panics, verdict>>

-----------------------------------------------------------------------------
(* Errors are trees, as Unwrap shows them.                                  *)

Error(kind, t, below) == [kind |-> kind, task |-> t, of |-> below]

NotYet        == Error("none", "", <<>>)
Nil           == Error("nil", "", <<>>)
Ctx           == Error("ctx", "", <<>>)             \* context.Canceled, DeadlineExceeded
FnError(t)    == Error("fn", t, <<>>)               \* what the function of t returns
TaskError(t, e) == Error("task", t, <<e>>)
Join(es)      == Error("join", "", es)
PanicError(v) == Error("panic", "", v)              \* v, the value, when it is an error
FnPanic(t)    == Error("panic", t, <<>>)            \* the user's own

\* Everything that errors.Is and errors.As see.  No error here is deeper than the
\* joined errors of the outer scope, one of which is that of Host, with the joined
\* errors of the inner, one of which is that of a task, with what it returned.
Unwrap(es) == es \cup UNION {ToSet(e.of) : e \in es}
Chain(e)   == Unwrap(Unwrap(Unwrap(Unwrap({e}))))

-----------------------------------------------------------------------------
(* The scopes.                                                              *)

Policy(s)     == cfg[s].policy
PanicAsErr(s) == cfg[s].panicAsErr

\* The context of a scope: that of the inner is below that of its host.
Done(s) ==
    \/ cancelled[s] \/ cancelled["outer"] \/ userCancelled
    \/ s = "inner" /\ expired

Live(t) == task[t] \in {"spawned", "running", "ended", "leaving"}

\* A scope exists from New to the end of its Run.
Exists(s) == verdict[s] = NotYet /\ (s = "inner" => task[Host] = "running")

Init ==
    /\ cfg \in Configs
    /\ task = [t \in Tasks |-> "new"] /\ how = [t \in Tasks |-> NotYet]
    /\ userCancelled = FALSE /\ expired = FALSE
    /\ cancelled = [s \in Scopes |-> FALSE] /\ shut = [s \in Scopes |-> FALSE]
    /\ fell = [s \in Scopes |-> FALSE]
    /\ errs = [s \in Scopes |-> <<>>] /\ panics = [s \in Scopes |-> <<>>]
    /\ verdict = [s \in Scopes |-> NotYet]

\* By the function given to Run, or by a task of the scope with its own Spawner.
Spawn(t) ==
    /\ task[t] = "new" /\ Exists(ScopeOf(t))
    /\ ~shut[ScopeOf(t)] \/ \E u \in In(ScopeOf(t)) \ {Host} : task[u] = "running"
    /\ task' = [task EXCEPT ![t] = "spawned"]
    /\ UNCHANGED <<cfg, how, userCancelled, expired, cancelled, shut, fell, errs, panics, verdict>>

\* The context is looked at before the function is called.
Start(t) ==
    /\ task[t] = "spawned"
    /\ task' = [task EXCEPT ![t] = IF Done(ScopeOf(t)) THEN "left" ELSE "running"]
    /\ UNCHANGED <<cfg, how, userCancelled, expired, cancelled, shut, fell, errs, panics, verdict>>

\* The function of a task ends, exec with its recovery included.
Ends(t, e) ==
    /\ task[t] = "running"
    /\ task' = [task EXCEPT ![t] = "ended"]
    /\ how' = [how EXCEPT ![t] = e]

FnEnds(t) ==
    /\ \/ \E e \in {Nil, FnError(t), FnPanic(t)} : Ends(t, e)
       \/ Done(ScopeOf(t)) /\ Ends(t, Ctx)
    /\ UNCHANGED <<cfg, userCancelled, expired, cancelled, shut, fell, errs, panics, verdict>>

\* Mutation of recordError: the last failure is kept, not the first.
recordLast(s, te) ==
    IF Policy(s) = "FailFast" THEN errs' = [errs EXCEPT ![s] = <<te>>] /\ cancelled' = [cancelled EXCEPT ![s] = TRUE]
    ELSE errs' = [errs EXCEPT ![s] = Append(@, te)] /\ UNCHANGED cancelled

\* Mutation of recordError: the first failure does not cancel.
recordQuietly(s, te) ==
    /\ errs' = IF Policy(s) = "Collect" \/ errs[s] = <<>> THEN [errs EXCEPT ![s] = Append(@, te)] ELSE errs
    /\ UNCHANGED cancelled

\* Under FailFast the first failure cancels, later ones are dropped.
recordError(s, te) ==
    IF Policy(s) = "Collect" THEN errs' = [errs EXCEPT ![s] = Append(@, te)] /\ UNCHANGED cancelled
    ELSE IF errs[s] = <<>> THEN errs' = [errs EXCEPT ![s] = <<te>>] /\ cancelled' = [cancelled EXCEPT ![s] = TRUE]
    ELSE UNCHANGED <<errs, cancelled>>

\* What the scope makes of the end of a function.  A recovered panic is an error, or
\* else is kept and cancels.
Record(t) ==
    LET s == ScopeOf(t)
    IN /\ task[t] = "ended"
       /\ task' = [task EXCEPT ![t] = "leaving"]
       /\ CASE how[t] = Nil -> UNCHANGED <<errs, cancelled, panics>>
            [] how[t].kind = "panic" /\ ~PanicAsErr(s) ->
                 /\ panics' = [panics EXCEPT ![s] = Append(@, how[t])]
                 /\ cancelled' = [cancelled EXCEPT ![s] = TRUE]
                 /\ UNCHANGED errs
            [] OTHER -> recordError(s, TaskError(t, how[t])) /\ UNCHANGED panics
       /\ UNCHANGED <<cfg, how, userCancelled, expired, shut, fell, verdict>>

\* wg.Done
Leave(t) ==
    /\ task[t] = "leaving"
    /\ task' = [task EXCEPT ![t] = "left"]
    /\ UNCHANGED <<cfg, how, userCancelled, expired, cancelled, shut, fell, errs, panics, verdict>>

\* The function given to Run returns or panics; the root Spawner is closed.
Shut(s) ==
    /\ Exists(s) /\ ~shut[s]
    /\ shut' = [shut EXCEPT ![s] = TRUE]
    /\ fell' \in {fell, [fell EXCEPT ![s] = TRUE]}
    /\ UNCHANGED <<cfg, task, how, userCancelled, expired, cancelled, errs, panics, verdict>>

\* Mutation of Aggregate: one error stands for all.
AggregateFirst(s) ==
    IF errs[s] # <<>> THEN Head(errs[s]) ELSE IF Done(s) THEN Ctx ELSE Nil

\* finErr
Aggregate(s) ==
    IF errs[s] # <<>> THEN IF Policy(s) = "FailFast" THEN Head(errs[s]) ELSE Join(errs[s])
    ELSE IF Done(s) THEN Ctx ELSE Nil

\* Mutation of RunEnds: a panic of a task is not raised again.
RunSwallows(s) == IF fell[s] THEN FnPanic(s) ELSE Aggregate(s)

\* How Run ends: with the panic of its function, with the first of its tasks, or
\* with finErr.
RunEnds(s) == IF fell[s] THEN FnPanic(s)
              ELSE IF panics[s] # <<>> THEN Head(panics[s])
              ELSE Aggregate(s)

\* Mutation of Joined: a task is counted when its goroutine starts, not at Spawn.
JoinedStarted(s) == \A t \in In(s) : task[t] \notin {"running", "ended", "leaving"}

\* wg.Wait
Joined(s) == \A t \in In(s) : ~Live(t)

\* wg.Wait is over: finalize gives its verdict and cancels what is left of the
\* context, Run ends, and with the inner Run the function of Host.
Finalize(s) ==
    /\ Exists(s) /\ shut[s] /\ Joined(s)
    /\ verdict' = [verdict EXCEPT ![s] = RunEnds(s)]
    /\ cancelled' = [cancelled EXCEPT ![s] = TRUE]
    /\ IF s = "inner"
       THEN Ends(Host, IF RunEnds(s).kind = "panic"
                       THEN PanicError(IF fell[s] THEN <<>> ELSE <<RunEnds(s)>>)
                       ELSE RunEnds(s))
       ELSE UNCHANGED <<task, how>>
    /\ UNCHANGED <<cfg, userCancelled, expired, shut, fell, errs, panics>>

UserCancel ==
    /\ ~userCancelled /\ userCancelled' = TRUE
    /\ UNCHANGED <<cfg, task, how, expired, cancelled, shut, fell, errs, panics, verdict>>

\* SpawnTimeout: the deadline is that of the function's context.
Expire ==
    /\ cfg.deadline /\ task[Host] = "running"
    /\ ~expired /\ expired' = TRUE
    /\ UNCHANGED <<cfg, task, how, userCancelled, cancelled, shut, fell, errs, panics, verdict>>

TaskStep(t) == Start(t) \/ Record(t) \/ Leave(t)

Next ==
    \/ \E t \in Tasks : Spawn(t) \/ TaskStep(t)
    \/ \E t \in Tasks \ {Host} : FnEnds(t)
    \/ \E s \in Scopes : Shut(s) \/ Finalize(s)
    \/ UserCancel \/ Expire

Spec == Init /\ [][Next]_vars

-----------------------------------------------------------------------------
(* What must hold in every state. *)

\* No task of the inner scope is alive outside the function of Host, and none of
\* either scope when the outer Run has ended: one Run encloses the other.
InnerWithinOuter ==
    /\ \A t \in InnerLeaves : Live(t) => task[Host] = "running"
    /\ verdict["outer"] # NotYet => \A t \in Tasks : ~Live(t)

Failed(t) == how[t].kind = "fn"
NoPanic   == fell["outer"] = fell["inner"] /\ ~fell["outer"] /\ \A t \in Tasks : how[t].kind # "panic"

\* No failure is silent, however deep it was: the outer Run does not return nil after
\* it, and where both scopes collect it has every one in its chain.
NothingLost ==
    verdict["outer"] # NotYet /\ NoPanic =>
        \A t \in Tasks : Failed(t) =>
            /\ verdict["outer"] # Nil
            /\ Policy("outer") = "Collect" /\ Policy(ScopeOf(t)) = "Collect"
                 => FnError(t) \in Chain(verdict["outer"])

\* Unless somebody outside cancels, an error names a function that failed or
\* panicked, and not only siblings that were cancelled for it.
BlamesTheCause ==
    ~userCancelled /\ ~expired =>
        \A s \in Scopes :
            verdict[s].kind \in {"task", "join", "ctx"} =>
                \/ \E e \in Chain(verdict[s]) : e.kind \in {"fn", "panic"}
                \/ s = "inner" /\ cancelled["outer"]

\* A failure below is heard above, and what is heard leads to a failure
\* (scope.go:256-281, 171-192; helpers.go:196-203).
FailuresClimb == NothingLost /\ BlamesTheCause

\* A panic that a scope does not turn into an error leaves its Run as a panic, and
\* then the task that hosts the scope has panicked; no panic ends as nil.
PanicsClimb ==
    /\ \A s \in Scopes :
         verdict[s] # NotYet =>
            (verdict[s].kind = "panic" <=>
                \/ fell[s]
                \/ ~PanicAsErr(s) /\ \E t \in In(s) : how[t].kind = "panic")
    /\ verdict["outer"] = Nil =>
         ~fell["inner"] /\ \A t \in Tasks : how[t].kind # "panic"

-----------------------------------------------------------------------------
(* Each of the two scopes is a TaskGroup, as Scope is: the reduction of a scope to *)
(* what this module keeps of it allows nothing that Scope does not promise.        *)

Membership(t) ==
    IF task[t] = "new" THEN "out"
    ELSE IF Live(t) THEN "live"
    ELSE CASE how[t] = Nil    -> "succeeded"
           [] how[t] = NotYet -> "dropped"
           [] how[t].kind = "panic" /\ ~PanicAsErr(ScopeOf(t)) -> "panicked"
           [] OTHER           -> "failed"

\* Nobody has failed or was dropped, and Run does not say otherwise.
Undisturbed(s) ==
    \/ verdict[s] = Nil
    \/ fell[s] /\ \A t \in In(s) : how[t] = Nil \/ task[t] = "new"

GroupVerdict(s) ==
    CASE verdict[s] = NotYet -> "pending"
      [] verdict[s] # NotYet /\ panics[s] # <<>> -> "panic"
      [] verdict[s] # NotYet /\ panics[s] = <<>> /\ Undisturbed(s) -> "ok"
      [] OTHER -> "error"

OuterGroup == INSTANCE TaskGroup WITH
    Tasks <- In("outer"), stopOnError <- Policy("outer") = "FailFast",
    members <- [t \in In("outer") |-> Membership(t)], accepting <- ~shut["outer"],
    stopped <- Done("outer"), verdict <- GroupVerdict("outer")

InnerGroup == INSTANCE TaskGroup WITH
    Tasks <- InnerLeaves, stopOnError <- Policy("inner") = "FailFast",
    members <- [t \in InnerLeaves |-> Membership(t)], accepting <- ~shut["inner"],
    stopped <- Done("inner"), verdict <- GroupVerdict("inner")

\* Both scopes implement the abstract specification of a scope, and one encloses the
\* other (scope.go:110-137, helpers.go:171-203).
ScopesNest == OuterGroup!Spec /\ InnerGroup!Spec /\ []InnerWithinOuter

=============================================================================
