------------------------------ MODULE MCScope ------------------------------
(* Constants for model checking the module Scope. *)
EXTENDS Scope, TLC

CONSTANTS t1, t2, t3, w1, w2

Cfg(policy, limit, maxErrors, panicAsErr, manual) ==
    [policy |-> policy, limit |-> limit, maxErrors |-> maxErrors,
     panicAsErr |-> panicAsErr, manual |-> manual]

\* Each policy, with and without a limit, WithPanicAsError and WithMaxErrors,
\* under Run and under New and Wait.
MixedConfigs ==
    {Cfg("FailFast", 2, 0, FALSE, FALSE),
     Cfg("Collect",  2, 1, TRUE,  FALSE),
     Cfg("FailFast", 1, 0, TRUE,  TRUE),
     Cfg("Collect",  0, 0, FALSE, TRUE)}

\* For two callers of Wait and WaitTimeout, and for liveness.
WaitConfigs ==
    {Cfg("FailFast", 1, 0, FALSE, TRUE)}

ThreeTasks == {t1, t2, t3}
TwoTasks == {t1, t2}
TwoWaiters == {w1, w2}
OneWaiter == {w1}

\* t1 and t2 are started with Spawn, t3 with Go.
Nested == {t1, t2} \cap Tasks

\* Tasks of one kind are interchangeable, and so are the waiters.
Symmetry == Permutations({t1, t2}) \cup Permutations({w1, w2})
=============================================================================
