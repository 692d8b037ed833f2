------------------------------ MODULE MCResult ------------------------------
(* Constants for model checking the module Result. *)
EXTENDS Result

CONSTANTS t1, t2, w1, x1

TwoTasks == {t1, t2}
OneTask == {t1}
OneWaiter == {w1}
OneReader == {x1}

\* One slot, so that a task that waits for a Result keeps the other out.
OneSlot == [policy |-> "FailFast", limit |-> 1, maxErrors |-> 0, panicAsErr |-> FALSE, manual |-> TRUE]
\* No limit, for the run that refutes a claim.
NoLimit == [policy |-> "Collect", limit |-> 0, maxErrors |-> 0, panicAsErr |-> TRUE, manual |-> FALSE]

SlotConfig == {OneSlot}
FreeConfig == {NoLimit}
=============================================================================
