------------------------------- MODULE MCPool -------------------------------
(* Constants for model checking the module Pool. *)
EXTENDS Pool

CONSTANTS t1, t2, w1, w2, c1, c2

TwoTasks == {t1, t2}
TwoWorkers == {w1, w2}
OneOrTwo == {{w1}, {w1, w2}}
TwoClosers == {c1, c2}

\* Without and with a buffer.
SmallQueues == {0, 1}
=============================================================================
