---------------------------- MODULE MCSemaphore -----------------------------
(* Constants for model checking the module Semaphore. *)
EXTENDS Semaphore

CONSTANTS u1, u2, u3

ThreeUsers == {u1, u2, u3}
\* One user that releases what it has not acquired, twice or more if it likes.
Rogue == {u3}
=============================================================================
