------------------------------ MODULE MCNested ------------------------------
(* Constants for model checking the modules Nested and TaskErrors. *)
EXTENDS TaskErrors, TLC

CONSTANTS a, b, c, h

\* The tasks of the inner scope are alike.
Alike == Permutations(InnerLeaves)

\* Every pair of scopes; with a deadline, those whose panics are not errors.
SafetyConfigs ==
    {x \in Config : x.deadline => ~x.outer.panicAsErr /\ ~x.inner.panicAsErr}
=============================================================================
