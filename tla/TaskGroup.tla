----------------------------- MODULE TaskGroup -----------------------------
(***************************************************************************)
(* What a scope promises to its user, with no goroutine, semaphore, mutex  *)
(* or sync.Once in sight.  Members join a group while its door is open or  *)
(* while another member is still inside (a nested spawn).  Each member     *)
(* leaves with one outcome.  Once the door is shut and everybody has left, *)
(* one verdict is given, and it never changes.  The module Scope is shown  *)
(* to implement this specification.                                        *)
(***************************************************************************)
CONSTANT Tasks          \* the tasks that may join

VARIABLES stopOnError,  \* TRUE under FailFast: a failure stops the group
          members,      \* where each task is, or how it left
          accepting,    \* the door: may a task join from outside?
          stopped,      \* have the members been told to stop?
          verdict       \* what the group as a whole reports

gvars == <<stopOnError, members, accepting, stopped, verdict>>

Departed == {"succeeded", "failed", "panicked", "dropped"}

GroupTypeOK ==
    /\ stopOnError \in BOOLEAN
    /\ members \in [Tasks -> {"out", "live"} \cup Departed]
    /\ accepting \in BOOLEAN
    /\ stopped \in BOOLEAN
    /\ verdict \in {"pending", "ok", "error", "panic"}

LiveMembers == {t \in Tasks : members[t] = "live"}
Left(how) == {t \in Tasks : members[t] = how}

Init ==
    /\ stopOnError \in BOOLEAN
    /\ members = [t \in Tasks |-> "out"]
    /\ accepting = TRUE
    /\ stopped = FALSE
    /\ verdict = "pending"

Admit(t) ==
    /\ members[t] = "out"
    /\ accepting \/ LiveMembers # {}
    /\ members' = [members EXCEPT ![t] = "live"]
    /\ UNCHANGED <<stopOnError, accepting, stopped, verdict>>

\* A member that fails under FailFast, panics, or is dropped without having
\* run leaves only after the group has been stopped.
Leave(t, how) ==
    /\ members[t] = "live"
    /\ (how = "failed" /\ stopOnError) \/ how \in {"panicked", "dropped"} => stopped
    /\ members' = [members EXCEPT ![t] = how]
    /\ UNCHANGED <<stopOnError, accepting, stopped, verdict>>

Stop ==
    /\ stopped' = TRUE
    /\ UNCHANGED <<stopOnError, members, accepting, verdict>>

ShutDoor ==
    /\ accepting
    /\ accepting' = FALSE
    /\ UNCHANGED <<stopOnError, members, stopped, verdict>>

(***************************************************************************)
(* The verdict.  "ok" is given only if nobody failed, panicked or was      *)
(* dropped; "panic" only if a member panicked; "error" only if a member    *)
(* failed or the group had been stopped.                                   *)
(***************************************************************************)
Justified(v) ==
    CASE v = "panic" -> Left("panicked") # {}
      [] v = "error" -> Left("panicked") = {} /\ (Left("failed") # {} \/ stopped)
      [] v = "ok"    -> Left("panicked") \cup Left("failed") \cup Left("dropped") = {}

Decide(v) ==
    /\ verdict = "pending"
    /\ ~accepting
    /\ LiveMembers = {}
    /\ Justified(v)
    /\ verdict' = v
    /\ stopped' = TRUE
    /\ UNCHANGED <<stopOnError, members, accepting>>

Next ==
    \/ \E t \in Tasks : Admit(t)
    \/ \E t \in Tasks, how \in Departed : Leave(t, how)
    \/ Stop
    \/ ShutDoor
    \/ \E v \in {"ok", "error", "panic"} : Decide(v)

Spec == Init /\ [][Next]_gvars
=============================================================================
