----------------------------- MODULE TaskErrors -----------------------------
(***************************************************************************)
(* The functions of src/task_error.go that take the error of a Run apart,  *)
(* applied to the errors that the two scopes of Nested really produce.     *)
(* They walk the tree of an error, so they are recursive.                  *)
(***************************************************************************)
EXTENDS Nested

RECURSIVE As(_)
\* errors.As for a *TaskError: the first of the chain, if any.
As(e) ==
    IF e.kind = "task" THEN <<e>>
    ELSE LET found == SelectSeq([k \in DOMAIN e.of |-> As(e.of[k])], LAMBDA x : x # <<>>)
         IN IF found = <<>> THEN <<>> ELSE Head(found)

IsTaskError(e) == As(e) # <<>>
TaskOf(e)      == Head(As(e)).task
CauseOf(e)     == IF IsTaskError(e) THEN Head(As(e)).of[1] ELSE e

RECURSIVE collectThrough(_)
\* Mutation of collectTaskErrors: it goes on below a TaskError.
collectThrough(e) ==
    (IF e.kind = "task" THEN <<e>> ELSE <<>>)
        \o FlattenSeq([k \in DOMAIN e.of |-> collectThrough(e.of[k])])

RECURSIVE collectTaskErrors(_)
\* A TaskError ends the walk; a joined list is walked from its first to its last.
collectTaskErrors(e) ==
    IF e.kind = "task" THEN <<e>>
    ELSE FlattenSeq([k \in DOMAIN e.of |-> collectTaskErrors(e.of[k])])

AllTaskErrors(e) == collectTaskErrors(e)

-----------------------------------------------------------------------------
\* The error of a Run can be taken apart.  AllTaskErrors gives tasks of that scope,
\* each once and with what its function returned, whatever errors of other scopes
\* lie below; TaskOf and CauseOf speak of the first of them; and an error without
\* any is that of the context.
Attributed ==
    \A s \in Scopes :
        LET e     == verdict[s]
            found == AllTaskErrors(e)
        IN e.kind \in {"task", "join", "ctx"} =>
             /\ IsInjective(found)
             /\ \A k \in DOMAIN found : \E t \in In(s) : found[k] = TaskError(t, how[t])
             /\ IsTaskError(e) <=> found # <<>>
             /\ found # <<>> => TaskOf(e) = found[1].task /\ CauseOf(e) = found[1].of[1]
             /\ found = <<>> => e = Ctx
=============================================================================
