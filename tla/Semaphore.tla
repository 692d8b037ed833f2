----------------------------- MODULE Semaphore -----------------------------
(***************************************************************************)
(* The Semaphore of package scoped: a buffered channel whose elements are  *)
(* the slots taken, and beside it the atomic counter acquired, by which    *)
(* Release tells a matched call from an unmatched one.  The two are not    *)
(* updated together: Acquire sends first and counts then, Release counts   *)
(* first and receives then, or takes its decrement back and panics.        *)
(*                                                                         *)
(* Each step is one operation on the channel or on the counter.            *)
(***************************************************************************)
EXTENDS Integers, FiniteSets

CONSTANTS
    Users,       \* the goroutines that share the semaphore
    Misusers,    \* those that may call Release without holding a slot
    Cap          \* the capacity given to NewSemaphore

ASSUME SemaphoreAssumption ==
    /\ IsFiniteSet(Users)
    /\ Misusers \subseteq Users
    /\ Cap \in Nat \ {0}

VARIABLES
    pc,          \* what each user is doing
    ch,          \* the number of elements in s.ch
    acquired,    \* s.acquired
    cancelled,   \* the users whose context is cancelled
    misused,     \* has an unmatched Release been called?
    panicked     \* the users whose last Release panicked

vars == <<pc, ch, acquired, cancelled, misused, panicked>>

\* "sent" has a slot but has not counted it; "lowered" has counted its release
\* but still has to receive; "undoing" has seen a negative count.
Places == {"idle", "acquiring", "sent", "holding", "lowered", "undoing"}

At(place) == {u \in Users : pc[u] = place}
Goto(u, from, to) == pc[u] = from /\ pc' = [pc EXCEPT ![u] = to]

Init ==
    /\ pc = [u \in Users |-> "idle"]
    /\ ch = 0
    /\ acquired = 0
    /\ cancelled = {}
    /\ misused = FALSE
    /\ panicked = {}

-----------------------------------------------------------------------------
(* Acquire and TryAcquire *)

CallAcquire(u) ==
    /\ Goto(u, "idle", "acquiring")
    /\ UNCHANGED <<ch, acquired, cancelled, misused, panicked>>

\* Acquire's send on s.ch.
Send(u) ==
    /\ ch < Cap
    /\ Goto(u, "acquiring", "sent")
    /\ ch' = ch + 1
    /\ UNCHANGED <<acquired, cancelled, misused, panicked>>

\* Mutation of GiveUp: Acquire ignores its context.
NeverGiveUp(u) == FALSE

\* The other branch of Acquire's select.
GiveUp(u) ==
    /\ u \in cancelled
    /\ Goto(u, "acquiring", "idle")
    /\ UNCHANGED <<ch, acquired, cancelled, misused, panicked>>

\* TryAcquire's send.  When the channel is full it returns false and has
\* changed nothing.
TrySend(u) ==
    /\ ch < Cap
    /\ Goto(u, "idle", "sent")
    /\ ch' = ch + 1
    /\ UNCHANGED <<acquired, cancelled, misused, panicked>>

\* Mutation of Count: the count is forgotten.
CountForgotten(u) ==
    /\ Goto(u, "sent", "holding")
    /\ UNCHANGED <<ch, acquired, cancelled, misused, panicked>>

Count(u) ==
    /\ Goto(u, "sent", "holding")
    /\ acquired' = acquired + 1
    /\ UNCHANGED <<ch, cancelled, misused, panicked>>

-----------------------------------------------------------------------------
(* Release *)

\* Mutation of Lower: whether the count has gone below zero is not checked.
LowerUnchecked(u) ==
    /\ pc[u] = "holding" \/ (pc[u] = "idle" /\ u \in Misusers)
    /\ acquired' = acquired - 1
    /\ pc' = [pc EXCEPT ![u] = "lowered"]
    /\ misused' = (misused \/ pc[u] = "idle")
    /\ panicked' = panicked \ {u}
    /\ UNCHANGED <<ch, cancelled>>

\* The decrement, by a holder or by a misuser.
Lower(u) ==
    /\ pc[u] = "holding" \/ (pc[u] = "idle" /\ u \in Misusers)
    /\ acquired' = acquired - 1
    /\ pc' = [pc EXCEPT ![u] = IF acquired > 0 THEN "lowered" ELSE "undoing"]
    /\ misused' = (misused \/ pc[u] = "idle")
    /\ panicked' = panicked \ {u}
    /\ UNCHANGED <<ch, cancelled>>

\* Mutation of Receive: the slot is counted as free but stays in the channel.
ReceiveForgotten(u) ==
    /\ Goto(u, "lowered", "idle")
    /\ UNCHANGED <<ch, acquired, cancelled, misused, panicked>>

Receive(u) ==
    /\ ch > 0
    /\ Goto(u, "lowered", "idle")
    /\ ch' = ch - 1
    /\ UNCHANGED <<acquired, cancelled, misused, panicked>>

\* The decrement is taken back and Release panics.
Undo(u) ==
    /\ Goto(u, "undoing", "idle")
    /\ acquired' = acquired + 1
    /\ panicked' = panicked \cup {u}
    /\ UNCHANGED <<ch, cancelled, misused>>

\* The context of a user is cancelled.
Cancel(u) ==
    /\ u \notin cancelled
    /\ cancelled' = cancelled \cup {u}
    /\ UNCHANGED <<pc, ch, acquired, misused, panicked>>

-----------------------------------------------------------------------------

Next == \E u \in Users :
    \/ CallAcquire(u) \/ Send(u) \/ GiveUp(u) \/ TrySend(u) \/ Count(u)
    \/ Lower(u) \/ Receive(u) \/ Undo(u)
    \/ Cancel(u)

Spec == Init /\ [][Next]_vars

(***************************************************************************)
(* Fairness: a runnable goroutine runs, and the runtime serves the senders *)
(* blocked on a channel in order, so a send that is possible again and     *)
(* again is made.  A holder releases its slot: that is the user's part.    *)
(***************************************************************************)
Fairness == \A u \in Users :
    /\ SF_vars(Send(u))
    /\ WF_vars(GiveUp(u))
    /\ WF_vars(Count(u) \/ Receive(u) \/ Undo(u))
    /\ WF_vars(pc[u] = "holding" /\ Lower(u))

FairSpec == Spec /\ Fairness

-----------------------------------------------------------------------------
(* Properties *)

TypeOK ==
    /\ pc \in [Users -> Places]
    /\ ch \in 0..Cap
    /\ acquired \in Int
    /\ cancelled \subseteq Users
    /\ misused \in BOOLEAN
    /\ panicked \subseteq Users

\* The channel and the counter differ by exactly the calls caught between
\* their two updates.
Accounting ==
    ch = acquired + Cardinality(At("sent")) + Cardinality(At("lowered"))
                  + Cardinality(At("undoing"))

\* Release never blocks, misuse or not: whoever has passed the check of the
\* counter finds an element in the channel, even if all of them receive.
ReleaseNeverBlocks == Cardinality(At("lowered")) <= ch

\* While nobody has misused the semaphore at most Cap users hold a slot, and no
\* Release panics, however the two updates of its callers interleave.
Disciplined ==
    ~misused =>
        /\ Cardinality(At("holding")) <= Cap
        /\ panicked = {} /\ At("undoing") = {}

\* Acquire returns: with a slot, since every holder releases it, or because
\* its context is cancelled.  A Release without Acquire may leave a slot taken
\* for ever, when its decrement makes a holder's Release panic as well; so this
\* is promised only while nobody misuses the semaphore.
AcquireReturns ==
    \A u \in Users :
        pc[u] = "acquiring" ~> (pc[u] # "acquiring" \/ misused)

\* With its context cancelled Acquire returns whatever the others do.
CancelledAcquireReturns ==
    \A u \in Users :
        (pc[u] = "acquiring" /\ u \in cancelled) ~> pc[u] # "acquiring"

\* Nobody waits in Acquire for ever.
AcquireEnds == AcquireReturns /\ CancelledAcquireReturns

-----------------------------------------------------------------------------
(* The inductive invariant: what the counter counts before any misuse. *)

Matched ==
    ~misused =>
        /\ acquired = Cardinality(At("holding"))
        /\ At("undoing") = {}
        /\ panicked = {}

IInv == TypeOK /\ Accounting /\ Matched
=============================================================================
