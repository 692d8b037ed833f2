------------------------------ MODULE Closable ------------------------------
(***************************************************************************)
(* chanx.Closable: a channel that senders use while others close it.  The  *)
(* data channel is never closed; Close sets a flag and closes a second     *)
(* channel, under a sync.Once.  A sender looks at the flag and then        *)
(* selects, so both updates may come between its two steps.  Each sender   *)
(* sends one value, itself.  The consumer does what the comment on Chan    *)
(* recommends: it selects on Chan and Done, then drains with TryRecv.      *)
(***************************************************************************)
EXTENDS Naturals, FiniteSets

CONSTANTS
    Senders,    \* calls of Send, TrySend and SendContext
    Closers,    \* calls of Close
    Capacities  \* the buffer sizes considered

ASSUME ClosableAssumption == IsFiniteSet(Senders) /\ Capacities \subseteq Nat

VARIABLES
    cap,        \* the buffer of ch
    form,       \* per sender, the method: "send", "try", "ctx"
    sender,     \* per sender, its control point or its answer
    late,       \* the senders that called after some Close had returned
    buf,        \* the values in ch
    received,   \* the values the consumer has received
    isClosed,   \* the flag
    done,       \* the channel closed is closed
    once,       \* the sync.Once: "free", "running", "over"
    closer,     \* per closer, its control point
    consumer,   \* "select", "drain" or "gone"
    ctxDone   \* the context given to SendContext is cancelled

closableVars == <<cap, form, sender, late, buf, received, isClosed, done, once, closer,
          consumer, ctxDone>>

Answers == {"nil", "closed", "full", "ctx"}

ClosableInit ==
    /\ cap \in Capacities
    /\ form \in [Senders -> {"send", "try", "ctx"}]
    /\ sender = [s \in Senders |-> "idle"]
    /\ late = {} /\ buf = {} /\ received = {}
    /\ isClosed = FALSE /\ done = FALSE /\ once = "free"
    /\ closer = [c \in Closers |-> "idle"]
    /\ consumer = "select" /\ ctxDone = FALSE

-----------------------------------------------------------------------------
\* Mutation of Call: the flag is not looked at.
CallUnchecked(s) ==
    /\ sender[s] = "idle"
    /\ sender' = [sender EXCEPT ![s] = "checked"]
    /\ late' = IF \E c \in Closers : closer[c] = "returned" THEN late \cup {s} ELSE late
    /\ UNCHANGED <<cap, form, buf, received, isClosed, done, once, closer, consumer, ctxDone>>

\* The call, and the load of the flag.
Call(s) ==
    /\ sender[s] = "idle"
    /\ sender' = [sender EXCEPT ![s] = IF isClosed THEN "closed" ELSE "checked"]
    /\ late' = IF \E c \in Closers : closer[c] = "returned" THEN late \cup {s} ELSE late
    /\ UNCHANGED <<cap, form, buf, received, isClosed, done, once, closer, consumer, ctxDone>>

\* The select sends, into the buffer or to the consumer that receives.
SelectSend(s) ==
    /\ sender[s] = "checked"
    /\ \/ Cardinality(buf) < cap /\ buf' = buf \cup {s} /\ UNCHANGED received
       \/ cap = 0 /\ consumer # "gone" /\ received' = received \cup {s} /\ UNCHANGED buf
    /\ sender' = [sender EXCEPT ![s] = "nil"]
    /\ UNCHANGED <<cap, form, late, isClosed, done, once, closer, consumer, ctxDone>>

\* Mutation of SeeClosed: the select has no case for the closed channel.
SeeNothing(s) == FALSE /\ UNCHANGED closableVars

\* The select takes the closed channel.  TrySend has no such case.
SeeClosed(s) ==
    /\ sender[s] = "checked" /\ form[s] # "try" /\ done
    /\ sender' = [sender EXCEPT ![s] = "closed"]
    /\ UNCHANGED <<cap, form, late, buf, received, isClosed, done, once, closer, consumer,
                   ctxDone>>

\* SendContext: the select takes the context.
SeeContext(s) ==
    /\ sender[s] = "checked" /\ form[s] = "ctx" /\ ctxDone
    /\ sender' = [sender EXCEPT ![s] = "ctx"]
    /\ UNCHANGED <<cap, form, late, buf, received, isClosed, done, once, closer, consumer,
                   ctxDone>>

\* TrySend: the default case, without room or without a receiver in place.
Default(s) ==
    /\ sender[s] = "checked" /\ form[s] = "try"
    /\ Cardinality(buf) >= cap
    /\ sender' = [sender EXCEPT ![s] = "missed"]
    /\ UNCHANGED <<cap, form, late, buf, received, isClosed, done, once, closer, consumer,
                   ctxDone>>

\* TrySend looks at the flag again.
Recheck(s) ==
    /\ sender[s] = "missed"
    /\ sender' = [sender EXCEPT ![s] = IF isClosed THEN "closed" ELSE "full"]
    /\ UNCHANGED <<cap, form, late, buf, received, isClosed, done, once, closer, consumer,
                   ctxDone>>

\* Close enters the Once, or waits for the call that did.
CallClose(c) ==
    /\ closer[c] = "idle"
    /\ closer' = [closer EXCEPT ![c] = IF once = "free" THEN "flagging" ELSE "waiting"]
    /\ once' = IF once = "free" THEN "running" ELSE once
    /\ UNCHANGED <<cap, form, sender, late, buf, received, isClosed, done, consumer, ctxDone>>

SetFlag(c) ==
    /\ closer[c] = "flagging"
    /\ isClosed' = TRUE
    /\ closer' = [closer EXCEPT ![c] = "closing"]
    /\ UNCHANGED <<cap, form, sender, late, buf, received, done, once, consumer, ctxDone>>

CloseDone(c) ==
    /\ closer[c] = "closing"
    /\ done' = TRUE /\ once' = "over"
    /\ closer' = [closer EXCEPT ![c] = "returned"]
    /\ UNCHANGED <<cap, form, sender, late, buf, received, isClosed, consumer, ctxDone>>

\* Mutation of WaitOnce: the second Close does not wait for the first.
WaitNothing(c) ==
    /\ closer[c] = "waiting"
    /\ closer' = [closer EXCEPT ![c] = "returned"]
    /\ UNCHANGED <<cap, form, sender, late, buf, received, isClosed, done, once, consumer,
                   ctxDone>>

WaitOnce(c) ==
    /\ closer[c] = "waiting" /\ once = "over"
    /\ closer' = [closer EXCEPT ![c] = "returned"]
    /\ UNCHANGED <<cap, form, sender, late, buf, received, isClosed, done, once, consumer,
                   ctxDone>>

\* The consumer takes a value: Recv in its loop, TryRecv when it drains.
Recv ==
    /\ consumer # "gone"
    /\ \E s \in buf : buf' = buf \ {s} /\ received' = received \cup {s}
    /\ UNCHANGED <<cap, form, sender, late, isClosed, done, once, closer, consumer, ctxDone>>

SeeDone ==
    /\ consumer = "select" /\ done
    /\ consumer' = "drain"
    /\ UNCHANGED <<cap, form, sender, late, buf, received, isClosed, done, once, closer, ctxDone>>

\* TryRecv finds nothing.
Drained ==
    /\ consumer = "drain" /\ buf = {}
    /\ consumer' = "gone"
    /\ UNCHANGED <<cap, form, sender, late, buf, received, isClosed, done, once, closer, ctxDone>>

CancelContext ==
    /\ ~ctxDone /\ ctxDone' = TRUE
    /\ UNCHANGED <<cap, form, sender, late, buf, received, isClosed, done, once, closer, consumer>>

SenderStep(s) ==
    SelectSend(s) \/ SeeClosed(s) \/ SeeContext(s) \/ Default(s) \/ Recheck(s)
CloserStep(c) == SetFlag(c) \/ CloseDone(c) \/ WaitOnce(c)

ClosableNext ==
    \/ \E s \in Senders : Call(s) \/ SenderStep(s)
    \/ \E c \in Closers : CallClose(c) \/ CloserStep(c)
    \/ Recv \/ SeeDone \/ Drained
    \/ CancelContext

\* A call that can go on does; the consumer may be as slow as it likes.
ClosableFairness ==
    /\ \A s \in Senders : WF_closableVars(SenderStep(s))
    /\ \A c \in Closers : WF_closableVars(CloserStep(c))

ClosableSpec     == ClosableInit /\ [][ClosableNext]_closableVars
ClosableFairSpec == ClosableSpec /\ ClosableFairness

-----------------------------------------------------------------------------
ClosableTypeOK ==
    /\ cap \in Capacities
    /\ form \in [Senders -> {"send", "try", "ctx"}]
    /\ sender \in [Senders -> {"idle", "checked", "missed"} \cup Answers]
    /\ late \subseteq Senders /\ buf \subseteq Senders /\ received \subseteq Senders
    /\ isClosed \in BOOLEAN /\ done \in BOOLEAN /\ ctxDone \in BOOLEAN
    /\ once \in {"free", "running", "over"}
    /\ closer \in [Closers -> {"idle", "waiting", "flagging", "closing", "returned"}]
    /\ consumer \in {"select", "drain", "gone"}

\* A call that answered nil has its value in the channel or with the consumer, once;
\* a call that answered anything else has it nowhere.
Accounted ==
    /\ buf \cap received = {}
    /\ \A s \in Senders : s \in buf \cup received <=> sender[s] = "nil"

\* A call that begins after a Close has returned, be it the first or a second one
\* that found the Once taken, is told ErrClosed, even TrySend on a full channel.
RefusedAfterClose == \A s \in late : sender[s] = "closed"

\* The answers of the senders are true at every moment, and the buffer holds
\* (closable.go:49-99).
SendsTruthful == Accounted /\ RefusedAfterClose /\ Cardinality(buf) <= cap

\* What Close has done when it returns, or is about to do: the flag before the
\* channel, one closer at a time in the Once.
CloseInOrder ==
    /\ done => isClosed
    /\ \A c \in Closers :
         /\ closer[c] = "returned" => once = "over"
         /\ closer[c] \in {"flagging", "closing"} => once = "running"
         /\ closer[c] = "closing" => isClosed
         /\ closer[c] = "flagging" => ~isClosed
    /\ once = "over" => done
    /\ once = "free" => ~isClosed
    /\ \A c, d \in Closers :
         closer[c] \in {"flagging", "closing"} /\ closer[d] \in {"flagging", "closing"} => c = d

\* The close goes flag, channel, return, and what a Send answers is the truth about its
\* value: the inductive invariant of the proofs (closable.go:49-114).
ClosableInv == ClosableTypeOK /\ CloseInOrder /\ SendsTruthful

\* Close frees the senders: once it has returned, no call stays blocked, though
\* nobody may ever receive again.
SendersReturn ==
    \A s \in Senders :
        (sender[s] # "idle" /\ \E c \in Closers : closer[c] = "returned")
            ~> sender[s] \in Answers
=============================================================================
