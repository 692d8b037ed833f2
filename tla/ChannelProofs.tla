--------------------------- MODULE ChannelProofs ---------------------------
(***************************************************************************)
(* Proofs about the two objects that are a Go channel with one word of     *)
(* state beside it: the Semaphore, for any number of users and misusers    *)
(* and any capacity, and the Closable, for any senders, closers and buffer *)
(* sizes.  Of the first the invariant relates the channel to the counter   *)
(* by the calls that are between their two updates; from it follow that    *)
(* Release never blocks and that matched calls respect the capacity.  Of   *)
(* the second it says in which order Close does its work: the flag is up   *)
(* before any Close returns, because a second caller waits for the Once;   *)
(* on that rests what a sender is told.                                    *)
(***************************************************************************)
EXTENDS Semaphore, Closable, FiniteSetTheorems, TLAPS

-----------------------------------------------------------------------------
(* The Semaphore *)

Weight(p, place) == IF p = place THEN 1 ELSE 0

\* Any set of users is finite.
LEMMA FiniteAt ==
    ASSUME NEW place PROVE IsFiniteSet(At(place)) /\ Cardinality(At(place)) \in Nat
  BY SemaphoreAssumption, FS_Subset, FS_CardinalityType DEF At

\* A user that moves changes two of the counts by one.
LEMMA Moves ==
    ASSUME pc \in [Users -> Places], NEW u \in Users, NEW to \in Places,
           pc' = [pc EXCEPT ![u] = to], NEW place
    PROVE  Cardinality(At(place))' =
             Cardinality(At(place)) + Weight(to, place) - Weight(pc[u], place)
<1>0. IsFiniteSet(At(place)) /\ Cardinality(At(place)) \in Nat
  BY FiniteAt
<1>1. CASE to = place /\ pc[u] # place
  <2>1. At(place)' = At(place) \cup {u} /\ u \notin At(place)
    BY <1>1 DEF At
  <2>2. Cardinality(At(place))' = Cardinality(At(place)) + 1
    BY <1>0, <2>1, FS_AddElement
  <2> QED BY <1>0, <1>1, <2>2 DEF Weight
<1>2. CASE to # place /\ pc[u] = place
  <2>1. At(place)' = At(place) \ {u} /\ u \in At(place)
    BY <1>2 DEF At
  <2>2. /\ Cardinality(At(place))' = Cardinality(At(place)) - 1
        /\ Cardinality(At(place))' \in Nat
    BY <1>0, <2>1, FS_RemoveElement, FS_CardinalityType
  <2> QED BY <1>0, <1>2, <2>2 DEF Weight
<1>3. CASE (to = place) = (pc[u] = place)
  <2>1. At(place)' = At(place)
    BY <1>3 DEF At
  <2> QED BY <1>0, <1>3, <2>1 DEF Weight
<1> QED BY <1>1, <1>2, <1>3

\* Moves for the places that the invariant counts.
Counted(from, to) ==
    \A place \in {"sent", "holding", "lowered", "undoing"} :
        Cardinality(At(place))' = Cardinality(At(place)) + Weight(to, place) - Weight(from, place)

\* An empty set of users is one with no elements counted.
LEMMA Nobody == ASSUME NEW place PROVE At(place) = {} <=> Cardinality(At(place)) = 0
  BY FiniteAt, FS_EmptySet

\* The initial state satisfies the invariant.
LEMMA InitIInv == Init => IInv
<1> SUFFICES ASSUME Init PROVE IInv
  OBVIOUS
<1>1. TypeOK
  <2>1. pc \in [Users -> Places] /\ misused \in BOOLEAN
    BY DEF Init, Places
  <2>2. ch \in 0..Cap /\ acquired \in Int /\ cancelled \subseteq Users /\ panicked \subseteq Users
    BY SemaphoreAssumption DEF Init
  <2> QED BY <2>1, <2>2 DEF TypeOK
<1>2. \A place \in Places \ {"idle"} : At(place) = {}
  BY DEF Init, At
<1>3. \A place \in Places \ {"idle"} : Cardinality(At(place)) = 0
  BY <1>2, FS_EmptySet
<1>4. Accounting /\ Matched
  BY <1>2, <1>3 DEF Init, Accounting, Matched, Places
<1> QED BY <1>1, <1>4 DEF IInv

\* The invariant is inductive.
LEMMA NextIInv == IInv /\ [Next]_vars => IInv'
<1> SUFFICES ASSUME IInv, [Next]_vars PROVE IInv'
  OBVIOUS
<1> USE SemaphoreAssumption DEF IInv
<1>a. \A place : Cardinality(At(place)) \in Nat
  BY FiniteAt
<1>1. ASSUME NEW u \in Users, NEW from, NEW to \in Places, pc[u] = from,
             pc' = [pc EXCEPT ![u] = to]
      PROVE  Counted(from, to)
  BY <1>1, Moves DEF Counted, TypeOK
<1>b. At("undoing") = {} <=> Cardinality(At("undoing")) = 0
  BY Nobody
<1>c. At("undoing")' = {} <=> Cardinality(At("undoing"))' = 0
  <2>1. IsFiniteSet(At("undoing")')
    BY SemaphoreAssumption, FS_Subset DEF At
  <2> QED BY <2>1, FS_EmptySet
<1> USE <1>a, <1>b, <1>c DEF TypeOK, Accounting, Matched, Places
<1>2. ASSUME NEW u \in Users, CallAcquire(u) PROVE IInv'
  <2>1. Counted("idle", "acquiring")
    BY <1>1, <1>2 DEF CallAcquire, Goto
  <2> QED BY <1>2, <2>1 DEF CallAcquire, Goto, Counted, Weight
<1>3. ASSUME NEW u \in Users, Send(u) PROVE IInv'
  <2>1. Counted("acquiring", "sent")
    BY <1>1, <1>3 DEF Send, Goto
  <2> QED BY <1>3, <2>1 DEF Send, Goto, Counted, Weight
<1>4. ASSUME NEW u \in Users, GiveUp(u) PROVE IInv'
  <2>1. Counted("acquiring", "idle")
    BY <1>1, <1>4 DEF GiveUp, Goto
  <2> QED BY <1>4, <2>1 DEF GiveUp, Goto, Counted, Weight
<1>5. ASSUME NEW u \in Users, TrySend(u) PROVE IInv'
  <2>1. Counted("idle", "sent")
    BY <1>1, <1>5 DEF TrySend, Goto
  <2> QED BY <1>5, <2>1 DEF TrySend, Goto, Counted, Weight
<1>6. ASSUME NEW u \in Users, Count(u) PROVE IInv'
  <2>1. Counted("sent", "holding")
    BY <1>1, <1>6 DEF Count, Goto
  <2> QED BY <1>6, <2>1 DEF Count, Goto, Counted, Weight
<1>7. ASSUME NEW u \in Users, Lower(u) PROVE IInv'
  <2>0. /\ acquired' = acquired - 1
        /\ ch' = ch
        /\ cancelled' = cancelled
        /\ panicked' \subseteq Users /\ (panicked = {} => panicked' = {})
        /\ misused' \in BOOLEAN /\ (misused => misused')
    BY <1>7 DEF Lower
  <2>1. CASE acquired > 0
    <3>1. pc' = [pc EXCEPT ![u] = "lowered"]
      BY <1>7, <2>1 DEF Lower
    <3>2. CASE pc[u] = "holding"
      <4>1. Counted("holding", "lowered")
        BY <1>1, <3>1, <3>2
      <4> QED BY <2>0, <3>1, <4>1 DEF Counted, Weight
    <3>3. CASE pc[u] = "idle"
      <4>1. Counted("idle", "lowered")
        BY <1>1, <3>1, <3>3
      <4>2. misused'
        BY <1>7, <3>3 DEF Lower
      <4> QED BY <2>0, <3>1, <4>1, <4>2 DEF Counted, Weight
    <3> QED BY <1>7, <3>2, <3>3 DEF Lower
  <2>2. CASE ~(acquired > 0)
    <3>1. pc' = [pc EXCEPT ![u] = "undoing"]
      BY <1>7, <2>2 DEF Lower
    <3>2. CASE pc[u] = "holding"
      <4>1. Counted("holding", "undoing")
        BY <1>1, <3>1, <3>2
      <4>2. u \in At("holding")
        BY <3>2 DEF At
      <4>3. Cardinality(At("holding")) # 0
        BY <4>2, Nobody
      <4>4. misused
        BY <2>2, <4>3
      <4> QED BY <2>0, <3>1, <4>1, <4>4 DEF Counted, Weight
    <3>3. CASE pc[u] = "idle"
      <4>1. Counted("idle", "undoing")
        BY <1>1, <3>1, <3>3
      <4>2. misused'
        BY <1>7, <3>3 DEF Lower
      <4> QED BY <2>0, <3>1, <4>1, <4>2 DEF Counted, Weight
    <3> QED BY <1>7, <3>2, <3>3 DEF Lower
  <2> QED BY <2>1, <2>2
<1>8. ASSUME NEW u \in Users, Receive(u) PROVE IInv'
  <2>1. Counted("lowered", "idle")
    BY <1>1, <1>8 DEF Receive, Goto
  <2> QED BY <1>8, <2>1 DEF Receive, Goto, Counted, Weight
<1>9. ASSUME NEW u \in Users, Undo(u) PROVE IInv'
  <2>1. Counted("undoing", "idle")
    BY <1>1, <1>9 DEF Undo, Goto
  <2>2. misused
    BY <1>9 DEF Undo, Goto, At
  <2> QED BY <1>9, <2>1, <2>2 DEF Undo, Goto, Counted, Weight
<1>10. ASSUME NEW u \in Users, Cancel(u) PROVE IInv'
  BY <1>10 DEF Cancel, At
<1>11. CASE UNCHANGED vars
  BY <1>11 DEF vars, At
<1> QED
  BY <1>2, <1>3, <1>4, <1>5, <1>6, <1>7, <1>8, <1>9, <1>10, <1>11 DEF Next

\* IInv: the channel and the counter agree but for the calls under way.
THEOREM Invariance == Spec => []IInv
  BY InitIInv, NextIInv, PTL DEF Spec

-----------------------------------------------------------------------------

\* The counter falls below zero by no more than the calls that are about to
\* take their decrement back.
Floor == acquired >= -Cardinality(At("undoing"))

\* Floor holds: a decrement that makes the count negative is taken back later.
LEMMA FloorHolds == Spec => []Floor
<1>1. Init => Floor
  <2> SUFFICES ASSUME Init PROVE Floor
    OBVIOUS
  <2>1. At("undoing") = {}
    BY DEF Init, At
  <2> QED BY <2>1, FS_EmptySet DEF Init, Floor
<1>2. IInv /\ Floor /\ [Next]_vars => Floor'
  <2> SUFFICES ASSUME IInv, Floor, [Next]_vars PROVE Floor'
    OBVIOUS
  <2>a. Cardinality(At("undoing")) \in Nat /\ acquired \in Int
    BY FiniteAt DEF IInv, TypeOK
  <2>b. ASSUME NEW u \in Users, NEW from, NEW to \in Places, Goto(u, from, to)
        PROVE  Cardinality(At("undoing"))' =
                 Cardinality(At("undoing")) + Weight(to, "undoing") - Weight(from, "undoing")
    BY <2>b, Moves DEF IInv, TypeOK, Goto
  <2> USE <2>a DEF Floor
  <2>1. ASSUME NEW u \in Users, CallAcquire(u) \/ Send(u) \/ GiveUp(u) \/ TrySend(u) \/ Receive(u)
        PROVE  Floor'
    <3>1. PICK from \in Places \ {"undoing"}, to \in Places \ {"undoing"} : Goto(u, from, to)
      BY <2>1 DEF CallAcquire, Send, GiveUp, TrySend, Receive, Goto, Places
    <3>2. Cardinality(At("undoing"))' = Cardinality(At("undoing"))
      BY <2>b, <3>1 DEF Weight
    <3> QED BY <2>1, <3>2 DEF CallAcquire, Send, GiveUp, TrySend, Receive
  <2>2. ASSUME NEW u \in Users, Count(u) PROVE Floor'
    BY <2>2, <2>b DEF Count, Weight, Places
  <2>3. ASSUME NEW u \in Users, Lower(u) PROVE Floor'
    <3>1. CASE acquired > 0
      <4>1. PICK from \in {"holding", "idle"} : Goto(u, from, "lowered")
        BY <2>3, <3>1 DEF Lower, Goto
      <4>2. Cardinality(At("undoing"))' = Cardinality(At("undoing"))
        BY <2>b, <4>1 DEF Weight, Places
      <4> QED BY <2>3, <3>1, <4>2 DEF Lower
    <3>2. CASE ~(acquired > 0)
      <4>1. PICK from \in {"holding", "idle"} : Goto(u, from, "undoing")
        BY <2>3, <3>2 DEF Lower, Goto
      <4>2. Cardinality(At("undoing"))' = Cardinality(At("undoing")) + 1
        BY <2>b, <4>1 DEF Weight, Places
      <4> QED BY <2>3, <4>2 DEF Lower
    <3> QED BY <3>1, <3>2
  <2>4. ASSUME NEW u \in Users, Undo(u) PROVE Floor'
    BY <2>4, <2>b DEF Undo, Weight, Places
  <2>5. CASE UNCHANGED vars \/ \E u \in Users : Cancel(u)
    BY <2>5 DEF vars, Cancel, At
  <2> QED BY <2>1, <2>2, <2>3, <2>4, <2>5 DEF Next
<1> QED BY <1>1, <1>2, Invariance, PTL DEF Spec

\* ReleaseNeverBlocks: whoever passed the check of the counter finds an element.
THEOREM NeverBlocks == Spec => []ReleaseNeverBlocks
<1>1. IInv /\ Floor => ReleaseNeverBlocks
  BY FiniteAt DEF IInv, TypeOK, Accounting, Floor, ReleaseNeverBlocks
<1> QED BY <1>1, Invariance, FloorHolds, PTL

\* Disciplined: without misuse the capacity is respected and nothing panics.
THEOREM DisciplinedUse == Spec => []Disciplined
<1>1. ASSUME IInv, ~misused
      PROVE  Cardinality(At("holding")) <= Cap /\ panicked = {} /\ At("undoing") = {}
  <2>1. panicked = {} /\ At("undoing") = {} /\ acquired = Cardinality(At("holding"))
    BY <1>1 DEF IInv, Matched
  <2>2. Cardinality(At("undoing")) = 0
    BY <2>1, FS_EmptySet
  <2> QED
    BY <1>1, <2>1, <2>2, FiniteAt, SemaphoreAssumption DEF IInv, TypeOK, Accounting
<1>2. IInv => Disciplined
  BY <1>1 DEF Disciplined
<1> QED BY <1>2, Invariance, PTL

-----------------------------------------------------------------------------
(* The Closable *)

\* The values in the channel are a finite set.
LEMMA FiniteBuffer ==
    ASSUME NEW S \in SUBSET Senders PROVE IsFiniteSet(S) /\ Cardinality(S) \in Nat
  BY ClosableAssumption, FS_Subset, FS_CardinalityType

\* A value more or less in the channel.
LEMMA BufferMoves ==
    ASSUME NEW S \in SUBSET Senders, NEW s \in Senders
    PROVE  /\ s \notin S => Cardinality(S \cup {s}) = Cardinality(S) + 1
           /\ s \in S => Cardinality(S \ {s}) = Cardinality(S) - 1
  BY FiniteBuffer, FS_AddElement, FS_RemoveElement

\* The initial state satisfies the invariant.
LEMMA InitClosableInv == ClosableInit => ClosableInv
<1> SUFFICES ASSUME ClosableInit PROVE ClosableInv
  OBVIOUS
<1>1. Cardinality(buf) = 0 /\ cap \in Nat
  BY ClosableAssumption, FS_EmptySet DEF ClosableInit
<1>2. ClosableTypeOK
  BY DEF ClosableInit, ClosableTypeOK
<1>3. CloseInOrder
  BY DEF ClosableInit, CloseInOrder
<1>4. SendsTruthful
  BY <1>1 DEF ClosableInit, SendsTruthful, Accounted, RefusedAfterClose
<1> QED BY <1>2, <1>3, <1>4 DEF ClosableInv

\* A step of a sender that neither sends nor calls leaves the order of Close alone
\* and keeps what the senders were told.
LEMMA SenderMoves ==
    ASSUME ClosableInv, NEW s \in Senders, NEW to \in {"closed", "ctx", "full", "missed"},
           sender[s] \in {"checked", "missed"}, sender' = [sender EXCEPT ![s] = to],
           to # "closed" => s \notin late,
           UNCHANGED <<cap, form, late, buf, received, isClosed, done, once, closer,
                       consumer, ctxDone>>
    PROVE  ClosableInv'
<1>1. ClosableTypeOK'
  BY DEF ClosableInv, ClosableTypeOK, Answers
<1>2. CloseInOrder'
  BY DEF ClosableInv, CloseInOrder
<1>3. Accounted'
  BY DEF ClosableInv, SendsTruthful, Accounted, ClosableTypeOK
<1>4. RefusedAfterClose'
  BY DEF ClosableInv, SendsTruthful, RefusedAfterClose, ClosableTypeOK
<1> QED BY <1>1, <1>2, <1>3, <1>4 DEF ClosableInv, SendsTruthful

\* A sender that is past the check of the flag did not call late.
LEMMA NotLate ==
    ASSUME ClosableInv, NEW s \in Senders, sender[s] \in {"checked", "missed"} PROVE s \notin late
  BY DEF ClosableInv, SendsTruthful, RefusedAfterClose

\* The invariant is inductive: the steps of the senders.
LEMMA SendersIInv ==
    ASSUME ClosableInv, NEW s \in Senders, Call(s) \/ SenderStep(s)
    PROVE  ClosableInv'
<1> USE DEF ClosableInv
<1>1. CASE Call(s)
  <2>1. ClosableTypeOK'
    BY <1>1 DEF Call, ClosableTypeOK, Answers
  <2>2. CloseInOrder'
    BY <1>1 DEF Call, CloseInOrder
  <2>3. Accounted' /\ Cardinality(buf') <= cap'
    BY <1>1 DEF Call, SendsTruthful, Accounted, ClosableTypeOK
  <2>4. (\E c \in Closers : closer[c] = "returned") => isClosed
    BY DEF CloseInOrder
  <2>5. RefusedAfterClose'
    BY <1>1, <2>4 DEF Call, SendsTruthful, RefusedAfterClose, ClosableTypeOK
  <2> QED BY <2>1, <2>2, <2>3, <2>5 DEF SendsTruthful
<1>2. CASE SelectSend(s)
  <2>1. sender[s] = "checked" /\ sender' = [sender EXCEPT ![s] = "nil"]
    BY <1>2 DEF SelectSend
  <2>2. s \notin buf \cup received /\ s \notin late
    BY <2>1, NotLate DEF SendsTruthful, Accounted
  <2>3. ClosableTypeOK'
    BY <1>2 DEF SelectSend, ClosableTypeOK, Answers
  <2>4. CloseInOrder'
    BY <1>2 DEF SelectSend, CloseInOrder
  <2>5. buf' \cup received' = buf \cup received \cup {s} /\ buf' \cap received' = {}
    BY <1>2, <2>2 DEF SelectSend, SendsTruthful, Accounted
  <2>6. Accounted'
    BY <2>1, <2>5 DEF SendsTruthful, Accounted, ClosableTypeOK
  <2>7. RefusedAfterClose'
    BY <1>2, <2>1, <2>2 DEF SelectSend, SendsTruthful, RefusedAfterClose, ClosableTypeOK
  <2>8. Cardinality(buf') <= cap'
    <3>1. cap \in Nat /\ cap' = cap /\ Cardinality(buf) \in Nat
      BY <1>2, FiniteBuffer, ClosableAssumption DEF SelectSend, ClosableTypeOK
    <3>2. CASE Cardinality(buf) < cap /\ buf' = buf \cup {s}
      BY <2>2, <3>1, <3>2, BufferMoves DEF ClosableTypeOK
    <3>3. CASE buf' = buf
      BY <3>1, <3>3 DEF SendsTruthful
    <3> QED BY <1>2, <3>2, <3>3 DEF SelectSend
  <2> QED BY <2>3, <2>4, <2>6, <2>7, <2>8 DEF SendsTruthful
<1>3. CASE SeeClosed(s)
  BY <1>3, SenderMoves DEF SeeClosed
<1>4. CASE SeeContext(s)
  BY <1>4, SenderMoves, NotLate DEF SeeContext
<1>5. CASE Default(s)
  BY <1>5, SenderMoves, NotLate DEF Default
<1>6. CASE Recheck(s)
  BY <1>6, SenderMoves, NotLate DEF Recheck
<1> QED BY <1>1, <1>2, <1>3, <1>4, <1>5, <1>6 DEF SenderStep

\* A step that leaves the senders and their values alone.
LEMMA OthersMove ==
    ASSUME ClosableInv, UNCHANGED <<cap, sender, late, buf, received>>
    PROVE  SendsTruthful'
  BY DEF ClosableInv, SendsTruthful, Accounted, RefusedAfterClose

\* The invariant is inductive: the steps of the closers.
LEMMA ClosersIInv ==
    ASSUME ClosableInv, NEW c \in Closers, CallClose(c) \/ CloserStep(c) PROVE ClosableInv'
<1> USE DEF ClosableInv
<1>1. SendsTruthful'
  BY OthersMove DEF CallClose, CloserStep, SetFlag, CloseDone, WaitOnce
<1>2. ClosableTypeOK'
  BY DEF ClosableTypeOK, CallClose, CloserStep, SetFlag, CloseDone, WaitOnce
<1>3. CloseInOrder'
  <2>1. CASE CallClose(c)
    BY <2>1 DEF CallClose, CloseInOrder, ClosableTypeOK
  <2>2. CASE SetFlag(c)
    BY <2>2 DEF SetFlag, CloseInOrder, ClosableTypeOK
  <2>3. CASE CloseDone(c)
    BY <2>3 DEF CloseDone, CloseInOrder, ClosableTypeOK
  <2>4. CASE WaitOnce(c)
    BY <2>4 DEF WaitOnce, CloseInOrder, ClosableTypeOK
  <2> QED BY <2>1, <2>2, <2>3, <2>4 DEF CloserStep
<1> QED BY <1>1, <1>2, <1>3

\* The invariant is inductive.
LEMMA NextClosableInv == ClosableInv /\ [ClosableNext]_closableVars => ClosableInv'
<1> SUFFICES ASSUME ClosableInv, [ClosableNext]_closableVars PROVE ClosableInv'
  OBVIOUS
<1> USE DEF ClosableInv
<1>1. CASE Recv
  <2>1. PICK s \in buf : buf' = buf \ {s} /\ received' = received \cup {s}
    BY <1>1 DEF Recv
  <2>2. ClosableTypeOK' /\ CloseInOrder'
    BY <1>1, <2>1 DEF Recv, ClosableTypeOK, CloseInOrder
  <2>3. Accounted' /\ RefusedAfterClose'
    BY <1>1, <2>1 DEF Recv, SendsTruthful, Accounted, RefusedAfterClose
  <2>4. Cardinality(buf') <= cap'
    BY <1>1, <2>1, BufferMoves, FiniteBuffer, ClosableAssumption
       DEF Recv, SendsTruthful, ClosableTypeOK
  <2> QED BY <2>2, <2>3, <2>4 DEF SendsTruthful
<1>2. CASE SeeDone \/ Drained \/ CancelContext
  <2>1. SendsTruthful'
    BY <1>2, OthersMove DEF SeeDone, Drained, CancelContext
  <2>2. ClosableTypeOK'
    BY <1>2 DEF SeeDone, Drained, CancelContext, ClosableTypeOK
  <2>3. CloseInOrder'
    <3>1. UNCHANGED <<isClosed, done, once, closer>>
      BY <1>2 DEF SeeDone, Drained, CancelContext
    <3> QED BY <3>1 DEF CloseInOrder
  <2> QED BY <2>1, <2>2, <2>3
<1>3. CASE UNCHANGED closableVars
  <2>1. SendsTruthful'
    BY <1>3, OthersMove DEF closableVars
  <2>2. ClosableTypeOK' /\ CloseInOrder'
    BY <1>3 DEF closableVars, ClosableTypeOK, CloseInOrder
  <2> QED BY <2>1, <2>2
<1> QED BY <1>1, <1>2, <1>3, SendersIInv, ClosersIInv DEF ClosableNext

\* The close goes flag, channel, return, and every answer of a Send is the truth about
\* its value, for every number of senders, closers and places in the buffer
\* (closable.go:49-114).
THEOREM ClosableInvariance == ClosableSpec => []ClosableInv
<1>1. ClosableInit => ClosableInv
  BY InitClosableInv
<1>2. ClosableInv /\ [ClosableNext]_closableVars => ClosableInv'
  BY NextClosableInv
<1> QED BY <1>1, <1>2, PTL DEF ClosableSpec

\* SendsTruthful: an answer of nil means the value is in the channel or with the
\* consumer, any other that it is nowhere; and who calls after a Close has returned
\* is told ErrClosed.
THEOREM Truthful == ClosableSpec => []SendsTruthful
<1>1. ClosableInv => SendsTruthful
  BY DEF ClosableInv
<1>2. ClosableSpec => []ClosableInv
  BY ClosableInvariance
<1> QED BY <1>1, <1>2, PTL
=============================================================================
