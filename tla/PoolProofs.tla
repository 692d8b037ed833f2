----------------------------- MODULE PoolProofs -----------------------------
(***************************************************************************)
(* Proofs about the module Pool, for any tasks, workers, callers of Close  *)
(* and queue sizes.  The invariant IInv says where each task is: in the    *)
(* queue, with a worker, or at its end, once, and only if its submission   *)
(* was accepted.  From it follow what Submit, Close and Stats promise, and *)
(* that the pool implements TaskGroup.                                     *)
(***************************************************************************)
EXTENDS Pool, FiniteSetTheorems, TLAPS

-----------------------------------------------------------------------------
(* The queue and the counts *)

\* A send puts one task at the end of the queue.
LEMMA QueueGrows ==
    ASSUME queue \in Seq(Tasks), NEW t \in Tasks, queue' = Append(queue, t)
    PROVE  /\ queue' \in Seq(Tasks) /\ Len(queue) \in Nat
           /\ Len(queue') = Len(queue) + 1
           /\ \A i \in 1..Len(queue) : queue'[i] = queue[i]
           /\ queue'[Len(queue) + 1] = t
  OBVIOUS

\* A receive takes the first one.
LEMMA QueueShrinks ==
    ASSUME queue \in Seq(Tasks), queue # <<>>, queue' = Tail(queue)
    PROVE  /\ queue' \in Seq(Tasks) /\ Len(queue) \in Nat \ {0}
           /\ Len(queue') = Len(queue) - 1
           /\ \A i \in 1..Len(queue') : queue'[i] = queue[i + 1]
           /\ Head(queue) = queue[1] /\ Head(queue) \in Tasks
  OBVIOUS

\* A call that begins to be counted, one that ceases to be, and one that does neither.
LEMMA CallMoves ==
    ASSUME TypeOK, NEW t \in Tasks, NEW to, call' = [call EXCEPT ![t] = to]
    PROVE  /\ IsFiniteSet(Counting)
           /\ call[t] # "counting" /\ to = "counting" => Counting' = Counting \cup {t} /\ t \notin Counting
           /\ call[t] = "counting" /\ to # "counting" => Counting' = Counting \ {t} /\ t \in Counting
           /\ (call[t] = "counting") = (to = "counting") => Counting' = Counting
<1>1. IsFiniteSet(Counting)
  BY PoolAssumption, FS_Subset DEF Counting
<1>2. call'[t] = to /\ \A u \in Tasks \ {t} : call'[u] = call[u]
  BY DEF TypeOK
<1>3. call[t] # "counting" /\ to = "counting" => Counting' = Counting \cup {t} /\ t \notin Counting
  BY <1>2 DEF Counting
<1>4. call[t] = "counting" /\ to # "counting" => Counting' = Counting \ {t} /\ t \in Counting
  BY <1>2 DEF Counting
<1>5. (call[t] = "counting") = (to = "counting") => Counting' = Counting
  BY <1>2 DEF Counting
<1> QED BY <1>1, <1>3, <1>4, <1>5

\* The same of a worker and its task.
LEMMA WorkerMoves ==
    ASSUME TypeOK, NEW w \in Workers, NEW to, place' = [place EXCEPT ![w] = to]
    PROVE  /\ IsFiniteSet(Occupied)
           /\ place[w] \notin Busy /\ to \in Busy => Occupied' = Occupied \cup {w} /\ w \notin Occupied
           /\ place[w] \in Busy /\ to \notin Busy => Occupied' = Occupied \ {w} /\ w \in Occupied
           /\ (place[w] \in Busy <=> to \in Busy) => Occupied' = Occupied
<1>1. IsFiniteSet(Occupied)
  BY PoolAssumption, FS_Subset DEF Occupied
<1>2. place'[w] = to /\ \A v \in Workers \ {w} : place'[v] = place[v]
  BY DEF TypeOK
<1>3. place[w] \notin Busy /\ to \in Busy => Occupied' = Occupied \cup {w} /\ w \notin Occupied
  BY <1>2 DEF Occupied
<1>4. place[w] \in Busy /\ to \notin Busy => Occupied' = Occupied \ {w} /\ w \in Occupied
  BY <1>2 DEF Occupied
<1>5. (place[w] \in Busy <=> to \in Busy) => Occupied' = Occupied
  BY <1>2 DEF Occupied
<1> QED BY <1>1, <1>3, <1>4, <1>5

\* The counts are numbers, moves or not.
LEMMA CountsAreNumbers ==
    /\ Cardinality(Counting) \in Nat /\ Cardinality(Occupied) \in Nat
    /\ call' = call => Counting' = Counting
    /\ place' = place => Occupied' = Occupied
<1>1. IsFiniteSet(Counting) /\ IsFiniteSet(Occupied)
  BY PoolAssumption, FS_Subset DEF Counting, Occupied
<1>2. Cardinality(Counting) \in Nat /\ Cardinality(Occupied) \in Nat
  BY <1>1, FS_CardinalityType
<1>3. (call' = call => Counting' = Counting) /\ (place' = place => Occupied' = Occupied)
  BY DEF Counting, Occupied
<1> QED BY <1>2, <1>3

-----------------------------------------------------------------------------
(* The initial state *)

\* The initial state satisfies the invariant.
LEMMA InitIInv == Init => IInv
<1> SUFFICES ASSUME Init PROVE IInv
  OBVIOUS
<1>0. PICK started \in Crews :
          place = [w \in Workers |-> IF w \in started THEN "receiving" ELSE "gone"]
  BY DEF Init
<1>a. queue \in Seq(Tasks) /\ Len(queue) = 0
  BY DEF Init
<1>1. TypeOK
  <2>1. place \in [Workers -> {"receiving", "gone"} \cup Busy]
    BY <1>0
  <2>2. Len(queue) <= size
    BY <1>a, PoolAssumption DEF Init
  <2> QED BY <1>a, <2>1, <2>2 DEF Init, TypeOK
<1>2. Placed /\ Admitted
  <2>1. \A w \in Workers : place[w] \notin Busy /\ job[w] = NoTask
    BY <1>0 DEF Init, Busy
  <2>2. Placed
    BY <1>a, <2>1 DEF Placed, Busy
  <2>3. \A t \in Tasks : call[t] \notin Accepted /\ outcome[t] = "none" /\ NoTask # t
    BY PoolAssumption DEF Init, Accepted
  <2> QED BY <1>a, <2>1, <2>2, <2>3 DEF Admitted
<1>3. Doors
  <2>1. \E w \in Workers : place[w] # "gone"
    BY <1>0, PoolAssumption
  <2> QED BY <2>1 DEF Init, Doors
<1>4. Errors
  BY FS_EmptySet DEF Init, Errors
<1>5. StatsAccount
  <2>1. Counting = {} /\ Occupied = {}
    BY <1>0 DEF Init, Counting, Occupied, Busy
  <2>2. Cardinality(Counting) = 0 /\ Cardinality(Occupied) = 0
    BY <2>1, FS_EmptySet
  <2> QED BY <1>a, <2>2 DEF Init, StatsAccount
<1> QED BY <1>1, <1>2, <1>3, <1>4, <1>5 DEF IInv

-----------------------------------------------------------------------------
(* The steps of a submission *)

\* A call that moves without touching the queue and the workers, and neither becomes
\* accepted nor ceases to be.
LEMMA CallOnly ==
    ASSUME IInv, NEW t \in Tasks, NEW to \in {"none"} \cup Pending \cup Accepted \cup Rejected,
           call' = [call EXCEPT ![t] = to], by' \in [Tasks -> Tasks \cup {Outside}],
           to \in Accepted <=> call[t] \in Accepted,
           UNCHANGED <<size, queue, shut, closed, ctxDone, place, job, outcome, completed,
                       errored, errs, closer, answer, ticker>>,
           submitted' \in Nat,
           submitted' + Cardinality(Counting') = submitted + Cardinality(Counting)
    PROVE  IInv'
<1> USE DEF IInv
<1>1. TypeOK'
  BY DEF TypeOK
<1>2. Placed'
  BY DEF Placed
<1>3. Admitted'
  <2>1. \A u \in Tasks : call'[u] \in Accepted <=> call[u] \in Accepted
    BY DEF TypeOK
  <2> QED BY <2>1 DEF Admitted
<1>4. Doors' /\ Errors'
  BY DEF Doors, Errors
<1>5. StatsAccount'
  <2>1. Occupied' = Occupied
    BY CountsAreNumbers
  <2> QED BY <2>1 DEF StatsAccount
<1> QED BY <1>1, <1>2, <1>3, <1>4, <1>5

\* A submission that is still under way has left nothing behind.
LEMMA Unplaced ==
    ASSUME IInv, NEW t \in Tasks, call[t] \in Pending
    PROVE  /\ call[t] # "counting" /\ call[t] \notin Accepted
           /\ outcome[t] = "none" /\ t \notin errs /\ t # NoTask
           /\ \A i \in 1..Len(queue) : queue[i] # t
           /\ \A w \in Workers : job[w] # t
  BY PoolAssumption DEF IInv, Admitted, Errors, Pending, Accepted

\* Enqueue keeps the invariant.
LEMMA EnqueueIInv == ASSUME IInv, NEW t \in Tasks, Enqueue(t) PROVE IInv'
<1> USE DEF IInv, Enqueue, doorVars, workVars, countVars, closeVars
<1>0. /\ queue' \in Seq(Tasks) /\ Len(queue) \in Nat
      /\ Len(queue') = Len(queue) + 1
      /\ \A i \in 1..Len(queue) : queue'[i] = queue[i]
      /\ queue'[Len(queue) + 1] = t
  BY QueueGrows DEF TypeOK
<1>a. /\ call[t] # "counting" /\ call[t] \notin Accepted
      /\ outcome[t] = "none" /\ \A i \in 1..Len(queue) : queue[i] # t
      /\ \A w \in Workers : job[w] # t
  BY Unplaced
<1>b. call'[t] = "counting" /\ \A u \in Tasks \ {t} : call'[u] = call[u]
  BY DEF TypeOK
<1>1. TypeOK'
  <2>1. call' \in [Tasks -> {"none"} \cup Pending \cup Accepted \cup Rejected]
    BY DEF TypeOK, Accepted
  <2>2. Len(queue') <= size'
    BY <1>0, PoolAssumption DEF TypeOK
  <2> QED BY <1>0, <2>1, <2>2 DEF TypeOK
<1>2. Placed'
  <2>1. \A i, j \in 1..Len(queue') : queue'[i] = queue'[j] => i = j
    BY <1>0, <1>a DEF Placed
  <2>2. \A i \in 1..Len(queue') :
            outcome[queue'[i]] = "none" /\ \A w \in Workers : job[w] # queue'[i]
    BY <1>0, <1>a DEF Placed
  <2> QED BY <2>1, <2>2 DEF Placed
<1>3. Admitted'
  <2> SUFFICES ASSUME NEW u \in Tasks
               PROVE  call'[u] \in Accepted
                        <=> \/ outcome[u] # "none"
                            \/ \E i \in 1..Len(queue') : queue'[i] = u
                            \/ \E w \in Workers : job[w] = u
    BY DEF Admitted
  <2>1. CASE u = t
    BY <2>1, <1>0, <1>b DEF Accepted
  <2>2. CASE u # t
    <3>1. (\E i \in 1..Len(queue') : queue'[i] = u) <=> (\E i \in 1..Len(queue) : queue[i] = u)
      BY <2>2, <1>0
    <3> QED BY <2>2, <3>1, <1>b DEF Admitted
  <2> QED BY <2>1, <2>2
<1>4. Doors' /\ Errors'
  BY DEF Doors, Errors
<1>5. StatsAccount'
  <2>1. Cardinality(Counting) \in Nat /\ Cardinality(Counting') = Cardinality(Counting) + 1
    <3>1. IsFiniteSet(Counting) /\ Counting' = Counting \cup {t} /\ t \notin Counting
      BY <1>a, CallMoves
    <3> QED BY <3>1, FS_AddElement, FS_CardinalityType
  <2>2. Occupied' = Occupied /\ Cardinality(Occupied) \in Nat
    BY CountsAreNumbers
  <2>3. submitted \in Nat /\ completed \in Nat /\ Len(queue) \in Nat /\ Len(queue') = Len(queue) + 1
    BY <1>0 DEF TypeOK
  <2>4. UNCHANGED <<submitted, completed>>
    OBVIOUS
  <2> HIDE DEF Enqueue
  <2> QED BY <2>1, <2>2, <2>3, <2>4 DEF StatsAccount
<1> QED BY <1>1, <1>2, <1>3, <1>4, <1>5

\* While a worker is there, no Close has returned.
LEMMA Unreturned ==
    ASSUME IInv, NEW w \in Workers, place[w] # "gone"
    PROVE  \A c \in Closers : closer[c] # "returned"
  BY DEF IInv, Doors

\* Handoff keeps the invariant.
LEMMA HandoffIInv ==
    ASSUME IInv, NEW t \in Tasks, NEW w \in Workers, Handoff(t, w) PROVE IInv'
<1> USE DEF IInv, Handoff, chanVars, doorVars, countVars, closeVars
<1>a. /\ call[t] # "counting" /\ call[t] \notin Accepted
      /\ outcome[t] = "none" /\ t \notin errs /\ t # NoTask
      /\ \A i \in 1..Len(queue) : queue[i] # t
      /\ \A v \in Workers : job[v] # t
  BY Unplaced
<1>b. call'[t] = "counting" /\ \A u \in Tasks \ {t} : call'[u] = call[u]
  BY DEF TypeOK
<1>c. /\ place'[w] = "running" /\ job'[w] = t /\ job[w] = NoTask
      /\ \A v \in Workers \ {w} : place'[v] = place[v] /\ job'[v] = job[v]
  BY DEF TypeOK, Placed, Busy
<1>1. TypeOK'
  BY DEF TypeOK, Accepted, Busy
<1>2. Placed'
  <2>1. \A i \in 1..Len(queue) :
            outcome[queue[i]] = "none" /\ \A v \in Workers : job'[v] # queue[i]
    BY <1>a, <1>c DEF Placed
  <2>2. \A v \in Workers :
          /\ place'[v] \in Busy <=> job'[v] # NoTask
          /\ place'[v] = "running" => outcome[job'[v]] = "none"
          /\ place'[v] = "erring" => outcome[job'[v]] = "err"
          /\ place'[v] = "landing" => outcome[job'[v]] # "none"
    BY <1>a, <1>c DEF Placed, Busy
  <2>3. \A u, v \in Workers : job'[u] = job'[v] /\ job'[u] # NoTask => u = v
    BY <1>a, <1>c DEF Placed
  <2> QED BY <2>1, <2>2, <2>3 DEF Placed
<1>3. Admitted'
  <2> SUFFICES ASSUME NEW u \in Tasks
               PROVE  call'[u] \in Accepted
                        <=> \/ outcome[u] # "none"
                            \/ \E i \in 1..Len(queue) : queue[i] = u
                            \/ \E v \in Workers : job'[v] = u
    BY DEF Admitted
  <2>1. CASE u = t
    BY <2>1, <1>b, <1>c DEF Accepted
  <2>2. CASE u # t
    <3>1. (\E v \in Workers : job'[v] = u) <=> (\E v \in Workers : job[v] = u)
      BY <2>2, <1>c, PoolAssumption
    <3> QED BY <2>2, <3>1, <1>b DEF Admitted
  <2> QED BY <2>1, <2>2
<1>4. Doors' /\ Errors'
  <2>1. \A c \in Closers : closer[c] # "returned"
    BY Unreturned
  <2>2. Doors'
    BY <1>c, <2>1 DEF Doors
  <2>3. \A u \in Tasks : (\E v \in Workers : place'[v] = "erring" /\ job'[v] = u)
                           <=> (\E v \in Workers : place[v] = "erring" /\ job[v] = u)
    BY <1>c
  <2> QED BY <2>1, <2>2, <2>3 DEF Errors
<1>5. StatsAccount'
  <2>1. Cardinality(Counting) \in Nat /\ Cardinality(Counting') = Cardinality(Counting) + 1
    <3>1. IsFiniteSet(Counting) /\ Counting' = Counting \cup {t} /\ t \notin Counting
      BY <1>a, CallMoves
    <3> QED BY <3>1, FS_AddElement, FS_CardinalityType
  <2>2. Cardinality(Occupied) \in Nat /\ Cardinality(Occupied') = Cardinality(Occupied) + 1
    <3>1. place[w] \notin Busy /\ "running" \in Busy
      BY DEF Busy
    <3>2. IsFiniteSet(Occupied) /\ Occupied' = Occupied \cup {w} /\ w \notin Occupied
      BY <3>1, WorkerMoves
    <3> QED BY <3>2, FS_AddElement, FS_CardinalityType
  <2>3. submitted \in Nat /\ completed \in Nat /\ Len(queue) \in Nat
    BY DEF TypeOK
  <2> QED BY <2>1, <2>2, <2>3 DEF StatsAccount
<1> QED BY <1>1, <1>2, <1>3, <1>4, <1>5

\* The steps of a submission keep the invariant.
LEMMA CallsIInv ==
    ASSUME IInv, NEW t \in Tasks,
           CallStep(t) \/ \E u \in Tasks \cup {Outside} : Submit(t, u) \/ TrySubmit(t, u)
    PROVE  IInv'
<1> DEFINE States == {"none"} \cup Pending \cup Accepted \cup Rejected
<1>0. submitted \in Nat /\ by \in [Tasks -> Tasks \cup {Outside}] /\ TypeOK
  BY DEF IInv, TypeOK
<1>1. ASSUME NEW u \in Tasks \cup {Outside}, Submit(t, u) \/ TrySubmit(t, u) PROVE IInv'
  <2>1. PICK to \in {"closedErr", "false", "submitting", "trying"} : call' = [call EXCEPT ![t] = to]
    BY <1>1 DEF Submit, TrySubmit
  <2>2. to \in States /\ to \notin Accepted /\ call[t] \notin Accepted
    BY <1>1 DEF Submit, TrySubmit, Pending, Rejected, Accepted
  <2>3. to # "counting" /\ call[t] # "counting"
    BY <1>1 DEF Submit, TrySubmit
  <2>4. Counting' = Counting
    BY <1>0, <2>1, <2>3, CallMoves
  <2>5. /\ by' \in [Tasks -> Tasks \cup {Outside}]
        /\ UNCHANGED <<size, queue, shut, closed, ctxDone, place, job, outcome, submitted, completed,
                       errored, errs, closer, answer, ticker>>
    BY <1>0, <1>1 DEF Submit, TrySubmit, chanVars, doorVars, workVars, countVars, closeVars
  <2> HIDE DEF States
  <2> QED BY <1>0, <2>1, <2>2, <2>4, <2>5, CallOnly DEF States
<1>2. CASE SendPanics(t) \/ GiveUp(t) \/ Refuse(t)
  <2>1. PICK to \in Rejected : call' = [call EXCEPT ![t] = to]
    BY <1>2 DEF SendPanics, GiveUp, Refuse, Rejected
  <2>2. to \in States /\ to \notin Accepted /\ call[t] \notin Accepted
    BY <1>2, <2>1 DEF SendPanics, GiveUp, Refuse, Pending, Rejected, Accepted
  <2>3. to # "counting" /\ call[t] # "counting"
    BY <1>2, <2>1 DEF SendPanics, GiveUp, Refuse, Pending, Rejected
  <2>4. Counting' = Counting
    BY <1>0, <2>1, <2>3, CallMoves
  <2>5. UNCHANGED <<size, queue, shut, closed, ctxDone, by, place, job, outcome, submitted,
                    completed, errored, errs, closer, answer, ticker>>
    BY <1>2 DEF SendPanics, GiveUp, Refuse, chanVars, doorVars, workVars, countVars, closeVars
  <2> QED BY <1>0, <2>1, <2>2, <2>4, <2>5, CallOnly
<1>3. CASE CountSubmitted(t)
  <2>1. /\ call' = [call EXCEPT ![t] = "accepted"] /\ call[t] = "counting"
        /\ submitted' = submitted + 1
        /\ UNCHANGED <<size, queue, shut, closed, ctxDone, by, place, job, outcome, completed,
                       errored, errs, closer, answer, ticker>>
    BY <1>3 DEF CountSubmitted, chanVars, doorVars, workVars, closeVars
  <2>2. "accepted" \in States /\ "accepted" \in Accepted /\ call[t] \in Accepted
    BY <2>1 DEF Accepted
  <2>3. IsFiniteSet(Counting) /\ Counting' = Counting \ {t} /\ t \in Counting
    BY <1>0, <2>1, CallMoves
  <2>4. Cardinality(Counting') = Cardinality(Counting) - 1 /\ Cardinality(Counting) \in Nat
    BY <2>3, FS_RemoveElement, FS_CardinalityType
  <2>5. submitted' \in Nat /\ submitted' + Cardinality(Counting') = submitted + Cardinality(Counting)
    BY <1>0, <2>1, <2>4
  <2> QED BY <1>0, <2>1, <2>2, <2>5, CallOnly
<1> QED
  BY <1>1, <1>2, <1>3, EnqueueIInv, HandoffIInv DEF CallStep

-----------------------------------------------------------------------------
(* The steps of a worker *)

\* A worker with a task has it alone.
LEMMA OnlyHolder ==
    ASSUME IInv, NEW w \in Workers, place[w] \in Busy
    PROVE  /\ job[w] \in Tasks /\ job[w] # NoTask /\ call[job[w]] \in Accepted
           /\ \A i \in 1..Len(queue) : queue[i] # job[w]
           /\ \A v \in Workers \ {w} : job[v] # job[w]
<1> USE DEF IInv
<1>1. job[w] # NoTask /\ job[w] \in Tasks
  BY DEF TypeOK, Placed
<1> QED BY <1>1 DEF Placed, Admitted

\* Receive keeps the invariant.
LEMMA ReceiveIInv == ASSUME IInv, NEW w \in Workers, Receive(w) PROVE IInv'
<1> USE DEF IInv, Receive, doorVars, callVars, countVars, closeVars
<1> DEFINE t == Head(queue)
<1>0. /\ queue' \in Seq(Tasks) /\ Len(queue) \in Nat \ {0}
      /\ Len(queue') = Len(queue) - 1
      /\ \A i \in 1..Len(queue') : queue'[i] = queue[i + 1]
      /\ t = queue[1] /\ t \in Tasks /\ t # NoTask
  BY QueueShrinks, PoolAssumption DEF TypeOK
<1> HIDE DEF t
<1>a. 1 \in 1..Len(queue) /\ \A i \in 1..Len(queue') : i + 1 \in 1..Len(queue) /\ i + 1 # 1
  BY <1>0
<1>b. outcome[t] = "none" /\ \A v \in Workers : job[v] # t
  BY <1>0, <1>a DEF Placed
<1>c. /\ place'[w] = "running" /\ job'[w] = t /\ job[w] = NoTask
      /\ \A v \in Workers \ {w} : place'[v] = place[v] /\ job'[v] = job[v]
  BY DEF TypeOK, Placed, Busy, t
<1>d. \A i \in 1..Len(queue') : queue'[i] # t
  BY <1>0, <1>a DEF Placed
<1>1. TypeOK'
  <2>1. place' \in [Workers -> {"receiving", "gone"} \cup Busy]
    BY DEF TypeOK, Busy
  <2>2. job' \in [Workers -> Tasks \cup {NoTask}]
    BY <1>0 DEF TypeOK, t
  <2>3. Len(queue') <= size'
    BY <1>0, PoolAssumption DEF TypeOK
  <2> QED BY <1>0, <2>1, <2>2, <2>3 DEF TypeOK
<1>2. Placed'
  <2>1. \A i, j \in 1..Len(queue') : queue'[i] = queue'[j] => i = j
    <3> SUFFICES ASSUME NEW i \in 1..Len(queue'), NEW j \in 1..Len(queue'), queue'[i] = queue'[j]
                 PROVE  i = j
      OBVIOUS
    <3>1. i + 1 = j + 1
      BY <1>0, <1>a DEF Placed
    <3> QED BY <3>1, <1>0
  <2>2. \A i \in 1..Len(queue') :
            outcome[queue'[i]] = "none" /\ \A v \in Workers : job'[v] # queue'[i]
    <3> SUFFICES ASSUME NEW i \in 1..Len(queue')
                 PROVE  outcome[queue'[i]] = "none" /\ \A v \in Workers : job'[v] # queue'[i]
      OBVIOUS
    <3>1. outcome[queue[i + 1]] = "none" /\ \A v \in Workers : job[v] # queue[i + 1]
      BY <1>a DEF Placed
    <3>2. queue'[i] = queue[i + 1] /\ queue'[i] # t
      BY <1>0, <1>d
    <3> QED BY <3>1, <3>2, <1>c
  <2>3. \A v \in Workers :
          /\ place'[v] \in Busy <=> job'[v] # NoTask
          /\ place'[v] = "running" => outcome[job'[v]] = "none"
          /\ place'[v] = "erring" => outcome[job'[v]] = "err"
          /\ place'[v] = "landing" => outcome[job'[v]] # "none"
    BY <1>0, <1>b, <1>c DEF Placed, Busy
  <2>4. \A u, v \in Workers : job'[u] = job'[v] /\ job'[u] # NoTask => u = v
    BY <1>b, <1>c DEF Placed
  <2> QED BY <2>1, <2>2, <2>3, <2>4 DEF Placed
<1>3. Admitted'
  <2> SUFFICES ASSUME NEW u \in Tasks
               PROVE  call[u] \in Accepted
                        <=> \/ outcome[u] # "none"
                            \/ \E i \in 1..Len(queue') : queue'[i] = u
                            \/ \E v \in Workers : job'[v] = u
    BY DEF Admitted
  <2>1. CASE u = t
    <3>1. call[u] \in Accepted
      BY <2>1, <1>0, <1>a DEF Admitted
    <3> QED BY <3>1, <2>1, <1>c
  <2>2. CASE u # t
    <3>1. (\E v \in Workers : job'[v] = u) <=> (\E v \in Workers : job[v] = u)
      BY <2>2, <1>c, PoolAssumption
    <3>2. ASSUME NEW i \in 1..Len(queue), queue[i] = u PROVE \E k \in 1..Len(queue') : queue'[k] = u
      <4>1. i # 1
        BY <3>2, <2>2, <1>0
      <4>2. i - 1 \in 1..Len(queue') /\ (i - 1) + 1 = i
        BY <4>1, <1>0
      <4>3. queue'[i - 1] = queue[i]
        BY <4>2, <1>0
      <4> QED BY <4>2, <4>3, <3>2
    <3>3. (\E i \in 1..Len(queue') : queue'[i] = u) <=> (\E i \in 1..Len(queue) : queue[i] = u)
      BY <3>2, <1>0, <1>a
    <3> QED BY <3>1, <3>3 DEF Admitted
  <2> QED BY <2>1, <2>2
<1>4. Doors' /\ Errors'
  <2>1. \A c \in Closers : closer[c] # "returned"
    BY Unreturned
  <2>2. Doors'
    BY <1>c, <2>1 DEF Doors
  <2>3. \A u \in Tasks : (\E v \in Workers : place'[v] = "erring" /\ job'[v] = u)
                           <=> (\E v \in Workers : place[v] = "erring" /\ job[v] = u)
    BY <1>c
  <2> QED BY <2>1, <2>2, <2>3 DEF Errors
<1>5. StatsAccount'
  <2>1. Cardinality(Occupied) \in Nat /\ Cardinality(Occupied') = Cardinality(Occupied) + 1
    <3>1. place[w] \notin Busy /\ "running" \in Busy
      BY DEF Busy
    <3>2. IsFiniteSet(Occupied) /\ Occupied' = Occupied \cup {w} /\ w \notin Occupied
      BY <3>1, WorkerMoves
    <3> QED BY <3>2, FS_AddElement, FS_CardinalityType
  <2>2. Counting' = Counting /\ Cardinality(Counting) \in Nat
    BY CountsAreNumbers
  <2> QED BY <1>0, <2>1, <2>2 DEF TypeOK, StatsAccount
<1> QED BY <1>1, <1>2, <1>3, <1>4, <1>5

\* LeaveLoop keeps the invariant.
LEMMA LeaveIInv == ASSUME IInv, NEW w \in Workers, LeaveLoop(w) PROVE IInv'
<1> USE DEF IInv, LeaveLoop, chanVars, doorVars, callVars, countVars, closeVars
<1>a. /\ place'[w] = "gone" /\ \A v \in Workers \ {w} : place'[v] = place[v]
      /\ place[w] = "receiving"
  BY DEF TypeOK
<1>1. TypeOK'
  BY DEF TypeOK
<1>2. Placed' /\ Admitted'
  BY <1>a DEF Placed, Admitted, Busy
<1>3. Doors' /\ Errors'
  <2>1. \A u \in Tasks : (\E v \in Workers : place'[v] = "erring" /\ job[v] = u)
                           <=> (\E v \in Workers : place[v] = "erring" /\ job[v] = u)
    BY <1>a
  <2>2. Doors'
    BY <1>a DEF Doors
  <2> QED BY <2>1, <2>2 DEF Errors
<1>4. StatsAccount'
  <2>1. Occupied' = Occupied
    <3>1. place[w] \notin Busy /\ "gone" \notin Busy
      BY <1>a DEF Busy
    <3> QED BY <3>1, WorkerMoves
  <2>2. Counting' = Counting
    BY CountsAreNumbers
  <2> QED BY <2>1, <2>2 DEF StatsAccount
<1> QED BY <1>1, <1>2, <1>3, <1>4

\* FnEnds keeps the invariant.
LEMMA FnEndsIInv ==
    ASSUME IInv, NEW w \in Workers, NEW o \in {"ok", "err"}, FnEnds(w, o) PROVE IInv'
<1> USE DEF IInv, FnEnds, chanVars, doorVars, callVars, countVars, closeVars
<1> DEFINE t == job[w]
           to == IF o = "ok" THEN "landing" ELSE "erring"
<1>0. /\ place[w] = "running" /\ to \in {"landing", "erring"}
      /\ t \in Tasks /\ t # NoTask /\ call[t] \in Accepted /\ outcome[t] = "none"
      /\ \A i \in 1..Len(queue) : queue[i] # t
      /\ \A v \in Workers \ {w} : job[v] # t
  BY OnlyHolder DEF Placed, Busy
<1>a. /\ place'[w] = to /\ outcome'[t] = o /\ job' = job
      /\ \A v \in Workers \ {w} : place'[v] = place[v]
      /\ \A u \in Tasks \ {t} : outcome'[u] = outcome[u]
  BY <1>0 DEF TypeOK
<1>1. TypeOK'
  <2>1. place' \in [Workers -> {"receiving", "gone"} \cup Busy]
    BY DEF TypeOK, Busy
  <2>2. outcome' \in [Tasks -> {"none", "ok", "err"}]
    BY DEF TypeOK
  <2> QED BY <2>1, <2>2 DEF TypeOK
<1>2. Placed'
  <2>1. \A i \in 1..Len(queue) : queue[i] \in Tasks
    BY DEF TypeOK
  <2>2. \A i \in 1..Len(queue) : outcome'[queue[i]] = "none"
    BY <1>0, <1>a, <2>1 DEF Placed
  <2>3. \A v \in Workers \ {w} :
          /\ place'[v] \in Busy <=> job[v] # NoTask
          /\ place'[v] = "running" => outcome'[job[v]] = "none"
          /\ place'[v] = "erring" => outcome'[job[v]] = "err"
          /\ place'[v] = "landing" => outcome'[job[v]] # "none"
    <3> SUFFICES ASSUME NEW v \in Workers \ {w}
                 PROVE  /\ place[v] \in Busy <=> job[v] # NoTask
                        /\ place[v] = "running" => outcome'[job[v]] = "none"
                        /\ place[v] = "erring" => outcome'[job[v]] = "err"
                        /\ place[v] = "landing" => outcome'[job[v]] # "none"
      BY <1>a
    <3>1. CASE job[v] = NoTask
      BY <3>1 DEF Placed, Busy
    <3>2. CASE job[v] # NoTask
      <4>1. job[v] \in Tasks \ {t}
        BY <3>2, <1>0 DEF TypeOK
      <4> QED BY <4>1, <1>a DEF Placed
    <3> QED BY <3>1, <3>2
  <2>4. /\ place'[w] \in Busy <=> job[w] # NoTask
        /\ place'[w] = "running" => outcome'[job[w]] = "none"
        /\ place'[w] = "erring" => outcome'[job[w]] = "err"
        /\ place'[w] = "landing" => outcome'[job[w]] # "none"
    BY <1>0, <1>a DEF Busy
  <2>5. \A v \in Workers :
          /\ place'[v] \in Busy <=> job[v] # NoTask
          /\ place'[v] = "running" => outcome'[job[v]] = "none"
          /\ place'[v] = "erring" => outcome'[job[v]] = "err"
          /\ place'[v] = "landing" => outcome'[job[v]] # "none"
    BY <2>3, <2>4
  <2> QED BY <1>a, <2>2, <2>5 DEF Placed
<1>3. Admitted'
  <2> SUFFICES ASSUME NEW u \in Tasks
               PROVE  call[u] \in Accepted
                        <=> \/ outcome'[u] # "none"
                            \/ \E i \in 1..Len(queue) : queue[i] = u
                            \/ \E v \in Workers : job[v] = u
    BY <1>a DEF Admitted
  <2>1. CASE u = t
    BY <2>1, <1>0
  <2>2. CASE u # t
    BY <2>2, <1>a DEF Admitted
  <2> QED BY <2>1, <2>2
<1>4. Doors' /\ Errors'
  <2>1. \A c \in Closers : closer[c] # "returned"
    BY <1>0, Unreturned
  <2>2. Doors'
    BY <1>0, <1>a, <2>1 DEF Doors
  <2>3. ASSUME NEW u \in Tasks
        PROVE  u \in errs <=> outcome'[u] = "err"
                                /\ ~\E v \in Workers : place'[v] = "erring" /\ job[v] = u
    <3>1. CASE u = t
      BY <3>1, <1>0, <1>a DEF Errors
    <3>2. CASE u # t
      <4>1. (\E v \in Workers : place'[v] = "erring" /\ job[v] = u)
              <=> (\E v \in Workers : place[v] = "erring" /\ job[v] = u)
        BY <3>2, <1>0, <1>a
      <4> QED BY <3>2, <4>1, <1>a DEF Errors
    <3> QED BY <3>1, <3>2
  <2> QED BY <1>a, <2>1, <2>2, <2>3 DEF Errors
<1>5. StatsAccount'
  <2>1. Occupied' = Occupied
    BY <1>0, WorkerMoves DEF Busy
  <2>2. Counting' = Counting
    BY CountsAreNumbers
  <2> QED BY <2>1, <2>2 DEF StatsAccount
<1> QED BY <1>1, <1>2, <1>3, <1>4, <1>5

\* KeepError keeps the invariant.
LEMMA KeepErrorIInv == ASSUME IInv, NEW w \in Workers, KeepError(w) PROVE IInv'
<1> USE DEF IInv, KeepError, chanVars, doorVars, callVars, closeVars
<1> DEFINE t == job[w]
<1>0. /\ t \in Tasks /\ t # NoTask /\ outcome[t] = "err" /\ t \notin errs
      /\ \A v \in Workers \ {w} : job[v] # t
  BY OnlyHolder DEF Placed, Busy, Errors
<1>a. /\ place[w] = "erring" /\ place'[w] = "landing"
      /\ \A v \in Workers \ {w} : place'[v] = place[v]
  BY DEF TypeOK
<1>1. TypeOK'
  <2>1. place' \in [Workers -> {"receiving", "gone"} \cup Busy]
    BY DEF TypeOK, Busy
  <2> QED BY <1>0, <2>1 DEF TypeOK
<1>2. Placed' /\ Admitted'
  BY <1>0, <1>a DEF Placed, Admitted, Busy
<1>3. Doors' /\ Errors'
  <2>1. \A c \in Closers : closer[c] # "returned"
    BY Unreturned
  <2>2. Doors'
    BY <1>a, <2>1 DEF Doors
  <2>3. ASSUME NEW u \in Tasks
        PROVE  u \in errs' <=> outcome[u] = "err"
                                /\ ~\E v \in Workers : place'[v] = "erring" /\ job[v] = u
    <3>1. CASE u = t
      BY <3>1, <1>0, <1>a
    <3>2. CASE u # t
      <4>1. (\E v \in Workers : place'[v] = "erring" /\ job[v] = u)
              <=> (\E v \in Workers : place[v] = "erring" /\ job[v] = u)
        BY <3>2, <1>0, <1>a
      <4> QED BY <3>2, <4>1 DEF Errors
    <3> QED BY <3>1, <3>2
  <2>4. errored' = Cardinality(errs')
    <3>1. IsFiniteSet(errs)
      BY PoolAssumption, FS_Subset DEF TypeOK
    <3>2. Cardinality(errs \cup {t}) = Cardinality(errs) + 1
      BY <3>1, <1>0, FS_AddElement
    <3> QED BY <3>2 DEF Errors
  <2> QED BY <2>1, <2>2, <2>3, <2>4 DEF Errors
<1>4. StatsAccount'
  <2>1. Occupied' = Occupied
    BY <1>a, WorkerMoves DEF Busy
  <2>2. Counting' = Counting
    BY CountsAreNumbers
  <2> QED BY <2>1, <2>2 DEF StatsAccount
<1> QED BY <1>1, <1>2, <1>3, <1>4

\* Complete keeps the invariant.
LEMMA CompleteIInv == ASSUME IInv, NEW w \in Workers, Complete(w) PROVE IInv'
<1> USE DEF IInv, Complete, chanVars, doorVars, callVars, closeVars
<1> DEFINE t == job[w]
<1>0. /\ t \in Tasks /\ t # NoTask /\ outcome[t] # "none"
      /\ \A v \in Workers \ {w} : job[v] # t
  BY OnlyHolder DEF Placed, Busy
<1>a. /\ place[w] = "landing" /\ place'[w] = "receiving" /\ job'[w] = NoTask
      /\ \A v \in Workers \ {w} : place'[v] = place[v] /\ job'[v] = job[v]
  BY DEF TypeOK
<1>1. TypeOK'
  <2>1. place' \in [Workers -> {"receiving", "gone"} \cup Busy]
    BY DEF TypeOK
  <2>2. job' \in [Workers -> Tasks \cup {NoTask}]
    BY DEF TypeOK
  <2> QED BY <2>1, <2>2 DEF TypeOK
<1>2. Placed'
  <2>1. \A i \in 1..Len(queue) :
            outcome[queue[i]] = "none" /\ \A v \in Workers : job'[v] # queue[i]
    <3>1. \A i \in 1..Len(queue) : queue[i] \in Tasks
      BY DEF TypeOK
    <3> QED BY <3>1, <1>a, PoolAssumption DEF Placed
  <2>2. \A v \in Workers :
          /\ place'[v] \in Busy <=> job'[v] # NoTask
          /\ place'[v] = "running" => outcome[job'[v]] = "none"
          /\ place'[v] = "erring" => outcome[job'[v]] = "err"
          /\ place'[v] = "landing" => outcome[job'[v]] # "none"
    BY <1>a DEF Placed, Busy
  <2>3. \A u, v \in Workers : job'[u] = job'[v] /\ job'[u] # NoTask => u = v
    BY <1>a DEF Placed
  <2> QED BY <2>1, <2>2, <2>3 DEF Placed
<1>3. Admitted'
  <2> SUFFICES ASSUME NEW u \in Tasks
               PROVE  call[u] \in Accepted
                        <=> \/ outcome[u] # "none"
                            \/ \E i \in 1..Len(queue) : queue[i] = u
                            \/ \E v \in Workers : job'[v] = u
    BY DEF Admitted
  <2>1. CASE u = t
    BY <2>1, <1>0 DEF Admitted
  <2>2. CASE u # t
    <3>1. (\E v \in Workers : job'[v] = u) <=> (\E v \in Workers : job[v] = u)
      BY <2>2, <1>a, PoolAssumption
    <3> QED BY <3>1 DEF Admitted
  <2> QED BY <2>1, <2>2
<1>4. Doors' /\ Errors'
  <2>1. \A c \in Closers : closer[c] # "returned"
    BY Unreturned
  <2>2. Doors'
    BY <1>a, <2>1 DEF Doors
  <2>3. \A u \in Tasks : (\E v \in Workers : place'[v] = "erring" /\ job'[v] = u)
                           <=> (\E v \in Workers : place[v] = "erring" /\ job[v] = u)
    BY <1>a
  <2> QED BY <2>1, <2>2, <2>3 DEF Errors
<1>5. StatsAccount'
  <2>1. Cardinality(Occupied) \in Nat /\ Cardinality(Occupied') = Cardinality(Occupied) - 1
    <3>1. place[w] \in Busy /\ "receiving" \notin Busy
      BY DEF Busy
    <3>2. IsFiniteSet(Occupied) /\ Occupied' = Occupied \ {w} /\ w \in Occupied
      BY <3>1, WorkerMoves
    <3> QED BY <3>2, FS_RemoveElement, FS_CardinalityType
  <2>2. Counting' = Counting /\ Cardinality(Counting) \in Nat
    BY CountsAreNumbers
  <2>3. Len(queue) \in Nat
    BY DEF TypeOK
  <2> QED BY <2>1, <2>2, <2>3 DEF TypeOK, StatsAccount
<1> QED BY <1>1, <1>2, <1>3, <1>4, <1>5

-----------------------------------------------------------------------------
(* Close, the context, the ticker *)

\* A step that leaves the tasks where they are.
LEMMA Still ==
    ASSUME IInv, UNCHANGED <<queue, call, place, job, outcome, submitted, completed>>
    PROVE  Placed' /\ Admitted' /\ StatsAccount'
<1>1. Placed' /\ Admitted'
  BY DEF IInv, Placed, Admitted
<1>2. Counting' = Counting /\ Occupied' = Occupied
  BY CountsAreNumbers
<1> QED BY <1>1, <1>2 DEF IInv, StatsAccount

\* The steps of Close keep the invariant.
LEMMA ClosesIInv ==
    ASSUME IInv, NEW c \in Closers, CallClose(c) \/ CloseChannel(c) \/ FinishClose(c)
    PROVE  IInv'
<1> USE DEF chanVars, doorVars, callVars, workVars, countVars
<1>1. TypeOK' /\ UNCHANGED <<queue, call, place, job, outcome, submitted, completed, errs, errored>>
  BY DEF IInv, TypeOK, CallClose, CloseChannel, FinishClose
<1>2. Placed' /\ Admitted' /\ StatsAccount'
  BY <1>1, Still
<1>3. CASE CallClose(c) \/ CloseChannel(c)
  <2>1. /\ closer[c] # "returned" /\ closer'[c] # "returned" /\ answer' = answer
        /\ \A d \in Closers \ {c} : closer'[d] = closer[d]
        /\ (shut => shut') /\ ctxDone' = ctxDone
    BY <1>3 DEF IInv, TypeOK, CallClose, CloseChannel
  <2>2. Doors'
    BY <1>1, <2>1 DEF IInv, Doors
  <2>3. Errors'
    BY <1>1, <2>1 DEF IInv, Errors
  <2> QED BY <1>1, <1>2, <2>2, <2>3 DEF IInv
<1>4. CASE FinishClose(c)
  <2>1. /\ \A w \in Workers : place[w] = "gone"
        /\ closer'[c] = "returned" /\ answer'[c] = (IF errs = {} THEN "nil" ELSE "errs")
        /\ \A d \in Closers \ {c} : closer'[d] = closer[d] /\ answer'[d] = answer[d]
        /\ shut' = shut /\ ctxDone'
    BY <1>4 DEF IInv, TypeOK, FinishClose
  <2>2. Doors'
    BY <1>1, <2>1 DEF IInv, Doors
  <2>3. Errors'
    BY <1>1, <2>1 DEF IInv, Errors
  <2> QED BY <1>1, <1>2, <2>2, <2>3 DEF IInv
<1> QED BY <1>3, <1>4

\* So do the cancellation and the ticker.
LEMMA OthersIInv ==
    ASSUME IInv, ParentCancel \/ TickerStep \/ UNCHANGED vars
    PROVE  IInv'
<1>1. /\ UNCHANGED <<size, queue, shut, closed, call, by, place, job, outcome, submitted,
                     completed, errored, errs, closer, answer>>
      /\ ctxDone => ctxDone'
      /\ ctxDone' \in BOOLEAN /\ ticker' \in {"waiting", "calling", "gone"}
  BY DEF IInv, TypeOK, ParentCancel, TickerStep, Tick, TickDone, TickStop, vars, chanVars,
     doorVars, callVars, workVars, countVars, closeVars
<1>2. TypeOK'
  BY <1>1 DEF IInv, TypeOK
<1>3. Placed' /\ Admitted' /\ StatsAccount'
  BY <1>1, Still
<1>4. Doors' /\ Errors'
  BY <1>1 DEF IInv, Doors, Errors
<1> QED BY <1>2, <1>3, <1>4 DEF IInv

-----------------------------------------------------------------------------
(* The theorems *)

\* Every step keeps the invariant.
LEMMA NextIInv == IInv /\ [Next]_vars => IInv'
<1> SUFFICES ASSUME IInv, [Next]_vars PROVE IInv'
  OBVIOUS
<1>1. ASSUME NEW t \in Tasks, NEW u \in Tasks \cup {Outside}, Submit(t, u) \/ TrySubmit(t, u)
      PROVE  IInv'
  BY <1>1, CallsIInv
<1>2. ASSUME NEW t \in Tasks, CallStep(t) PROVE IInv'
  BY <1>2, CallsIInv
<1>3. ASSUME NEW w \in Workers, WorkerStep(w) PROVE IInv'
  BY <1>3, ReceiveIInv, LeaveIInv, FnEndsIInv, KeepErrorIInv, CompleteIInv DEF WorkerStep
<1>4. ASSUME NEW c \in Closers, CallClose(c) \/ CloseChannel(c) \/ FinishClose(c) PROVE IInv'
  BY <1>4, ClosesIInv
<1>5. CASE ParentCancel \/ TickerStep \/ UNCHANGED vars
  BY <1>5, OthersIInv
<1> QED BY <1>1, <1>2, <1>3, <1>4, <1>5 DEF Next

\* In every reachable state each task is at most once in the queue, with one worker or
\* at its end, exactly if its submission was accepted, and the counters agree.
THEOREM Invariance == Spec => []IInv
<1>1. Init => IInv
  BY InitIInv
<1>2. IInv /\ [Next]_vars => IInv'
  BY NextIInv
<1> QED BY <1>1, <1>2, PTL DEF Spec

\* Submit and TrySubmit keep their word, whatever Close does meanwhile: a function
\* that was refused never runs, one that was accepted has run when Close returns.
THEOREM Kept == Spec => []SubmissionsKept
<1>1. IInv => SubmissionsKept
  <2> SUFFICES ASSUME IInv PROVE SubmissionsKept
    OBVIOUS
  <2>1. ASSUME NEW t \in Tasks, call[t] \in Rejected
        PROVE  outcome[t] = "none" /\ t \notin Queued \cup Held
    <3>1. call[t] \notin Accepted
      BY <2>1 DEF Rejected, Accepted
    <3>2. outcome[t] = "none" /\ (\A i \in 1..Len(queue) : queue[i] # t) /\ \A w \in Workers : job[w] # t
      BY <3>1 DEF IInv, Admitted
    <3>3. t \notin Queued /\ t \notin Held
      BY <3>2 DEF Queued, Held, Occupied
    <3> QED BY <3>2, <3>3
  <2>2. ASSUME NEW c \in Closers, closer[c] = "returned", NEW t \in Tasks, call[t] \in Accepted
        PROVE  outcome[t] # "none"
    <3>1. /\ \A w \in Workers : place[w] = "gone"
          /\ queue = <<>>
      BY <2>2 DEF IInv, Doors
    <3>2. \A w \in Workers : job[w] # t
      BY <3>1, PoolAssumption DEF IInv, Placed, Busy
    <3>3. \A i \in 1..Len(queue) : queue[i] # t
      BY <3>1
    <3> QED BY <2>2, <3>2, <3>3 DEF IInv, Admitted
  <2> QED BY <2>1, <2>2 DEF SubmissionsKept, RejectedNeverRuns, AcceptedRunsBeforeClose
<1> QED BY <1>1, Invariance, PTL

\* Every Close reports exactly the functions that failed, and Stats adds up at every
\* moment but for the submissions that are about to be counted.
THEOREM Honest == Spec => []Reports
<1>1. IInv => Reports
  <2> SUFFICES ASSUME IInv, NEW c \in Closers, closer[c] = "returned"
               PROVE  /\ answer[c] = "errs" <=> \E t \in Tasks : outcome[t] = "err"
                      /\ errs = {t \in Tasks : outcome[t] = "err"}
                      /\ errored = Cardinality(errs)
    BY DEF IInv, Reports, CloseReportsFailures
  <2>1. \A w \in Workers : place[w] # "erring"
    BY DEF IInv, Doors
  <2>2. errs = {t \in Tasks : outcome[t] = "err"}
    BY <2>1 DEF IInv, TypeOK, Errors
  <2> QED BY <2>2 DEF IInv, Errors
<1> QED BY <1>1, Invariance, PTL

-----------------------------------------------------------------------------
(***************************************************************************)
(* Proof that a pool implements a TaskGroup, as a scope does: a task joins *)
(* the group with the send of its submission, leaves it when its worker    *)
(* has counted it, the door is shut with the channel, and the verdict is   *)
(* the answer of the first Close that returns.                             *)
(***************************************************************************)

\* What the group sees of the pool.
Members == [t \in Tasks |-> Membership(t)]

\* A task is in the pool: in the queue, or with a worker.
Present(t) == (\E i \in 1..Len(queue) : queue[i] = t) \/ (\E w \in Workers : job[w] = t)

\* What a member is, in the terms of the invariant.
Standing(t) ==
    IF call[t] \notin Accepted THEN "out"
    ELSE IF Present(t) THEN "live"
    ELSE IF outcome[t] = "ok" THEN "succeeded"
    ELSE "failed"

\* The two descriptions of a member agree, before a step and after it.
LEMMA MembershipIsStanding ==
    ASSUME NEW t \in Tasks
    PROVE  (IInv => Membership(t) = Standing(t)) /\ (IInv' => Membership(t)' = Standing(t)')
<1>1. ASSUME IInv PROVE t \in Queued \cup Held <=> Present(t)
  <2>1. \A w \in Workers : job[w] = t => w \in Occupied
    BY <1>1, PoolAssumption DEF IInv, Placed, Occupied
  <2> QED BY <2>1 DEF Queued, Held, Occupied, Present
<1>2. ASSUME IInv' PROVE (t \in Queued \cup Held <=> Present(t))'
  <2>1. \A w \in Workers : job'[w] = t => w \in Occupied'
    BY <1>2, PoolAssumption DEF IInv, Placed, Occupied
  <2> QED BY <2>1 DEF Queued, Held, Occupied, Present
<1> QED BY <1>1, <1>2 DEF Membership, Standing

\* Nobody's standing changes when the calls accepted, the outcomes, and who is present
\* stay the same.
LEMMA SameMembers ==
    ASSUME IInv, IInv',
           \A u \in Tasks : /\ call'[u] \in Accepted <=> call[u] \in Accepted
                            /\ Present(u)' <=> Present(u)
                            /\ ~Present(u) => outcome'[u] = outcome[u]
    PROVE  Members' = Members
<1>1. ASSUME NEW u \in Tasks PROVE Membership(u)' = Membership(u)
  <2>1. Standing(u)' = Standing(u)
    BY DEF Standing
  <2> QED BY <2>1, MembershipIsStanding
<1> QED BY <1>1 DEF Members

\* A step that the group does not see.
LEMMA Unseen ==
    ASSUME Members' = Members, UNCHANGED <<shut, ctxDone, answer>>
    PROVE  [Group!Next]_(Group!gvars)
<1>1. GroupVerdict' = GroupVerdict
  BY DEF GroupVerdict
<1> QED BY <1>1 DEF Group!gvars, Members

\* A fresh pool is a fresh group.
LEMMA InitGroup == Init => Group!Init
<1> SUFFICES ASSUME Init PROVE Group!Init
  OBVIOUS
<1>1. [t \in Tasks |-> Membership(t)] = [t \in Tasks |-> "out"]
  BY DEF Init, Membership, Accepted
<1>2. GroupVerdict = "pending" /\ ~shut /\ ~ctxDone
  BY DEF Init, GroupVerdict
<1> QED BY <1>1, <1>2 DEF Group!Init, Init

\* A send admits its task.
LEMMA Admission ==
    ASSUME IInv, IInv', NEW t \in Tasks, Enqueue(t) \/ \E w \in Workers : Handoff(t, w)
    PROVE  Group!Admit(t)
<1>1. /\ call[t] \notin Accepted /\ ~shut /\ shut' = shut /\ ctxDone' = ctxDone
      /\ answer' = answer /\ outcome' = outcome
      /\ call' = [call EXCEPT ![t] = "counting"]
  BY DEF Enqueue, Handoff, Pending, Accepted, chanVars, doorVars, closeVars
<1>2. Present(t)' /\ call'[t] \in Accepted
  <2>1. CASE Enqueue(t)
    <3>1. Len(queue) + 1 \in 1..Len(queue') /\ queue'[Len(queue) + 1] = t
      BY <2>1, QueueGrows DEF IInv, TypeOK, Enqueue
    <3> QED BY <1>1, <3>1 DEF Present, IInv, TypeOK, Accepted
  <2>2. CASE \E w \in Workers : Handoff(t, w)
    <3>1. PICK w \in Workers : job'[w] = t
      BY <2>2 DEF Handoff, IInv, TypeOK
    <3> QED BY <1>1, <3>1 DEF Present, IInv, TypeOK, Accepted
  <2> QED BY <2>1, <2>2
<1>3. ASSUME NEW u \in Tasks \ {t}
      PROVE  (call'[u] \in Accepted <=> call[u] \in Accepted) /\ (Present(u)' <=> Present(u))
  <2>1. call'[u] = call[u]
    BY <1>1 DEF IInv, TypeOK
  <2>2. CASE Enqueue(t)
    <3>1. /\ Len(queue) \in Nat /\ Len(queue') = Len(queue) + 1 /\ job' = job
          /\ \A i \in 1..Len(queue) : queue'[i] = queue[i]
          /\ queue'[Len(queue) + 1] = t
      BY <2>2, QueueGrows DEF IInv, TypeOK, Enqueue, workVars
    <3> QED BY <2>1, <3>1 DEF Present
  <2>3. CASE \E w \in Workers : Handoff(t, w)
    <3>1. PICK w \in Workers : Handoff(t, w)
      BY <2>3
    <3>2. job[w] = NoTask /\ job'[w] = t /\ \A v \in Workers \ {w} : job'[v] = job[v]
      <4>1. place[w] = "receiving" /\ job' = [job EXCEPT ![w] = t] /\ job \in [Workers -> Tasks \cup {NoTask}]
        BY <3>1 DEF Handoff, IInv, TypeOK
      <4>2. job[w] = NoTask
        BY <4>1 DEF IInv, Placed, Busy
      <4> QED BY <4>1, <4>2
    <3>3. queue' = queue
      BY <3>1 DEF Handoff, chanVars
    <3> QED BY <2>1, <3>2, <3>3, PoolAssumption DEF Present
  <2> QED BY <2>2, <2>3
<1>4. Members[t] = "out"
  BY <1>1, MembershipIsStanding DEF Members, Standing
<1>5. Members' = [Members EXCEPT ![t] = "live"]
  <2>1. Membership(t)' = "live"
    BY <1>2, MembershipIsStanding DEF Standing
  <2>2. ASSUME NEW u \in Tasks \ {t} PROVE Membership(u)' = Membership(u)
    <3>1. Standing(u)' = Standing(u)
      BY <1>1, <1>3 DEF Standing
    <3> QED BY <3>1, MembershipIsStanding
  <2> QED BY <2>1, <2>2 DEF Members
<1>6. GroupVerdict' = GroupVerdict
  BY <1>1 DEF GroupVerdict
<1> QED BY <1>1, <1>4, <1>5, <1>6 DEF Group!Admit, Members

\* The last step of runTask is the moment a task leaves.
LEMMA Departure ==
    ASSUME IInv, IInv', NEW w \in Workers, Complete(w)
    PROVE  \E t \in Tasks, how \in Group!Departed : Group!Leave(t, how)
<1>1. PICK t \in Tasks : /\ t = job[w] /\ t # NoTask /\ call[t] \in Accepted
                         /\ \A i \in 1..Len(queue) : queue[i] # t
                         /\ \A v \in Workers \ {w} : job[v] # t
  BY OnlyHolder DEF Complete, Busy
<1>2. /\ job'[w] = NoTask /\ \A v \in Workers \ {w} : job'[v] = job[v]
      /\ queue' = queue /\ call' = call /\ outcome' = outcome
      /\ shut' = shut /\ ctxDone' = ctxDone /\ answer' = answer
  BY DEF IInv, TypeOK, Complete, chanVars, doorVars, callVars, closeVars
<1>0. PICK how \in {"succeeded", "failed"} :
         how = IF outcome[t] = "ok" THEN "succeeded" ELSE "failed"
  OBVIOUS
<1>3. Members[t] = "live"
  BY <1>1, MembershipIsStanding DEF Members, Standing, Present
<1>4. Membership(t)' = how
  <2>1. \A v \in Workers : job'[v] # t
    BY <1>1, <1>2
  <2>2. ~Present(t)'
    BY <1>1, <1>2, <2>1 DEF Present
  <2> QED BY <1>0, <1>1, <1>2, <2>2, MembershipIsStanding DEF Standing
<1>5. ASSUME NEW u \in Tasks \ {t} PROVE Membership(u)' = Membership(u)
  <2>1. Present(u)' <=> Present(u)
    BY <1>1, <1>2, PoolAssumption DEF Present
  <2>2. Standing(u)' = Standing(u)
    BY <1>2, <2>1 DEF Standing
  <2> QED BY <2>2, MembershipIsStanding
<1>6. Members' = [Members EXCEPT ![t] = how]
  BY <1>4, <1>5 DEF Members
<1>7. GroupVerdict' = GroupVerdict
  BY <1>2 DEF GroupVerdict
<1>8. how \in Group!Departed /\ how \notin {"panicked", "dropped"}
  BY DEF Group!Departed
<1>9. Group!Leave(t, how)
  BY <1>2, <1>3, <1>6, <1>7, <1>8 DEF Group!Leave, Members
<1> QED BY <1>1, <1>8, <1>9

\* The first Close to return gives the verdict; the others repeat it.
LEMMA Decision ==
    ASSUME IInv, IInv', NEW c \in Closers, FinishClose(c)
    PROVE  [Group!Next]_(Group!gvars)
<1> DEFINE v == IF errs = {} THEN "ok" ELSE "error"
<1>1. /\ \A w \in Workers : place[w] = "gone"
      /\ closer[c] = "waiting" /\ shut' = shut /\ ctxDone' = TRUE
      /\ answer'[c] = (IF errs = {} THEN "nil" ELSE "errs")
      /\ \A d \in Closers \ {c} : answer'[d] = answer[d]
      /\ UNCHANGED <<queue, call, job, outcome>>
  BY DEF FinishClose, IInv, TypeOK, chanVars, callVars, workVars
<1>2. shut /\ queue = <<>>
  BY <1>1 DEF IInv, Doors
<1>3. \A t \in Tasks : ~Present(t)
  <2>1. \A w \in Workers : job[w] = NoTask
    BY <1>1 DEF IInv, Placed, Busy
  <2> QED BY <1>2, <2>1, PoolAssumption DEF Present
<1>4. Members' = Members
  BY <1>1, SameMembers DEF Present
<1>5. \A t \in Tasks : Members[t] = IF outcome[t] = "none" THEN "out"
                                    ELSE IF outcome[t] = "ok" THEN "succeeded" ELSE "failed"
  <2> SUFFICES ASSUME NEW t \in Tasks
               PROVE  Membership(t) = IF outcome[t] = "none" THEN "out"
                                      ELSE IF outcome[t] = "ok" THEN "succeeded" ELSE "failed"
    BY DEF Members
  <2>1. call[t] \in Accepted <=> outcome[t] # "none"
    BY <1>3 DEF IInv, Admitted, Present
  <2> QED BY <1>3, <2>1, MembershipIsStanding DEF Standing
<1>6. \A t \in Tasks : t \in errs <=> outcome[t] = "err"
  BY <1>1 DEF IInv, Errors
<1>7. errs \subseteq Tasks /\ outcome \in [Tasks -> {"none", "ok", "err"}]
  BY DEF IInv, TypeOK
<1>8. GroupVerdict' = v
  <2>1. \A d \in Closers : answer'[d] \in {"none", answer'[c]}
    BY <1>1 DEF IInv, Doors, Errors
  <2> QED BY <1>1, <2>1 DEF GroupVerdict
<1>9. CASE GroupVerdict = "pending"
  <2>1. \A t \in Tasks : Members[t] \notin {"live", "panicked", "dropped"}
    BY <1>5
  <2>2. Group!Justified(v)
    BY <1>5, <1>6, <1>7, <2>1 DEF Group!Justified, Group!Left, Members
  <2>3. Group!Decide(v)
    BY <1>1, <1>2, <1>4, <1>8, <1>9, <2>1, <2>2 DEF Group!Decide, Group!LiveMembers, Members
  <2> QED BY <2>3 DEF Group!Next
<1>10. CASE GroupVerdict # "pending"
  <2>1. PICK d \in Closers : answer[d] # "none"
    BY <1>10 DEF GroupVerdict
  <2>2. closer[d] = "returned" /\ ctxDone
    BY <2>1 DEF IInv, Doors
  <2>3. \A e \in Closers : answer[e] \in {"none", answer[d]}
    BY <2>2 DEF IInv, Doors, Errors
  <2>4. GroupVerdict = v
    BY <1>10, <2>1, <2>2, <2>3 DEF GroupVerdict, IInv, Errors
  <2>5. ctxDone' = ctxDone
    BY <1>1, <2>2 DEF IInv, TypeOK
  <2> QED BY <1>1, <1>4, <1>8, <2>4, <2>5 DEF Group!gvars, Members
<1> QED BY <1>9, <1>10

\* Steps that move nobody in or out.
LEMMA Inner ==
    ASSUME IInv, IInv',
           \/ \E t \in Tasks, u \in Tasks \cup {Outside} : Submit(t, u) \/ TrySubmit(t, u)
           \/ \E t \in Tasks : SendPanics(t) \/ GiveUp(t) \/ Refuse(t) \/ CountSubmitted(t)
           \/ \E w \in Workers : LeaveLoop(w) \/ KeepError(w)
           \/ \E c \in Closers : CallClose(c)
           \/ TickerStep \/ UNCHANGED vars
    PROVE  [Group!Next]_(Group!gvars)
<1>1. UNCHANGED <<queue, shut, ctxDone, job, outcome, answer>>
  BY DEF Submit, TrySubmit, SendPanics, GiveUp, Refuse, CountSubmitted, LeaveLoop, KeepError,
     CallClose, TickerStep, Tick, TickDone, TickStop, vars, chanVars, doorVars, callVars,
     workVars, countVars, closeVars
<1>2. \A u \in Tasks : call'[u] \in Accepted <=> call[u] \in Accepted
  <2>1. \/ call' = call
        \/ \E t \in Tasks, to \in {"closedErr", "ctxErr", "false", "submitting", "trying"} :
              call[t] \in {"none"} \cup Pending /\ call' = [call EXCEPT ![t] = to]
        \/ \E t \in Tasks : call[t] = "counting" /\ call' = [call EXCEPT ![t] = "accepted"]
    BY DEF Submit, TrySubmit, SendPanics, GiveUp, Refuse, CountSubmitted, LeaveLoop, KeepError,
       CallClose, TickerStep, Tick, TickDone, TickStop, vars, callVars, Pending
  <2> QED BY <2>1 DEF IInv, TypeOK, Accepted, Pending
<1>3. Members' = Members
  BY <1>1, <1>2, SameMembers DEF Present
<1> QED BY <1>1, <1>3, Unseen

\* A worker that takes a task from the queue leaves it present; the end of a function
\* changes the outcome of a task that is present.
LEMMA WorkerInner ==
    ASSUME IInv, IInv', NEW w \in Workers,
           Receive(w) \/ \E o \in {"ok", "err"} : FnEnds(w, o)
    PROVE  [Group!Next]_(Group!gvars)
<1>1. UNCHANGED <<call, shut, ctxDone, answer>>
  BY DEF Receive, FnEnds, chanVars, doorVars, callVars, closeVars
<1>2. CASE Receive(w)
  <2>1. \A u \in Tasks : Present(u) <=> \/ call[u] \in Accepted /\ outcome[u] = "none"
                                        \/ (\E v \in Workers : job[v] = u)
    BY DEF IInv, Admitted, Placed, Present
  <2>2. \A u \in Tasks : Present(u)' <=> \/ call'[u] \in Accepted /\ outcome'[u] = "none"
                                         \/ (\E v \in Workers : job'[v] = u)
    BY DEF IInv, Admitted, Placed, Present
  <2>3. outcome' = outcome /\ job[w] = NoTask /\ \A v \in Workers \ {w} : job'[v] = job[v]
    BY <1>2 DEF Receive, IInv, TypeOK, Placed, Busy
  <2>4. job'[w] \in Tasks /\ outcome[job'[w]] = "none" /\ call[job'[w]] \in Accepted
    <3>1. 1 \in 1..Len(queue) /\ queue[1] \in Tasks /\ job'[w] = queue[1]
      BY <1>2, QueueShrinks DEF Receive, IInv, TypeOK
    <3> QED BY <3>1 DEF IInv, Placed, Admitted
  <2>5. \A u \in Tasks : Present(u)' <=> Present(u)
    BY <1>1, <2>1, <2>2, <2>3, <2>4, PoolAssumption
  <2>6. Members' = Members
    BY <1>1, <2>3, <2>5, SameMembers
  <2> QED BY <1>1, <2>6, Unseen
<1>3. CASE \E o \in {"ok", "err"} : FnEnds(w, o)
  <2>1. queue' = queue /\ job' = job /\ \A u \in Tasks : u # job[w] => outcome'[u] = outcome[u]
    BY <1>3 DEF FnEnds, IInv, TypeOK, chanVars
  <2>2. Members' = Members
    BY <1>1, <2>1, SameMembers DEF Present
  <2> QED BY <1>1, <2>2, Unseen
<1> QED BY <1>2, <1>3

\* The two steps the group sees as a door and a stop.
LEMMA DoorAndStop ==
    ASSUME IInv, IInv', (\E c \in Closers : CloseChannel(c)) \/ ParentCancel
    PROVE  [Group!Next]_(Group!gvars)
<1>1. UNCHANGED <<queue, call, job, outcome, answer>>
  BY DEF CloseChannel, ParentCancel, chanVars, doorVars, callVars, workVars, countVars, closeVars
<1>2. Members' = Members
  BY <1>1, SameMembers DEF Present
<1>3. GroupVerdict' = GroupVerdict
  BY <1>1 DEF GroupVerdict
<1>4. CASE ParentCancel
  <2>1. Group!Stop
    BY <1>2, <1>3, <1>4 DEF ParentCancel, Group!Stop, Members, chanVars
  <2> QED BY <2>1 DEF Group!Next
<1>5. CASE \E c \in Closers : CloseChannel(c)
  <2>1. shut' = TRUE /\ ctxDone' = ctxDone /\ shut \in BOOLEAN
    BY <1>5 DEF CloseChannel, doorVars, IInv, TypeOK
  <2>2. CASE shut
    BY <1>1, <1>2, <2>1, <2>2, Unseen
  <2>3. CASE ~shut
    <3>1. Group!ShutDoor
      BY <1>2, <1>3, <2>1, <2>3 DEF Group!ShutDoor, Members
    <3> QED BY <3>1 DEF Group!Next
  <2> QED BY <2>1, <2>2, <2>3
<1> QED BY <1>4, <1>5

\* Every step of the pool is a step of the group or a stutter.
LEMMA StepSimulation == IInv /\ IInv' /\ [Next]_vars => [Group!Next]_(Group!gvars)
<1> SUFFICES ASSUME IInv, IInv', [Next]_vars PROVE [Group!Next]_(Group!gvars)
  OBVIOUS
<1>1. ASSUME NEW t \in Tasks, Enqueue(t) \/ \E w \in Workers : Handoff(t, w)
      PROVE  [Group!Next]_(Group!gvars)
  BY <1>1, Admission DEF Group!Next
<1>2. ASSUME NEW w \in Workers, Complete(w) PROVE [Group!Next]_(Group!gvars)
  BY <1>2, Departure DEF Group!Next
<1> QED
  BY <1>1, <1>2, Inner, WorkerInner, Decision, DoorAndStop DEF Next, CallStep, WorkerStep

\* ImplementsTaskGroup: the pool implements its abstract specification.
THEOREM Refinement == Spec => ImplementsTaskGroup
  BY InitGroup, Invariance, NextIInv, StepSimulation, PTL
  DEF Spec, ImplementsTaskGroup, Group!Spec
=============================================================================
