----------------------------- MODULE ScopeProofs ----------------------------
(***************************************************************************)
(* Proofs about the module Scope, for every set of tasks, waiters and      *)
(* configurations.  The invariant IInv is inductive; from it follow type   *)
(* correctness, structured join, bounded execution and the absence of      *)
(* silent failures.  The last part is about the module Result, which adds  *)
(* to the steps of Scope; what comes before it uses Scope alone.           *)
(***************************************************************************)
EXTENDS Result, FiniteSetTheorems, SequenceTheorems, TLAPS

-----------------------------------------------------------------------------
(* How the counters follow the goroutines *)

Weight(p, places) == IF p \in places THEN 1 ELSE 0

\* Any set of tasks is finite.
LEMMA FiniteAt ==
    ASSUME NEW places PROVE IsFiniteSet(At(places)) /\ Cardinality(At(places)) \in Nat
  BY ScopeAssumption, FS_Subset, FS_CardinalityType DEF At

\* When one task moves, the number of tasks in a set of places changes by its
\* arrival and its departure.
LEMMA CountMove ==
    ASSUME pc \in [Tasks -> PCs], NEW t \in Tasks, NEW to \in PCs,
           pc' = [pc EXCEPT ![t] = to], NEW places
    PROVE  /\ Cardinality(At(places))' =
                Cardinality(At(places)) + Weight(to, places) - Weight(pc[t], places)
           /\ Cardinality(At(places))' \in Nat
<1>0. IsFiniteSet(At(places)) /\ Cardinality(At(places)) \in Nat /\ IsFiniteSet(At(places)')
  BY ScopeAssumption, FS_Subset, FS_CardinalityType DEF At
<1>1. CASE to \in places /\ pc[t] \notin places
  <2>1. At(places)' = At(places) \cup {t} /\ t \notin At(places)
    BY <1>1 DEF At
  <2>2. Cardinality(At(places))' = Cardinality(At(places)) + 1
    BY <1>0, <2>1, FS_AddElement
  <2> QED BY <1>0, <1>1, <2>2 DEF Weight
<1>2. CASE to \notin places /\ pc[t] \in places
  <2>1. At(places)' = At(places) \ {t} /\ t \in At(places)
    BY <1>2 DEF At
  <2>2. /\ Cardinality(At(places))' = Cardinality(At(places)) - 1
        /\ Cardinality(At(places))' \in Nat
    BY <1>0, <2>1, FS_RemoveElement, FS_CardinalityType
  <2> QED BY <1>0, <1>2, <2>2 DEF Weight
<1>3. CASE (to \in places) = (pc[t] \in places)
  <2>1. At(places)' = At(places)
    BY <1>3 DEF At
  <2> QED BY <1>0, <1>3, <2>1 DEF Weight
<1> QED BY <1>1, <1>2, <1>3

\* CountMove for the sets of places that Counting speaks of.
Moved(from, to) ==
    LET change(places) == Weight(to, places) - Weight(from, places)
    IN  /\ Cardinality(Live)' = Cardinality(Live) + change(LivePC)
        /\ Cardinality(Unfinished)' = Cardinality(Unfinished) + change(LivePC \cup {"deactivate"})
        /\ Cardinality(Holders)' = Cardinality(Holders) + change(HoldsSlot)

\* A move of one goroutine moves the counts accordingly.
LEMMA Counts ==
    ASSUME pc \in [Tasks -> PCs], NEW t \in Tasks, NEW from, NEW to \in PCs, Goto(t, from, to)
    PROVE  Moved(from, to)
<1>1. pc' = [pc EXCEPT ![t] = to] /\ pc[t] = from
  BY DEF Goto
<1> QED BY <1>1, CountMove DEF Live, Holders, Unfinished, Moved

\* A move that keeps the slot and the entry in runningTasks.
LEMMA MoveInside ==
    ASSUME pc \in [Tasks -> PCs], Counting, NEW t \in Tasks,
           NEW from \in HoldsSlot \ {"release"}, NEW to \in HoldsSlot \ {"release"},
           Goto(t, from, to), UNCHANGED <<cfg, wg, active, sem, running>>
    PROVE  Counting'
<1>1. Moved(from, to)
  BY Counts DEF HoldsSlot, PCs
<1>2. Cardinality(Live) \in Nat /\ Cardinality(Holders) \in Nat /\ Cardinality(Unfinished) \in Nat
  BY FiniteAt DEF Live, Holders, Unfinished
<1>3. /\ Cardinality(Live)' = Cardinality(Live)
      /\ Cardinality(Unfinished)' = Cardinality(Unfinished)
      /\ Cardinality(Holders)' = Cardinality(Holders)
  BY <1>1, <1>2 DEF Moved, Weight, HoldsSlot
<1>4. Listed' = Listed
  BY DEF Goto, Listed, At
<1>5. \A u \in Tasks : pc[u] # "release" => pc'[u] # "release"
  BY DEF Goto
<1> QED BY <1>3, <1>4, <1>5 DEF Counting

\* Every step keeps the counters in accord with the goroutines.
LEMMA CountingNext ==
    ASSUME pc \in [Tasks -> PCs], cfg \in Config, Counting, [Next]_vars
    PROVE  Counting'
<1> USE DEF joinVars, slotVars, errVars, logVars, finVars, waitVars
<1>a. Cardinality(Live) \in Nat /\ Cardinality(Holders) \in Nat /\ Cardinality(Unfinished) \in Nat
  BY FiniteAt DEF Live, Holders, Unfinished
<1>1. ASSUME NEW sp \in Tasks \cup {Root}, NEW t \in Tasks, BeginTask(sp, t) PROVE Counting'
  <2>1. Goto(t, "unspawned", "admit")
    BY <1>1 DEF BeginTask
  <2>2. Moved("unspawned", "admit")
    BY <2>1, Counts DEF PCs, LivePC, Before, Deferred
  <2> QED
    BY <1>a, <1>1, <2>1, <2>2
    DEF BeginTask, Counting, Moved, Weight, Goto, Listed, At, HoldsSlot, LivePC, Before,
         After, Deferred, Config
<1>2. ASSUME NEW t \in Tasks, Acquire(t) PROVE Counting'
  <2>1. Goto(t, "admit", "check")
    BY <1>2 DEF Acquire
  <2>2. Moved("admit", "check")
    BY <2>1, Counts DEF PCs, LivePC, Before, Deferred
  <2> QED
    BY <1>a, <1>2, <2>1, <2>2
    DEF Acquire, Counting, Moved, Weight, Goto, Listed, At, HoldsSlot, LivePC, Before,
         After, Deferred, Config
<1>3. ASSUME NEW t \in Tasks, AbandonAdmission(t) PROVE Counting'
  <2>1. Goto(t, "admit", "wgdone")
    BY <1>3 DEF AbandonAdmission
  <2>2. Moved("admit", "wgdone")
    BY <2>1, Counts DEF PCs, LivePC, Before, Deferred
  <2> QED
    BY <1>a, <1>3, <2>1, <2>2
    DEF AbandonAdmission, Counting, Moved, Weight, Goto, Listed, At, HoldsSlot, LivePC,
         Before, After, Deferred, Config
<1>4. ASSUME NEW t \in Tasks, Unregister(t) PROVE Counting'
  <2>1. Goto(t, "unregister", IF cfg.limit > 0 THEN "release" ELSE "wgdone")
    BY <1>4 DEF Unregister
  <2>2. Moved("unregister", IF cfg.limit > 0 THEN "release" ELSE "wgdone")
    BY <2>1, Counts DEF PCs, LivePC, Before, Deferred
  <2> QED
    BY <1>a, <1>4, <2>1, <2>2
    DEF Unregister, Counting, Moved, Weight, Goto, Listed, At, HoldsSlot, LivePC, Before,
         After, Deferred, Config
<1>5. ASSUME NEW t \in Tasks, ReleaseSlot(t) PROVE Counting'
  <2>1. Goto(t, "release", "wgdone")
    BY <1>5 DEF ReleaseSlot
  <2>2. Moved("release", "wgdone")
    BY <2>1, Counts DEF PCs, LivePC, Before, Deferred
  <2> QED
    BY <1>a, <1>5, <2>1, <2>2
    DEF ReleaseSlot, Counting, Moved, Weight, Goto, Listed, At, HoldsSlot, LivePC, Before,
         After, Deferred, Config
<1>6. ASSUME NEW t \in Tasks, WgDone(t) PROVE Counting'
  <2>1. Goto(t, "wgdone", "deactivate")
    BY <1>6 DEF WgDone
  <2>2. Moved("wgdone", "deactivate")
    BY <2>1, Counts DEF PCs, LivePC, Before, Deferred
  <2> QED
    BY <1>a, <1>6, <2>1, <2>2
    DEF WgDone, Counting, Moved, Weight, Goto, Listed, At, HoldsSlot, LivePC, Before, After,
         Deferred, Config
<1>7. ASSUME NEW t \in Tasks, Deactivate(t) PROVE Counting'
  <2>1. Goto(t, "deactivate", "gone")
    BY <1>7 DEF Deactivate
  <2>2. Moved("deactivate", "gone")
    BY <2>1, Counts DEF PCs, LivePC, Before, Deferred
  <2> QED
    BY <1>a, <1>7, <2>1, <2>2
    DEF Deactivate, Counting, Moved, Weight, Goto, Listed, At, HoldsSlot, LivePC, Before,
         After, Deferred, Config
<1>8. ASSUME NEW t \in Tasks, SkipCancelled(t) PROVE Counting'
  BY <1>8, MoveInside DEF SkipCancelled, AfterExec, HoldsSlot, LivePC, Before, After, Deferred
<1>9. ASSUME NEW t \in Tasks, Start(t) PROVE Counting'
  BY <1>9, MoveInside DEF Start, AfterExec, HoldsSlot, LivePC, Before, After, Deferred
<1>10. ASSUME NEW t \in Tasks, NEW o \in {"ok", "err"}, FnReturns(t, o) PROVE Counting'
  BY <1>10, MoveInside DEF FnReturns, AfterExec, HoldsSlot, LivePC, Before, After, Deferred
<1>11. ASSUME NEW t \in Tasks, FnPanics(t) PROVE Counting'
  BY <1>11, MoveInside DEF FnPanics, AfterExec, HoldsSlot, LivePC, Before, After, Deferred
<1>12. ASSUME NEW t \in Tasks, CancelOnPanic(t) PROVE Counting'
  BY <1>12, MoveInside DEF CancelOnPanic, AfterExec, HoldsSlot, LivePC, Before, After, Deferred
<1>13. ASSUME NEW t \in Tasks, CloseChild(t) PROVE Counting'
  BY <1>13, MoveInside DEF CloseChild, AfterExec, HoldsSlot, LivePC, Before, After, Deferred
<1>14. ASSUME NEW t \in Tasks, EmitCompletion(t) PROVE Counting'
  BY <1>14, MoveInside DEF EmitCompletion, AfterExec, HoldsSlot, LivePC, Before, After, Deferred
<1>15. ASSUME NEW t \in Tasks, RecordFirst(t) PROVE Counting'
  BY <1>15, MoveInside DEF RecordFirst, AfterExec, HoldsSlot, LivePC, Before, After, Deferred
<1>16. ASSUME NEW t \in Tasks, CancelSiblings(t) PROVE Counting'
  BY <1>16, MoveInside DEF CancelSiblings, AfterExec, HoldsSlot, LivePC, Before, After, Deferred
<1>17. ASSUME NEW t \in Tasks, RecordLater(t) PROVE Counting'
  BY <1>17, MoveInside DEF RecordLater, AfterExec, HoldsSlot, LivePC, Before, After, Deferred
<1>18. ASSUME NEW t \in Tasks, RecordCollect(t) PROVE Counting'
  BY <1>18, MoveInside DEF RecordCollect, AfterExec, HoldsSlot, LivePC, Before, After, Deferred
<1>19. ASSUME UNCHANGED <<cfg, pc, wg, active, sem, running>> PROVE Counting'
  BY <1>19 DEF Counting, Live, Unfinished, Holders, Listed, At
<1> QED
  BY <1>1, <1>2, <1>3, <1>4, <1>5, <1>6, <1>7, <1>8, <1>9, <1>10, <1>11, <1>12, <1>13, <1>14,
       <1>15, <1>16, <1>17, <1>18, <1>19
  DEF Next, TaskStep, FnEnds, FinalizeStep, ParentCancel, UserCancel, EnterOnce, Join, Settle,
       Call, Return, TimeOut, Terminated, vars

-----------------------------------------------------------------------------
(* Types *)

\* FiniteAt in the next state.
LEMMA FiniteAtNext ==
    ASSUME NEW places PROVE Cardinality(At(places)') \in Nat
  BY ScopeAssumption, FS_Subset, FS_CardinalityType DEF At

\* The initial state of a scope is well typed.
LEMMA TypeInit == Init => TypeOK
<1> SUFFICES ASSUME Init PROVE TypeOK
  OBVIOUS
<1> USE ScopeAssumption DEF Init
<1>1. pc \in [Tasks -> PCs]
  BY DEF PCs
<1>2. sem \in 0..cfg.limit
  BY DEF Config
<1>3. tally \in [EventKinds \ {"started"} -> Nat]
  OBVIOUS
<1>4. events \in [Tasks -> Seq(EventKinds)]
  OBVIOUS
<1> QED BY <1>1, <1>2, <1>3, <1>4 DEF TypeOK

\* Every step keeps the types; that wg and sem do not fall below zero is due
\* to Counting, that no caller is answered "unset" to Finishing.
LEMMA TypeNext == ASSUME TypeOK, Counting', Finishing, [Next]_vars PROVE TypeOK'
<1> USE ScopeAssumption DEF TypeOK, Calls, joinVars, slotVars, errVars, logVars, finVars, waitVars
<1>a. wg' \in Nat /\ active' \in Nat
  BY FiniteAtNext DEF Counting, Live, Unfinished
<1>b. sem' \in Nat
  <2>1. cfg' \in Config
    BY DEF Next, vars, TaskStep, FnEnds, FinalizeStep, Terminated, BeginTask, Acquire,
         AbandonAdmission, SkipCancelled, Start, FnReturns, FnPanics, CancelOnPanic,
         CloseChild, EmitCompletion, RecordFirst, CancelSiblings, RecordLater,
         RecordCollect, Unregister, ReleaseSlot, WgDone, Deactivate, ParentCancel,
         UserCancel, EnterOnce, Join, Settle, Call, Return, TimeOut
  <2> QED BY <2>1, FiniteAtNext DEF Counting, Holders, Config
<1>1. ASSUME NEW sp \in Tasks \cup {Root}, NEW t \in Tasks, BeginTask(sp, t) PROVE TypeOK'
  BY <1>a, <1>b, <1>1 DEF BeginTask, Goto, PCs, LivePC, Before, After, Deferred
<1>2. ASSUME NEW t \in Tasks, Acquire(t) PROVE TypeOK'
  BY <1>a, <1>b, <1>2 DEF Acquire, Goto, PCs, LivePC, Before, After, Deferred, Config
<1>3. ASSUME NEW t \in Tasks, AbandonAdmission(t) PROVE TypeOK'
  BY <1>a, <1>b, <1>3 DEF AbandonAdmission, Goto, PCs, LivePC, Before, After, Deferred
<1>4. ASSUME NEW t \in Tasks, SkipCancelled(t) PROVE TypeOK'
  BY <1>a, <1>b, <1>4 DEF SkipCancelled, EventKinds, Goto, PCs, LivePC, Before, After, Deferred
<1>5. ASSUME NEW t \in Tasks, Start(t) PROVE TypeOK'
  BY <1>a, <1>b, <1>5 DEF Start, EventKinds, Goto, PCs, LivePC, Before, After, Deferred
<1>6. ASSUME NEW t \in Tasks, NEW o \in {"ok", "err"}, FnReturns(t, o) PROVE TypeOK'
  BY <1>a, <1>b, <1>6 DEF FnReturns, Goto, AfterExec, PCs, LivePC, Before, After, Deferred
<1>7. ASSUME NEW t \in Tasks, FnPanics(t) PROVE TypeOK'
  BY <1>a, <1>b, <1>7 DEF FnPanics, Goto, AfterExec, PCs, LivePC, Before, After, Deferred
<1>8. ASSUME NEW t \in Tasks, CancelOnPanic(t) PROVE TypeOK'
  BY <1>a, <1>b, <1>8 DEF CancelOnPanic, CancelWith, Goto, AfterExec, PCs, LivePC, Before,
       After, Deferred
<1>9. ASSUME NEW t \in Tasks, CloseChild(t) PROVE TypeOK'
  BY <1>a, <1>b, <1>9 DEF CloseChild, Goto, PCs, LivePC, Before, After, Deferred
<1>10. ASSUME NEW t \in Tasks, EmitCompletion(t) PROVE TypeOK'
  <2>1. CompletionKind(t) \in EventKinds \ {"started"}
    BY DEF CompletionKind, EventKinds
  <2>2. pc' \in [Tasks -> PCs]
    BY <1>10 DEF EmitCompletion, Goto, PCs, LivePC, Before, After, Deferred
  <2>3. events' \in [Tasks -> Seq(EventKinds)]
    BY <1>10, <2>1 DEF EmitCompletion
  <2>4. tally' \in [EventKinds \ {"started"} -> Nat]
    BY <1>10, <2>1 DEF EmitCompletion
  <2> QED BY <1>10, <2>2, <2>3, <2>4 DEF EmitCompletion
<1>11. ASSUME NEW t \in Tasks, RecordFirst(t) PROVE TypeOK'
  BY <1>a, <1>b, <1>11 DEF RecordFirst, Goto, PCs, LivePC, Before, After, Deferred
<1>12. ASSUME NEW t \in Tasks, CancelSiblings(t) PROVE TypeOK'
  BY <1>a, <1>b, <1>12 DEF CancelSiblings, CancelWith, Goto, PCs, LivePC, Before, After, Deferred
<1>13. ASSUME NEW t \in Tasks, RecordLater(t) PROVE TypeOK'
  BY <1>a, <1>b, <1>13 DEF RecordLater, Goto, PCs, LivePC, Before, After, Deferred
<1>14. ASSUME NEW t \in Tasks, RecordCollect(t) PROVE TypeOK'
  BY <1>a, <1>b, <1>14 DEF RecordCollect, Goto, PCs, LivePC, Before, After, Deferred
<1>15. ASSUME NEW t \in Tasks, Unregister(t) PROVE TypeOK'
  BY <1>a, <1>b, <1>15 DEF Unregister, Goto, PCs, LivePC, Before, After, Deferred
<1>16. ASSUME NEW t \in Tasks, ReleaseSlot(t) PROVE TypeOK'
  BY <1>a, <1>b, <1>16 DEF ReleaseSlot, Goto, PCs, LivePC, Before, After, Deferred, Config
<1>17. ASSUME NEW t \in Tasks, WgDone(t) PROVE TypeOK'
  BY <1>a, <1>b, <1>17 DEF WgDone, Goto, PCs, LivePC, Before, After, Deferred
<1>18. ASSUME NEW t \in Tasks, Deactivate(t) PROVE TypeOK'
  BY <1>a, <1>b, <1>18 DEF Deactivate, Goto, PCs, LivePC, Before, After, Deferred
<1>19. ASSUME ParentCancel PROVE TypeOK'
  BY <1>a, <1>b, <1>19 DEF ParentCancel, CancelWith
<1>20. ASSUME UserCancel PROVE TypeOK'
  BY <1>a, <1>b, <1>20 DEF UserCancel, CancelWith
<1>21. ASSUME EnterOnce PROVE TypeOK'
  BY <1>a, <1>b, <1>21 DEF EnterOnce
<1>22. ASSUME Join PROVE TypeOK'
  <2>1. wasCancelled' \in BOOLEAN
    BY <1>22 DEF Join, Cancelled
  <2> QED BY <1>22, <2>1 DEF Join
<1>23. ASSUME Settle PROVE TypeOK'
  <2>1. finPanic' \in BOOLEAN
    BY <1>23 DEF Settle
  <2>2. finErr' \in {"unset", "nil", "errs", "ctx"}
    BY <1>23 DEF Settle, Verdict
  <2>3. cause' \in {"none", "parent", "user", "task", "panic", "final"}
    BY <1>23 DEF Settle, CancelWith
  <2> QED BY <1>23, <2>1, <2>2, <2>3 DEF Settle
<1>24. ASSUME NEW w \in Waiters, NEW how \in {"wait", "timed", "run", "runpanic"}, Call(w, how)
       PROVE TypeOK'
  BY <1>a, <1>b, <1>24 DEF Call
<1>25. ASSUME NEW w \in Waiters, Return(w) PROVE TypeOK'
  <2>1. Answer(w) \in {"unset", "nil", "errs", "ctx", "panic", "setupPanic"}
    BY DEF Answer
  <2>2. finErr # "unset"
    BY <1>25 DEF Return, Finishing, Verdict
  <2>3. Answer(w) # "unset"
    BY <2>2 DEF Answer
  <2> QED BY <1>25, <2>1, <2>3 DEF Return
<1>26. ASSUME NEW w \in Waiters, TimeOut(w) PROVE TypeOK'
  BY <1>a, <1>b, <1>26, SMTT(60) DEF TimeOut
<1>27. CASE UNCHANGED vars
  BY <1>27 DEF vars
<1> QED
  BY <1>1, <1>2, <1>3, <1>4, <1>5, <1>6, <1>7, <1>8, <1>9, <1>10, <1>11, <1>12, <1>13, <1>14,
       <1>15, <1>16, <1>17, <1>18, <1>19, <1>20, <1>21, <1>22, <1>23, <1>24, <1>25, <1>26,
       <1>27
  DEF Next, TaskStep, FnEnds, FinalizeStep, Terminated

-----------------------------------------------------------------------------
(* The other parts of the invariant *)

\* The two appends that the event logs undergo.
LEMMA Appends ==
    ASSUME NEW k \in EventKinds, NEW s \in Seq(EventKinds)
    PROVE  (s = <<>> => Append(s, k) = <<k>>) /\ (s = <<"started">> => Append(s, k) = <<"started", k>>)
<1>1. Append(<<>>, k) = <<k>> OBVIOUS
<1>2. <<"started">> \in Seq(EventKinds) BY DEF EventKinds
<1>3. Len(Append(<<"started">>, k)) = 2 BY <1>2
<1>4. Append(<<"started">>, k)[1] = "started" BY <1>2
<1>5. Append(<<"started">>, k)[2] = k BY <1>2
<1>6. Append(<<"started">>, k) \in Seq(EventKinds) BY <1>2
<1>7. <<"started", k>> \in Seq(EventKinds) BY DEF EventKinds
<1>8. Len(<<"started", k>>) = 2 OBVIOUS
<1>9. Append(<<"started">>, k) = <<"started", k>>
  <2>1. \A i \in 1 .. Len(Append(<<"started">>, k)) : Append(<<"started">>, k)[i] =
       <<"started", k>>[i]
    BY <1>3, <1>4, <1>5
  <2>2. Len(Append(<<"started">>, k)) = Len(<<"started", k>>) BY <1>3, <1>8
  <2> DEFINE a == Append(<<"started">>, k)
             b == <<"started", k>>
  <2>3. a \in Seq(EventKinds) /\ b \in Seq(EventKinds) /\ Len(a) = Len(b) /\ \A i \in
       1..Len(a) : a[i] = b[i]
    BY <2>1, <2>2, <1>6, <1>7
  <2> HIDE DEF a, b
  <2>4. a = b BY <2>3, SeqEqual
  <2> QED BY <2>4 DEF a, b
<1> QED BY <1>1, <1>9

\* Every step keeps the parts of the invariant that speak of control.
LEMMA RestNext ==
    ASSUME IInv, [Next]_vars, TypeOK'
    PROVE  Doors' /\ Progress' /\ Traces' /\ Causes' /\ Reports' /\ Calling' /\ Finishing'
<1> DEFINE Rest == Doors /\ Progress /\ Traces /\ Causes /\ Reports /\ Calling /\ Finishing
<1> USE DEF TypeOK, joinVars, slotVars, errVars, logVars, finVars, waitVars
<1>a. TypeOK /\ Counting /\ Doors /\ Progress /\ Traces /\ Causes /\ Reports /\ Calling /\ Finishing
  BY DEF IInv
<1> USE ScopeAssumption, <1>a
<1>1. ASSUME NEW sp \in Tasks \cup {Root}, NEW t \in Tasks, BeginTask(sp, t) PROVE Rest'
  BY <1>1 DEF BeginTask, Goto, Settled, Failed, Cancelled, LivePC, Before, After, Deferred,
     Doors, Progress, Live, At, Traces, Causes, Past, Recorded, Reports, OwnFailure,
          Calling, Finishing, Verdict, Spawned
<1>2. ASSUME NEW t \in Tasks, Acquire(t) PROVE Rest'
  BY <1>2 DEF Acquire, Goto, Settled, Failed, Cancelled, LivePC, Before, After, Deferred,
     Doors, Progress, Live, At, Traces, Causes, Past, Recorded, Reports, OwnFailure,
          Calling, Finishing, Verdict, Spawned
<1>3. ASSUME NEW t \in Tasks, AbandonAdmission(t) PROVE Rest'
  BY <1>3 DEF AbandonAdmission, Goto, Settled, Failed, Cancelled, LivePC, Before, After, Deferred,
     Doors, Progress, Live, At, Traces, Causes, Past, Recorded, Reports, OwnFailure,
          Calling, Finishing, Verdict, Spawned
<1>4. ASSUME NEW t \in Tasks, SkipCancelled(t) PROVE Rest'
  BY <1>4 DEF SkipCancelled, Goto, Settled, Failed, Cancelled, LivePC, Before, After, Deferred,
     Doors, Progress, Live, At, Traces, Causes, Past, Recorded, Reports, OwnFailure,
          Calling, Finishing, Verdict, Spawned
<1>5. ASSUME NEW t \in Tasks, Start(t) PROVE Rest'
  <2> USE <1>5 DEF Start, Goto, Settled, Failed, Cancelled, LivePC, Before, After, Deferred
  <2>a. events' = [events EXCEPT ![t] = <<"started">>]
    BY Appends DEF Reports, EventKinds
  <2>0. events'[t] = <<"started">> /\ \A u \in Tasks \ {t} : events'[u] = events[u] /\ pc'[u]
       = pc[u]
    BY <2>a
  <2>1. Doors' /\ Progress'
    BY DEF Doors, Progress, Live, At
  <2>2. Traces' /\ Causes'
    BY DEF Traces, Causes, Past, Recorded, Progress
  <2>3. Reports'
    BY <2>a, <2>0 DEF Reports, OwnFailure, Traces, Past, Progress, Causes
  <2>4. Calling'
    BY DEF Calling
  <2>5. Finishing'
    BY DEF Finishing, Verdict, Recorded, Spawned, Doors, Live, At
  <2> QED BY <2>1, <2>2, <2>3, <2>4, <2>5
<1>6. ASSUME NEW t \in Tasks, NEW o \in {"ok", "err"}, FnReturns(t, o) PROVE Rest'
  BY <1>6 DEF FnReturns, AfterExec, Goto, Settled, Failed, Cancelled, LivePC, Before, After,
       Deferred,
     Doors, Progress, Live, At, Traces, Causes, Past, Recorded, Reports, OwnFailure,
          Calling, Finishing, Verdict, Spawned
<1>7. ASSUME NEW t \in Tasks, FnPanics(t) PROVE Rest'
  BY <1>7 DEF FnPanics, AfterExec, Goto, Settled, Failed, Cancelled, LivePC, Before, After,
       Deferred,
     Doors, Progress, Live, At, Traces, Causes, Past, Recorded, Reports, OwnFailure,
          Calling, Finishing, Verdict, Spawned
<1>8. ASSUME NEW t \in Tasks, CancelOnPanic(t) PROVE Rest'
  BY <1>8 DEF CancelOnPanic, AfterExec, CancelWith, Goto, Settled, Failed, Cancelled, LivePC,
       Before, After, Deferred,
     Doors, Progress, Live, At, Traces, Causes, Past, Recorded, Reports, OwnFailure,
          Calling, Finishing, Verdict, Spawned
<1>9. ASSUME NEW t \in Tasks, CloseChild(t) PROVE Rest'
  BY <1>9 DEF CloseChild, Goto, Settled, Failed, Cancelled, LivePC, Before, After, Deferred,
     Doors, Progress, Live, At, Traces, Causes, Past, Recorded, Reports, OwnFailure,
          Calling, Finishing, Verdict, Spawned
<1>10. ASSUME NEW t \in Tasks, EmitCompletion(t) PROVE Rest'
  <2> USE <1>10 DEF EmitCompletion, Goto, Settled, Failed, Cancelled, LivePC, Before, After,
       Deferred
  <2>a. CompletionKind(t) \in EventKinds
    BY DEF CompletionKind, EventKinds
  <2>b. events' = [events EXCEPT ![t] = <<"started", CompletionKind(t)>>]
    BY <2>a, Appends DEF Reports
  <2>0. Failed(t) /\ ~Cancelled => events'[t] \in OwnFailure
    <3>1. Failed(t) /\ ~Cancelled => CompletionKind(t) = "errored" \/ CompletionKind(t) = "panicked"
      BY DEF CompletionKind
    <3>2. events'[t] = <<"started", CompletionKind(t)>>
      BY <2>b DEF IInv, TypeOK
    <3> HIDE <1>10 DEF EmitCompletion, Goto, Failed, Cancelled
    <3> QED BY <3>1, <3>2 DEF OwnFailure
  <2>1. Doors' /\ Progress'
    BY DEF Doors, Progress, Live, At
  <2>2. Traces' /\ Causes'
    <3>1. \A x \in Tasks : Past(x)' => Past(x) \/ (x = t /\ ~Failed(t) /\ outcome[t] # "none")
      BY DEF Past, Progress
    <3>2. \A x \in Tasks : Past(x) => Past(x)'
      BY DEF Past
    <3>3. \A x \in Tasks : pc[x] \in {"cancelling", "panicked"} <=> pc'[x] \in {"cancelling", "panicked"}
      OBVIOUS
    <3> QED BY <3>1, <3>2, <3>3 DEF Traces, Causes, Recorded
  <2>3. Reports'
    <3>1. \A x \in Tasks \ {t} : pc'[x] = pc[x] /\ events'[x] = events[x]
      BY <2>b
    <3>2. pc'[t] \in {"recording", "unregister"} /\ (pc'[t] = "recording" => Failed(t))
      OBVIOUS
    <3>3. cause = "task" => firstErr \in Tasks \ {t}
      BY DEF Causes, Traces, Past
    <3>4. cause' = cause /\ firstErr' = firstErr
      OBVIOUS
    <3> QED BY <2>0, <3>1, <3>2, <3>3, <3>4 DEF Reports
  <2>4. Calling'
    BY DEF Calling
  <2>5. Finishing'
    BY DEF Finishing, Verdict, Recorded, Spawned, Doors, Live, At
  <2> QED BY <2>1, <2>2, <2>3, <2>4, <2>5
<1>11. ASSUME NEW t \in Tasks, RecordFirst(t) PROVE Rest'
  BY <1>11 DEF RecordFirst, Goto, Settled, Failed, Cancelled, LivePC, Before, After, Deferred,
     Doors, Progress, Live, At, Traces, Causes, Past, Recorded, Reports, OwnFailure,
          Calling, Finishing, Verdict, Spawned
<1>12. ASSUME NEW t \in Tasks, CancelSiblings(t) PROVE Rest'
  BY <1>12 DEF CancelSiblings, CancelWith, Goto, Settled, Failed, Cancelled, LivePC, Before,
       After, Deferred,
     Doors, Progress, Live, At, Traces, Causes, Past, Recorded, Reports, OwnFailure,
          Calling, Finishing, Verdict, Spawned
<1>13. ASSUME NEW t \in Tasks, RecordLater(t) PROVE Rest'
  BY <1>13 DEF RecordLater, Goto, Settled, Failed, Cancelled, LivePC, Before, After, Deferred,
     Doors, Progress, Live, At, Traces, Causes, Past, Recorded, Reports, OwnFailure,
          Calling, Finishing, Verdict, Spawned
<1>14. ASSUME NEW t \in Tasks, RecordCollect(t) PROVE Rest'
  <2> USE <1>14 DEF RecordCollect, ErrorsFull, Goto, Settled, Failed, Cancelled, LivePC,
       Before, After, Deferred
  <2>a. IsFiniteSet(errs) /\ cfg.maxErrors \in Nat
    BY FS_Subset DEF Config
  <2>b. ErrorsFull => errs # {}
    <3>1. cfg.maxErrors > 0 => ~(0 >= cfg.maxErrors)
      BY <2>a
    <3>2. errs = {} => Cardinality(errs) = 0
      BY FS_EmptySet
    <3> QED BY <3>1, <3>2 DEF ErrorsFull
  <2>0. errs' # {}
    BY <2>b
  <2>1. Doors' /\ Progress'
    BY DEF Doors, Progress, Live, At
  <2>2. Traces' /\ Causes'
    BY <2>0 DEF Traces, Causes, Past, Recorded, Progress
  <2>3. Reports'
    BY DEF Reports, OwnFailure, Traces, Past, Progress, Causes
  <2>4. Calling'
    BY DEF Calling
  <2>5. Finishing'
    BY DEF Finishing, Verdict, Recorded, Spawned, Doors, Live, At
  <2> QED BY <2>1, <2>2, <2>3, <2>4, <2>5
<1>15. ASSUME NEW t \in Tasks, Unregister(t) PROVE Rest'
  BY <1>15 DEF Unregister, Goto, Settled, Failed, Cancelled, LivePC, Before, After, Deferred,
     Doors, Progress, Live, At, Traces, Causes, Past, Recorded, Reports, OwnFailure,
          Calling, Finishing, Verdict, Spawned
<1>16. ASSUME NEW t \in Tasks, ReleaseSlot(t) PROVE Rest'
  BY <1>16 DEF ReleaseSlot, Goto, Settled, Failed, Cancelled, LivePC, Before, After, Deferred,
     Doors, Progress, Live, At, Traces, Causes, Past, Recorded, Reports, OwnFailure,
          Calling, Finishing, Verdict, Spawned
<1>17. ASSUME NEW t \in Tasks, WgDone(t) PROVE Rest'
  BY <1>17 DEF WgDone, Goto, Settled, Failed, Cancelled, LivePC, Before, After, Deferred,
     Doors, Progress, Live, At, Traces, Causes, Past, Recorded, Reports, OwnFailure,
          Calling, Finishing, Verdict, Spawned
<1>18. ASSUME NEW t \in Tasks, Deactivate(t) PROVE Rest'
  BY <1>18 DEF Deactivate, Goto, Settled, Failed, Cancelled, LivePC, Before, After, Deferred,
     Doors, Progress, Live, At, Traces, Causes, Past, Recorded, Reports, OwnFailure,
          Calling, Finishing, Verdict, Spawned
<1>19. ASSUME ParentCancel PROVE Rest'
  BY <1>19 DEF ParentCancel, CancelWith, Settled, Failed, Cancelled, LivePC, Before, After,
       Deferred,
     Doors, Progress, Live, At, Traces, Causes, Past, Recorded, Reports, OwnFailure,
          Calling, Finishing, Verdict, Spawned
<1>20. ASSUME UserCancel PROVE Rest'
  BY <1>20 DEF UserCancel, CancelWith, Settled, Failed, Cancelled, LivePC, Before, After, Deferred,
     Doors, Progress, Live, At, Traces, Causes, Past, Recorded, Reports, OwnFailure,
          Calling, Finishing, Verdict, Spawned
<1>21. ASSUME EnterOnce PROVE Rest'
  BY <1>21 DEF EnterOnce, Settled, Failed, Cancelled, LivePC, Before, After, Deferred,
     Doors, Progress, Live, At, Traces, Causes, Past, Recorded, Reports, OwnFailure,
          Calling, Finishing, Verdict, Spawned
<1>22. ASSUME Join PROVE Rest'
  <2> USE <1>22 DEF Join, Settled, Failed, Cancelled, LivePC, Before, After, Deferred
  <2>a. IsFiniteSet(Live) /\ Cardinality(Live) = 0
    BY FiniteAt DEF Live, Counting
  <2>0. Live = {}
    BY <2>a, FS_EmptySet
  <2>b. \A t \in Spawned : Past(t)
    BY <2>0 DEF Spawned, Live, At, Past, PCs
  <2>1. Doors' /\ Progress'
    BY <2>0 DEF Doors, Progress, Live, At
  <2>2. Traces' /\ Causes'
    BY DEF Traces, Causes, Past, Recorded, Progress
  <2>3. Reports'
    BY DEF Reports, OwnFailure, Traces, Past, Progress, Causes
  <2>4. Calling'
    BY DEF Calling
  <2>5. Finishing'
    BY <2>b DEF Finishing, Verdict, Recorded, Spawned, Doors, Live, At, Traces
  <2> QED BY <2>1, <2>2, <2>3, <2>4, <2>5
<1>23. ASSUME Settle PROVE Rest'
  <2> USE <1>23 DEF Settle, CancelWith, Settled, Failed, Cancelled, LivePC, Before, After, Deferred
  <2>1. Doors' /\ Progress'
    BY DEF Doors, Progress, Live, At
  <2>2. Traces' /\ Causes'
    BY DEF Traces, Causes, Past, Recorded, Progress, Finishing
  <2>3. Reports'
    BY DEF Reports, OwnFailure, Traces, Past, Progress, Causes
  <2>4. Calling'
    BY DEF Calling
  <2>5. Finishing'
    BY DEF Finishing, Verdict, Recorded, Spawned, Doors, Live, At
  <2> QED BY <2>1, <2>2, <2>3, <2>4, <2>5
<1>24. ASSUME NEW w \in Waiters, NEW how \in {"wait", "timed", "run", "runpanic"}, Call(w, how)
       PROVE Rest'
  BY <1>24 DEF Call, Calls, Settled, Failed, Cancelled, LivePC, Before, After, Deferred,
     Doors, Progress, Live, At, Traces, Causes, Past, Recorded, Reports, OwnFailure,
          Calling, Finishing, Verdict, Spawned
<1>25. ASSUME NEW w \in Waiters, Return(w) PROVE Rest'
  BY <1>25 DEF Return, Answer, Calls, Settled, Failed, Cancelled, LivePC, Before, After, Deferred,
     Doors, Progress, Live, At, Traces, Causes, Past, Recorded, Reports, OwnFailure,
          Calling, Finishing, Verdict, Spawned
<1>26. ASSUME NEW w \in Waiters, TimeOut(w) PROVE Rest'
  BY <1>26 DEF TimeOut, Calls, Settled, Failed, Cancelled, LivePC, Before, After, Deferred,
     Doors, Progress, Live, At, Traces, Causes, Past, Recorded, Reports, OwnFailure,
          Calling, Finishing, Verdict, Spawned
<1>27. CASE UNCHANGED vars
  BY <1>27 DEF vars, Doors, Progress, Traces, Causes, Reports, Calling, Finishing,
     Live, At, Settled, Failed, Cancelled, Past, Recorded, Verdict, Spawned
<1>28. Rest'
  BY <1>1, <1>2, <1>3, <1>4, <1>5, <1>6, <1>7, <1>8, <1>9, <1>10, <1>11, <1>12, <1>13, <1>14,
       <1>15, <1>16, <1>17, <1>18, <1>19, <1>20, <1>21, <1>22, <1>23, <1>24, <1>25, <1>26,
       <1>27
  DEF Next, TaskStep, FnEnds, FinalizeStep, Terminated
<1> QED BY <1>28

-----------------------------------------------------------------------------
(* What is told and what is noted *)

\* A step that tells the hooks nothing new and records nothing keeps the accounts.
LEMMA AccountsKept ==
    ASSUME Accounts, UNCHANGED <<cfg, errs, dropped, tally>>, Reported' = Reported,
           Noted \subseteq Noted', cfg.policy = "Collect" => Noted' = Noted,
           \A t \in Reported : events'[t] = events[t]
    PROVE  Accounts'
  BY DEF Accounts

\* One more event of a kind is one more event in all.
LEMMA OneMoreEvent ==
    ASSUME NEW e \in [EventKinds \ {"started"} -> Nat], NEW k \in EventKinds \ {"started"}, NEW f,
           f = [e EXCEPT ![k] = @ + 1]
    PROVE  f["done"] + f["errored"] + f["panicked"] + f["cancelled"]
             = e["done"] + e["errored"] + e["panicked"] + e["cancelled"] + 1
<1>1. EventKinds \ {"started"} = {"done", "errored", "panicked", "cancelled"}
  BY DEF EventKinds
<1>2. /\ e["done"] \in Nat /\ e["errored"] \in Nat /\ e["panicked"] \in Nat /\ e["cancelled"] \in Nat
      /\ \A l \in {"done", "errored", "panicked", "cancelled"} : f[l] = IF l = k THEN e[l] + 1 ELSE e[l]
  BY <1>1
<1>3. CASE k = "done"
  BY <1>2, <1>3
<1>4. CASE k = "errored"
  BY <1>2, <1>4
<1>5. CASE k = "panicked"
  BY <1>2, <1>5
<1>6. CASE k = "cancelled"
  BY <1>2, <1>6
<1> QED BY <1>1, <1>3, <1>4, <1>5, <1>6

\* The completion event of a task is one more event told and one more counted.
LEMMA AccountsEmit ==
    ASSUME IInv, NEW t \in Tasks, EmitCompletion(t) PROVE Accounts'
<1>1. CompletionKind(t) \in EventKinds \ {"started"}
  BY DEF CompletionKind, EventKinds
<1>2. tally'["done"] + tally'["errored"] + tally'["panicked"] + tally'["cancelled"]
        = tally["done"] + tally["errored"] + tally["panicked"] + tally["cancelled"] + 1
  <2>1. tally' = [tally EXCEPT ![CompletionKind(t)] = @ + 1] /\ tally \in [EventKinds \ {"started"} -> Nat]
    BY DEF EmitCompletion, IInv, TypeOK
  <2> QED BY <1>1, <2>1, OneMoreEvent
<1> USE ScopeAssumption DEF IInv, TypeOK, EmitCompletion, Goto, errVars
<1>3. outcome[t] # "none" /\ events[t] = <<"started">>
  BY DEF Progress, After, Reports
<1>4. Reported' = Reported \cup {t} /\ t \notin Reported
  BY <1>3 DEF Reported, Past, Deferred
<1>5. IsFiniteSet(Reported)
  BY FS_Subset DEF Reported
<1>6. Cardinality(Reported') = Cardinality(Reported) + 1 /\ Cardinality(Reported) \in Nat
  BY <1>4, <1>5, FS_AddElement, FS_CardinalityType
<1>7. tally["done"] + tally["errored"] + tally["panicked"] + tally["cancelled"] = Cardinality(Reported)
  BY DEF Accounts
<1>8. events'[t] = <<"started", CompletionKind(t)>>
  BY <1>1, <1>3, Appends
<1>9. \A u \in Reported' : Len(events'[u]) = 2 /\ events'[u][1] = "started"
  <2>1. \A u \in Reported : events'[u] = events[u]
    BY <1>4 DEF Reported
  <2>2. \A u \in Reported : Len(events[u]) = 2 /\ events[u][1] = "started"
    BY DEF Accounts
  <2>3. Len(<<"started", CompletionKind(t)>>) = 2 /\ <<"started", CompletionKind(t)>>[1] = "started"
    OBVIOUS
  <2>4. Len(events'[t]) = 2 /\ events'[t][1] = "started"
    BY <1>8, <2>3
  <2> QED BY <1>4, <2>1, <2>2, <2>4
<1>10. Noted' = Noted
  BY <1>3 DEF Noted, Past, Failed, Deferred
<1> QED BY <1>2, <1>6, <1>7, <1>9, <1>10 DEF Accounts

\* Under Collect the error of a task is stored, or else counted as dropped.
LEMMA AccountsCollect ==
    ASSUME IInv, NEW t \in Tasks, RecordCollect(t) PROVE Accounts'
<1> USE ScopeAssumption DEF IInv, TypeOK, RecordCollect, Goto
<1>1. Failed(t) /\ outcome[t] # "none"
  BY DEF Progress, Failed
<1>2. Reported' = Reported
  BY <1>1 DEF Reported, Past, Deferred
<1>3. Noted' = Noted \cup {t} /\ t \notin Noted
  BY <1>1 DEF Noted, Past, Failed, Deferred
<1>4. IsFiniteSet(Noted) /\ IsFiniteSet(errs)
  BY FS_Subset DEF Noted
<1>5. /\ Cardinality(Noted') = Cardinality(Noted) + 1
      /\ Cardinality(Noted) \in Nat /\ Cardinality(errs) \in Nat
  BY <1>3, <1>4, FS_AddElement, FS_CardinalityType
<1>6. cfg.maxErrors \in Nat
  BY DEF Config
<1>a. /\ UNCHANGED <<cfg, events, tally>>
      /\ dropped \in Nat
  BY DEF logVars
<1>b. Accounts
  OBVIOUS
<1>c. IF ErrorsFull THEN dropped' = dropped + 1 /\ errs' = errs
                    ELSE errs' = errs \cup {t} /\ dropped' = dropped
  OBVIOUS
<1>7. CASE ErrorsFull
  <2> USE <1>2, <1>3, <1>5, <1>6, <1>7, <1>a, <1>b, <1>c DEF Accounts, ErrorsFull
  <2>1. Cardinality(errs') + dropped' = Cardinality(Noted')
    OBVIOUS
  <2>2. dropped' > 0 => cfg.maxErrors > 0 /\ Cardinality(errs') = cfg.maxErrors
    OBVIOUS
  <2> QED BY <2>1, <2>2
<1>8. CASE ~ErrorsFull
  <2>1. errs' = errs \cup {t} /\ t \notin errs /\ dropped' = dropped
    BY <1>3, <1>8 DEF Accounts
  <2>2. Cardinality(errs') = Cardinality(errs) + 1
    BY <1>4, <2>1, FS_AddElement
  <2> USE <1>2, <1>3, <1>5, <1>6, <1>8, <1>a, <1>b, <2>1, <2>2 DEF Accounts, ErrorsFull
  <2>3. Cardinality(errs') + dropped' = Cardinality(Noted')
    OBVIOUS
  <2>4. errs' \subseteq Noted'
    OBVIOUS
  <2>5. cfg.maxErrors > 0 => Cardinality(errs') <= cfg.maxErrors
    OBVIOUS
  <2>6. cfg.policy = "Collect" => dropped' = 0
    OBVIOUS
  <2> QED BY <2>3, <2>4, <2>5, <2>6
<1> QED BY <1>7, <1>8

\* Every step keeps the accounts.
LEMMA AccountsNext == ASSUME IInv, [Next]_vars PROVE Accounts'
<1> DEFINE Quiet ==
        /\ UNCHANGED <<cfg, errs, dropped, tally>>
        /\ Reported' = Reported /\ Noted \subseteq Noted'
        /\ cfg.policy = "Collect" => Noted' = Noted
        /\ \A t \in Reported : events'[t] = events[t]
<1>a. TypeOK /\ Doors /\ Progress /\ Traces /\ Accounts
  BY DEF IInv
<1> USE <1>a DEF TypeOK, Goto, Reported, Noted, Past, Failed, Deferred, joinVars, slotVars,
                 errVars, logVars, finVars, waitVars
<1>1. ASSUME NEW sp \in Tasks \cup {Root}, NEW t \in Tasks, BeginTask(sp, t) PROVE Quiet
  BY <1>1 DEF BeginTask
<1>2. ASSUME NEW t \in Tasks, Acquire(t) \/ AbandonAdmission(t) PROVE Quiet
  BY <1>2 DEF Acquire, AbandonAdmission, Progress, Before
<1>3. ASSUME NEW t \in Tasks, SkipCancelled(t) \/ Start(t) PROVE Quiet
  BY <1>3 DEF SkipCancelled, Start, Progress, Before
<1>4. ASSUME NEW t \in Tasks, NEW o \in {"ok", "err"}, FnReturns(t, o) PROVE Quiet
  BY <1>4 DEF FnReturns, AfterExec, Progress, Before
<1>5. ASSUME NEW t \in Tasks, FnPanics(t) PROVE Quiet
  BY <1>5 DEF FnPanics, AfterExec, Progress, Before
<1>6. ASSUME NEW t \in Tasks, CancelOnPanic(t) \/ CloseChild(t) PROVE Quiet
  BY <1>6 DEF CancelOnPanic, CloseChild, AfterExec
<1>7. ASSUME NEW t \in Tasks, RecordFirst(t) \/ RecordLater(t) PROVE Quiet
  BY <1>7 DEF RecordFirst, RecordLater
<1>8. ASSUME NEW t \in Tasks, CancelSiblings(t) PROVE Quiet
  BY <1>8, ScopeAssumption DEF CancelSiblings, Progress, Traces
<1>9. ASSUME NEW t \in Tasks, Unregister(t) \/ ReleaseSlot(t) PROVE Quiet
  BY <1>9 DEF Unregister, ReleaseSlot
<1>10. ASSUME NEW t \in Tasks, WgDone(t) \/ Deactivate(t) PROVE Quiet
  BY <1>10 DEF WgDone, Deactivate
<1>11. ASSUME UNCHANGED <<cfg, pc, outcome, errs, dropped, events, tally>> PROVE Quiet
  BY <1>11
<1>12. Quiet => Accounts'
  BY AccountsKept
<1> HIDE DEF Quiet
<1> QED
  BY <1>1, <1>2, <1>3, <1>4, <1>5, <1>6, <1>7, <1>8, <1>9, <1>10, <1>11, <1>12, AccountsEmit,
     AccountsCollect
  DEF Next, TaskStep, FnEnds, FinalizeStep, ParentCancel, UserCancel, EnterOnce, Join, Settle,
      Call, Return, TimeOut, Terminated, vars

-----------------------------------------------------------------------------
\* The initial state of a scope satisfies the invariant.
LEMMA InitIInv == Init => IInv
<1> SUFFICES ASSUME Init PROVE IInv
  OBVIOUS
<1> USE ScopeAssumption DEF Init
<1>1. TypeOK
  BY TypeInit
<1>2. Live = {} /\ Holders = {} /\ Listed = {} /\ Unfinished = {}
  BY DEF Live, Holders, Listed, Unfinished, At, HoldsSlot, LivePC, Before, After, Deferred
<1>3. Counting
  BY <1>2, FS_EmptySet DEF Counting
<1>4. Doors /\ Progress
  BY <1>2 DEF Doors, Progress, Settled, Failed, Before, After
<1>5. Traces /\ Causes /\ Reports
  BY DEF Traces, Causes, Reports, Past, Failed, Deferred, Cancelled
<1>6. Calling /\ Finishing
  BY DEF Calling, Finishing, Settled, Spawned
<1>7. Accounts
  <2>1. Reported = {} /\ Noted = {}
    BY DEF Reported, Noted, Failed
  <2>2. \A k \in {"done", "errored", "panicked", "cancelled"} : tally[k] = 0
    BY DEF EventKinds
  <2> QED BY <2>1, <2>2, FS_EmptySet DEF Accounts, Config
<1> QED BY <1>1, <1>3, <1>4, <1>5, <1>6, <1>7 DEF IInv

\* The invariant is inductive.
LEMMA NextIInv == IInv /\ [Next]_vars => IInv'
<1> SUFFICES ASSUME IInv, [Next]_vars PROVE IInv'
  OBVIOUS
<1>1. Counting'
  BY CountingNext, ScopeAssumption DEF IInv, TypeOK
<1>2. TypeOK'
  BY <1>1, TypeNext DEF IInv
<1>3. Doors' /\ Progress' /\ Traces' /\ Causes' /\ Reports' /\ Calling' /\ Finishing'
  BY <1>2, RestNext
<1>4. Accounts'
  BY AccountsNext
<1> QED BY <1>1, <1>2, <1>3, <1>4 DEF IInv

\* IInv: the inductive invariant holds of every behaviour of the scope.
THEOREM Invariance == Spec => []IInv
  BY InitIInv, NextIInv, PTL DEF Spec

-----------------------------------------------------------------------------
(* What follows from the invariant *)

\* TypeOK: every variable of the scope keeps its type.
THEOREM TypeCorrect == Spec => []TypeOK
<1>1. IInv => TypeOK
  BY DEF IInv
<1> QED BY <1>1, Invariance, PTL

\* StructuredJoin: past wg.Wait no task is live and none can be spawned.
THEOREM Joined == Spec => []StructuredJoin
<1>1. ASSUME IInv, Settled PROVE Live = {} /\ open = {} /\ running = {} /\ sem = 0
  <2> USE <1>1 DEF IInv
  <2>1. Live = {}
    BY DEF Doors
  <2>2. Holders = {} /\ Listed = {}
    BY <2>1 DEF Live, Holders, Listed, At, HoldsSlot
  <2>3. open = {}
    BY <2>1 DEF Doors, Settled, TypeOK, Live, At, LivePC, Before, After
  <2>4. sem = 0
    BY <2>2, FS_EmptySet, ScopeAssumption DEF Counting, TypeOK, Config
  <2> QED BY <2>1, <2>2, <2>3, <2>4 DEF Counting
<1>2. IInv => StructuredJoin
  BY <1>1 DEF StructuredJoin
<1> QED BY <1>2, Invariance, PTL

\* BoundedExecution: under WithLimit at most limit functions execute.
THEOREM Bounded == Spec => []BoundedExecution
<1>1. ASSUME IInv, cfg.limit > 0
      PROVE  /\ Cardinality(running) <= cfg.limit
             /\ {t \in Tasks : pc[t] = "running"} \subseteq running
  <2> USE <1>1 DEF IInv
  <2>1. IsFiniteSet(Holders) /\ Cardinality(Holders) \in Nat
    BY FiniteAt DEF Holders
  <2>2. running \subseteq Holders
    BY DEF Counting, Listed, Holders, At
  <2>3. Cardinality(running) <= Cardinality(Holders) /\ Cardinality(running) \in Nat
    BY <2>1, <2>2, FS_Subset, FS_CardinalityType
  <2>4. Cardinality(Holders) <= cfg.limit
    BY ScopeAssumption DEF Counting, TypeOK, Config
  <2>5. {t \in Tasks : pc[t] = "running"} \subseteq running
    BY DEF Counting, Listed, At, HoldsSlot, LivePC, Before
  <2> QED BY <2>1, <2>3, <2>4, <2>5, ScopeAssumption DEF TypeOK, Config
<1>2. IInv => BoundedExecution
  BY <1>1 DEF BoundedExecution
<1> QED BY <1>2, Invariance, PTL

\* NoSilentFailure: a nil answer means that every task returned nil.
THEOREM NotSilent == Spec => []NoSilentFailure
<1>1. ASSUME IInv, NEW w \in Waiters, ret[w] = "nil", NEW t \in Spawned
      PROVE  outcome[t] = "ok"
  <2> USE <1>1 DEF IInv
  <2>1. phase = "done" /\ ~Recorded /\ ~wasCancelled /\ (cfg.panicAsErr \/ panics = {})
    BY DEF Finishing, Verdict
  <2>2. t \in Tasks /\ Past(t)
    BY <2>1 DEF Doors, Settled, Live, At, LivePC, PCs, TypeOK, Spawned, Past
  <2>3. outcome[t] # "none"
    BY <2>1, <2>2 DEF Finishing, Settled
  <2>4. ~Failed(t)
    BY <2>1, <2>2 DEF Traces
  <2>5. outcome[t] # "panic"
    BY <2>1, <2>2, <2>4 DEF Traces, Failed
  <2> QED BY <2>2, <2>3, <2>4, <2>5 DEF TypeOK, Failed
<1>2. IInv => NoSilentFailure
  BY <1>1 DEF NoSilentFailure
<1> QED BY <1>2, Invariance, PTL

\* NoSpuriousFailure: an answer that is not nil has a culprit.
THEOREM NotSpurious == Spec => []NoSpuriousFailure
<1>1. ASSUME IInv, NEW w \in Waiters PROVE
        /\ ret[w] = "errs" => \E t \in Spawned : Failed(t)
        /\ ret[w] = "ctx" => cause \in {"parent", "user"}
        /\ ret[w] = "panic" => ~cfg.panicAsErr /\ \E t \in Spawned : outcome[t] = "panic"
  <2> USE <1>1 DEF IInv
  <2>1. \A t \in Tasks : outcome[t] # "none" => t \in Spawned
    BY DEF Progress, Spawned
  <2>2. ret[w] = "errs" => Recorded
    BY DEF Finishing, Verdict
  <2>3. Recorded => \E t \in Tasks : Failed(t)
    BY DEF Recorded, Traces, TypeOK
  <2>4. ret[w] = "errs" => \E t \in Spawned : Failed(t)
    BY <2>1, <2>2, <2>3 DEF Failed
  <2>5. ret[w] = "ctx" => phase = "done" /\ ~Recorded /\ wasCancelled /\ (cfg.panicAsErr \/
       panics = {})
    BY DEF Finishing, Verdict
  <2>6. ret[w] = "ctx" => cause \in {"parent", "user"}
    BY <2>5 DEF Causes, Traces, Recorded, Finishing, Settled, Cancelled, TypeOK
  <2>7. ret[w] = "panic" => ~cfg.panicAsErr /\ panics # {}
    BY DEF Finishing, Verdict
  <2>8. ret[w] = "panic" => ~cfg.panicAsErr /\ \E t \in Spawned : outcome[t] = "panic"
    BY <2>1, <2>7 DEF Traces, TypeOK
  <2> QED BY <2>4, <2>6, <2>8
<1>2. IInv => NoSpuriousFailure
  BY <1>1 DEF NoSpuriousFailure
<1> QED BY <1>2, Invariance, PTL

\* BlameIsOriginal: the task FailFast names stopped the others, not they it.
THEOREM BlameOriginal == Spec => []BlameIsOriginal
<1>1. IInv => BlameIsOriginal
  BY DEF IInv, BlameIsOriginal, Causes, Traces, Reports, OwnFailure
<1> QED BY <1>1, Invariance, PTL

\* WaitersAgree: all answers are the same answer.
THEOREM Agreement == Spec => []WaitersAgree
<1>1. ASSUME IInv, NEW v \in Waiters, NEW w \in Waiters,
             {ret[v], ret[w]} \cap {"none", "deadline"} = {}
      PROVE  ret[v] = ret[w]
  <2> USE <1>1 DEF IInv
  <2>1. CASE cfg.manual
    BY <2>1 DEF Calling, Finishing, TypeOK
  <2>2. CASE ~cfg.manual
    BY <2>2 DEF Calling
  <2> QED BY <2>1, <2>2
<1>2. IInv => WaitersAgree
  BY <1>1 DEF WaitersAgree
<1> QED BY <1>2, Invariance, PTL

\* Accounting: by the time finalize is past wg.Wait every function that ended is
\* in one counter and has told the hooks, and at any moment each error recorded is
\* kept or counted as dropped.
THEOREM Accounted == Spec => []Accounting
<1>1. ASSUME IInv PROVE ErrorAccounting
  BY <1>1 DEF IInv, Accounts, ErrorAccounting, Noted
<1>2. ASSUME IInv, Settled PROVE {t \in Tasks : outcome[t] # "none"} = Reported
  <2>1. \A t \in Tasks : pc[t] \in {"unspawned", "deactivate", "gone"}
    BY <1>2 DEF IInv, TypeOK, Doors, Live, At, PCs
  <2> QED BY <1>2, <2>1 DEF IInv, Progress, Reported, Past
<1>3. ASSUME IInv PROVE HooksComplete
  BY <1>2, <1>3 DEF IInv, Accounts, HooksComplete
<1>4. IInv => Accounting
  BY <1>1, <1>3 DEF Accounting
<1> QED BY <1>4, Invariance, PTL

\* NothingAfterJoin: after the join nothing is recorded or reported any more.
THEOREM Frozen == Spec => NothingAfterJoin
<1>1. ASSUME IInv, [Next]_vars, Settled PROVE UNCHANGED <<errVars, logVars, outcome>>
  <2> USE <1>1 DEF errVars, logVars
  <2>1. \A t \in Tasks : pc[t] \notin LivePC
    BY DEF IInv, Doors, Live, At
  <2>2. open = {}
    BY <2>1 DEF IInv, TypeOK, Doors, Settled, LivePC, Before, After
  <2>3. CASE UNCHANGED vars
    BY <2>3 DEF vars
  <2>4. ASSUME NEW t \in Tasks, TaskStep(t) PROVE UNCHANGED <<errVars, logVars, outcome>>
    BY <2>1, <2>4 DEF TaskStep, Goto, LivePC, Before, After, Deferred, Deactivate,
       Acquire, AbandonAdmission, SkipCancelled, Start, CancelOnPanic, CloseChild, EmitCompletion,
       RecordFirst, CancelSiblings, RecordLater, RecordCollect, Unregister, ReleaseSlot, WgDone
  <2>5. ASSUME NEW t \in Tasks, FnEnds(t) PROVE UNCHANGED <<errVars, logVars, outcome>>
    BY <2>1, <2>5 DEF FnEnds, FnReturns, FnPanics, Goto, LivePC, Before
  <2>6. CASE \E sp \in Tasks \cup {Root}, t \in Tasks : BeginTask(sp, t)
    BY <2>2, <2>6 DEF BeginTask
  <2>7. CASE ParentCancel \/ UserCancel \/ FinalizeStep
    BY <2>7 DEF ParentCancel, UserCancel, FinalizeStep, EnterOnce, Join, Settle
  <2>8. CASE \E w \in Waiters : Return(w) \/ TimeOut(w)
    BY <2>8 DEF Return, TimeOut
  <2>9. CASE \E w \in Waiters, how \in {"wait", "timed", "run", "runpanic"} : Call(w, how)
    BY <2>9 DEF Call
  <2> QED BY <2>3, <2>4, <2>5, <2>6, <2>7, <2>8, <2>9 DEF Next, Terminated, vars
<1>2. IInv /\ [Next]_vars => [Settled => UNCHANGED <<errVars, logVars, outcome>>]_vars
  BY <1>1
<1> QED BY <1>2, Invariance, PTL DEF Spec, NothingAfterJoin

-----------------------------------------------------------------------------
(***************************************************************************)
(* Proof that a scope implements a TaskGroup: every step of the scope is a *)
(* step of the group, or changes nothing the group knows of.  Only six of  *)
(* the scope's actions are visible: a task is admitted when it is spawned, *)
(* leaves when it calls wg.Done, and the verdict falls in Settle.          *)
(***************************************************************************)

\* What the group sees of the scope.
Members == [t \in Tasks |-> Membership(t)]

\* A step that leaves every goroutine on its side of spawn and wg.Done leaves
\* every membership as it is.
LEMMA SameMembers ==
    ASSUME TypeOK, NEW t \in Tasks, NEW from, NEW to \in LivePC,
           Goto(t, from, to), from \in LivePC,
           cfg' = cfg, \A u \in Tasks \ {t} : outcome'[u] = outcome[u]
    PROVE  Members' = Members
<1>1. \A u \in Tasks : Membership(u)' = Membership(u)
  <2>1. Membership(t) = "live" /\ Membership(t)' = "live"
    BY DEF Membership, Goto, TypeOK, LivePC, Before, After, Deferred
  <2>2. ASSUME NEW u \in Tasks \ {t} PROVE Membership(u)' = Membership(u)
    BY <2>2 DEF Membership, Goto, TypeOK
  <2> QED BY <2>1, <2>2
<1> QED BY <1>1 DEF Members

\* A fresh scope is a fresh group.
LEMMA InitGroup == Init => Group!Init
<1> SUFFICES ASSUME Init PROVE Group!Init
  OBVIOUS
<1>1. (cfg.policy = "FailFast") \in BOOLEAN
  OBVIOUS
<1>2. [t \in Tasks |-> Membership(t)] = [t \in Tasks |-> "out"]
  BY DEF Init, Membership
<1>3. Root \in open /\ ~Cancelled /\ GroupVerdict = "pending"
  BY DEF Init, Cancelled, GroupVerdict
<1> QED BY <1>1, <1>2, <1>3 DEF Group!Init

\* Steps inside the life of a task: the group sees nothing, or that it has been
\* told to stop.
Inner(t) ==
    \/ Acquire(t) \/ AbandonAdmission(t) \/ SkipCancelled(t) \/ Start(t) \/ FnEnds(t)
    \/ CancelOnPanic(t) \/ CloseChild(t) \/ EmitCompletion(t)
    \/ RecordFirst(t) \/ CancelSiblings(t) \/ RecordLater(t) \/ RecordCollect(t)
    \/ Unregister(t) \/ ReleaseSlot(t)

\* An inner step moves nobody in or out, and never revokes a stop.
LEMMA InnerStep ==
    ASSUME TypeOK, NEW t \in Tasks, Inner(t)
    PROVE  /\ UNCHANGED <<cfg, phase, finErr, finPanic, Members, Root \in open>>
           /\ Cancelled => Cancelled'
<1>1. PICK from \in LivePC, to \in LivePC : Goto(t, from, to)
  BY DEF Inner, Acquire, AbandonAdmission, SkipCancelled, Start, FnEnds, FnReturns, FnPanics,
     CancelOnPanic, CloseChild, EmitCompletion, RecordFirst, CancelSiblings, RecordLater,
     RecordCollect, Unregister, ReleaseSlot, AfterExec, LivePC, Before, After, Deferred
<1>2. /\ cfg' = cfg
      /\ \A u \in Tasks \ {t} : outcome'[u] = outcome[u]
      /\ UNCHANGED <<phase, finErr, finPanic>>
      /\ Root \in open' <=> Root \in open
      /\ Cancelled => Cancelled'
  BY ScopeAssumption
  DEF TypeOK, Inner, Acquire, AbandonAdmission, SkipCancelled, Start, FnEnds, FnReturns, FnPanics,
     CancelOnPanic, CloseChild, EmitCompletion, RecordFirst, CancelSiblings, RecordLater,
     RecordCollect, Unregister, ReleaseSlot, joinVars, finVars, CancelWith, Cancelled
<1>3. Members' = Members
  BY <1>1, <1>2, SameMembers
<1> QED BY <1>2, <1>3

\* Steps the group can see only by the stop they may cause.
LEMMA Stops ==
    ASSUME UNCHANGED <<cfg, phase, finErr, finPanic, Members, Root \in open>>,
           Cancelled => Cancelled'
    PROVE  [Group!Next]_(Group!gvars)
<1>1. GroupVerdict' = GroupVerdict
  BY DEF GroupVerdict
<1>2. CASE Cancelled' = Cancelled
  BY <1>1, <1>2 DEF Group!gvars, Members
<1>3. CASE ~Cancelled /\ Cancelled'
  <2>1. Group!Stop
    BY <1>1, <1>3 DEF Group!Stop, Members
  <2> QED BY <2>1 DEF Group!Next
<1> QED BY <1>2, <1>3 DEF Cancelled

\* A Spawner that accepts a call is the root, or belongs to a live member.
LEMMA Admission ==
    ASSUME IInv, NEW sp \in Tasks \cup {Root}, NEW t \in Tasks, BeginTask(sp, t)
    PROVE  Group!Admit(t)
<1> USE DEF IInv, TypeOK
<1>1. Members[t] = "out"
  BY DEF BeginTask, Goto, Members, Membership
<1>2. Root \in open \/ Group!LiveMembers # {}
  <2>1. CASE sp = Root
    BY <2>1 DEF BeginTask
  <2>2. CASE sp \in Tasks
    <3>1. sp \in open /\ pc[sp] \in LivePC
      BY <2>2 DEF BeginTask, Doors, LivePC, Before, After
    <3>2. Membership(sp) = "live"
      BY <3>1, <2>2 DEF Membership, LivePC, Before, After, Deferred
    <3> QED BY <2>2, <3>2 DEF Group!LiveMembers
  <2> QED BY <2>1, <2>2
<1>3. Members' = [Members EXCEPT ![t] = "live"]
  <2>1. Membership(t)' = "live"
    BY DEF BeginTask, Goto, Membership, LivePC, Before
  <2>2. ASSUME NEW u \in Tasks \ {t} PROVE Membership(u)' = Membership(u)
    BY DEF BeginTask, Goto, Membership
  <2> QED BY <2>1, <2>2 DEF Members
<1>4. UNCHANGED <<cfg, Root \in open, Cancelled, GroupVerdict>>
  BY DEF BeginTask, finVars, Cancelled, GroupVerdict
<1> QED BY <1>1, <1>2, <1>3, <1>4 DEF Group!Admit, Members

\* wg.Done is the moment a task leaves, with what its function left behind.
LEMMA Departure ==
    ASSUME IInv, NEW t \in Tasks, WgDone(t)
    PROVE  \E how \in Group!Departed : Group!Leave(t, how)
<1> USE DEF IInv, TypeOK
<1> DEFINE how == Membership(t)'
<1>1. Members[t] = "live"
  BY DEF WgDone, Goto, Members, Membership, LivePC, Deferred
<1>2. how = CASE outcome[t] = "ok"    -> "succeeded"
              [] outcome[t] = "err"   -> "failed"
              [] outcome[t] = "panic" -> IF cfg.panicAsErr THEN "failed" ELSE "panicked"
              [] outcome[t] = "none"  -> "dropped"
  BY DEF WgDone, Goto, Membership, LivePC, Before, After, Deferred
<1>3. how \in Group!Departed
  BY <1>2 DEF Group!Departed
<1>4. (how = "failed" /\ cfg.policy = "FailFast") \/ how \in {"panicked", "dropped"} => Cancelled
  <2>1. Past(t) /\ pc[t] # "panicked"
    BY DEF WgDone, Goto, Past, Deferred
  <2> QED BY <1>2, <2>1 DEF Traces, Failed
<1>5. Members' = [Members EXCEPT ![t] = how]
  <2>2. ASSUME NEW u \in Tasks \ {t} PROVE Membership(u)' = Membership(u)
    BY DEF WgDone, Goto, Membership
  <2> QED BY <2>2 DEF Members
<1>6. UNCHANGED <<cfg, Root \in open, Cancelled, GroupVerdict>>
  BY DEF WgDone, finVars, Cancelled, GroupVerdict
<1> HIDE DEF how
<1>7. Group!Leave(t, how)
  BY <1>1, <1>4, <1>5, <1>6 DEF Group!Leave, Members
<1> QED BY <1>3, <1>7

\* Settle gives the one verdict the members justify.
LEMMA Decision ==
    ASSUME IInv, IInv', Settle
    PROVE  \E v \in {"ok", "error", "panic"} : Group!Decide(v)
<1> USE DEF IInv, TypeOK, Settle
<1> DEFINE v == GroupVerdict'
<1>1. GroupVerdict = "pending" /\ ~(Root \in open)
  BY DEF GroupVerdict, Doors
<1>2. Live = {}
  BY DEF Doors, Settled
<1>3. \A t \in Tasks : Members[t] # "live"
  BY <1>2 DEF Members, Membership, Live, At
<1>4. v = IF finPanic' THEN "panic" ELSE IF finErr' = "nil" THEN "ok" ELSE "error"
  BY DEF GroupVerdict
<1>5. \A t \in Tasks : pc[t] # "unspawned" =>
        /\ Past(t)
        /\ Members[t] = CASE outcome[t] = "ok"    -> "succeeded"
                          [] outcome[t] = "err"   -> "failed"
                          [] outcome[t] = "panic" -> IF cfg.panicAsErr THEN "failed" ELSE "panicked"
                          [] outcome[t] = "none"  -> "dropped"
  BY <1>2 DEF Members, Membership, Live, At, Past, LivePC, PCs
<1>6. \A t \in Tasks : pc[t] = "unspawned" => Members[t] = "out" /\ outcome[t] = "none"
  BY DEF Members, Membership, Progress
<1>7. v = "panic" => \E t \in Tasks : Members[t] = "panicked"
  <2>1. v = "panic" => ~cfg.panicAsErr /\ panics # {}
    BY <1>4
  <2>2. \A t \in panics : t \in Tasks /\ outcome[t] = "panic" /\ ~cfg.panicAsErr
    BY DEF Traces
  <2>3. \A t \in panics : Members[t] = "panicked"
    BY <1>5, <1>6, <2>2
  <2> QED BY <2>1, <2>2, <2>3
<1>8. v # "panic" => \A t \in Tasks : Members[t] # "panicked"
  <2>1. v # "panic" => cfg.panicAsErr \/ panics = {}
    BY <1>4
  <2>2. ASSUME NEW t \in Tasks, Members[t] = "panicked"
        PROVE  outcome[t] = "panic" /\ ~cfg.panicAsErr
    <3>1. CASE pc[t] = "unspawned"
      BY <2>2, <3>1, <1>6
    <3>2. CASE pc[t] # "unspawned"
      <4>1. outcome[t] \in {"none", "ok", "err", "panic"}
        OBVIOUS
      <4> HIDE DEF IInv, TypeOK, Settle
      <4> QED BY <2>2, <3>2, <4>1, <1>5
    <3> QED BY <3>1, <3>2
  <2> QED BY <2>1, <2>2 DEF Traces
<1>9. v = "error" => Cancelled \/ \E t \in Tasks : Members[t] = "failed"
  <2>1. v = "error" => Recorded \/ wasCancelled
    BY <1>4 DEF Verdict
  <2>2. Recorded => \E t \in Tasks : Failed(t)
    BY DEF Recorded, Traces
  <2>3. \A t \in Tasks : Failed(t) => Members[t] = "failed"
    BY <1>5, <1>6 DEF Failed
  <2>4. wasCancelled => Cancelled
    BY DEF Finishing, Settled
  <2> QED BY <2>1, <2>2, <2>3, <2>4
<1>10. v = "ok" => \A t \in Tasks : Members[t] \notin {"failed", "dropped"}
  <2>1. v = "ok" => ~Recorded /\ ~wasCancelled
    BY <1>4 DEF Verdict
  <2>2. ~wasCancelled => \A t \in Tasks : pc[t] # "unspawned" => outcome[t] # "none"
    BY DEF Finishing, Settled, Spawned
  <2>3. ~Recorded => \A t \in Tasks : pc[t] # "unspawned" => ~Failed(t)
    BY <1>5 DEF Traces
  <2> QED BY <1>5, <1>6, <2>1, <2>2, <2>3 DEF Failed
<1>11. Cancelled'
  BY DEF CancelWith, Cancelled
<1>12. Members' = Members
  BY DEF Members, Membership
<1>13. UNCHANGED <<cfg, Root \in open>>
  BY DEF joinVars
<1>14. v \in {"ok", "error", "panic"}
  BY <1>4
<1>15. Group!Justified(v)
  BY <1>7, <1>8, <1>9, <1>10, <1>14 DEF Group!Justified, Group!Left, Members
<1>16. Group!Decide(v)
  BY <1>1, <1>3, <1>11, <1>12, <1>13, <1>15 DEF Group!Decide, Group!LiveMembers, Members
<1> QED BY <1>14, <1>16

\* Every step of the scope is a step of the group or a stutter.
LEMMA StepSimulation == IInv /\ IInv' /\ [Next]_vars => [Group!Next]_(Group!gvars)
<1> SUFFICES ASSUME IInv, IInv', [Next]_vars PROVE [Group!Next]_(Group!gvars)
  OBVIOUS
<1> USE DEF finVars, joinVars
<1>1. ASSUME NEW t \in Tasks, Inner(t) PROVE [Group!Next]_(Group!gvars)
  BY <1>1, InnerStep, Stops DEF IInv
<1>2. ASSUME NEW sp \in Tasks \cup {Root}, NEW t \in Tasks, BeginTask(sp, t)
      PROVE  [Group!Next]_(Group!gvars)
  BY <1>2, Admission DEF Group!Next
<1>3. ASSUME NEW t \in Tasks, WgDone(t) PROVE [Group!Next]_(Group!gvars)
  BY <1>3, Departure DEF Group!Next
<1>4. ASSUME NEW t \in Tasks, Deactivate(t) PROVE [Group!Next]_(Group!gvars)
  <2>1. \A u \in Tasks : Membership(u)' = Membership(u)
    BY <1>4 DEF Deactivate, Goto, Membership, IInv, TypeOK, LivePC, Before, After, Deferred
  <2> QED BY <1>4, <2>1, Stops DEF Deactivate, Members, Cancelled
<1>5. CASE ParentCancel \/ UserCancel
  <2>1. UNCHANGED <<cfg, pc, open, outcome, phase, finErr, finPanic>>
    BY <1>5 DEF ParentCancel, UserCancel
  <2>2. ~Cancelled
    BY <1>5 DEF ParentCancel, UserCancel
  <2>3. Members' = Members
    BY <2>1 DEF Members, Membership
  <2> QED BY <2>1, <2>2, <2>3, Stops
<1>6. CASE EnterOnce
  <2>1. Group!ShutDoor
    BY <1>6 DEF EnterOnce, Group!ShutDoor, Membership, GroupVerdict, Cancelled, IInv, Doors
  <2> QED BY <2>1 DEF Group!Next
<1>7. CASE Settle
  BY <1>7, Decision DEF Group!Next
<1>8. CASE Join \/ (\E w \in Waiters : Return(w) \/ TimeOut(w)) \/ UNCHANGED vars
           \/ \E w \in Waiters, how \in {"wait", "timed", "run", "runpanic"} : Call(w, how)
  <2>1. UNCHANGED <<cfg, pc, open, outcome, cause, GroupVerdict>>
    BY <1>8 DEF Join, Call, Return, TimeOut, vars, GroupVerdict
  <2> QED BY <2>1 DEF Group!gvars, Membership, Cancelled
<1> QED
  BY <1>1, <1>2, <1>3, <1>4, <1>5, <1>6, <1>7, <1>8
  DEF Next, TaskStep, Inner, FinalizeStep, Terminated

\* ImplementsTaskGroup: the scope implements its abstract specification.
THEOREM Refinement == Spec => ImplementsTaskGroup
  BY InitGroup, Invariance, StepSimulation, PTL DEF Spec, ImplementsTaskGroup, Group!Spec

-----------------------------------------------------------------------------
(* Results on top of a scope: what a reader of a Result is told and what   *)
(* the callers of Wait are told do not contradict each other.  Every       *)
(* behaviour of Result is one of Scope, so IInv is at hand; what is added  *)
(* says how a Result and the task that owes it follow each other.          *)


Held == {"unset", "ok", "err", "panic"}

Shapes ==
    /\ value \in [Results -> Held]
    /\ got \in [Readers -> [of : Results \cup {NoTask}, value : Held]]
    /\ reads \in [Readers \cup Tasks -> Results \cup {NoTask}]

\* A Result is resolved while its task runs, or else as the task ended; and a task
\* that is past its function without a Result has never started it.
Follows(r) ==
    /\ value[r] # "unset" => pc[r] = "running" \/ outcome[r] = value[r]
    /\ outcome[r] # "none" => value[r] = outcome[r]
    /\ value[r] = "unset" /\ pc[r] \notin Before \cup {"unspawned"} =>
          events[r] \in {<<>>, <<"cancelled">>}

\* What a reader has been given is what the Result holds.
Told(x) == got[x].value # "unset" => got[x].of \in Results /\ value[got[x].of] = got[x].value

RInv ==
    /\ Shapes
    /\ \A r \in Results : Follows(r)
    /\ \A x \in Readers : Told(x)

\* Every step is a step of the scope, or leaves the scope as it is.
LEMMA RNextNext == [RNext]_rvars => [Next]_vars
<1>1. RNext => [Next]_vars
  BY DEF RNext, RBegin, Resolve, RFnEnds, FnEnds, StartReading, FinishReading, ScopeStep, Next
<1> QED BY <1>1 DEF rvars

\* A scope with Results is a scope.
LEMMA IsScope == RSpec => Spec
<1>1. RInit => Init
  BY DEF RInit
<1> QED BY <1>1, RNextNext, PTL DEF RSpec, Spec

\* At first nothing is resolved and nobody reads.
LEMMA InitRInv == RInit => RInv
<1> SUFFICES ASSUME RInit PROVE RInv
  OBVIOUS
<1>1. Shapes
  BY DEF RInit, Shapes, Held, Nothing
<1>2. \A r \in Results : r \in Tasks
  BY ResultAssumption, ScopeAssumption
<1>3. \A r \in Results : Follows(r)
  BY <1>2 DEF RInit, Init, Follows
<1>4. \A x \in Readers : Told(x)
  BY DEF RInit, Told, Nothing
<1> QED BY <1>1, <1>3, <1>4 DEF RInv

\* The steps of a task's own goroutine keep its Result in step with it.
LEMMA TaskStepFollows ==
    ASSUME IInv, NEW t \in Tasks, TaskStep(t), NEW r \in Results, r \in Tasks,
           Follows(r), value' = value
    PROVE  Follows(r)'
<1> USE DEF joinVars, slotVars, errVars, logVars, finVars, waitVars
<1>1. outcome' = outcome /\ pc[t] # "running" /\ \A u \in Tasks \ {t} : pc'[u] = pc[u]
  BY DEF TaskStep, Goto, IInv, TypeOK, Deactivate, Acquire, AbandonAdmission, SkipCancelled,
     Start, CancelOnPanic, CloseChild, EmitCompletion, RecordFirst, CancelSiblings, RecordLater,
     RecordCollect, Unregister, ReleaseSlot, WgDone
<1>2. \A u \in Tasks \ {t} : events'[u] = events[u]
  BY DEF TaskStep, IInv, TypeOK, Deactivate, Acquire, AbandonAdmission, SkipCancelled,
     Start, CancelOnPanic, CloseChild, EmitCompletion, RecordFirst, CancelSiblings, RecordLater,
     RecordCollect, Unregister, ReleaseSlot, WgDone
<1>3. CASE t # r
  BY <1>1, <1>2, <1>3 DEF Follows
<1>4. CASE t = r
  <2> USE <1>4
  <2>1. value[r] # "unset" => outcome[r] = value[r]
    BY <1>1 DEF Follows
  <2>2. CASE Acquire(r) \/ Start(r)
    <3>1. pc'[r] \in Before
      BY <2>2 DEF Acquire, Start, Goto, Before, IInv, TypeOK
    <3> QED BY <1>1, <2>1, <3>1 DEF Follows
  <2>3. CASE AbandonAdmission(r)
    <3>1. events'[r] = <<>>
      BY <2>3 DEF AbandonAdmission, Goto, IInv, Reports
    <3> QED BY <1>1, <2>1, <3>1 DEF Follows
  <2>4. CASE SkipCancelled(r)
    <3>1. events[r] = <<>> /\ events'[r] = Append(<<>>, "cancelled")
      BY <2>4 DEF SkipCancelled, Goto, IInv, Reports, TypeOK
    <3>2. events'[r] = <<"cancelled">>
      BY <3>1
    <3> QED BY <1>1, <2>1, <3>2 DEF Follows
  <2>5. CASE EmitCompletion(r)
    <3>1. value[r] # "unset"
      BY <2>5 DEF EmitCompletion, Goto, IInv, Progress, After, Follows, TypeOK
    <3> QED BY <1>1, <2>1, <3>1 DEF Follows
  <2>6. CASE \/ CancelOnPanic(r) \/ CloseChild(r) \/ RecordFirst(r) \/ CancelSiblings(r)
             \/ RecordLater(r) \/ RecordCollect(r) \/ Unregister(r) \/ ReleaseSlot(r)
             \/ WgDone(r) \/ Deactivate(r)
    <3>1. events' = events /\ pc[r] \notin Before \cup {"unspawned"}
      BY <2>6 DEF CancelOnPanic, CloseChild, RecordFirst, CancelSiblings, RecordLater,
         RecordCollect, Unregister, ReleaseSlot, WgDone, Deactivate, Goto, Before
    <3> QED BY <1>1, <2>1, <3>1 DEF Follows
  <2> QED BY <2>2, <2>3, <2>4, <2>5, <2>6 DEF TaskStep
<1> QED BY <1>3, <1>4

\* No other step of the scope that the Results have no part in touches a task.
LEMMA ScopeStepFollows ==
    ASSUME IInv, ScopeStep, NEW r \in Results, r \in Tasks, Follows(r)
    PROVE  Follows(r)'
<1>1. CASE \E t \in Tasks : TaskStep(t)
  BY <1>1, TaskStepFollows DEF ScopeStep
<1>2. CASE ~\E t \in Tasks : TaskStep(t)
  <2>1. UNCHANGED <<pc, outcome, events, value>>
    BY <1>2 DEF ScopeStep, ParentCancel, UserCancel, Call, FinalizeStep, EnterOnce, Join, Settle,
       Return, TimeOut, joinVars, slotVars, errVars, logVars, finVars, waitVars
  <2> QED BY <2>1 DEF Follows
<1> QED BY <1>1, <1>2

\* The steps that the Results have a part in.
LEMMA ResultStepFollows ==
    ASSUME IInv, RInv, NEW r \in Results, r \in Tasks,
           \/ \E sp \in Tasks \cup {Root}, t \in Tasks : RBegin(sp, t)
           \/ \E q \in Results, o \in {"ok", "err", "panic"} : Resolve(q, o)
           \/ \E t \in Tasks : RFnEnds(t)
           \/ \E x \in Readers \cup Tasks, q \in Results : StartReading(x, q)
           \/ \E x \in Readers \cup Tasks : FinishReading(x)
    PROVE  Follows(r)'
<1>0. Follows(r)
  BY DEF RInv
<1>1. ASSUME NEW sp \in Tasks \cup {Root}, NEW t \in Tasks, RBegin(sp, t) PROVE Follows(r)'
  <2>1. /\ UNCHANGED <<value, outcome, events>> /\ pc[t] = "unspawned" /\ pc'[t] = "admit"
        /\ \A u \in Tasks \ {t} : pc'[u] = pc[u]
    BY <1>1 DEF RBegin, BeginTask, Goto, IInv, TypeOK, logVars
  <2> QED BY <1>0, <2>1 DEF Follows, Before
<1>2. ASSUME NEW q \in Results, NEW o \in {"ok", "err", "panic"}, Resolve(q, o)
      PROVE  Follows(r)'
  <2>1. /\ UNCHANGED <<pc, outcome, events>> /\ pc[q] = "running"
        /\ value'[q] = o /\ \A s \in Results \ {q} : value'[s] = value[s]
    BY <1>2 DEF Resolve, Executing, vars, logVars, RInv, Shapes
  <2>2. r = q => outcome[r] = "none"
    BY <2>1 DEF IInv, Progress, Before
  <2> QED BY <1>0, <2>1, <2>2 DEF Follows
<1>3. ASSUME NEW t \in Tasks, RFnEnds(t) PROVE Follows(r)'
  <2>1. /\ UNCHANGED <<value, events>> /\ pc[t] = "running"
        /\ \A u \in Tasks \ {t} : pc'[u] = pc[u] /\ outcome'[u] = outcome[u]
        /\ outcome'[t] \in {"ok", "err", "panic"} /\ Ended(t, outcome'[t])
    BY <1>3 DEF RFnEnds, FnReturns, FnPanics, Goto, IInv, TypeOK, logVars
  <2> QED BY <1>0, <2>1 DEF Follows, Ended
<1>4. ASSUME NEW x \in Readers \cup Tasks,
             FinishReading(x) \/ \E q \in Results : StartReading(x, q)
      PROVE  Follows(r)'
  BY <1>0, <1>4 DEF FinishReading, StartReading, Follows, vars, logVars
<1> QED BY <1>1, <1>2, <1>3, <1>4

\* The shape of the Results and of what the readers were given.
LEMMA ReadersNext == IInv /\ RInv /\ [RNext]_rvars => Shapes' /\ \A x \in Readers : Told(x)'
<1> SUFFICES ASSUME IInv, RInv, [RNext]_rvars PROVE Shapes' /\ \A x \in Readers : Told(x)'
  OBVIOUS
<1> USE DEF RInv
<1>1. CASE UNCHANGED <<value, got, reads>>
  BY <1>1 DEF Shapes, Told
<1>2. ASSUME NEW q \in Results, NEW o \in {"ok", "err", "panic"}, Resolve(q, o)
      PROVE  Shapes' /\ \A x \in Readers : Told(x)'
  BY <1>2 DEF Resolve, Executing, Shapes, Held, Told
<1>3. ASSUME NEW x \in Readers \cup Tasks, NEW q \in Results, StartReading(x, q)
      PROVE  Shapes' /\ \A y \in Readers : Told(y)'
  BY <1>3 DEF StartReading, Shapes, Told
<1>4. ASSUME NEW x \in Readers \cup Tasks, FinishReading(x)
      PROVE  Shapes' /\ \A y \in Readers : Told(y)'
  <2>1. value' = value /\ reads[x] \in Results /\ value[reads[x]] \in Held
    BY <1>4, ScopeAssumption DEF FinishReading, Shapes
  <2>2. Shapes'
    BY <1>4, <2>1 DEF FinishReading, Shapes
  <2>3. ASSUME NEW y \in Readers PROVE Told(y)'
    <3>1. CASE got'[y] = got[y]
      BY <2>1, <3>1 DEF Told
    <3>2. CASE got'[y] # got[y]
      <4>1. got'[y] = [of |-> reads[x], value |-> value[reads[x]]]
        BY <1>4, <3>2 DEF FinishReading, Shapes
      <4> QED BY <2>1, <4>1 DEF Told
    <3> QED BY <3>1, <3>2
  <2> QED BY <2>2, <2>3
<1> QED BY <1>1, <1>2, <1>3, <1>4 DEF RNext, RBegin, RFnEnds, ScopeStep, rvars

\* The invariant is inductive, given that of the scope.
LEMMA NextRInv == IInv /\ RInv /\ [RNext]_rvars => RInv'
<1> SUFFICES ASSUME IInv, RInv, [RNext]_rvars PROVE RInv'
  OBVIOUS
<1>1. ASSUME NEW r \in Results PROVE Follows(r)'
  <2>1. r \in Tasks /\ Follows(r)
    BY ResultAssumption, ScopeAssumption DEF RInv
  <2>2. CASE UNCHANGED rvars
    BY <2>1, <2>2 DEF rvars, vars, logVars, Follows
  <2>3. CASE ScopeStep
    BY <2>1, <2>3, ScopeStepFollows
  <2> QED BY <2>1, <2>2, <2>3, ResultStepFollows DEF RNext
<1> QED BY <1>1, ReadersNext DEF RInv

\* Type correctness and the tie between Results and tasks, together with the
\* invariant of the scope.
THEOREM ResultInvariance == RSpec => [](IInv /\ RInv)
  BY IsScope, Invariance, InitRInv, NextRInv, PTL DEF RSpec

\* ReadersAndWaitersAgree: what a reader of a Result is told is how its task ends for the
\* scope, and no failure that a reader has heard of is concealed by Wait.
THEOREM Agree == RSpec => []ReadersAndWaitersAgree
<1>1. ASSUME IInv, RInv, NoSilentFailure, NEW x \in Readers, got[x].value # "unset"
      PROVE  /\ outcome[got[x].of] \in {"none", got[x].value}
             /\ got[x].value # "ok" => \A w \in Waiters : ret[w] # "nil"
  <2>1. PICK r \in Results : r = got[x].of /\ value[r] = got[x].value
    BY <1>1 DEF RInv, Told
  <2>2. r \in Tasks /\ Follows(r)
    BY ResultAssumption, ScopeAssumption, <1>1 DEF RInv
  <2>3. outcome[r] \in {"none", value[r]}
    BY <2>2 DEF Follows
  <2>4. ASSUME got[x].value # "ok", NEW w \in Waiters, ret[w] = "nil" PROVE FALSE
    <3>0. value[r] \in {"err", "panic"}
      BY <1>1, <2>1, <2>4 DEF RInv, Shapes, Held
    <3>1. r \in Spawned
      BY <1>1, <2>2, <3>0 DEF Follows, IInv, Progress, Spawned
    <3>2. outcome[r] = "ok"
      BY <1>1, <2>4, <3>1 DEF NoSilentFailure
    <3> QED BY <2>2, <3>0, <3>2 DEF Follows
  <2> QED BY <2>1, <2>3, <2>4
<1>2. IInv /\ RInv /\ NoSilentFailure => ReadersAndWaitersAgree
  BY <1>1 DEF ReadersAndWaitersAgree
<1> QED BY <1>2, IsScope, ResultInvariance, NotSilent, PTL

\* ResolvedByJoin: after the join an unresolved Result is that of a task that was
\* skipped, and Wait says so.
THEOREM Resolved == RSpec => []ResolvedByJoin
<1>1. ASSUME IInv, RInv, NoSilentFailure, Settled, NEW r \in Results,
             pc[r] # "unspawned", value[r] = "unset"
      PROVE  events[r] \in {<<>>, <<"cancelled">>} /\ \A w \in Waiters : ret[w] # "nil"
  <2>1. r \in Tasks /\ Follows(r)
    BY ResultAssumption, ScopeAssumption, <1>1 DEF RInv
  <2>2. pc[r] \notin Before
    BY <1>1, <2>1 DEF IInv, Doors, Live, At, LivePC
  <2>3. r \in Spawned /\ outcome[r] # "ok"
    BY <1>1, <2>1 DEF Spawned, Follows
  <2> QED BY <1>1, <2>1, <2>2, <2>3 DEF Follows, NoSilentFailure
<1>2. IInv /\ RInv /\ NoSilentFailure => ResolvedByJoin
  BY <1>1 DEF ResolvedByJoin
<1> QED BY <1>2, IsScope, ResultInvariance, NotSilent, PTL
=============================================================================
