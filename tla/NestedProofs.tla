---------------------------- MODULE NestedProofs ----------------------------
(***************************************************************************)
(* Proofs about a scope inside a task of another, for any tasks and any    *)
(* pair of configurations: each of the two is a TaskGroup and one encloses *)
(* the other; a panic or a failure below is heard above, and what is heard *)
(* comes from a failure.                                                   *)
(***************************************************************************)
EXTENDS Nested, SequenceTheorems, TLAPS

Stages == {"new", "spawned", "running", "ended", "leaving", "left"}

Past(t)     == task[t] \in {"leaving", "left"}
Bad(t)      == how[t].kind \notin {"none", "nil"}
Panicked(s) == {t \in In(s) : Past(t) /\ how[t].kind = "panic" /\ ~PanicAsErr(s)}
Failing(s)  == {t \in In(s) : Past(t) /\ Bad(t)} \ Panicked(s)
Failures(s) == {TaskError(t, how[t]) : t \in Failing(s)}
Panics(s)   == {how[t] : t \in Panicked(s)}

\* What the variables hold: in particular, what a scope has recorded are the ends of
\* its tasks.
Shapes ==
    /\ cfg \in Config
    /\ task \in [Tasks -> Stages]
    /\ how = [t \in Tasks |-> how[t]]
    /\ userCancelled \in BOOLEAN /\ expired \in BOOLEAN
    /\ cancelled \in [Scopes -> BOOLEAN] /\ shut \in [Scopes -> BOOLEAN]
    /\ fell \in [Scopes -> BOOLEAN]
    /\ errs = [s \in Scopes |-> errs[s]] /\ panics = [s \in Scopes |-> panics[s]]
    /\ verdict = [s \in Scopes |-> verdict[s]]
    /\ \A s \in Scopes : errs[s] \in Seq(Failures(s)) /\ panics[s] \in Seq(Panics(s))

\* How the functions end; that of Host does when the inner Run does.
Endings ==
    /\ \A t \in Tasks :
        /\ t # Host => how[t] \in {NotYet, Nil, Ctx, FnError(t), FnPanic(t)}
        /\ task[t] \in {"new", "spawned", "running"} => how[t] = NotYet
        /\ task[t] \in {"ended", "leaving"} => how[t] # NotYet
    /\ verdict["inner"] = NotYet => how[Host] = NotYet
    /\ verdict["inner"] # NotYet =>
        /\ task[Host] \in {"ended", "leaving", "left"}
        /\ IF verdict["inner"].kind = "panic" THEN how[Host].kind = "panic"
                                              ELSE how[Host] = verdict["inner"]

\* The inner scope begins and ends within the function of Host.
Inside ==
    /\ InnerWithinOuter
    /\ verdict["inner"] # NotYet => \A t \in InnerLeaves : ~Live(t)
    /\ fell["inner"] \/ (\E t \in InnerLeaves : task[t] # "new") =>
          task[Host] = "running" \/ verdict["inner"] # NotYet

\* A verdict is made of what was recorded, and that of an ended context of an end
\* from without.
Verdicts ==
    \A s \in Scopes : verdict[s] # NotYet =>
        /\ shut[s] /\ cancelled[s]
        /\ fell[s] => verdict[s] = FnPanic(s)
        /\ ~fell[s] /\ panics[s] # <<>> => verdict[s] = panics[s][1]
        /\ ~fell[s] /\ panics[s] = <<>> /\ errs[s] # <<>> =>
             verdict[s] = IF Policy(s) = "FailFast" THEN errs[s][1] ELSE Join(errs[s])
        /\ ~fell[s] /\ panics[s] = <<>> /\ errs[s] = <<>> =>
             \/ verdict[s] = Nil
             \/ /\ verdict[s] = Ctx
                /\ userCancelled \/ (s = "inner" /\ (expired \/ cancelled["outer"]))

\* What a task leaves behind in its scope.
Traces ==
    \A s \in Scopes :
        /\ errs[s] # <<>> /\ Policy(s) = "FailFast" => cancelled[s]
        /\ panics[s] # <<>> => cancelled[s]
        /\ \A t \in In(s) :
            /\ task[t] = "left" /\ how[t] = NotYet => Done(s)
            /\ t \in Panicked(s) => panics[s] # <<>>
            /\ t \in Failing(s) =>
                /\ errs[s] # <<>>
                /\ Policy(s) = "Collect" => \E k \in DOMAIN errs[s] : errs[s][k] = TaskError(t, how[t])

\* The function of t failed or panicked, or, for Host, such a one is below.
Wrong(e) == e.kind \in {"fn", "panic"}
Cause(t) == IF t = Host THEN \E e \in Unwrap(Unwrap({how[t]})) : Wrong(e) ELSE Wrong(how[t])

\* A scope is cancelled from within only for a recorded panic or failure, and the
\* first that is recorded was not cancelled for another.
Blame ==
    /\ \A s \in Scopes : cancelled[s] /\ verdict[s] = NotYet =>
          panics[s] # <<>> \/ (Policy(s) = "FailFast" /\ errs[s] # <<>>)
    /\ ~userCancelled /\ ~expired =>
        /\ \A t \in Tasks : Bad(t) => Cause(t) \/ cancelled[ScopeOf(t)] \/ cancelled["outer"]
        /\ \A s \in Scopes : panics[s] = <<>> /\ errs[s] # <<>> /\ (s = "inner" => ~cancelled["outer"]) =>
              \E t \in Failing(s) : errs[s][1] = TaskError(t, how[t]) /\ Cause(t)

IInv == Shapes /\ Endings /\ Inside /\ Verdicts /\ Traces /\ Blame

-----------------------------------------------------------------------------
(* Errors, tasks and sequences *)

\* Errors of different kinds differ.
LEMMA KindsOf ==
    /\ NotYet.kind = "none" /\ Nil.kind = "nil" /\ Ctx.kind = "ctx"
    /\ \A t : FnError(t).kind = "fn" /\ FnPanic(t).kind = "panic"
    /\ \A t, e : TaskError(t, e).kind = "task" /\ TaskError(t, e).of = <<e>>
    /\ \A es : Join(es).kind = "join" /\ Join(es).of = es /\ PanicError(es).kind = "panic"
  BY DEF NotYet, Nil, Ctx, FnError, FnPanic, TaskError, Join, PanicError, Error

\* Every task is in one scope.
LEMMA Belonging ==
    /\ \A t \in Tasks : ScopeOf(t) \in Scopes /\ t \in In(ScopeOf(t))
    /\ \A s \in Scopes : \A t \in In(s) : t \in Tasks /\ ScopeOf(t) = s
    /\ Host \in In("outer") /\ ScopeOf(Host) = "outer" /\ Host \in Tasks
    /\ In("inner") = InnerLeaves /\ Host \notin InnerLeaves /\ InnerLeaves \subseteq Tasks
    /\ \A t \in InnerLeaves : ScopeOf(t) = "inner"
    /\ Scopes = {"outer", "inner"}
  BY NestedAssumption DEF Tasks, Scopes, ScopeOf, In

\* A sequence over a set is one over any larger set.
LEMMA Widen == ASSUME NEW A, NEW B, A \subseteq B, NEW q \in Seq(A) PROVE q \in Seq(B)
  OBVIOUS

\* The first element of a sequence, and the last of one that grows.
LEMMA Ends1 ==
    ASSUME NEW A, NEW q \in Seq(A)
    PROVE  /\ q # <<>> => 1 \in DOMAIN q /\ q[1] \in A /\ Head(q) = q[1]
           /\ \A k \in DOMAIN q : q[k] \in A
           /\ \A x \in A : /\ Append(q, x) \in Seq(A) /\ Append(q, x) # <<>>
                           /\ q # <<>> => Append(q, x)[1] = q[1]
                           /\ q = <<>> => Append(q, x)[1] = x
                           /\ \E k \in DOMAIN Append(q, x) : Append(q, x)[k] = x
                           /\ \A k \in DOMAIN q : k \in DOMAIN Append(q, x) /\ Append(q, x)[k] = q[k]
<1>1. q # <<>> => 1 \in DOMAIN q /\ q[1] \in A /\ Head(q) = q[1]
  BY EmptySeq
<1>2. \A k \in DOMAIN q : q[k] \in A
  OBVIOUS
<1>3. ASSUME NEW x \in A
      PROVE  /\ Append(q, x) \in Seq(A) /\ Append(q, x) # <<>>
             /\ q # <<>> => Append(q, x)[1] = q[1]
             /\ q = <<>> => Append(q, x)[1] = x
             /\ \E k \in DOMAIN Append(q, x) : Append(q, x)[k] = x
             /\ \A k \in DOMAIN q : k \in DOMAIN Append(q, x) /\ Append(q, x)[k] = q[k]
  <2>1. /\ Append(q, x) \in Seq(A) /\ Len(Append(q, x)) = Len(q) + 1 /\ Len(q) \in Nat
        /\ DOMAIN Append(q, x) = 1 .. Len(q) + 1 /\ DOMAIN q = 1 .. Len(q)
        /\ Append(q, x)[Len(q) + 1] = x
        /\ \A k \in 1 .. Len(q) : Append(q, x)[k] = q[k]
    OBVIOUS
  <2>2. q = <<>> <=> Len(q) = 0
    BY EmptySeq
  <2>3. Append(q, x) # <<>>
    BY <2>1, EmptySeq
  <2>4. Len(q) + 1 \in DOMAIN Append(q, x)
    BY <2>1
  <2> QED BY <2>1, <2>2, <2>3, <2>4
<1> QED BY <1>1, <1>2, <1>3

-----------------------------------------------------------------------------
(* What every step does *)

\* A task that has ended stays as it is, a scope that has a verdict keeps it and all
\* that it is made of, and nothing is taken back.
KeptScopes ==
    /\ cfg' = cfg
    /\ userCancelled => userCancelled'
    /\ expired => expired'
    /\ \A s \in Scopes : /\ cancelled[s] => cancelled'[s]
                         /\ shut[s] => shut'[s]

KeptTasks ==
    \A t \in Tasks : /\ task[t] # "running" => how'[t] = how[t]
                     /\ task[t] # "new" => task'[t] # "new"
                     /\ task[t] \in {"leaving", "left"} => task'[t] \in {"leaving", "left"}
                     /\ task[t] = "left" => task'[t] = "left"

KeptVerdicts ==
    \A s \in Scopes : verdict[s] # NotYet =>
          /\ verdict'[s] = verdict[s] /\ errs'[s] = errs[s] /\ panics'[s] = panics[s]
          /\ fell'[s] = fell[s] /\ cancelled'[s] = cancelled[s]
          /\ \A t \in In(s) : task'[t] = task[t] /\ how'[t] = how[t]

Kept == KeptScopes /\ KeptTasks /\ KeptVerdicts

\* The kind of an error tells the ends that are none and the ends without an error.
LEMMA HowKinds ==
    ASSUME Shapes, Endings, Verdicts, NEW t \in Tasks
    PROVE  /\ how[t].kind = "none" <=> how[t] = NotYet
           /\ how[t].kind = "nil" <=> how[t] = Nil
<1>1. CASE t # Host
  BY <1>1, KindsOf DEF Endings
<1>2. CASE t = Host
  <2>1. CASE verdict["inner"] = NotYet
    BY <1>2, <2>1, KindsOf DEF Endings
  <2>2. CASE verdict["inner"] # NotYet /\ verdict["inner"].kind = "panic"
    BY <1>2, <2>2, KindsOf DEF Endings
  <2>3. CASE verdict["inner"] # NotYet /\ verdict["inner"].kind # "panic"
    <3>1. how[Host] = verdict["inner"] /\ "inner" \in Scopes
      BY <2>3, Belonging DEF Endings
    <3>2. \A e \in Failures("inner") : e.kind = "task"
      BY KindsOf DEF Failures
    <3>3. \A e \in Panics("inner") : e.kind = "panic"
      BY DEF Panics, Panicked
    <3>4. /\ errs["inner"] # <<>> => errs["inner"][1] \in Failures("inner")
          /\ panics["inner"] # <<>> => panics["inner"][1] \in Panics("inner")
      BY <3>1, Ends1 DEF Shapes
    <3>5. CASE errs["inner"] # <<>> /\ panics["inner"] = <<>> /\ ~fell["inner"]
      <4>1. verdict["inner"] \in {errs["inner"][1], Join(errs["inner"])}
        BY <2>3, <3>1, <3>5 DEF Verdicts
      <4> QED BY <1>2, <3>1, <3>2, <3>4, <3>5, <4>1, KindsOf
    <3>6. CASE errs["inner"] = <<>> /\ panics["inner"] = <<>> /\ ~fell["inner"]
      <4>1. verdict["inner"] \in {Nil, Ctx}
        BY <2>3, <3>1, <3>6 DEF Verdicts
      <4> QED BY <1>2, <3>1, <4>1, KindsOf
    <3>7. fell["inner"] \in BOOLEAN /\ (fell["inner"] \/ panics["inner"] # <<>> => verdict["inner"].kind = "panic")
      BY <2>3, <3>1, <3>3, <3>4, KindsOf DEF Verdicts, Shapes
    <3> QED BY <2>3, <3>5, <3>6, <3>7
  <2> QED BY <2>1, <2>2, <2>3
<1> QED BY <1>1, <1>2

\* What Record does, in its three cases.
LEMMA Recording ==
    ASSUME Shapes, Endings, Verdicts, NEW t \in Tasks, Record(t)
    PROVE  LET s == ScopeOf(t) IN
           /\ task[t] = "ended" /\ task' = [task EXCEPT ![t] = "leaving"]
           /\ UNCHANGED <<cfg, how, userCancelled, expired, shut, fell, verdict>>
           /\ \/ how[t].kind = "nil" /\ UNCHANGED <<errs, cancelled, panics>>
              \/ /\ how[t].kind = "panic" /\ ~PanicAsErr(s)
                 /\ panics' = [panics EXCEPT ![s] = Append(@, how[t])]
                 /\ cancelled' = [cancelled EXCEPT ![s] = TRUE] /\ errs' = errs
              \/ /\ Bad(t) /\ ~(how[t].kind = "panic" /\ ~PanicAsErr(s)) /\ panics' = panics
                 /\ \/ /\ Policy(s) = "FailFast" /\ errs[s] # <<>> /\ UNCHANGED <<errs, cancelled>>
                    \/ /\ Policy(s) = "Collect" \/ errs[s] = <<>>
                       /\ errs' = [errs EXCEPT ![s] = Append(@, TaskError(t, how[t]))]
                       /\ \/ Policy(s) = "Collect" /\ cancelled' = cancelled
                          \/ /\ Policy(s) = "FailFast"
                             /\ cancelled' = [cancelled EXCEPT ![s] = TRUE]
<1> DEFINE s == ScopeOf(t)
<1>1. /\ task[t] = "ended" /\ task' = [task EXCEPT ![t] = "leaving"]
      /\ UNCHANGED <<cfg, how, userCancelled, expired, shut, fell, verdict>>
  BY DEF Record
<1>2. /\ s \in Scopes /\ Policy(s) \in {"FailFast", "Collect"}
      /\ how[t] # NotYet
  BY <1>1, Belonging DEF Shapes, Endings, Config, Options, Policy, Scopes
<1>3. how[t].kind # "none" /\ (how[t].kind = "nil" <=> how[t] = Nil)
  BY <1>2, HowKinds
<1>4. CASE how[t] = Nil
  BY <1>1, <1>3, <1>4 DEF Record
<1>5. CASE how[t] # Nil /\ how[t].kind = "panic" /\ ~PanicAsErr(s)
  BY <1>1, <1>5 DEF Record
<1>6. CASE how[t] # Nil /\ ~(how[t].kind = "panic" /\ ~PanicAsErr(s))
  <2>1. recordError(s, TaskError(t, how[t])) /\ panics' = panics
    BY <1>6 DEF Record
  <2>2. cancelled' = [cancelled EXCEPT ![s] = TRUE] \/ cancelled' = cancelled
    BY <2>1 DEF recordError
  <2>3. errs[s] = <<>> => Append(errs[s], TaskError(t, how[t])) = <<TaskError(t, how[t])>>
    OBVIOUS
  <2> QED BY <1>1, <1>2, <1>3, <1>6, <2>1, <2>3 DEF recordError, Bad
<1> QED BY <1>1, <1>4, <1>5, <1>6

\* The same, of one scope.
LEMMA RecordAt ==
    ASSUME Shapes, Endings, Verdicts, NEW t \in Tasks, Record(t), NEW s \in Scopes
    PROVE  \/ /\ errs'[s] = errs[s] /\ panics'[s] = panics[s] /\ cancelled'[s] = cancelled[s]
              /\ \/ s # ScopeOf(t) \/ how[t].kind = "nil"
                 \/ /\ Bad(t) /\ ~(how[t].kind = "panic" /\ ~PanicAsErr(s))
                    /\ Policy(s) = "FailFast" /\ errs[s] # <<>>
           \/ /\ s = ScopeOf(t) /\ how[t].kind = "panic" /\ ~PanicAsErr(s)
              /\ panics'[s] = Append(panics[s], how[t]) /\ cancelled'[s] = TRUE /\ errs'[s] = errs[s]
           \/ /\ s = ScopeOf(t) /\ Bad(t) /\ ~(how[t].kind = "panic" /\ ~PanicAsErr(s)) /\ panics'[s] = panics[s]
              /\ Policy(s) = "Collect" \/ errs[s] = <<>>
              /\ errs'[s] = Append(errs[s], TaskError(t, how[t]))
              /\ \/ Policy(s) = "Collect" /\ cancelled'[s] = cancelled[s]
                 \/ Policy(s) = "FailFast" /\ cancelled'[s] = TRUE
<1> DEFINE r == ScopeOf(t)
<1> HIDE DEF r
<1>0. r = ScopeOf(t) /\ r \in Scopes
  BY Belonging DEF r
<1>1. CASE how[t].kind = "nil" /\ UNCHANGED <<errs, cancelled, panics>>
  BY <1>1
<1>2. CASE /\ how[t].kind = "panic" /\ ~PanicAsErr(r)
           /\ panics' = [panics EXCEPT ![r] = Append(@, how[t])]
           /\ cancelled' = [cancelled EXCEPT ![r] = TRUE] /\ errs' = errs
  BY <1>0, <1>2 DEF Shapes
<1>3. CASE /\ Bad(t) /\ ~(how[t].kind = "panic" /\ ~PanicAsErr(r)) /\ panics' = panics
           /\ Policy(r) = "FailFast" /\ errs[r] # <<>> /\ UNCHANGED <<errs, cancelled>>
  BY <1>0, <1>3
<1>4. CASE /\ Bad(t) /\ ~(how[t].kind = "panic" /\ ~PanicAsErr(r)) /\ panics' = panics
           /\ Policy(r) = "Collect" \/ errs[r] = <<>>
           /\ errs' = [errs EXCEPT ![r] = Append(@, TaskError(t, how[t]))]
           /\ \/ Policy(r) = "Collect" /\ cancelled' = cancelled
              \/ Policy(r) = "FailFast" /\ cancelled' = [cancelled EXCEPT ![r] = TRUE]
  BY <1>0, <1>4 DEF Shapes
<1> QED BY <1>1, <1>2, <1>3, <1>4, Recording DEF r

\* Every step keeps what is past.
LEMMA KeptNext == ASSUME Shapes, Inside, [Next]_vars PROVE Kept
<1>0. \A t \in Tasks, s \in Scopes : verdict[s] # NotYet /\ t \in In(s) => ~Live(t)
  BY Belonging DEF Inside, InnerWithinOuter
<1>1. CASE UNCHANGED vars
  BY <1>1 DEF vars, Kept, KeptScopes, KeptTasks, KeptVerdicts
\* A step of one task, that changes nothing but this task.
<1>2. ASSUME NEW t \in Tasks, NEW x \in Stages \ {"new"}, task' = [task EXCEPT ![t] = x],
             \A s \in Scopes : verdict[s] # NotYet => t \notin In(s),
             task[t] \in {"leaving", "left"} => x = "left",
             \A u \in Tasks : how'[u] = how[u] \/ (u = t /\ task[t] = "running")
      PROVE  KeptTasks /\ \A s \in Scopes : verdict[s] # NotYet =>
                              \A u \in In(s) : task'[u] = task[u] /\ how'[u] = how[u]
  <2>1. \A u \in Tasks : task'[u] = IF u = t THEN x ELSE task[u]
    BY <1>2 DEF Shapes
  <2>2. KeptTasks
    BY <1>2, <2>1 DEF KeptTasks, Stages
  <2>3. \A s \in Scopes : verdict[s] # NotYet => \A u \in In(s) : u \in Tasks /\ u # t
    BY <1>2, Belonging
  <2> QED BY <1>2, <2>1, <2>2, <2>3
<1>3. ASSUME NEW t \in Tasks, Spawn(t) \/ Start(t) \/ Leave(t) \/ FnEnds(t)
      PROVE  Kept
  <2>1. /\ UNCHANGED <<cfg, userCancelled, expired, cancelled, shut, fell, errs, panics, verdict>>
    BY <1>3 DEF Spawn, Start, Leave, FnEnds
  <2>2. \A s \in Scopes : verdict[s] # NotYet => t \notin In(s)
    <3>1. Spawn(t) => verdict[ScopeOf(t)] = NotYet
      BY DEF Spawn, Exists
    <3>2. ~Spawn(t) => Live(t)
      BY <1>3 DEF Start, Leave, FnEnds, Ends, Live
    <3> QED BY <3>1, <3>2, <1>0, Belonging
  <2>3. KeptTasks /\ \A s \in Scopes : verdict[s] # NotYet =>
                           \A u \in In(s) : task'[u] = task[u] /\ how'[u] = how[u]
    <3>1. CASE FnEnds(t)
      <4>1. /\ task[t] = "running" /\ task' = [task EXCEPT ![t] = "ended"]
            /\ \E e : how' = [how EXCEPT ![t] = e]
        BY <3>1 DEF FnEnds, Ends
      <4> QED BY <4>1, <2>2, <1>2 DEF Shapes, Stages
    <3>2. CASE ~FnEnds(t)
      BY <3>2, <1>3, <2>2, <1>2 DEF Spawn, Start, Leave, Stages
    <3> QED BY <3>1, <3>2
  <2> QED BY <2>1, <2>3 DEF Kept, KeptScopes, KeptVerdicts
<1>4. ASSUME NEW t \in Tasks, Record(t) PROVE Kept
  <2>1. /\ task[t] = "ended" /\ task' = [task EXCEPT ![t] = "leaving"]
        /\ UNCHANGED <<cfg, how, userCancelled, expired, shut, fell, verdict>>
    BY <1>4 DEF Record
  <2>2. \A s \in Scopes : verdict[s] # NotYet => t \notin In(s)
    BY <2>1, <1>0, Belonging DEF Live
  <2>3. \A s \in Scopes : /\ cancelled[s] => cancelled'[s]
                          /\ s # ScopeOf(t) => cancelled'[s] = cancelled[s] /\ errs'[s] = errs[s] /\ panics'[s] = panics[s]
    BY <1>4 DEF Record, recordError, Shapes
  <2>4. KeptScopes
    BY <2>1, <2>3 DEF KeptScopes
  <2>5. KeptTasks /\ \A s \in Scopes : verdict[s] # NotYet =>
                           \A u \in In(s) : task'[u] = task[u] /\ how'[u] = how[u]
    BY <2>1, <2>2, <1>2 DEF Stages
  <2>6. \A s \in Scopes : verdict[s] # NotYet => s # ScopeOf(t)
    BY <2>2, Belonging
  <2>7. KeptVerdicts
    BY <2>1, <2>3, <2>5, <2>6 DEF KeptVerdicts
  <2> QED BY <2>4, <2>5, <2>7 DEF Kept
<1>5. ASSUME NEW s \in Scopes, Shut(s) PROVE Kept
  <2>1. /\ verdict[s] = NotYet
        /\ \A r \in Scopes : shut[r] => shut'[r]
        /\ \A r \in Scopes : r # s => fell'[r] = fell[r]
        /\ UNCHANGED <<cfg, task, how, userCancelled, expired, cancelled, errs, panics, verdict>>
    BY <1>5 DEF Shut, Exists, Shapes
  <2>2. KeptScopes
    BY <2>1 DEF KeptScopes
  <2>3. KeptTasks
    BY <2>1 DEF KeptTasks
  <2>4. KeptVerdicts
    BY <2>1 DEF KeptVerdicts
  <2> QED BY <2>2, <2>3, <2>4 DEF Kept
<1>6. ASSUME NEW s \in Scopes, Finalize(s) PROVE Kept
  <2>1. /\ verdict[s] = NotYet /\ \A r \in Scopes : r # s => verdict'[r] = verdict[r]
        /\ \A r \in Scopes : r # s => cancelled'[r] = cancelled[r]
        /\ cancelled'[s] = TRUE
        /\ UNCHANGED <<cfg, userCancelled, expired, shut, fell, errs, panics>>
    BY <1>6 DEF Finalize, Exists, Shapes
  <2>2. KeptScopes
    BY <2>1 DEF KeptScopes
  <2>3. KeptTasks /\ \A r \in Scopes : verdict[r] # NotYet =>
                           \A u \in In(r) : task'[u] = task[u] /\ how'[u] = how[u]
    <3>1. CASE s = "inner"
      <4>1. /\ task[Host] = "running" /\ task' = [task EXCEPT ![Host] = "ended"]
            /\ \E e : how' = [how EXCEPT ![Host] = e]
        BY <1>6, <3>1 DEF Finalize, Exists, Ends
      <4>2. \A r \in Scopes : verdict[r] # NotYet => Host \notin In(r)
        BY <4>1, <1>0, Belonging DEF Live
      <4>3. \A u \in Tasks : how'[u] = how[u] \/ (u = Host /\ task[Host] = "running")
        BY <4>1 DEF Shapes
      <4> QED BY <4>1, <4>2, <4>3, <1>2, Belonging DEF Stages
    <3>2. CASE s # "inner"
      <4>1. UNCHANGED <<task, how>>
        BY <1>6, <3>2 DEF Finalize
      <4> QED BY <4>1 DEF KeptTasks
    <3> QED BY <3>1, <3>2
  <2>4. KeptVerdicts
    BY <2>1, <2>3 DEF KeptVerdicts
  <2> QED BY <2>2, <2>3, <2>4 DEF Kept
<1>7. CASE UserCancel
  BY <1>7 DEF UserCancel, Kept, KeptScopes, KeptTasks, KeptVerdicts
<1>8. CASE Expire
  BY <1>8 DEF Expire, Kept, KeptScopes, KeptTasks, KeptVerdicts
<1> QED BY <1>1, <1>3, <1>4, <1>5, <1>6, <1>7, <1>8 DEF Next, TaskStep

\* Only Record makes a task one that counts, and writes down what it counts for.
LEMMA OnlyRecord ==
    ASSUME Shapes, Endings, Kept, [Next]_vars, \A t \in Tasks : ~Record(t)
    PROVE  /\ errs' = errs /\ panics' = panics
           /\ \A s \in Scopes : Failing(s)' = Failing(s) /\ Panicked(s)' = Panicked(s)
<1>1. /\ errs' = errs /\ panics' = panics
      /\ \A u \in Tasks : task'[u] \in {"leaving", "left"} =>
            task[u] \in {"leaving", "left"} \/ (how[u] = NotYet /\ task[u] = "spawned")
  <2>1. CASE UNCHANGED vars
    BY <2>1 DEF vars
  <2>2. ASSUME NEW t \in Tasks, Spawn(t) \/ Start(t) \/ Leave(t) \/ FnEnds(t)
        PROVE  <1>1!1 /\ <1>1!2
    <3>1. UNCHANGED <<errs, panics>>
      BY <2>2 DEF Spawn, Start, Leave, FnEnds
    <3>2. /\ task' = [task EXCEPT ![t] = task'[t]]
          /\ task'[t] \in {"leaving", "left"} => task[t] = "leaving" \/ (how[t] = NotYet /\ task[t] = "spawned")
      BY <2>2 DEF Spawn, Start, Leave, FnEnds, Ends, Shapes, Endings
    <3> QED BY <3>1, <3>2 DEF Shapes
  <2>3. ASSUME NEW s \in Scopes, Shut(s)
        PROVE  <1>1!1 /\ <1>1!2
    BY <2>3 DEF Shut
  <2>4. ASSUME NEW s \in Scopes, Finalize(s)
        PROVE  <1>1!1 /\ <1>1!2
    BY <2>4, Belonging DEF Finalize, Ends, Shapes
  <2>5. CASE UserCancel
    BY <2>5 DEF UserCancel
  <2>6. CASE Expire
    BY <2>6 DEF Expire
  <2> QED BY <2>1, <2>2, <2>3, <2>4, <2>5, <2>6 DEF Next, TaskStep
<1>2. ASSUME NEW s \in Scopes, NEW t \in In(s)
      PROVE  (t \in Failing(s)' <=> t \in Failing(s)) /\ (t \in Panicked(s)' <=> t \in Panicked(s))
  <2>1. t \in Tasks /\ cfg' = cfg
    BY Belonging DEF Kept, KeptScopes
  <2>2. CASE Past(t)
    <3>1. Past(t)' /\ how'[t] = how[t]
      BY <2>1, <2>2 DEF Kept, KeptTasks, Past
    <3> QED BY <2>1, <2>2, <3>1 DEF Failing, Panicked, Bad, In, PanicAsErr
  <2>3. CASE ~Past(t)
    <3>1. Past(t)' => how'[t] = NotYet
      BY <1>1, <2>1, <2>3 DEF Kept, KeptTasks, Past
    <3>2. t \notin Failing(s)' /\ t \notin Panicked(s)'
      BY <3>1, KindsOf DEF Failing, Panicked, Bad
    <3> QED BY <2>3, <3>2 DEF Failing, Panicked
  <2> QED BY <2>2, <2>3
<1>3. \A s \in Scopes : /\ Failing(s) \subseteq In(s) /\ Failing(s)' \subseteq In(s)
                        /\ Panicked(s) \subseteq In(s) /\ Panicked(s)' \subseteq In(s)
  BY DEF Failing, Panicked, In
<1> QED BY <1>1, <1>2, <1>3

\* Record makes one task count.
LEMMA RecordOne ==
    ASSUME Shapes, Kept, NEW t \in Tasks, Record(t)
    PROVE  LET s == ScopeOf(t) IN
           /\ \A r \in Scopes \ {s} : Failing(r)' = Failing(r) /\ Panicked(r)' = Panicked(r)
           /\ Panicked(s)' = Panicked(s) \cup (IF how[t].kind = "panic" /\ ~PanicAsErr(s) THEN {t} ELSE {})
           /\ Failing(s)' = Failing(s) \cup (IF Bad(t) /\ ~(how[t].kind = "panic" /\ ~PanicAsErr(s)) THEN {t} ELSE {})
<1>1. /\ task[t] = "ended" /\ task' = [task EXCEPT ![t] = "leaving"]
      /\ how' = how /\ cfg' = cfg
  BY DEF Record
<1>2. \A u \in Tasks : /\ Past(u)' <=> Past(u) \/ u = t
                       /\ u = t => ~Past(u)
  BY <1>1 DEF Shapes, Past
<1>3. ASSUME NEW s \in Scopes, NEW u \in In(s)
      PROVE  /\ u \in Panicked(s)' <=> u \in Panicked(s) \/ (u = t /\ how[t].kind = "panic" /\ ~PanicAsErr(s))
             /\ u \in Failing(s)' <=> u \in Failing(s) \/ (u = t /\ Bad(t) /\ ~(how[t].kind = "panic" /\ ~PanicAsErr(s)))
  BY <1>1, <1>2, Belonging DEF Failing, Panicked, Bad, In, PanicAsErr
<1>4. \A s \in Scopes : /\ Failing(s) \subseteq In(s) /\ Failing(s)' \subseteq In(s)
                        /\ Panicked(s) \subseteq In(s) /\ Panicked(s)' \subseteq In(s)
                        /\ t \in In(s) <=> s = ScopeOf(t)
  BY Belonging DEF Failing, Panicked, In
<1> QED BY <1>3, <1>4, Belonging

\* What counts goes on counting, as what it was.
LEMMA Monotone ==
    ASSUME Shapes, Kept, NEW s \in Scopes
    PROVE  /\ Failing(s) \subseteq Failing(s)' /\ Panicked(s) \subseteq Panicked(s)'
           /\ \A t \in Failing(s) \cup Panicked(s) : how'[t] = how[t]
           /\ Failures(s) \subseteq Failures(s)' /\ Panics(s) \subseteq Panics(s)'
<1>1. \A t \in In(s) : Past(t) => Past(t)' /\ how'[t] = how[t]
  BY Belonging DEF Kept, KeptTasks, Past
<1>2. cfg' = cfg
  BY DEF Kept, KeptScopes
<1>3. ASSUME NEW t \in In(s), Past(t)
      PROVE  /\ t \in Failing(s) => t \in Failing(s)'
             /\ t \in Panicked(s) => t \in Panicked(s)'
             /\ how'[t] = how[t]
  BY <1>1, <1>2, <1>3 DEF Failing, Panicked, Bad, In, PanicAsErr
<1>4. \A t \in Failing(s) \cup Panicked(s) : t \in In(s) /\ Past(t)
  BY DEF Failing, Panicked
<1>5. Failing(s) \subseteq Failing(s)' /\ Panicked(s) \subseteq Panicked(s)'
  BY <1>3, <1>4
<1>6. Failures(s) \subseteq Failures(s)'
  BY <1>3, <1>4, <1>5 DEF Failures, TaskError, Error
<1>7. Panics(s) \subseteq Panics(s)'
  BY <1>3, <1>4, <1>5 DEF Panics
<1> QED BY <1>3, <1>4, <1>5, <1>6, <1>7

LEMMA ShapesNext == ASSUME Shapes, Endings, Verdicts, Kept, [Next]_vars PROVE Shapes'
<1>1. /\ cfg' \in Config /\ task' \in [Tasks -> Stages]
      /\ how' = [t \in Tasks |-> how'[t]]
      /\ userCancelled' \in BOOLEAN /\ expired' \in BOOLEAN
      /\ shut' \in [Scopes -> BOOLEAN]
      /\ fell' \in [Scopes -> BOOLEAN]
      /\ verdict' = [s \in Scopes |-> verdict'[s]]
  <2>1. CASE UNCHANGED vars
    BY <2>1 DEF vars, Shapes
  <2>2. ASSUME NEW t \in Tasks, Spawn(t) \/ Start(t) \/ Leave(t) \/ FnEnds(t) \/ Record(t)
        PROVE  <1>1!:
    <3>1. UNCHANGED <<cfg, userCancelled, expired, shut, fell, verdict>>
      BY <2>2 DEF Spawn, Start, Leave, FnEnds, Record
    <3>2. \E x \in Stages : task' = [task EXCEPT ![t] = x]
      BY <2>2 DEF Spawn, Start, Leave, FnEnds, Record, Ends, Stages
    <3>3. how' = how \/ \E e : how' = [how EXCEPT ![t] = e]
      BY <2>2 DEF Spawn, Start, Leave, FnEnds, Record, Ends
    <3> QED BY <3>1, <3>2, <3>3 DEF Shapes
  <2>3. ASSUME NEW s \in Scopes, Shut(s) PROVE <1>1!:
    <3>1. fell' \in [Scopes -> BOOLEAN] /\ shut' \in [Scopes -> BOOLEAN]
      BY <2>3 DEF Shut, Shapes
    <3> QED BY <2>3, <3>1 DEF Shut, Shapes
  <2>4. ASSUME NEW s \in Scopes, Finalize(s) PROVE <1>1!:
    <3>1. UNCHANGED <<cfg, userCancelled, expired, shut, fell>>
      BY <2>4 DEF Finalize
    <3>2. verdict' = [verdict EXCEPT ![s] = RunEnds(s)]
      BY <2>4 DEF Finalize
    <3>3. UNCHANGED <<task, how>> \/ \E e : Ends(Host, e)
      BY <2>4 DEF Finalize
    <3> QED BY <3>1, <3>2, <3>3 DEF Shapes, Ends, Stages
  <2>5. CASE UserCancel
    BY <2>5 DEF UserCancel, Shapes
  <2>6. CASE Expire
    BY <2>6 DEF Expire, Shapes
  <2> QED BY <2>1, <2>2, <2>3, <2>4, <2>5, <2>6 DEF Next, TaskStep
<1>2. cancelled' \in [Scopes -> BOOLEAN]
  <2>1. cancelled' = cancelled \/ \E s \in Scopes : cancelled' = [cancelled EXCEPT ![s] = TRUE]
    <3>1. CASE \E t \in Tasks : Record(t)
      BY <3>1, Belonging DEF Record, recordError
    <3>2. CASE ~\E t \in Tasks : Record(t)
      BY <3>2 DEF Next, TaskStep, vars, Spawn, Start, Leave, FnEnds, Shut, Finalize, UserCancel, Expire
    <3> QED BY <3>1, <3>2
  <2> QED BY <2>1 DEF Shapes
<1>3. /\ errs' = [s \in Scopes |-> errs'[s]] /\ panics' = [s \in Scopes |-> panics'[s]]
      /\ \A s \in Scopes : errs'[s] \in Seq(Failures(s)') /\ panics'[s] \in Seq(Panics(s)')
  <2>1. \A s \in Scopes : errs[s] \in Seq(Failures(s)') /\ panics[s] \in Seq(Panics(s)')
    <3> SUFFICES ASSUME NEW s \in Scopes PROVE errs[s] \in Seq(Failures(s)') /\ panics[s] \in Seq(Panics(s)')
      OBVIOUS
    <3>1. Failures(s) \subseteq Failures(s)' /\ Panics(s) \subseteq Panics(s)'
      BY Monotone
    <3> QED BY <3>1, Widen DEF Shapes
  <2>2. CASE \A t \in Tasks : ~Record(t)
    BY <2>1, <2>2, OnlyRecord DEF Shapes
  <2>3. ASSUME NEW t \in Tasks, Record(t) PROVE <1>3!:
    <3> DEFINE s == ScopeOf(t)
    <3>1. s \in Scopes
      BY Belonging
    <3>2. CASE how[t].kind = "nil" /\ UNCHANGED <<errs, panics>>
      BY <2>1, <3>2 DEF Shapes
    <3>3. CASE /\ how[t].kind = "panic" /\ ~PanicAsErr(s)
               /\ panics' = [panics EXCEPT ![s] = Append(@, how[t])] /\ errs' = errs
      <4>1. t \in Panicked(s)' /\ how' = how
        BY <2>3, <3>3, RecordOne DEF Record
      <4>2. how[t] \in Panics(s)'
        BY <4>1 DEF Panics
      <4>3. Append(panics[s], how[t]) \in Seq(Panics(s)')
        BY <2>1, <3>1, <4>2, Ends1
      <4> QED BY <2>1, <3>1, <3>3, <4>3 DEF Shapes
    <3>4. CASE /\ Bad(t) /\ ~(how[t].kind = "panic" /\ ~PanicAsErr(s))
               /\ errs' \in {errs, [errs EXCEPT ![s] = Append(@, TaskError(t, how[t]))]} /\ panics' = panics
      <4>1. t \in Failing(s)' /\ how' = how
        BY <2>3, <3>4, RecordOne DEF Record
      <4>2. TaskError(t, how[t]) \in Failures(s)'
        BY <4>1 DEF Failures
      <4>3. Append(errs[s], TaskError(t, how[t])) \in Seq(Failures(s)')
        BY <2>1, <3>1, <4>2, Ends1
      <4> QED BY <2>1, <3>1, <3>4, <4>3 DEF Shapes
    <3> QED BY <2>3, <3>2, <3>3, <3>4, Recording
  <2> QED BY <2>2, <2>3
<1> QED BY <1>1, <1>2, <1>3 DEF Shapes

\* How a Run ends, in its five cases.
LEMMA Concluding ==
    ASSUME Shapes, NEW s \in Scopes
    PROVE  /\ RunEnds(s).kind # "none" /\ RunEnds(s) # NotYet
           /\ fell[s] => RunEnds(s) = FnPanic(s)
           /\ ~fell[s] /\ panics[s] # <<>> => RunEnds(s) = panics[s][1]
           /\ ~fell[s] /\ panics[s] = <<>> /\ errs[s] # <<>> =>
                RunEnds(s) = IF Policy(s) = "FailFast" THEN errs[s][1] ELSE Join(errs[s])
           /\ ~fell[s] /\ panics[s] = <<>> /\ errs[s] = <<>> =>
                RunEnds(s) = Nil \/ (RunEnds(s) = Ctx /\ Done(s))
           /\ RunEnds(s).kind = "panic" <=> fell[s] \/ panics[s] # <<>>
<1>1. /\ errs[s] # <<>> => Head(errs[s]) = errs[s][1] /\ errs[s][1].kind = "task"
      /\ panics[s] # <<>> => Head(panics[s]) = panics[s][1] /\ panics[s][1].kind = "panic"
  <2>1. errs[s] \in Seq(Failures(s)) /\ panics[s] \in Seq(Panics(s))
    BY DEF Shapes
  <2>2. errs[s] # <<>> => Head(errs[s]) = errs[s][1] /\ errs[s][1] \in Failures(s)
    BY <2>1, Ends1
  <2>3. panics[s] # <<>> => Head(panics[s]) = panics[s][1] /\ panics[s][1] \in Panics(s)
    BY <2>1, Ends1
  <2>4. \A e \in Failures(s) : e.kind = "task"
    BY KindsOf DEF Failures
  <2>5. \A e \in Panics(s) : e.kind = "panic"
    BY DEF Panics, Panicked
  <2> QED BY <2>2, <2>3, <2>4, <2>5
<1>2. CASE fell[s]
  <2>1. RunEnds(s) = FnPanic(s)
    BY <1>2 DEF RunEnds
  <2> QED BY <1>2, <2>1, KindsOf
<1>3. CASE ~fell[s] /\ panics[s] # <<>>
  <2>1. RunEnds(s) = panics[s][1]
    BY <1>1, <1>3 DEF RunEnds
  <2> QED BY <1>1, <1>3, <2>1, KindsOf
<1>4. CASE ~fell[s] /\ panics[s] = <<>> /\ errs[s] # <<>>
  <2>1. RunEnds(s) = IF Policy(s) = "FailFast" THEN errs[s][1] ELSE Join(errs[s])
    BY <1>1, <1>4 DEF RunEnds, Aggregate
  <2>2. RunEnds(s).kind \in {"task", "join"}
    BY <1>1, <1>4, <2>1, KindsOf
  <2> QED BY <1>4, <2>1, <2>2, KindsOf
<1>5. CASE ~fell[s] /\ panics[s] = <<>> /\ errs[s] = <<>>
  <2>1. RunEnds(s) = Nil \/ (RunEnds(s) = Ctx /\ Done(s))
    BY <1>5 DEF RunEnds, Aggregate
  <2>2. RunEnds(s).kind \in {"nil", "ctx"}
    BY <2>1, KindsOf
  <2> QED BY <1>5, <2>1, <2>2, KindsOf
<1> QED BY <1>2, <1>3, <1>4, <1>5

LEMMA EndingsNext == ASSUME Shapes, Endings, Inside, [Next]_vars PROVE Endings'
<1> USE DEF Endings
<1>0. "inner" \in Scopes /\ Host \in Tasks
  BY Belonging
<1>1. CASE UNCHANGED vars
  BY <1>1 DEF vars
<1>2. ASSUME NEW t \in Tasks, Spawn(t) \/ Start(t) \/ Leave(t) \/ Record(t) PROVE Endings'
  <2>1. how' = how /\ verdict' = verdict /\ task' = [task EXCEPT ![t] = task'[t]]
    BY <1>2 DEF Spawn, Start, Leave, Record, Shapes
  <2>2. \/ task[t] = "new" /\ task'[t] = "spawned" /\ how[t] = NotYet
        \/ task[t] = "spawned" /\ task'[t] \in {"left", "running"} /\ how[t] = NotYet
        \/ task[t] = "ended" /\ task'[t] = "leaving" /\ how[t] # NotYet
        \/ task[t] = "leaving" /\ task'[t] = "left"
    BY <1>2 DEF Spawn, Start, Leave, Record, Shapes
  <2>3. \A u \in Tasks : task'[u] = IF u = t THEN task'[t] ELSE task[u]
    BY <2>1 DEF Shapes
  <2>4. ASSUME NEW u \in Tasks
        PROVE  /\ u # Host => how'[u] \in {NotYet, Nil, Ctx, FnError(u), FnPanic(u)}
               /\ task'[u] \in {"new", "spawned", "running"} => how'[u] = NotYet
               /\ task'[u] \in {"ended", "leaving"} => how'[u] # NotYet
    BY <2>1, <2>2, <2>3
  <2>5. verdict'["inner"] # NotYet => task'[Host] \in {"ended", "leaving", "left"}
    BY <1>0, <2>1, <2>2, <2>3
  <2> QED BY <2>1, <2>4, <2>5
<1>3. ASSUME NEW t \in Tasks \ {Host}, FnEnds(t) PROVE Endings'
  <2>1. PICK e \in {Nil, FnError(t), FnPanic(t), Ctx} : Ends(t, e)
    BY <1>3 DEF FnEnds
  <2>2. verdict' = verdict /\ e # NotYet
    BY <1>3, <2>1, KindsOf DEF FnEnds
  <2>3. \A u \in Tasks : /\ task'[u] = IF u = t THEN "ended" ELSE task[u]
                         /\ how'[u] = IF u = t THEN e ELSE how[u]
    BY <2>1 DEF Ends, Shapes
  <2> QED BY <1>0, <1>3, <2>1, <2>2, <2>3
<1>4. ASSUME NEW s \in Scopes, Shut(s) PROVE Endings'
  BY <1>4 DEF Shut
<1>5. CASE Finalize("outer")
  <2>1. task' = task /\ how' = how /\ verdict'["inner"] = verdict["inner"]
    BY <1>5 DEF Finalize, Shapes
  <2> QED BY <2>1
<1>6. CASE Finalize("inner")
  <2> DEFINE e == IF RunEnds("inner").kind = "panic"
                  THEN PanicError(IF fell["inner"] THEN <<>> ELSE <<RunEnds("inner")>>)
                  ELSE RunEnds("inner")
  <2>1. verdict' = [verdict EXCEPT !["inner"] = RunEnds("inner")] /\ Ends(Host, e)
    BY <1>6 DEF Finalize
  <2>2. verdict'["inner"] = RunEnds("inner") /\ verdict'["inner"] # NotYet
    BY <2>1, <1>0, Concluding DEF Shapes
  <2>3. \A u \in Tasks : /\ task'[u] = IF u = Host THEN "ended" ELSE task[u]
                         /\ how'[u] = IF u = Host THEN e ELSE how[u]
    BY <2>1 DEF Ends, Shapes
  <2>4. /\ IF verdict'["inner"].kind = "panic" THEN how'[Host].kind = "panic"
                                               ELSE how'[Host] = verdict'["inner"]
        /\ how'[Host] # NotYet
    <3>1. CASE RunEnds("inner").kind = "panic"
      <4>1. how'[Host].kind = "panic"
        BY <1>0, <2>3, <3>1, KindsOf
      <4> QED BY <2>2, <3>1, <4>1, KindsOf
    <3>2. CASE RunEnds("inner").kind # "panic"
      BY <1>0, <2>2, <2>3, <3>2
    <3> QED BY <3>1, <3>2
  <2> QED BY <1>0, <2>2, <2>3, <2>4
<1>7. CASE UserCancel
  BY <1>7 DEF UserCancel
<1>8. CASE Expire
  BY <1>8 DEF Expire
<1> QED BY <1>1, <1>2, <1>3, <1>4, <1>5, <1>6, <1>7, <1>8, Belonging DEF Next, TaskStep

LEMMA InsideNext == ASSUME Shapes, Endings, Inside, Verdicts, [Next]_vars PROVE Inside'
<1> USE DEF Inside, InnerWithinOuter
<1>0. "inner" \in Scopes /\ "outer" \in Scopes /\ Host \in Tasks
  BY Belonging
<1>1. CASE UNCHANGED vars
  BY <1>1 DEF vars, Live
<1>2. ASSUME NEW t \in Tasks, Spawn(t) PROVE Inside'
  <2>1. /\ task[t] = "new" /\ verdict[ScopeOf(t)] = NotYet
        /\ ScopeOf(t) = "inner" => task[Host] = "running"
        /\ verdict' = verdict /\ fell' = fell
        /\ \A u \in Tasks : task'[u] = IF u = t THEN "spawned" ELSE task[u]
    BY <1>2 DEF Spawn, Exists, Shapes
  <2>2. verdict["outer"] # NotYet => ScopeOf(t) = "inner" /\ Live(Host)
    BY <2>1, Belonging DEF Live, Scopes
  <2>3. verdict["outer"] = NotYet
    BY <2>2, Belonging
  <2> QED BY <1>0, <2>1, <2>3, Belonging DEF Live
<1>3. ASSUME NEW t \in Tasks, Start(t) \/ Leave(t) \/ Record(t) \/ (t # Host /\ FnEnds(t)) PROVE Inside'
  <2>1. /\ task[t] \in {"spawned", "running", "ended", "leaving"} /\ task'[t] # "new"
        /\ t = Host => task[t] # "running"
        /\ verdict' = verdict /\ fell' = fell
        /\ \A u \in Tasks : u # t => task'[u] = task[u]
    BY <1>3 DEF Start, Leave, Record, FnEnds, Ends, Shapes
  <2> QED BY <1>0, <2>1, Belonging DEF Live
<1>4. ASSUME NEW s \in Scopes, Shut(s) PROVE Inside'
  <2>1. /\ s = "inner" => task[Host] = "running"
        /\ s # "inner" => fell'["inner"] = fell["inner"]
        /\ verdict' = verdict /\ task' = task
    BY <1>0, <1>4 DEF Shut, Exists, Shapes
  <2> QED BY <1>0, <2>1 DEF Live
<1>5. CASE Finalize("outer")
  <2>1. /\ task' = task /\ fell' = fell /\ verdict'["inner"] = verdict["inner"]
        /\ \A t \in In("outer") : ~Live(t)
    BY <1>0, <1>5 DEF Finalize, Joined, Shapes
  <2>2. \A t \in Tasks : ~Live(t)
    <3>1. task[Host] # "running"
      BY <2>1, Belonging DEF Live
    <3> QED BY <2>1, <3>1, Belonging
  <2> QED BY <1>0, <2>1, <2>2, Belonging DEF Live
<1>6. CASE Finalize("inner")
  <2>1. /\ \A t \in InnerLeaves : ~Live(t)
        /\ fell' = fell /\ verdict'["inner"] # NotYet /\ verdict'["outer"] = verdict["outer"]
        /\ \A u \in Tasks : u # Host => task'[u] = task[u]
        /\ task[Host] = "running"
    <3>1. verdict' = [verdict EXCEPT !["inner"] = RunEnds("inner")]
      BY <1>6 DEF Finalize
    <3>2. verdict'["inner"] # NotYet /\ verdict'["outer"] = verdict["outer"]
      BY <1>0, <3>1, Concluding DEF Shapes
    <3> QED BY <1>6, <3>2, Belonging DEF Finalize, Joined, Ends, Exists, Shapes
  <2>2. verdict["outer"] = NotYet
    BY <2>1, <1>0 DEF Live
  <2>3. \A t \in InnerLeaves : ~Live(t)' /\ task'[t] = task[t]
    BY <2>1, Belonging DEF Live
  <2> QED BY <1>0, <2>1, <2>2, <2>3, Belonging
<1>7. CASE UserCancel
  BY <1>7 DEF UserCancel, Live
<1>8. CASE Expire
  BY <1>8 DEF Expire, Live
<1> QED BY <1>1, <1>2, <1>3, <1>4, <1>5, <1>6, <1>7, <1>8, Belonging DEF Next, TaskStep

\* What is recorded stays, where it is.
LEMMA Growth ==
    ASSUME Shapes, Endings, Verdicts, Kept, [Next]_vars, NEW s \in Scopes
    PROVE  /\ panics[s] # <<>> => panics'[s] # <<>> /\ panics'[s][1] = panics[s][1]
           /\ errs[s] # <<>> => errs'[s] # <<>> /\ errs'[s][1] = errs[s][1]
           /\ \A k \in DOMAIN errs[s] : k \in DOMAIN errs'[s] /\ errs'[s][k] = errs[s][k]
<1>1. /\ panics'[s] = panics[s] \/ \E x \in Panics(s)' : panics'[s] = Append(panics[s], x)
      /\ errs'[s] = errs[s] \/ \E x \in Failures(s)' : errs'[s] = Append(errs[s], x)
  <2>1. CASE \A t \in Tasks : ~Record(t)
    BY <2>1, OnlyRecord
  <2>2. ASSUME NEW t \in Tasks, Record(t) PROVE <1>1!:
    <3>1. /\ panics'[s] = panics[s] \/ (panics'[s] = Append(panics[s], how[t]) /\ t \in Panicked(s)')
          /\ errs'[s] = errs[s] \/ (errs'[s] = Append(errs[s], TaskError(t, how[t])) /\ t \in Failing(s)')
          /\ how' = how
      BY <2>2, RecordAt, RecordOne DEF Record
    <3>2. /\ t \in Panicked(s)' => how[t] \in Panics(s)'
          /\ t \in Failing(s)' => TaskError(t, how[t]) \in Failures(s)'
      BY <3>1 DEF Panics, Failures
    <3> QED BY <3>1, <3>2
  <2> QED BY <2>1, <2>2
<1>2. errs[s] \in Seq(Failures(s)') /\ panics[s] \in Seq(Panics(s)')
  <2>1. Failures(s) \subseteq Failures(s)' /\ Panics(s) \subseteq Panics(s)'
    BY Monotone
  <2> QED BY <2>1, Widen DEF Shapes
<1>3. panics[s] # <<>> => panics'[s] # <<>> /\ panics'[s][1] = panics[s][1]
  BY <1>1, <1>2, Ends1
<1>4. errs[s] # <<>> => errs'[s] # <<>> /\ errs'[s][1] = errs[s][1]
  BY <1>1, <1>2, Ends1
<1>5. \A k \in DOMAIN errs[s] : k \in DOMAIN errs'[s] /\ errs'[s][k] = errs[s][k]
  <2>1. CASE errs'[s] = errs[s]
    BY <2>1
  <2>2. ASSUME NEW x \in Failures(s)', errs'[s] = Append(errs[s], x)
        PROVE  \A k \in DOMAIN errs[s] : k \in DOMAIN errs'[s] /\ errs'[s][k] = errs[s][k]
    BY <1>2, <2>2, Ends1
  <2> QED BY <1>1, <2>1, <2>2
<1> QED BY <1>3, <1>4, <1>5

LEMMA VerdictsNext == ASSUME Shapes, Verdicts, Blame, Kept, [Next]_vars PROVE Verdicts'
<1> SUFFICES ASSUME NEW s \in Scopes, verdict'[s] # NotYet
             PROVE  /\ shut'[s] /\ cancelled'[s]
                    /\ fell'[s] => verdict'[s] = FnPanic(s)
                    /\ ~fell'[s] /\ panics'[s] # <<>> => verdict'[s] = panics'[s][1]
                    /\ ~fell'[s] /\ panics'[s] = <<>> /\ errs'[s] # <<>> =>
                         verdict'[s] = IF Policy(s)' = "FailFast" THEN errs'[s][1] ELSE Join(errs'[s])
                    /\ ~fell'[s] /\ panics'[s] = <<>> /\ errs'[s] = <<>> =>
                         \/ verdict'[s] = Nil
                         \/ /\ verdict'[s] = Ctx
                            /\ userCancelled' \/ (s = "inner" /\ (expired' \/ cancelled'["outer"]))
  BY DEF Verdicts
<1>1. /\ Policy(s)' = Policy(s) /\ "outer" \in Scopes
      /\ userCancelled => userCancelled'
      /\ expired => expired'
      /\ cancelled["outer"] => cancelled'["outer"]
  BY Belonging DEF Kept, KeptScopes, Policy
<1>2. CASE verdict[s] # NotYet
  <2>1. /\ verdict'[s] = verdict[s] /\ errs'[s] = errs[s] /\ panics'[s] = panics[s]
        /\ fell'[s] = fell[s] /\ cancelled'[s] = cancelled[s] /\ (shut[s] => shut'[s])
    BY <1>2 DEF Kept, KeptScopes, KeptVerdicts
  <2> QED BY <1>1, <1>2, <2>1 DEF Verdicts
<1>3. CASE verdict[s] = NotYet
  <2>1. Finalize(s)
    <3>1. verdict' # verdict
      BY <1>3
    <3>2. \E r \in Scopes : Finalize(r)
      BY <3>1 DEF Next, vars, TaskStep, Spawn, Start, Record, Leave, FnEnds, Shut, UserCancel, Expire
    <3> QED BY <1>3, <3>2 DEF Finalize, Shapes
  <2>2. /\ shut[s] /\ verdict'[s] = RunEnds(s) /\ cancelled'[s]
        /\ UNCHANGED <<cfg, userCancelled, expired, shut, fell, errs, panics>>
    BY <2>1 DEF Finalize, Shapes
  <2>3. panics[s] = <<>> /\ errs[s] = <<>> /\ Done(s) =>
            userCancelled \/ (s = "inner" /\ (expired \/ cancelled["outer"]))
    BY <1>3, Belonging DEF Blame, Done
  <2> QED BY <1>1, <2>2, <2>3, Concluding
<1> QED BY <1>2, <1>3

\* An ended context stays so.
LEMMA DoneStays == ASSUME Kept, NEW s \in Scopes, Done(s) PROVE Done(s)'
  BY Belonging DEF Done, Kept, KeptScopes

LEMMA TracesNext == ASSUME Shapes, Endings, Verdicts, Traces, Kept, [Next]_vars PROVE Traces'
<1> SUFFICES ASSUME NEW s \in Scopes
             PROVE  /\ errs'[s] # <<>> /\ Policy(s)' = "FailFast" => cancelled'[s]
                    /\ panics'[s] # <<>> => cancelled'[s]
                    /\ \A t \in In(s) :
                        /\ task'[t] = "left" /\ how'[t] = NotYet => Done(s)'
                        /\ t \in Panicked(s)' => panics'[s] # <<>>
                        /\ t \in Failing(s)' =>
                            /\ errs'[s] # <<>>
                            /\ Policy(s)' = "Collect" => \E k \in DOMAIN errs'[s] : errs'[s][k] = TaskError(t, how'[t])
  BY DEF Traces, In
<1>1. Policy(s)' = Policy(s) /\ (cancelled[s] => cancelled'[s])
  BY DEF Kept, KeptScopes, Policy
<1>2. ASSUME NEW t \in In(s), task'[t] = "left", how'[t] = NotYet PROVE Done(s)'
  <2>1. t \in Tasks /\ ScopeOf(t) = s
    BY Belonging
  <2>2. CASE task[t] = "left"
    BY <1>2, <2>1, <2>2, DoneStays DEF Traces, Kept, KeptTasks
  <2>3. CASE task[t] # "left"
    <3>1. Start(t) \/ Leave(t)
      <4>1. ASSUME NEW u \in Tasks, Spawn(u) \/ Start(u) \/ Leave(u) \/ Record(u) \/ FnEnds(u) PROVE Start(t) \/ Leave(t)
        BY <1>2, <2>1, <2>3, <4>1 DEF Spawn, Start, Leave, Record, FnEnds, Ends, Shapes
      <4>2. ASSUME NEW r \in Scopes, Finalize(r) PROVE FALSE
        BY <1>2, <2>1, <2>3, <4>2 DEF Finalize, Ends, Shapes
      <4>3. task' # task
        BY <1>2, <2>3
      <4>4. (\E r \in Scopes : Finalize(r)) \/ \E u \in Tasks : Spawn(u) \/ Start(u) \/ Leave(u) \/ Record(u) \/ FnEnds(u)
        BY <4>3 DEF Next, TaskStep, vars, Shut, UserCancel, Expire
      <4> QED BY <4>1, <4>2, <4>4
    <3>2. ~Leave(t)
      BY <1>2, <2>1 DEF Leave, Endings
    <3>3. Done(s)
      BY <1>2, <2>1, <3>1, <3>2 DEF Start, Shapes
    <3> QED BY <3>3, DoneStays
  <2> QED BY <2>2, <2>3
<1> DEFINE Told(u) ==
          /\ u \in Panicked(s)' => panics'[s] # <<>>
          /\ u \in Failing(s)' =>
              /\ errs'[s] # <<>>
              /\ Policy(s) = "Collect" => \E k \in DOMAIN errs'[s] : errs'[s][k] = TaskError(u, how'[u])
<1>3. ASSUME NEW u \in In(s), u \in Panicked(s) \/ u \in Failing(s)
      PROVE  /\ u \in Panicked(s) => panics'[s] # <<>>
             /\ u \in Failing(s) =>
                 /\ errs'[s] # <<>>
                 /\ Policy(s) = "Collect" => \E k \in DOMAIN errs'[s] : errs'[s][k] = TaskError(u, how'[u])
  <2>1. how'[u] = how[u]
    BY <1>3, Monotone
  <2> QED BY <1>3, <2>1, Growth DEF Traces
<1>4. CASE \/ \A t \in Tasks : ~Record(t)
           \/ \E t \in Tasks : Record(t) /\ ScopeOf(t) # s
  <2>1. /\ errs'[s] = errs[s] /\ panics'[s] = panics[s]
        /\ Failing(s)' = Failing(s) /\ Panicked(s)' = Panicked(s)
    BY <1>4, OnlyRecord, RecordOne, RecordAt
  <2>2. \A u \in In(s) : Told(u)
    BY <1>3, <2>1
  <2> QED BY <1>1, <1>2, <2>1, <2>2 DEF Traces
<1>5. ASSUME NEW t \in Tasks, Record(t), ScopeOf(t) = s
      PROVE  /\ errs'[s] # <<>> /\ Policy(s) = "FailFast" => cancelled'[s]
             /\ panics'[s] # <<>> => cancelled'[s]
             /\ \A u \in In(s) : Told(u)
  <2>1. /\ Panicked(s)' = Panicked(s) \cup (IF how[t].kind = "panic" /\ ~PanicAsErr(s) THEN {t} ELSE {})
        /\ Failing(s)' = Failing(s) \cup (IF Bad(t) /\ ~(how[t].kind = "panic" /\ ~PanicAsErr(s)) THEN {t} ELSE {})
        /\ how' = how
    BY <1>5, RecordOne DEF Record
  <2>2. \A u \in In(s) : u # t => Told(u)
    BY <1>3, <2>1
  <2>3. CASE /\ errs'[s] = errs[s] /\ panics'[s] = panics[s] /\ cancelled'[s] = cancelled[s]
             /\ \/ how[t].kind = "nil"
                \/ /\ Bad(t) /\ ~(how[t].kind = "panic" /\ ~PanicAsErr(s))
                   /\ Policy(s) = "FailFast" /\ errs[s] # <<>>
    <3>1. CASE how[t].kind = "nil"
      <4>1. Failing(s)' = Failing(s) /\ Panicked(s)' = Panicked(s)
        BY <2>1, <3>1 DEF Bad
      <4> QED BY <4>1, <2>3, <1>3 DEF Traces
    <3>2. CASE /\ ~(how[t].kind = "panic" /\ ~PanicAsErr(s))
               /\ Policy(s) = "FailFast" /\ errs[s] # <<>>
      <4>1. Panicked(s)' = Panicked(s) /\ errs'[s] # <<>> /\ Policy(s) # "Collect"
        BY <2>1, <2>3, <3>2
      <4>2. Told(t)
        BY <4>1, <1>3, <1>5, Belonging
      <4> QED BY <4>2, <2>2, <2>3 DEF Traces
    <3> QED BY <2>3, <3>1, <3>2
  <2>4. CASE /\ how[t].kind = "panic" /\ ~PanicAsErr(s)
             /\ panics'[s] = Append(panics[s], how[t]) /\ cancelled'[s] = TRUE /\ errs'[s] = errs[s]
    <3>1. panics'[s] # <<>>
      <4>1. panics[s] \in Seq(Panics(s)') /\ how[t] \in Panics(s)'
        <5>1. Panics(s) \subseteq Panics(s)'
          BY Monotone
        <5> QED BY <5>1, <2>1, <2>4, Widen DEF Shapes, Panics
      <4> QED BY <2>4, <4>1, Ends1
    <3>2. Failing(s)' = Failing(s)
      BY <2>1, <2>4
    <3> QED BY <3>1, <3>2, <2>2, <2>4, <1>3, <1>5, Belonging
  <2>6. CASE /\ Bad(t) /\ ~(how[t].kind = "panic" /\ ~PanicAsErr(s)) /\ panics'[s] = panics[s]
             /\ errs'[s] = Append(errs[s], TaskError(t, how[t]))
             /\ \/ Policy(s) = "Collect" /\ cancelled'[s] = cancelled[s]
                \/ Policy(s) = "FailFast" /\ cancelled'[s] = TRUE
    <3>1. errs'[s] # <<>> /\ \E k \in DOMAIN errs'[s] : errs'[s][k] = TaskError(t, how[t])
      <4>1. errs[s] \in Seq(Failures(s)') /\ TaskError(t, how[t]) \in Failures(s)'
        <5>1. Failures(s) \subseteq Failures(s)'
          BY Monotone
        <5> QED BY <5>1, <2>1, <2>6, Widen DEF Shapes, Failures
      <4> QED BY <2>6, <4>1, Ends1
    <3>2. Panicked(s)' = Panicked(s)
      BY <2>1, <2>6
    <3>3. Told(t)
      BY <1>3, <2>1, <3>1, <3>2, <1>5, Belonging
    <3>4. Policy(s) = "FailFast" => cancelled'[s]
      BY <2>6
    <3>5. panics'[s] # <<>> => cancelled'[s]
      BY <2>6, <1>1 DEF Traces
    <3> QED BY <3>3, <3>4, <3>5, <2>2
  <2> QED BY <1>5, <2>3, <2>4, <2>6, RecordAt
<1> QED BY <1>1, <1>2, <1>4, <1>5

\* An error that is recorded is in what Unwrap shows of the error that records it.
LEMMA OneBelow ==
    /\ \A e : e \in Unwrap({e}) /\ e \in Unwrap(Unwrap({e}))
    /\ \A t, e : e \in Unwrap({TaskError(t, e)}) /\ e \in Unwrap(Unwrap({TaskError(t, e)}))
    /\ \A t, e, es : 1 \in DOMAIN es /\ es[1] = TaskError(t, e) => e \in Unwrap(Unwrap({Join(es)}))
<1>1. \A S : S \subseteq Unwrap(S)
  BY DEF Unwrap
<1>2. \A S, e, f : e \in S /\ f \in ToSet(e.of) => f \in Unwrap(S)
  BY DEF Unwrap
<1>3. \A t, e : e \in ToSet(TaskError(t, e).of)
  BY KindsOf DEF ToSet
<1>4. \A es : 1 \in DOMAIN es => es[1] \in ToSet(Join(es).of)
  BY KindsOf DEF ToSet
<1>5. \A t, e : e \in Unwrap({TaskError(t, e)})
  BY <1>2, <1>3
<1>6. \A t, e, es : 1 \in DOMAIN es /\ es[1] = TaskError(t, e) => e \in Unwrap(Unwrap({Join(es)}))
  BY <1>2, <1>3, <1>4
<1> QED BY <1>1, <1>5, <1>6

LEMMA BlameNext ==
    ASSUME Shapes, Endings, Inside, Verdicts, Traces, Blame, Kept, [Next]_vars PROVE Blame'
<1>1. ASSUME NEW s \in Scopes, cancelled'[s], verdict'[s] = NotYet
      PROVE  panics'[s] # <<>> \/ (Policy(s)' = "FailFast" /\ errs'[s] # <<>>)
  <2>1. verdict[s] = NotYet /\ Policy(s)' = Policy(s)
    BY <1>1 DEF Kept, KeptScopes, KeptVerdicts, Policy
  <2>2. CASE cancelled[s]
    BY <2>1, <2>2, Growth DEF Blame
  <2>3. CASE ~cancelled[s]
    <3>1. \E t \in Tasks : Record(t)
      <4>1. ASSUME NEW r \in Scopes, Finalize(r) PROVE FALSE
        BY <1>1, <2>3, <4>1, Concluding DEF Finalize, Shapes
      <4>2. cancelled' # cancelled
        BY <1>1, <2>3
      <4> QED BY <4>1, <4>2 DEF Next, TaskStep, vars, Spawn, Start, Leave, FnEnds, Shut, UserCancel, Expire
    <3>2. PICK t \in Tasks : Record(t)
      BY <3>1
    <3>3. \/ panics'[s] = Append(panics[s], how[t]) /\ t \in Panicked(s)'
          \/ errs'[s] = Append(errs[s], TaskError(t, how[t])) /\ t \in Failing(s)' /\ Policy(s) = "FailFast"
      <4>1. s = ScopeOf(t)
            /\ \/ how[t].kind = "panic" /\ ~PanicAsErr(s) /\ panics'[s] = Append(panics[s], how[t])
               \/ /\ Bad(t) /\ ~(how[t].kind = "panic" /\ ~PanicAsErr(s)) /\ Policy(s) = "FailFast"
                  /\ errs'[s] = Append(errs[s], TaskError(t, how[t]))
        <5>1. cancelled'[s] # cancelled[s]
          BY <1>1, <2>3
        <5> QED BY <3>2, <5>1, RecordAt
      <4>2. /\ Panicked(s)' = Panicked(s) \cup (IF how[t].kind = "panic" /\ ~PanicAsErr(s) THEN {t} ELSE {})
            /\ Failing(s)' = Failing(s) \cup (IF Bad(t) /\ ~(how[t].kind = "panic" /\ ~PanicAsErr(s)) THEN {t} ELSE {})
        BY <3>2, <4>1, RecordOne
      <4> QED BY <4>1, <4>2
    <3>4. how' = how
      BY <3>2 DEF Record
    <3>5. /\ t \in Panicked(s)' => how[t] \in Panics(s)'
          /\ t \in Failing(s)' => TaskError(t, how[t]) \in Failures(s)'
      BY <3>4 DEF Panics, Failures
    <3>6. errs[s] \in Seq(Failures(s)') /\ panics[s] \in Seq(Panics(s)')
      <4>1. Failures(s) \subseteq Failures(s)' /\ Panics(s) \subseteq Panics(s)'
        BY Monotone
      <4> QED BY <4>1, Widen DEF Shapes
    <3> QED BY <2>1, <3>3, <3>5, <3>6, Ends1
  <2> QED BY <2>2, <2>3
<1>2. ASSUME ~userCancelled', ~expired' PROVE ~userCancelled /\ ~expired
  BY <1>2 DEF Kept, KeptScopes
<1>3. ASSUME ~userCancelled', ~expired', NEW t \in Tasks, Bad(t)'
      PROVE  Cause(t)' \/ cancelled'[ScopeOf(t)] \/ cancelled'["outer"]
  <2>1. /\ cancelled[ScopeOf(t)] => cancelled'[ScopeOf(t)]
        /\ cancelled["outer"] => cancelled'["outer"]
        /\ ScopeOf(t) \in Scopes
    BY Belonging DEF Kept, KeptScopes
  <2>2. CASE how'[t] = how[t]
    <3>1. Bad(t) /\ Cause(t)' = Cause(t)
      BY <1>3, <2>2 DEF Bad, Cause
    <3> QED BY <1>2, <1>3, <2>1, <3>1 DEF Blame
  <2>3. CASE t # Host /\ FnEnds(t)
    <3>1. PICK e : Ends(t, e) /\ (e \in {Nil, FnError(t), FnPanic(t)} \/ (e = Ctx /\ Done(ScopeOf(t))))
      BY <2>3 DEF FnEnds
    <3>2. how'[t] = e
      BY <3>1 DEF Ends, Shapes
    <3>3. CASE e \in {FnError(t), FnPanic(t)}
      BY <2>3, <3>2, <3>3, KindsOf DEF Cause, Wrong
    <3>4. CASE e = Ctx /\ Done(ScopeOf(t))
      BY <1>2, <1>3, <2>1, <3>4 DEF Done
    <3>5. e # Nil
      BY <1>3, <3>2, KindsOf DEF Bad
    <3> QED BY <3>1, <3>3, <3>4, <3>5
  <2>4. CASE t = Host /\ Finalize("inner")
    <3>1. /\ verdict["inner"] = NotYet /\ "inner" \in Scopes /\ Host \in Tasks
          /\ how'[Host] = IF RunEnds("inner").kind = "panic"
                          THEN PanicError(IF fell["inner"] THEN <<>> ELSE <<RunEnds("inner")>>)
                          ELSE RunEnds("inner")
          /\ \A u \in Tasks : u # Host => how'[u] = how[u]
      BY <2>4, Belonging DEF Finalize, Exists, Ends, Shapes
    <3>2. CASE RunEnds("inner").kind = "panic"
      <4>1. Wrong(how'[Host])
        BY <3>1, <3>2, KindsOf DEF Wrong
      <4> QED BY <2>4, <4>1, OneBelow DEF Cause
    <3>3. CASE RunEnds("inner").kind # "panic"
      <4>1. how'[Host] = RunEnds("inner") /\ how'[Host].kind # "nil"
        BY <1>3, <2>4, <3>1, <3>3 DEF Bad
      <4>2. CASE errs["inner"] = <<>>
        <5>1. /\ Done("inner") /\ panics["inner"] = <<>>
          BY <3>1, <3>3, <4>1, <4>2, Concluding, KindsOf
        <5>2. ~cancelled["inner"]
          BY <3>1, <4>2, <5>1 DEF Blame
        <5> QED BY <1>2, <1>3, <2>1, <5>1, <5>2 DEF Done
      <4>3. CASE errs["inner"] # <<>> /\ ~cancelled["outer"]
        <5>1. /\ ~fell["inner"] /\ panics["inner"] = <<>>
              /\ RunEnds("inner") \in {errs["inner"][1], Join(errs["inner"])}
          BY <3>1, <3>3, <4>3, Concluding
        <5>2. PICK u \in Failing("inner") : errs["inner"][1] = TaskError(u, how[u]) /\ Cause(u)
          BY <1>2, <1>3, <3>1, <4>3, <5>1 DEF Blame
        <5>3. u # Host /\ Wrong(how[u])
          BY <5>2, Belonging DEF Failing, Cause
        <5>4. 1 \in DOMAIN errs["inner"]
          BY <3>1, <4>3, Ends1 DEF Shapes
        <5>5. how[u] \in Unwrap(Unwrap({how'[Host]}))
          BY <4>1, <5>1, <5>2, <5>4, OneBelow
        <5> QED BY <2>4, <5>3, <5>5 DEF Cause
      <4> QED BY <2>1, <4>2, <4>3
    <3> QED BY <3>2, <3>3
  <2>5. how'[t] = how[t] \/ (t # Host /\ FnEnds(t)) \/ (t = Host /\ Finalize("inner"))
    <3>1. CASE UNCHANGED how
      BY <3>1
    <3>2. ASSUME NEW u \in Tasks \ {Host}, FnEnds(u) PROVE <2>5!:
      BY <3>2 DEF FnEnds, Ends, Shapes
    <3>3. ASSUME NEW s \in Scopes, Finalize(s) PROVE <2>5!:
      BY <3>3, Belonging DEF Finalize, Ends, Shapes
    <3> QED BY <3>1, <3>2, <3>3 DEF Next, TaskStep, vars, Spawn, Start, Record, Leave, Shut, UserCancel, Expire
  <2> QED BY <2>2, <2>3, <2>4, <2>5
<1>4. ASSUME ~userCancelled', ~expired', NEW s \in Scopes,
             panics'[s] = <<>>, errs'[s] # <<>>, s = "inner" => ~cancelled'["outer"]
      PROVE  \E t \in Failing(s)' : errs'[s][1] = TaskError(t, how'[t]) /\ Cause(t)'
  <2>1. /\ panics[s] = <<>>
        /\ s = "inner" => ~cancelled["outer"]
    BY <1>4, Growth, Belonging DEF Kept, KeptScopes
  <2>2. CASE errs[s] # <<>>
    <3>1. PICK t \in Failing(s) : errs[s][1] = TaskError(t, how[t]) /\ Cause(t)
      BY <1>2, <1>4, <2>1, <2>2 DEF Blame
    <3>2. t \in Failing(s)' /\ how'[t] = how[t] /\ errs'[s][1] = errs[s][1]
      BY <2>2, Monotone, Growth
    <3>3. Cause(t)' = Cause(t)
      <4>1. t = Host => how'[Host] = how[Host]
        BY <3>2
      <4> QED BY <3>2, <4>1 DEF Cause
    <3> QED BY <3>1, <3>2, <3>3
  <2>3. CASE errs[s] = <<>>
    <3>1. PICK t \in Tasks : Record(t)
      BY <1>4, <2>3, OnlyRecord
    <3>2. /\ s = ScopeOf(t) /\ Bad(t) /\ t \in Failing(s)'
          /\ errs'[s] = Append(errs[s], TaskError(t, how[t]))
      BY <1>4, <2>1, <2>3, <3>1, RecordAt, RecordOne
    <3>3. how' = how /\ task[t] = "ended"
      BY <3>1 DEF Record
    <3>4. errs'[s][1] = TaskError(t, how'[t])
      BY <2>3, <3>2, <3>3
    <3>5. verdict[s] = NotYet
      BY <3>1, <3>2, <3>3, Belonging DEF Inside, InnerWithinOuter, Live
    <3>6. ~cancelled[s]
      BY <2>1, <2>3, <3>5 DEF Blame
    <3>7. ~cancelled["outer"]
      BY <2>1, <3>6 DEF Scopes
    <3>8. Cause(t)
      BY <1>2, <1>4, <3>2, <3>6, <3>7 DEF Blame
    <3>9. Cause(t)'
      BY <3>3, <3>8 DEF Cause
    <3> QED BY <3>2, <3>4, <3>9
  <2> QED BY <2>2, <2>3
<1> QED BY <1>1, <1>3, <1>4 DEF Blame

-----------------------------------------------------------------------------
(* The invariant *)

LEMMA InitIInv == Init => IInv
<1> SUFFICES ASSUME Init PROVE IInv
  OBVIOUS
<1>1. /\ cfg \in Config /\ userCancelled = FALSE /\ expired = FALSE
      /\ task = [t \in Tasks |-> "new"] /\ how = [t \in Tasks |-> NotYet]
      /\ cancelled = [s \in Scopes |-> FALSE] /\ shut = [s \in Scopes |-> FALSE]
      /\ fell = [s \in Scopes |-> FALSE]
      /\ errs = [s \in Scopes |-> <<>>] /\ panics = [s \in Scopes |-> <<>>]
      /\ verdict = [s \in Scopes |-> NotYet]
  BY NestedAssumption DEF Init
<1>2. \A s \in Scopes : Failing(s) = {} /\ Panicked(s) = {}
  BY <1>1, Belonging DEF Failing, Panicked, Past
<1>3. Shapes
  <2>1. \A S : <<>> \in Seq(S)
    OBVIOUS
  <2>2. \A s \in Scopes : errs[s] \in Seq(Failures(s)) /\ panics[s] \in Seq(Panics(s))
    BY <1>1, <2>1
  <2>3. /\ task \in [Tasks -> Stages] /\ how = [t \in Tasks |-> how[t]]
        /\ errs = [s \in Scopes |-> errs[s]] /\ panics = [s \in Scopes |-> panics[s]]
        /\ verdict = [s \in Scopes |-> verdict[s]]
    BY <1>1 DEF Stages
  <2> QED BY <1>1, <2>2, <2>3 DEF Shapes
<1>4. Endings
  BY <1>1, Belonging DEF Endings
<1>5. Inside
  BY <1>1, Belonging DEF Inside, InnerWithinOuter, Live
<1>6. Verdicts
  BY <1>1 DEF Verdicts
<1>7. Traces
  BY <1>1, <1>2, Belonging DEF Traces
<1>8. Blame
  BY <1>1, KindsOf DEF Blame, Bad
<1> QED BY <1>3, <1>4, <1>5, <1>6, <1>7, <1>8 DEF IInv

LEMMA NextIInv == IInv /\ [Next]_vars => IInv'
<1> SUFFICES ASSUME IInv, [Next]_vars PROVE IInv'
  OBVIOUS
<1> USE DEF IInv
<1>1. Kept
  BY KeptNext
<1> QED BY <1>1, ShapesNext, EndingsNext, InsideNext, VerdictsNext, TracesNext, BlameNext

\* In every reachable state of the two scopes the inner lies within its host, what a
\* scope has recorded are the ends of its tasks, and every verdict is made of these
\* (scope.go:171-192, 256-281; helpers.go:171-203).
THEOREM Invariance == Spec => []IInv
  BY InitIInv, NextIInv, PTL DEF Spec

-----------------------------------------------------------------------------
(* What is heard above *)

\* What a scope makes of panics: its Run ends with one exactly if its function or one
\* of its tasks panicked and it does not turn panics into errors.
LEMMA PanicsFollow == IInv => PanicsClimb
<1> SUFFICES ASSUME IInv PROVE PanicsClimb
  OBVIOUS
<1> USE DEF IInv
<1>1. ASSUME NEW s \in Scopes, verdict[s] # NotYet, NEW t \in In(s)
      PROVE  /\ how[t].kind # "none" => Past(t)
             /\ how[t].kind = "panic" /\ ~PanicAsErr(s) => t \in Panicked(s)
  <2>1. t \in Tasks /\ ~Live(t)
    BY <1>1, Belonging DEF Inside, InnerWithinOuter
  <2>2. how[t] = NotYet \/ Past(t)
    BY <2>1 DEF Endings, Live, Past, Shapes, Stages
  <2> QED BY <2>2, KindsOf DEF Panicked
<1>2. ASSUME NEW s \in Scopes, verdict[s] # NotYet
      PROVE  /\ verdict[s].kind = "panic" <=> fell[s] \/ panics[s] # <<>>
             /\ panics[s] # <<>> <=> ~PanicAsErr(s) /\ \E t \in In(s) : how[t].kind = "panic"
  <2>1. /\ errs[s] # <<>> => errs[s][1] \in Failures(s)
        /\ panics[s] # <<>> => panics[s][1] \in Panics(s)
    BY Ends1 DEF Shapes
  <2>2. /\ errs[s] # <<>> => errs[s][1].kind = "task"
        /\ panics[s] # <<>> => panics[s][1].kind = "panic" /\ \E t \in Panicked(s) : TRUE
    BY <2>1, KindsOf DEF Failures, Panics, Panicked
  <2>3. verdict[s].kind = "panic" <=> fell[s] \/ panics[s] # <<>>
    <3>1. CASE fell[s]
      BY <1>2, <3>1, KindsOf DEF Verdicts
    <3>2. CASE ~fell[s] /\ panics[s] # <<>>
      BY <1>2, <2>2, <3>2 DEF Verdicts
    <3>3. CASE ~fell[s] /\ panics[s] = <<>> /\ errs[s] # <<>>
      <4>1. verdict[s] \in {errs[s][1], Join(errs[s])}
        BY <1>2, <3>3 DEF Verdicts
      <4> QED BY <2>2, <3>3, <4>1, KindsOf
    <3>4. CASE ~fell[s] /\ panics[s] = <<>> /\ errs[s] = <<>>
      <4>1. verdict[s] \in {Nil, Ctx}
        BY <1>2, <3>4 DEF Verdicts
      <4> QED BY <3>4, <4>1, KindsOf
    <3> QED BY <3>1, <3>2, <3>3, <3>4
  <2>6. panics[s] # <<>> => ~PanicAsErr(s) /\ \E t \in In(s) : how[t].kind = "panic"
    BY <2>2 DEF Panicked
  <2>7. ~PanicAsErr(s) /\ (\E t \in In(s) : how[t].kind = "panic") => panics[s] # <<>>
    BY <1>1, <1>2 DEF Traces
  <2> QED BY <2>3, <2>6, <2>7
<1>3. ASSUME verdict["outer"] = Nil PROVE ~fell["inner"] /\ \A t \in Tasks : how[t].kind # "panic"
  <2>1. verdict["outer"] # NotYet /\ verdict["outer"].kind = "nil" /\ "outer" \in Scopes /\ "inner" \in Scopes
    BY <1>3, KindsOf, Belonging
  <2>2. ~fell["outer"] /\ panics["outer"] = <<>> /\ errs["outer"] = <<>>
    <3>1. ~fell["outer"] /\ panics["outer"] = <<>>
      BY <1>2, <2>1, KindsOf
    <3>2. errs["outer"] # <<>> => errs["outer"][1].kind = "task"
      <4>1. errs["outer"] # <<>> => errs["outer"][1] \in Failures("outer")
        BY <2>1, Ends1 DEF Shapes
      <4> QED BY <4>1, KindsOf DEF Failures
    <3>3. errs["outer"] # <<>> => verdict["outer"] \in {errs["outer"][1], Join(errs["outer"])}
      BY <2>1, <3>1 DEF Verdicts
    <3> QED BY <2>1, <3>1, <3>2, <3>3, KindsOf
  <2>3. \A t \in In("outer") : ~Bad(t)
    <3> SUFFICES ASSUME NEW t \in In("outer"), Bad(t) PROVE FALSE
      OBVIOUS
    <3>1. Past(t)
      BY <1>1, <2>1 DEF Bad
    <3>2. t \in Panicked("outer") \/ t \in Failing("outer")
      BY <3>1 DEF Failing
    <3> QED BY <2>1, <2>2, <3>2 DEF Traces
  <2>4. \A t \in In("outer") : how[t].kind # "panic"
    BY <2>3 DEF Bad
  <2>5. CASE verdict["inner"] = NotYet
    <3>1. task[Host] # "running"
      BY <2>1, Belonging DEF Inside, InnerWithinOuter, Live
    <3>2. ~fell["inner"] /\ \A t \in InnerLeaves : task[t] = "new"
      BY <2>5, <3>1, <2>1 DEF Inside, Shapes
    <3>3. \A t \in InnerLeaves : how[t].kind # "panic"
      BY <3>2, Belonging, KindsOf DEF Endings
    <3> QED BY <2>4, <3>2, <3>3, Belonging DEF Tasks, In
  <2>6. CASE verdict["inner"] # NotYet
    <3>1. how[Host] = verdict["inner"] /\ verdict["inner"].kind # "panic" /\ verdict["inner"].kind \in {"none", "nil"}
      BY <2>3, <2>4, <2>6, Belonging DEF Endings, Bad
    <3>2. ~fell["inner"] /\ panics["inner"] = <<>>
      BY <1>2, <2>1, <2>6, <3>1
    <3>3. errs["inner"] = <<>>
      <4>1. errs["inner"] # <<>> => errs["inner"][1].kind = "task"
        <5>1. errs["inner"] # <<>> => errs["inner"][1] \in Failures("inner")
          BY <2>1, Ends1 DEF Shapes
        <5> QED BY <5>1, KindsOf DEF Failures
      <4>2. errs["inner"] # <<>> => verdict["inner"] \in {errs["inner"][1], Join(errs["inner"])}
        BY <2>1, <2>6, <3>2 DEF Verdicts
      <4> QED BY <3>1, <4>1, <4>2, KindsOf
    <3>4. \A t \in InnerLeaves : how[t].kind # "panic"
      <4> SUFFICES ASSUME NEW t \in InnerLeaves, how[t].kind = "panic" PROVE FALSE
        OBVIOUS
      <4>1. Past(t) /\ t \in In("inner")
        BY <1>1, <2>1, <2>6, Belonging
      <4>2. t \in Panicked("inner") \/ t \in Failing("inner")
        BY <4>1 DEF Failing, Bad
      <4> QED BY <2>1, <3>2, <3>3, <4>1, <4>2 DEF Traces
    <3> QED BY <2>4, <3>2, <3>4, Belonging DEF Tasks, In
  <2> QED BY <2>5, <2>6
<1> QED BY <1>2, <1>3 DEF PanicsClimb

\* A panic that a scope does not turn into an error leaves its Run as a panic, and no
\* panic ends as nil (scope.go:171-192, helpers.go:196-203).
THEOREM PanicsRise == Spec => []PanicsClimb
  BY Invariance, PanicsFollow, PTL

\* Unwrap shows more of more, and of an error two levels down in four steps what two
\* show of it.
LEMMA UnwrapMore ==
    /\ \A A, B : A \subseteq B => Unwrap(A) \subseteq Unwrap(B)
    /\ \A A : A \subseteq Unwrap(A)
    /\ \A e, f : f \in Unwrap(Unwrap({e})) => Unwrap(Unwrap({f})) \subseteq Chain(e)
<1>1. \A A, B : A \subseteq B => Unwrap(A) \subseteq Unwrap(B)
  BY DEF Unwrap
<1>2. \A A : A \subseteq Unwrap(A)
  BY DEF Unwrap
<1>3. ASSUME NEW e, NEW f \in Unwrap(Unwrap({e})) PROVE Unwrap(Unwrap({f})) \subseteq Chain(e)
  <2>1. Unwrap({f}) \subseteq Unwrap(Unwrap(Unwrap({e})))
    BY <1>1
  <2> QED BY <1>1, <2>1 DEF Chain
<1> QED BY <1>1, <1>2, <1>3

\* An element of joined task errors, and the error it wraps, are shown by two steps.
LEMMA TwoBelow ==
    \A es, k, t, e : k \in DOMAIN es /\ es[k] = TaskError(t, e) => e \in Unwrap(Unwrap({Join(es)}))
<1>1. \A S, e, f : e \in S /\ f \in ToSet(e.of) => f \in Unwrap(S)
  BY DEF Unwrap
<1>2. \A t, e : e \in ToSet(TaskError(t, e).of)
  BY KindsOf DEF ToSet
<1>3. \A es, k : k \in DOMAIN es => es[k] \in ToSet(Join(es).of)
  BY KindsOf DEF ToSet
<1> QED BY <1>1, <1>2, <1>3

\* A Run with a verdict, and neither its own panic nor one of its tasks.
LEMMA Aggregated ==
    ASSUME IInv, NEW s \in Scopes, verdict[s] # NotYet, ~fell[s], panics[s] = <<>>
    PROVE  /\ \A t \in Failing(s) :
               /\ errs[s] # <<>>
               /\ Policy(s) = "Collect" => how[t] \in Unwrap(Unwrap({verdict[s]}))
           /\ errs[s] # <<>> => verdict[s].kind \in {"task", "join"}
           /\ \A t \in Failing(s) : errs[s] # <<>> /\ errs[s][1] = TaskError(t, how[t]) =>
                  how[t] \in Unwrap(Unwrap({verdict[s]}))
           /\ errs[s] = <<>> => verdict[s].kind = "nil" \/ (verdict[s] = Ctx /\
                  (userCancelled \/ (s = "inner" /\ (expired \/ cancelled["outer"]))))
<1> USE DEF IInv
<1>1. /\ errs[s] # <<>> => 1 \in DOMAIN errs[s] /\ errs[s][1].kind = "task"
      /\ errs[s] # <<>> => verdict[s] = IF Policy(s) = "FailFast" THEN errs[s][1] ELSE Join(errs[s])
  <2>1. errs[s] # <<>> => 1 \in DOMAIN errs[s] /\ errs[s][1] \in Failures(s)
    BY Ends1 DEF Shapes
  <2> QED BY <2>1, KindsOf DEF Failures, Verdicts
<1>2. ASSUME NEW t \in Failing(s) PROVE errs[s] # <<>> /\ (Policy(s) = "Collect" => how[t] \in Unwrap(Unwrap({verdict[s]})))
  <2>1. /\ errs[s] # <<>>
        /\ Policy(s) = "Collect" => \E k \in DOMAIN errs[s] : errs[s][k] = TaskError(t, how[t])
    BY DEF Traces, Failing
  <2>2. Policy(s) = "Collect" => verdict[s] = Join(errs[s])
    BY <1>1, <2>1
  <2> QED BY <2>1, <2>2, TwoBelow
<1>3. errs[s] # <<>> => verdict[s].kind \in {"task", "join"}
  BY <1>1, KindsOf
<1>4. ASSUME NEW t \in Failing(s), errs[s] # <<>>, errs[s][1] = TaskError(t, how[t])
      PROVE  how[t] \in Unwrap(Unwrap({verdict[s]}))
  <2>1. CASE verdict[s] = errs[s][1]
    BY <1>4, <2>1, OneBelow
  <2>2. CASE verdict[s] = Join(errs[s])
    BY <1>1, <1>4, <2>2, TwoBelow
  <2> QED BY <1>1, <1>4, <2>1, <2>2
<1>5. errs[s] = <<>> => verdict[s].kind = "nil" \/ (verdict[s] = Ctx /\
                  (userCancelled \/ (s = "inner" /\ (expired \/ cancelled["outer"]))))
  BY KindsOf DEF Verdicts
<1> QED BY <1>2, <1>3, <1>4, <1>5

LEMMA FailuresFollow == IInv => FailuresClimb
<1> SUFFICES ASSUME IInv PROVE FailuresClimb
  OBVIOUS
<1> USE DEF IInv
<1>0. "outer" \in Scopes /\ "inner" \in Scopes
  BY Belonging
<1>1. NothingLost
  <2> SUFFICES ASSUME verdict["outer"] # NotYet, NoPanic, NEW t \in Tasks, Failed(t)
               PROVE  /\ verdict["outer"] # Nil
                      /\ Policy("outer") = "Collect" /\ Policy(ScopeOf(t)) = "Collect"
                            => FnError(t) \in Chain(verdict["outer"])
    BY DEF NothingLost
  <2>1. ~fell["outer"] /\ ~fell["inner"] /\ panics["outer"] = <<>> /\ panics["inner"] = <<>>
    <3>1. \A s \in Scopes : panics[s] # <<>> => panics[s][1] \in Panics(s)
      BY Ends1 DEF Shapes
    <3>2. \A s \in Scopes : Panics(s) = {}
      BY Belonging DEF Panics, Panicked, NoPanic
    <3> QED BY <1>0, <3>1, <3>2 DEF NoPanic, Shapes
  <2>2. ASSUME NEW s \in Scopes, verdict[s] # NotYet, NEW u \in In(s), Bad(u) PROVE u \in Failing(s)
    <3>1. u \in Tasks /\ ~Live(u) /\ how[u].kind # "panic"
      BY <2>2, Belonging DEF Inside, InnerWithinOuter, NoPanic
    <3>2. how[u] # NotYet
      BY <2>2, KindsOf DEF Bad
    <3>3. Past(u)
      BY <3>1, <3>2 DEF Endings, Live, Past, Shapes, Stages
    <3> QED BY <2>2, <3>1, <3>3 DEF Failing, Panicked
  <2>3. Bad(t) /\ how[t].kind = "fn"
    BY DEF Failed, Bad
  <2>4. t # Host
    <3> SUFFICES ASSUME t = Host PROVE FALSE
      OBVIOUS
    <3>1. verdict["inner"] # NotYet /\ how[Host] = verdict["inner"]
      BY <2>3, KindsOf DEF Endings, NoPanic
    <3> QED BY <1>0, <2>1, <2>3, <3>1, Aggregated, KindsOf
  <2>5. how[t] = FnError(t)
    BY <2>3, <2>4, KindsOf DEF Endings
  <2>6. CASE t \in OuterLeaves
    <3>1. t \in In("outer") /\ ScopeOf(t) = "outer"
      BY <2>6, Belonging DEF In
    <3>2. t \in Failing("outer")
      BY <1>0, <2>2, <2>3, <3>1
    <3>3. verdict["outer"].kind \in {"task", "join"} /\ (Policy("outer") = "Collect" => how[t] \in Unwrap(Unwrap({verdict["outer"]})))
      BY <1>0, <2>1, <3>2, Aggregated
    <3>4. Policy("outer") = "Collect" => FnError(t) \in Chain(verdict["outer"])
      BY <2>5, <3>3, OneBelow, UnwrapMore
    <3> QED BY <3>3, <3>4, KindsOf
  <2>7. CASE t \in InnerLeaves
    <3>1. t \in In("inner") /\ ScopeOf(t) = "inner" /\ Host \in In("outer")
      BY <2>7, Belonging
    <3>2. verdict["inner"] # NotYet
      <4>1. task[t] # "new"
        BY <2>3, KindsOf DEF Endings
      <4>2. task[Host] # "running"
        BY Belonging DEF Inside, InnerWithinOuter, Live
      <4> QED BY <2>7, <4>1, <4>2 DEF Inside
    <3>3. t \in Failing("inner")
      BY <1>0, <2>2, <2>3, <3>1, <3>2
    <3>4. verdict["inner"].kind \in {"task", "join"} /\ (Policy("inner") = "Collect" => how[t] \in Unwrap(Unwrap({verdict["inner"]})))
      BY <1>0, <2>1, <3>2, <3>3, Aggregated
    <3>5. how[Host] = verdict["inner"]
      BY <3>2, <3>4 DEF Endings
    <3>6. Host \in Failing("outer")
      BY <1>0, <2>2, <3>1, <3>4, <3>5 DEF Bad
    <3>7. verdict["outer"].kind \in {"task", "join"} /\ (Policy("outer") = "Collect" => how[Host] \in Unwrap(Unwrap({verdict["outer"]})))
      BY <1>0, <2>1, <3>6, Aggregated
    <3>8. Policy("outer") = "Collect" /\ Policy("inner") = "Collect" => FnError(t) \in Chain(verdict["outer"])
      BY <2>5, <3>4, <3>5, <3>7, UnwrapMore
    <3> QED BY <3>1, <3>7, <3>8, KindsOf
  <2> QED BY <2>4, <2>6, <2>7 DEF Tasks
<1>2. BlamesTheCause
  <2> SUFFICES ASSUME ~userCancelled, ~expired, NEW s \in Scopes, verdict[s].kind \in {"task", "join", "ctx"},
                      ~(s = "inner" /\ cancelled["outer"])
               PROVE  \E e \in Chain(verdict[s]) : Wrong(e)
    BY DEF BlamesTheCause, Wrong
  <2>1. verdict[s] # NotYet
    BY KindsOf
  <2>2. ~fell[s] /\ panics[s] = <<>>
    <3>1. fell[s] => verdict[s].kind = "panic"
      BY <2>1, KindsOf DEF Verdicts
    <3>2. ~fell[s] /\ panics[s] # <<>> => verdict[s].kind = "panic"
      <4>1. panics[s] # <<>> => panics[s][1] \in Panics(s)
        BY Ends1 DEF Shapes
      <4> QED BY <2>1, <4>1 DEF Verdicts, Panics, Panicked
    <3> QED BY <3>1, <3>2
  <2>3. errs[s] # <<>>
    BY <2>1, <2>2, Aggregated
  <2>4. PICK t \in Failing(s) : errs[s][1] = TaskError(t, how[t]) /\ Cause(t)
    BY <2>2, <2>3 DEF Blame
  <2>5. how[t] \in Unwrap(Unwrap({verdict[s]}))
    BY <2>1, <2>2, <2>3, <2>4, Aggregated
  <2>6. PICK e \in Unwrap(Unwrap({how[t]})) : Wrong(e)
    BY <2>4, OneBelow DEF Cause
  <2> QED BY <2>5, <2>6, UnwrapMore
<1> QED BY <1>1, <1>2 DEF FailuresClimb

\* No failure is silent however deep it was, and an error names a function that failed
\* or panicked, not only siblings cancelled for it (scope.go:256-281, 171-192;
\* helpers.go:196-203).
THEOREM FailuresRise == Spec => []FailuresClimb
  BY Invariance, FailuresFollow, PTL

-----------------------------------------------------------------------------
(* What the error of a Run names *)

\* What a scope has recorded names each of its tasks once at most.
NamesOnce == \A s \in Scopes : \A j, k \in 1 .. Len(errs[s]) : j # k => errs[s][j].task # errs[s][k].task

\* The errors that the verdict of a scope has at its top are TaskErrors of that scope:
\* one for FailFast, for Collect a list without repetitions that is not empty; and each
\* holds what the function of its task returned.
VerdictNames ==
    \A s \in Scopes :
        /\ verdict[s].kind = "task" => \E t \in In(s) : verdict[s] = TaskError(t, how[t])
        /\ verdict[s].kind = "join" =>
             /\ verdict[s].of # <<>>
             /\ \A k \in 1 .. Len(verdict[s].of) : \E t \in In(s) : verdict[s].of[k] = TaskError(t, how[t])
             /\ \A j, k \in 1 .. Len(verdict[s].of) : j # k => verdict[s].of[j].task # verdict[s].of[k].task

LEMMA NamesOnceInit == Init => NamesOnce
  BY DEF Init, NamesOnce

\* A task is recorded when it begins to leave, and it does so once.
LEMMA NamesOnceNext == IInv /\ NamesOnce /\ [Next]_vars => NamesOnce'
<1> SUFFICES ASSUME IInv, NamesOnce, [Next]_vars PROVE NamesOnce'
  OBVIOUS
<1>0. Shapes /\ Endings /\ Verdicts /\ Kept
  BY KeptNext DEF IInv
<1>1. CASE \A t \in Tasks : ~Record(t)
  BY <1>0, <1>1, OnlyRecord DEF NamesOnce
<1>2. ASSUME NEW t \in Tasks, Record(t), NEW s \in Scopes,
             NEW j \in 1 .. Len(errs'[s]), NEW k \in 1 .. Len(errs'[s]), j # k
      PROVE  errs'[s][j].task # errs'[s][k].task
  <2>1. CASE errs'[s] = errs[s]
    BY <1>2, <2>1 DEF NamesOnce
  <2>2. CASE errs'[s] = Append(errs[s], TaskError(t, how[t]))
    <3>1. /\ errs[s] \in Seq(Failures(s)) /\ Len(errs[s]) \in Nat /\ Len(errs'[s]) = Len(errs[s]) + 1
          /\ \A i \in 1 .. Len(errs[s]) : errs'[s][i] = errs[s][i] /\ errs[s][i] \in Failures(s)
          /\ errs'[s][Len(errs[s]) + 1] = TaskError(t, how[t])
      BY <1>0, <2>2 DEF Shapes
    <3>2. ~Past(t)
      BY <1>2 DEF Record, Past
    <3>3. ASSUME NEW i \in 1 .. Len(errs[s]) PROVE errs[s][i].task # t
      <4>1. PICK u \in Failing(s) : errs[s][i] = TaskError(u, how[u])
        BY <3>1 DEF Failures
      <4>2. u # t
        BY <3>2 DEF Failing
      <4> QED BY <4>1, <4>2 DEF TaskError, Error
    <3>4. TaskError(t, how[t]).task = t
      BY DEF TaskError, Error
    <3>5. \A i \in 1 .. Len(errs'[s]) : i \in 1 .. Len(errs[s]) \/ i = Len(errs[s]) + 1
      BY <3>1
    <3>6. CASE j \in 1 .. Len(errs[s]) /\ k \in 1 .. Len(errs[s])
      BY <1>2, <3>1, <3>6 DEF NamesOnce
    <3>7. CASE j = Len(errs[s]) + 1 /\ k \in 1 .. Len(errs[s])
      BY <3>1, <3>3, <3>4, <3>7
    <3>8. CASE j \in 1 .. Len(errs[s]) /\ k = Len(errs[s]) + 1
      BY <3>1, <3>3, <3>4, <3>8
    <3> QED BY <1>2, <3>5, <3>6, <3>7, <3>8
  <2> QED BY <1>0, <1>2, <2>1, <2>2, RecordAt
<1> QED BY <1>1, <1>2 DEF NamesOnce

LEMMA NamesFollow == IInv /\ NamesOnce => VerdictNames
<1> SUFFICES ASSUME IInv, NamesOnce, NEW s \in Scopes
             PROVE  /\ verdict[s].kind = "task" => \E t \in In(s) : verdict[s] = TaskError(t, how[t])
                    /\ verdict[s].kind = "join" =>
                         /\ verdict[s].of # <<>>
                         /\ \A k \in 1 .. Len(verdict[s].of) :
                              \E t \in In(s) : verdict[s].of[k] = TaskError(t, how[t])
                         /\ \A j, k \in 1 .. Len(verdict[s].of) :
                              j # k => verdict[s].of[j].task # verdict[s].of[k].task
  BY DEF VerdictNames
<1>1. \A k \in 1 .. Len(errs[s]) : \E t \in In(s) : errs[s][k] = TaskError(t, how[t])
  <2> SUFFICES ASSUME NEW k \in 1 .. Len(errs[s]) PROVE \E t \in In(s) : errs[s][k] = TaskError(t, how[t])
    OBVIOUS
  <2>1. errs[s][k] \in Failures(s)
    BY DEF IInv, Shapes
  <2> QED BY <2>1 DEF Failures, Failing
<1>2. CASE verdict[s] \in {NotYet, Nil, Ctx}
  BY <1>2, KindsOf
<1>3. CASE verdict[s] = FnPanic(s)
  BY <1>3, KindsOf
<1>4. CASE panics[s] # <<>> /\ verdict[s] = panics[s][1]
  <2>1. panics[s] \in Seq(Panics(s))
    BY DEF IInv, Shapes
  <2>2. panics[s][1] \in Panics(s)
    BY <1>4, <2>1
  <2>3. verdict[s].kind = "panic"
    BY <1>4, <2>2 DEF Panics, Panicked
  <2> QED BY <2>3
<1>5. CASE errs[s] # <<>> /\ verdict[s] = errs[s][1]
  <2>1. 1 \in 1 .. Len(errs[s])
    BY <1>5 DEF IInv, Shapes
  <2>2. PICK t \in In(s) : errs[s][1] = TaskError(t, how[t])
    BY <1>1, <2>1
  <2> QED BY <1>5, <2>2, KindsOf
<1>6. CASE errs[s] # <<>> /\ verdict[s] = Join(errs[s])
  BY <1>1, <1>6, KindsOf DEF NamesOnce
<1> QED BY <1>2, <1>3, <1>4, <1>5, <1>6 DEF IInv, Verdicts

\* What errors.As, AllTaskErrors, TaskOf and CauseOf are given: the error of a Run is
\* one TaskError, or a joined list of TaskErrors of tasks of that scope, none of them
\* twice, over what their functions returned (scope.go:171-192, 256-281).
THEOREM NamedByVerdict == Spec => []VerdictNames
<1>1. Spec => []NamesOnce
  BY NamesOnceInit, NamesOnceNext, Invariance, PTL DEF Spec
<1> QED BY <1>1, NamesFollow, Invariance, PTL

-----------------------------------------------------------------------------
(* Each scope is a TaskGroup: what a group sees of a step, first in the terms of *)
(* this module and of either scope, then for the two groups.                     *)

Members(s) == [t \in In(s) |-> Membership(t)]
Ways       == {"succeeded", "failed", "panicked", "dropped"}

\* The group sees nothing, or that it has been told to stop.
Quiet(s) ==
    /\ Policy(s)' = Policy(s) /\ Members(s)' = Members(s) /\ shut'[s] = shut[s]
    /\ GroupVerdict(s)' = GroupVerdict(s)
    /\ Done(s) => Done(s)'

Enters(s, t) ==
    /\ Membership(t) = "out" /\ (~shut[s] \/ \E u \in In(s) : Membership(u) = "live")
    /\ Members(s)' = [Members(s) EXCEPT ![t] = "live"]
    /\ Policy(s)' = Policy(s) /\ shut'[s] = shut[s] /\ Done(s)' = Done(s)
    /\ GroupVerdict(s)' = GroupVerdict(s)

Departs(s, t, way) ==
    /\ Membership(t) = "live"
    /\ (way = "failed" /\ Policy(s) = "FailFast") \/ way \in {"panicked", "dropped"} => Done(s)
    /\ Members(s)' = [Members(s) EXCEPT ![t] = way]
    /\ Policy(s)' = Policy(s) /\ shut'[s] = shut[s] /\ Done(s)' = Done(s)
    /\ GroupVerdict(s)' = GroupVerdict(s)

Closes(s) ==
    /\ ~shut[s] /\ shut'[s]
    /\ Policy(s)' = Policy(s) /\ Members(s)' = Members(s) /\ Done(s)' = Done(s)
    /\ GroupVerdict(s)' = GroupVerdict(s)

Concludes(s, v) ==
    /\ GroupVerdict(s) = "pending" /\ GroupVerdict(s)' = v /\ shut[s] /\ shut'[s]
    /\ \A t \in In(s) : Membership(t) # "live"
    /\ v = "panic" => \E t \in In(s) : Membership(t) = "panicked"
    /\ v = "error" => /\ \A t \in In(s) : Membership(t) # "panicked"
                      /\ Done(s) \/ \E t \in In(s) : Membership(t) = "failed"
    /\ v = "ok" => \A t \in In(s) : Membership(t) \notin {"panicked", "failed", "dropped"}
    /\ Done(s)' /\ Policy(s)' = Policy(s) /\ Members(s)' = Members(s)

Visible(s) ==
    \/ Quiet(s) \/ Closes(s)
    \/ \E t \in In(s) : Enters(s, t) \/ \E way \in Ways : Departs(s, t, way)
    \/ \E v \in {"ok", "error", "panic"} : Concludes(s, v)

\* Where a task is, by cases.
LEMMA Memberships ==
    ASSUME Shapes, NEW t \in Tasks
    PROVE  /\ Membership(t) = "out" <=> task[t] = "new"
           /\ Membership(t) = "live" <=> Live(t)
           /\ task[t] = "left" =>
                /\ how[t] = Nil => Membership(t) = "succeeded"
                /\ how[t] = NotYet => Membership(t) = "dropped"
                /\ how[t].kind = "panic" /\ ~PanicAsErr(ScopeOf(t)) => Membership(t) = "panicked"
                /\ how[t] # Nil /\ how[t] # NotYet /\ ~(how[t].kind = "panic" /\ ~PanicAsErr(ScopeOf(t)))
                     => Membership(t) = "failed"
<1>1. CASE task[t] = "new"
  BY <1>1 DEF Membership, Live
<1>2. CASE Live(t)
  BY <1>2 DEF Membership, Live
<1>3. CASE task[t] = "left"
  <2>1. ~Live(t) /\ task[t] # "new"
    BY <1>3 DEF Live
  <2>2. CASE how[t] = Nil
    BY <2>1, <2>2, KindsOf DEF Membership
  <2>3. CASE how[t] = NotYet
    BY <2>1, <2>3, KindsOf DEF Membership
  <2>4. CASE how[t].kind = "panic" /\ ~PanicAsErr(ScopeOf(t))
    BY <2>1, <2>4, KindsOf DEF Membership
  <2>5. CASE how[t] # Nil /\ how[t] # NotYet /\ ~(how[t].kind = "panic" /\ ~PanicAsErr(ScopeOf(t)))
    BY <2>1, <2>5 DEF Membership
  <2> QED BY <1>3, <2>1, <2>2, <2>3, <2>4, <2>5
<1> QED BY <1>1, <1>2, <1>3 DEF Shapes, Stages, Live

\* A step that gives no verdict on s leaves that of the group as it is.
LEMMA SameVerdict ==
    ASSUME Shapes, Kept, NEW s \in Scopes, verdict'[s] = verdict[s]
    PROVE  GroupVerdict(s)' = GroupVerdict(s)
<1>1. CASE verdict[s] = NotYet
  <2>1. GroupVerdict(s) = "pending"
    BY <1>1 DEF GroupVerdict
  <2>2. GroupVerdict(s)' = "pending"
    BY <1>1 DEF GroupVerdict
  <2> QED BY <2>1, <2>2
<1>2. CASE verdict[s] # NotYet
  <2>1. /\ panics'[s] = panics[s] /\ fell'[s] = fell[s]
        /\ \A t \in In(s) : task'[t] = task[t] /\ how'[t] = how[t]
    BY <1>2 DEF Kept, KeptVerdicts
  <2>2. Undisturbed(s)' <=> Undisturbed(s)
    BY <2>1 DEF Undisturbed, In
  <2> QED BY <2>1, <2>2 DEF GroupVerdict
<1> QED BY <1>1, <1>2

\* A step that moves nobody of s in or out, nor shuts its door.
LEMMA QuietStep ==
    ASSUME Shapes, Kept, NEW s \in Scopes, verdict'[s] = verdict[s], shut'[s] = shut[s],
           \A t \in In(s) : Membership(t)' = Membership(t)
    PROVE  Quiet(s)
<1>1. Members(s)' = Members(s)
  BY DEF Members, In
<1>2. Policy(s)' = Policy(s)
  BY DEF Kept, KeptScopes, Policy
<1> QED BY <1>1, <1>2, SameVerdict, DoneStays DEF Quiet

\* A task enters a scope while its door is open, or a task of it is running.
LEMMA EntersStep ==
    ASSUME Shapes, Inside, Kept, NEW t \in Tasks, Spawn(t)
    PROVE  Enters(ScopeOf(t), t)
<1> DEFINE s == ScopeOf(t)
<1>1. /\ task[t] = "new" /\ task' = [task EXCEPT ![t] = "spawned"]
      /\ ~shut[s] \/ \E u \in In(s) \ {Host} : task[u] = "running"
      /\ UNCHANGED <<cfg, how, userCancelled, expired, cancelled, shut, fell, errs, panics, verdict>>
  BY DEF Spawn
<1>2. s \in Scopes /\ t \in In(s)
  BY Belonging
<1>3. Membership(t) = "out"
  BY <1>1, Memberships
<1>4. ~shut[s] \/ \E u \in In(s) : Membership(u) = "live"
  <2>1. ASSUME NEW u \in In(s), task[u] = "running" PROVE Membership(u) = "live"
    BY <1>2, <2>1, Belonging, Memberships DEF Live
  <2> QED BY <1>1, <2>1
<1>5. Members(s)' = [Members(s) EXCEPT ![t] = "live"]
  <2>1. task'[t] = "spawned" /\ \A u \in In(s) \ {t} : task'[u] = task[u]
    BY <1>1, <1>2, Belonging DEF Shapes
  <2>2. Membership(t)' = "live"
    BY <2>1 DEF Membership, Live
  <2>3. ASSUME NEW u \in In(s) \ {t} PROVE Membership(u)' = Membership(u)
    BY <1>1, <2>1 DEF Membership, Live, PanicAsErr
  <2> QED BY <2>2, <2>3 DEF Members, In
<1>6. Policy(s)' = Policy(s) /\ shut'[s] = shut[s] /\ Done(s)' = Done(s)
  BY <1>1 DEF Policy, Done
<1>7. GroupVerdict(s)' = GroupVerdict(s)
  BY <1>1, <1>2, SameVerdict
<1> QED BY <1>3, <1>4, <1>5, <1>6, <1>7 DEF Enters

\* A task leaves its scope with what its function left behind, and what is to stop
\* the others has done so by then.
LEMMA DepartsStep ==
    ASSUME Shapes, Endings, Verdicts, Traces, Kept, NEW t \in Tasks, Leave(t) \/ (Start(t) /\ Done(ScopeOf(t)))
    PROVE  \E way \in Ways : Departs(ScopeOf(t), t, way)
<1> DEFINE s   == ScopeOf(t)
           way == Membership(t)'
<1>1. /\ task[t] \in {"leaving", "spawned"} /\ task' = [task EXCEPT ![t] = "left"]
      /\ task[t] = "spawned" => Done(s)
      /\ UNCHANGED <<cfg, how, userCancelled, expired, cancelled, shut, fell, errs, panics, verdict>>
  BY DEF Leave, Start
<1>2. s \in Scopes /\ t \in In(s) /\ task'[t] = "left" /\ \A u \in In(s) \ {t} : task'[u] = task[u]
  BY <1>1, Belonging DEF Shapes
<1>3. Membership(t) = "live"
  BY <1>1, Memberships DEF Live
<1>4. /\ how[t] = Nil => way = "succeeded"
      /\ how[t] = NotYet => way = "dropped"
      /\ how[t].kind = "panic" /\ ~PanicAsErr(s) => way = "panicked"
      /\ how[t] # Nil /\ how[t] # NotYet /\ ~(how[t].kind = "panic" /\ ~PanicAsErr(s)) => way = "failed"
  <2>1. ~Live(t)' /\ task'[t] # "new" /\ how' = how /\ PanicAsErr(s)' = PanicAsErr(s)
    BY <1>1, <1>2 DEF Live, PanicAsErr
  <2>2. CASE how[t] = Nil
    BY <2>1, <2>2, KindsOf DEF Membership
  <2>3. CASE how[t] = NotYet
    BY <2>1, <2>3, KindsOf DEF Membership
  <2>4. CASE how[t].kind = "panic" /\ ~PanicAsErr(s)
    BY <2>1, <2>4, KindsOf DEF Membership
  <2>5. CASE how[t] # Nil /\ how[t] # NotYet /\ ~(how[t].kind = "panic" /\ ~PanicAsErr(s))
    BY <2>1, <2>5 DEF Membership
  <2> QED BY <2>2, <2>3, <2>4, <2>5, KindsOf
<1>5. Members(s)' = [Members(s) EXCEPT ![t] = way]
  <2>1. ASSUME NEW u \in In(s) \ {t} PROVE Membership(u)' = Membership(u)
    BY <1>1, <1>2 DEF Membership, Live, PanicAsErr
  <2> QED BY <1>2, <2>1 DEF Members, In
<1>6. way \in Ways
  BY <1>4 DEF Ways
<1>7. (way = "failed" /\ Policy(s) = "FailFast") \/ way \in {"panicked", "dropped"} => Done(s)
  <2>1. CASE task[t] = "spawned"
    BY <1>1, <2>1
  <2>2. CASE task[t] = "leaving"
    <3>1. how[t] # NotYet /\ Past(t)
      BY <2>2 DEF Endings, Past
    <3>2. CASE how[t] = Nil
      BY <1>4, <3>2
    <3>3. CASE how[t].kind = "panic" /\ ~PanicAsErr(s)
      <4>1. t \in Panicked(s)
        BY <1>2, <3>1, <3>3 DEF Panicked
      <4> QED BY <1>2, <4>1 DEF Traces, Done
    <3>4. CASE how[t] # Nil /\ ~(how[t].kind = "panic" /\ ~PanicAsErr(s))
      <4>1. way = "failed"
        BY <1>4, <3>1, <3>4
      <4>2. Bad(t)
        BY <3>1, <3>4, HowKinds DEF Bad
      <4>3. t \in Failing(s)
        BY <1>2, <3>1, <3>4, <4>2 DEF Failing, Panicked
      <4> QED BY <1>2, <4>1, <4>3 DEF Traces, Done
    <3> QED BY <3>2, <3>3, <3>4
  <2> QED BY <1>1, <2>1, <2>2
<1>8. Policy(s)' = Policy(s) /\ shut'[s] = shut[s] /\ Done(s)' = Done(s)
  BY <1>1 DEF Policy, Done
<1>9. GroupVerdict(s)' = GroupVerdict(s)
  BY <1>1, <1>2, SameVerdict
<1> HIDE DEF way
<1>10. Departs(s, t, way)
  BY <1>3, <1>5, <1>7, <1>8, <1>9 DEF Departs
<1> QED BY <1>6, <1>10

\* The verdict of a Run is the one that its tasks justify.
LEMMA ConcludesStep ==
    ASSUME IInv, NEW s \in Scopes, Finalize(s)
    PROVE  \E v \in {"ok", "error", "panic"} : Concludes(s, v)
<1> USE DEF IInv
<1> DEFINE v == GroupVerdict(s)'
<1>1. /\ verdict[s] = NotYet /\ shut[s] /\ verdict'[s] = RunEnds(s) /\ cancelled'[s] = TRUE
      /\ UNCHANGED <<cfg, userCancelled, expired, shut, fell, errs, panics>>
  BY DEF Finalize, Exists, Shapes
<1>2. \A t \in In(s) : /\ task'[t] = task[t] /\ how'[t] = how[t]
                       /\ t \in Tasks /\ ScopeOf(t) = s /\ task[t] \in {"new", "left"}
  <2>1. \A t \in In(s) : t \in Tasks /\ ScopeOf(t) = s /\ task[t] \in {"new", "left"}
    BY Belonging DEF Finalize, Joined, Live, Shapes, Stages
  <2>2. CASE s = "inner"
    <3>1. \A t \in In(s) : t # Host
      BY <2>2, Belonging
    <3> QED BY <2>1, <2>2, <3>1 DEF Finalize, Ends, Shapes
  <2>3. CASE s # "inner"
    BY <2>1, <2>3 DEF Finalize
  <2> QED BY <2>1, <2>2, <2>3
<1>3. \A t \in In(s) : Membership(t)' = Membership(t) /\ Membership(t) # "live"
  BY <1>1, <1>2, Memberships DEF Membership, Live, PanicAsErr
<1>4. \A t \in In(s) :
        /\ task[t] = "new" => Membership(t) = "out" /\ how[t] = NotYet
        /\ Membership(t) = "dropped" => Done(s)
        /\ Membership(t) = "panicked" => panics[s] # <<>>
        /\ Membership(t) = "failed" => errs[s] # <<>>
        /\ Membership(t) \in {"out", "succeeded", "dropped", "panicked", "failed"}
        /\ Membership(t) \in {"succeeded", "out"} => how[t] = Nil \/ task[t] = "new"
  <2> SUFFICES ASSUME NEW t \in In(s)
               PROVE  /\ task[t] = "new" => Membership(t) = "out" /\ how[t] = NotYet
                      /\ Membership(t) = "dropped" => Done(s)
                      /\ Membership(t) = "panicked" => panics[s] # <<>>
                      /\ Membership(t) = "failed" => errs[s] # <<>>
                      /\ Membership(t) \in {"out", "succeeded", "dropped", "panicked", "failed"}
                      /\ Membership(t) \in {"succeeded", "out"} => how[t] = Nil \/ task[t] = "new"
    OBVIOUS
  <2>1. CASE task[t] = "new"
    BY <1>2, <2>1, Memberships DEF Endings
  <2>2. CASE task[t] = "left" /\ how[t] = Nil
    BY <1>2, <2>2, Memberships
  <2>3. CASE task[t] = "left" /\ how[t] = NotYet
    BY <1>2, <2>3, Memberships DEF Traces
  <2>4. CASE task[t] = "left" /\ how[t].kind = "panic" /\ ~PanicAsErr(s)
    <3>1. t \in Panicked(s)
      BY <2>4 DEF Panicked, Past
    <3> QED BY <1>2, <2>4, <3>1, Memberships DEF Traces
  <2>5. CASE task[t] = "left" /\ how[t] # Nil /\ how[t] # NotYet /\ ~(how[t].kind = "panic" /\ ~PanicAsErr(s))
    <3>1. t \in Failing(s)
      <4>1. Bad(t)
        BY <1>2, <2>5, HowKinds DEF Bad
      <4> QED BY <2>5, <4>1 DEF Failing, Panicked, Past
    <3> QED BY <1>2, <2>5, <3>1, Memberships DEF Traces
  <2> QED BY <1>2, <2>1, <2>2, <2>3, <2>4, <2>5
<1>5. /\ panics[s] # <<>> => \E t \in In(s) : Membership(t) = "panicked"
      /\ errs[s] # <<>> => \E t \in In(s) : Membership(t) = "failed"
  <2>1. ASSUME panics[s] # <<>> PROVE \E t \in In(s) : Membership(t) = "panicked"
    <3>1. panics[s][1] \in Panics(s)
      BY <2>1, Ends1 DEF Shapes
    <3>2. PICK t \in Panicked(s) : TRUE
      BY <3>1 DEF Panics
    <3>3. t \in In(s) /\ task[t] = "left" /\ how[t].kind = "panic" /\ ~PanicAsErr(s)
      BY <1>2, <3>2 DEF Panicked, Past
    <3> QED BY <1>2, <3>3, Memberships
  <2>2. ASSUME errs[s] # <<>> PROVE \E t \in In(s) : Membership(t) = "failed"
    <3>1. errs[s][1] \in Failures(s)
      BY <2>2, Ends1 DEF Shapes
    <3>2. PICK t \in Failing(s) : TRUE
      BY <3>1 DEF Failures
    <3>3. /\ t \in In(s) /\ task[t] = "left" /\ Bad(t) /\ ~(how[t].kind = "panic" /\ ~PanicAsErr(s))
      BY <1>2, <3>2 DEF Failing, Panicked, Past
    <3> QED BY <1>2, <3>3, Memberships, KindsOf DEF Bad
  <2> QED BY <2>1, <2>2
<1>6. /\ GroupVerdict(s) = "pending"
      /\ verdict'[s] # NotYet
      /\ Undisturbed(s)' <=> \/ RunEnds(s) = Nil
                             \/ fell[s] /\ \A t \in In(s) : how[t] = Nil \/ task[t] = "new"
  <2>1. verdict'[s] # NotYet
    BY <1>1, Concluding
  <2>2. In(s)' = In(s)
    BY DEF In
  <2> QED BY <1>1, <1>2, <2>1, <2>2 DEF GroupVerdict, Undisturbed
<1>7. v = IF panics[s] # <<>> THEN "panic" ELSE IF Undisturbed(s)' THEN "ok" ELSE "error"
  <2>1. panics' = panics
    BY <1>1
  <2>2. CASE panics[s] # <<>>
    BY <1>6, <2>1, <2>2 DEF GroupVerdict
  <2>3. CASE panics[s] = <<>> /\ Undisturbed(s)'
    BY <1>6, <2>1, <2>3 DEF GroupVerdict
  <2>4. CASE panics[s] = <<>> /\ ~Undisturbed(s)'
    BY <1>6, <2>1, <2>4 DEF GroupVerdict
  <2> QED BY <2>2, <2>3, <2>4
<1>8. Members(s)' = Members(s) /\ Policy(s)' = Policy(s) /\ Done(s)' /\ shut'[s]
  BY <1>1, <1>3 DEF Members, In, Policy, Done
<1>9. ~fell[s] /\ panics[s] = <<>> /\ RunEnds(s) = Nil => errs[s] = <<>> /\ ~Done(s)
  <2>1. ~fell[s] /\ panics[s] = <<>> /\ errs[s] = <<>> /\ Done(s) => RunEnds(s).kind = "ctx"
    BY KindsOf DEF RunEnds, Aggregate
  <2>2. ~fell[s] /\ panics[s] = <<>> /\ errs[s] # <<>> => RunEnds(s).kind \in {"task", "join"}
    <3>1. errs[s] # <<>> => errs[s][1].kind = "task"
      <4>1. errs[s] # <<>> => errs[s][1] \in Failures(s)
        BY Ends1 DEF Shapes
      <4> QED BY <4>1, KindsOf DEF Failures
    <3> QED BY <3>1, Concluding, KindsOf
  <2> QED BY <2>1, <2>2, KindsOf
<1>10. panics[s] = <<>> /\ Undisturbed(s)' =>
          \A t \in In(s) : Membership(t) \notin {"panicked", "failed", "dropped"}
  <2>1. CASE fell[s]
    <3>1. fell[s] => RunEnds(s) # Nil
      BY Concluding, KindsOf
    <3>2. ASSUME NEW t \in In(s), how[t] = Nil \/ task[t] = "new"
          PROVE  Membership(t) \notin {"panicked", "failed", "dropped"}
      BY <1>2, <1>4, <3>2, Memberships
    <3> QED BY <1>6, <2>1, <3>1, <3>2
  <2>2. CASE ~fell[s]
    BY <1>4, <1>6, <1>9, <2>2
  <2> QED BY <1>1, <2>1, <2>2
<1>11. panics[s] = <<>> /\ ~Undisturbed(s)' => Done(s) \/ \E t \in In(s) : Membership(t) = "failed"
  <2>1. CASE fell[s]
    BY <1>4, <1>6, <2>1
  <2>2. CASE ~fell[s]
    BY <1>5, <1>6, <2>2, Concluding
  <2> QED BY <2>1, <2>2
<1> HIDE DEF v
<1>12. Concludes(s, v)
  <2>1. v = GroupVerdict(s)'
    BY DEF v
  <2> QED BY <2>1, <1>1, <1>3, <1>4, <1>5, <1>6, <1>7, <1>8, <1>10, <1>11 DEF Concludes
<1>13. v \in {"ok", "error", "panic"}
  BY <1>7
<1> QED BY <1>12, <1>13

\* What either group sees of any step.
LEMMA Seen == ASSUME IInv, [Next]_vars, NEW s \in Scopes PROVE Visible(s)
<1> USE DEF IInv
<1>0. Kept
  BY KeptNext
<1>1. CASE UNCHANGED vars
  <2>1. \A t \in In(s) : Membership(t)' = Membership(t)
    BY <1>1 DEF vars, Membership, Live, PanicAsErr
  <2> QED BY <1>0, <1>1, <2>1, QuietStep DEF vars, Visible
<1>2. ASSUME NEW t \in Tasks, Spawn(t) \/ Start(t) \/ Leave(t) \/ Record(t) \/ FnEnds(t),
             verdict'[s] = verdict[s], shut'[s] = shut[s], cfg' = cfg,
             s = ScopeOf(t) => Live(t) /\ Live(t)'
      PROVE  Visible(s)
  <2>1. \A u \in Tasks : u # t => task'[u] = task[u] /\ how'[u] = how[u]
    BY <1>2 DEF Spawn, Start, Leave, Record, FnEnds, Ends, Shapes
  <2>2. ASSUME NEW u \in In(s) PROVE Membership(u)' = Membership(u)
    <3>1. CASE u # t
      BY <1>2, <2>1, <3>1, Belonging DEF Membership, Live, PanicAsErr
    <3>2. CASE u = t
      BY <1>2, <3>2, Belonging DEF Membership, Live
    <3> QED BY <3>1, <3>2
  <2> QED BY <1>0, <1>2, <2>2, QuietStep DEF Visible
<1>3. ASSUME NEW t \in Tasks, Spawn(t) PROVE Visible(s)
  <2>1. CASE s = ScopeOf(t)
    BY <1>0, <1>3, <2>1, EntersStep, Belonging DEF Visible
  <2>2. CASE s # ScopeOf(t)
    BY <1>2, <1>3, <2>2 DEF Spawn
  <2> QED BY <2>1, <2>2
<1>4. ASSUME NEW t \in Tasks, Leave(t) \/ (Start(t) /\ Done(ScopeOf(t))) PROVE Visible(s)
  <2>1. CASE s = ScopeOf(t)
    BY <1>0, <1>4, <2>1, DepartsStep, Belonging DEF Visible
  <2>2. CASE s # ScopeOf(t)
    BY <1>2, <1>4, <2>2 DEF Leave, Start
  <2> QED BY <2>1, <2>2
<1>5. ASSUME NEW t \in Tasks, (Start(t) /\ ~Done(ScopeOf(t))) \/ Record(t) \/ FnEnds(t) PROVE Visible(s)
  <2>1. task[t] \in {"spawned", "running", "ended"} /\ task'[t] \in {"running", "ended", "leaving"}
    BY <1>5 DEF Start, Record, FnEnds, Ends, Shapes
  <2>2. UNCHANGED <<cfg, shut, verdict>>
    BY <1>5 DEF Start, Record, FnEnds
  <2> QED BY <1>2, <1>5, <2>1, <2>2 DEF Live
<1>6. ASSUME NEW r \in Scopes, Shut(r) PROVE Visible(s)
  <2>1. \A t \in In(s) : Membership(t)' = Membership(t)
    BY <1>6 DEF Shut, Membership, Live, PanicAsErr
  <2>2. verdict' = verdict /\ cfg' = cfg /\ Done(s)' = Done(s)
    BY <1>6 DEF Shut, Done
  <2>3. CASE r # s
    <3>1. shut'[s] = shut[s]
      BY <1>6, <2>3 DEF Shut, Shapes
    <3> QED BY <1>0, <2>1, <2>2, <3>1, QuietStep DEF Visible
  <2>4. CASE r = s
    <3>1. ~shut[s] /\ shut'[s]
      BY <1>6, <2>4 DEF Shut, Shapes
    <3>2. Members(s)' = Members(s) /\ Policy(s)' = Policy(s)
      BY <2>1, <2>2 DEF Members, In, Policy
    <3> QED BY <1>0, <2>2, <3>1, <3>2, SameVerdict DEF Closes, Visible
  <2> QED BY <2>3, <2>4
<1>7. ASSUME NEW r \in Scopes, Finalize(r) PROVE Visible(s)
  <2>1. CASE r = s
    BY <1>7, <2>1, ConcludesStep DEF Visible
  <2>2. CASE r # s
    <3>1. verdict'[s] = verdict[s] /\ shut' = shut /\ cfg' = cfg
      BY <1>7, <2>2 DEF Finalize, Shapes
    <3>2. CASE r = "inner"
      <4>1. /\ task[Host] = "running" /\ task'[Host] = "ended"
            /\ \A u \in Tasks \ {Host} : task'[u] = task[u] /\ how'[u] = how[u]
        BY <1>7, <3>2, Belonging DEF Finalize, Exists, Ends, Shapes
      <4>2. ASSUME NEW u \in In(s) PROVE Membership(u)' = Membership(u)
        <5>1. CASE u = Host
          BY <4>1, <5>1 DEF Membership, Live
        <5>2. CASE u # Host
          BY <3>1, <4>1, <5>2, Belonging DEF Membership, Live, PanicAsErr
        <5> QED BY <5>1, <5>2
      <4> QED BY <1>0, <3>1, <4>2, QuietStep DEF Visible
    <3>3. CASE r # "inner"
      <4>1. task' = task /\ how' = how
        BY <1>7, <3>3 DEF Finalize
      <4>2. \A u \in In(s) : Membership(u)' = Membership(u)
        BY <3>1, <4>1 DEF Membership, Live, PanicAsErr
      <4> QED BY <1>0, <3>1, <4>2, QuietStep DEF Visible
    <3> QED BY <3>2, <3>3
  <2> QED BY <2>1, <2>2
<1>8. CASE UserCancel \/ Expire
  <2>1. UNCHANGED <<cfg, task, how, shut, verdict>>
    BY <1>8 DEF UserCancel, Expire
  <2>2. \A u \in In(s) : Membership(u)' = Membership(u)
    BY <2>1 DEF Membership, Live, PanicAsErr
  <2> QED BY <1>0, <2>1, <2>2, QuietStep DEF Visible
<1> QED BY <1>1, <1>3, <1>4, <1>5, <1>6, <1>7, <1>8 DEF Next, TaskStep

\* The outer scope as a group, and the inner.
LEMMA OuterGroupInit == Init => OuterGroup!Init
<1> SUFFICES ASSUME Init PROVE OuterGroup!Init
  OBVIOUS
<1>1. \A t \in In("outer") : Membership(t) = "out"
  BY Belonging DEF Init, Membership
<1>2. ~shut["outer"] /\ ~Done("outer") /\ GroupVerdict("outer") = "pending"
  BY Belonging DEF Init, Done, GroupVerdict
<1>3. (Policy("outer") = "FailFast") \in BOOLEAN
  OBVIOUS
<1> QED BY <1>1, <1>2, <1>3 DEF OuterGroup!Init

LEMMA OuterGroupStep == IInv /\ [Next]_vars => [OuterGroup!Next]_(OuterGroup!gvars)
<1> SUFFICES ASSUME IInv, [Next]_vars PROVE [OuterGroup!Next]_(OuterGroup!gvars)
  OBVIOUS
<1> DEFINE M == [t \in In("outer") |-> Membership(t)]
<1>1. Visible("outer")
  BY Seen, Belonging
<1>2. M = Members("outer") /\ M' = Members("outer")' /\ In("outer") = In("outer")
  BY Belonging DEF Members, In
<1>3. \A t \in In("outer") : M[t] = Membership(t)
  OBVIOUS
<1> HIDE DEF M
<1>4. CASE Quiet("outer")
  <2>1. CASE Done("outer")' = Done("outer")
    BY <1>2, <1>4, <2>1 DEF Quiet, OuterGroup!gvars, M
  <2>2. CASE ~Done("outer") /\ Done("outer")'
    <3>1. OuterGroup!Stop
      BY <1>2, <1>4, <2>2 DEF Quiet, OuterGroup!Stop, M
    <3> QED BY <3>1 DEF OuterGroup!Next
  <2>3. Done("outer") \in BOOLEAN /\ Done("outer")' \in BOOLEAN
    BY DEF Done
  <2> QED BY <1>4, <2>1, <2>2, <2>3 DEF Quiet
<1>5. CASE Closes("outer")
  <2>1. OuterGroup!ShutDoor
    BY <1>2, <1>5 DEF Closes, OuterGroup!ShutDoor, M
  <2> QED BY <2>1 DEF OuterGroup!Next
<1>6. ASSUME NEW t \in In("outer"), Enters("outer", t) PROVE [OuterGroup!Next]_(OuterGroup!gvars)
  <2>1. OuterGroup!Admit(t)
    BY <1>2, <1>3, <1>6 DEF Enters, OuterGroup!Admit, OuterGroup!LiveMembers, M
  <2> QED BY <2>1 DEF OuterGroup!Next
<1>7. ASSUME NEW t \in In("outer"), NEW way \in Ways, Departs("outer", t, way)
      PROVE  [OuterGroup!Next]_(OuterGroup!gvars)
  <2>1. OuterGroup!Leave(t, way)
    BY <1>2, <1>3, <1>7 DEF Departs, OuterGroup!Leave, M
  <2> QED BY <2>1 DEF OuterGroup!Next, OuterGroup!Departed, Ways
<1>8. ASSUME NEW v \in {"ok", "error", "panic"}, Concludes("outer", v)
      PROVE  [OuterGroup!Next]_(OuterGroup!gvars)
  <2>1. OuterGroup!Justified(v)
    BY <1>2, <1>3, <1>8 DEF Concludes, OuterGroup!Justified, OuterGroup!Left, M
  <2>2. OuterGroup!LiveMembers = {}
    BY <1>2, <1>3, <1>8 DEF Concludes, OuterGroup!LiveMembers, M
  <2>3. OuterGroup!Decide(v)
    BY <1>2, <1>8, <2>1, <2>2 DEF Concludes, OuterGroup!Decide, M
  <2> QED BY <2>3 DEF OuterGroup!Next
<1> QED BY <1>1, <1>2, <1>4, <1>5, <1>6, <1>7, <1>8 DEF Visible

LEMMA InnerGroupInit == Init => InnerGroup!Init
<1> SUFFICES ASSUME Init PROVE InnerGroup!Init
  OBVIOUS
<1>1. \A t \in InnerLeaves : Membership(t) = "out"
  BY Belonging DEF Init, Membership
<1>2. ~shut["inner"] /\ ~Done("inner") /\ GroupVerdict("inner") = "pending"
  BY Belonging DEF Init, Done, GroupVerdict
<1>3. (Policy("inner") = "FailFast") \in BOOLEAN
  OBVIOUS
<1> QED BY <1>1, <1>2, <1>3 DEF InnerGroup!Init

LEMMA InnerGroupStep == IInv /\ [Next]_vars => [InnerGroup!Next]_(InnerGroup!gvars)
<1> SUFFICES ASSUME IInv, [Next]_vars PROVE [InnerGroup!Next]_(InnerGroup!gvars)
  OBVIOUS
<1> DEFINE M == [t \in InnerLeaves |-> Membership(t)]
<1>1. Visible("inner")
  BY Seen, Belonging
<1>2. M = Members("inner") /\ M' = Members("inner")' /\ In("inner") = InnerLeaves
  BY Belonging DEF Members, In
<1>3. \A t \in InnerLeaves : M[t] = Membership(t)
  OBVIOUS
<1> HIDE DEF M
<1>4. CASE Quiet("inner")
  <2>1. CASE Done("inner")' = Done("inner")
    BY <1>2, <1>4, <2>1 DEF Quiet, InnerGroup!gvars, M
  <2>2. CASE ~Done("inner") /\ Done("inner")'
    <3>1. InnerGroup!Stop
      BY <1>2, <1>4, <2>2 DEF Quiet, InnerGroup!Stop, M
    <3> QED BY <3>1 DEF InnerGroup!Next
  <2>3. Done("inner") \in BOOLEAN /\ Done("inner")' \in BOOLEAN
    BY DEF Done
  <2> QED BY <1>4, <2>1, <2>2, <2>3 DEF Quiet
<1>5. CASE Closes("inner")
  <2>1. InnerGroup!ShutDoor
    BY <1>2, <1>5 DEF Closes, InnerGroup!ShutDoor, M
  <2> QED BY <2>1 DEF InnerGroup!Next
<1>6. ASSUME NEW t \in InnerLeaves, Enters("inner", t) PROVE [InnerGroup!Next]_(InnerGroup!gvars)
  <2>1. InnerGroup!Admit(t)
    BY <1>2, <1>3, <1>6 DEF Enters, InnerGroup!Admit, InnerGroup!LiveMembers, M
  <2> QED BY <2>1 DEF InnerGroup!Next
<1>7. ASSUME NEW t \in InnerLeaves, NEW way \in Ways, Departs("inner", t, way)
      PROVE  [InnerGroup!Next]_(InnerGroup!gvars)
  <2>1. InnerGroup!Leave(t, way)
    BY <1>2, <1>3, <1>7 DEF Departs, InnerGroup!Leave, M
  <2> QED BY <2>1 DEF InnerGroup!Next, InnerGroup!Departed, Ways
<1>8. ASSUME NEW v \in {"ok", "error", "panic"}, Concludes("inner", v)
      PROVE  [InnerGroup!Next]_(InnerGroup!gvars)
  <2>1. InnerGroup!Justified(v)
    BY <1>2, <1>3, <1>8 DEF Concludes, InnerGroup!Justified, InnerGroup!Left, M
  <2>2. InnerGroup!LiveMembers = {}
    BY <1>2, <1>3, <1>8 DEF Concludes, InnerGroup!LiveMembers, M
  <2>3. InnerGroup!Decide(v)
    BY <1>2, <1>8, <2>1, <2>2 DEF Concludes, InnerGroup!Decide, M
  <2> QED BY <2>3 DEF InnerGroup!Next
<1> QED BY <1>1, <1>2, <1>4, <1>5, <1>6, <1>7, <1>8 DEF Visible

\* Both scopes implement the abstract specification of a scope, and one encloses the
\* other: SpawnScope promises of the inner scope what Run promises of the outer
\* (scope.go:110-137, helpers.go:171-203).
THEOREM Nesting == Spec => ScopesNest
<1>1. IInv => InnerWithinOuter
  BY DEF IInv, Inside
<1>2. Spec => OuterGroup!Spec
  BY OuterGroupInit, OuterGroupStep, Invariance, PTL DEF Spec, OuterGroup!Spec
<1>3. Spec => InnerGroup!Spec
  BY InnerGroupInit, InnerGroupStep, Invariance, PTL DEF Spec, InnerGroup!Spec
<1> QED BY <1>1, <1>2, <1>3, Invariance, PTL DEF ScopesNest

=============================================================================
