--------------------------- MODULE HelpersProofs ---------------------------
(***************************************************************************)
(* Proofs about the module Helpers, for any number of items, racers and    *)
(* attempts and any limit: what ForEachSlice, MapSlice, Race and           *)
(* SpawnRetry answer is true.  The invariant has a part for each of them.  *)
(* The part for slices rests on arithmetic: the items that a worker of the *)
(* fast path steps through, Stride apart, are its own, and the workers     *)
(* together come to every item.                                            *)
(***************************************************************************)
EXTENDS Helpers, FiniteSetTheorems, SequenceTheorems, TLAPS

\* The items of a goroutine: every Width-th one, from its own number on.  Without
\* the fast path it has only that one.
Width == IF FastPath THEN Stride ELSE cfg.n
Every(w, g) == {g + k * w : k \in Nat}
Mine(g) == Every(Width, g)

Places == {"new", "admitted", "loop", "call", "send", "backoff", "gone"}
AtPlaces(places) == {g \in Gors : gor[g].pc \in places}
Slots == AtPlaces({"admitted", "loop", "call"})

\* What the variables hold.
Options == [kind : Kinds, n : 0 .. MaxCalls, limit : Limits,
            policy : {"FailFast", "Collect"}, hooks : BOOLEAN]
Positions == [pc : Places, at : Nat \ {0}]
Endings == [kind : {"none", "nil", "err", "ctx"}, call : Nat]

Shapes ==
    /\ cfg \in Options
    /\ cfg.kind = "retry" => cfg.n > 0
    /\ count \in [Calls -> Nat]
    /\ outcome \in [Calls -> {"none", "running", "ok", "err"}]
    /\ gor \in [Gors -> Positions]
    /\ cut \in BOOLEAN /\ parent \in BOOLEAN /\ (parent => cut)
    /\ blame \in Calls \cup {0}
    /\ results \in [Calls -> {"zero", "value", "err"}]
    /\ chan \in Seq(Gors) /\ taken \in 0 .. Len(chan) /\ closed \in BOOLEAN
    /\ delay \in Nat /\ waited \in Seq(Nat)
    /\ answer \in Endings

\* A call is made when its outcome begins, and never again.
Once == \A i \in Calls : count[i] = IF outcome[i] = "none" THEN 0 ELSE 1

\* A goroutine of a slice has done its items one after the other.
Stands(g) ==
    /\ gor[g].pc \in {"new", "admitted", "loop", "call", "gone"}
    /\ gor[g].at \in Mine(g)
    /\ ~FastPath => gor[g].at = g
    /\ gor[g].pc = "call" => gor[g].at \in Calls
    /\ FastPath /\ gor[g].pc = "gone" => cut \/ gor[g].at > cfg.n
    /\ \A i \in Mine(g) \cap Calls :
        /\ i < gor[g].at => outcome[i] = "ok"
        /\ i > gor[g].at => outcome[i] = "none"
        /\ i = gor[g].at =>
            /\ gor[g].pc \in {"new", "admitted", "loop"} => outcome[i] = "none"
            /\ outcome[i] = "running" <=> gor[g].pc = "call"
            /\ gor[g].pc = "gone" /\ outcome[i] = "none" => cut

\* What the scope under a slice has recorded.
Recording ==
    /\ \A i \in Calls : outcome[i] = "err" =>
        (Recorded => blame # 0) /\ (cfg.policy = "FailFast" => cut)
    /\ blame # 0 => outcome[blame] = "err"
    /\ cut /\ blame = 0 /\ answer.kind = "none" => parent

Filled == \A i \in Calls : /\ results[i] = "value" <=> outcome[i] = "ok"
                           /\ results[i] = "err" <=> outcome[i] = "err"

SliceAnswer ==
    /\ answer.kind # "none" => \A g \in Gors : At(g, "gone")
    /\ answer.kind = "nil" => \A i \in Calls : outcome[i] = "ok" \/ (~Recorded /\ outcome[i] = "err")
    /\ answer.kind = "err" => answer.call \in Calls /\ outcome[answer.call] = "err"
    /\ answer.kind = "ctx" => parent
    /\ cfg.kind = "map" /\ (answer.kind \in {"none", "nil"} \/ cfg.policy = "Collect") => Filled

SliceInv ==
    /\ \A g \in Gors : Stands(g)
    /\ cfg.limit > 0 => Cardinality(Slots) <= cfg.limit
    /\ Recording
    /\ SliceAnswer

\* A racer that is gone has sent; those the reader has taken have failed, but for
\* the last one if it won.
RaceInv ==
    /\ \A g \in Gors :
        /\ gor[g].pc \in {"call", "send", "gone"}
        /\ outcome[g] # "none" /\ (outcome[g] = "running" <=> gor[g].pc = "call")
        /\ gor[g].pc = "gone" <=> \E k \in 1 .. Len(chan) : chan[k] = g
    /\ closed => \A g \in Gors : At(g, "gone")
    /\ cfg.n > 0 /\ answer.kind # "none" => cut
    /\ cfg.n = 0 => answer.kind = "nil"
    /\ answer.kind = "none" =>
        /\ \A j \in 1 .. taken : outcome[chan[j]] = "err"
        /\ taken > 0 => blame = chan[taken]
    /\ cfg.n > 0 /\ answer.kind = "nil" =>
        /\ taken > 0 /\ chan[taken] = answer.call /\ outcome[chan[taken]] = "ok"
        /\ \A j \in 1 .. taken - 1 : outcome[chan[j]] = "err"
    /\ answer.kind \in {"err", "ctx"} =>
        /\ \A g \in Gors : At(g, "gone")
        /\ \A i \in Calls : outcome[i] = "err"
    /\ answer.kind = "err" => answer.call = chan[Len(chan)]
    /\ answer.kind = "ctx" => parent

\* SpawnRetry has failed in every attempt but the last it made.
RetryInv ==
    /\ gor[1].at \in Calls /\ gor[1].pc \in {"new", "call", "backoff", "gone"}
    /\ \A j \in Calls : /\ j < gor[1].at => outcome[j] = "err"
                        /\ j > gor[1].at => outcome[j] = "none"
    /\ gor[1].pc = "new" => gor[1].at = 1 /\ outcome[1] = "none"
    /\ gor[1].pc = "call" => outcome[gor[1].at] = "running"
    /\ gor[1].pc = "backoff" => outcome[gor[1].at] = "err" /\ gor[1].at < cfg.n
    /\ Doubling
    /\ Len(waited) = gor[1].at - 1
    /\ delay = IF waited = <<>> THEN 1 ELSE 2 * waited[Len(waited)]
    /\ answer.kind = "none" <=> gor[1].pc # "gone"
    /\ answer.kind = "nil" => answer.call \in Calls /\ outcome[answer.call] = "ok"
    /\ answer.kind = "err" => \A i \in Calls : outcome[i] = "err"
    /\ answer.kind = "ctx" => cut /\ \E i \in Calls : outcome[i] = "none"

IInv ==
    /\ Shapes /\ Once
    /\ cfg.kind \in Slices => SliceInv
    /\ cfg.kind = "race" => RaceInv
    /\ cfg.kind = "retry" => RetryInv
-----------------------------------------------------------------------------
(* Numbers that lie w apart *)

\* Division with remainder.
LEMMA Division ==
    ASSUME NEW w \in Nat \ {0}, NEW i \in Nat
    PROVE  i = w * (i \div w) + (i % w) /\ i \div w \in Nat /\ i % w \in 0 .. w - 1
  BY Z3

\* Two of the first w numbers have nothing in common w apart.
LEMMA Apart ==
    ASSUME NEW w \in Nat \ {0}, NEW g \in 1 .. w, NEW h \in 1 .. w,
           NEW k \in Nat, NEW l \in Nat, g + k * w = h + l * w
    PROVE  g = h
<1>1. CASE k < l
  <2>1. (l - k) * w >= w
    BY <1>1
  <2>2. l * w - k * w = (l - k) * w
    OBVIOUS
  <2> QED BY <2>1, <2>2
<1>2. CASE l < k
  <2>1. (k - l) * w >= w
    BY <1>2
  <2>2. k * w - l * w = (k - l) * w
    OBVIOUS
  <2> QED BY <2>1, <2>2
<1>3. CASE l = k
  BY <1>3
<1> QED BY <1>1, <1>2, <1>3

\* From g on, every w-th number: g itself, then always w further, none between.
LEMMA EveryNext ==
    ASSUME NEW w \in Nat \ {0}, NEW g \in 1 .. w
    PROVE  /\ g \in Every(w, g)
           /\ \A a \in Every(w, g) : a \in Nat \ {0} /\ a + w \in Every(w, g)
           /\ \A a, b \in Every(w, g) : a < b => a + w <= b
<1>1. g \in Every(w, g)
  <2>1. g = g + 0 * w
    OBVIOUS
  <2> QED BY <2>1 DEF Every
<1>2. ASSUME NEW a \in Every(w, g) PROVE a \in Nat \ {0} /\ a + w \in Every(w, g)
  <2>1. PICK k \in Nat : a = g + k * w
    BY DEF Every
  <2>2. a + w = g + (k + 1) * w /\ k + 1 \in Nat
    BY <2>1
  <2>3. k * w \in Nat
    OBVIOUS
  <2>4. a + w \in Every(w, g)
    BY <2>2 DEF Every
  <2> QED BY <2>1, <2>3, <2>4
<1>3. ASSUME NEW a \in Every(w, g), NEW b \in Every(w, g), a < b PROVE a + w <= b
  <2>1. PICK k \in Nat : a = g + k * w
    BY DEF Every
  <2>2. PICK l \in Nat : b = g + l * w
    BY DEF Every
  <2>3. CASE k < l
    <3>1. (l - k) * w >= w
      BY <2>3
    <3>2. b - a = (l - k) * w
      BY <2>1, <2>2
    <3>3. a \in Nat /\ b \in Nat
      BY <1>2
    <3> QED BY <3>1, <3>2, <3>3
  <2>4. CASE l <= k
    <3>1. (k - l) * w >= 0
      BY <2>4
    <3>2. a - b = (k - l) * w
      BY <2>1, <2>2
    <3>3. a \in Nat /\ b \in Nat
      BY <1>2
    <3> QED BY <1>3, <3>1, <3>2, <3>3
  <2> QED BY <2>3, <2>4
<1> QED BY <1>1, <1>2, <1>3

\* Everybody's numbers are their own.
LEMMA EveryApart ==
    ASSUME NEW w \in Nat \ {0}, NEW g \in 1 .. w, NEW h \in 1 .. w, NEW i \in Every(w, g),
           i \in Every(w, h)
    PROVE  g = h
<1>1. PICK k \in Nat : i = g + k * w
  BY DEF Every
<1>2. PICK l \in Nat : i = h + l * w
  BY DEF Every
<1> QED BY <1>1, <1>2, Apart

\* No number is left out.
LEMMA EveryCovers ==
    ASSUME NEW w \in Nat \ {0}, NEW i \in Nat \ {0}
    PROVE  \E g \in 1 .. w : i \in Every(w, g)
<1> DEFINE k == (i - 1) \div w
           r == (i - 1) % w
<1>0. i - 1 \in Nat
  OBVIOUS
<1>1. i - 1 = w * k + r /\ k \in Nat /\ r \in 0 .. w - 1
  BY <1>0, Division
<1> HIDE DEF k, r
<1>2. w * k = k * w /\ k * w \in Nat
  BY <1>1
<1> DEFINE p == k * w
<1>a. i - 1 = p + r /\ p \in Nat
  BY <1>1, <1>2
<1> HIDE DEF p
<1>b. r + 1 \in 1 .. w /\ i = (r + 1) + p
  BY <1>1, <1>a
<1>3. r + 1 \in 1 .. w /\ i = (r + 1) + k * w
  BY <1>b DEF p
<1> QED BY <1>1, <1>3 DEF Every

-----------------------------------------------------------------------------
(* The goroutines and their items *)

SliceSteps == \E g \in Gors : Admit(g) \/ Skip(g) \/ StartTask(g) \/ CallItem(g) \/ LeaveLoop(g)
                              \/ ItemDone(g) \/ ItemFails(g)

\* No step changes the configuration, or what is derived from it.
LEMMA Fixed ==
    ASSUME cfg' = cfg
    PROVE  /\ Calls' = Calls /\ Gors' = Gors /\ FastPath' = FastPath /\ Width' = Width
           /\ Stride' = Stride /\ Recorded' = Recorded
           /\ \A g : Mine(g)' = Mine(g)
<1>1. Calls' = Calls /\ Gors' = Gors /\ FastPath' = FastPath
  BY DEF Calls, Gors, Goroutines, FastPath, shouldUseWorkerFastPath, workerCount
<1>2. Stride' = Stride /\ Recorded' = Recorded
  BY DEF Stride, workerCount, Recorded
<1>3. Width' = Width
  BY <1>1, <1>2 DEF Width
<1> QED BY <1>1, <1>2, <1>3 DEF Mine, Every

\* The configurations, as numbers.
LEMMA Numbers ==
    ASSUME Shapes
    PROVE  /\ cfg.n \in Nat /\ cfg.limit \in Nat /\ Calls = 1 .. cfg.n
           /\ cfg.kind \in {"forEach", "map", "race", "retry"}
           /\ cfg.kind = "retry" => Gors = {1} /\ 1 \in Calls /\ ~FastPath
           /\ cfg.kind = "race" => Gors = Calls /\ ~FastPath
           /\ FastPath => /\ cfg.kind \in Slices /\ cfg.policy = "FailFast"
                          /\ cfg.limit > 0 /\ Stride \in 1 .. cfg.n /\ Gors = 1 .. Stride
           /\ cfg.kind \in Slices /\ ~FastPath => Gors = Calls
<1>1. /\ cfg.n \in Nat /\ cfg.limit \in Nat /\ Calls = 1 .. cfg.n
      /\ cfg.kind \in {"forEach", "map", "race", "retry"}
  <2>1. cfg \in Options
    BY DEF Shapes
  <2>2. cfg.n \in 0 .. MaxCalls /\ cfg.limit \in Limits /\ cfg.kind \in Kinds
    BY <2>1 DEF Options
  <2>3. cfg.kind \in {"forEach", "map", "race", "retry"}
    BY <2>2, HelpersAssumption
  <2>4. cfg.limit \in Nat
    BY <2>2, HelpersAssumption
  <2>5. cfg.n \in Nat
    BY <2>2, HelpersAssumption
  <2> QED BY <2>3, <2>4, <2>5 DEF Calls
<1>2. cfg.kind = "retry" => Gors = {1} /\ 1 \in Calls /\ ~FastPath
  BY <1>1 DEF Shapes, Gors, Goroutines, FastPath, shouldUseWorkerFastPath, Slices
<1>3. cfg.kind = "race" => Gors = Calls /\ ~FastPath
  BY <1>1 DEF Gors, Goroutines, FastPath, shouldUseWorkerFastPath, Slices, Calls
<1>4. FastPath => /\ cfg.kind \in Slices /\ cfg.policy = "FailFast"
                  /\ cfg.limit > 0 /\ Stride \in 1 .. cfg.n /\ Gors = 1 .. Stride
  <2> SUFFICES ASSUME FastPath
               PROVE  /\ cfg.kind \in Slices /\ cfg.policy = "FailFast"
                      /\ cfg.limit > 0 /\ Stride \in 1 .. cfg.n /\ Gors = 1 .. Stride
    OBVIOUS
  <2>1. cfg.kind \in Slices /\ cfg.n > 0 /\ cfg.limit > 0 /\ cfg.policy = "FailFast"
    BY DEF FastPath, shouldUseWorkerFastPath
  <2>2. Gors = 1 .. Stride
    BY DEF FastPath, Gors, Goroutines, Stride
  <2>3. Stride \in 1 .. cfg.n
    BY <1>1, <2>1 DEF Stride, workerCount
  <2> QED BY <2>1, <2>2, <2>3
<1>5. cfg.kind \in Slices /\ ~FastPath => Gors = Calls
  BY DEF Gors, Goroutines, FastPath, Slices, Calls
<1> QED BY <1>1, <1>2, <1>3, <1>4, <1>5

\* The goroutines of a slice divide its items among them: each has its own,
\* beginning with its number, and none is left out.
LEMMA Shares ==
    ASSUME Shapes, cfg.kind \in Slices
    PROVE  /\ \A g \in Gors : g \in Mine(g) /\ g \in Calls /\ Width \in Nat \ {0}
           /\ \A g \in Gors : \A a \in Mine(g) : a \in Nat \ {0} /\ a + Width \in Mine(g)
           /\ \A g \in Gors : \A a, b \in Mine(g) : a < b => a + Width <= b
           /\ \A g, h \in Gors : \A i \in Mine(g) : i \in Mine(h) => g = h
           /\ \A i \in Calls : \E g \in Gors : i \in Mine(g)
           /\ ~FastPath => \A g \in Gors : Mine(g) \cap Calls = {g}
<1>1. cfg.n \in Nat /\ Calls = 1 .. cfg.n /\ Gors = 1 .. Width /\ Width \in Nat /\ Width <= cfg.n
  BY Numbers DEF Width
<1>2. \A i \in Calls : Width \in Nat \ {0}
  BY <1>1, Numbers DEF Width
<1>3. ASSUME NEW g \in Gors
      PROVE  /\ g \in Mine(g) /\ g \in Calls /\ Width \in Nat \ {0}
             /\ \A a \in Mine(g) : a \in Nat \ {0} /\ a + Width \in Mine(g)
             /\ \A a, b \in Mine(g) : a < b => a + Width <= b
  <2>1. Width \in Nat \ {0} /\ g \in 1 .. Width /\ g \in Calls
    BY <1>1
  <2> QED BY <2>1, EveryNext DEF Mine
<1>4. ASSUME NEW g \in Gors, NEW h \in Gors, NEW i \in Mine(g), i \in Mine(h) PROVE g = h
  <2>1. Width \in Nat \ {0} /\ g \in 1 .. Width /\ h \in 1 .. Width
    BY <1>1
  <2> QED BY <1>4, <2>1, EveryApart DEF Mine
<1>5. ASSUME NEW i \in Calls PROVE \E g \in Gors : i \in Mine(g)
  <2>1. Width \in Nat \ {0} /\ i \in Nat \ {0}
    BY <1>1, <1>2
  <2> QED BY <1>1, <2>1, EveryCovers DEF Mine
<1>6. ASSUME ~FastPath, NEW g \in Gors, NEW i \in Mine(g) \cap Calls PROVE i = g
  <2>1. i \in Gors
    BY <1>6, Numbers
  <2> QED BY <1>3, <1>4, <2>1
<1>7. ~FastPath => \A g \in Gors : Mine(g) \cap Calls = {g}
  BY <1>3, <1>6
<1> QED BY <1>3, <1>4, <1>5, <1>7

-----------------------------------------------------------------------------
(* Shapes, and that no call is made twice *)

\* At first no call has been made, but for the racers, which are under way.
LEMMA InitIInv == Init => IInv
<1> SUFFICES ASSUME Init PROVE IInv
  OBVIOUS
<1> USE DEF Init
<1>1. cfg \in Options
  BY DEF Options
<1>2. gor \in [Gors -> Positions]
  <2>1. \A g \in Gors : g \in Nat \ {0}
    BY <1>1 DEF Gors, Goroutines
  <2> QED BY <2>1 DEF Places, Positions
<1>3. chan \in Seq(Gors) /\ waited \in Seq(Nat) /\ Len(chan) = 0 /\ Len(waited) = 0
  OBVIOUS
<1>4. Shapes
  <2>1. answer \in Endings
    BY DEF Endings, Ret
  <2>2. count \in [Calls -> Nat] /\ outcome \in [Calls -> {"none", "running", "ok", "err"}]
    OBVIOUS
  <2>3. results \in [Calls -> {"zero", "value", "err"}]
    OBVIOUS
  <2>6. taken \in 0 .. Len(chan)
    BY <1>3
  <2>4. cut = FALSE /\ parent = FALSE /\ blame = 0 /\ taken = 0 /\ closed = FALSE /\ delay = 1
    OBVIOUS
  <2>5. cfg.kind = "retry" => cfg.n > 0
    OBVIOUS
  <2> HIDE DEF Init
  <2> QED BY <1>1, <1>2, <1>3, <2>1, <2>2, <2>3, <2>4, <2>5, <2>6 DEF Shapes
<1>5. Once
  BY DEF Once
<1>6. ASSUME cfg.kind \in Slices PROVE SliceInv
  <2>1. cfg.kind # "race"
    BY <1>6 DEF Slices
  <2>2. \A g \in Gors : gor[g].pc = "new" /\ gor[g].at = g
    BY <2>1
  <2>3. \A i \in Calls : outcome[i] = "none" /\ results[i] = "zero"
    BY <2>1
  <2>4. \A g \in Gors : Stands(g)
    <3>1. \A g \in Gors : g \in Mine(g) /\ \A i \in Mine(g) : i < g => i + Width <= g
      BY <1>4, <1>6, Shares
    <3>2. \A g \in Gors : \A i \in Mine(g) : i >= g
      BY <1>4, <1>6, Numbers DEF Mine, Every, Width
    <3>3. \A g \in Gors : \A i \in Mine(g) : ~(i < g)
      BY <1>4, <1>6, <3>2, Shares, Numbers
    <3> QED BY <2>2, <2>3, <3>1, <3>3 DEF Stands
  <2>5. Slots = {}
    BY <2>2 DEF Slots, AtPlaces
  <2>6. cfg.limit > 0 => Cardinality(Slots) <= cfg.limit
    BY <1>4, <2>5, FS_EmptySet, Numbers
  <2>7. Recording /\ SliceAnswer
    BY <2>1, <2>3 DEF Recording, SliceAnswer, Filled, Ret
  <2> QED BY <2>4, <2>6, <2>7 DEF SliceInv
<1>7. ASSUME cfg.kind = "race" PROVE RaceInv
  BY <1>1, <1>3, <1>7 DEF RaceInv, Ret, Gors, Goroutines, shouldUseWorkerFastPath, Slices, Calls
<1>8. ASSUME cfg.kind = "retry" PROVE RetryInv
  BY <1>3, <1>4, <1>8, Numbers DEF RetryInv, Ret, Doubling
<1> QED BY <1>4, <1>5, <1>6, <1>7, <1>8 DEF IInv

\* Where a goroutine is when it makes or ends a call.
LEMMA AtCall ==
    ASSUME IInv, NEW g \in Gors
    PROVE  /\ cfg.kind \in Slices /\ gor[g].pc = "call" => gor[g].at \in Calls /\ outcome[gor[g].at] = "running"
           /\ cfg.kind \in Slices /\ gor[g].pc = "loop" /\ gor[g].at <= cfg.n =>
                 gor[g].at \in Calls /\ outcome[gor[g].at] = "none"
           /\ cfg.kind = "race" => g \in Calls /\ outcome[g] # "none"
           /\ gor[g].pc \in {"admitted", "loop"} => cfg.kind \in Slices
           /\ gor[g].pc = "send" => cfg.kind = "race"
<1> USE DEF IInv
<1>1. gor[g].at \in Nat \ {0} /\ cfg.n \in Nat /\ Calls = 1 .. cfg.n
  BY Numbers DEF Shapes, Positions
<1>2. cfg.kind \in Slices => Stands(g)
  BY DEF SliceInv
<1>3. cfg.kind = "race" => g \in Calls /\ outcome[g] # "none"
  BY Numbers DEF RaceInv
<1>4. cfg.kind \in {"race", "retry"} \cup Slices
  BY Numbers DEF Slices
<1>5. cfg.kind = "race" => gor[g].pc \in {"call", "send", "gone"}
  BY DEF RaceInv
<1>6. cfg.kind = "retry" => gor[g].pc \in {"new", "call", "backoff", "gone"}
  BY Numbers DEF RetryInv
<1> QED BY <1>1, <1>2, <1>3, <1>4, <1>5, <1>6 DEF Stands

\* A goroutine goes elsewhere, ...
LEMMA Going ==
    ASSUME Shapes, NEW g \in Gors, NEW to \in Places, Goto(g, to)
    PROVE  /\ gor' \in [Gors -> Positions]
           /\ gor'[g].pc = to /\ gor'[g].at = gor[g].at
           /\ \A h \in Gors \ {g} : gor'[h] = gor[h]
<1>1. gor \in [Gors -> Positions] /\ gor' = [gor EXCEPT ![g] = [gor[g] EXCEPT !.pc = to]]
  BY DEF Shapes, Goto
<1> QED BY <1>1 DEF Positions

\* ... or makes a call.
LEMMA Making ==
    ASSUME Shapes, NEW g \in Gors, NEW i \in Calls, Make(g, i)
    PROVE  /\ gor' \in [Gors -> Positions]
           /\ gor'[g].pc = "call" /\ gor'[g].at = i
           /\ \A h \in Gors \ {g} : gor'[h] = gor[h]
           /\ count' \in [Calls -> Nat] /\ count'[i] = count[i] + 1
           /\ outcome' \in [Calls -> {"none", "running", "ok", "err"}] /\ outcome'[i] = "running"
           /\ \A j \in Calls \ {i} : count'[j] = count[j] /\ outcome'[j] = outcome[j]
<1>1. i \in Nat \ {0}
  BY Numbers
<1>2. [pc |-> "call", at |-> i] \in Positions
  BY <1>1 DEF Positions, Places
<1>3. gor \in [Gors -> Positions] /\ gor' = [gor EXCEPT ![g] = [pc |-> "call", at |-> i]]
  BY DEF Shapes, Make
<1>4. /\ count \in [Calls -> Nat] /\ count' = [count EXCEPT ![i] = @ + 1]
      /\ outcome \in [Calls -> {"none", "running", "ok", "err"}]
      /\ outcome' = [outcome EXCEPT ![i] = "running"]
  BY DEF Shapes, Make
<1> QED BY <1>2, <1>3, <1>4

\* Every return value is one.
LEMMA Returning ==
    ASSUME NEW k \in {"none", "nil", "err", "ctx"}, NEW i \in Nat
    PROVE  Ret(k, i) \in Endings /\ Ret(k, i).kind = k /\ Ret(k, i).call = i
  BY DEF Ret, Endings

\* Every step keeps the shapes of the variables.
LEMMA ShapesNext == ASSUME IInv, Next PROVE Shapes' /\ cfg' = cfg
<1> DEFINE Kept ==
        /\ cfg' = cfg
        /\ count' \in [Calls -> Nat]
        /\ outcome' \in [Calls -> {"none", "running", "ok", "err"}]
        /\ gor' \in [Gors -> Positions]
        /\ cut' \in BOOLEAN /\ parent' \in BOOLEAN /\ (parent' => cut')
        /\ blame' \in Calls \cup {0}
        /\ results' \in [Calls -> {"zero", "value", "err"}]
        /\ chan' \in Seq(Gors) /\ taken' \in 0 .. Len(chan') /\ closed' \in BOOLEAN
        /\ delay' \in Nat /\ waited' \in Seq(Nat)
        /\ answer' \in Endings
<1>a. Shapes
  BY DEF IInv
<1>k. Kept => Shapes'
  BY <1>a, Fixed DEF Shapes
<1>b. /\ cfg.n \in Nat /\ Calls = 1 .. cfg.n
      /\ cfg.kind = "retry" => Gors = {1} /\ 1 \in Calls
      /\ cfg.kind = "race" => Gors = Calls
      /\ FastPath => Stride \in Nat \ {0}
  BY <1>a, Numbers
<1> USE <1>a DEF Shapes
<1>c. /\ Calls \subseteq Nat /\ \A i \in Calls \cup {0} : i \in Nat
      /\ \A g \in Gors : gor[g].at \in Nat \ {0} /\ (gor[g].at <= cfg.n => gor[g].at \in Calls)
  BY <1>b DEF Positions
<1>1. ASSUME NEW g \in Gors, Admit(g) \/ Skip(g) \/ StartTask(g) \/ LeaveLoop(g) PROVE Kept
  BY <1>1, Going DEF Admit, Skip, StartTask, LeaveLoop, Places
<1>2. ASSUME NEW g \in Gors, CallItem(g) PROVE Kept
  BY <1>2, <1>c, Making DEF CallItem
<1>3. ASSUME NEW g \in Gors, ItemDone(g) PROVE Kept
  <2>1. gor' \in [Gors -> Positions]
    <3>1. CASE FastPath
      <4>1. gor[g].at + Stride \in Nat \ {0}
        BY <1>b, <1>c, <3>1
      <4>2. [pc |-> "loop", at |-> gor[g].at + Stride] \in Positions
        BY <4>1 DEF Positions, Places
      <4>3. gor' = [gor EXCEPT ![g] = [pc |-> "loop", at |-> gor[g].at + Stride]]
        BY <1>3, <3>1 DEF ItemDone
      <4> QED BY <4>2, <4>3
    <3>2. CASE ~FastPath
      BY <1>3, <3>2, Going DEF ItemDone, Goto, Places
    <3> QED BY <3>1, <3>2
  <2> QED BY <1>3, <2>1 DEF ItemDone
<1>4. ASSUME NEW g \in Gors, ItemFails(g) PROVE Kept
  <2>1. gor[g].at \in Calls
    BY <1>4, AtCall DEF ItemFails, At
  <2> QED BY <1>4, <2>1, Going DEF ItemFails, Places
<1>5. ASSUME Wait PROVE Kept
  <2>1. Verdict \in Endings
    BY <1>c, Returning DEF Verdict
  <2> QED BY <1>5, <2>1 DEF Wait
<1>6. ASSUME NEW g \in Gors, RacerReturns(g) PROVE Kept
  BY <1>6, Going DEF RacerReturns, Places
<1>7. ASSUME NEW g \in Gors, SendResult(g) PROVE Kept
  <2>1. chan' \in Seq(Gors) /\ Len(chan') = Len(chan) + 1
    BY <1>7 DEF SendResult
  <2> QED BY <1>7, <2>1, Going DEF SendResult, Places
<1>8. ASSUME Close \/ AllFailed PROVE Kept
  <2>1. Ret("ctx", 0) \in Endings /\ Ret("err", blame) \in Endings
    BY <1>c, Returning
  <2>2. CASE Close
    BY <2>2 DEF Close
  <2>3. CASE AllFailed
    <3>1. answer' \in Endings
      BY <2>1, <2>3 DEF AllFailed
    <3> QED BY <2>3, <3>1 DEF AllFailed
  <2> QED BY <1>8, <2>2, <2>3
<1>9. ASSUME Receive PROVE Kept
  <2>1. chan[taken + 1] \in Calls /\ taken' \in 0 .. Len(chan)
    BY <1>9, <1>b DEF Receive
  <2>2. Ret("nil", chan[taken + 1]) \in Endings
    BY <2>1, <1>c, Returning
  <2> QED BY <1>9, <2>1, <2>2 DEF Receive
<1>10. ASSUME FirstAttempt PROVE Kept
  BY <1>10, <1>b, Making DEF FirstAttempt
<1>11. ASSUME AttemptSucceeds PROVE Kept
  BY <1>11, <1>b, <1>c, Going, Returning DEF AttemptSucceeds, Places
<1>12. ASSUME AttemptFails PROVE Kept
  <2>1. gor[1].at \in Calls /\ 1 \in Gors
    BY <1>12, <1>b DEF AttemptFails, IInv, RetryInv
  <2>2. Ret("err", gor[1].at) \in Endings
    BY <1>c, <2>1, Returning
  <2> QED BY <1>12, <2>1, <2>2, Going DEF AttemptFails, Places
<1>13. ASSUME Elapsed PROVE Kept
  <2>1. gor[1].at \in Calls /\ gor[1].at < cfg.n /\ 1 \in Gors
    BY <1>13, <1>b DEF Elapsed, At, IInv, RetryInv
  <2>2. gor[1].at + 1 \in Calls
    BY <1>b, <2>1
  <2> QED BY <1>13, <2>1, <2>2, Making DEF Elapsed
<1>14. ASSUME SeeContext PROVE Kept
  BY <1>14, <1>b, Going, Returning DEF SeeContext, Places
<1>15. ASSUME ParentCancel PROVE Kept
  BY <1>15 DEF ParentCancel
<1> QED
  BY <1>1, <1>2, <1>3, <1>4, <1>5, <1>6, <1>7, <1>8, <1>9, <1>10, <1>11, <1>12, <1>13, <1>14, <1>15,
     <1>k
  DEF Next, GoStep, FnEnds, FnEnds1, RaceStep

\* Every step keeps count and outcome together.
LEMMA OnceNext == ASSUME IInv, Next PROVE Once'
<1>a. Shapes /\ Once /\ Shapes' /\ cfg' = cfg
  BY ShapesNext DEF IInv
<1>b. Calls' = Calls
  BY <1>a, Fixed
<1>c. cfg.kind = "retry" => 1 \in Gors /\ 1 \in Calls /\ RetryInv
  BY <1>a, Numbers DEF IInv
<1>d. /\ count \in [Calls -> Nat] /\ outcome \in [Calls -> {"none", "running", "ok", "err"}]
  BY <1>a DEF Shapes
<1>1. ASSUME NEW g \in Gors, NEW i \in Calls, Make(g, i), outcome[i] = "none" PROVE Once'
  BY <1>1, <1>a, <1>b, Making DEF Once
<1>2. ASSUME NEW i \in Calls, NEW o \in {"ok", "err"}, outcome[i] # "none", count' = count,
             outcome' = [outcome EXCEPT ![i] = o]
      PROVE  Once'
  BY <1>2, <1>a, <1>b, <1>d DEF Once
<1>3. ASSUME count' = count, outcome' = outcome PROVE Once'
  BY <1>3, <1>a, <1>b DEF Once
<1>4. ASSUME NEW g \in Gors, CallItem(g) PROVE Once'
  <2>1. gor[g].at \in Calls /\ outcome[gor[g].at] = "none"
    BY <1>4, AtCall DEF CallItem, At
  <2> QED BY <1>1, <1>4, <2>1 DEF CallItem
<1>5. ASSUME NEW g \in Gors, ItemDone(g) \/ ItemFails(g) PROVE Once'
  <2>1. gor[g].at \in Calls /\ outcome[gor[g].at] # "none"
    BY <1>5, AtCall DEF ItemDone, ItemFails, At
  <2> QED BY <1>2, <1>5, <2>1 DEF ItemDone, ItemFails
<1>6. ASSUME NEW g \in Gors, RacerReturns(g) PROVE Once'
  <2>1. g \in Calls /\ outcome[g] # "none"
    BY <1>6, AtCall DEF RacerReturns
  <2> QED BY <1>2, <1>6, <2>1 DEF RacerReturns
<1>7. ASSUME FirstAttempt \/ Elapsed PROVE Once'
  <2>1. CASE FirstAttempt
    BY <1>1, <1>c, <2>1 DEF FirstAttempt, At, RetryInv
  <2>2. CASE Elapsed
    <3>1. gor[1].pc = "backoff" /\ gor[1].at \in Calls /\ gor[1].at < cfg.n /\ cfg.n \in Nat
          /\ \A j \in Calls : j > gor[1].at => outcome[j] = "none"
      BY <1>c, <1>a, <2>2, Numbers DEF Elapsed, At, RetryInv
    <3>2. gor[1].at + 1 \in Calls /\ gor[1].at + 1 > gor[1].at
      BY <3>1 DEF Calls
    <3>3. outcome[gor[1].at + 1] = "none"
      BY <3>1, <3>2
    <3> QED BY <1>1, <1>c, <2>2, <3>2, <3>3 DEF Elapsed
  <2> QED BY <1>7, <2>1, <2>2
<1>8. ASSUME AttemptSucceeds \/ AttemptFails PROVE Once'
  <2>1. gor[1].at \in Calls /\ outcome[gor[1].at] # "none"
    BY <1>8, <1>c DEF AttemptSucceeds, AttemptFails, At, RetryInv
  <2> QED BY <1>2, <1>8, <2>1 DEF AttemptSucceeds, AttemptFails
<1> QED
  BY <1>3, <1>4, <1>5, <1>6, <1>7, <1>8
  DEF Next, GoStep, FnEnds, FnEnds1, RaceStep, Admit, Skip, StartTask, LeaveLoop, SendResult, Wait,
      Close, Receive, AllFailed, SeeContext, ParentCancel

-----------------------------------------------------------------------------
(* ForEachSlice and MapSlice *)

\* Who does not move, and whose items nobody touches, stands where it stood.
LEMMA Bystanders ==
    ASSUME IInv, cfg.kind \in Slices, cfg' = cfg, cut => cut', NEW g \in Gors,
           \A h \in Gors \ {g} : gor'[h] = gor[h],
           \A i \in Calls : i \notin Mine(g) => outcome'[i] = outcome[i]
    PROVE  \A h \in Gors \ {g} : Stands(h)'
<1> SUFFICES ASSUME NEW h \in Gors \ {g} PROVE Stands(h)'
  OBVIOUS
<1>1. Stands(h) /\ Shapes
  BY DEF IInv, SliceInv
<1>2. \A i \in Mine(h) : i \notin Mine(g)
  BY <1>1, Shares
<1>3. /\ gor'[h] = gor[h]
      /\ \A i \in Mine(h) \cap Calls : outcome'[i] = outcome[i]
  BY <1>2
<1>4. Calls' = Calls /\ FastPath' = FastPath /\ Mine(h)' = Mine(h)
  BY Fixed
<1> QED BY <1>1, <1>3, <1>4 DEF Stands

\* Every step leaves every goroutine with its earlier items done and its later
\* ones untouched.
LEMMA StandsNext ==
    ASSUME IInv, cfg.kind \in Slices, Next
    PROVE  \A h \in Gors : Stands(h)'
<1>a. Shapes /\ cfg' = cfg /\ \A h \in Gors : Stands(h)
  BY ShapesNext DEF IInv, SliceInv
<1>b. Calls' = Calls /\ FastPath' = FastPath /\ \A h : Mine(h)' = Mine(h)
  BY <1>a, Fixed
<1>c. cut => cut'
  BY DEF Next, GoStep, FnEnds, FnEnds1, RaceStep, Admit, Skip, StartTask, CallItem, LeaveLoop,
         ItemDone, ItemFails, RacerReturns, SendResult, Wait, Close, Receive, AllFailed,
         FirstAttempt, AttemptSucceeds, AttemptFails, Elapsed, SeeContext, ParentCancel
<1>d. cfg.kind # "race" /\ cfg.kind # "retry"
  BY DEF Slices
<1>e. /\ cfg.n \in Nat /\ Calls = 1 .. cfg.n
      /\ outcome \in [Calls -> {"none", "running", "ok", "err"}]
      /\ \A g \in Gors : gor[g].at \in Nat \ {0}
  BY <1>a, Numbers DEF Shapes, Positions
<1>1. ASSUME NEW g \in Gors, \A h \in Gors \ {g} : gor'[h] = gor[h], Stands(g)',
             \A i \in Calls : i # gor[g].at => outcome'[i] = outcome[i]
      PROVE  \A h \in Gors : Stands(h)'
  <2>1. gor[g].at \in Mine(g)
    BY <1>a DEF Stands
  <2>2. \A h \in Gors \ {g} : Stands(h)'
    BY <1>1, <1>a, <1>c, <2>1, Bystanders
  <2> QED BY <1>1, <2>2
<1>2. ASSUME NEW g \in Gors, Admit(g) \/ Skip(g) \/ StartTask(g) \/ LeaveLoop(g)
      PROVE  \A h \in Gors : Stands(h)'
  <2>1. PICK to \in {"admitted", "loop", "gone"} :
          /\ Goto(g, to) /\ UNCHANGED <<outcome, cut>>
          /\ to = "admitted" => gor[g].pc = "new"
          /\ to = "loop" => gor[g].pc = "admitted"
          /\ to = "gone" => /\ gor[g].pc \in {"new", "admitted", "loop"}
                            /\ cut \/ (gor[g].at > cfg.n)
    BY <1>2 DEF Admit, Skip, StartTask, LeaveLoop, At
  <2>2. /\ gor'[g].pc = to /\ gor'[g].at = gor[g].at
        /\ \A h \in Gors \ {g} : gor'[h] = gor[h]
    BY <1>a, <2>1, Going DEF Places
  <2>3. Stands(g)'
    BY <1>a, <1>b, <1>e, <2>1, <2>2 DEF Stands
  <2> QED BY <1>1, <2>1, <2>2, <2>3
<1>3. ASSUME NEW g \in Gors, CallItem(g) PROVE \A h \in Gors : Stands(h)'
  <2>1. gor[g].pc = "loop" /\ gor[g].at \in Calls /\ Make(g, gor[g].at) /\ cut' = cut
    BY <1>3, <1>e DEF CallItem, At
  <2>2. /\ gor'[g].pc = "call" /\ gor'[g].at = gor[g].at
        /\ \A h \in Gors \ {g} : gor'[h] = gor[h]
        /\ outcome'[gor[g].at] = "running"
        /\ \A j \in Calls \ {gor[g].at} : outcome'[j] = outcome[j]
    BY <1>a, <2>1, Making
  <2>3. Stands(g)'
    BY <1>a, <1>b, <1>e, <2>1, <2>2 DEF Stands
  <2> QED BY <1>1, <2>2, <2>3
<1>4. ASSUME NEW g \in Gors, ItemDone(g), FastPath PROVE \A h \in Gors : Stands(h)'
  <2>1. /\ gor[g].pc = "call" /\ gor[g].at \in Calls /\ gor[g].at \in Mine(g) /\ cut' = cut
        /\ outcome' = [outcome EXCEPT ![gor[g].at] = "ok"]
        /\ gor' = [gor EXCEPT ![g] = [pc |-> "loop", at |-> @.at + Width]]
    BY <1>4, <1>a DEF ItemDone, At, Stands, Width
  <2>2. /\ gor'[g].pc = "loop" /\ gor'[g].at = gor[g].at + Width
        /\ \A h \in Gors \ {g} : gor'[h] = gor[h]
        /\ outcome'[gor[g].at] = "ok"
        /\ \A j \in Calls \ {gor[g].at} : outcome'[j] = outcome[j]
    BY <1>a, <1>e, <2>1 DEF Shapes
  <2>3. /\ gor'[g].at \in Mine(g) /\ Width \in Nat \ {0}
        /\ \A i \in Mine(g) : i \in Nat /\ (gor[g].at < i => gor'[g].at <= i)
    BY <1>a, <2>1, <2>2, Shares
  <2>4. \A i \in Mine(g) \cap Calls :
          /\ i < gor'[g].at => outcome'[i] = "ok"
          /\ i >= gor'[g].at => outcome'[i] = "none"
    <3> SUFFICES ASSUME NEW i \in Mine(g) \cap Calls
                 PROVE  /\ i < gor'[g].at => outcome'[i] = "ok"
                        /\ i >= gor'[g].at => outcome'[i] = "none"
      OBVIOUS
    <3>1. /\ i < gor[g].at => outcome[i] = "ok"
          /\ i > gor[g].at => outcome[i] = "none"
      BY <1>a DEF Stands
    <3>2. i \in Nat /\ gor[g].at \in Nat /\ gor'[g].at = gor[g].at + Width
      BY <1>e, <2>2, <2>3
    <3> QED BY <2>2, <2>3, <3>1, <3>2
  <2>5. Stands(g)'
    <3>1. gor'[g].at \in Nat
      BY <1>e, <2>2, <2>3
    <3> QED BY <1>4, <1>b, <2>2, <2>3, <2>4, <3>1 DEF Stands
  <2> QED BY <1>1, <2>2, <2>5
<1>5. ASSUME NEW g \in Gors, (ItemDone(g) /\ ~FastPath) \/ ItemFails(g)
      PROVE  \A h \in Gors : Stands(h)'
  <2>1. /\ gor[g].pc = "call" /\ gor[g].at \in Calls /\ Goto(g, "gone")
    BY <1>5, <1>a DEF ItemDone, ItemFails, At, Stands, Goto
  <2>2. /\ gor'[g].pc = "gone" /\ gor'[g].at = gor[g].at
        /\ \A h \in Gors \ {g} : gor'[h] = gor[h]
    BY <1>a, <2>1, Going DEF Places
  <2>3. /\ outcome'[gor[g].at] \in {"ok", "err"}
        /\ \A j \in Calls \ {gor[g].at} : outcome'[j] = outcome[j]
    BY <1>5, <1>e, <2>1 DEF ItemDone, ItemFails
  <2>4. FastPath => cut'
    BY <1>5, <1>a, Numbers DEF ItemFails
  <2>5. Stands(g)'
    BY <1>a, <1>b, <1>c, <1>e, <2>1, <2>2, <2>3, <2>4 DEF Stands
  <2> QED BY <1>1, <2>2, <2>3, <2>5
<1>6. ASSUME gor' = gor, outcome' = outcome PROVE \A h \in Gors : Stands(h)'
  BY <1>6, <1>a, <1>b, <1>c DEF Stands
<1>7. \A g \in Gors : ~SendResult(g)
  BY <1>a DEF SendResult, At, Stands
<1> QED
  BY <1>2, <1>3, <1>4, <1>5, <1>6, <1>7, <1>d
  DEF Next, GoStep, FnEnds, FnEnds1, RaceStep, RacerReturns, Wait, Close, Receive, AllFailed,
      FirstAttempt, AttemptSucceeds, AttemptFails, Elapsed, SeeContext, ParentCancel

\* A goroutine gets a slot only while fewer than limit have one.
LEMMA SlotsNext ==
    ASSUME IInv, cfg.kind \in Slices, Next, cfg.limit > 0
    PROVE  Cardinality(Slots)' <= cfg.limit
<1>a. Shapes /\ cfg' = cfg /\ Cardinality(Slots) <= cfg.limit /\ \A h \in Gors : Stands(h)
  BY ShapesNext DEF IInv, SliceInv
<1>b. /\ Gors' = Gors /\ IsFiniteSet(Gors) /\ cfg.limit \in Nat
      /\ gor \in [Gors -> Positions] /\ (FastPath => Stride \in Nat)
  <2>1. cfg.n \in Nat /\ (FastPath => Gors = 1 .. Stride /\ Stride \in 1 .. cfg.n) /\ (~FastPath => Gors = 1 .. cfg.n)
    BY <1>a, Numbers
  <2>2. IsFiniteSet(Gors)
    BY <2>1, FS_Interval
  <2> QED BY <1>a, <2>1, <2>2, Fixed, Numbers DEF Shapes
<1>c. IsFiniteSet(Slots) /\ Cardinality(Slots) \in Nat
  BY <1>b, FS_Subset, FS_CardinalityType DEF Slots, AtPlaces
<1>d. cfg.kind # "race" /\ cfg.kind # "retry"
  BY DEF Slices
<1>1. ASSUME Slots' \subseteq Slots PROVE Cardinality(Slots)' <= cfg.limit
  <2>1. Cardinality(Slots') <= Cardinality(Slots) /\ Cardinality(Slots') \in Nat
    BY <1>1, <1>c, FS_Subset, FS_CardinalityType
  <2> QED BY <1>a, <1>b, <1>c, <2>1
<1>2. ASSUME NEW g \in Gors, Admit(g) PROVE Cardinality(Slots)' <= cfg.limit
  <2>1. gor[g].pc = "new" /\ Goto(g, "admitted") /\ Cardinality(Slots) < cfg.limit
    BY <1>2 DEF Admit, At, Slots, AtPlaces
  <2>2. gor'[g].pc = "admitted" /\ \A h \in Gors \ {g} : gor'[h] = gor[h]
    BY <1>a, <2>1, Going DEF Places
  <2>3. Slots' = Slots \cup {g} /\ g \notin Slots
    BY <1>b, <2>1, <2>2 DEF Slots, AtPlaces
  <2>4. Cardinality(Slots') = Cardinality(Slots) + 1
    BY <1>c, <2>3, FS_AddElement
  <2> QED BY <1>b, <1>c, <2>1, <2>4
<1>3. ASSUME NEW g \in Gors, NEW to \in Places, gor[g].pc \in {"admitted", "loop", "call"} \/ to = "gone",
             Goto(g, to)
      PROVE  Slots' \subseteq Slots
  <2>1. gor'[g].pc = to /\ \A h \in Gors \ {g} : gor'[h] = gor[h]
    BY <1>a, <1>3, Going
  <2> QED BY <1>b, <1>3, <2>1 DEF Slots, AtPlaces
<1>4. ASSUME NEW g \in Gors, Skip(g) \/ StartTask(g) \/ LeaveLoop(g) PROVE Slots' \subseteq Slots
  BY <1>3, <1>4 DEF Skip, StartTask, LeaveLoop, At, Places
<1>5. ASSUME NEW g \in Gors, CallItem(g) \/ ItemDone(g) \/ ItemFails(g) PROVE Slots' \subseteq Slots
  <2>1. gor[g].pc \in {"loop", "call"}
    BY <1>5 DEF CallItem, ItemDone, ItemFails, At
  <2>2. \A h \in Gors \ {g} : gor'[h] = gor[h]
    BY <1>5, <1>b DEF CallItem, Make, ItemDone, ItemFails, Goto
  <2> QED BY <1>b, <2>1, <2>2 DEF Slots, AtPlaces
<1>6. ASSUME gor' = gor PROVE Slots' \subseteq Slots
  BY <1>6, <1>b DEF Slots, AtPlaces
<1>7. \A g \in Gors : ~SendResult(g)
  BY <1>a DEF SendResult, At, Stands
<1> QED
  BY <1>1, <1>2, <1>4, <1>5, <1>6, <1>7, <1>d
  DEF Next, GoStep, FnEnds, FnEnds1, RaceStep, RacerReturns, Wait, Close, Receive, AllFailed,
      FirstAttempt, AttemptSucceeds, AttemptFails, Elapsed, SeeContext, ParentCancel

\* The scope under a slice knows of a failure, and knows no other.
LEMMA RecordingNext ==
    ASSUME IInv, cfg.kind \in Slices, Next
    PROVE  Recording'
<1>a. Shapes /\ cfg' = cfg /\ Recording /\ \A h \in Gors : Stands(h)
  BY ShapesNext DEF IInv, SliceInv
<1>b. Calls' = Calls /\ Recorded' = Recorded
  BY <1>a, Fixed
<1>c. cfg.kind # "race" /\ cfg.kind # "retry"
  BY DEF Slices
<1>d. /\ outcome \in [Calls -> {"none", "running", "ok", "err"}] /\ blame \in Calls \cup {0}
      /\ cfg.policy \in {"FailFast", "Collect"} /\ 0 \notin Calls
  BY <1>a, Numbers DEF Shapes, Options
<1>1. ASSUME NEW g \in Gors, CallItem(g) PROVE Recording'
  <2>1. gor[g].at \in Calls /\ outcome[gor[g].at] = "none"
    BY <1>1, AtCall DEF CallItem, At
  <2> QED BY <1>1, <1>a, <1>b, <1>d, <2>1 DEF CallItem, Make, Recording
<1>2. ASSUME NEW g \in Gors, ItemDone(g) PROVE Recording'
  <2>1. gor[g].at \in Calls /\ outcome[gor[g].at] = "running"
    BY <1>2, AtCall DEF ItemDone, At
  <2> QED BY <1>2, <1>a, <1>b, <1>d, <2>1 DEF ItemDone, Recording
<1>3. ASSUME NEW g \in Gors, ItemFails(g) PROVE Recording'
  <2>1. gor[g].at \in Calls /\ outcome[gor[g].at] = "running"
    BY <1>3, AtCall DEF ItemFails, At
  <2>2. cfg.policy = "FailFast" => Recorded
    BY DEF Recorded
  <2> QED BY <1>3, <1>a, <1>b, <1>d, <2>1, <2>2 DEF ItemFails, Recording
<1>4. ASSUME Wait PROVE Recording'
  <2>1. answer'.kind # "none" /\ cut' /\ UNCHANGED <<outcome, blame>>
    BY <1>4 DEF Wait, Verdict, Ret
  <2> QED BY <1>a, <1>b, <2>1 DEF Recording
<1>5. ASSUME ParentCancel PROVE Recording'
  BY <1>5, <1>a, <1>b DEF ParentCancel, Recording
<1>6. ASSUME UNCHANGED <<outcome, cut, blame, answer, parent>> PROVE Recording'
  BY <1>6, <1>a, <1>b DEF Recording
<1>7. \A g \in Gors : ~SendResult(g)
  BY <1>a DEF SendResult, At, Stands
<1> QED
  BY <1>1, <1>2, <1>3, <1>4, <1>5, <1>6, <1>7, <1>c
  DEF Next, GoStep, FnEnds, FnEnds1, RaceStep, RacerReturns, Admit, Skip, StartTask, LeaveLoop, Close,
      Receive, AllFailed, FirstAttempt, AttemptSucceeds, AttemptFails, Elapsed, SeeContext

\* When every goroutine is gone and nothing was recorded or cut, every item is done.
LEMMA AllDone ==
    ASSUME IInv, cfg.kind \in Slices, \A g \in Gors : At(g, "gone"), blame = 0, ~cut, NEW i \in Calls
    PROVE  outcome[i] = "ok" \/ (~Recorded /\ outcome[i] = "err")
<1>a. Shapes /\ Recording /\ \A h \in Gors : Stands(h)
  BY DEF IInv, SliceInv
<1>1. PICK g \in Gors : i \in Mine(g)
  BY <1>a, Shares
<1>2. gor[g].pc = "gone" /\ Stands(g)
  BY <1>a DEF At
<1>3. outcome[i] \in {"none", "running", "ok", "err"} /\ i <= cfg.n /\ i \in Nat /\ cfg.n \in Nat
  BY <1>a, Numbers DEF Shapes
<1>4. outcome[i] \in {"ok", "err"}
  <2>1. gor[g].at \in Nat
    BY <1>a DEF Shapes, Positions
  <2>2. CASE FastPath
    BY <1>1, <1>2, <1>3, <2>1, <2>2 DEF Stands
  <2>3. CASE ~FastPath
    <3>1. i = gor[g].at
      BY <1>a, <1>1, <1>2, <2>3, Shares DEF Stands
    <3> QED BY <1>1, <1>2, <1>3, <3>1 DEF Stands
  <2> QED BY <2>2, <2>3
<1> QED BY <1>a, <1>4 DEF Recording

\* Every step keeps the answer of a slice true.
LEMMA SliceAnswerNext ==
    ASSUME IInv, cfg.kind \in Slices, Next
    PROVE  SliceAnswer'
<1>a. Shapes /\ cfg' = cfg /\ Recording /\ SliceAnswer /\ \A h \in Gors : Stands(h)
  BY ShapesNext DEF IInv, SliceInv
<1>b. Calls' = Calls /\ Gors' = Gors /\ Recorded' = Recorded
  BY <1>a, Fixed
<1>c. cfg.kind # "race" /\ cfg.kind # "retry"
  BY DEF Slices
<1>d. /\ outcome \in [Calls -> {"none", "running", "ok", "err"}] /\ blame \in Calls \cup {0}
      /\ results \in [Calls -> {"zero", "value", "err"}] /\ gor \in [Gors -> Positions]
      /\ cfg.policy \in {"FailFast", "Collect"}
  BY <1>a DEF Shapes, Options
<1>e. ASSUME NEW g \in Gors, gor[g].pc # "gone" PROVE answer.kind = "none"
  BY <1>a, <1>e DEF SliceAnswer, At
<1>f. ASSUME answer.kind = "none", answer' = answer, cfg.kind = "map" /\ Filled => Filled' PROVE SliceAnswer'
  BY <1>a, <1>b, <1>f DEF SliceAnswer
<1>1. ASSUME NEW g \in Gors, Admit(g) \/ Skip(g) \/ StartTask(g) \/ LeaveLoop(g) PROVE SliceAnswer'
  <2>1. gor[g].pc # "gone" /\ UNCHANGED <<outcome, results, answer>>
    BY <1>1 DEF Admit, Skip, StartTask, LeaveLoop, At
  <2> QED BY <1>b, <1>e, <1>f, <2>1 DEF Filled
<1>2. ASSUME NEW g \in Gors, CallItem(g) PROVE SliceAnswer'
  <2>1. gor[g].at \in Calls /\ outcome[gor[g].at] = "none" /\ gor[g].pc # "gone"
    BY <1>2, AtCall DEF CallItem, At
  <2>2. /\ outcome' = [outcome EXCEPT ![gor[g].at] = "running"]
        /\ results' = results /\ answer' = answer
    BY <1>2 DEF CallItem, Make
  <2> QED BY <1>b, <1>d, <1>e, <1>f, <2>1, <2>2 DEF Filled
<1>3. ASSUME NEW g \in Gors, ItemDone(g) \/ ItemFails(g) PROVE SliceAnswer'
  <2>1. gor[g].at \in Calls /\ gor[g].pc # "gone"
    BY <1>3, AtCall DEF ItemDone, ItemFails, At
  <2> QED BY <1>3, <1>b, <1>d, <1>e, <1>f, <2>1 DEF ItemDone, ItemFails, Filled
<1>4. ASSUME Wait PROVE SliceAnswer'
  <2>1. /\ answer.kind = "none" /\ answer' = Verdict /\ UNCHANGED <<outcome, gor, parent>>
        /\ \A g \in Gors : At(g, "gone")
        /\ results' = IF Verdict.kind # "nil" /\ cfg.policy = "FailFast"
                      THEN [i \in Calls |-> "zero"] ELSE results
    BY <1>4 DEF Wait
  <2>2. CASE blame # 0
    <3>1. Verdict.kind = "err" /\ Verdict.call = blame
      BY <2>2 DEF Verdict, Ret
    <3> QED BY <1>a, <1>b, <1>d, <2>1, <2>2, <3>1 DEF SliceAnswer, Recording, At, Filled
  <2>3. CASE blame = 0 /\ cut
    <3>1. Verdict.kind = "ctx"
      BY <2>3 DEF Verdict, Ret
    <3> QED BY <1>a, <1>b, <1>d, <2>1, <2>3, <3>1 DEF SliceAnswer, Recording, At, Filled
  <2>4. CASE blame = 0 /\ ~cut
    <3>1. Verdict.kind = "nil"
      BY <2>4 DEF Verdict, Ret
    <3>2. \A i \in Calls : outcome[i] = "ok" \/ (~Recorded /\ outcome[i] = "err")
      BY <2>1, <2>4, AllDone
    <3> QED BY <1>a, <1>b, <2>1, <3>1, <3>2 DEF SliceAnswer, At, Filled
  <2> QED BY <2>2, <2>3, <2>4
<1>5. ASSUME UNCHANGED <<outcome, gor, results, answer>>, parent => parent' PROVE SliceAnswer'
  BY <1>5, <1>a, <1>b DEF SliceAnswer, At, Filled
<1>6. \A g \in Gors : ~SendResult(g)
  BY <1>a DEF SendResult, At, Stands
<1> QED
  BY <1>1, <1>2, <1>3, <1>4, <1>5, <1>6, <1>c
  DEF Next, GoStep, FnEnds, FnEnds1, RaceStep, RacerReturns, Close, Receive, AllFailed,
      FirstAttempt, AttemptSucceeds, AttemptFails, Elapsed, SeeContext, ParentCancel

\* Every step keeps the part of the invariant that is about slices.
LEMMA SliceNext == ASSUME IInv, cfg.kind \in Slices, Next PROVE SliceInv'
<1>1. cfg' = cfg /\ Gors' = Gors
  BY ShapesNext, Fixed
<1>2. (cfg.limit > 0 => Cardinality(Slots) <= cfg.limit)'
  BY <1>1, SlotsNext
<1>3. \A h \in Gors' : Stands(h)'
  BY <1>1, StandsNext
<1> QED BY <1>2, <1>3, RecordingNext, SliceAnswerNext DEF SliceInv

-----------------------------------------------------------------------------
(* Race *)

\* A race takes no other steps than these.
LEMMA RaceSteps ==
    ASSUME IInv, cfg.kind = "race", Next
    PROVE  \/ \E g \in Gors : RacerReturns(g) \/ SendResult(g)
           \/ RaceStep \/ ParentCancel
<1>1. \A g \in Gors : gor[g].pc \in {"call", "send", "gone"}
  BY DEF IInv, RaceInv
<1>2. cfg.kind \notin Slices /\ cfg.kind # "retry"
  BY DEF Slices
<1> QED
  BY <1>1, <1>2
  DEF Next, GoStep, FnEnds, FnEnds1, Admit, Skip, StartTask, CallItem, LeaveLoop, ItemDone, ItemFails,
      Wait, FirstAttempt, AttemptSucceeds, AttemptFails, Elapsed, SeeContext, At

\* Every step keeps the part of the invariant that is about Race.
LEMMA RaceNext == ASSUME IInv, cfg.kind = "race", Next PROVE RaceInv'
<1>a. Shapes /\ cfg' = cfg /\ RaceInv
  BY ShapesNext DEF IInv
<1>b. Calls' = Calls /\ Gors' = Gors /\ Gors = Calls /\ Calls = 1 .. cfg.n /\ cfg.n \in Nat
  BY <1>a, Fixed, Numbers
<1>c. /\ outcome \in [Calls -> {"none", "running", "ok", "err"}] /\ gor \in [Gors -> Positions]
      /\ chan \in Seq(Gors) /\ taken \in 0 .. Len(chan) /\ answer \in Endings
      /\ \A k \in 1 .. Len(chan) : chan[k] \in Gors
  BY <1>a DEF Shapes
<1>d. answer.kind \in {"none", "nil", "err", "ctx"}
  BY <1>c DEF Endings
<1>1. ASSUME NEW g \in Gors, RacerReturns(g) PROVE RaceInv'
  <2>1. /\ gor[g].pc = "call" /\ Goto(g, "send")
        /\ UNCHANGED <<chan, taken, closed, blame, cut, parent, answer>>
        /\ outcome'[g] \in {"ok", "err"} /\ \A h \in Gors \ {g} : outcome'[h] = outcome[h]
    BY <1>1, <1>b, <1>c DEF RacerReturns, At
  <2>2. gor'[g].pc = "send" /\ \A h \in Gors \ {g} : gor'[h] = gor[h]
    BY <1>a, <2>1, Going DEF Places
  <2>3. \A k \in 1 .. Len(chan) : chan[k] # g
    BY <1>a, <2>1 DEF RaceInv
  <2>4. \A k \in 1 .. Len(chan) : outcome'[chan[k]] = outcome[chan[k]]
    BY <1>c, <2>1, <2>3
  <2>5. ~closed /\ answer.kind \notin {"err", "ctx"}
    BY <1>a, <2>1 DEF RaceInv, At
  <2>6. ASSUME NEW h \in Gors
        PROVE  /\ gor'[h].pc \in {"call", "send", "gone"}
               /\ outcome'[h] # "none" /\ (outcome'[h] = "running" <=> gor'[h].pc = "call")
               /\ gor'[h].pc = "gone" <=> \E k \in 1 .. Len(chan) : chan[k] = h
    <3>1. CASE h = g
      BY <2>1, <2>2, <2>3, <3>1
    <3>2. CASE h # g
      <4>1. gor'[h] = gor[h] /\ outcome'[h] = outcome[h]
        BY <2>1, <2>2, <3>2
      <4> QED BY <1>a, <4>1 DEF RaceInv
    <3> QED BY <3>1, <3>2
  <2>a. \A j \in 1 .. taken : outcome'[chan[j]] = outcome[chan[j]]
    <3>1. \A j \in 1 .. taken : j \in 1 .. Len(chan)
      BY <1>c
    <3> QED BY <2>4, <3>1
  <2>b. /\ \A j \in 1 .. taken - 1 : j \in 1 .. taken
        /\ taken > 0 => taken \in 1 .. taken
    BY <1>c
  <2>7. /\ answer.kind = "none" => \A j \in 1 .. taken : outcome'[chan[j]] = "err"
        /\ answer.kind = "nil" /\ cfg.n > 0 =>
              /\ outcome'[chan[taken]] = "ok" /\ \A j \in 1 .. taken - 1 : outcome'[chan[j]] = "err"
    BY <1>a, <2>a, <2>b DEF RaceInv
  <2> QED BY <1>a, <1>b, <1>c, <2>1, <2>5, <2>6, <2>7 DEF RaceInv
<1>2. ASSUME NEW g \in Gors, SendResult(g) PROVE RaceInv'
  <2>1. /\ gor[g].pc = "send" /\ Goto(g, "gone") /\ chan' = Append(chan, g)
        /\ UNCHANGED <<outcome, taken, closed, blame, cut, parent, answer>>
    BY <1>2 DEF SendResult, At
  <2>2. gor'[g].pc = "gone" /\ \A h \in Gors \ {g} : gor'[h] = gor[h]
    BY <1>a, <2>1, Going DEF Places
  <2>3. /\ Len(chan') = Len(chan) + 1 /\ chan'[Len(chan) + 1] = g
        /\ \A k \in 1 .. Len(chan) : chan'[k] = chan[k]
        /\ Len(chan) \in Nat
    BY <1>c, <2>1
  <2>4. ~closed /\ answer.kind \notin {"err", "ctx"}
    BY <1>a, <2>1 DEF RaceInv, At
  <2>5. \A h \in Gors :
          /\ gor'[h].pc \in {"call", "send", "gone"}
          /\ outcome[h] # "none" /\ (outcome[h] = "running" <=> gor'[h].pc = "call")
    BY <1>a, <2>1, <2>2 DEF RaceInv
  <2>6. ASSUME NEW h \in Gors PROVE gor'[h].pc = "gone" <=> \E k \in 1 .. Len(chan') : chan'[k] = h
    <3>1. CASE h = g
      BY <2>2, <2>3, <3>1
    <3>2. CASE h # g
      <4>1. gor[h].pc = "gone" <=> \E k \in 1 .. Len(chan) : chan[k] = h
        BY <1>a DEF RaceInv
      <4>2. (\E k \in 1 .. Len(chan') : chan'[k] = h) <=> (\E k \in 1 .. Len(chan) : chan[k] = h)
        BY <2>3, <3>2
      <4> QED BY <2>2, <3>2, <4>1, <4>2
    <3> QED BY <3>1, <3>2
  <2>7. \A j \in 1 .. taken : j \in 1 .. Len(chan) /\ chan'[j] = chan[j]
    BY <1>c, <2>3
  <2>8. taken > 0 => taken \in 1 .. taken
    BY <1>c
  <2>9. answer.kind = "none" =>
          /\ \A j \in 1 .. taken : outcome[chan'[j]] = "err"
          /\ taken > 0 => blame = chan'[taken]
    BY <1>a, <2>7, <2>8 DEF RaceInv
  <2>10. answer.kind = "nil" /\ cfg.n > 0 =>
          /\ taken > 0 /\ chan'[taken] = answer.call /\ outcome[chan'[taken]] = "ok"
          /\ \A j \in 1 .. taken - 1 : outcome[chan'[j]] = "err"
    <3>1. \A j \in 1 .. taken - 1 : j \in 1 .. taken
      BY <1>c
    <3> QED BY <1>a, <2>7, <2>8, <3>1 DEF RaceInv
  <2> QED BY <1>a, <1>b, <2>1, <2>4, <2>5, <2>6, <2>9, <2>10 DEF RaceInv
<1>3. ASSUME Close PROVE RaceInv'
  BY <1>3, <1>a, <1>b DEF Close, RaceInv, At
<1>4. ASSUME Receive PROVE RaceInv'
  <2> DEFINE g == chan[taken + 1]
  <2>1. /\ answer.kind = "none" /\ taken < Len(chan) /\ taken' = taken + 1 /\ g \in Gors
        /\ UNCHANGED <<outcome, gor, chan, closed, parent>>
    BY <1>4, <1>c DEF Receive
  <2>2. gor[g].pc = "gone" /\ outcome[g] \in {"ok", "err"}
    <3>1. gor[g].pc = "gone"
      BY <1>a, <1>c, <2>1 DEF RaceInv
    <3>2. outcome[g] # "none" /\ outcome[g] # "running"
      BY <1>a, <2>1, <3>1 DEF RaceInv
    <3>3. outcome[g] \in {"none", "running", "ok", "err"}
      BY <1>b, <1>c, <2>1
    <3> QED BY <3>1, <3>2, <3>3
  <2>3. cfg.n > 0
    BY <1>b, <2>1
  <2>4. \A j \in 1 .. taken : outcome[chan[j]] = "err"
    BY <1>a, <2>1 DEF RaceInv
  <2>5. /\ \A h \in Gors :
            /\ gor[h].pc \in {"call", "send", "gone"}
            /\ outcome[h] # "none" /\ (outcome[h] = "running" <=> gor[h].pc = "call")
            /\ gor[h].pc = "gone" <=> \E k \in 1 .. Len(chan) : chan[k] = h
        /\ closed => \A h \in Gors : At(h, "gone")
    BY <1>a DEF RaceInv
  <2>6. CASE outcome[g] = "ok"
    <3>1. answer' = Ret("nil", g) /\ cut'
      BY <1>4, <2>6 DEF Receive
    <3>2. answer'.kind = "nil" /\ answer'.call = chan[taken']
      BY <2>1, <3>1 DEF Ret
    <3>3. taken' > 0 /\ outcome[chan[taken']] = "ok" /\ \A j \in 1 .. taken' - 1 : outcome[chan[j]] = "err"
      BY <1>c, <2>1, <2>4, <2>6
    <3> QED BY <1>a, <1>b, <2>1, <2>5, <3>1, <3>2, <3>3 DEF RaceInv, At
  <2>7. CASE outcome[g] = "err"
    <3>1. answer' = answer /\ blame' = g
      BY <1>4, <2>7 DEF Receive
    <3>2. blame' = chan[taken'] /\ \A j \in 1 .. taken' : outcome[chan[j]] = "err"
      BY <1>c, <2>1, <2>4, <2>7, <3>1
    <3> QED BY <1>a, <1>b, <2>1, <2>3, <2>5, <3>1, <3>2 DEF RaceInv, At
  <2> QED BY <2>2, <2>6, <2>7
<1>5. ASSUME AllFailed PROVE RaceInv'
  <2>1. /\ answer.kind = "none" /\ closed /\ taken = Len(chan) /\ cut'
        /\ answer' = IF parent THEN Ret("ctx", 0) ELSE Ret("err", blame)
        /\ UNCHANGED <<outcome, gor, parent, chan, taken, closed>>
    BY <1>5 DEF AllFailed
  <2>2. cfg.n > 0 /\ \A g \in Gors : gor[g].pc = "gone"
    BY <1>a, <1>b, <2>1 DEF RaceInv, At
  <2>3. \A i \in Calls : outcome[i] = "err"
    BY <1>a, <1>b, <2>1, <2>2 DEF RaceInv
  <2>4. taken > 0
    <3>1. 1 \in Gors
      BY <1>b, <2>2
    <3>2. PICK k \in 1 .. Len(chan) : chan[k] = 1
      BY <1>a, <2>2, <3>1 DEF RaceInv
    <3> QED BY <1>c, <2>1, <3>2
  <2>5. blame = chan[Len(chan)]
    BY <1>a, <2>1, <2>4 DEF RaceInv
  <2>6. /\ answer'.kind \in {"err", "ctx"}
        /\ answer'.kind = "err" => answer'.call = chan[Len(chan)]
        /\ answer'.kind = "ctx" => parent
    BY <2>1, <2>5 DEF Ret
  <2> QED BY <1>a, <1>b, <2>1, <2>2, <2>3, <2>6 DEF RaceInv, At
<1>6. ASSUME ParentCancel PROVE RaceInv'
  BY <1>6, <1>a, <1>b DEF ParentCancel, RaceInv, At
<1> QED BY <1>1, <1>2, <1>3, <1>4, <1>5, <1>6, RaceSteps DEF RaceStep

-----------------------------------------------------------------------------
(* SpawnRetry *)

\* Every step keeps the part of the invariant that is about SpawnRetry.
LEMMA RetryNext == ASSUME IInv, cfg.kind = "retry", Next PROVE RetryInv'
<1>a. Shapes /\ cfg' = cfg /\ RetryInv
  BY ShapesNext DEF IInv
<1>b. Calls' = Calls /\ Gors = {1} /\ Calls = 1 .. cfg.n /\ cfg.n \in Nat /\ 1 \in Calls
  BY <1>a, Fixed, Numbers
<1>c. /\ outcome \in [Calls -> {"none", "running", "ok", "err"}] /\ gor \in [Gors -> Positions]
      /\ waited \in Seq(Nat) /\ delay \in Nat
      /\ gor[1].at \in Calls
  BY <1>a DEF Shapes, RetryInv
<1>1. ASSUME FirstAttempt PROVE RetryInv'
  <2>1. /\ gor[1].pc = "new" /\ Make(1, 1) /\ UNCHANGED <<waited, delay, answer, cut>>
        /\ gor[1].at = 1
    BY <1>1, <1>a DEF FirstAttempt, At, RetryInv
  <2>2. /\ gor'[1].pc = "call" /\ gor'[1].at = 1 /\ outcome'[1] = "running"
        /\ \A j \in Calls \ {1} : outcome'[j] = outcome[j]
    BY <1>a, <1>b, <2>1, Making
  <2> QED BY <1>a, <1>b, <2>1, <2>2 DEF RetryInv, Doubling
<1>2. ASSUME AttemptSucceeds PROVE RetryInv'
  <2>1. /\ gor[1].pc = "call" /\ Goto(1, "gone") /\ UNCHANGED <<waited, delay, cut>>
        /\ answer' = Ret("nil", gor[1].at) /\ outcome' = [outcome EXCEPT ![gor[1].at] = "ok"]
    BY <1>2 DEF AttemptSucceeds, At
  <2>2. gor'[1].pc = "gone" /\ gor'[1].at = gor[1].at
    BY <1>a, <1>b, <2>1, Going DEF Places
  <2>3. answer'.kind = "nil" /\ answer'.call = gor[1].at
    BY <2>1 DEF Ret
  <2> QED BY <1>a, <1>b, <1>c, <2>1, <2>2, <2>3 DEF RetryInv, Doubling
<1>3. ASSUME AttemptFails PROVE RetryInv'
  <2>1. /\ gor[1].pc = "call" /\ UNCHANGED <<waited, delay, cut>>
        /\ outcome' = [outcome EXCEPT ![gor[1].at] = "err"]
        /\ answer.kind = "none"
    BY <1>3, <1>a DEF AttemptFails, At, RetryInv
  <2>2. CASE gor[1].at = cfg.n
    <3>1. answer' = Ret("err", gor[1].at) /\ Goto(1, "gone")
      BY <1>3, <2>2 DEF AttemptFails
    <3>2. gor'[1].pc = "gone" /\ gor'[1].at = gor[1].at /\ answer'.kind = "err"
      BY <1>a, <1>b, <3>1, Going DEF Places, Ret
    <3>3. \A i \in Calls : outcome'[i] = "err"
      BY <1>a, <1>b, <1>c, <2>1, <2>2 DEF RetryInv
    <3>4. /\ waited' = waited /\ delay' = delay /\ Doubling'
      BY <1>a, <2>1 DEF RetryInv, Doubling
    <3> QED BY <1>a, <1>b, <1>c, <2>2, <3>2, <3>3, <3>4 DEF RetryInv
  <2>3. CASE gor[1].at # cfg.n
    <3>1. answer' = answer /\ Goto(1, "backoff")
      BY <1>3, <2>3 DEF AttemptFails
    <3>2. gor'[1].pc = "backoff" /\ gor'[1].at = gor[1].at
      BY <1>a, <1>b, <3>1, Going DEF Places
    <3>3. /\ waited' = waited /\ delay' = delay /\ Doubling'
      BY <1>a, <2>1 DEF RetryInv, Doubling
    <3>4. outcome'[gor[1].at] = "err" /\ \A j \in Calls \ {gor[1].at} : outcome'[j] = outcome[j]
      BY <1>c, <2>1
    <3> QED BY <1>a, <1>b, <1>c, <2>1, <2>3, <3>1, <3>2, <3>3, <3>4 DEF RetryInv
  <2> QED BY <2>2, <2>3
<1>4. ASSUME Elapsed PROVE RetryInv'
  <2>1. /\ gor[1].pc = "backoff" /\ UNCHANGED <<answer, cut>>
        /\ waited' = Append(waited, delay) /\ delay' = 2 * delay /\ Make(1, gor[1].at + 1)
    BY <1>4 DEF Elapsed, At
  <2>2. gor[1].at + 1 \in Calls /\ outcome[gor[1].at] = "err" /\ gor[1].at \in Nat
    <3>1. gor[1].at \in Calls /\ gor[1].at < cfg.n /\ outcome[gor[1].at] = "err"
      BY <1>a, <2>1 DEF RetryInv
    <3> QED BY <1>b, <3>1
  <2>3. /\ gor'[1].pc = "call" /\ gor'[1].at = gor[1].at + 1 /\ outcome'[gor[1].at + 1] = "running"
        /\ \A j \in Calls \ {gor[1].at + 1} : outcome'[j] = outcome[j]
    BY <1>a, <1>b, <2>1, <2>2, Making
  <2>4. /\ Len(waited') = Len(waited) + 1 /\ waited'[Len(waited) + 1] = delay
        /\ \A k \in 1 .. Len(waited) : waited'[k] = waited[k]
        /\ Len(waited) \in Nat /\ DOMAIN waited' = 1 .. Len(waited) + 1 /\ DOMAIN waited = 1 .. Len(waited)
    BY <1>c, <2>1
  <2>5. delay = IF Len(waited) = 0 THEN 1 ELSE 2 * waited[Len(waited)]
    <3>1. Len(waited) = 0 <=> waited = <<>>
      BY <1>c, EmptySeq
    <3> QED BY <1>a, <3>1 DEF RetryInv
  <2>6. Doubling'
    <3> SUFFICES ASSUME NEW k \in 1 .. Len(waited) + 1
                 PROVE  waited'[k] = IF k = 1 THEN 1 ELSE 2 * waited'[k - 1]
      BY <2>4 DEF Doubling
    <3>1. CASE k = Len(waited) + 1
      <4>1. CASE Len(waited) = 0
        BY <2>4, <2>5, <3>1, <4>1
      <4>2. CASE Len(waited) # 0
        <5>1. k # 1 /\ k - 1 \in 1 .. Len(waited) /\ k - 1 = Len(waited)
          BY <2>4, <3>1, <4>2
        <5> QED BY <2>4, <2>5, <3>1, <4>2, <5>1
      <4> QED BY <4>1, <4>2
    <3>2. CASE k # Len(waited) + 1
      <4>1. k \in 1 .. Len(waited) /\ (k # 1 => k - 1 \in 1 .. Len(waited))
        BY <2>4, <3>2
      <4>2. waited[k] = IF k = 1 THEN 1 ELSE 2 * waited[k - 1]
        BY <1>a, <2>4, <4>1 DEF RetryInv, Doubling
      <4> QED BY <2>4, <4>1, <4>2
    <3> QED BY <3>1, <3>2
  <2>7. waited' # <<>> /\ delay' = 2 * waited'[Len(waited')]
    BY <2>1, <2>4
  <2>8. \A j \in Calls : /\ j < gor'[1].at => outcome'[j] = "err"
                         /\ j > gor'[1].at => outcome'[j] = "none"
    <3> SUFFICES ASSUME NEW j \in Calls
                 PROVE  /\ j < gor[1].at + 1 => outcome'[j] = "err"
                        /\ j > gor[1].at + 1 => outcome'[j] = "none"
      BY <2>3
    <3>1. /\ j < gor[1].at + 1 => j # gor[1].at + 1 /\ (j < gor[1].at \/ j = gor[1].at)
          /\ j > gor[1].at + 1 => j # gor[1].at + 1 /\ j > gor[1].at
      BY <1>b, <2>2
    <3>2. /\ j < gor[1].at => outcome[j] = "err"
          /\ j > gor[1].at => outcome[j] = "none"
      BY <1>a DEF RetryInv
    <3>3. j # gor[1].at + 1 => outcome'[j] = outcome[j]
      BY <2>3
    <3> QED BY <2>2, <3>1, <3>2, <3>3
  <2>9. answer.kind = "none" /\ Len(waited) = gor[1].at - 1
    BY <1>a, <2>1 DEF RetryInv
  <2>10. gor'[1].at \in Calls /\ gor'[1].pc = "call" /\ outcome'[gor'[1].at] = "running"
    BY <2>2, <2>3
  <2>11. Len(waited') = gor'[1].at - 1
    BY <1>c, <2>2, <2>3, <2>4, <2>9
  <2>12. answer'.kind = "none"
    BY <2>1, <2>9
  <2>13. delay' = IF waited' = <<>> THEN 1 ELSE 2 * waited'[Len(waited')]
    BY <2>7
  <2>14. /\ gor'[1].pc \in {"new", "call", "backoff", "gone"}
         /\ gor'[1].pc = "new" => gor'[1].at = 1 /\ outcome'[1] = "none"
         /\ gor'[1].pc = "call" => outcome'[gor'[1].at] = "running"
         /\ gor'[1].pc = "backoff" => outcome'[gor'[1].at] = "err" /\ gor'[1].at < cfg'.n
    BY <2>10
  <2>15. /\ answer'.kind = "none" <=> gor'[1].pc # "gone"
         /\ answer'.kind = "nil" => answer'.call \in Calls' /\ outcome'[answer'.call] = "ok"
         /\ answer'.kind = "err" => \A i \in Calls' : outcome'[i] = "err"
         /\ answer'.kind = "ctx" => cut' /\ \E i \in Calls' : outcome'[i] = "none"
    BY <2>10, <2>12
  <2> QED BY <1>b, <2>6, <2>8, <2>10, <2>11, <2>13, <2>14, <2>15 DEF RetryInv
<1>5. ASSUME SeeContext PROVE RetryInv'
  <2>1. /\ gor[1].pc = "backoff" /\ cut /\ Goto(1, "gone") /\ answer' = Ret("ctx", 0)
        /\ UNCHANGED <<outcome, waited, delay, cut>>
    BY <1>5 DEF SeeContext, At
  <2>2. gor'[1].pc = "gone" /\ gor'[1].at = gor[1].at /\ answer'.kind = "ctx"
    BY <1>a, <1>b, <2>1, Going DEF Places, Ret
  <2>3. gor[1].at + 1 \in Calls /\ outcome[gor[1].at + 1] = "none"
    <3>1. gor[1].at < cfg.n /\ gor[1].at \in 1 .. cfg.n
      BY <1>a, <1>b, <1>c, <2>1 DEF RetryInv
    <3>2. gor[1].at + 1 \in Calls /\ gor[1].at + 1 > gor[1].at
      BY <1>b, <3>1
    <3> QED BY <1>a, <3>2 DEF RetryInv
  <2> QED BY <1>a, <1>b, <2>1, <2>2, <2>3 DEF RetryInv, Doubling
<1>6. ASSUME ParentCancel PROVE RetryInv'
  BY <1>6, <1>a, <1>b DEF ParentCancel, RetryInv, Doubling
<1>7. FirstAttempt \/ AttemptSucceeds \/ AttemptFails \/ Elapsed \/ SeeContext \/ ParentCancel
  <2>1. \A g \in Gors : gor[g].pc \in {"new", "call", "backoff", "gone"}
    BY <1>a, <1>b DEF RetryInv
  <2>2. cfg.kind \notin Slices /\ cfg.kind # "race"
    BY DEF Slices
  <2> QED
    BY <2>1, <2>2
    DEF Next, GoStep, FnEnds, FnEnds1, RaceStep, Admit, Skip, StartTask, CallItem, LeaveLoop, ItemDone,
        ItemFails, RacerReturns, SendResult, Wait, Close, Receive, AllFailed, At
<1> QED BY <1>1, <1>2, <1>3, <1>4, <1>5, <1>6, <1>7

-----------------------------------------------------------------------------
(* The invariant and what follows from it *)

\* A step that changes nothing keeps the invariant.
LEMMA StutterIInv == ASSUME IInv, UNCHANGED vars PROVE IInv'
<1>1. UNCHANGED <<cfg, count, outcome, gor, cut, parent, blame, results, chan, taken, closed,
                  delay, waited, answer>>
  BY DEF vars
<1>2. /\ Calls' = Calls /\ Gors' = Gors /\ FastPath' = FastPath /\ Recorded' = Recorded
      /\ \A g : Mine(g)' = Mine(g)
  BY <1>1, Fixed
<1>3. Shapes' /\ Once'
  BY <1>1, <1>2 DEF IInv, Shapes, Once
<1>4. cfg.kind \in Slices => SliceInv'
  <2>1. Slots' = Slots
    BY <1>1, <1>2 DEF Slots, AtPlaces
  <2>2. SliceInv => \A g \in Gors : Stands(g)'
    BY <1>1, <1>2 DEF SliceInv, Stands
  <2>3. SliceInv => Recording' /\ SliceAnswer'
    BY <1>1, <1>2 DEF SliceInv, Recording, SliceAnswer, At, Filled
  <2> QED BY <1>1, <1>2, <2>1, <2>2, <2>3 DEF IInv, SliceInv
<1>5. cfg.kind = "race" => RaceInv'
  BY <1>1, <1>2 DEF IInv, RaceInv, At
<1>6. cfg.kind = "retry" => RetryInv'
  BY <1>1, <1>2 DEF IInv, RetryInv, Doubling
<1> QED BY <1>1, <1>3, <1>4, <1>5, <1>6 DEF IInv

\* The invariant is inductive.
LEMMA NextIInv == IInv /\ [Next]_vars => IInv'
<1>1. ASSUME IInv, Next PROVE IInv'
  <2>1. Shapes' /\ cfg' = cfg
    BY <1>1, ShapesNext
  <2> QED BY <1>1, <2>1, OnceNext, SliceNext, RaceNext, RetryNext DEF IInv
<1> QED BY <1>1, StutterIInv

\* IInv: the inductive invariant holds of every behaviour of the helpers.
THEOREM Invariance == Spec => []IInv
  BY InitIInv, NextIInv, PTL DEF Spec

\* No more calls of a slice run at once than goroutines have a slot.
LEMMA CallsHoldSlots ==
    ASSUME IInv, cfg.kind \in Slices, cfg.limit > 0
    PROVE  Cardinality({i \in Calls : outcome[i] = "running"}) <= cfg.limit
<1> DEFINE run == {i \in Calls : outcome[i] = "running"}
           callers == {g \in Gors : gor[g].pc = "call"}
           f == [g \in callers |-> gor[g].at]
<1>a. Shapes /\ (\A h \in Gors : Stands(h)) /\ Cardinality(Slots) <= cfg.limit
  BY DEF IInv, SliceInv
<1>b. IsFiniteSet(Gors) /\ cfg.limit \in Nat /\ outcome \in [Calls -> {"none", "running", "ok", "err"}]
      /\ Calls \subseteq Nat
  <2>1. cfg.n \in Nat /\ (FastPath => Gors = 1 .. Stride /\ Stride \in 1 .. cfg.n) /\ (~FastPath => Gors = 1 .. cfg.n)
        /\ cfg.limit \in Nat /\ Calls = 1 .. cfg.n
    BY <1>a, Numbers
  <2>2. IsFiniteSet(Gors)
    <3>1. \E m \in Nat : Gors = 1 .. m
      BY <2>1
    <3> QED BY <3>1, FS_Interval
  <2> QED BY <1>a, <2>1, <2>2 DEF Shapes
<1>1. \A i \in run : \E g \in callers : f[g] = i
  <2> SUFFICES ASSUME NEW i \in Calls, outcome[i] = "running"
               PROVE  \E g \in callers : gor[g].at = i
    OBVIOUS
  <2>1. PICK g \in Gors : i \in Mine(g)
    BY <1>a, Shares
  <2>2. gor[g].at \in Nat /\ i \in Nat /\ Stands(g)
    BY <1>a, <1>b DEF Shapes, Positions
  <2>3. i = gor[g].at
    BY <2>1, <2>2 DEF Stands
  <2>4. gor[g].pc = "call"
    BY <2>1, <2>2, <2>3 DEF Stands
  <2> QED BY <2>3, <2>4
<1>2. IsFiniteSet(callers) /\ Cardinality(callers) <= Cardinality(Slots)
      /\ Cardinality(callers) \in Nat /\ Cardinality(Slots) \in Nat
  <2>1. IsFiniteSet(Slots) /\ callers \subseteq Slots
    BY <1>b, FS_Subset DEF Slots, AtPlaces
  <2> QED BY <2>1, FS_Subset, FS_CardinalityType
<1>3. {f[g] : g \in callers} = run
  <2>1. \A g \in callers : gor[g].at \in Calls /\ outcome[gor[g].at] = "running"
    BY AtCall
  <2>2. \A g \in callers : f[g] \in run
    BY <2>1
  <2>3. \A i \in run : i \in {f[g] : g \in callers}
    BY <1>1
  <2> HIDE DEF f, run, callers
  <2> QED BY <2>2, <2>3
<1>4. IsFiniteSet(run) /\ Cardinality(run) <= Cardinality(callers) /\ Cardinality(run) \in Nat
  <2>1. f \in Surjection(callers, run)
    BY <1>1, <1>3 DEF Surjection
  <2> QED BY <1>2, <2>1, FS_Surjection, FS_CardinalityType
<1> QED BY <1>a, <1>b, <1>2, <1>4

\* AnswersTrue: what ForEachSlice, MapSlice, Race and SpawnRetry return is true, no
\* call is made twice or beyond the limit, and the backoffs double, for any number of
\* items, racers and attempts.
THEOREM Honest == Spec => []AnswersTrue
<1>1. ASSUME IInv, cfg.kind \in Slices PROVE SliceHonest
  <2>1. \A i \in Calls : count[i] <= 1
    BY <1>1 DEF IInv, Once
  <2>2. SliceAnswer
    BY <1>1 DEF IInv, SliceInv
  <2> QED BY <1>1, <2>1, <2>2, CallsHoldSlots DEF SliceHonest, SliceAnswer, Filled
<1>2. ASSUME IInv, cfg.kind = "race" PROVE RaceHonest
  <2>a. RaceInv /\ chan \in Seq(Gors) /\ taken \in 0 .. Len(chan) /\ answer \in Endings /\ Calls = Gors /\ Calls = 1 .. cfg.n
    BY <1>2, Numbers DEF IInv, Shapes
  <2> SUFFICES ASSUME cfg.n > 0, answer.kind # "none" PROVE RaceHonest
    BY DEF RaceHonest
  <2>1. cut
    BY <2>a DEF RaceInv
  <2>2. answer.kind = "nil" =>
          \E k \in DOMAIN chan :
              /\ chan[k] = answer.call /\ outcome[chan[k]] = "ok"
              /\ \A j \in 1 .. k - 1 : outcome[chan[j]] = "err"
    <3> SUFFICES ASSUME answer.kind = "nil"
                 PROVE  \E k \in DOMAIN chan :
                          /\ chan[k] = answer.call /\ outcome[chan[k]] = "ok"
                          /\ \A j \in 1 .. k - 1 : outcome[chan[j]] = "err"
      OBVIOUS
    <3>1. taken \in DOMAIN chan
      BY <2>a DEF RaceInv
    <3> QED BY <2>a, <3>1 DEF RaceInv
  <2>3. answer.kind \in {"nil", "err", "ctx"}
    BY <2>a DEF Endings
  <2>4. answer.kind # "nil" => \A i \in Calls : outcome[i] = "err"
    BY <2>a, <2>3 DEF RaceInv
  <2>5. answer.kind = "err" => answer.call = Last(chan)
    BY <2>a DEF RaceInv, Last
  <2>6. answer.kind = "ctx" => parent
    BY <2>a DEF RaceInv
  <2> QED BY <2>1, <2>2, <2>4, <2>5, <2>6 DEF RaceHonest
<1>3. ASSUME IInv, cfg.kind = "retry" PROVE RetryHonest
  <2>a. RetryInv /\ Once /\ Calls = 1 .. cfg.n /\ cfg.n \in Nat
    BY <1>3, Numbers DEF IInv
  <2>1. ASSUME NEW i \in Calls, count[i] = 1, NEW j \in 1 .. i - 1 PROVE outcome[j] = "err"
    <3>1. outcome[i] # "none" /\ i \in Nat /\ j \in Calls /\ j < i /\ gor[1].at \in Nat
      BY <2>a, <2>1 DEF Once, RetryInv
    <3>2. i <= gor[1].at
      BY <2>a, <3>1 DEF RetryInv
    <3> QED BY <2>a, <3>1, <3>2 DEF RetryInv
  <2>2. answer.kind = "ctx" => cut /\ \E i \in Calls : count[i] = 0
    BY <2>a DEF RetryInv, Once
  <2> QED BY <2>a, <2>1, <2>2 DEF RetryHonest, RetryInv, At
<1>4. ASSUME IInv PROVE AnswersTrue
  <2>1. SliceHonest
    BY <1>1, <1>4 DEF SliceHonest
  <2>2. RaceHonest
    BY <1>2, <1>4 DEF RaceHonest
  <2>3. RetryHonest
    BY <1>3, <1>4 DEF RetryHonest
  <2> QED BY <2>1, <2>2, <2>3 DEF AnswersTrue
<1> QED BY <1>4, Invariance, PTL
=============================================================================
