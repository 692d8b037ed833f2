------------------------- MODULE ParallelMapProofs --------------------------
(***************************************************************************)
(* Proofs about ParallelMap, for any number of items, workers and tokens   *)
(* and any room in the channel.  The invariant says where each item is and *)
(* who holds a token; from it follow delivery in full, the bound on early  *)
(* results, the close after the last worker, and that stopping a stream is *)
(* no error.                                                               *)
(***************************************************************************)
EXTENDS ParallelMap, FiniteSetTheorems, SequenceTheorems, TLAPS

\* Where the dispatcher is, and what it has started.
Dispatch ==
    /\ \A i \in Items : i >= taken => wpc[i] = "none"
    /\ dpc \in {"new", "skipped"} => taken = 0
    /\ dpc \in {"pend", "sem"} => taken > 0 /\ wpc[taken - 1] = "none"
    /\ dpc \in {"unwind", "gone"} => Busy = {}
    /\ closed <=> dpc = "gone"

\* Every token is that of a result, of a worker, or of the item the dispatcher holds.
Tokens ==
    cfg.ordered =>
        Cardinality(pending) + Len(resCh) + Cardinality(Busy) + (IF dpc = "sem" THEN 1 ELSE 0)
            <= pendingSem

\* An item has left its worker when it is in the channel, kept by the reader, or
\* returned, and it is at one of these places, once.
Places ==
    /\ IsInjective(resCh) /\ IsInjective(emitted)
    /\ ToSet(resCh) \cap pending = {} /\ ToSet(emitted) \cap (ToSet(resCh) \cup pending) = {}
    /\ \A i \in ToSet(resCh) \cup pending \cup ToSet(emitted) : wpc[i] = "gone" /\ outcome[i] # "none"
    /\ \A i \in Items : wpc[i] = "send" => outcome[i] # "none"
    /\ \A i \in ToSet(emitted) : outcome[i] = "err" => i \in streamErr

\* In order mode what was returned is what comes first; otherwise nothing is kept.
Order ==
    /\ cfg.ordered => Len(emitted) = nextIdx /\ \A k \in 1 .. nextIdx : emitted[k] = k - 1
    /\ ~cfg.ordered => pending = {}

\* Who has cancelled what.
Blame ==
    /\ runCancelled => MapDone \/ dpc \in {"unwind", "gone"}
    /\ derr => ctxDone
    /\ CancelError \in streamErr => ctxDone \/ taskDone

\* Without a cancellation nothing is lost, neither on the way nor at the source.
Complete ==
    Undisturbed =>
        /\ dpc # "giveup"
        /\ \A i \in Items : wpc[i] = "gone" => i \in ToSet(resCh) \cup pending \cup ToSet(emitted)
        /\ \A i \in Items : i < taken /\ wpc[i] = "none" => i = taken - 1 /\ dpc \in {"pend", "sem"}
        /\ dpc \in {"join", "unwind", "gone"} =>
              taken = cfg.items /\ (cfg.srcFails => SourceError \in streamErr)
        /\ last \notin {"gap", "gap error"}

\* The end of the stream is the end.
AtEnd == last = "eof" => cpc = "idle" /\ closed /\ resCh = <<>> /\ pending = {}

PInv == TypeOK /\ Dispatch /\ Tokens /\ Places /\ Order /\ Blame /\ Complete /\ AtEnd

-----------------------------------------------------------------------------
(* Sequences and counts *)

\* What the settings are.
LEMMA Settings ==
    ASSUME cfg \in Configs
    PROVE  /\ cfg.items \in Nat /\ cfg.buffer + cfg.workers \in Nat /\ cfg.workers \in Nat \ {0}
           /\ cfg.ordered \in BOOLEAN /\ cfg.outcomes \subseteq {"ok", "err", "eof"}
           /\ PendingLimit(cfg) \in Nat /\ (cfg.ordered <=> PendingLimit(cfg) > 0)
<1>1. /\ cfg.items \in Nat /\ cfg.buffer \in Nat /\ cfg.workers \in Nat \ {0}
      /\ cfg.ordered \in BOOLEAN /\ cfg.outcomes \subseteq {"ok", "err", "eof"}
      /\ cfg.maxPending \in Nat
  BY ConfigsAssumption DEF Config
<1> QED BY <1>1 DEF PendingLimit

\* Items are numbers, and any set of them is finite.
LEMMA ItemsAreFinite ==
    ASSUME cfg \in Configs, NEW S, S \subseteq Items
    PROVE  S \subseteq Nat /\ IsFiniteSet(S) /\ Cardinality(S) \in Nat
<1>1. cfg.items \in Nat
  BY Settings
<1>2. IsFiniteSet(Items) /\ Items \subseteq Nat
  BY <1>1, FS_Interval DEF Items
<1>3. IsFiniteSet(S)
  BY <1>2, FS_Subset
<1> QED BY <1>2, <1>3, FS_CardinalityType

\* What Append does to the members of a sequence.
LEMMA Appended ==
    ASSUME NEW S, NEW s \in Seq(S), NEW e \in S
    PROVE  /\ Append(s, e) \in Seq(S) /\ Len(Append(s, e)) = Len(s) + 1
           /\ Append(s, e)[Len(s) + 1] = e /\ \A k \in 1 .. Len(s) : Append(s, e)[k] = s[k]
           /\ ToSet(Append(s, e)) = ToSet(s) \cup {e}
           /\ IsInjective(s) /\ e \notin ToSet(s) => IsInjective(Append(s, e))
<1> DEFINE t == Append(s, e)
<1>1. /\ t \in Seq(S) /\ Len(t) = Len(s) + 1 /\ DOMAIN t = 1 .. Len(s) + 1
      /\ t[Len(s) + 1] = e /\ \A k \in 1 .. Len(s) : t[k] = s[k]
      /\ DOMAIN s = 1 .. Len(s) /\ Len(s) \in Nat
  OBVIOUS
<1> HIDE DEF t
<1>2. ToSet(t) = ToSet(s) \cup {e}
  <2>1. 1 .. Len(s) + 1 = 1 .. Len(s) \cup {Len(s) + 1}
    BY <1>1
  <2> QED BY <1>1, <2>1 DEF ToSet
<1>3. ASSUME IsInjective(s), e \notin ToSet(s) PROVE IsInjective(t)
  BY <1>1, <1>3 DEF IsInjective, ToSet
<1> QED BY <1>1, <1>2, <1>3 DEF t

\* What Tail does to the members of a sequence without repetitions.
LEMMA Shortened ==
    ASSUME NEW S, NEW s \in Seq(S), s # <<>>, IsInjective(s)
    PROVE  /\ Head(s) \in S /\ Head(s) \in ToSet(s)
           /\ Tail(s) \in Seq(S) /\ Len(Tail(s)) = Len(s) - 1 /\ Len(s) \in Nat \ {0}
           /\ IsInjective(Tail(s)) /\ ToSet(Tail(s)) = ToSet(s) \ {Head(s)}
<1> DEFINE t == Tail(s)
<1>1. /\ t \in Seq(S) /\ Len(t) = Len(s) - 1 /\ DOMAIN t = 1 .. Len(s) - 1
      /\ \A k \in 1 .. Len(s) - 1 : t[k] = s[k + 1]
      /\ DOMAIN s = 1 .. Len(s) /\ Len(s) \in Nat \ {0} /\ Head(s) = s[1]
  OBVIOUS
<1> HIDE DEF t
<1>2. Head(s) \in S /\ Head(s) \in ToSet(s)
  BY <1>1 DEF ToSet
<1>3. IsInjective(t)
  <2> SUFFICES ASSUME NEW i \in DOMAIN t, NEW j \in DOMAIN t, t[i] = t[j] PROVE i = j
    BY DEF IsInjective
  <2>1. s[i + 1] = s[j + 1] /\ i + 1 \in DOMAIN s /\ j + 1 \in DOMAIN s
    BY <1>1
  <2>2. i + 1 = j + 1
    BY <2>1 DEF IsInjective
  <2> QED BY <2>2, <1>1
<1>4. ASSUME NEW x \in ToSet(t) PROVE x \in ToSet(s) /\ x # Head(s)
  <2>1. PICK k \in DOMAIN t : x = t[k]
    BY <1>4 DEF ToSet
  <2>2. k + 1 \in DOMAIN s /\ 1 \in DOMAIN s /\ k + 1 # 1 /\ x = s[k + 1]
    BY <1>1, <2>1
  <2> QED BY <1>1, <2>2 DEF IsInjective, ToSet
<1>5. ASSUME NEW x \in ToSet(s), x # Head(s) PROVE x \in ToSet(t)
  <2>1. PICK k \in DOMAIN s : x = s[k]
    BY DEF ToSet
  <2>2. k # 1 /\ k - 1 \in DOMAIN t /\ x = t[k - 1]
    BY <1>1, <1>5, <2>1
  <2> QED BY <2>2 DEF ToSet
<1> QED BY <1>1, <1>2, <1>3, <1>4, <1>5 DEF t

-----------------------------------------------------------------------------
(* The invariant *)

\* The counters are numbers.
LEMMA Numbers ==
    ASSUME TypeOK
    PROVE  /\ Len(resCh) \in Nat /\ Len(emitted) \in Nat /\ pendingSem \in Nat
           /\ taken \in Nat /\ nextIdx \in Nat
           /\ Cardinality(pending) \in Nat /\ Cardinality(Busy) \in Nat
<1>1. cfg \in Configs /\ pending \subseteq Items /\ Busy \subseteq Items
  BY DEF TypeOK, Busy
<1>2. pendingSem \in Nat /\ taken \in Nat /\ nextIdx \in Nat
  <2>1. PendingLimit(cfg) \in Nat /\ cfg.items \in Nat
    BY <1>1, Settings
  <2>2. pendingSem \in 0 .. PendingLimit(cfg) /\ taken \in 0 .. cfg.items /\ nextIdx \in 0 .. cfg.items
    BY DEF TypeOK
  <2> QED BY <2>1, <2>2
<1>3. resCh \in Seq(Items) /\ emitted \in Seq(Items)
  BY DEF TypeOK
<1>4. Len(resCh) \in Nat /\ Len(emitted) \in Nat
  BY <1>3
<1> QED BY <1>1, <1>2, <1>4, ItemsAreFinite

\* At first nothing has been taken.
LEMMA InitPInv == Init => PInv
<1> SUFFICES ASSUME Init PROVE PInv
  OBVIOUS
<1>1. cfg \in Configs
  BY DEF Init
<1>2. Busy = {}
  BY DEF Init, Busy
<1>3. 0 \in 0 .. PendingLimit(cfg) /\ 0 \in 0 .. cfg.items /\ 0 <= cfg.buffer + cfg.workers
  BY <1>1, Settings
<1>4. TypeOK
  <2>1. wpc \in [Items -> {"none", "fn", "send", "gone"}]
    BY DEF Init
  <2>2. outcome \in [Items -> {"none", "ok", "err", "eof"}]
    BY DEF Init
  <2>3. resCh \in Seq(Items) /\ Len(resCh) = 0 /\ emitted \in Seq(Items)
    BY DEF Init
  <2> QED BY <1>3, <2>1, <2>2, <2>3 DEF Init, TypeOK
<1>5. Tokens
  BY <1>2, FS_EmptySet DEF Init, Tokens
<1>6. ToSet(resCh) = {} /\ ToSet(emitted) = {} /\ IsInjective(resCh) /\ IsInjective(emitted)
  BY DEF Init, ToSet, IsInjective
<1>7. Places /\ Order
  BY <1>6 DEF Init, Places, Order
<1>8. Dispatch /\ Blame /\ Complete /\ AtEnd
  BY <1>2, <1>3, <1>6 DEF Init, Dispatch, Blame, Complete, AtEnd, Items
<1> QED BY <1>4, <1>5, <1>7, <1>8 DEF PInv

\* The settings stay, and with them the items.
LEMMA SameItems ==
    ASSUME cfg' = cfg
    PROVE  Items' = Items /\ PendingLimit(cfg)' = PendingLimit(cfg)
  BY DEF Items, PendingLimit

\* The steps that move no item and no token.
LEMMA Quiet ==
    ASSUME PInv, UNCHANGED <<cfg, wpc, outcome, resCh, pending, emitted, nextIdx, pendingSem>>,
           streamErr \subseteq streamErr', dpc' = "sem" => dpc = "sem" \/ ~cfg.ordered
    PROVE  Tokens' /\ Places' /\ Order'
<1>1. Busy' = Busy
  BY DEF Busy, Items
<1>2. Tokens'
  <2> SUFFICES ASSUME cfg.ordered PROVE Tokens'
    BY DEF Tokens
  <2> QED BY <1>1, Numbers DEF PInv, Tokens
<1> QED BY <1>2 DEF PInv, Places, Order, Items

USE DEF envVars, dispVars, workVars, readVars

\* The places of the dispatcher.
DispatcherPlaces ==
    {"new", "next", "pend", "sem", "join", "giveup", "unwind", "gone", "skipped"}

\* What Next returns, and "none" before the first call.
Answers == {"none", "item", "error", "eof item", "eof", "gap", "gap error", "cancel"}

\* The types after a step, which leaves the settings and with them the items.
LEMMA Typed ==
    ASSUME cfg \in Configs, cfg' = cfg,
           ctxDone' \in BOOLEAN, taskDone' \in BOOLEAN, readDone' \in BOOLEAN, stopped' \in BOOLEAN,
           runCancelled' \in BOOLEAN, derr' \in BOOLEAN, closed' \in BOOLEAN,
           bridge' \in {"none", "waiting", "done"}, dpc' \in DispatcherPlaces, taken' \in 0 .. cfg.items,
           pendingSem' \in 0 .. PendingLimit(cfg),
           wpc' \in [Items -> {"none", "fn", "send", "gone"}],
           outcome' \in [Items -> {"none", "ok", "err", "eof"}],
           resCh' \in Seq(Items), Len(resCh') <= cfg.buffer + cfg.workers,
           cpc' \in {"idle", "loop"}, pending' \subseteq Items, nextIdx' \in 0 .. cfg.items,
           emitted' \in Seq(Items), last' \in Answers,
           streamErr' \subseteq Items \cup {SourceError, CancelError, ReadError, GapError}
    PROVE  TypeOK'
<1>1. Items' = Items /\ PendingLimit(cfg)' = PendingLimit(cfg)
  BY SameItems
<1>3. SourceError' = SourceError /\ CancelError' = CancelError /\ ReadError' = ReadError /\ GapError' = GapError
  BY DEF SourceError, CancelError, ReadError, GapError
<1> QED BY <1>1, <1>3 DEF TypeOK, DispatcherPlaces, Answers

\* The types, when neither the items nor the reader move.
LEMMA QuietTypes ==
    ASSUME TypeOK, UNCHANGED <<cfg, pendingSem, wpc, outcome, resCh, cpc, pending, nextIdx, emitted, last>>,
           ctxDone' \in BOOLEAN, taskDone' \in BOOLEAN, readDone' \in BOOLEAN, stopped' \in BOOLEAN,
           runCancelled' \in BOOLEAN, derr' \in BOOLEAN, closed' \in BOOLEAN,
           bridge' \in {"none", "waiting", "done"}, dpc' \in DispatcherPlaces, taken' \in 0 .. cfg.items,
           streamErr' \subseteq streamErr \cup {SourceError, CancelError}
    PROVE  TypeOK'
<1>1. streamErr' \subseteq Items \cup {SourceError, CancelError, ReadError, GapError}
  BY DEF TypeOK
<1> QED BY <1>1, Typed DEF TypeOK, Answers

\* The types, when neither a context nor what ends the dispatcher moves.
LEMMA MovedTypes ==
    ASSUME TypeOK,
           UNCHANGED <<cfg, ctxDone, taskDone, readDone, stopped, derr, bridge, runCancelled, taken, closed>>,
           dpc' \in DispatcherPlaces, pendingSem' \in 0 .. PendingLimit(cfg),
           wpc' \in [Items -> {"none", "fn", "send", "gone"}],
           outcome' \in [Items -> {"none", "ok", "err", "eof"}],
           resCh' \in Seq(Items), Len(resCh') <= cfg.buffer + cfg.workers,
           cpc' \in {"idle", "loop"}, pending' \subseteq Items, nextIdx' \in 0 .. cfg.items,
           emitted' \in Seq(Items), last' \in Answers,
           streamErr' \subseteq Items \cup {SourceError, CancelError, ReadError, GapError}
    PROVE  TypeOK'
<1>1. /\ ctxDone' \in BOOLEAN /\ taskDone' \in BOOLEAN /\ readDone' \in BOOLEAN /\ stopped' \in BOOLEAN
      /\ runCancelled' \in BOOLEAN /\ derr' \in BOOLEAN /\ closed' \in BOOLEAN
      /\ bridge' \in {"none", "waiting", "done"} /\ taken' \in 0 .. cfg.items
  BY DEF TypeOK
<1>2. cfg \in Configs /\ cfg' = cfg
  BY DEF TypeOK
<1> QED BY <1>1, <1>2, Typed

\* What the fields are.
LEMMA Fields ==
    ASSUME TypeOK
    PROVE  /\ ctxDone \in BOOLEAN /\ taskDone \in BOOLEAN /\ readDone \in BOOLEAN /\ stopped \in BOOLEAN
           /\ runCancelled \in BOOLEAN /\ derr \in BOOLEAN /\ closed \in BOOLEAN
           /\ bridge \in {"none", "waiting", "done"} /\ taken \in 0 .. cfg.items
           /\ cfg \in Configs /\ dpc \in DispatcherPlaces /\ pendingSem \in 0 .. PendingLimit(cfg)
           /\ wpc \in [Items -> {"none", "fn", "send", "gone"}]
           /\ outcome \in [Items -> {"none", "ok", "err", "eof"}]
           /\ resCh \in Seq(Items) /\ Len(resCh) <= cfg.buffer + cfg.workers
           /\ cpc \in {"idle", "loop"} /\ pending \subseteq Items /\ nextIdx \in 0 .. cfg.items
           /\ emitted \in Seq(Items) /\ last \in Answers
           /\ streamErr \subseteq Items \cup {SourceError, CancelError, ReadError, GapError}
           /\ ToSet(resCh) \subseteq Items /\ ToSet(emitted) \subseteq Items
<1>1. resCh \in Seq(Items) /\ emitted \in Seq(Items)
  BY DEF TypeOK
<1>2. ToSet(resCh) \subseteq Items /\ ToSet(emitted) \subseteq Items
  BY <1>1 DEF ToSet
<1> QED BY <1>2 DEF TypeOK, DispatcherPlaces, Answers

\* The dispatcher, as far as it moves no token and starts no worker, and the bridge.
LEMMA DispatcherPInv ==
    ASSUME PInv,
           \/ Begin \/ Skipped \/ Pull \/ SourceEnds \/ SourceCancelled \/ GiveUp \/ Join
           \/ CloseResults \/ Bridge
    PROVE  PInv'
<1>1. CASE Begin
  <2>1. Tokens' /\ Places' /\ Order'
    BY <1>1, Quiet DEF Begin, DispatcherGoes
  <2>2. TypeOK'
    BY <1>1, QuietTypes, Fields DEF Begin, DispatcherGoes, PInv, DispatcherPlaces
  <2>3. Dispatch'
    BY <1>1 DEF Begin, DispatcherGoes, PInv, TypeOK, Dispatch, Busy, Items
  <2>4. Blame' /\ AtEnd'
    BY <1>1 DEF Begin, DispatcherGoes, PInv, TypeOK, Dispatch, Blame, AtEnd,
       RunDone, MapDone, ConsumerStopped, SourceError, CancelError, Items
  <2>5. Complete'
    BY <1>1 DEF Begin, DispatcherGoes, PInv, TypeOK, Dispatch, Blame, Complete, Undisturbed,
       RunDone, MapDone, Busy, Items
  <2> QED BY <2>1, <2>2, <2>3, <2>4, <2>5 DEF PInv
<1>2. CASE Skipped
  <2>1. Tokens' /\ Places' /\ Order'
    BY <1>2, Quiet DEF Skipped, DispatcherGoes
  <2>2. TypeOK'
    BY <1>2, QuietTypes, Fields DEF Skipped, DispatcherGoes, PInv, DispatcherPlaces
  <2>3. Dispatch'
    BY <1>2 DEF Skipped, DispatcherGoes, PInv, TypeOK, Dispatch, Busy, Items
  <2>4. Blame' /\ AtEnd'
    BY <1>2 DEF Skipped, DispatcherGoes, PInv, TypeOK, Dispatch, Blame, AtEnd,
       RunDone, MapDone, ConsumerStopped, SourceError, CancelError, Items
  <2>5. Complete'
    BY <1>2 DEF Skipped, DispatcherGoes, PInv, TypeOK, Dispatch, Blame, Complete, Undisturbed,
       RunDone, MapDone, Busy, Items
  <2> QED BY <2>1, <2>2, <2>3, <2>4, <2>5 DEF PInv
<1>3. CASE Pull
  <2>0. taken \in Nat /\ cfg.items \in Nat /\ taken \in 0 .. cfg.items
    BY Numbers, Settings DEF PInv, TypeOK
  <2>1. Tokens' /\ Places' /\ Order'
    BY <1>3, Quiet, Settings DEF Pull, DispatcherGoes, PInv, TypeOK
  <2>2. TypeOK'
    <3>1. taken' \in 0 .. cfg.items
      BY <1>3, <2>0 DEF Pull
    <3>2. dpc' \in DispatcherPlaces
      BY <1>3 DEF Pull, DispatcherGoes, DispatcherPlaces
    <3> QED BY <1>3, <3>1, <3>2, QuietTypes, Fields DEF Pull, PInv
  <2>3. Dispatch'
    <3>1. dpc' \in {"pend", "sem"} /\ taken' = taken + 1 /\ UNCHANGED <<cfg, wpc, closed>> /\ dpc = "next"
      BY <1>3 DEF Pull, DispatcherGoes
    <3>2. wpc[taken] = "none" /\ taken' - 1 = taken /\ taken' > 0
      BY <1>3, <2>0, <3>1 DEF Pull, PInv, Dispatch, Items
    <3>3. \A i \in Items : i >= taken + 1 => wpc[i] = "none"
      BY <2>0 DEF PInv, Dispatch, Items
    <3>4. ~closed
      BY <3>1 DEF PInv, Dispatch
    <3> QED BY <3>1, <3>2, <3>3, <3>4, SameItems DEF Dispatch
  <2>4. Blame' /\ AtEnd'
    BY <1>3 DEF Pull, DispatcherGoes, PInv, TypeOK, Dispatch, Blame, AtEnd,
       RunDone, MapDone, ConsumerStopped, SourceError, CancelError, Items
  <2>5. Complete'
    <3> SUFFICES ASSUME Undisturbed' PROVE Complete'
      BY DEF Complete
    <3>1. /\ dpc' \in {"pend", "sem"} /\ taken' = taken + 1 /\ dpc = "next" /\ taken < cfg.items
          /\ UNCHANGED <<cfg, wpc, resCh, pending, emitted, last, streamErr>> /\ Undisturbed
      BY <1>3 DEF Pull, DispatcherGoes, Undisturbed
    <3>4. \A i \in Items : i < taken => wpc[i] # "none"
      BY <3>1 DEF PInv, Complete
    <3>2. \A i \in Items : i < taken' /\ wpc[i] = "none" => i = taken
      BY <2>0, <3>1, <3>4 DEF Items
    <3>3. taken' - 1 = taken
      BY <2>0, <3>1
    <3> QED BY <3>1, <3>2, <3>3, SameItems DEF PInv, Complete
  <2> QED BY <2>1, <2>2, <2>3, <2>4, <2>5 DEF PInv
<1>4. CASE SourceEnds
  <2>0. taken \in Nat /\ cfg.items \in Nat /\ taken \in 0 .. cfg.items
    BY Numbers, Settings DEF PInv, TypeOK
  <2>1. Tokens' /\ Places' /\ Order'
    BY <1>4, Quiet DEF SourceEnds, DispatcherGoes
  <2>2. TypeOK'
    BY <1>4, QuietTypes, Fields DEF SourceEnds, DispatcherGoes, PInv, DispatcherPlaces
  <2>3. Dispatch'
    BY <1>4, <2>0 DEF SourceEnds, DispatcherGoes, PInv, TypeOK, Dispatch, Busy, Items
  <2>4. Blame' /\ AtEnd'
    <3>1. CancelError \in streamErr' <=> CancelError \in streamErr
      BY <1>4 DEF SourceEnds, SourceError, CancelError
    <3>2. Blame'
      BY <1>4, <3>1 DEF SourceEnds, DispatcherGoes, PInv, Blame, MapDone, CancelError
    <3>3. AtEnd'
      BY <1>4 DEF SourceEnds, PInv, AtEnd
    <3> QED BY <3>2, <3>3
  <2>5. Complete'
    BY <1>4, <2>0 DEF SourceEnds, DispatcherGoes, PInv, TypeOK, Dispatch, Blame, Complete, Undisturbed,
       RunDone, MapDone, Busy, Items
  <2> QED BY <2>1, <2>2, <2>3, <2>4, <2>5 DEF PInv
<1>5. CASE SourceCancelled
  <2>1. Tokens' /\ Places' /\ Order'
    BY <1>5, Quiet DEF SourceCancelled, DispatcherGoes
  <2>2. TypeOK'
    BY <1>5, QuietTypes, Fields DEF SourceCancelled, DispatcherGoes, PInv, DispatcherPlaces
  <2>3. Dispatch'
    BY <1>5 DEF SourceCancelled, DispatcherGoes, PInv, TypeOK, Dispatch, Busy, Items
  <2>4. Blame' /\ AtEnd'
    BY <1>5 DEF SourceCancelled, DispatcherGoes, PInv, TypeOK, Dispatch, Blame, AtEnd,
       RunDone, MapDone, ConsumerStopped, SourceError, CancelError, Items
  <2>5. Complete'
    BY <1>5 DEF SourceCancelled, DispatcherGoes, PInv, TypeOK, Dispatch, Blame, Complete, Undisturbed,
       RunDone, MapDone, Busy, Items
  <2> QED BY <2>1, <2>2, <2>3, <2>4, <2>5 DEF PInv
<1>6. CASE GiveUp
  <2>1. Tokens' /\ Places' /\ Order'
    BY <1>6, Quiet DEF GiveUp, DispatcherGoes
  <2>2. TypeOK'
    BY <1>6, QuietTypes, Fields DEF GiveUp, DispatcherGoes, PInv, DispatcherPlaces
  <2>3. Dispatch'
    BY <1>6 DEF GiveUp, DispatcherGoes, PInv, TypeOK, Dispatch, Busy, Items
  <2>4. Blame' /\ AtEnd'
    BY <1>6 DEF GiveUp, DispatcherGoes, PInv, TypeOK, Dispatch, Blame, AtEnd,
       RunDone, MapDone, ConsumerStopped, SourceError, CancelError, Items
  <2>5. Complete'
    BY <1>6 DEF GiveUp, DispatcherGoes, PInv, TypeOK, Dispatch, Blame, Complete, Undisturbed,
       RunDone, MapDone, Busy, Items
  <2> QED BY <2>1, <2>2, <2>3, <2>4, <2>5 DEF PInv
<1>7. CASE Join
  <2>1. Tokens' /\ Places' /\ Order'
    BY <1>7, Quiet DEF Join, DispatcherGoes
  <2>2. TypeOK'
    BY <1>7, QuietTypes, Fields DEF Join, DispatcherGoes, PInv, DispatcherPlaces
  <2>3. Dispatch'
    BY <1>7 DEF Join, DispatcherGoes, PInv, TypeOK, Dispatch, Busy, Items
  <2>4. Blame' /\ AtEnd'
    BY <1>7 DEF Join, DispatcherGoes, PInv, TypeOK, Dispatch, Blame, AtEnd,
       RunDone, MapDone, ConsumerStopped, SourceError, CancelError, Items
  <2>5. Complete'
    BY <1>7 DEF Join, DispatcherGoes, PInv, TypeOK, Dispatch, Blame, Complete, Undisturbed,
       RunDone, MapDone, Busy, Items
  <2> QED BY <2>1, <2>2, <2>3, <2>4, <2>5 DEF PInv
<1>8. CASE CloseResults
  <2>1. Tokens' /\ Places' /\ Order'
    BY <1>8, Quiet DEF CloseResults, DispatcherGoes
  <2>2. TypeOK'
    BY <1>8, QuietTypes, Fields DEF CloseResults, DispatcherGoes, PInv, DispatcherPlaces
  <2>3. Dispatch'
    BY <1>8 DEF CloseResults, DispatcherGoes, PInv, TypeOK, Dispatch, Busy, Items
  <2>4. Blame' /\ AtEnd'
    BY <1>8 DEF CloseResults, DispatcherGoes, PInv, TypeOK, Dispatch, Blame, AtEnd,
       RunDone, MapDone, ConsumerStopped, SourceError, CancelError, Items
  <2>5. Complete'
    BY <1>8 DEF CloseResults, DispatcherGoes, PInv, TypeOK, Dispatch, Blame, Complete, Undisturbed,
       RunDone, MapDone, Busy, Items
  <2> QED BY <2>1, <2>2, <2>3, <2>4, <2>5 DEF PInv
<1>9. CASE Bridge
  <2>1. Tokens' /\ Places' /\ Order'
    BY <1>9, Quiet DEF Bridge, DispatcherGoes
  <2>0. /\ runCancelled' \in BOOLEAN /\ (runCancelled' => MapDone \/ runCancelled)
        /\ UNCHANGED <<cfg, ctxDone, taskDone, readDone, stopped, dpc, derr, taken, pendingSem, wpc, outcome,
                      resCh, closed, cpc, pending, nextIdx, emitted, last, streamErr>>
        /\ bridge' = "done"
    <3>1. CASE MapDone /\ runCancelled' = TRUE
      BY <1>9, <3>1 DEF Bridge
    <3>2. CASE RunDone /\ UNCHANGED runCancelled
      BY <1>9, <3>2 DEF Bridge, PInv, TypeOK
    <3> QED BY <1>9, <3>1, <3>2 DEF Bridge
  <2>2. TypeOK'
    BY <2>0, QuietTypes, Fields DEF PInv, DispatcherPlaces
  <2>3. Dispatch'
    BY <1>9 DEF Bridge, DispatcherGoes, PInv, TypeOK, Dispatch, Busy, Items
  <2>4. Blame' /\ AtEnd'
    BY <2>0 DEF PInv, Blame, AtEnd, MapDone, CancelError
  <2>5. Complete'
    BY <1>9 DEF Bridge, DispatcherGoes, PInv, TypeOK, Dispatch, Blame, Complete, Undisturbed,
       RunDone, MapDone, Busy, Items
  <2> QED BY <2>1, <2>2, <2>3, <2>4, <2>5 DEF PInv
<1> QED BY <1>1, <1>2, <1>3, <1>4, <1>5, <1>6, <1>7, <1>8, <1>9

\* The contexts and Stop.
LEMMA EnvironmentPInv ==
    ASSUME PInv, CancelCtx \/ CancelTask \/ CancelRead \/ Stop
    PROVE  PInv'
<1>1. /\ UNCHANGED <<cfg, dispVars, pendingSem, workVars, resCh, closed, readVars, streamErr>>
      /\ (ctxDone => ctxDone') /\ (taskDone => taskDone') /\ (stopped => stopped')
  BY DEF CancelCtx, CancelTask, CancelRead, Stop
<1>2. TypeOK'
  <2>1. ctxDone' \in BOOLEAN /\ taskDone' \in BOOLEAN /\ readDone' \in BOOLEAN /\ stopped' \in BOOLEAN
    BY DEF CancelCtx, CancelTask, CancelRead, Stop, PInv, TypeOK
  <2> QED BY <1>1, <2>1, QuietTypes DEF PInv, TypeOK, DispatcherPlaces
<1>3. Tokens' /\ Places' /\ Order'
  BY <1>1, Quiet
<1>4. Dispatch' /\ Blame' /\ Complete' /\ AtEnd'
  BY <1>1 DEF PInv, Dispatch, Blame, Complete, AtEnd, Undisturbed, MapDone, Busy, Items, CancelError
<1> QED BY <1>2, <1>3, <1>4 DEF PInv

\* The step from a pulled item to a slot.
LEMMA TakeTokenPInv == ASSUME PInv, TakeToken PROVE PInv'
<1>1. /\ dpc = "pend" /\ dpc' = "sem" /\ pendingSem < PendingLimit(cfg) /\ pendingSem' = pendingSem + 1
      /\ UNCHANGED <<cfg, ctxDone, taskDone, readDone, stopped, derr, taken, bridge, runCancelled, wpc, outcome,
                    resCh, closed, cpc, pending, nextIdx, emitted, last, streamErr>>
  BY DEF TakeToken, DispatcherGoes
<1>2. TypeOK'
  <2>1. pendingSem' \in 0 .. PendingLimit(cfg)
    <3>1. pendingSem \in 0 .. PendingLimit(cfg) /\ PendingLimit(cfg) \in Nat
      BY Fields, Settings DEF PInv
    <3> QED BY <1>1, <3>1
  <2> QED BY <1>1, <2>1, MovedTypes, Fields DEF PInv, DispatcherPlaces
<1>3. Tokens'
  <2> SUFFICES ASSUME cfg.ordered PROVE Tokens'
    BY <1>1 DEF Tokens
  <2>1. Busy' = Busy
    BY <1>1 DEF Busy, Items
  <2> QED BY <1>1, <2>1, Numbers DEF PInv, Tokens
<1>4. Places' /\ Order'
  BY <1>1 DEF PInv, Places, Order, Items
<1>5. Dispatch' /\ Blame' /\ Complete' /\ AtEnd'
  BY <1>1 DEF PInv, Dispatch, Blame, Complete, AtEnd, Undisturbed, MapDone, Busy, Items, CancelError
<1> QED BY <1>2, <1>3, <1>4, <1>5 DEF PInv

\* The item the dispatcher holds gets its worker.
LEMMA StartWorkerPInv == ASSUME PInv, StartWorker PROVE PInv'
<1> DEFINE n == taken - 1
<1>1. /\ dpc = "sem" /\ dpc' = "next" /\ wpc' = [wpc EXCEPT ![n] = "fn"]
      /\ UNCHANGED <<cfg, ctxDone, taskDone, readDone, stopped, derr, taken, bridge, runCancelled, pendingSem,
                    outcome, resCh, closed, cpc, pending, nextIdx, emitted, last, streamErr>>
  BY DEF StartWorker, DispatcherGoes
<1>2. /\ taken \in 1 .. cfg.items /\ cfg.items \in Nat /\ n \in Items /\ wpc[n] = "none"
      /\ wpc \in [Items -> {"none", "fn", "send", "gone"}]
  <2>1. taken \in 0 .. cfg.items /\ cfg.items \in Nat
    BY Settings DEF PInv, TypeOK
  <2>2. taken > 0 /\ wpc[n] = "none"
    BY <1>1 DEF PInv, Dispatch
  <2>3. taken \in 1 .. cfg.items /\ n \in Items
    BY <2>1, <2>2 DEF Items
  <2> QED BY <2>1, <2>2, <2>3, Fields DEF PInv
<1> HIDE DEF n
<1>3. /\ wpc'[n] = "fn" /\ \A i \in Items : i # n => wpc'[i] = wpc[i]
      /\ wpc' \in [Items -> {"none", "fn", "send", "gone"}]
  BY <1>1, <1>2
<1>4. TypeOK'
  BY <1>1, <1>3, MovedTypes, Fields DEF PInv, DispatcherPlaces
<1>5. Tokens'
  <2> SUFFICES ASSUME cfg.ordered PROVE Tokens'
    BY <1>1 DEF Tokens
  <2>1. Busy' = Busy \cup {n} /\ n \notin Busy
    BY <1>1, <1>2, <1>3, SameItems DEF Busy
  <2>2. Busy \subseteq Items /\ IsFiniteSet(Busy)
    BY ItemsAreFinite DEF Busy, PInv, TypeOK
  <2>3. Cardinality(Busy') = Cardinality(Busy) + 1
    BY <2>1, <2>2, FS_AddElement
  <2> QED BY <1>1, <2>3, Numbers DEF PInv, Tokens
<1>6. Places' /\ Order'
  <2>1. \A i \in Items : wpc[i] = "gone" => wpc'[i] = "gone"
    BY <1>2, <1>3
  <2>2. \A i \in Items : wpc'[i] = "send" => wpc[i] = "send"
    BY <1>3
  <2>3. ToSet(resCh) \subseteq Items /\ pending \subseteq Items /\ ToSet(emitted) \subseteq Items
    BY Fields DEF PInv
  <2> QED BY <1>1, <2>1, <2>2, <2>3, SameItems DEF PInv, Places, Order
<1>7. Dispatch'
  <2>1. \A i \in Items : i >= taken => i # n
    BY <1>2 DEF n, Items
  <2> QED BY <1>1, <1>3, <2>1, SameItems DEF PInv, Dispatch
<1>8. Blame' /\ AtEnd'
  BY <1>1 DEF PInv, Blame, AtEnd, MapDone, CancelError
<1>9. Complete'
  <2> SUFFICES ASSUME Undisturbed PROVE Complete'
    BY <1>1 DEF Complete, Undisturbed
  <2>1. \A i \in Items : wpc'[i] = "gone" => wpc[i] = "gone"
    BY <1>3
  <2>2. \A i \in Items : ~(i < taken /\ wpc'[i] = "none")
    <3>1. \A i \in Items : i < taken /\ wpc[i] = "none" => i = n
      BY DEF PInv, Complete, n
    <3> QED BY <1>3, <3>1
  <2> QED BY <1>1, <2>1, <2>2, SameItems DEF PInv, Complete
<1> QED BY <1>4, <1>5, <1>6, <1>7, <1>8, <1>9 DEF PInv

\* A worker moves: what is known of its item, and what of the others.
LEMMA WorkerMoves ==
    ASSUME PInv, NEW i \in Items, wpc[i] \in {"fn", "send"}, NEW w \in {"send", "gone"},
           wpc' = [wpc EXCEPT ![i] = w], UNCHANGED <<cfg, dispVars, closed>>
    PROVE  /\ wpc' \in [Items -> {"none", "fn", "send", "gone"}]
           /\ wpc'[i] = w /\ \A j \in Items : j # i => wpc'[j] = wpc[j]
           /\ i \in Busy /\ dpc \notin {"unwind", "gone"} /\ ~closed /\ last # "eof"
           /\ i \notin ToSet(resCh) /\ i \notin pending /\ i \notin ToSet(emitted)
           /\ Dispatch'
<1>1. /\ wpc' \in [Items -> {"none", "fn", "send", "gone"}]
      /\ wpc'[i] = w /\ \A j \in Items : j # i => wpc'[j] = wpc[j]
  BY DEF PInv, TypeOK
<1>2. i \in Busy
  BY DEF Busy
<1>3. dpc \notin {"unwind", "gone"} /\ ~closed
  BY <1>2 DEF PInv, Dispatch
<1>4. last # "eof"
  BY <1>3 DEF PInv, AtEnd
<1>5. i \notin ToSet(resCh) /\ i \notin pending /\ i \notin ToSet(emitted)
  BY DEF PInv, Places
<1>6. Dispatch'
  <2>1. \A j \in Items : wpc[j] = "none" => wpc'[j] = "none"
    BY <1>1
  <2>2. dpc \in {"pend", "sem"} => taken - 1 \in Items
    <3>1. taken \in 0 .. cfg.items /\ cfg.items \in Nat
      BY Settings DEF PInv, TypeOK
    <3>2. dpc \in {"pend", "sem"} => taken > 0
      BY DEF PInv, Dispatch
    <3> QED BY <3>1, <3>2 DEF Items
  <2> QED BY <1>3, <2>1, <2>2, SameItems DEF PInv, Dispatch
<1> QED BY <1>1, <1>2, <1>3, <1>4, <1>5, <1>6

\* A mapper returns.
LEMMA FnEndsPInv == ASSUME PInv, NEW i \in Items, FnEnds(i) PROVE PInv'
<1>1. /\ wpc[i] = "fn" /\ wpc' = [wpc EXCEPT ![i] = "send"]
      /\ UNCHANGED <<cfg, ctxDone, taskDone, readDone, stopped, dpc, derr, taken, bridge, runCancelled,
                    pendingSem, resCh, closed, cpc, pending, nextIdx, emitted, last, streamErr>>
  BY DEF FnEnds
<1>2. PICK o \in cfg.outcomes : outcome' = [outcome EXCEPT ![i] = o]
  BY DEF FnEnds
<1>3. /\ outcome' \in [Items -> {"none", "ok", "err", "eof"}]
      /\ outcome'[i] # "none" /\ \A j \in Items : j # i => outcome'[j] = outcome[j]
  <2>1. o \in {"ok", "err", "eof"} /\ outcome \in [Items -> {"none", "ok", "err", "eof"}]
    BY Settings DEF PInv, TypeOK
  <2> QED BY <1>2, <2>1
<1>4. /\ wpc' \in [Items -> {"none", "fn", "send", "gone"}]
      /\ wpc'[i] = "send" /\ \A j \in Items : j # i => wpc'[j] = wpc[j]
      /\ i \notin ToSet(resCh) /\ i \notin pending /\ i \notin ToSet(emitted)
      /\ Dispatch'
  BY <1>1, WorkerMoves
<1>5. TypeOK'
  BY <1>1, <1>3, <1>4, MovedTypes, Fields DEF PInv, DispatcherPlaces
<1>6. Busy' = Busy
  BY <1>1, <1>4, SameItems DEF Busy
<1>7. Tokens'
  <2> SUFFICES ASSUME cfg.ordered PROVE Tokens'
    BY <1>1 DEF Tokens
  <2> QED BY <1>1, <1>6, Numbers DEF PInv, Tokens
<1>8. Places' /\ Order'
  <2>1. ToSet(resCh) \subseteq Items /\ pending \subseteq Items /\ ToSet(emitted) \subseteq Items
    BY Fields DEF PInv
  <2>2. \A j \in ToSet(resCh) \cup pending \cup ToSet(emitted) : wpc'[j] = wpc[j] /\ outcome'[j] = outcome[j]
    BY <1>3, <1>4, <2>1
  <2>3. \A j \in Items : wpc'[j] = "send" => outcome'[j] # "none"
    BY <1>3, <1>4 DEF PInv, Places
  <2> QED BY <1>1, <2>2, <2>3, SameItems DEF PInv, Places, Order
<1>9. Complete'
  BY <1>1, <1>4, SameItems DEF PInv, Complete, Undisturbed
<1>10. Blame' /\ AtEnd'
  BY <1>1 DEF PInv, Blame, AtEnd, MapDone, CancelError
<1> QED BY <1>4, <1>5, <1>7, <1>8, <1>9, <1>10 DEF PInv

\* A worker puts its result into the channel.
LEMMA SendResultPInv == ASSUME PInv, NEW i \in Items, SendResult(i) PROVE PInv'
<1>1. /\ wpc[i] = "send" /\ wpc' = [wpc EXCEPT ![i] = "gone"] /\ resCh' = Append(resCh, i)
      /\ Len(resCh) < cfg.buffer + cfg.workers
      /\ UNCHANGED <<cfg, ctxDone, taskDone, readDone, stopped, dpc, derr, taken, bridge, runCancelled,
                    pendingSem, outcome, closed, cpc, pending, nextIdx, emitted, last, streamErr>>
  BY DEF SendResult
<1>2. /\ wpc' \in [Items -> {"none", "fn", "send", "gone"}]
      /\ wpc'[i] = "gone" /\ \A j \in Items : j # i => wpc'[j] = wpc[j]
      /\ i \in Busy /\ dpc \notin {"unwind", "gone"} /\ last # "eof"
      /\ i \notin ToSet(resCh) /\ i \notin pending /\ i \notin ToSet(emitted)
      /\ Dispatch'
  BY <1>1, WorkerMoves
<1>3. /\ resCh' \in Seq(Items) /\ Len(resCh') = Len(resCh) + 1
      /\ ToSet(resCh') = ToSet(resCh) \cup {i} /\ IsInjective(resCh')
  BY <1>1, <1>2, Appended, Fields DEF PInv, Places
<1>4. TypeOK'
  <2>1. Len(resCh') <= cfg.buffer + cfg.workers
    BY <1>1, <1>3, Numbers, Settings, Fields DEF PInv
  <2> QED BY <1>1, <1>2, <1>3, <2>1, MovedTypes, Fields DEF PInv, DispatcherPlaces
<1>5. Tokens'
  <2> SUFFICES ASSUME cfg.ordered PROVE Tokens'
    BY <1>1 DEF Tokens
  <2>1. Busy' = Busy \ {i}
    BY <1>1, <1>2, SameItems DEF Busy
  <2>2. Busy \subseteq Items /\ IsFiniteSet(Busy)
    BY ItemsAreFinite, Fields DEF Busy, PInv
  <2>3. Cardinality(Busy') = Cardinality(Busy) - 1
    BY <1>2, <2>1, <2>2, FS_RemoveElement
  <2> QED BY <1>1, <1>3, <2>3, Numbers DEF PInv, Tokens
<1>6. Places' /\ Order'
  <2>1. ToSet(resCh) \subseteq Items /\ pending \subseteq Items /\ ToSet(emitted) \subseteq Items
    BY Fields DEF PInv
  <2>2. \A j \in ToSet(resCh) \cup pending \cup ToSet(emitted) : wpc'[j] = "gone" /\ outcome'[j] # "none"
    BY <1>1, <1>2, <2>1 DEF PInv, Places
  <2>3. wpc'[i] = "gone" /\ outcome'[i] # "none"
    BY <1>1, <1>2 DEF PInv, Places
  <2>4. \A j \in Items : wpc'[j] = "send" => outcome'[j] # "none"
    BY <1>1, <1>2 DEF PInv, Places
  <2> QED BY <1>1, <1>2, <1>3, <2>2, <2>3, <2>4, SameItems DEF PInv, Places, Order
<1>7. Complete'
  <2>1. \A j \in Items : wpc'[j] = "none" <=> wpc[j] = "none"
    BY <1>1, <1>2
  <2>2. \A j \in Items : wpc'[j] = "gone" => wpc[j] = "gone" \/ j = i
    BY <1>2
  <2> QED BY <1>1, <1>3, <2>1, <2>2, SameItems DEF PInv, Complete, Undisturbed
<1>8. Blame' /\ AtEnd'
  BY <1>1, <1>2 DEF PInv, Blame, AtEnd, MapDone, CancelError
<1> QED BY <1>2, <1>4, <1>5, <1>6, <1>7, <1>8 DEF PInv

\* A worker drops its result, which takes a cancellation.
LEMMA DropResultPInv == ASSUME PInv, NEW i \in Items, DropResult(i) PROVE PInv'
<1>1. /\ wpc[i] = "send" /\ wpc' = [wpc EXCEPT ![i] = "gone"] /\ RunDone
      /\ UNCHANGED <<cfg, ctxDone, taskDone, readDone, stopped, dpc, derr, taken, bridge, runCancelled,
                    pendingSem, outcome, resCh, closed, cpc, pending, nextIdx, emitted, last, streamErr>>
  BY DEF DropResult
<1>2. /\ wpc' \in [Items -> {"none", "fn", "send", "gone"}]
      /\ wpc'[i] = "gone" /\ \A j \in Items : j # i => wpc'[j] = wpc[j]
      /\ i \in Busy /\ dpc \notin {"unwind", "gone"} /\ last # "eof"
      /\ i \notin ToSet(resCh) /\ i \notin pending /\ i \notin ToSet(emitted)
      /\ Dispatch'
  BY <1>1, WorkerMoves
<1>3. TypeOK'
  BY <1>1, <1>2, MovedTypes, Fields DEF PInv, DispatcherPlaces
<1>4. Tokens'
  <2> SUFFICES ASSUME cfg.ordered PROVE Tokens'
    BY <1>1 DEF Tokens
  <2>1. Busy' = Busy \ {i}
    BY <1>1, <1>2, SameItems DEF Busy
  <2>2. Busy \subseteq Items /\ IsFiniteSet(Busy)
    BY ItemsAreFinite, Fields DEF Busy, PInv
  <2>3. Cardinality(Busy') = Cardinality(Busy) - 1
    BY <1>2, <2>1, <2>2, FS_RemoveElement
  <2> QED BY <1>1, <2>3, Numbers DEF PInv, Tokens
<1>5. Places' /\ Order'
  <2>1. ToSet(resCh) \subseteq Items /\ pending \subseteq Items /\ ToSet(emitted) \subseteq Items
    BY Fields DEF PInv
  <2>2. \A j \in ToSet(resCh) \cup pending \cup ToSet(emitted) : wpc'[j] = "gone" /\ outcome'[j] # "none"
    BY <1>1, <1>2, <2>1 DEF PInv, Places
  <2>3. \A j \in Items : wpc'[j] = "send" => outcome'[j] # "none"
    BY <1>1, <1>2 DEF PInv, Places
  <2> QED BY <1>1, <2>2, <2>3, SameItems DEF PInv, Places, Order
<1>6. Complete'
  <2>1. ~Undisturbed
    BY <1>1, <1>2 DEF PInv, Blame, RunDone, MapDone, Undisturbed
  <2> QED BY <1>1, <2>1 DEF Complete, Undisturbed
<1>7. Blame' /\ AtEnd'
  BY <1>1 DEF PInv, Blame, AtEnd, MapDone, CancelError
<1> QED BY <1>2, <1>3, <1>4, <1>5, <1>6, <1>7 DEF PInv

\* The reader: the invariant in what it leaves alone.
LEMMA ReaderMoves ==
    ASSUME PInv,
           UNCHANGED <<cfg, ctxDone, taskDone, readDone, stopped, dpc, derr, taken, bridge, runCancelled,
                      wpc, outcome, closed>>,
           CancelError \in streamErr' => CancelError \in streamErr
    PROVE  Dispatch' /\ Blame' /\ Busy' = Busy
  BY DEF PInv, Dispatch, Blame, MapDone, CancelError, Busy, Items

\* The answer to the result of an item whose mapper has returned.
LEMMA Answered ==
    ASSUME PInv, NEW i \in Items, outcome[i] # "none"
    PROVE  /\ AnswerOf(i) \in {"item", "error", "eof item"}
           /\ ErrorsOf(i) \subseteq {i} /\ (outcome[i] = "err" => i \in ErrorsOf(i))
           /\ CancelError \notin ErrorsOf(i)
<1>1. outcome[i] \in {"ok", "err", "eof"}
  BY Fields DEF PInv
<1>2. i \in Nat
  BY ItemsAreFinite, Fields DEF PInv
<1>3. AnswerOf(i) \in {"item", "error", "eof item"}
  BY <1>1 DEF AnswerOf
<1>4. ErrorsOf(i) \subseteq {i} /\ (outcome[i] = "err" => i \in ErrorsOf(i))
  BY DEF ErrorsOf
<1>5. CancelError # i
  BY <1>2 DEF CancelError
<1> QED BY <1>3, <1>4, <1>5

\* Next is called.
LEMMA CallNextPInv == ASSUME PInv, CallNext PROVE PInv'
<1>1. /\ cpc' = "loop" /\ last # "eof"
      /\ UNCHANGED <<cfg, ctxDone, taskDone, readDone, stopped, dpc, derr, taken, bridge, runCancelled,
                    pendingSem, wpc, outcome, resCh, closed, pending, nextIdx, emitted, last, streamErr>>
  BY DEF CallNext, Ended
<1>2. TypeOK'
  BY <1>1, MovedTypes, Fields DEF PInv
<1>3. Tokens' /\ Places' /\ Order'
  BY <1>1, Quiet
<1>4. Dispatch' /\ Blame'
  BY <1>1, ReaderMoves
<1>5. Complete' /\ AtEnd'
  BY <1>1, SameItems DEF PInv, Complete, AtEnd, Undisturbed
<1> QED BY <1>2, <1>3, <1>4, <1>5 DEF PInv

\* Next returns the item whose turn it is.
LEMMA EmitPendingPInv == ASSUME PInv, EmitPending PROVE PInv'
<1> DEFINE n == nextIdx
<1>1. /\ cfg.ordered /\ n \in pending /\ pendingSem > 0 /\ pendingSem' = pendingSem - 1
      /\ pending' = pending \ {n} /\ nextIdx' = n + 1 /\ emitted' = Append(emitted, n)
      /\ cpc' = "idle" /\ last' = AnswerOf(n) /\ streamErr' = streamErr \cup ErrorsOf(n)
      /\ UNCHANGED <<cfg, ctxDone, taskDone, readDone, stopped, dpc, derr, taken, bridge, runCancelled,
                    wpc, outcome, resCh, closed>>
  BY DEF EmitPending, CanEmit, Return
<1>2. n \in Items /\ wpc[n] = "gone" /\ outcome[n] # "none" /\ n \notin ToSet(resCh) /\ n \notin ToSet(emitted)
  BY <1>1, Fields DEF PInv, Places
<1>3. /\ last' \in {"item", "error", "eof item"} /\ ErrorsOf(n) \subseteq {n}
      /\ (outcome[n] = "err" => n \in ErrorsOf(n)) /\ CancelError \notin ErrorsOf(n)
  BY <1>1, <1>2, Answered
<1>4. /\ emitted' \in Seq(Items) /\ Len(emitted') = Len(emitted) + 1
      /\ emitted'[Len(emitted) + 1] = n /\ \A k \in 1 .. Len(emitted) : emitted'[k] = emitted[k]
      /\ ToSet(emitted') = ToSet(emitted) \cup {n} /\ IsInjective(emitted')
  BY <1>1, <1>2, Appended, Fields DEF PInv, Places
<1> HIDE DEF n
<1>5. Dispatch' /\ Blame' /\ Busy' = Busy
  BY <1>1, <1>3, ReaderMoves
<1>6. TypeOK'
  <2>1. pendingSem' \in 0 .. PendingLimit(cfg) /\ nextIdx' \in 0 .. cfg.items
    <3>1. pendingSem \in 0 .. PendingLimit(cfg) /\ PendingLimit(cfg) \in Nat /\ cfg.items \in Nat
      BY Fields, Settings DEF PInv
    <3>2. n \in 0 .. cfg.items - 1
      BY <1>2 DEF Items
    <3> QED BY <1>1, <3>1, <3>2
  <2>2. last' \in Answers
    BY <1>3 DEF Answers
  <2>3. streamErr' \subseteq Items \cup {SourceError, CancelError, ReadError, GapError}
    BY <1>1, <1>2, <1>3, Fields DEF PInv
  <2>4. /\ TypeOK /\ dpc' \in DispatcherPlaces /\ cpc' \in {"idle", "loop"} /\ pending' \subseteq Items
        /\ wpc' \in [Items -> {"none", "fn", "send", "gone"}]
        /\ outcome' \in [Items -> {"none", "ok", "err", "eof"}]
        /\ resCh' \in Seq(Items) /\ Len(resCh') <= cfg.buffer + cfg.workers
    BY <1>1, Fields DEF PInv
  <2> QED BY <1>1, <1>4, <2>1, <2>2, <2>3, <2>4, MovedTypes
<1>7. Tokens'
  <2>1. IsFiniteSet(pending)
    BY ItemsAreFinite, Fields DEF PInv
  <2>2. Cardinality(pending') = Cardinality(pending) - 1
    BY <1>1, <2>1, FS_RemoveElement
  <2> SUFFICES ASSUME cfg.ordered PROVE Tokens'
    BY <1>1 DEF Tokens
  <2>3. Cardinality(pending) + Len(resCh) + Cardinality(Busy) + (IF dpc = "sem" THEN 1 ELSE 0)
          <= pendingSem
    BY <1>1 DEF PInv, Tokens
  <2>4. /\ Cardinality(pending) \in Nat /\ Len(resCh) \in Nat /\ Cardinality(Busy) \in Nat
        /\ pendingSem \in Nat
    BY Numbers DEF PInv
  <2> QED BY <1>1, <1>5, <2>2, <2>3, <2>4 DEF Tokens
<1>8. Places'
  <2>1. \A j \in ToSet(resCh) \cup pending' \cup ToSet(emitted') : wpc[j] = "gone" /\ outcome[j] # "none"
    BY <1>1, <1>2, <1>4 DEF PInv, Places
  <2>2. \A j \in ToSet(emitted') : outcome[j] = "err" => j \in streamErr'
    BY <1>1, <1>3, <1>4 DEF PInv, Places
  <2> QED BY <1>1, <1>2, <1>4, <2>1, <2>2, SameItems DEF PInv, Places
<1>9. Order'
  <2>1. Len(emitted) = n /\ \A k \in 1 .. n : emitted[k] = k - 1
    BY <1>1 DEF PInv, Order, n
  <2>2. n \in Nat
    BY <1>2, ItemsAreFinite, Fields DEF PInv
  <2>3. Len(emitted') = nextIdx' /\ \A k \in 1 .. nextIdx' : emitted'[k] = k - 1
    BY <1>1, <1>4, <2>1, <2>2
  <2> QED BY <1>1, <2>3 DEF Order
<1>10. Complete' /\ AtEnd'
  <2>1. ToSet(resCh) \cup pending' \cup ToSet(emitted') = ToSet(resCh) \cup pending \cup ToSet(emitted)
    BY <1>1, <1>4
  <2>2. last' \notin {"gap", "gap error", "eof"}
    BY <1>3
  <2>3. streamErr \subseteq streamErr'
    BY <1>1
  <2> QED BY <1>1, <2>1, <2>2, <2>3, SameItems DEF PInv, Complete, AtEnd, Undisturbed
<1> QED BY <1>5, <1>6, <1>7, <1>8, <1>9, <1>10 DEF PInv

\* A result is received that came early, and kept.
LEMMA KeepPInv == ASSUME PInv, Keep PROVE PInv'
<1> DEFINE h == Head(resCh)
<1>1. /\ cfg.ordered /\ cpc = "loop" /\ resCh # <<>> /\ resCh' = Tail(resCh) /\ pending' = pending \cup {h}
      /\ UNCHANGED <<cfg, ctxDone, taskDone, readDone, stopped, dpc, derr, taken, bridge, runCancelled,
                    pendingSem, wpc, outcome, closed, cpc, nextIdx, emitted, last, streamErr>>
  BY DEF Keep, Waiting
<1>2. /\ h \in Items /\ h \in ToSet(resCh) /\ resCh' \in Seq(Items)
      /\ Len(resCh') = Len(resCh) - 1 /\ Len(resCh) \in Nat \ {0}
      /\ IsInjective(resCh') /\ ToSet(resCh') = ToSet(resCh) \ {h}
  BY <1>1, Shortened, Fields DEF PInv, Places
<1>3. wpc[h] = "gone" /\ outcome[h] # "none" /\ h \notin pending /\ h \notin ToSet(emitted)
  BY <1>2 DEF PInv, Places
<1> HIDE DEF h
<1>4. Dispatch' /\ Blame' /\ Busy' = Busy
  BY <1>1, ReaderMoves
<1>5. TypeOK'
  <2>1. Len(resCh') <= cfg.buffer + cfg.workers
    BY <1>2, Fields, Settings DEF PInv
  <2> QED BY <1>1, <1>2, <2>1, MovedTypes, Fields DEF PInv
<1>6. Tokens'
  <2>1. IsFiniteSet(pending)
    BY ItemsAreFinite, Fields DEF PInv
  <2>2. Cardinality(pending') = Cardinality(pending) + 1
    BY <1>1, <1>3, <2>1, FS_AddElement
  <2> QED BY <1>1, <1>2, <1>4, <2>2, Numbers DEF PInv, Tokens
<1>7. Places' /\ Order'
  BY <1>1, <1>2, <1>3, SameItems DEF PInv, Places, Order
<1>8. Complete' /\ AtEnd'
  <2>1. last # "eof"
    BY <1>1 DEF PInv, AtEnd
  <2>2. ToSet(resCh') \cup pending' = ToSet(resCh) \cup pending
    BY <1>1, <1>2
  <2> QED BY <1>1, <2>1, <2>2, SameItems DEF PInv, Complete, AtEnd, Undisturbed
<1> QED BY <1>4, <1>5, <1>6, <1>7, <1>8 DEF PInv

\* A result is received and returned.
LEMMA EmitReceivedPInv == ASSUME PInv, EmitReceived PROVE PInv'
<1> DEFINE h == Head(resCh)
<1>1. /\ ~cfg.ordered /\ resCh # <<>> /\ resCh' = Tail(resCh) /\ emitted' = Append(emitted, h)
      /\ cpc' = "idle" /\ last' = AnswerOf(h) /\ streamErr' = streamErr \cup ErrorsOf(h)
      /\ UNCHANGED <<cfg, ctxDone, taskDone, readDone, stopped, dpc, derr, taken, bridge, runCancelled,
                    pendingSem, wpc, outcome, closed, pending, nextIdx>>
  BY DEF EmitReceived, Return
<1>2. /\ h \in Items /\ h \in ToSet(resCh) /\ resCh' \in Seq(Items)
      /\ Len(resCh') = Len(resCh) - 1 /\ Len(resCh) \in Nat \ {0}
      /\ IsInjective(resCh') /\ ToSet(resCh') = ToSet(resCh) \ {h}
  BY <1>1, Shortened, Fields DEF PInv, Places
<1>3. wpc[h] = "gone" /\ outcome[h] # "none" /\ h \notin pending /\ h \notin ToSet(emitted)
  BY <1>2 DEF PInv, Places
<1>4. /\ last' \in {"item", "error", "eof item"} /\ ErrorsOf(h) \subseteq {h}
      /\ (outcome[h] = "err" => h \in ErrorsOf(h)) /\ CancelError \notin ErrorsOf(h)
  BY <1>1, <1>2, <1>3, Answered
<1>5. /\ emitted' \in Seq(Items) /\ ToSet(emitted') = ToSet(emitted) \cup {h} /\ IsInjective(emitted')
  BY <1>1, <1>2, <1>3, Appended, Fields DEF PInv, Places
<1> HIDE DEF h
<1>6. Dispatch' /\ Blame' /\ Busy' = Busy
  BY <1>1, <1>4, ReaderMoves
<1>7. TypeOK'
  <2>1. Len(resCh') <= cfg.buffer + cfg.workers
    BY <1>2, Fields, Settings DEF PInv
  <2>2. last' \in Answers
    BY <1>4 DEF Answers
  <2>3. streamErr' \subseteq Items \cup {SourceError, CancelError, ReadError, GapError}
    BY <1>1, <1>2, <1>4, Fields DEF PInv
  <2> QED BY <1>1, <1>2, <1>5, <2>1, <2>2, <2>3, MovedTypes, Fields DEF PInv
<1>8. Tokens' /\ Order'
  BY <1>1 DEF PInv, Tokens, Order
<1>9. Places'
  <2>1. \A j \in ToSet(emitted') : outcome[j] = "err" => j \in streamErr'
    BY <1>1, <1>4, <1>5 DEF PInv, Places
  <2> QED BY <1>1, <1>2, <1>3, <1>5, <2>1, SameItems DEF PInv, Places
<1>10. Complete' /\ AtEnd'
  <2>1. last' \notin {"gap", "gap error", "eof"}
    BY <1>4
  <2>2. ToSet(resCh') \cup pending' \cup ToSet(emitted') = ToSet(resCh) \cup pending \cup ToSet(emitted)
    BY <1>1, <1>2, <1>5
  <2>3. streamErr \subseteq streamErr'
    BY <1>1
  <2> QED BY <1>1, <2>1, <2>2, <2>3, SameItems DEF PInv, Complete, AtEnd, Undisturbed
<1> QED BY <1>6, <1>7, <1>8, <1>9, <1>10 DEF PInv

\* What the reader finds at the end of a stream that nobody disturbed: no gap.
LEMMA NoGap ==
    ASSUME PInv, Undisturbed, closed, resCh = <<>>, ~CanEmit
    PROVE  pending = {}
<1> SUFFICES ASSUME pending # {} PROVE FALSE
  OBVIOUS
<1>1. cfg.ordered /\ nextIdx \notin pending
  BY DEF PInv, Order, CanEmit
<1>2. dpc = "gone" /\ Busy = {}
  BY DEF PInv, Dispatch
<1>3. taken = cfg.items /\ \A i \in Items : i < taken => wpc[i] # "none"
  BY <1>2 DEF PInv, Complete
<1>4. cfg.items \in Nat /\ nextIdx \in 0 .. cfg.items
  BY Fields, Settings DEF PInv
<1>5. \A i \in Items : wpc[i] = "gone"
  <2>1. \A i \in Items : wpc[i] # "none"
    BY <1>3, <1>4 DEF Items
  <2>2. \A i \in Items : wpc[i] \notin {"fn", "send"}
    BY <1>2 DEF Busy
  <2> QED BY <2>1, <2>2, Fields DEF PInv
<1>6. ToSet(resCh) = {}
  BY DEF ToSet
<1>7. \A i \in Items : i \in pending \cup ToSet(emitted)
  BY <1>5, <1>6 DEF PInv, Complete
<1>8. DOMAIN emitted = 1 .. nextIdx /\ \A k \in 1 .. nextIdx : emitted[k] = k - 1
  BY <1>1, Fields DEF PInv, Order
<1>9. nextIdx = cfg.items
  <2> SUFFICES ASSUME nextIdx # cfg.items PROVE FALSE
    OBVIOUS
  <2>1. nextIdx \in Items
    BY <1>4 DEF Items
  <2>2. nextIdx \in ToSet(emitted)
    BY <1>1, <1>7, <2>1
  <2>3. PICK k \in 1 .. nextIdx : nextIdx = emitted[k]
    BY <1>8, <2>2 DEF ToSet
  <2> QED BY <1>4, <1>8, <2>3
<1>10. PICK j \in pending : TRUE
  OBVIOUS
<1>11. j \in 0 .. cfg.items - 1
  BY <1>10, Fields DEF PInv, Items
<1>12. j + 1 \in 1 .. nextIdx /\ emitted[j + 1] = j
  <2>1. j + 1 \in 1 .. nextIdx
    BY <1>4, <1>9, <1>11
  <2>2. \A k \in 1 .. nextIdx : emitted[k] = k - 1
    BY <1>8
  <2>3. (j + 1) - 1 = j
    BY <1>11
  <2> QED BY <2>1, <2>2, <2>3
<1>13. j \in ToSet(emitted)
  BY <1>8, <1>12 DEF ToSet
<1> QED BY <1>10, <1>13 DEF PInv, Places

\* The steps of the reader that return no item.
LEMMA NoItem ==
    ASSUME PInv, NEW errs, errs \subseteq Items \cup {ReadError, GapError}, CancelError \notin errs,
           streamErr' = streamErr \cup errs, cpc' = "idle", last' \in Answers,
           last' = "eof" => closed /\ resCh = <<>> /\ pending = {},
           Undisturbed => last' \notin {"gap", "gap error"},
           UNCHANGED <<cfg, ctxDone, taskDone, readDone, stopped, dpc, derr, taken, bridge, runCancelled,
                      pendingSem, wpc, outcome, resCh, closed, pending, nextIdx, emitted>>
    PROVE  PInv'
<1>1. streamErr' \subseteq Items \cup {SourceError, CancelError, ReadError, GapError}
  BY Fields DEF PInv
<1>2. TypeOK'
  BY <1>1, MovedTypes, Fields DEF PInv
<1>3. Tokens' /\ Places' /\ Order'
  BY Quiet
<1>4. Dispatch' /\ Blame'
  BY ReaderMoves
<1>5. Complete' /\ AtEnd'
  BY SameItems DEF PInv, Complete, AtEnd, Undisturbed
<1> QED BY <1>2, <1>3, <1>4, <1>5 DEF PInv

\* The reader finds the end, or its context cancelled.
LEMMA EndPInv == ASSUME PInv, FindClosed \/ ReadCancelled PROVE PInv'
<1>1. CASE ReadCancelled
  <2>1. /\ streamErr' = streamErr \cup {ReadError} /\ cpc' = "idle" /\ last' = "cancel"
        /\ UNCHANGED <<cfg, ctxDone, taskDone, readDone, stopped, dpc, derr, taken, bridge, runCancelled,
                      pendingSem, wpc, outcome, resCh, closed, pending, nextIdx, emitted>>
    BY <1>1 DEF ReadCancelled, Return
  <2>2. CancelError \notin {ReadError}
    BY DEF CancelError, ReadError
  <2> QED BY <2>1, <2>2, NoItem DEF Answers
<1>2. CASE FindClosed
  <2>1. /\ resCh = <<>> /\ closed /\ ~CanEmit
        /\ UNCHANGED <<cfg, ctxDone, taskDone, readDone, stopped, dpc, derr, taken, bridge, runCancelled,
                      pendingSem, wpc, outcome, resCh, closed, pending, nextIdx, emitted>>
    BY <1>2 DEF FindClosed, Waiting
  <2>2. Undisturbed => pending = {}
    BY <2>1, NoGap
  <2>3. CASE pending = {} /\ Return("eof", {})
    <3>1. streamErr' = streamErr \cup {} /\ cpc' = "idle" /\ last' = "eof"
      BY <2>3 DEF Return
    <3> QED BY <2>1, <2>3, <3>1, NoItem DEF Answers
  <2>4. CASE pending # {} /\ Return("gap", {GapError})
    <3>1. streamErr' = streamErr \cup {GapError} /\ cpc' = "idle" /\ last' = "gap"
      BY <2>4 DEF Return
    <3>2. CancelError \notin {GapError}
      BY DEF CancelError, GapError
    <3> QED BY <2>1, <2>2, <2>4, <3>1, <3>2, NoItem DEF Answers
  <2>5. ASSUME NEW i \in pending,
               Return(IF outcome[i] = "err" THEN "gap error" ELSE "eof item", ErrorsOf(i))
        PROVE  PInv'
    <3>1. streamErr' = streamErr \cup ErrorsOf(i) /\ cpc' = "idle" /\ last' \in {"gap error", "eof item"}
      BY <2>5 DEF Return
    <3>2. i \in Items /\ outcome[i] # "none"
      BY Fields DEF PInv, Places
    <3>3. ErrorsOf(i) \subseteq Items /\ CancelError \notin ErrorsOf(i)
      BY <3>2, Answered
    <3>4. last' \in Answers /\ last' # "eof"
      BY <3>1 DEF Answers
    <3> QED BY <2>1, <2>2, <3>1, <3>3, <3>4, NoItem
  <2> QED BY <1>2, <2>3, <2>4, <2>5 DEF FindClosed
<1> QED BY <1>1, <1>2

-----------------------------------------------------------------------------
(* The theorems *)

\* Every step keeps the invariant.
LEMMA StepPInv == PInv /\ [Next]_vars => PInv'
<1> SUFFICES ASSUME PInv, [Next]_vars PROVE PInv'
  OBVIOUS
<1>1. CASE DispatcherStep
  BY <1>1, DispatcherPInv, TakeTokenPInv, StartWorkerPInv DEF DispatcherStep
<1>2. CASE Bridge
  BY <1>2, DispatcherPInv
<1>3. CASE \E i \in Items : WorkerStep(i)
  BY <1>3, FnEndsPInv, SendResultPInv, DropResultPInv DEF WorkerStep
<1>4. CASE ReaderStep
  BY <1>4, CallNextPInv, EmitPendingPInv, KeepPInv, EmitReceivedPInv, EndPInv DEF ReaderStep
<1>5. CASE CancelCtx \/ CancelTask \/ CancelRead \/ Stop
  BY <1>5, EnvironmentPInv
<1>6. CASE UNCHANGED vars
  <2>1. UNCHANGED <<cfg, ctxDone, taskDone, readDone, stopped, dpc, derr, taken, bridge, runCancelled,
                   pendingSem, wpc, outcome, resCh, closed, cpc, pending, nextIdx, emitted, last, streamErr>>
    BY <1>6 DEF vars
  <2>2. TypeOK'
    BY <2>1, MovedTypes, Fields DEF PInv
  <2>3. Tokens' /\ Places' /\ Order'
    BY <2>1, Quiet
  <2>4. Dispatch' /\ Blame'
    BY <2>1, ReaderMoves
  <2>5. Complete' /\ AtEnd'
    BY <2>1, SameItems DEF PInv, Complete, AtEnd, Undisturbed
  <2> QED BY <2>2, <2>3, <2>4, <2>5 DEF PInv
<1> QED BY <1>1, <1>2, <1>3, <1>4, <1>5, <1>6 DEF Next

\* Where every item is, who holds a token and who has cancelled what, in every
\* state of every stream.
THEOREM MapInvariance == Spec => []PInv
<1>1. Init => PInv
  BY InitPInv
<1>2. PInv /\ [Next]_vars => PInv'
  BY StepPInv
<1> QED BY <1>1, <1>2, PTL DEF Spec

\* What an item costs: the reader is never short of a token to give back, and
\* what it keeps is bounded by MaxPending.
THEOREM TokensCover == Spec => []TokensCoverResults
<1>1. PInv => TokensCoverResults
  <2> SUFFICES ASSUME PInv, cfg.ordered PROVE Cardinality(pending) + Len(resCh) + Cardinality(Busy) <= pendingSem
    BY DEF PInv, TokensCoverResults
  <2> QED BY Numbers DEF PInv, Tokens
<1> QED BY <1>1, MapInvariance, PTL

\* No worker is left to send when the channel of results is closed.
THEOREM ClosedAfter == Spec => []ClosedAfterWorkers
<1>1. PInv => ClosedAfterWorkers
  BY DEF PInv, Dispatch, ClosedAfterWorkers
<1> QED BY <1>1, MapInvariance, PTL

\* Stopping a stream neither fails its scope nor shows in Err().
THEOREM StopSilent == Spec => []StopIsNoError
<1>1. PInv => StopIsNoError
  BY DEF PInv, Blame, StopIsNoError
<1> QED BY <1>1, MapInvariance, PTL

\* Every item once, in order in ordered mode, and all of them with all their
\* errors when nothing was cancelled.
THEOREM InFull == Spec => []DeliveredInFull
<1>1. PInv => DeliveredInFull
  <2> SUFFICES ASSUME PInv PROVE DeliveredInFull
    OBVIOUS
  <2>1. IsInjective(emitted)
    BY DEF PInv, Places
  <2>2. cfg.ordered => \A k \in DOMAIN emitted : emitted[k] = k - 1
    BY Fields DEF PInv, Order
  <2>3. Undisturbed => last \notin {"gap", "gap error"}
    BY DEF PInv, Complete
  <2>4. ASSUME Undisturbed, last = "eof"
        PROVE  /\ ToSet(emitted) = Items
               /\ \A i \in Items : outcome[i] = "err" => i \in streamErr
               /\ cfg.srcFails => SourceError \in streamErr
    <3>1. closed /\ resCh = <<>> /\ pending = {}
      BY <2>4 DEF PInv, AtEnd
    <3>2. dpc = "gone" /\ Busy = {}
      BY <3>1 DEF PInv, Dispatch
    <3>3. /\ taken = cfg.items /\ (cfg.srcFails => SourceError \in streamErr)
          /\ \A i \in Items : i < taken => wpc[i] # "none"
      BY <2>4, <3>2 DEF PInv, Complete
    <3>4. \A i \in Items : wpc[i] = "gone"
      <4>1. \A i \in Items : i < taken
        BY <3>3, Settings, Fields DEF PInv, Items
      <4>2. \A i \in Items : wpc[i] \notin {"fn", "send"}
        BY <3>2 DEF Busy
      <4> QED BY <3>3, <4>1, <4>2, Fields DEF PInv
    <3>5. ToSet(resCh) = {}
      BY <3>1 DEF ToSet
    <3>6. ToSet(emitted) = Items
      BY <2>4, <3>1, <3>4, <3>5, Fields DEF PInv, Complete
    <3> QED BY <3>3, <3>6 DEF PInv, Places
  <2> QED BY <2>1, <2>2, <2>3, <2>4 DEF DeliveredInFull
<1> QED BY <1>1, MapInvariance, PTL

=============================================================================
