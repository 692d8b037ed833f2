---------------------------- MODULE StageProofs ----------------------------
(***************************************************************************)
(* Proofs about the module Stage, for every set of functions, every N and  *)
(* Fan and any number of items.  The invariant IInv is inductive; it says  *)
(* for each function how its memory, its sends under way and its outputs   *)
(* follow what it has received.                                            *)
(***************************************************************************)
EXTENDS Stage, FiniteSetTheorems, SequenceTheorems, TLAPS

-----------------------------------------------------------------------------
(* Selections *)

\* What is selected depends on the chosen positions alone.
LEMMA SelectsSame ==
    ASSUME NEW out, NEW made, NEW also, NEW chosen, Selects(out, made, chosen),
           \A k \in chosen : also[k] = made[k]
    PROVE  Selects(out, also, chosen)
  BY DEF Selects

\* One more position, above the others, is one more element at the end.
LEMMA SelectsMore ==
    ASSUME NEW S, NEW out \in Seq(S), NEW made, NEW n \in Nat, NEW chosen \in SUBSET (1 .. n),
           made[n + 1] \in S, Selects(out, made, chosen)
    PROVE  Selects(Append(out, made[n + 1]), made, chosen \cup {n + 1})
<1> DEFINE more == chosen \cup {n + 1}
           upTo(k) == {j \in chosen : j <= k}
<1>0. 1 .. n \subseteq Nat /\ \A k \in chosen : k \in Nat /\ k <= n
  OBVIOUS
<1>1. IsFiniteSet(chosen) /\ Cardinality(chosen) \in Nat /\ n + 1 \notin chosen
  <2>1. IsFiniteSet(1 .. n)
    BY FS_Interval
  <2>2. IsFiniteSet(chosen)
    BY <2>1, FS_Subset
  <2> QED BY <1>0, <2>2, FS_CardinalityType
<1>2. Cardinality(more) = Cardinality(chosen) + 1
  BY <1>1, FS_AddElement
<1>3. Len(Append(out, made[n + 1])) = Cardinality(more)
  BY <1>2 DEF Selects
<1>4. ASSUME NEW k \in chosen
      PROVE  Append(out, made[n + 1])[Cardinality({j \in more : j <= k})] = made[k]
  <2>1. {j \in more : j <= k} = upTo(k)
    BY <1>0
  <2>2. upTo(k) \subseteq chosen /\ k \in upTo(k)
    BY <1>0
  <2>3. Len(out) = Cardinality(chosen) /\ out[Cardinality(upTo(k))] = made[k]
    BY DEF Selects
  <2> DEFINE c == Cardinality(upTo(k))
  <2> HIDE DEF upTo, more
  <2>4. IsFiniteSet(upTo(k)) /\ c \in Nat /\ c <= Cardinality(chosen) /\ c # 0
    <3>1. IsFiniteSet(upTo(k)) /\ c <= Cardinality(chosen)
      BY <1>1, <2>2, FS_Subset
    <3>2. c \in Nat
      BY <3>1, FS_CardinalityType
    <3>3. upTo(k) # {}
      BY <2>2
    <3> QED BY <3>1, <3>2, <3>3, FS_EmptySet
  <2>5. c \in 1 .. Len(out) /\ out[c] = made[k]
    BY <2>3, <2>4
  <2> HIDE DEF c
  <2>6. Append(out, made[n + 1])[c] = out[c]
    BY <2>5
  <2> QED BY <2>1, <2>5, <2>6 DEF c
<1>5. Append(out, made[n + 1])[Cardinality({j \in more : j <= n + 1})] = made[n + 1]
  <2>1. {j \in more : j <= n + 1} = more
    <3>1. \A j \in more : j <= n + 1
      BY <1>0
    <3> HIDE DEF more
    <3> QED BY <3>1
  <2>2. Len(out) = Cardinality(chosen)
    BY DEF Selects
  <2> HIDE DEF more
  <2>3. Cardinality(more) = Len(out) + 1
    BY <1>2, <2>2
  <2>4. Append(out, made[n + 1])[Len(out) + 1] = made[n + 1]
    OBVIOUS
  <2> QED BY <2>1, <2>3, <2>4
<1> HIDE DEF more
<1> QED BY <1>3, <1>4, <1>5 DEF Selects, more

\* Nothing is selected from nothing.
LEMMA SelectsNone == ASSUME NEW made PROVE Selects(<<>>, made, {})
  BY FS_EmptySet DEF Selects

-----------------------------------------------------------------------------
(* The state *)

Item   == {1, 2} \X (Nat \ {0})
Values == Item \cup ({"fn"} \X Item) \cup (Item \X Item) \cup Seq(Item)
          \cup [items : Seq(Item), reason : {"size", "timeout", "close"}]
Sends  == [out : Outputs, val : Values]
Memory == [pc    : {"loop", "return", "gone"},
           todo  : Seq(Sends),
           held  : Seq(Item),
           n     : Nat,
           clock : {"off", "armed", "due"}]

TypeOK ==
    /\ kind \in Kinds
    /\ nilIn \subseteq Inputs /\ closedIn \subseteq Inputs
    /\ cancelled \in BOOLEAN /\ closedOut \in BOOLEAN /\ reading \in BOOLEAN
    /\ consumed \in [Inputs -> Seq(Item)]
    /\ gor \in [Workers -> Memory]
    /\ sent \in [Outputs -> Seq(Values)]
    /\ read \in [Outputs -> Nat]
    /\ debt \in Nat

\* Item k of input i is <<i, k>>.
Numbered == \A i \in Inputs : \A k \in 1 .. Len(consumed[i]) : consumed[i][k] = <<i, k>>

Windows == {"buffer", "bufferWithReason", "tumbling", "sliding", "debounce"}

\* No output is waited for twice.
Distinct(l) == \A i, j \in 1 .. Len(l) : i # j => l[i].out # l[j].out

LEMMA DistinctOne == ASSUME NEW x PROVE Distinct(<<x>>) /\ Len(<<x>>) = 1
  BY DEF Distinct

LEMMA DistinctNone == Distinct(<<>>) /\ Len(<<>>) = 0
  BY DEF Distinct

LEMMA DistinctTail ==
    ASSUME NEW S, NEW l \in Seq(S), l # <<>>, Distinct(l)
    PROVE  Distinct(Tail(l)) /\ Len(Tail(l)) = Len(l) - 1
<1>1. /\ Len(Tail(l)) = Len(l) - 1 /\ Len(l) \in Nat
      /\ \A i \in 1 .. Len(Tail(l)) : Tail(l)[i] = l[i + 1]
  BY HeadTailProperties
<1> QED BY <1>1 DEF Distinct

\* Only some functions have a clock, and only some have something to send at the end;
\* the timer of Debounce belongs to an item; one value at most waits for an output, and
\* in all, but for Tee and Broadcast.
Sound(m) ==
    /\ m \in Memory
    /\ m.clock # "off" => kind \in Windows \cup {"throttle"}
    /\ kind = "debounce" /\ m.clock # "off" => m.held # <<>>
    /\ m.pc # "loop" /\ kind \notin Windows \cup {"first"} => m.todo = <<>>
    /\ m.pc = "gone" => m.todo = <<>>
    /\ kind \notin {"tee", "broadcast"} => Len(m.todo) <= 1
    /\ Distinct(m.todo)

Basic == TypeOK /\ Numbered /\ \A g \in Workers : Sound(gor[g])

\* The kind, and with it the goroutines and channels, are settled by the call.
LEMMA Settled ==
    ASSUME kind' = kind
    PROVE  /\ Inputs' = Inputs /\ Outputs' = Outputs /\ Workers' = Workers
           /\ Sends' = Sends /\ Memory' = Memory
  BY DEF Inputs, Outputs, Workers, Sends, Memory

LEMMA SettledNext == [Next]_vars => kind' = kind /\ nilIn' = nilIn
  BY DEF Next, vars, Receive, InputEnds, Tick, OnCancelled, Send, GiveUp, Return, Fire, Closer,
     CloseInput, Cancel, Read, StopReading

\* There is one goroutine, except for Merge.
LEMMA OneWorker ==
    ASSUME NEW g \in Workers PROVE g \in Inputs /\ (kind # "merge" => g = 1 /\ Workers = {1})
  BY DEF Workers, Inputs

\* Channels are numbered from 1.
LEMMA Channels == 1 \in Inputs /\ 1 \in Outputs /\ Inputs \subseteq {1, 2} /\ 1 \in Workers
  BY StageAssumption DEF Inputs, Outputs, Workers

-----------------------------------------------------------------------------
(* What the functions make of their memory *)

\* The three events of the loop, function by function.
LEMMA OnItemIs ==
    ASSUME NEW m, NEW v
    PROVE  /\ kind = "map"       => OnItem(m, v) = Sending(m, 1, Apply(v))
           /\ kind = "filter"    => OnItem(m, v) = IF Keep(v) THEN Sending(m, 1, v) ELSE m
           /\ kind = "skip"      => OnItem(m, v) = Skip(m, v)
           /\ kind = "scan"      => OnItem(m, v) = Scan(m, v)
           /\ kind \in {"take", "orDone", "merge"} => OnItem(m, v) = Sending(m, 1, v)
           /\ kind = "fanOut"    => OnItem(m, v) = Sending(m, (m.n % Fan) + 1, v)
           /\ kind \in {"tee", "broadcast"} => OnItem(m, v) = ToEach(m, v)
           /\ kind = "partition" => OnItem(m, v) = Sending(m, IF Keep(v) THEN 1 ELSE 2, v)
           /\ kind = "first"     => OnItem(m, v) = First(m, v)
           /\ kind = "zip"       => OnItem(m, v) = ZipPair(m, v)
           /\ kind \in Buffering => OnItem(m, v) = Buffer(m, v)
           /\ kind \in {"tumbling", "sliding"} => OnItem(m, v) = [m EXCEPT !.held = Append(@, v)]
           /\ kind = "debounce"  => OnItem(m, v) = Debounce(m, v)
           /\ kind = "throttle"  => OnItem(m, v) = Throttle(m, v)
  BY DEF OnItem, Map, Filter, Take, OrDone, Merge, FanOut, Tee, Broadcast, Partition, Buffering,
     Buffer, BufferWithReason, Tumbling, Sliding

LEMMA OnTickIs ==
    ASSUME NEW m, NEW k
    PROVE  /\ kind \in Buffering => OnTick(m, k) = Flush([m EXCEPT !.clock = "off"], "timeout")
           /\ kind = "tumbling" => OnTick(m, k) = Window([m EXCEPT !.clock = "armed"])
           /\ kind = "sliding"  =>
                 OnTick(m, k) = Window(Unexpired([m EXCEPT !.clock = "armed"], k))
           /\ kind = "debounce" =>
                 OnTick(m, k) = Sending([m EXCEPT !.clock = "off"], 1,
                                        [m EXCEPT !.clock = "off"].held[1])
           /\ kind = "throttle" => OnTick(m, k) = Refill([m EXCEPT !.clock = "armed"])
  BY DEF OnTick, Ticking, Buffering

LEMMA OnEndIs ==
    ASSUME NEW m, NEW k
    PROVE  /\ kind \in Buffering => OnEnd(m, k) = Flush([m EXCEPT !.pc = "return"], "close")
           /\ kind = "tumbling" => OnEnd(m, k) = Window([m EXCEPT !.pc = "return"])
           /\ kind = "sliding"  =>
                 OnEnd(m, k) = Window(Unexpired([m EXCEPT !.pc = "return"], k))
           /\ kind = "debounce" =>
                 OnEnd(m, k) = IF [m EXCEPT !.pc = "return"].held = <<>>
                               THEN [m EXCEPT !.pc = "return"]
                               ELSE Sending([m EXCEPT !.pc = "return"], 1,
                                            [m EXCEPT !.pc = "return"].held[1])
           /\ kind \notin Windows => OnEnd(m, k) = [m EXCEPT !.pc = "return"]
  BY DEF OnEnd, Buffering, Windows

LEMMA OnSentIs ==
    ASSUME NEW m
    PROVE  /\ kind = "take" =>
                 OnSent(m) = [m EXCEPT !.n = @ + 1, !.pc = IF m.n + 1 < N THEN @ ELSE "return"]
           /\ kind = "fanOut" => OnSent(m) = [m EXCEPT !.n = @ + 1]
           /\ kind \in Buffering \cup {"debounce"} =>
                 OnSent(m) = [m EXCEPT !.held = <<>>, !.clock = "off"]
           /\ kind = "tumbling" => OnSent(m) = [m EXCEPT !.held = <<>>]
           /\ kind \notin Buffering \cup {"take", "fanOut", "debounce", "tumbling"} =>
                 OnSent(m) = m
  BY DEF OnSent, Buffering

\* A send to make.
LEMMA SendingIs ==
    ASSUME NEW m \in Memory, NEW o \in Outputs, NEW v \in Values
    PROVE  /\ Sending(m, o, v) \in Memory
           /\ Sending(m, o, v).todo = <<[out |-> o, val |-> v]>>
           /\ Sending(m, o, v).pc = m.pc /\ Sending(m, o, v).held = m.held
           /\ Sending(m, o, v).n = m.n /\ Sending(m, o, v).clock = m.clock
<1>1. <<[out |-> o, val |-> v]>> \in Seq(Sends)
  BY DEF Sends
<1> QED BY <1>1 DEF Sending, Memory

\* The batch of a flush, if there is one.
LEMMA FlushIs ==
    ASSUME NEW m \in Memory, NEW why \in {"size", "timeout", "close"}
    PROVE  /\ Flush(m, why) \in Memory
           /\ Flush(m, why).todo = IF m.held = <<>> THEN m.todo
                                   ELSE <<[out |-> 1, val |-> BatchValue(m, why)]>>
           /\ Flush(m, why).pc = m.pc /\ Flush(m, why).held = m.held
           /\ Flush(m, why).n = m.n /\ Flush(m, why).clock = m.clock
<1>1. m.held \in Seq(Item) /\ BatchValue(m, why) \in Values
  BY DEF Memory, BatchValue, Values
<1> QED BY <1>1, SendingIs, Channels DEF Flush

LEMMA WindowIs ==
    ASSUME NEW m \in Memory
    PROVE  /\ Window(m) \in Memory
           /\ Window(m).todo = IF m.held = <<>> THEN m.todo
                               ELSE <<[out |-> 1, val |-> m.held]>>
           /\ Window(m).pc = m.pc /\ Window(m).held = m.held
           /\ Window(m).n = m.n /\ Window(m).clock = m.clock
<1>1. m.held \in Seq(Item) /\ m.held \in Values
  BY DEF Memory, Values
<1> QED BY <1>1, SendingIs, Channels DEF Window

LEMMA UnexpiredIs ==
    ASSUME NEW m \in Memory, NEW k \in 0 .. Len(m.held)
    PROVE  /\ Unexpired(m, k) \in Memory
           /\ Unexpired(m, k).held = SubSeq(m.held, k + 1, Len(m.held))
           /\ Unexpired(m, k).todo = m.todo /\ Unexpired(m, k).pc = m.pc
           /\ Unexpired(m, k).n = m.n /\ Unexpired(m, k).clock = m.clock
<1>1. m.held \in Seq(Item)
  BY DEF Memory
<1>2. SubSeq(m.held, k + 1, Len(m.held)) \in Seq(Item)
  BY <1>1
<1> QED BY <1>1, <1>2 DEF Unexpired, Memory

\* What keeps a sound goroutine sound.
LEMMA SoundLike ==
    ASSUME NEW m, Sound(m), NEW w \in Memory,
           w.clock = "off" \/ (w.clock = m.clock /\ w.held = m.held),
           w.pc # "loop" /\ kind \notin Windows \cup {"first"} => w.todo = <<>>,
           w.pc = "gone" => w.todo = <<>>,
           w.todo = m.todo \/ w.todo = <<>> \/ \E x : w.todo = <<x>>
    PROVE  Sound(w)
<1>1. Distinct(w.todo) /\ (kind \notin {"tee", "broadcast"} => Len(w.todo) <= 1)
  <2>1. CASE w.todo = m.todo
    BY <2>1 DEF Sound
  <2>2. CASE w.todo = <<>>
    BY <2>2, DistinctNone
  <2>3. ASSUME NEW x, w.todo = <<x>> PROVE <1>1
    <3>1. Distinct(<<x>>) /\ Len(<<x>>) = 1
      BY DistinctOne
    <3> QED BY <2>3, <3>1
  <2> QED BY <2>1, <2>2, <2>3
<1> QED BY <1>1 DEF Sound

\* In the loop any send will do.
LEMMA SendingSound ==
    ASSUME NEW m, Sound(m), m.pc = "loop", NEW o \in Outputs, NEW v \in Values
    PROVE  Sound(Sending(m, o, v))
<1>1. m \in Memory
  BY DEF Sound
<1>2. Sending(m, o, v) \in Memory
  BY <1>1, SendingIs
<1>3. /\ Sending(m, o, v).pc = "loop" /\ Sending(m, o, v).held = m.held
      /\ Sending(m, o, v).clock = m.clock
      /\ Sending(m, o, v).todo = <<[out |-> o, val |-> v]>>
  BY <1>1, SendingIs
<1> QED BY <1>2, <1>3, DistinctOne DEF Sound

\* Those that have a last send may flush when they return, too.
LEMMA FlushSound ==
    ASSUME NEW m, Sound(m), m.pc # "gone", NEW why \in {"size", "timeout", "close"},
           kind \in Windows
    PROVE  Sound(Flush(m, why))
<1>1. m \in Memory
  BY DEF Sound
<1>2. /\ Flush(m, why) \in Memory /\ Flush(m, why).pc = m.pc
      /\ Flush(m, why).todo \in {m.todo, <<[out |-> 1, val |-> BatchValue(m, why)]>>}
      /\ Flush(m, why).held = m.held /\ Flush(m, why).clock = m.clock
  BY <1>1, FlushIs
<1> QED BY <1>2, SoundLike

LEMMA WindowSound ==
    ASSUME NEW m, Sound(m), m.pc # "gone", kind \in Windows
    PROVE  Sound(Window(m)) /\ Window(m).pc = m.pc
<1>1. m \in Memory
  BY DEF Sound
<1>2. /\ Window(m) \in Memory /\ Window(m).pc = m.pc
      /\ Window(m).todo \in {m.todo, <<[out |-> 1, val |-> m.held]>>}
      /\ Window(m).held = m.held /\ Window(m).clock = m.clock
  BY <1>1, WindowIs
<1> QED BY <1>2, SoundLike

LEMMA ItemSound ==
    ASSUME kind \in Kinds, NEW m, Sound(m), m.pc = "loop", m.todo = <<>>, NEW v \in Item,
           kind = "throttle" => m.n # 0
    PROVE  Sound(OnItem(m, v))
<1>0. /\ m \in Memory /\ v \in Values /\ Apply(v) \in Values
      /\ m.held \in Seq(Item) /\ m.n \in Nat /\ m.clock \in {"off", "armed", "due"}
  BY DEF Sound, Memory, Values, Apply
<1>c. 1 \in Outputs
  BY Channels
<1>1. CASE kind \in {"map", "take", "orDone", "merge", "filter"}
  <2>1. OnItem(m, v) \in {m, Sending(m, 1, v), Sending(m, 1, Apply(v))}
    BY <1>1, OnItemIs
  <2> QED BY <1>0, <1>c, <2>1, SendingSound
<1>2. CASE kind = "skip"
  <2>1. OnItem(m, v) \in {[m EXCEPT !.n = @ + 1], Sending(m, 1, v)}
    BY <1>2, OnItemIs DEF Skip
  <2>2. Sound([m EXCEPT !.n = @ + 1])
    BY <1>0 DEF Sound, Memory
  <2> QED BY <1>0, <1>c, <2>1, <2>2, SendingSound
<1>3. CASE kind = "scan"
  <2> DEFINE h == [m EXCEPT !.held = Append(@, v)]
  <2>0. Append(m.held, v) \in Seq(Item)
    BY <1>0
  <2>1. Sound(h) /\ h.pc = "loop"
    BY <1>0, <1>3, <2>0 DEF Sound, Memory
  <2>2. Append(m.held, v) \in Values
    BY <1>0 DEF Values
  <2>3. OnItem(m, v) = Sending(h, 1, Append(m.held, v))
    BY <1>3, OnItemIs DEF Scan
  <2> HIDE DEF h
  <2> QED BY <1>c, <2>1, <2>2, <2>3, SendingSound
<1>4. CASE kind = "fanOut"
  <2>1. (m.n % Fan) + 1 \in Outputs
    BY <1>0, <1>4, StageAssumption DEF Outputs
  <2>2. OnItem(m, v) = Sending(m, (m.n % Fan) + 1, v)
    BY <1>4, OnItemIs
  <2> QED BY <1>0, <2>1, <2>2, SendingSound
<1>5. CASE kind \in {"tee", "broadcast"}
  <2> DEFINE l == [o \in 1 .. Fan |-> [out |-> o, val |-> v]]
  <2>1. \A o \in 1 .. Fan : l[o] \in Sends
    BY <1>0, <1>5 DEF Sends, Outputs
  <2>2. l \in [1 .. Fan -> Sends] /\ Fan \in Nat
    BY <2>1, StageAssumption
  <2>3. l \in Seq(Sends)
    BY <2>2
  <2>4. OnItem(m, v) = [m EXCEPT !.todo = l]
    BY <1>5, OnItemIs DEF ToEach
  <2> HIDE DEF l
  <2>5. [m EXCEPT !.todo = l] \in Memory
    BY <1>0, <2>3 DEF Memory
  <2>6. \A o \in 1 .. Fan : l[o].out = o
    BY DEF l
  <2>7. Distinct(l)
    BY <2>2, <2>6 DEF Distinct
  <2>8. [m EXCEPT !.todo = l].todo = l /\ [m EXCEPT !.todo = l].pc = m.pc
        /\ [m EXCEPT !.todo = l].clock = m.clock
    BY <1>0 DEF Memory
  <2> QED BY <1>0, <1>5, <2>4, <2>5, <2>7, <2>8 DEF Sound
<1>6. CASE kind = "partition"
  <2>1. 2 \in Outputs
    BY <1>6 DEF Outputs
  <2>2. OnItem(m, v) \in {Sending(m, 1, v), Sending(m, 2, v)}
    BY <1>6, OnItemIs
  <2> QED BY <1>0, <1>c, <2>1, <2>2, SendingSound
<1>7. CASE kind = "first"
  <2> DEFINE f == Sending(m, 1, v)
  <2>1. Sound(f)
    BY <1>0, <1>c, SendingSound
  <2>2. OnItem(m, v) = [f EXCEPT !.pc = "return"]
    BY <1>7, OnItemIs DEF First
  <2> HIDE DEF f
  <2> QED BY <1>7, <2>1, <2>2 DEF Sound, Memory
<1>8. CASE kind = "zip"
  <2>1. CASE m.held = <<>>
    <3> DEFINE h == [m EXCEPT !.held = <<v>>]
    <3>1. OnItem(m, v) = h
      BY <1>8, <2>1, OnItemIs DEF ZipPair
    <3>2. <<v>> \in Seq(Item)
      OBVIOUS
    <3>3. Sound(h) /\ h.pc = m.pc
      BY <1>0, <1>8, <3>2 DEF Sound, Memory
    <3> HIDE DEF h
    <3> QED BY <1>0, <3>1, <3>3
  <2>2. CASE m.held # <<>>
    <3> DEFINE h == [m EXCEPT !.held = <<>>]
    <3>1. Sound(h) /\ h.pc = "loop"
      BY <1>0, <1>8 DEF Sound, Memory
    <3>2. m.held[1] \in Item
      BY <1>0, <2>2
    <3>3. <<m.held[1], v>> \in Values
      BY <3>2 DEF Values
    <3>4. OnItem(m, v) = Sending(h, 1, <<m.held[1], v>>)
      <4>1. OnItem(m, v) = ZipPair(m, v)
        BY <1>8, OnItemIs
      <4> QED BY <2>2, <4>1 DEF ZipPair
    <3> HIDE DEF h
    <3> QED BY <1>c, <3>1, <3>3, <3>4, SendingSound
  <2> QED BY <2>1, <2>2
<1>9. CASE kind \in Buffering
  <2>1. kind \in Windows /\ kind # "debounce"
    BY <1>9 DEF Buffering, Windows
  <2>2. Append(m.held, v) \in Seq(Item)
    BY <1>0
  <2>3. Sound(Collect(m, v)) /\ Collect(m, v).pc = "loop"
    <3>1. /\ Collect(m, v) \in Memory /\ Collect(m, v).pc = "loop"
          /\ Collect(m, v).todo = <<>>
      BY <1>0, <2>2 DEF Collect, Memory
    <3> QED BY <2>1, <3>1, DistinctNone DEF Sound
  <2>4. OnItem(m, v) \in {Collect(m, v), Flush(Collect(m, v), "size")}
    BY <1>9, OnItemIs DEF Buffer
  <2> QED BY <2>1, <2>3, <2>4, FlushSound
<1>10. CASE kind \in {"tumbling", "sliding"}
  <2>1. OnItem(m, v) = [m EXCEPT !.held = Append(@, v)]
    BY <1>10, OnItemIs
  <2>2. Append(m.held, v) \in Seq(Item)
    BY <1>0
  <2> QED BY <1>0, <1>10, <2>1, <2>2 DEF Sound, Memory, Windows
<1>11. CASE kind = "debounce"
  <2>1. OnItem(m, v) = [m EXCEPT !.held = <<v>>, !.clock = "armed"]
    BY <1>11, OnItemIs DEF Debounce
  <2>2. <<v>> \in Seq(Item) /\ <<v>> # <<>>
    OBVIOUS
  <2> QED BY <1>0, <1>11, <2>1, <2>2 DEF Sound, Memory, Windows
<1>12. CASE kind = "throttle"
  <2> DEFINE h == [m EXCEPT !.n = @ - 1]
  <2>1. Sound(h) /\ h.pc = "loop"
    BY <1>0, <1>12 DEF Sound, Memory
  <2>2. OnItem(m, v) = Sending(h, 1, v)
    BY <1>12, OnItemIs DEF Throttle
  <2> HIDE DEF h
  <2> QED BY <1>0, <1>c, <2>1, <2>2, SendingSound
<1> QED
  BY <1>1, <1>2, <1>3, <1>4, <1>5, <1>6, <1>7, <1>8, <1>9, <1>10, <1>11, <1>12, StageAssumption
  DEF Stages, Buffering

\* The end of the input.
LEMMA EndSound ==
    ASSUME kind \in Kinds, NEW m, Sound(m), m.pc = "loop", m.todo = <<>>,
           NEW k, kind = "sliding" => k \in 0 .. Len(m.held)
    PROVE  Sound(OnEnd(m, k)) /\ OnEnd(m, k).pc = "return"
<1> DEFINE r == [m EXCEPT !.pc = "return"]
<1>0. m \in Memory
  BY DEF Sound
<1>1. /\ Sound(r) /\ r \in Memory /\ r.pc = "return" /\ r.held = m.held /\ r.todo = <<>>
      /\ r.held \in Seq(Item)
  BY <1>0 DEF Sound, Memory
<1>2. CASE kind \in Buffering
  <2>1. OnEnd(m, k) = Flush(r, "close") /\ kind \in Windows
    BY <1>2, OnEndIs DEF Buffering, Windows
  <2> HIDE DEF r
  <2>2. Sound(Flush(r, "close"))
    BY <1>1, <2>1, FlushSound
  <2>3. Flush(r, "close").pc = "return"
    BY <1>1, FlushIs
  <2> QED BY <2>1, <2>2, <2>3
<1>3. CASE kind = "tumbling"
  <2>1. OnEnd(m, k) = Window(r) /\ kind \in Windows
    BY <1>3, OnEndIs DEF Windows
  <2> HIDE DEF r
  <2> QED BY <1>1, <2>1, WindowSound
<1>4. CASE kind = "sliding"
  <2>1. OnEnd(m, k) = Window(Unexpired(r, k)) /\ kind \in Windows
    BY <1>4, OnEndIs DEF Windows
  <2> HIDE DEF r
  <2>2. /\ Unexpired(r, k) \in Memory /\ Unexpired(r, k).pc = "return"
        /\ Unexpired(r, k).todo = <<>> /\ Unexpired(r, k).clock = r.clock
    BY <1>1, <1>4, UnexpiredIs
  <2>3. Sound(Unexpired(r, k))
    BY <1>1, <1>4, <2>2 DEF Sound
  <2> QED BY <2>1, <2>2, <2>3, WindowSound
<1>5. CASE kind = "debounce"
  <2>1. OnEnd(m, k) = IF r.held = <<>> THEN r ELSE Sending(r, 1, r.held[1])
    BY <1>5, OnEndIs
  <2> HIDE DEF r
  <2>2. CASE r.held # <<>>
    <3>1. r.held[1] \in Values
      BY <1>1, <2>2 DEF Values
    <3>2. /\ Sending(r, 1, r.held[1]) \in Memory /\ Sending(r, 1, r.held[1]).pc = "return"
          /\ Sending(r, 1, r.held[1]).held = r.held
          /\ Sending(r, 1, r.held[1]).todo = <<[out |-> 1, val |-> r.held[1]]>>
      BY <1>1, <3>1, Channels, SendingIs
    <3>3. Sending(r, 1, r.held[1]).clock = r.clock
      BY <1>1, <3>1, Channels, SendingIs
    <3>4. Sound(Sending(r, 1, r.held[1]))
      BY <1>1, <1>5, <3>2, <3>3, SoundLike DEF Windows
    <3> QED BY <2>1, <2>2, <3>2, <3>4
  <2> QED BY <1>1, <2>1, <2>2
<1>6. CASE kind \notin Windows
  BY <1>1, <1>6, OnEndIs
<1> QED BY <1>2, <1>3, <1>4, <1>5, <1>6 DEF Windows, Buffering

\* The clock.
LEMMA TickSound ==
    ASSUME kind \in Kinds, NEW m, Sound(m), m.pc = "loop", m.todo = <<>>, m.clock = "due",
           NEW k, kind = "sliding" => k \in 0 .. Len(m.held)
    PROVE  Sound(OnTick(m, k)) /\ OnTick(m, k).pc = "loop"
<1> DEFINE a == [m EXCEPT !.clock = "armed"]
           f == [m EXCEPT !.clock = "off"]
<1>0. m \in Memory /\ m.held \in Seq(Item)
  BY DEF Sound, Memory
<1>1. kind \in Windows \cup {"throttle"}
  BY DEF Sound
<1>2. /\ Sound(a) /\ a \in Memory /\ a.pc = "loop" /\ a.held = m.held /\ a.todo = <<>>
      /\ a.clock = "armed"
  BY <1>0, <1>1 DEF Sound, Memory
<1>3. Sound(f) /\ f \in Memory /\ f.pc = "loop" /\ f.held = m.held /\ f.todo = <<>>
  BY <1>0 DEF Sound, Memory
<1>4. CASE kind \in Buffering
  <2>1. OnTick(m, k) = Flush(f, "timeout") /\ kind \in Windows
    BY <1>4, OnTickIs DEF Buffering, Windows
  <2> HIDE DEF f
  <2>2. Sound(Flush(f, "timeout"))
    BY <1>3, <2>1, FlushSound
  <2>3. Flush(f, "timeout").pc = "loop"
    BY <1>3, FlushIs
  <2> QED BY <2>1, <2>2, <2>3
<1>5. CASE kind = "tumbling"
  <2>1. OnTick(m, k) = Window(a) /\ kind \in Windows
    BY <1>5, OnTickIs DEF Windows
  <2> HIDE DEF a
  <2> QED BY <1>2, <2>1, WindowSound
<1>6. CASE kind = "sliding"
  <2>1. OnTick(m, k) = Window(Unexpired(a, k)) /\ kind \in Windows
    BY <1>6, OnTickIs DEF Windows
  <2> HIDE DEF a
  <2>2. /\ Unexpired(a, k) \in Memory /\ Unexpired(a, k).pc = "loop"
        /\ Unexpired(a, k).todo = <<>> /\ Unexpired(a, k).clock = "armed"
    BY <1>0, <1>2, <1>6, UnexpiredIs
  <2>3. Sound(Unexpired(a, k))
    BY <1>1, <1>6, <2>2 DEF Sound
  <2> QED BY <2>1, <2>2, <2>3, WindowSound
<1>7. CASE kind = "debounce"
  <2>1. OnTick(m, k) = Sending(f, 1, f.held[1])
    BY <1>7, OnTickIs
  <2>2. f.held # <<>>
    BY <1>3, <1>7 DEF Sound
  <2>3. f.held[1] \in Values
    BY <1>0, <1>3, <2>2 DEF Values
  <2> HIDE DEF f
  <2>4. Sending(f, 1, f.held[1]).pc = "loop"
    BY <1>3, <2>3, Channels, SendingIs
  <2> QED BY <1>3, <2>1, <2>3, <2>4, Channels, SendingSound
<1>8. CASE kind = "throttle"
  <2>1. OnTick(m, k) = Refill(a)
    BY <1>8, OnTickIs
  <2> HIDE DEF a
  <2> QED BY <1>2, <1>8, <2>1 DEF Refill, Sound, Memory
<1> QED BY <1>1, <1>4, <1>5, <1>6, <1>7, <1>8 DEF Windows, Buffering

\* The context.
LEMMA CancelSound ==
    ASSUME NEW m, Sound(m), m.pc = "loop"
    PROVE  Sound(OnCancel(m)) /\ OnCancel(m).pc = "return"
<1> DEFINE r == [m EXCEPT !.pc = "return", !.todo = <<>>]
<1>0. m \in Memory /\ <<>> \in Seq(Sends)
  BY DEF Sound
<1>1. Sound(r) /\ r \in Memory /\ r.pc = "return"
  <2>1. /\ r \in Memory /\ r.pc = "return" /\ r.todo = <<>> /\ r.held = m.held
        /\ r.clock = m.clock
    BY <1>0 DEF Memory
  <2> HIDE DEF r
  <2> QED BY <2>1, SoundLike
<1>2. OnCancel(m) = IF kind \in Buffering THEN Flush(r, "close") ELSE r
  BY DEF OnCancel
<1> HIDE DEF r
<1>3. CASE kind \in Buffering
  <2>1. kind \in Windows
    BY <1>3 DEF Buffering, Windows
  <2>2. Sound(Flush(r, "close"))
    BY <1>1, <2>1, FlushSound
  <2>3. Flush(r, "close").pc = "return"
    BY <1>1, FlushIs
  <2> QED BY <1>2, <1>3, <2>2, <2>3
<1> QED BY <1>1, <1>2, <1>3

\* Take and FanOut count what they have sent.
LEMMA CountsSent ==
    ASSUME NEW m \in Memory, kind \in {"take", "fanOut"}
    PROVE  /\ OnSent(m) \in Memory /\ OnSent(m).n = m.n + 1 /\ OnSent(m).todo = m.todo
           /\ OnSent(m).held = m.held /\ OnSent(m).clock = m.clock
           /\ OnSent(m).pc \in {m.pc, "return"}
<1> DEFINE p == IF m.n + 1 < N THEN m.pc ELSE "return"
<1>1. p \in {m.pc, "return"} /\ p \in {"loop", "return", "gone"} /\ m.n + 1 \in Nat
  BY DEF Memory
<1> HIDE DEF p
<1>2. CASE kind = "take"
  <2>1. OnSent(m) = [m EXCEPT !.n = @ + 1, !.pc = p]
    BY <1>2, OnSentIs DEF p
  <2> QED BY <1>1, <2>1 DEF Memory
<1>3. CASE kind = "fanOut"
  <2>1. OnSent(m) = [m EXCEPT !.n = @ + 1]
    BY <1>3, OnSentIs
  <2> QED BY <1>1, <2>1 DEF Memory
<1> QED BY <1>2, <1>3

\* Only Take may leave its loop for having sent.
LEMMA OthersStay == ASSUME NEW m \in Memory, kind # "take" PROVE OnSent(m).pc = m.pc
<1>1. CASE kind = "fanOut"
  <2>1. OnSent(m) = [m EXCEPT !.n = @ + 1]
    BY <1>1, OnSentIs
  <2> QED BY <2>1 DEF Memory
<1>2. CASE kind \in Buffering \cup {"debounce"}
  <2>1. OnSent(m) = [m EXCEPT !.held = <<>>, !.clock = "off"]
    BY <1>2, OnSentIs
  <2> QED BY <2>1 DEF Memory
<1>3. CASE kind = "tumbling"
  <2>1. OnSent(m) = [m EXCEPT !.held = <<>>]
    BY <1>3, OnSentIs
  <2> QED BY <2>1 DEF Memory
<1>4. CASE kind \notin Buffering \cup {"take", "fanOut", "debounce", "tumbling"}
  BY <1>4, OnSentIs
<1> QED BY <1>1, <1>2, <1>3, <1>4

\* What is left to do after a send, and the end of the last one.
LEMMA SentSound ==
    ASSUME NEW m, Sound(m), m.todo # <<>>
    PROVE  LET rest == [m EXCEPT !.todo = Tail(@)]
           IN Sound(rest) /\ (rest.todo = <<>> => Sound(OnSent(rest)))
<1> DEFINE rest == [m EXCEPT !.todo = Tail(@)]
<1>0. m \in Memory /\ Tail(m.todo) \in Seq(Sends)
  BY DEF Sound, Memory
<1>1. /\ Sound(rest) /\ rest \in Memory /\ rest.n \in Nat /\ rest.pc # "gone"
      /\ kind \notin Windows \cup {"first"} => rest.pc = "loop"
  <2>1. /\ rest \in Memory /\ rest.n \in Nat /\ rest.todo = Tail(m.todo) /\ rest.pc = m.pc
        /\ rest.clock = m.clock /\ rest.held = m.held
    BY <1>0 DEF Memory
  <2>2. Distinct(Tail(m.todo)) /\ Len(Tail(m.todo)) = Len(m.todo) - 1 /\ Len(m.todo) \in Nat
    BY <1>0, DistinctTail DEF Sound, Memory
  <2> QED BY <2>1, <2>2 DEF Sound
<1> HIDE DEF rest
<1>2. ASSUME rest.todo = <<>> PROVE Sound(OnSent(rest))
  <2>1. CASE kind \in {"take", "fanOut"}
    <3>2. /\ OnSent(rest) \in Memory /\ OnSent(rest).todo = <<>>
          /\ OnSent(rest).clock = rest.clock /\ OnSent(rest).held = rest.held
          /\ OnSent(rest).pc \in {rest.pc, "return"}
      BY <1>1, <1>2, <2>1, CountsSent
    <3>3. kind \notin Windows \cup {"first"}
      BY <2>1 DEF Windows
    <3> QED BY <1>1, <3>2, <3>3, SoundLike
  <2>2. CASE kind \in Buffering \cup {"debounce", "tumbling"}
    <3>1. OnSent(rest) \in {[rest EXCEPT !.held = <<>>],
                            [rest EXCEPT !.held = <<>>, !.clock = "off"]}
      BY <2>2, OnSentIs
    <3>2. ASSUME kind = "debounce" PROVE OnSent(rest).clock = "off"
      <4>1. OnSent(rest) = [rest EXCEPT !.held = <<>>, !.clock = "off"]
        BY <3>2, OnSentIs
      <4> QED BY <1>1, <4>1 DEF Memory
    <3>3. <<>> \in Seq(Item)
      OBVIOUS
    <3>4. OnSent(rest) \in Memory /\ OnSent(rest).todo = rest.todo /\ OnSent(rest).pc = rest.pc
          /\ OnSent(rest).clock \in {"off", rest.clock}
      BY <1>1, <3>1, <3>3 DEF Memory
    <3> QED BY <1>1, <1>2, <3>2, <3>4 DEF Sound
  <2>3. CASE kind \notin Buffering \cup {"take", "fanOut", "debounce", "tumbling"}
    BY <1>1, <2>3, OnSentIs
  <2> QED BY <2>1, <2>2, <2>3
<1> QED BY <1>1, <1>2 DEF rest

-----------------------------------------------------------------------------
(* Type correctness, the numbers of the items, and the memory *)

\* The steps of the program around a stage, and the closer of Merge.
Around ==
    \/ Closer \/ Cancel \/ StopReading
    \/ \E i \in Inputs : CloseInput(i)
    \/ \E o \in Outputs : Read(o)

LEMMA AroundKeeps ==
    ASSUME Around \/ UNCHANGED vars
    PROVE  /\ UNCHANGED <<kind, nilIn, consumed, gor, sent, debt>>
           /\ cancelled => cancelled'
           /\ closedIn \subseteq closedIn'
           /\ closedOut # closedOut' => Closer
  BY DEF Around, Closer, Cancel, StopReading, CloseInput, Read, vars

\* The steps of goroutine g.
Step(g) ==
    \/ \E i \in Inputs : Receive(g, i) \/ InputEnds(g, i)
    \/ Tick(g) \/ OnCancelled(g) \/ Send(g) \/ GiveUp(g) \/ Return(g) \/ Fire(g)

LEMMA NextIs == Next <=> (\E g \in Workers : Step(g)) \/ Around
  BY DEF Next, Step, Around

LEMMA Keeps ==
    ASSUME kind' = kind, NEW g, Sound(gor'[g]) PROVE Sound(gor[g])'
  BY Settled DEF Sound

LEMMA InitBasic == Init => Basic
<1> SUFFICES ASSUME Init PROVE Basic
  OBVIOUS
<1>0. kind \in Kinds /\ kind \in Stages /\ N \in Nat
  BY StageAssumption DEF Init
<1>1. \A g \in Workers : Sound(gor[g])
  <2> SUFFICES ASSUME NEW g \in Workers PROVE Sound(gor[g])
    OBVIOUS
  <2>1. /\ gor[g].pc \in {"gone", "return", "loop"} /\ gor[g].todo = <<>> /\ gor[g].held = <<>>
        /\ gor[g].n \in Nat /\ gor[g].clock \in {"armed", "off"}
        /\ gor[g].clock = "armed" => kind \in Ticking
    BY <1>0 DEF Init
  <2>2. gor[g] \in Memory
    BY <1>0, <2>1 DEF Init, Memory
  <2> QED BY <2>1, <2>2, DistinctNone DEF Sound, Ticking, Windows
<1>2. gor \in [Workers -> Memory]
  <2>1. \A g \in Workers : gor[g] \in Memory
    BY <1>1 DEF Sound
  <2> QED BY <2>1 DEF Init
<1>3. NothingToDo \in BOOLEAN
  BY DEF NothingToDo
<1>4. TypeOK
  <2>1. consumed \in [Inputs -> Seq(Item)] /\ sent \in [Outputs -> Seq(Values)]
        /\ read \in [Outputs -> Nat]
    BY DEF Init
  <2> QED BY <1>0, <1>2, <1>3, <2>1 DEF Init, TypeOK
<1>5. Numbered
  BY DEF Init, Numbered
<1> QED BY <1>1, <1>4, <1>5 DEF Basic

\* Receiving an item appends its number to what was received.
LEMMA ReceiveIs ==
    ASSUME Basic, NEW g \in Workers, NEW i \in Inputs, Receive(g, i)
    PROVE  LET v == <<i, Len(consumed[i]) + 1>>
           IN /\ v \in Item
              /\ consumed' = [consumed EXCEPT ![i] = Append(@, v)]
              /\ consumed' \in [Inputs -> Seq(Item)]
              /\ Numbered'
              /\ gor' = [gor EXCEPT ![g] = OnItem(@, v)]
              /\ Sound(OnItem(gor[g], v))
<1> DEFINE v == <<i, Len(consumed[i]) + 1>>
<1>1. /\ consumed \in [Inputs -> Seq(Item)] /\ Inputs \subseteq {1, 2}
      /\ kind \in Kinds /\ Sound(gor[g])
  BY Channels DEF Basic, TypeOK
<1>2. v \in Item
  BY <1>1 DEF Item
<1>3. /\ consumed' = [consumed EXCEPT ![i] = Append(@, v)]
      /\ gor' = [gor EXCEPT ![g] = OnItem(@, v)]
      /\ gor[g].pc = "loop" /\ gor[g].todo = <<>> /\ i \in Wanted(g) /\ kind' = kind
  BY DEF Receive, Selecting
<1>4. kind = "throttle" => gor[g].n # 0
  BY <1>3 DEF Wanted
<1>5. Sound(OnItem(gor[g], v))
  BY <1>1, <1>2, <1>3, <1>4, ItemSound
<1> HIDE DEF v
<1>6. \A j \in Inputs : consumed'[j] = IF j = i THEN Append(consumed[i], v) ELSE consumed[j]
  BY <1>1, <1>3
<1>7. consumed' \in [Inputs -> Seq(Item)]
  BY <1>1, <1>2, <1>3
<1>8. Numbered'
  <2> SUFFICES ASSUME NEW j \in Inputs, NEW k \in 1 .. Len(consumed'[j])
               PROVE  consumed'[j][k] = <<j, k>>
    BY <1>3, Settled DEF Numbered
  <2>1. CASE j # i
    BY <1>6, <2>1 DEF Basic, Numbered
  <2>2. CASE j = i
    <3> DEFINE s == consumed[i]
    <3>0. s \in Seq(Item) /\ Len(s) \in Nat
      BY <1>1
    <3>1. consumed'[j] = Append(s, v)
      BY <1>6, <2>2
    <3>2. \A l \in 1 .. Len(s) : s[l] = <<i, l>>
      BY DEF Basic, Numbered
    <3> HIDE DEF s
    <3>3. Len(Append(s, v)) = Len(s) + 1 /\ k \in 1 .. Len(Append(s, v))
      BY <1>2, <2>2, <3>0, <3>1
    <3>4. CASE k \in 1 .. Len(s)
      BY <1>2, <2>2, <3>0, <3>1, <3>2, <3>4
    <3>5. CASE k = Len(s) + 1
      BY <1>2, <2>2, <3>0, <3>1, <3>5 DEF v, s
    <3> QED BY <3>0, <3>3, <3>4, <3>5
  <2> QED BY <2>1, <2>2
<1> QED BY <1>2, <1>3, <1>5, <1>7, <1>8 DEF v

\* A send moves the first of the values to send to its output.
LEMMA SendIs ==
    ASSUME Basic, NEW g \in Workers, Send(g)
    PROVE  LET t == gor[g].todo[1]
               rest == [gor[g] EXCEPT !.todo = Tail(@)]
           IN /\ gor[g].todo \in Seq(Sends) /\ gor[g].todo # <<>> /\ t \in Sends
              /\ t.out \in Outputs /\ t.val \in Values
              /\ sent' = [sent EXCEPT ![t.out] = Append(@, t.val)]
              /\ sent' \in [Outputs -> Seq(Values)]
              /\ gor' = [gor EXCEPT ![g] = IF rest.todo = <<>> THEN OnSent(rest) ELSE rest]
              /\ rest.todo = Tail(gor[g].todo)
              /\ Sound(gor'[g])
<1> DEFINE t == gor[g].todo[1]
           rest == [gor[g] EXCEPT !.todo = Tail(@)]
           next == IF rest.todo = <<>> THEN OnSent(rest) ELSE rest
<1>1. Sound(gor[g]) /\ gor[g] \in Memory /\ gor \in [Workers -> Memory]
      /\ sent \in [Outputs -> Seq(Values)]
  BY DEF Basic, TypeOK
<1>2. gor[g].todo \in Seq(Sends) /\ gor[g].todo # <<>>
  BY <1>1 DEF Memory, Send
<1>3. t \in Sends
  BY <1>2
<1>4. t.out \in Outputs /\ t.val \in Values
  BY <1>3 DEF Sends
<1>5. sent' = [sent EXCEPT ![t.out] = Append(@, t.val)] /\ gor' = [gor EXCEPT ![g] = next]
  BY DEF Send
<1>6. Sound(next)
  BY <1>1, <1>2, SentSound
<1>7. rest.todo = Tail(gor[g].todo)
  BY <1>1 DEF Memory
<1> HIDE DEF t
<1>8. sent' \in [Outputs -> Seq(Values)]
  BY <1>1, <1>4, <1>5
<1> HIDE DEF next
<1>9. Sound(gor'[g])
  BY <1>1, <1>5, <1>6
<1> QED BY <1>2, <1>3, <1>4, <1>5, <1>7, <1>8, <1>9 DEF t, next

\* What a step of a goroutine leaves of it is sound.
LEMMA StepSound ==
    ASSUME Basic, NEW g \in Workers, Step(g)
    PROVE  /\ Sound(gor'[g]) /\ gor' \in [Workers -> Memory]
           /\ \A h \in Workers \ {g} : gor'[h] = gor[h]
<1>0. Sound(gor[g]) /\ gor[g] \in Memory /\ gor \in [Workers -> Memory] /\ kind \in Kinds
  BY DEF Basic, TypeOK
<1>1. \A m : gor' = [gor EXCEPT ![g] = m] /\ Sound(m)
          => Sound(gor'[g]) /\ gor' \in [Workers -> Memory]
             /\ \A h \in Workers \ {g} : gor'[h] = gor[h]
  BY <1>0 DEF Sound
<1>2. ASSUME NEW i \in Inputs, Receive(g, i) PROVE \E m : gor' = [gor EXCEPT ![g] = m] /\ Sound(m)
  BY <1>2, ReceiveIs
<1>k. \A k \in Expired(g) : kind = "sliding" => k \in 0 .. Len(gor[g].held)
  BY DEF Expired
<1>3. ASSUME NEW i \in Inputs, InputEnds(g, i)
      PROVE  \E m : gor' = [gor EXCEPT ![g] = m] /\ Sound(m)
  <2>1. PICK k \in Expired(g) : gor' = [gor EXCEPT ![g] = OnEnd(@, k)]
    BY <1>3 DEF InputEnds
  <2>2. Sound(OnEnd(gor[g], k))
    BY <1>0, <1>k, <1>3, EndSound DEF InputEnds, Selecting
  <2> QED BY <2>1, <2>2
<1>4. CASE Tick(g)
  <2>1. PICK k \in Expired(g) : gor' = [gor EXCEPT ![g] = OnTick(@, k)]
    BY <1>4 DEF Tick
  <2>2. Sound(OnTick(gor[g], k))
    BY <1>0, <1>k, <1>4, TickSound DEF Tick, Selecting
  <2> QED BY <1>1, <2>1, <2>2
<1>5. CASE OnCancelled(g)
  BY <1>0, <1>1, <1>5, CancelSound DEF OnCancelled
<1>6. CASE Send(g)
  <2>1. Sound(gor'[g]) /\ \E m : gor' = [gor EXCEPT ![g] = m]
    BY <1>6, SendIs
  <2>2. PICK m : gor' = [gor EXCEPT ![g] = m]
    BY <2>1
  <2>3. gor'[g] = m
    BY <1>0, <2>2
  <2> QED BY <1>1, <2>1, <2>2, <2>3
<1>7. CASE GiveUp(g)
  <2> DEFINE m == [gor[g] EXCEPT !.todo = <<>>]
  <2>1. gor' = [gor EXCEPT ![g] = m] /\ <<>> \in Seq(Sends)
    BY <1>0, <1>7 DEF GiveUp
  <2>2. /\ m \in Memory /\ m.pc = gor[g].pc /\ m.held = gor[g].held /\ m.todo = <<>>
        /\ m.clock = gor[g].clock
    BY <1>0, <2>1 DEF Memory
  <2> HIDE DEF m
  <2>3. Sound(m)
    BY <1>0, <2>2, SoundLike DEF Sound
  <2> QED BY <1>1, <2>1, <2>3
<1>8. CASE Return(g)
  <2>1. /\ Sound([gor[g] EXCEPT !.pc = "gone"])
        /\ gor' = [gor EXCEPT ![g] = [gor[g] EXCEPT !.pc = "gone"]]
    BY <1>0, <1>8 DEF Return, Sound, Memory
  <2> QED BY <1>1, <2>1
<1>9. CASE Fire(g)
  <2> DEFINE m == [gor[g] EXCEPT !.clock = "due"]
  <2>1. gor' = [gor EXCEPT ![g] = m] /\ gor[g].clock = "armed"
    BY <1>0, <1>9 DEF Fire, Memory
  <2>2. m \in Memory /\ m.pc = gor[g].pc /\ m.held = gor[g].held /\ m.todo = gor[g].todo
    BY <1>0 DEF Memory
  <2> HIDE DEF m
  <2>3. Sound(m)
    BY <1>0, <2>1, <2>2 DEF Sound
  <2> QED BY <1>1, <2>1, <2>3
<1> QED BY <1>1, <1>2, <1>3, <1>4, <1>5, <1>6, <1>7, <1>8, <1>9 DEF Step

LEMMA NextBasic == Basic /\ [Next]_vars => Basic'
<1> SUFFICES ASSUME Basic, [Next]_vars PROVE Basic'
  OBVIOUS
<1>0. kind' = kind /\ nilIn' = nilIn
  BY SettledNext
<1>1. CASE Around \/ UNCHANGED vars
  <2>1. UNCHANGED <<kind, nilIn, consumed, gor, sent, debt>>
    BY <1>1, AroundKeeps
  <2>2. /\ closedIn' \subseteq Inputs /\ cancelled' \in BOOLEAN /\ closedOut' \in BOOLEAN
        /\ reading' \in BOOLEAN /\ read' \in [Outputs -> Nat]
    <3>1. ASSUME NEW o \in Outputs, Read(o) PROVE <2>2
      BY <3>1 DEF Basic, TypeOK, Read
    <3>2. ASSUME NEW i \in Inputs, CloseInput(i) PROVE <2>2
      BY <3>2 DEF Basic, TypeOK, CloseInput
    <3>3. CASE Closer \/ Cancel \/ StopReading \/ UNCHANGED vars
      BY <3>3 DEF Basic, TypeOK, Closer, Cancel, StopReading, vars
    <3> QED BY <1>1, <3>1, <3>2, <3>3 DEF Around
  <2>5. TypeOK'
    BY <1>0, <2>1, <2>2, Settled DEF Basic, TypeOK
  <2>3. Numbered'
    BY <2>1, Settled DEF Basic, Numbered
  <2>4. ASSUME NEW g \in Workers PROVE Sound(gor[g])'
    BY <2>1, <2>4, Keeps DEF Basic
  <2> QED BY <2>1, <2>3, <2>4, <2>5, Settled DEF Basic
<1>2. ASSUME NEW g \in Workers, Step(g) PROVE Basic'
  <2>1. /\ Sound(gor'[g]) /\ gor' \in [Workers -> Memory]
        /\ \A h \in Workers \ {g} : gor'[h] = gor[h]
    BY <1>2, StepSound
  <2>2. ASSUME NEW h \in Workers PROVE Sound(gor[h])'
    <3>1. Sound(gor'[h])
      BY <2>1, <2>2 DEF Basic
    <3> QED BY <1>0, <3>1, Keeps
  <2>3. CASE UNCHANGED consumed
    <3>1. sent' \in [Outputs -> Seq(Values)]
      <4>1. CASE Send(g)
        BY <4>1, SendIs
      <4>2. CASE ~Send(g)
        <5>1. sent' = sent
          BY <1>2, <4>2 DEF Step, Receive, InputEnds, Tick, OnCancelled, GiveUp, Return, Fire
        <5> QED BY <5>1 DEF Basic, TypeOK
      <4> QED BY <4>1, <4>2
    <3>2. Numbered'
      BY <1>0, <2>3, Settled DEF Basic, Numbered
    <3>3. /\ closedIn' = closedIn /\ cancelled' = cancelled /\ reading' = reading
          /\ closedOut' \in BOOLEAN /\ debt' \in Nat /\ read' \in [Outputs -> Nat]
      <4>1. CASE Send(g)
        <5>1. gor[g].todo[1].out \in Outputs
          BY <1>2, <4>1, SendIs
        <5>2. read \in [Outputs -> Nat] /\ debt \in Nat /\ closedOut \in BOOLEAN
          BY DEF Basic, TypeOK
        <5>3. /\ UNCHANGED <<closedIn, cancelled, reading, closedOut>>
              /\ debt' = IF kind = "throttle" THEN debt + 1 ELSE 0
          BY <4>1, Zenon DEF Send
        <5>4. read' = IF Capacity = 0 THEN [read EXCEPT ![gor[g].todo[1].out] = @ + 1] ELSE read
          BY <4>1, Zenon DEF Send
        <5>5. read' \in [Outputs -> Nat]
          BY <5>1, <5>2, <5>4
        <5>6. debt' \in Nat
          BY <5>2, <5>3
        <5> QED BY <5>2, <5>3, <5>5, <5>6
      <4>2. CASE ~Send(g)
        <5>1. UNCHANGED <<closedIn, cancelled, reading, read>> /\ closedOut' \in BOOLEAN
          BY <1>2, <4>2 DEF Step, Receive, InputEnds, Tick, OnCancelled, GiveUp, Return, Fire,
             Basic, TypeOK
        <5>2. debt \in Nat
          BY DEF Basic, TypeOK
        <5>3. debt' = debt \/ debt' = 0 \/ (debt # 0 /\ debt' = debt - 1)
          BY <1>2, <4>2 DEF Step, Receive, InputEnds, Tick, OnCancelled, GiveUp, Return, Fire
        <5>4. debt' \in Nat
          BY <5>2, <5>3
        <5> QED BY <5>1, <5>4 DEF Basic, TypeOK
      <4> QED BY <4>1, <4>2
    <3>4. TypeOK'
      BY <1>0, <2>1, <2>3, <3>1, <3>3, Settled DEF Basic, TypeOK
    <3> QED BY <1>0, <2>2, <3>2, <3>4, Settled DEF Basic
  <2>4. ASSUME NEW i \in Inputs, Receive(g, i) PROVE Basic'
    <3>1. consumed' \in [Inputs -> Seq(Item)] /\ Numbered'
      BY <2>4, ReceiveIs
    <3>2. UNCHANGED <<nilIn, closedIn, cancelled, sent, read, closedOut, reading, debt>>
      BY <2>4 DEF Receive
    <3>3. TypeOK'
      BY <1>0, <2>1, <3>1, <3>2, Settled DEF Basic, TypeOK
    <3> QED BY <1>0, <2>2, <3>1, <3>3, Settled DEF Basic
  <2>5. UNCHANGED consumed \/ \E i \in Inputs : Receive(g, i)
    BY <1>2 DEF Step, InputEnds, Tick, OnCancelled, Send, GiveUp, Return, Fire
  <2> QED BY <2>3, <2>4, <2>5
<1> QED BY <1>1, <1>2, NextIs

-----------------------------------------------------------------------------
(* The rate of Throttle *)

\* What Throttle may still send at once: its tokens, the item in its hand, and the
\* tick that the ticker keeps for it.
Due(c) == IF c = "due" THEN 1 ELSE 0
RateInv ==
    /\ kind # "throttle" => debt = 0
    /\ kind = "throttle" =>
          LET m == gor[1]
          IN /\ Len(m.todo) <= 1
             /\ m.n + Len(m.todo) <= N
             /\ debt + m.n + Len(m.todo) + Due(m.clock) <= N + 1

LEMMA InitRate == Init => RateInv
<1> SUFFICES ASSUME Init PROVE RateInv
  OBVIOUS
<1>1. CASE kind = "throttle"
  <2>1. gor[1].n = N /\ gor[1].todo = <<>> /\ gor[1].clock = "armed" /\ debt = 0
    BY <1>1, Channels DEF Init, Ticking
  <2> QED BY <1>1, <2>1, StageAssumption DEF RateInv, Due
<1> QED BY <1>1 DEF Init, RateInv

LEMMA NextRate == Basic /\ RateInv /\ [Next]_vars => RateInv'
<1> SUFFICES ASSUME Basic, RateInv, [Next]_vars PROVE RateInv'
  OBVIOUS
<1>0. kind' = kind
  BY SettledNext
<1>1. CASE Around \/ UNCHANGED vars
  BY <1>1, AroundKeeps DEF RateInv
<1>2. ASSUME NEW g \in Workers, Step(g), kind # "throttle" PROVE RateInv'
  BY <1>0, <1>2 DEF RateInv, Step, Receive, InputEnds, Tick, OnCancelled, Send, GiveUp,
     Return, Fire
<1>3. ASSUME NEW g \in Workers, Step(g), kind = "throttle" PROVE RateInv'
  <2>m. PICK m, w : m = gor[1] /\ w = gor'[1]
    OBVIOUS
  <2>0. /\ g = 1 /\ gor \in [Workers -> Memory] /\ 1 \in Workers /\ Sound(m)
        /\ m \in Memory /\ w \in Memory /\ debt \in Nat /\ N \in Nat
    <3>1. g = 1 /\ gor \in [Workers -> Memory] /\ Sound(gor[1]) /\ debt \in Nat
      BY <1>3, OneWorker DEF Basic, TypeOK
    <3>2. gor' \in [Workers -> Memory]
      BY <1>3, StepSound
    <3> QED BY <1>3, <2>m, <3>1, <3>2, StageAssumption
  <2>n. m.todo \in Seq(Sends) /\ w.todo \in Seq(Sends) /\ m.n \in Nat /\ w.n \in Nat
    BY <2>0 DEF Memory
  <2>1. /\ Len(m.todo) <= 1 /\ m.n + Len(m.todo) <= N
        /\ debt + m.n + Len(m.todo) + Due(m.clock) <= N + 1
    BY <1>3, <2>m DEF RateInv
  <2>2. SUFFICES /\ Len(w.todo) <= 1 /\ w.n + Len(w.todo) <= N
                 /\ debt' + w.n + Len(w.todo) + Due(w.clock) <= N + 1
    BY <1>0, <1>3, <2>m DEF RateInv
  <2>3. ASSUME NEW i \in Inputs, Receive(1, i) PROVE <2>2!1
    <3>0. PICK v \in Item : gor' = [gor EXCEPT ![1] = OnItem(@, v)]
      BY <2>0, <2>3, ReceiveIs
    <3>1. w = OnItem(m, v)
      BY <2>0, <2>m, <3>0
    <3>2. m.n # 0 /\ m.todo = <<>> /\ debt' = debt
      BY <1>3, <2>3, <2>m DEF Receive, Selecting, Wanted
    <3>3. PICK h : h = [m EXCEPT !.n = @ - 1]
      OBVIOUS
    <3>4. w = Sending(h, 1, v) /\ v \in Values
      BY <1>3, <3>1, <3>3, OnItemIs DEF Throttle, Values
    <3>5. h \in Memory /\ h.n = m.n - 1 /\ h.clock = m.clock
      <4>1. m.n - 1 \in Nat
        BY <2>n, <3>2
      <4> QED BY <2>0, <3>3, <4>1 DEF Memory
    <3>6. w.n = m.n - 1 /\ w.clock = m.clock /\ w.todo = <<[out |-> 1, val |-> v]>>
      BY <3>4, <3>5, SendingIs, Channels
    <3> QED BY <2>0, <2>n, <2>1, <3>2, <3>6 DEF Due
  <2>4. ASSUME NEW i \in Inputs, InputEnds(1, i) PROVE <2>2!1
    <3>1. PICK k \in Expired(1) : w = OnEnd(m, k) /\ debt' = debt
      BY <2>0, <2>4, <2>m DEF InputEnds
    <3>2. w = [m EXCEPT !.pc = "return"]
      BY <1>3, <3>1, OnEndIs DEF Windows
    <3> QED BY <2>0, <2>1, <3>1, <3>2 DEF Memory
  <2>5. CASE Tick(1)
    <3>1. PICK k \in Expired(1) : w = OnTick(m, k) /\ debt' = debt
      BY <2>0, <2>5, <2>m DEF Tick
    <3>2. w = Refill([m EXCEPT !.clock = "armed"]) /\ m.clock = "due" /\ m.todo = <<>>
      BY <1>3, <2>5, <2>m, <3>1, OnTickIs DEF Tick, Selecting
    <3>3. w.n \in {m.n, m.n + 1} /\ (w.n = m.n + 1 => m.n < N) /\ w.todo = <<>> /\ w.clock = "armed"
      BY <2>0, <2>n, <3>2 DEF Refill, Memory
    <3>4. Len(m.todo) = 0 /\ Len(w.todo) = 0 /\ Due(m.clock) = 1 /\ Due(w.clock) = 0
      BY <3>2, <3>3 DEF Due
    <3>5. m.n <= N /\ debt + m.n + 1 <= N + 1
      BY <2>0, <2>n, <2>1, <3>4
    <3>6. w.n <= N /\ debt + w.n <= N + 1
      BY <2>0, <2>n, <3>3, <3>5
    <3> QED BY <2>0, <2>n, <3>1, <3>4, <3>6
  <2>6. CASE OnCancelled(1) \/ GiveUp(1)
    <3>1. w \in {[m EXCEPT !.pc = "return", !.todo = <<>>], [m EXCEPT !.todo = <<>>]}
          /\ debt' = debt
      BY <1>3, <2>0, <2>6, <2>m DEF OnCancelled, OnCancel, GiveUp, Buffering
    <3>2. w.n = m.n /\ w.todo = <<>> /\ w.clock = m.clock
      BY <2>0, <3>1 DEF Memory
    <3> QED BY <2>0, <2>n, <2>1, <3>1, <3>2 DEF Due
  <2>7. CASE Send(1)
    <3>1. PICK rest : rest = [m EXCEPT !.todo = Tail(@)]
      OBVIOUS
    <3>2. w = (IF rest.todo = <<>> THEN OnSent(rest) ELSE rest) /\ m.todo # <<>>
      BY <2>0, <2>7, <2>m, <3>1, SendIs
    <3>3. w = rest /\ debt' = debt + 1
      BY <1>3, <2>7, <3>2, OnSentIs DEF Send, Buffering
    <3>4. w.n = m.n /\ w.clock = m.clock /\ w.todo = Tail(m.todo)
      BY <2>0, <2>n, <3>1, <3>3 DEF Memory
    <3>5. Len(w.todo) = Len(m.todo) - 1
      BY <2>n, <3>2, <3>4, HeadTailProperties
    <3> QED BY <2>0, <2>n, <2>1, <3>3, <3>4, <3>5 DEF Due
  <2>8. CASE Return(1)
    BY <2>0, <2>m, <2>1, <2>8 DEF Return, Memory
  <2>9. CASE Fire(1)
    <3>1. w.n = m.n /\ w.todo = m.todo /\ w.clock = "due" /\ m.clock = "armed"
          /\ debt' = IF debt = 0 THEN 0 ELSE debt - 1
      BY <2>0, <2>m, <2>9 DEF Fire, Memory
    <3> QED BY <2>0, <2>n, <2>1, <3>1 DEF Due
  <2> QED BY <1>3, <2>0, <2>3, <2>4, <2>5, <2>6, <2>7, <2>8, <2>9 DEF Step
<1> QED BY <1>1, <1>2, <1>3, NextIs

\* Throttle keeps to its rate (throttle.go:41-71).
THEOREM Rate == Spec => []RateBounded
<1>1. Basic /\ RateInv => RateBounded
  <2> SUFFICES ASSUME Basic, RateInv PROVE RateBounded
    OBVIOUS
  <2>1. debt \in Nat /\ N \in Nat
    BY StageAssumption DEF Basic, TypeOK
  <2>2. CASE kind # "throttle"
    BY <2>1, <2>2 DEF RateInv, RateBounded
  <2>3. CASE kind = "throttle"
    <3>1. gor[1] \in Memory
      BY Channels DEF Basic, TypeOK
    <3>2. gor[1].n \in Nat /\ Len(gor[1].todo) \in Nat /\ Due(gor[1].clock) \in Nat
      BY <3>1 DEF Memory, Due
    <3>3. debt + gor[1].n + Len(gor[1].todo) + Due(gor[1].clock) <= N + 1
      BY <2>3 DEF RateInv
    <3> QED BY <2>1, <3>2, <3>3 DEF RateBounded
  <2> QED BY <2>2, <2>3
<1> QED BY <1>1, InitBasic, NextBasic, InitRate, NextRate, PTL DEF Spec

-----------------------------------------------------------------------------
(* The closing of the outputs *)

\* Why goroutine g has left its loop.
Ending(g) ==
    \/ cancelled \/ NothingToDo
    \/ kind = "merge" /\ g \in closedIn \cup nilIn
    \/ kind # "merge" /\ closedIn # {}
    \/ kind = "take" /\ Len(sent[1]) = N
    \/ kind = "first" /\ Len(sent[1]) + Len(gor[1].todo) = 1

\* Take counts what it has sent; First is in its loop until it has an item.
Counts ==
    /\ kind = "take" =>
          gor[1].n = Len(sent[1]) /\ (gor[1].pc = "loop" => gor[1].n < N)
    /\ kind = "first" /\ gor[1].pc = "loop" =>
          sent[1] = <<>> /\ gor[1].todo = <<>> /\ \A i \in Inputs : consumed[i] = <<>>

ClosedInv ==
    /\ closedOut => \A g \in Workers : gor[g].pc = "gone"
    /\ \A g \in Workers : gor[g].pc # "loop" => Ending(g)
    /\ Counts

LEMMA InitClosed == Init => ClosedInv
<1> SUFFICES ASSUME Init PROVE ClosedInv
  OBVIOUS
<1>1. closedOut => \A g \in Workers : gor[g].pc = "gone"
  BY DEF Init
<1>0. 1 \in Workers /\ 1 \in Outputs /\ Len(sent[1]) = 0 /\ N \in Nat
  BY Channels, StageAssumption DEF Init
<1>2. ASSUME NEW g \in Workers, gor[g].pc # "loop" PROVE Ending(g)
  <2>1. NothingToDo \/ (kind = "merge" /\ g \in nilIn) \/ (kind = "take" /\ N = 0)
    BY <1>2 DEF Init
  <2> QED BY <1>0, <2>1 DEF Ending
<1>3. Counts
  <2>1. CASE kind = "take"
    <3>1. gor[1].n = 0
      BY <1>0, <2>1 DEF Init
    <3>2. gor[1].pc = "loop" => N # 0
      BY <1>0, <2>1 DEF Init
    <3> QED BY <1>0, <2>1, <3>1, <3>2 DEF Counts
  <2>2. CASE kind = "first"
    BY <1>0, <2>2 DEF Counts, Init
  <2> QED BY <2>1, <2>2 DEF Counts
<1> QED BY <1>1, <1>2, <1>3 DEF ClosedInv

\* An item keeps the goroutine in its loop, except that of First.
LEMMA ItemStays ==
    ASSUME NEW m \in Memory, NEW v \in Item, kind \in Kinds
    PROVE  /\ kind # "first" => OnItem(m, v).pc = m.pc
           /\ kind = "take" => OnItem(m, v).n = m.n
           /\ kind = "first" => OnItem(m, v).pc = "return" /\ Len(OnItem(m, v).todo) = 1
<1>0. /\ v \in Values /\ Apply(v) \in Values /\ m.held \in Seq(Item) /\ 1 \in Outputs
      /\ kind \in Stages /\ m.n \in Nat
  BY Channels, StageAssumption DEF Memory, Values, Apply
<1>1. CASE kind \in {"map", "take", "orDone", "merge", "filter"}
  <2>1. OnItem(m, v) \in {m, Sending(m, 1, v), Sending(m, 1, Apply(v))}
    BY <1>1, OnItemIs
  <2>2. \A x \in Values : Sending(m, 1, x).pc = m.pc /\ Sending(m, 1, x).n = m.n
    BY <1>0, SendingIs
  <2> QED BY <1>0, <1>1, <2>1, <2>2
<1>2. CASE kind = "first"
  <2> DEFINE f == Sending(m, 1, v)
  <2>1. f \in Memory /\ f.todo = <<[out |-> 1, val |-> v]>>
    BY <1>0, SendingIs
  <2>2. OnItem(m, v) = [f EXCEPT !.pc = "return"]
    BY <1>2, OnItemIs DEF First
  <2> HIDE DEF f
  <2>3. OnItem(m, v).pc = "return" /\ OnItem(m, v).todo = f.todo
    BY <2>1, <2>2 DEF Memory
  <2> QED BY <1>2, <2>1, <2>3
<1>3. CASE kind \in {"skip", "fanOut", "tee", "broadcast", "partition", "tumbling", "sliding",
                     "debounce", "throttle", "scan", "zip"}
  <2>1. kind \in {"skip", "fanOut", "partition"} => OnItem(m, v).pc = m.pc
    BY OnItemIs DEF Memory, Skip, Sending
  <2>2. CASE kind \in {"tee", "broadcast"}
    <3>1. OnItem(m, v) = ToEach(m, v)
      BY <2>2, OnItemIs
    <3> QED BY <2>2, <3>1 DEF Memory, ToEach
  <2>3. CASE kind \in {"tumbling", "sliding"}
    <3>1. OnItem(m, v) = [m EXCEPT !.held = Append(@, v)]
      BY <2>3, OnItemIs
    <3> QED BY <2>3, <3>1 DEF Memory
  <2>4. CASE kind = "debounce"
    <3>1. OnItem(m, v) = Debounce(m, v)
      BY <2>4, OnItemIs
    <3> QED BY <2>4, <3>1 DEF Memory, Debounce
  <2>5. CASE kind = "throttle"
    <3>1. OnItem(m, v) = Throttle(m, v)
      BY <2>5, OnItemIs
    <3> QED BY <2>5, <3>1 DEF Memory, Throttle, Sending
  <2>6. CASE kind = "scan"
    <3>1. OnItem(m, v) = Scan(m, v)
      BY <2>6, OnItemIs
    <3> QED BY <2>6, <3>1 DEF Memory, Scan, Sending
  <2>7. CASE kind = "zip"
    <3>1. OnItem(m, v) = ZipPair(m, v)
      BY <2>7, OnItemIs
    <3> QED BY <2>7, <3>1 DEF Memory, ZipPair, Sending
  <2> QED BY <1>3, <2>1, <2>2, <2>3, <2>4, <2>5, <2>6, <2>7
<1>4. CASE kind \in Buffering
  <2>1. OnItem(m, v) \in {Collect(m, v), Flush(Collect(m, v), "size")}
    BY <1>4, OnItemIs DEF Buffer
  <2>2. Collect(m, v).pc = m.pc /\ Collect(m, v) \in Memory
    <3>1. Append(m.held, v) \in Seq(Item)
      BY <1>0
    <3> QED BY <3>1 DEF Collect, Memory
  <2>3. Flush(Collect(m, v), "size").pc = m.pc
    BY <2>2, FlushIs
  <2> QED BY <1>4, <2>1, <2>2, <2>3 DEF Buffering
<1> QED BY <1>0, <1>1, <1>2, <1>3, <1>4 DEF Stages, Buffering

\* What else the steps of a goroutine leave as it is.
LEMMA StepKeeps ==
    ASSUME Basic, NEW g \in Workers, Step(g)
    PROVE  /\ UNCHANGED <<kind, nilIn, closedIn, cancelled>>
           /\ ~(\E i \in Inputs : Receive(g, i)) => UNCHANGED consumed
           /\ ~Send(g) => UNCHANGED sent
           /\ gor[g].pc # "gone"
           /\ closedOut' = closedOut \/ Return(g)
<1>1. gor[g].pc # "gone"
  BY DEF Step, Receive, InputEnds, Tick, OnCancelled, Send, GiveUp, Return, Fire, Selecting,
     Basic, Sound
<1> QED
  BY <1>1 DEF Step, Receive, InputEnds, Tick, OnCancelled, Send, GiveUp, Return, Fire

LEMMA NextClosed == Basic /\ ClosedInv /\ [Next]_vars => ClosedInv'
<1> SUFFICES ASSUME Basic, ClosedInv, [Next]_vars PROVE ClosedInv'
  OBVIOUS
<1>0. kind' = kind /\ nilIn' = nilIn /\ Workers' = Workers /\ Inputs' = Inputs
      /\ NothingToDo' = NothingToDo
  <2>1. kind' = kind /\ nilIn' = nilIn
    BY SettledNext
  <2> QED BY <2>1, Settled DEF NothingToDo
<1>1. CASE Around \/ UNCHANGED vars
  <2>1. UNCHANGED <<kind, nilIn, consumed, gor, sent, debt>>
    BY <1>1, AroundKeeps
  <2>5. (cancelled => cancelled') /\ closedIn \subseteq closedIn'
    BY <1>1, AroundKeeps
  <2>6. closedOut # closedOut' => Closer
    BY <1>1, AroundKeeps
  <2>2. closedOut' => \A g \in Workers : gor[g].pc = "gone"
    BY <2>1, <2>6 DEF Closer, ClosedInv
  <2>3. \A g \in Workers : Ending(g) => Ending(g)'
    BY <1>0, <2>1, <2>5 DEF Ending
  <2>4. Counts'
    BY <1>0, <2>1 DEF ClosedInv, Counts
  <2> QED BY <1>0, <2>1, <2>2, <2>3, <2>4 DEF ClosedInv
<1>2. ASSUME NEW g \in Workers, Step(g) PROVE ClosedInv'
  <2>0. /\ UNCHANGED <<closedIn, cancelled>> /\ gor[g].pc # "gone" /\ ~closedOut
        /\ Sound(gor[g]) /\ gor[g] \in Memory /\ gor \in [Workers -> Memory]
        /\ kind \in Kinds /\ \A h \in Workers \ {g} : gor'[h] = gor[h]
    BY <1>2, StepKeeps, StepSound DEF ClosedInv, Basic, TypeOK
  <2>1. closedOut' => \A h \in Workers : gor'[h].pc = "gone"
    <3>1. SUFFICES ASSUME Return(g), kind # "merge" PROVE \A h \in Workers : gor'[h].pc = "gone"
      BY <1>2, <2>0, StepKeeps DEF Return
    <3>2. gor' = [gor EXCEPT ![g].pc = "gone"] /\ Workers = {g}
      BY <3>1, OneWorker DEF Return
    <3> QED BY <2>0, <3>2 DEF Memory
  <2>w. PICK m, w : m = gor[g] /\ w = gor'[g]
    OBVIOUS
  <2>t. /\ m \in Memory /\ w \in Memory /\ w = gor'[g]
        /\ m.todo \in Seq(Sends) /\ w.todo \in Seq(Sends) /\ m.n \in Nat /\ N \in Nat
    <3>1. w \in Memory
      BY <1>2, <2>w, StepSound DEF Sound
    <3> QED BY <2>0, <2>w, <3>1, StageAssumption DEF Memory
  \* The numbers of values sent and to send, before and after.
  <2>s. PICK a, b, c, d : /\ a = Len(sent[1]) /\ b = Len(sent'[1])
                          /\ c = Len(m.todo) /\ d = Len(w.todo)
    OBVIOUS
  <2>l. /\ a \in Nat /\ c \in Nat /\ d \in Nat
        /\ (sent' = sent => b = a) /\ (w.todo = m.todo => d = c) /\ (m.todo = <<>> => c = 0)
    <3>1. sent[1] \in Seq(Values)
      BY Channels DEF Basic, TypeOK
    <3> QED BY <2>s, <2>t, <3>1
  \* Here the actions differ: whether the goroutine stays in its loop, and if not, why.
  <2> DEFINE Why == \/ cancelled
                    \/ kind = "merge" /\ g \in closedIn
                    \/ kind # "merge" /\ closedIn # {}
                    \/ kind = "take" /\ b = N
                    \/ kind = "first" /\ b + d = 1
             Goes == m.pc # "loop" \/ w.pc = "loop" \/ Why
             Takes == kind = "take" => w.n = b /\ (w.pc = "loop" => w.n < N)
             Firsts == kind = "first" =>
                          /\ w.pc = "loop" => /\ UNCHANGED <<consumed, sent>>
                                              /\ w.todo = m.todo /\ m.pc = "loop"
                          /\ m.pc # "loop" => b + d = a + c \/ cancelled
             Does == Goes /\ Takes /\ Firsts
  <2> HIDE DEF Why, Goes, Takes, Firsts, Does
  <2>i. /\ kind = "take" => g = 1 /\ m.n = a /\ (m.pc = "loop" => m.n < N)
        /\ kind = "first" => g = 1 /\ (m.pc = "loop" => sent[1] = <<>> /\ m.todo = <<>>)
        /\ kind = "first" /\ m.pc = "loop" => a = 0 /\ c = 0
    <3>1. /\ kind = "take" => g = 1 /\ m.n = a /\ (m.pc = "loop" => m.n < N)
          /\ kind = "first" => g = 1 /\ (m.pc = "loop" => sent[1] = <<>> /\ m.todo = <<>>)
      BY <2>w, <2>s, OneWorker DEF ClosedInv, Counts
    <3> QED BY <2>s, <3>1
  <2>2. ASSUME NEW i \in Inputs, Receive(g, i) PROVE Does
    <3>1. PICK v \in Item : gor' = [gor EXCEPT ![g] = OnItem(@, v)]
      BY <2>2, ReceiveIs
    <3>2. w = OnItem(m, v) /\ sent' = sent /\ m.pc = "loop" /\ m.todo = <<>>
      BY <2>0, <2>2, <2>w, <3>1 DEF Receive, Selecting
    <3>3. /\ kind # "first" => w.pc = m.pc
          /\ kind = "take" => w.n = m.n
          /\ kind = "first" => w.pc = "return" /\ Len(w.todo) = 1
      BY <2>0, <2>t, <3>2, ItemStays
    <3>4. kind = "first" => b = 0 /\ d = 1
      BY <2>i, <2>l, <2>s, <3>2, <3>3
    <3>5. Goes
      BY <3>3, <3>4 DEF Goes, Why
    <3>6. Takes
      BY <2>i, <2>l, <3>2, <3>3 DEF Takes
    <3>7. Firsts
      BY <3>2, <3>3 DEF Firsts
    <3> QED BY <3>5, <3>6, <3>7 DEF Does
  <2>3. ASSUME NEW i \in Inputs, InputEnds(g, i) PROVE Does
    <3>1. PICK k \in Expired(g) : gor' = [gor EXCEPT ![g] = OnEnd(@, k)]
      BY <2>3 DEF InputEnds
    <3>2. w = OnEnd(m, k) /\ sent' = sent /\ m.pc = "loop" /\ m.todo = <<>>
          /\ i \in closedIn /\ i \in Wanted(g)
      BY <2>0, <2>3, <2>w, <3>1 DEF InputEnds, Selecting
    <3>3. w.pc = "return"
      <4>1. kind = "sliding" => k \in 0 .. Len(m.held)
        BY <2>w, <3>1 DEF Expired
      <4> QED BY <2>0, <2>w, <3>2, <4>1, EndSound
    <3>4. kind = "take" => w.n = m.n
      <4>1. kind = "take" => w = [m EXCEPT !.pc = "return"]
        BY <3>2, OnEndIs DEF Windows
      <4> QED BY <2>t, <4>1 DEF Memory
    <3>5. kind = "merge" => g \in closedIn
      BY <3>2 DEF Wanted
    <3>6. Goes
      BY <3>2, <3>5 DEF Goes, Why
    <3>7. Takes
      BY <2>i, <2>l, <3>2, <3>3, <3>4 DEF Takes
    <3>8. Firsts
      BY <3>2, <3>3 DEF Firsts
    <3> QED BY <3>6, <3>7, <3>8 DEF Does
  <2>4. ASSUME Tick(g) PROVE Does
    <3>1. PICK k \in Expired(g) : gor' = [gor EXCEPT ![g] = OnTick(@, k)]
      BY <2>4 DEF Tick
    <3>2. w = OnTick(m, k) /\ sent' = sent /\ m.pc = "loop" /\ m.todo = <<>> /\ m.clock = "due"
      BY <2>0, <2>4, <2>w, <3>1 DEF Tick, Selecting
    <3>3. w.pc = "loop"
      <4>1. kind = "sliding" => k \in 0 .. Len(m.held)
        BY <2>w, <3>1 DEF Expired
      <4> QED BY <2>0, <2>w, <3>2, <4>1, TickSound
    <3>4. kind \notin {"take", "first"}
      BY <2>0, <2>w, <3>2 DEF Sound, Windows
    <3>5. Takes
      BY <3>4 DEF Takes
    <3>6. Goes
      BY <3>2, <3>3 DEF Goes
    <3>7. Firsts
      BY <3>4 DEF Firsts
    <3> QED BY <3>5, <3>6, <3>7 DEF Does
  <2>5. ASSUME OnCancelled(g) PROVE Does
    <3>1. w = OnCancel(m) /\ cancelled /\ sent' = sent /\ m.pc = "loop"
      BY <2>0, <2>5, <2>w DEF OnCancelled
    <3>2. w.pc = "return" /\ (kind = "take" => w.n = m.n)
      <4>1. w.pc = "return"
        BY <2>0, <2>w, <3>1, CancelSound
      <4>2. ASSUME kind = "take" PROVE w.n = m.n
        <5>1. w = [m EXCEPT !.pc = "return", !.todo = <<>>]
          BY <3>1, <4>2 DEF OnCancel, Buffering
        <5> QED BY <2>t, <5>1 DEF Memory
      <4> QED BY <4>1, <4>2
    <3>3. Takes
      BY <2>i, <2>l, <3>1, <3>2 DEF Takes
    <3>4. Goes
      BY <3>1 DEF Goes, Why
    <3>5. Firsts
      BY <3>1, <3>2 DEF Firsts
    <3> QED BY <3>3, <3>4, <3>5 DEF Does
  <2>6. ASSUME Send(g) PROVE Does
    <3>1. PICK rest : rest = [m EXCEPT !.todo = Tail(@)]
      OBVIOUS
    <3>2. /\ w = (IF rest.todo = <<>> THEN OnSent(rest) ELSE rest) /\ m.todo # <<>>
          /\ rest.todo = Tail(m.todo) /\ UNCHANGED consumed
      BY <2>0, <2>6, <2>w, <3>1, SendIs DEF Send
    <3>3. rest.n = m.n /\ rest.pc = m.pc /\ Len(rest.todo) = Len(m.todo) - 1
      <4>1. Len(Tail(m.todo)) = Len(m.todo) - 1
        BY <2>t, <3>2, HeadTailProperties
      <4> QED BY <2>t, <3>1, <3>2, <4>1 DEF Memory
    <3>4. kind \in {"take", "first"} => b = a + 1
      <4>1. PICK t \in Sends : sent' = [sent EXCEPT ![t.out] = Append(@, t.val)]
                               /\ t.out \in Outputs
        BY <2>6, SendIs
      <4>2. kind \in {"take", "first"} => t.out = 1
        BY <4>1 DEF Outputs
      <4>3. 1 \in Outputs /\ sent \in [Outputs -> Seq(Values)]
        BY Channels DEF Basic, TypeOK
      <4>4. kind \in {"take", "first"} => sent'[1] = Append(sent[1], t.val)
        BY <4>1, <4>2, <4>3
      <4> QED BY <2>s, <4>3, <4>4
    <3>5. ASSUME kind = "take" PROVE Does
      <4>1. m.pc = "loop" /\ Len(m.todo) <= 1
        BY <2>0, <2>w, <3>2, <3>5 DEF Sound, Windows
      <4>2. rest.todo = <<>>
        BY <2>t, <3>2, <3>3, <4>1
      <4>3. w = [rest EXCEPT !.n = @ + 1, !.pc = IF rest.n + 1 < N THEN @ ELSE "return"]
        BY <3>2, <3>5, <4>2, OnSentIs
      <4>4. w.n = m.n + 1 /\ w.pc = IF m.n + 1 < N THEN m.pc ELSE "return"
        BY <2>t, <3>1, <3>3, <4>3 DEF Memory
      <4>5. w.n = b /\ (w.pc = "loop" => w.n < N) /\ (w.pc = m.pc \/ b = N)
        BY <2>i, <2>t, <2>l, <3>4, <3>5, <4>1, <4>4
      <4>6. Takes
        BY <4>5 DEF Takes
      <4>7. Goes
        BY <3>5, <4>5 DEF Goes, Why
      <4>8. Firsts
        BY <3>5 DEF Firsts
      <4> QED BY <4>6, <4>7, <4>8 DEF Does
    <3>d. Len(rest.todo) = c - 1 /\ c # 0
      BY <2>s, <2>t, <3>2, <3>3
    <3>6. ASSUME kind # "take" PROVE Does
      <4>1. w.pc = m.pc
        <5>1. rest.pc = m.pc
          BY <3>3
        <5>2. rest \in Memory
          <6>1. Tail(m.todo) \in Seq(Sends)
            BY <2>t, <3>2
          <6> QED BY <2>t, <3>1, <6>1 DEF Memory
        <5>3. OnSent(rest).pc = rest.pc
          BY <3>6, <5>2, OthersStay
        <5> QED BY <3>2, <5>1, <5>3
      <4>2. kind = "first" => w = rest
        BY <3>2, OnSentIs DEF Buffering
      <4>3. kind = "first" => m.pc # "loop"
        BY <2>i, <3>2
      <4>4. kind = "first" => d = c - 1
        BY <2>s, <3>d, <4>2
      <4>5. kind = "first" => b + d = a + c
        BY <2>l, <3>4, <4>4
      <4>6. Firsts
        BY <4>1, <4>3, <4>5 DEF Firsts
      <4> QED BY <3>6, <4>1, <4>6 DEF Does, Goes, Takes
    <3> QED BY <3>5, <3>6
  <2>7. ASSUME GiveUp(g) \/ Return(g) \/ Fire(g) PROVE Does
    <3>1. UNCHANGED <<sent, consumed>> /\ w.n = m.n /\ (w.pc = "loop" => m.pc = "loop")
          /\ (w.todo = m.todo \/ (cancelled /\ w.pc # "loop"))
          /\ (m.pc = "loop" => w.pc = "loop")
      BY <2>0, <2>7, <2>w DEF GiveUp, Return, Fire, Memory
    <3>3. cancelled \/ b + d = a + c
      BY <2>l, <3>1
    <3>4. Takes
      BY <2>i, <2>l, <3>1 DEF Takes
    <3>5. Goes
      BY <3>1 DEF Goes
    <3>6. Firsts
      BY <3>1, <3>3 DEF Firsts
    <3> QED BY <3>4, <3>5, <3>6 DEF Does
  <2>8. Does
    BY <1>2, <2>2, <2>3, <2>4, <2>5, <2>6, <2>7 DEF Step
  <2>9. Goes /\ Takes /\ Firsts
    BY <2>8 DEF Does
  <2>10. Ending(g)' \/ gor'[g].pc = "loop"
    <3>1. CASE Why
      BY <1>0, <2>0, <2>i, <2>s, <2>w, <3>1, OneWorker DEF Ending, Why
    <3>2. CASE m.pc # "loop"
      <4>1. Ending(g)
        BY <2>w, <3>2 DEF ClosedInv
      <4>2. kind = "take" /\ Len(sent[1]) = N => sent' = sent \/ cancelled
        <5>1. ASSUME kind = "take", Send(g) PROVE FALSE
          BY <2>0, <2>w, <3>2, <5>1, SendIs DEF Sound, Windows
        <5> QED BY <1>2, <5>1, StepKeeps
      <4>3. kind = "first" => b + d = a + c \/ cancelled
        BY <2>9, <3>2 DEF Firsts
      <4> QED BY <1>0, <2>0, <2>i, <2>s, <2>w, <4>1, <4>2, <4>3 DEF Ending
    <3> QED BY <2>9, <2>w, <3>1, <3>2 DEF Goes
  <2>11. Counts'
    BY <1>0, <2>9, <2>i, <2>s, <2>w DEF Counts, ClosedInv, Takes, Firsts
  <2>12. ASSUME NEW h \in Workers \ {g}, gor'[h].pc # "loop" PROVE Ending(h)'
    <3>1. kind = "merge" /\ Ending(h)
      BY <2>0, <2>12, OneWorker DEF ClosedInv
    <3> QED BY <1>0, <2>0, <3>1 DEF Ending
  <2> QED BY <1>0, <2>1, <2>10, <2>11, <2>12 DEF ClosedInv
<1> QED BY <1>1, <1>2, NextIs

\* The outputs are closed when nobody is left to send, and for a reason (chanx/*.go).
LEMMA ClosedInvLast == Basic /\ ClosedInv => ClosedLast
<1> SUFFICES ASSUME Basic, ClosedInv, closedOut PROVE ClosedLast
  BY DEF ClosedLast
<1>1. \A g \in Workers : gor[g].pc = "gone" /\ gor[g].todo = <<>> /\ Ending(g)
  BY DEF ClosedInv, Basic, Sound
<1>2. 1 \in Workers /\ Len(gor[1].todo) = 0 /\ Len(sent[1]) \in Nat
  BY <1>1, Channels DEF Basic, TypeOK
<1>3. CASE kind = "merge"
  BY <1>1, <1>3, Channels DEF Ending, ClosedLast, Workers
<1>4. CASE kind # "merge"
  BY <1>1, <1>2, <1>4 DEF Ending, ClosedLast
<1> QED BY <1>3, <1>4

-----------------------------------------------------------------------------
(* The steps that neither receive nor send, and the steps that send *)

LEMMA QuietIs ==
    ASSUME Basic, NEW g \in Workers, GiveUp(g) \/ Return(g) \/ Fire(g)
    PROVE  /\ UNCHANGED <<consumed, sent>>
           /\ gor'[g].held = gor[g].held /\ gor'[g].n = gor[g].n
           /\ (gor'[g].pc = "loop") <=> (gor[g].pc = "loop")
           /\ \/ gor'[g].todo = gor[g].todo
              \/ cancelled /\ gor[g].pc # "loop" /\ gor'[g].todo = <<>>
<1>0. gor \in [Workers -> Memory] /\ gor[g] \in Memory
  BY DEF Basic, TypeOK
<1>1. CASE GiveUp(g)
  <2>1. gor' = [gor EXCEPT ![g].todo = <<>>] /\ cancelled /\ gor[g].pc = "return"
    BY <1>1 DEF GiveUp
  <2>2. UNCHANGED <<consumed, sent>>
    BY <1>1 DEF GiveUp
  <2> QED BY <1>0, <2>1, <2>2 DEF Memory
<1>2. CASE Return(g)
  BY <1>0, <1>2 DEF Return, Memory
<1>3. CASE Fire(g)
  BY <1>0, <1>3 DEF Fire, Memory
<1> QED BY <1>1, <1>2, <1>3

\* The context, outside Buffer.
LEMMA CancelledIs ==
    ASSUME Basic, NEW g \in Workers, OnCancelled(g), kind \notin Buffering
    PROVE  /\ UNCHANGED <<consumed, sent>> /\ cancelled
           /\ gor'[g].held = gor[g].held /\ gor'[g].n = gor[g].n
           /\ gor'[g].pc = "return" /\ gor'[g].todo = <<>>
<1>0. gor \in [Workers -> Memory] /\ gor[g] \in Memory
  BY DEF Basic, TypeOK
<1>1. gor' = [gor EXCEPT ![g] = OnCancel(@)] /\ UNCHANGED <<consumed, sent>> /\ cancelled
  BY DEF OnCancelled
<1>2. gor'[g] = [gor[g] EXCEPT !.pc = "return", !.todo = <<>>]
  BY <1>0, <1>1 DEF OnCancel
<1> QED BY <1>0, <1>1, <1>2 DEF Memory

\* The end of the input and the clock, for the functions that gather nothing.
LEMMA EndsIs ==
    ASSUME Basic, NEW g \in Workers, kind \notin Windows,
           Tick(g) \/ \E i \in Inputs : InputEnds(g, i)
    PROVE  /\ UNCHANGED <<consumed, sent>>
           /\ gor'[g].held = gor[g].held /\ (kind # "throttle" => gor'[g].n = gor[g].n)
           /\ gor[g].pc = "loop" /\ gor[g].todo = <<>> /\ gor'[g].todo = <<>>
<1>0. gor \in [Workers -> Memory] /\ gor[g] \in Memory /\ Sound(gor[g])
  BY DEF Basic, TypeOK
<1>1. ASSUME NEW i \in Inputs, InputEnds(g, i) PROVE gor'[g] = [gor[g] EXCEPT !.pc = "return"]
  <2>1. PICK k : gor' = [gor EXCEPT ![g] = OnEnd(@, k)]
    BY <1>1 DEF InputEnds
  <2>2. gor'[g] = OnEnd(gor[g], k)
    BY <1>0, <2>1
  <2> QED BY <2>2, OnEndIs
<1>2. CASE Tick(g)
  <2>1. PICK k : gor' = [gor EXCEPT ![g] = OnTick(@, k)]
    BY <1>2 DEF Tick
  <2>2. gor'[g] = OnTick(gor[g], k) /\ gor[g].clock = "due"
    BY <1>0, <1>2, <2>1 DEF Tick
  <2>3. kind = "throttle"
    BY <1>0, <2>2 DEF Sound
  <2>4. gor'[g] = Refill([gor[g] EXCEPT !.clock = "armed"])
    BY <2>2, <2>3, OnTickIs
  <2>5. PICK h : h = [gor[g] EXCEPT !.clock = "armed"]
    OBVIOUS
  <2>6. h \in Memory /\ h.held = gor[g].held /\ h.todo = gor[g].todo
    BY <1>0, <2>5 DEF Memory
  <2>7. gor'[g].held = h.held /\ gor'[g].todo = h.todo
    BY <2>4, <2>5, <2>6 DEF Refill, Memory
  <2>8. UNCHANGED <<consumed, sent>> /\ gor[g].pc = "loop" /\ gor[g].todo = <<>>
    BY <1>2 DEF Tick, Selecting
  <2> QED BY <2>3, <2>6, <2>7, <2>8
<1>3. ASSUME NEW i \in Inputs, InputEnds(g, i)
      PROVE  UNCHANGED <<consumed, sent>> /\ gor[g].pc = "loop" /\ gor[g].todo = <<>>
  BY <1>3 DEF InputEnds, Selecting
<1> QED BY <1>0, <1>1, <1>2, <1>3 DEF Memory

\* A send: the first of the values to send, and what the memory becomes.
LEMMA SentIs ==
    ASSUME Basic, NEW g \in Workers, Send(g)
    PROVE  LET m == gor[g]
               w == gor'[g]
           IN /\ UNCHANGED consumed
              /\ w.todo = Tail(m.todo) /\ (w.pc = "loop" => m.pc = "loop")
              /\ kind \notin {"tee", "broadcast"} => Len(m.todo) = 1 /\ w.todo = <<>>
              /\ kind \notin Buffering \cup {"debounce", "tumbling"} => w.held = m.held
              /\ kind \in Buffering \cup {"debounce", "tumbling"} => w.held = <<>>
              /\ kind \in {"take", "fanOut"} => w.n = m.n + 1
              /\ kind \notin {"take", "fanOut"} => w.n = m.n
<1>m. PICK m, w, rest : m = gor[g] /\ w = gor'[g] /\ rest = [m EXCEPT !.todo = Tail(@)]
  OBVIOUS
<1>0. gor \in [Workers -> Memory] /\ m \in Memory /\ Sound(m) /\ m.todo \in Seq(Sends)
  BY <1>m DEF Basic, TypeOK, Memory
<1>1. /\ m.todo # <<>> /\ rest.todo = Tail(m.todo) /\ UNCHANGED consumed
      /\ w = IF rest.todo = <<>> THEN OnSent(rest) ELSE rest
  BY <1>m, <1>0, SendIs DEF Send
<1>2. Tail(m.todo) \in Seq(Sends) /\ Len(Tail(m.todo)) = Len(m.todo) - 1 /\ Len(m.todo) \in Nat
      /\ Len(m.todo) # 0
  BY <1>0, <1>1, HeadTailProperties
<1>3. /\ rest \in Memory /\ rest.pc = m.pc /\ rest.held = m.held /\ rest.n = m.n
  BY <1>0, <1>m, <1>2 DEF Memory
<1>4. kind \notin {"tee", "broadcast"} => Len(m.todo) = 1 /\ rest.todo = <<>>
  <2>1. kind \notin {"tee", "broadcast"} => Len(m.todo) <= 1
    BY <1>0 DEF Sound
  <2>2. Len(Tail(m.todo)) = 0 => Tail(m.todo) = <<>>
    BY <1>2, EmptySeq
  <2>3. kind \notin {"tee", "broadcast"} => Len(m.todo) = 1
    <3>1. PICK n \in Nat : n = Len(m.todo)
      BY <1>2
    <3>2. n # 0
      BY <1>2, <3>1
    <3>3. kind \notin {"tee", "broadcast"} => n <= 1
      BY <2>1, <3>1
    <3>4. n <= 1 => n = 1
      BY <3>2
    <3> QED BY <3>1, <3>3, <3>4
  <2>4. Len(m.todo) = 1 => Len(Tail(m.todo)) = 0
    BY <1>2
  <2> QED BY <1>1, <2>2, <2>3, <2>4
<1>5. CASE kind \in {"tee", "broadcast"}
  <2>1. /\ kind \notin Buffering \cup {"take", "fanOut", "debounce", "tumbling"}
        /\ kind \notin Buffering \cup {"debounce", "tumbling"} /\ kind \notin {"take", "fanOut"}
    BY <1>5 DEF Buffering
  <2>2. w = rest
    BY <1>1, <2>1, OnSentIs
  <2> QED BY <1>m, <1>1, <1>3, <1>5, <2>1, <2>2
<1>6. CASE kind \notin {"tee", "broadcast"}
  <2>1. w = OnSent(rest)
    BY <1>1, <1>4, <1>6
  <2>2. w.todo = rest.todo
    BY <1>3, <2>1 DEF OnSent, Memory
  <2>3. w.pc = "loop" => rest.pc = "loop"
    BY <1>3, <2>1 DEF OnSent, Memory
  <2>4. /\ kind \notin Buffering \cup {"debounce", "tumbling"} => w.held = rest.held
        /\ kind \in Buffering \cup {"debounce", "tumbling"} => w.held = <<>>
    <3>1. CASE kind \in Buffering \cup {"debounce"}
      <4>1. w = [rest EXCEPT !.held = <<>>, !.clock = "off"]
        BY <2>1, <3>1, OnSentIs
      <4> QED BY <1>3, <3>1, <4>1 DEF Memory
    <3>2. CASE kind = "tumbling"
      BY <1>3, <2>1, <3>2, OnSentIs DEF Memory, Buffering
    <3>3. CASE kind \in {"take", "fanOut"}
      BY <1>3, <2>1, <3>3, CountsSent DEF Buffering
    <3>4. CASE kind \notin Buffering \cup {"debounce", "tumbling", "take", "fanOut"}
      BY <2>1, <3>4, OnSentIs
    <3> QED BY <3>1, <3>2, <3>3, <3>4
  <2>5. /\ kind \in {"take", "fanOut"} => w.n = rest.n + 1
        /\ kind \notin {"take", "fanOut"} => w.n = rest.n
    <3>1. CASE kind \in Buffering \cup {"debounce"}
      BY <1>3, <2>1, <3>1, OnSentIs DEF Memory, Buffering
    <3>2. CASE kind = "tumbling"
      BY <1>3, <2>1, <3>2, OnSentIs DEF Memory, Buffering
    <3>3. CASE kind \in {"take", "fanOut"}
      BY <1>3, <2>1, <3>3, CountsSent DEF Buffering
    <3>4. CASE kind \notin Buffering \cup {"debounce", "tumbling", "take", "fanOut"}
      BY <2>1, <3>4, OnSentIs
    <3> QED BY <3>1, <3>2, <3>3, <3>4
  <2> QED BY <1>m, <1>1, <1>3, <1>4, <1>6, <2>2, <2>3, <2>4, <2>5
<1> QED BY <1>5, <1>6

-----------------------------------------------------------------------------
(* The functions that make values of their items, one after the other *)

Itemwise == Stages \ (Windows \cup {"merge"})

\* Output o has, in out, all it gets of what was made; a value waits for output o.
Complete(o, out) == Selects(out, Made, Chosen(o, Len(Made)))
Waits(o) == \E k \in 1 .. Len(gor[1].todo) : gor[1].todo[k].out = o

\* What the memory knows of the items.
Memorized ==
    LET m == gor[1]
        c == consumed[1]
    IN /\ kind = "skip" => m.n <= Len(c) /\ m.n <= N /\ (m.n < N => m.n = Len(c))
       /\ kind \in {"take", "fanOut"} /\ m.pc = "loop" => m.n + Len(m.todo) = Len(c)
       /\ kind = "scan" => m.held = c
       /\ kind = "zip" /\ m.pc = "loop" =>
             /\ Len(c) = Len(consumed[2]) + Len(m.held)
             /\ m.held # <<>> => m.held = <<c[Len(c)]>>

ItemsInv ==
    kind \in Itemwise =>
        /\ Memorized
        /\ \A o \in Outputs : \E n \in 0 .. Len(Made) : Selects(sent[o], Made, Chosen(o, n))
        /\ \A k \in 1 .. Len(gor[1].todo) :
              Complete(gor[1].todo[k].out, Append(sent[gor[1].todo[k].out], gor[1].todo[k].val))
        /\ gor[1].pc = "loop" \/ ~cancelled =>
              \A o \in Outputs : Waits(o) \/ Complete(o, sent[o])

\* One more value was made.
LEMMA Grows ==
    ASSUME NEW S, NEW out \in Seq(S), NEW made, NEW also, NEW n \in Nat,
           NEW chosen \in SUBSET (1 .. n),
           \A k \in 1 .. n : also[k] = made[k], also[n + 1] \in S, Selects(out, made, chosen)
    PROVE  /\ Selects(out, also, chosen)
           /\ Selects(Append(out, also[n + 1]), also, chosen \cup {n + 1})
<1>1. Selects(out, also, chosen)
  BY SelectsSame
<1> QED BY <1>1, SelectsMore

\* A step makes x, the value after the first n, and sends it where it belongs.
Makes(x, n) ==
    /\ x \in Values /\ n \in Nat /\ Len(Made) = n /\ Len(Made') = n + 1
    /\ Made'[n + 1] = x /\ \A k \in 1 .. n : Made'[k] = Made[k]
    /\ \A o \in Outputs : \A k \in 1 .. n : Gets(o, k)' <=> Gets(o, k)
    /\ \A o \in Outputs : Gets(o, n + 1)' <=> Waits(o)'
    /\ \A k \in 1 .. Len(gor'[1].todo) :
          gor'[1].todo[k].out \in Outputs /\ gor'[1].todo[k].val = x

LEMMA MakesKeeps ==
    ASSUME Basic, ItemsInv, kind \in Itemwise, NEW i \in Inputs, Receive(1, i), Memorized',
           NEW x, NEW n, Makes(x, n)
    PROVE  ItemsInv'
<1>0. /\ kind' = kind /\ sent' = sent /\ Outputs' = Outputs /\ n \in Nat /\ x \in Values
      /\ gor[1].pc = "loop" /\ gor[1].todo = <<>> /\ Len(Made) = n /\ Len(Made') = n + 1
  BY Settled DEF Receive, Selecting, Makes
<1>1. ASSUME NEW o \in Outputs
      PROVE  /\ Chosen(o, n) \subseteq 1 .. n /\ sent[o] \in Seq(Values)
             /\ Selects(sent[o], Made, Chosen(o, n))
             /\ Chosen(o, n)' = Chosen(o, n)
             /\ Gets(o, n + 1)' => Chosen(o, n + 1)' = Chosen(o, n) \cup {n + 1}
             /\ ~Gets(o, n + 1)' => Chosen(o, n + 1)' = Chosen(o, n)
  <2>1. ~Waits(o)
    BY <1>0 DEF Waits
  <2>2. Selects(sent[o], Made, Chosen(o, n))
    BY <1>0, <2>1 DEF ItemsInv, Complete
  <2>3. \A k \in 1 .. n : Gets(o, k)' <=> Gets(o, k)
    BY DEF Makes
  <2>4. Chosen(o, n)' = {k \in 1 .. n : Gets(o, k)'}
        /\ Chosen(o, n + 1)' = {k \in 1 .. n + 1 : Gets(o, k)'}
        /\ Chosen(o, n) = {k \in 1 .. n : Gets(o, k)}
    BY DEF Chosen
  <2>5. 1 .. n + 1 = (1 .. n) \cup {n + 1}
    BY <1>0
  <2> QED BY <2>2, <2>3, <2>4, <2>5 DEF Basic, TypeOK
<1>2. ASSUME NEW o \in Outputs
      PROVE  /\ Selects(sent[o], Made', Chosen(o, n)')
             /\ Gets(o, n + 1)' => Selects(Append(sent[o], x), Made', Chosen(o, n + 1)')
             /\ ~Gets(o, n + 1)' => Selects(sent[o], Made', Chosen(o, n + 1)')
  <2>1. Made'[n + 1] = x /\ \A k \in 1 .. n : Made'[k] = Made[k]
    BY DEF Makes
  <2>2. /\ Selects(sent[o], Made', Chosen(o, n))
        /\ Selects(Append(sent[o], x), Made', Chosen(o, n) \cup {n + 1})
    <3>1. PICK also, made, chosen : also = Made' /\ made = Made /\ chosen = Chosen(o, n)
      OBVIOUS
    <3>2. /\ Selects(sent[o], also, chosen)
          /\ Selects(Append(sent[o], also[n + 1]), also, chosen \cup {n + 1})
      BY <1>0, <1>1, <2>1, <3>1, Grows
    <3> QED BY <2>1, <3>1, <3>2
  <2> QED BY <1>1, <2>2
<1>3. \A o \in Outputs : \E k \in 0 .. Len(Made') : Selects(sent[o], Made', Chosen(o, k)')
  BY <1>0, <1>2
<1>4. ASSUME NEW k \in 1 .. Len(gor'[1].todo)
      PROVE  Complete(gor[1].todo[k].out, Append(sent[gor[1].todo[k].out], gor[1].todo[k].val))'
  <2>1. PICK o \in Outputs : o = gor'[1].todo[k].out /\ gor'[1].todo[k].val = x
    BY DEF Makes
  <2>2. Gets(o, n + 1)'
    BY <2>1 DEF Makes, Waits
  <2> QED BY <1>0, <1>2, <2>1, <2>2 DEF Complete
<1>5. ASSUME NEW o \in Outputs PROVE Waits(o)' \/ Complete(o, sent[o])'
  <2>1. CASE Gets(o, n + 1)'
    BY <2>1 DEF Makes
  <2>2. CASE ~Gets(o, n + 1)'
    BY <1>0, <1>2, <2>2 DEF Complete
  <2> QED BY <2>1, <2>2
<1> QED BY <1>0, <1>3, <1>4, <1>5 DEF ItemsInv

\* The quiet steps, the end of the input and the clock; and the context.
LEMMA MadeSame ==
    ASSUME UNCHANGED <<kind, consumed>>
    PROVE  /\ Made' = Made /\ Outputs' = Outputs
           /\ \A o, n : Chosen(o, n)' = Chosen(o, n)
           /\ \A o, out : Complete(o, out)' <=> Complete(o, out)
<1>1. Made' = Made
  BY DEF Made
<1>2. \A o, k : Gets(o, k)' <=> Gets(o, k)
  BY DEF Gets
<1>3. \A o, n : Chosen(o, n)' = Chosen(o, n)
  BY <1>2 DEF Chosen
<1> QED BY <1>1, <1>3, Settled DEF Complete

LEMMA ItemsKept ==
    ASSUME ItemsInv, kind \in Itemwise, UNCHANGED <<kind, sent, Made>>, Memorized',
           \A o, n : Chosen(o, n)' = Chosen(o, n),
           \/ gor'[1].todo = gor[1].todo /\ (gor'[1].pc = "loop" => gor[1].pc = "loop")
              /\ (cancelled => cancelled')
           \/ cancelled' /\ gor'[1].todo = <<>> /\ gor'[1].pc # "loop"
    PROVE  ItemsInv'
<1>0. /\ Made' = Made /\ Outputs' = Outputs /\ sent' = sent /\ kind' = kind
      /\ \A o, n : Chosen(o, n)' = Chosen(o, n)
      /\ \A o, out : Complete(o, out)' <=> Complete(o, out)
  BY Settled DEF Complete
<1>1. \A o \in Outputs : \E n \in 0 .. Len(Made) : Selects(sent[o], Made, Chosen(o, n)')
  BY <1>0 DEF ItemsInv
<1>2. CASE gor'[1].todo = gor[1].todo /\ (gor'[1].pc = "loop" => gor[1].pc = "loop")
           /\ (cancelled => cancelled')
  <2>1. \A o : Waits(o)' <=> Waits(o)
    BY <1>2 DEF Waits
  <2>2. ASSUME NEW k \in 1 .. Len(gor[1].todo)
        PROVE  Complete(gor[1].todo[k].out, Append(sent[gor[1].todo[k].out], gor[1].todo[k].val))'
    BY <1>0, <1>2 DEF ItemsInv, Complete
  <2>3. ASSUME NEW o \in Outputs, gor'[1].pc = "loop" \/ ~cancelled'
        PROVE  Waits(o)' \/ Complete(o, sent[o])'
    <3>1. gor[1].pc = "loop" \/ ~cancelled
      BY <1>2, <2>3
    <3>2. Waits(o) \/ Complete(o, sent[o])
      BY <3>1 DEF ItemsInv
    <3>3. Complete(o, sent[o])' <=> Complete(o, sent[o])
      BY <1>0 DEF Complete
    <3> QED BY <2>1, <3>2, <3>3
  <2> QED BY <1>0, <1>1, <1>2, <2>2, <2>3 DEF ItemsInv
<1>3. CASE cancelled' /\ gor'[1].todo = <<>> /\ gor'[1].pc # "loop"
  <2>1. 1 .. Len(gor'[1].todo) = {}
    BY <1>3
  <2> QED BY <1>0, <1>1, <1>3, <2>1 DEF ItemsInv
<1> QED BY <1>2, <1>3

\* How many values are made.
LEMMA MadeLen ==
    ASSUME Basic
    PROVE  /\ kind \in {"map", "scan"} => Len(Made) = Len(consumed[1])
           /\ kind = "zip" => Len(Made) = Len(consumed[2])
           /\ kind = "first" => Len(Made) = Len(consumed[1]) + Len(consumed[2])
           /\ kind \notin {"map", "scan", "zip", "first"} => Made = consumed[1]
           /\ Len(Made) \in Nat
<1>0. /\ consumed[1] \in Seq(Item) /\ Len(consumed[1]) \in Nat
      /\ DOMAIN consumed[1] = 1 .. Len(consumed[1])
  BY Channels DEF Basic, TypeOK
<1>1. kind \in {"zip", "first"} => consumed[2] \in Seq(Item) /\ Len(consumed[2]) \in Nat
                                   /\ DOMAIN consumed[2] = 1 .. Len(consumed[2])
  BY DEF Basic, TypeOK, Inputs
<1>2. CASE kind = "map"
  BY <1>0, <1>2 DEF Made
<1>3. CASE kind = "scan"
  BY <1>0, <1>3 DEF Made
<1>4. CASE kind = "zip"
  BY <1>1, <1>4 DEF Made
<1>5. CASE kind = "first"
  <2>1. Made = consumed[1] \o consumed[2]
    BY <1>5 DEF Made
  <2>2. PICK a, b : a = consumed[1] /\ b = consumed[2]
    OBVIOUS
  <2>3. Len(a \o b) = Len(a) + Len(b)
    BY <1>0, <1>1, <1>5, <2>2, ConcatProperties
  <2>4. Len(Made) = Len(consumed[1]) + Len(consumed[2])
    BY <2>1, <2>2, <2>3
  <2>5. Len(Made) \in Nat
    <3>1. PICK x, y : x = Len(consumed[1]) /\ y = Len(consumed[2])
      OBVIOUS
    <3>2. x \in Nat /\ y \in Nat
      BY <1>0, <1>1, <1>5, <3>1
    <3>3. x + y \in Nat
      BY <3>2
    <3>4. Len(Made) = x + y
      BY <2>4, <3>1
    <3> QED BY <3>3, <3>4
  <2> QED BY <1>5, <2>4, <2>5
<1>6. CASE kind \notin {"map", "scan", "zip", "first"}
  BY <1>0, <1>6 DEF Made
<1> QED BY <1>2, <1>3, <1>4, <1>5, <1>6

\* What waits after a step that leaves one send, or none.
LEMMA WaitsFor ==
    ASSUME NEW p, NEW x, gor'[1].todo = <<[out |-> p, val |-> x]>>
    PROVE  /\ Len(gor'[1].todo) = 1 /\ gor'[1].todo[1].out = p /\ gor'[1].todo[1].val = x
           /\ \A k \in 1 .. Len(gor'[1].todo) : k = 1
           /\ \A o : Waits(o)' <=> o = p
<1>1. Len(gor'[1].todo) = 1 /\ gor'[1].todo[1].out = p /\ gor'[1].todo[1].val = x
  OBVIOUS
<1> QED BY <1>1 DEF Waits

LEMMA WaitsForNone == ASSUME gor'[1].todo = <<>> PROVE Len(gor'[1].todo) = 0 /\ \A o : ~Waits(o)'
  BY DEF Waits

\* The functions that pass their items on.
Passing == {"filter", "take", "skip", "orDone", "fanOut", "tee", "broadcast", "partition",
            "throttle"}

LEMMA Passes ==
    ASSUME Basic, ItemsInv, Counts, kind \in Passing, NEW i \in Inputs, Receive(1, i)
    PROVE  \E x, n : Makes(x, n)
<1> DEFINE v == <<1, Len(consumed[1]) + 1>>
<1>0. /\ kind' = kind /\ 1 \in Workers /\ 1 \in Inputs /\ i = 1
      /\ Outputs' = Outputs /\ Inputs = {1}
  BY Settled, Channels DEF Receive, Inputs, Passing
<1>1. /\ v \in Item /\ consumed' = [consumed EXCEPT ![1] = Append(@, v)]
      /\ gor' = [gor EXCEPT ![1] = OnItem(@, v)]
      /\ consumed \in [Inputs -> Seq(Item)] /\ gor \in [Workers -> Memory]
  BY <1>0, ReceiveIs DEF Basic, TypeOK
<1> HIDE DEF v
<1>m. PICK m, w, c, n : m = gor[1] /\ w = gor'[1] /\ c = consumed[1] /\ n = Len(c)
  OBVIOUS
<1>2. /\ m \in Memory /\ m.n \in Nat /\ w = OnItem(m, v) /\ m.todo = <<>> /\ m.pc = "loop"
      /\ c \in Seq(Item) /\ n \in Nat /\ consumed'[1] = Append(c, v) /\ v \in Values
      /\ Len(m.todo) = 0
  <2>1. m.todo = <<>> /\ m.pc = "loop" /\ Len(m.todo) = 0
    BY <1>0, <1>m DEF Receive, Selecting
  <2>2. c \in Seq(Item) /\ n \in Nat /\ consumed'[1] = Append(c, v)
    BY <1>0, <1>1, <1>m
  <2>3. m \in Memory /\ w = OnItem(m, v)
    BY <1>0, <1>1, <1>m
  <2> QED BY <1>1, <2>1, <2>2, <2>3 DEF Memory, Values
<1>3. /\ Made = c /\ Made' = Append(c, v)
  BY <1>0, <1>2, <1>m DEF Made, Passing
<1>4. /\ Len(Made) = n /\ Len(Made') = n + 1
      /\ Made'[n + 1] = v /\ \A k \in 1 .. n : Made'[k] = Made[k]
  BY <1>1, <1>2, <1>3, <1>m, AppendProperties
<1>5. consumed'[1][n + 1] = v /\ \A k \in 1 .. n : consumed'[1][k] = consumed[1][k]
  BY <1>2, <1>3, <1>4, <1>m
<1>6. \A o \in Outputs : \A k \in 1 .. n : Gets(o, k)' <=> Gets(o, k)
  BY <1>0, <1>5 DEF Gets
<1>c. 1 \in Outputs
  BY Channels
<1>7. /\ \A o \in Outputs : Gets(o, n + 1)' <=> Waits(o)'
      /\ \A k \in 1 .. Len(gor'[1].todo) :
             gor'[1].todo[k].out \in Outputs /\ gor'[1].todo[k].val = v
  <2>1. CASE kind = "filter"
    <3>1. \A o : Gets(o, n + 1)' <=> Keep(v)
      BY <1>0, <1>5, <2>1 DEF Gets
    <3>2. w = IF Keep(v) THEN Sending(m, 1, v) ELSE m
      BY <1>2, <2>1, OnItemIs
    <3>3. Outputs = {1}
      BY <2>1 DEF Outputs
    <3>4. CASE Keep(v)
      <4>1. gor'[1].todo = <<[out |-> 1, val |-> v]>>
        BY <1>c, <1>m, <1>2, <3>2, <3>4, SendingIs
      <4> QED BY <3>1, <3>3, <3>4, <4>1, WaitsFor
    <3>5. CASE ~Keep(v)
      <4>1. gor'[1].todo = <<>>
        BY <1>m, <1>2, <3>2, <3>5
      <4> QED BY <3>1, <3>5, <4>1, WaitsForNone
    <3> QED BY <3>4, <3>5
  <2>2. CASE kind \in {"take", "orDone", "throttle"}
    <3>1. kind = "take" => n + 1 <= N
      <4>1. kind = "take" => m.n + Len(m.todo) = n /\ m.n < N
        BY <1>m, <1>2, <1>2, <2>2 DEF ItemsInv, Memorized, Counts, Itemwise, Windows, Stages
      <4> QED BY <1>2, <4>1, StageAssumption
    <3>2. \A o : Gets(o, n + 1)'
      BY <1>0, <2>2, <3>1 DEF Gets
    <3>3. gor'[1].todo = <<[out |-> 1, val |-> v]>>
      <4>1. CASE kind # "throttle"
        <5>1. w = Sending(m, 1, v)
          BY <1>2, <2>2, <4>1, OnItemIs
        <5> QED BY <1>c, <1>m, <1>2, <5>1, SendingIs
      <4>2. CASE kind = "throttle"
        <5>1. w = Throttle(m, v)
          BY <1>2, <4>2, OnItemIs
        <5>2. w.todo = <<[out |-> 1, val |-> v]>>
          BY <1>2, <5>1 DEF Throttle, Sending, Memory
        <5> QED BY <1>m, <5>2
      <4> QED BY <4>1, <4>2
    <3>4. Outputs = {1}
      BY <2>2 DEF Outputs
    <3> QED BY <3>2, <3>3, <3>4, WaitsFor
  <2>3. CASE kind = "skip"
    <3>1. m.n <= n /\ m.n <= N /\ (m.n < N => m.n = n)
      BY <1>m, <2>3 DEF ItemsInv, Memorized, Itemwise, Windows, Stages
    <3>2. \A o : Gets(o, n + 1)' <=> n + 1 > N
      BY <1>0, <2>3 DEF Gets
    <3>3. w = IF m.n < N THEN [m EXCEPT !.n = @ + 1] ELSE Sending(m, 1, v)
      BY <1>2, <2>3, OnItemIs DEF Skip
    <3>4. Outputs = {1}
      BY <2>3 DEF Outputs
    <3>5. CASE m.n < N
      <4>1. ~(n + 1 > N)
        BY <1>2, <3>1, <3>5, StageAssumption
      <4>2. gor'[1].todo = <<>>
        BY <1>m, <1>2, <3>3, <3>5 DEF Memory
      <4> QED BY <3>2, <4>1, <4>2, WaitsForNone
    <3>6. CASE ~(m.n < N)
      <4>1. n + 1 > N
        BY <1>2, <3>1, <3>6, StageAssumption
      <4>2. gor'[1].todo = <<[out |-> 1, val |-> v]>>
        BY <1>c, <1>m, <1>2, <3>3, <3>6, SendingIs
      <4> QED BY <3>2, <3>4, <4>1, <4>2, WaitsFor
    <3> QED BY <3>5, <3>6
  <2>4. CASE kind = "fanOut"
    <3>1. m.n = n
      <4>1. m.n + Len(m.todo) = n
        BY <1>m, <1>2, <2>4 DEF ItemsInv, Memorized, Itemwise, Windows, Stages
      <4> QED BY <1>2, <4>1
    <3>2. (n % Fan) + 1 \in Outputs
      BY <1>2, <2>4, StageAssumption DEF Outputs
    <3>3. w = Sending(m, (n % Fan) + 1, v)
      BY <1>2, <2>4, <3>1, OnItemIs
    <3>4. gor'[1].todo = <<[out |-> (n % Fan) + 1, val |-> v]>>
      BY <1>m, <1>2, <3>2, <3>3, SendingIs
    <3>5. \A o : Gets(o, n + 1)' <=> o = (n % Fan) + 1
      <4>1. (n + 1) - 1 = n
        BY <1>2
      <4> QED BY <1>0, <2>4, <4>1 DEF Gets
    <3> QED BY <3>2, <3>4, <3>5, WaitsFor
  <2>5. CASE kind \in {"tee", "broadcast"}
    <3>1. w = ToEach(m, v) /\ Outputs = 1 .. Fan
      BY <1>2, <2>5, OnItemIs DEF Outputs
    <3>2. w.todo = [o \in 1 .. Fan |-> [out |-> o, val |-> v]]
      BY <1>2, <3>1 DEF ToEach, Memory
    <3>3. Len(w.todo) = Fan /\ \A k \in 1 .. Fan : w.todo[k].out = k /\ w.todo[k].val = v
      BY <3>2, StageAssumption
    <3>4. \A o \in Outputs : Gets(o, n + 1)'
      BY <1>0, <2>5 DEF Gets
    <3>5. \A o \in Outputs : Waits(o)'
      BY <1>m, <3>1, <3>3 DEF Waits
    <3> QED BY <1>m, <3>1, <3>3, <3>4, <3>5
  <2>6. CASE kind = "partition"
    <3>1. \A o : Gets(o, n + 1)' <=> (Keep(v) <=> o = 1)
      BY <1>0, <1>5, <2>6 DEF Gets, Keep
    <3>2. Outputs = {1, 2}
      BY <2>6 DEF Outputs
    <3>3. w = Sending(m, IF Keep(v) THEN 1 ELSE 2, v)
      BY <1>2, <2>6, OnItemIs
    <3>4. gor'[1].todo = <<[out |-> IF Keep(v) THEN 1 ELSE 2, val |-> v]>>
      BY <1>m, <1>2, <3>2, <3>3, SendingIs
    <3>5. \A o : Waits(o)' <=> o = IF Keep(v) THEN 1 ELSE 2
      BY <3>4, WaitsFor
    <3>6. \A k \in 1 .. Len(gor'[1].todo) :
             gor'[1].todo[k].out \in Outputs /\ gor'[1].todo[k].val = v
      BY <3>2, <3>4, WaitsFor
    <3> QED BY <3>1, <3>2, <3>5, <3>6
  <2> QED BY <2>1, <2>2, <2>3, <2>4, <2>5, <2>6 DEF Passing
<1>8. Makes(v, n)
  BY <1>2, <1>4, <1>6, <1>7 DEF Makes
<1> QED BY <1>8

LEMMA MapMakes ==
    ASSUME Basic, kind \in {"map", "scan"}, ItemsInv, NEW i \in Inputs, Receive(1, i)
    PROVE  \E x, n : Makes(x, n)
<1> DEFINE v == <<1, Len(consumed[1]) + 1>>
<1>0. /\ kind' = kind /\ 1 \in Workers /\ i = 1 /\ Outputs' = Outputs /\ Outputs = {1}
      /\ Inputs = {1} /\ 1 \in Outputs
  BY Settled, Channels DEF Receive, Inputs, Outputs
<1>1. /\ v \in Item /\ consumed' = [consumed EXCEPT ![1] = Append(@, v)]
      /\ gor' = [gor EXCEPT ![1] = OnItem(@, v)]
      /\ consumed \in [Inputs -> Seq(Item)] /\ gor \in [Workers -> Memory]
  BY <1>0, ReceiveIs DEF Basic, TypeOK
<1> HIDE DEF v
<1>m. PICK m, w, c, d, n : /\ m = gor[1] /\ w = gor'[1] /\ c = consumed[1] /\ n = Len(c)
                           /\ d = Append(c, v)
  OBVIOUS
<1>2. c \in Seq(Item) /\ n \in Nat /\ DOMAIN c = 1 .. n /\ consumed'[1] = d
  BY <1>0, <1>1, <1>m
<1>3. /\ d \in Seq(Item) /\ Len(d) = n + 1 /\ DOMAIN d = 1 .. n + 1 /\ d[n + 1] = v
      /\ \A k \in 1 .. n : d[k] = c[k]
  BY <1>1, <1>2, <1>m, AppendProperties
<1>4. m \in Memory /\ w = OnItem(m, v)
  BY <1>0, <1>1, <1>m
<1>5. \A o \in Outputs : \A k : Gets(o, k)' /\ Gets(o, k)
  BY <1>0 DEF Gets
<1>6. CASE kind = "map"
  <2>1. Made = [k \in 1 .. n |-> Apply(c[k])] /\ Made' = [k \in 1 .. n + 1 |-> Apply(d[k])]
    BY <1>0, <1>2, <1>3, <1>6, <1>m DEF Made
  <2>2. /\ Len(Made) = n /\ Len(Made') = n + 1 /\ Made'[n + 1] = Apply(v)
        /\ \A k \in 1 .. n : Made'[k] = Made[k]
    BY <1>2, <1>3, <2>1
  <2>3. Apply(v) \in Values
    BY <1>1 DEF Values, Apply
  <2>4. w = Sending(m, 1, Apply(v))
    BY <1>4, <1>6, OnItemIs
  <2>5. gor'[1].todo = <<[out |-> 1, val |-> Apply(v)]>>
    BY <1>0, <1>4, <1>m, <2>3, <2>4, SendingIs
  <2>6. Makes(Apply(v), n)
    BY <1>0, <1>2, <1>5, <2>2, <2>3, <2>5, WaitsFor DEF Makes
  <2> QED BY <2>6
<1>7. CASE kind = "scan"
  <2>1. Made = [k \in 1 .. n |-> SubSeq(c, 1, k)] /\ Made' = [k \in 1 .. n + 1 |-> SubSeq(d, 1, k)]
    BY <1>0, <1>2, <1>3, <1>7, <1>m DEF Made
  <2>2. SubSeq(d, 1, n + 1) = d
    BY <1>3, SubSeqFull
  <2>3. ASSUME NEW k \in 1 .. n PROVE SubSeq(d, 1, k) = SubSeq(c, 1, k)
    <3>1. k \in 0 .. n /\ k \in 0 .. n + 1
      BY <1>2
    <3>2. SubSeq(d, 1, k) = Restrict(d, 1 .. k) /\ SubSeq(c, 1, k) = Restrict(c, 1 .. k)
      BY <1>2, <1>3, <1>m, <3>1, SubSeqRestrict
    <3>3. \A j \in 1 .. k : d[j] = c[j]
      BY <1>2, <1>3
    <3> QED BY <3>2, <3>3 DEF Restrict
  <2>4. /\ Len(Made) = n /\ Len(Made') = n + 1 /\ Made'[n + 1] = d
        /\ \A k \in 1 .. n : Made'[k] = Made[k]
    <3>1. Len(Made) = n /\ Len(Made') = n + 1
      BY <1>2, <2>1
    <3>2. Made'[n + 1] = d
      BY <1>2, <2>1, <2>2
    <3>3. ASSUME NEW k \in 1 .. n PROVE Made'[k] = Made[k]
      <4>1. Made'[k] = SubSeq(d, 1, k) /\ Made[k] = SubSeq(c, 1, k)
        BY <1>2, <2>1
      <4> QED BY <2>3, <4>1
    <3> QED BY <3>1, <3>2, <3>3
  <2>5. d \in Values /\ m.held = c
    BY <1>3, <1>7, <1>m DEF Values, ItemsInv, Memorized, Itemwise, Stages, Windows
  <2>6. PICK h : h = [m EXCEPT !.held = Append(@, v)]
    OBVIOUS
  <2>7. w = Sending(h, 1, d) /\ h \in Memory
    <3>1. w = Sending(h, 1, Append(m.held, v))
      BY <1>4, <1>7, <2>6, OnItemIs DEF Scan
    <3>2. Append(m.held, v) \in Seq(Item)
      BY <1>3, <1>m, <2>5
    <3> QED BY <1>4, <1>m, <2>5, <2>6, <3>1, <3>2 DEF Memory
  <2>8. gor'[1].todo = <<[out |-> 1, val |-> d]>>
    <3>1. Sending(h, 1, d).todo = <<[out |-> 1, val |-> d]>>
      BY <1>0, <2>5, <2>7, SendingIs
    <3> QED BY <1>m, <2>7, <3>1
  <2>9. Makes(d, n)
    BY <1>0, <1>2, <1>5, <2>4, <2>5, <2>8, WaitsFor DEF Makes
  <2> QED BY <2>9
<1> QED BY <1>6, <1>7

LEMMA FirstMakes ==
    ASSUME Basic, kind = "first", Counts, NEW i \in Inputs, Receive(1, i)
    PROVE  \E x, n : Makes(x, n)
<1> DEFINE v == <<i, Len(consumed[i]) + 1>>
<1>0. /\ kind' = kind /\ 1 \in Workers /\ Outputs' = Outputs /\ Outputs = {1}
      /\ Inputs = {1, 2} /\ 1 \in Outputs
  BY Settled, Channels DEF Receive, Inputs, Outputs
<1>1. /\ v \in Item /\ consumed' = [consumed EXCEPT ![i] = Append(@, v)]
      /\ gor' = [gor EXCEPT ![1] = OnItem(@, v)]
      /\ consumed \in [Inputs -> Seq(Item)] /\ gor \in [Workers -> Memory]
  BY <1>0, ReceiveIs DEF Basic, TypeOK
<1> HIDE DEF v
<1>m. PICK m, w, s : m = gor[1] /\ w = gor'[1] /\ s = Sending(m, 1, v)
  OBVIOUS
<1>2. m \in Memory /\ w = OnItem(m, v) /\ m.pc = "loop" /\ v \in Values
  BY <1>0, <1>1, <1>m DEF Receive, Selecting, Values
<1>3. consumed[1] = <<>> /\ consumed[2] = <<>>
  BY <1>0, <1>2, <1>m DEF Counts
<1>4. Made = <<>>
  <2>1. Made = consumed[1] \o consumed[2]
    BY DEF Made
  <2>2. <<>> \o <<>> = <<>>
    OBVIOUS
  <2> QED BY <1>3, <2>1, <2>2
<1>5. Made' = <<v>>
  <2>1. Made' = consumed'[1] \o consumed'[2]
    BY <1>0 DEF Made
  <2>2. Append(<<>>, v) = <<v>> /\ <<v>> \in Seq(Item)
    BY <1>1
  <2>3. <<v>> \o <<>> = <<v>> /\ <<>> \o <<v>> = <<v>>
    BY <2>2, ConcatEmptySeq
  <2>4. \/ consumed'[1] = <<v>> /\ consumed'[2] = <<>>
        \/ consumed'[1] = <<>> /\ consumed'[2] = <<v>>
    <3>1. /\ consumed'[1] = IF i = 1 THEN Append(consumed[1], v) ELSE consumed[1]
          /\ consumed'[2] = IF i = 2 THEN Append(consumed[2], v) ELSE consumed[2]
      BY <1>0, <1>1
    <3>2. i \in {1, 2}
      BY <1>0
    <3> QED BY <1>3, <2>2, <3>1, <3>2
  <2> QED BY <2>1, <2>3, <2>4
<1>6. s \in Memory /\ s.todo = <<[out |-> 1, val |-> v]>> /\ w = [s EXCEPT !.pc = "return"]
  <2>1. s \in Memory /\ s.todo = <<[out |-> 1, val |-> v]>>
    BY <1>0, <1>2, <1>m, SendingIs
  <2>2. OnItem(m, v) = First(m, v)
    BY OnItemIs
  <2> QED BY <1>2, <1>m, <2>1, <2>2 DEF First
<1>7. gor'[1].todo = <<[out |-> 1, val |-> v]>>
  BY <1>6, <1>m DEF Memory
<1>8. \A o : Gets(o, 1)' /\ Gets(o, 1)
  BY <1>0 DEF Gets
<1>9. Makes(v, 0)
  <2>1. Len(Made) = 0 /\ Len(Made') = 1 /\ Made'[1] = v
    BY <1>4, <1>5
  <2>2. 1 .. 0 = {} /\ 0 + 1 = 1
    OBVIOUS
  <2> QED BY <1>0, <1>2, <1>7, <1>8, <2>1, <2>2, WaitsFor DEF Makes
<1> QED BY <1>9

\* Zip makes nothing of the first item of a pair.
LEMMA ZipMakes ==
    ASSUME Basic, kind = "zip", ItemsInv, NEW i \in Inputs, Receive(1, i)
    PROVE  /\ Len(consumed'[1]) = Len(consumed'[2]) + Len(gor'[1].held)
           /\ gor'[1].held # <<>> => gor'[1].held = <<consumed'[1][Len(consumed'[1])]>>
           /\ \/ \E x, n : Makes(x, n)
              \/ Made' = Made /\ (\A o, n : Chosen(o, n)' = Chosen(o, n))
                 /\ gor'[1].todo = gor[1].todo
<1> DEFINE v == <<i, Len(consumed[i]) + 1>>
<1>0. /\ kind' = kind /\ 1 \in Workers /\ Outputs' = Outputs /\ Outputs = {1}
      /\ Inputs = {1, 2} /\ 1 \in Outputs
  BY Settled, Channels DEF Receive, Inputs, Outputs
<1>1. /\ v \in Item /\ consumed' = [consumed EXCEPT ![i] = Append(@, v)]
      /\ gor' = [gor EXCEPT ![1] = OnItem(@, v)]
      /\ consumed \in [Inputs -> Seq(Item)] /\ gor \in [Workers -> Memory]
  BY <1>0, ReceiveIs DEF Basic, TypeOK
<1> HIDE DEF v
<1>m. PICK m, w, c, d, n : /\ m = gor[1] /\ w = gor'[1] /\ c = consumed[1] /\ d = consumed[2]
                           /\ n = Len(d)
  OBVIOUS
<1>2. /\ m \in Memory /\ w = OnItem(m, v) /\ m.pc = "loop" /\ m.todo = <<>>
      /\ i = IF m.held = <<>> THEN 1 ELSE 2
  <2>1. m.pc = "loop" /\ m.todo = <<>> /\ i \in Wanted(1)
    BY <1>m DEF Receive, Selecting
  <2>2. i = IF m.held = <<>> THEN 1 ELSE 2
    BY <1>m, <2>1 DEF Wanted
  <2> QED BY <1>0, <1>1, <1>m, <2>1, <2>2
<1>3. c \in Seq(Item) /\ d \in Seq(Item) /\ n \in Nat /\ Len(c) \in Nat /\ DOMAIN d = 1 .. n
  BY <1>0, <1>1, <1>m
<1>4. /\ Len(c) = n + Len(m.held)
      /\ m.held # <<>> => m.held = <<c[Len(c)]>>
  BY <1>2, <1>m DEF ItemsInv, Memorized, Itemwise, Stages, Windows
<1>5. \A o, k : Gets(o, k)' /\ Gets(o, k)
  BY <1>0 DEF Gets
<1>6. Made = [k \in 1 .. n |-> <<c[k], d[k]>>]
  BY <1>3, <1>m DEF Made
<1>7. OnItem(m, v) = ZipPair(m, v)
  BY OnItemIs
<1>8. CASE m.held = <<>>
  <2>1. w = [m EXCEPT !.held = <<v>>] /\ i = 1 /\ Len(c) = n
    <3>1. w = [m EXCEPT !.held = <<v>>] /\ i = 1 /\ Len(m.held) = 0
      BY <1>2, <1>7, <1>8 DEF ZipPair
    <3>2. n + 0 = n
      BY <1>3
    <3> QED BY <1>4, <3>1, <3>2
  <2>2. w.held = <<v>> /\ w.todo = <<>>
    BY <1>2, <2>1 DEF Memory
  <2>3. consumed'[1] = Append(c, v) /\ consumed'[2] = d
    BY <1>0, <1>1, <1>m, <2>1
  <2>4. /\ Len(Append(c, v)) = n + 1 /\ Append(c, v)[n + 1] = v
        /\ \A k \in 1 .. n : Append(c, v)[k] = c[k]
    BY <1>1, <1>3, <2>1, AppendProperties
  <2>5. Made' = [k \in 1 .. n |-> <<Append(c, v)[k], d[k]>>]
    BY <1>0, <1>3, <2>3 DEF Made
  <2>6. Made' = Made
    BY <1>6, <2>4, <2>5
  <2>7. \A o, k : Chosen(o, k)' = Chosen(o, k)
    BY <1>5 DEF Chosen
  <2>8. Len(w.held) = 1
    BY <2>2
  <2> QED BY <1>2, <1>3, <1>m, <2>2, <2>3, <2>4, <2>6, <2>7, <2>8
<1>9. CASE m.held # <<>>
  <2>0. m.held[1] = c[n + 1] /\ Len(c) = n + 1 /\ c[n + 1] \in Item
    <3>1. m.held = <<c[Len(c)]>>
      BY <1>4, <1>9
    <3>2. Len(m.held) = 1 /\ m.held[1] = c[Len(c)]
      BY <3>1
    <3>3. Len(c) = n + 1
      BY <1>4, <3>2
    <3>4. n + 1 \in 1 .. Len(c)
      BY <1>3, <3>3
    <3> QED BY <1>3, <3>2, <3>3, <3>4, ElementOfSeq
  <2> DEFINE x == <<c[n + 1], v>>
  <2>1. PICK h : h = [m EXCEPT !.held = <<>>]
    OBVIOUS
  <2>2. w = Sending(h, 1, x) /\ i = 2
    BY <1>2, <1>7, <1>9, <2>0, <2>1 DEF ZipPair
  <2>3. x \in Values
    BY <1>1, <2>0 DEF Values
  <2>4. h \in Memory /\ h.held = <<>>
    BY <1>2, <2>1 DEF Memory
  <2> HIDE DEF x
  <2>5. w.held = <<>> /\ w.todo = <<[out |-> 1, val |-> x]>>
    BY <1>0, <2>2, <2>3, <2>4, SendingIs
  <2>6. consumed'[1] = c /\ consumed'[2] = Append(d, v)
    BY <1>0, <1>1, <1>m, <2>2
  <2>7. /\ Append(d, v) \in Seq(Item) /\ Len(Append(d, v)) = n + 1 /\ Append(d, v)[n + 1] = v
        /\ \A k \in 1 .. n : Append(d, v)[k] = d[k]
    BY <1>1, <1>3, <1>m, AppendProperties
  <2>8. Made' = [k \in 1 .. n + 1 |-> <<c[k], Append(d, v)[k]>>]
    BY <1>0, <2>6, <2>7 DEF Made
  <2>9. /\ Len(Made) = n /\ Len(Made') = n + 1 /\ Made'[n + 1] = x
        /\ \A k \in 1 .. n : Made'[k] = Made[k]
    <3>1. Len(Made) = n /\ Len(Made') = n + 1
      BY <1>3, <1>6, <2>8
    <3>2. Made'[n + 1] = x
      BY <1>3, <2>7, <2>8 DEF x
    <3>3. ASSUME NEW k \in 1 .. n PROVE Made'[k] = Made[k]
      BY <1>3, <1>6, <2>7, <2>8
    <3> QED BY <3>1, <3>2, <3>3
  <2>10. Makes(x, n)
    BY <1>0, <1>3, <1>5, <1>m, <2>3, <2>5, <2>9, WaitsFor DEF Makes
  <2>11. Len(w.held) = 0
    BY <2>5
  <2>12. Len(consumed'[1]) = Len(consumed'[2]) + Len(w.held)
    BY <1>3, <2>0, <2>6, <2>7, <2>11
  <2> QED BY <1>m, <2>5, <2>10, <2>12
<1> QED BY <1>8, <1>9

\* A send gives its output all it gets.
LEMMA ItemsSent ==
    ASSUME Basic, ItemsInv, kind \in Itemwise, Send(1), Memorized'
    PROVE  ItemsInv'
<1>m. PICK m, w, t : m = gor[1] /\ w = gor'[1] /\ t = m.todo[1]
  OBVIOUS
<1>0. 1 \in Workers
  BY Channels
<1>1. /\ m.todo \in Seq(Sends) /\ m.todo # <<>> /\ t.out \in Outputs /\ t.val \in Values
      /\ sent' = [sent EXCEPT ![t.out] = Append(@, t.val)]
      /\ sent \in [Outputs -> Seq(Values)]
  BY <1>m, <1>0, SendIs DEF Basic, TypeOK
<1>2. /\ w.todo = Tail(m.todo) /\ (w.pc = "loop" => m.pc = "loop") /\ UNCHANGED consumed
  BY <1>m, <1>0, SentIs
<1>3. kind' = kind /\ cancelled' = cancelled
  BY DEF Send
<1>4. /\ Made' = Made /\ Outputs' = Outputs
      /\ \A o, n : Chosen(o, n)' = Chosen(o, n)
      /\ \A o, out : Complete(o, out)' <=> Complete(o, out)
  BY <1>2, <1>3, MadeSame
<1>5. /\ sent'[t.out] = Append(sent[t.out], t.val)
      /\ \A o \in Outputs \ {t.out} : sent'[o] = sent[o]
  BY <1>1
<1>l. PICK len \in Nat \ {0} : len = Len(m.todo)
  BY <1>1, EmptySeq
<1>6. /\ Len(w.todo) = len - 1 /\ \A k \in 1 .. len - 1 : w.todo[k] = m.todo[k + 1]
  BY <1>1, <1>2, <1>l, HeadTailProperties
<1>7. ASSUME NEW k \in 1 .. len - 1
      PROVE  /\ w.todo[k].out \in Outputs /\ w.todo[k].out # t.out
             /\ Complete(w.todo[k].out, Append(sent[w.todo[k].out], w.todo[k].val))
  <2>1. k + 1 \in 1 .. len /\ 1 \in 1 .. len /\ k + 1 # 1
    OBVIOUS
  <2>2. m.todo[k + 1] \in Sends
    BY <1>1, <1>l, <2>1, ElementOfSeq
  <2>3. m.todo[k + 1].out # m.todo[1].out
    BY <1>m, <1>0, <1>l, <2>1 DEF Basic, Sound, Distinct
  <2>4. Complete(m.todo[k + 1].out, Append(sent[m.todo[k + 1].out], m.todo[k + 1].val))
    BY <1>m, <1>l, <2>1 DEF ItemsInv
  <2> QED BY <1>m, <1>6, <2>2, <2>3, <2>4 DEF Sends
<1>8. Complete(t.out, sent'[t.out])
  <2>1. 1 \in 1 .. Len(gor[1].todo)
    BY <1>m, <1>l
  <2>2. Complete(t.out, Append(sent[t.out], t.val))
    BY <1>m, <2>1 DEF ItemsInv
  <2> QED BY <1>5, <2>2
<1>9. \A o \in Outputs : \E n \in 0 .. Len(Made) : Selects(sent'[o], Made, Chosen(o, n))
  <2>1. Len(Made) \in 0 .. Len(Made)
    BY MadeLen
  <2> QED BY <1>5, <1>8, <2>1 DEF ItemsInv, Complete
<1>10. ASSUME NEW k \in 1 .. Len(gor'[1].todo)
       PROVE  Complete(gor[1].todo[k].out, Append(sent[gor[1].todo[k].out], gor[1].todo[k].val))'
  <2>1. k \in 1 .. len - 1
    BY <1>m, <1>6
  <2>2. sent'[w.todo[k].out] = sent[w.todo[k].out]
    BY <1>5, <1>7, <2>1
  <2>3. Complete(w.todo[k].out, Append(sent'[w.todo[k].out], w.todo[k].val))
    BY <1>7, <2>1, <2>2
  <2> QED BY <1>m, <1>4, <2>3 DEF Complete
<1>11. ASSUME NEW o \in Outputs, gor'[1].pc = "loop" \/ ~cancelled'
       PROVE  Waits(o)' \/ Complete(o, sent[o])'
  <2>1. CASE o = t.out
    BY <1>4, <1>8, <2>1 DEF Complete
  <2>2. CASE o # t.out
    <3>1. Waits(o) \/ Complete(o, sent[o])
      BY <1>m, <1>2, <1>3, <1>11 DEF ItemsInv
    <3>2. ASSUME Waits(o) PROVE Waits(o)'
      <4>1. PICK k \in 1 .. len : m.todo[k].out = o
        BY <1>m, <1>l, <3>2 DEF Waits
      <4>2. k # 1
        BY <1>m, <2>2, <4>1
      <4>3. k - 1 \in 1 .. len - 1 /\ (k - 1) + 1 = k
        BY <4>2
      <4>4. w.todo[k - 1].out = o
        BY <1>6, <4>1, <4>3
      <4> QED BY <1>m, <1>6, <4>3, <4>4 DEF Waits
    <3>3. Complete(o, sent[o]) => Complete(o, sent[o])'
      BY <1>4, <1>5, <2>2 DEF Complete
    <3> QED BY <3>1, <3>2, <3>3
  <2> QED BY <2>1, <2>2
<1> QED BY <1>3, <1>4, <1>9, <1>10, <1>11 DEF ItemsInv

LEMMA MemorizedKept ==
    ASSUME Memorized, UNCHANGED <<kind, consumed>>, gor'[1].held = gor[1].held,
           kind # "throttle" => gor'[1].n = gor[1].n,
           gor'[1].pc = "loop" => gor[1].pc = "loop" /\ gor'[1].todo = gor[1].todo
    PROVE  Memorized'
<1>m. PICK m, w : m = gor[1] /\ w = gor'[1]
  OBVIOUS
<1> QED BY <1>m DEF Memorized

LEMMA MemorizedReceive ==
    ASSUME Basic, ItemsInv, Counts, kind \in Itemwise, NEW i \in Inputs, Receive(1, i)
    PROVE  Memorized'
<1>0. kind' = kind
  BY DEF Receive
<1>1. ASSUME kind \in {"skip", "take", "fanOut", "scan"} PROVE Memorized'
  <2> DEFINE v == <<1, Len(consumed[1]) + 1>>
  <2>0. 1 \in Workers /\ i = 1 /\ 1 \in Inputs
    BY <1>1, Channels DEF Inputs
  <2>1. /\ v \in Item /\ consumed' = [consumed EXCEPT ![1] = Append(@, v)]
        /\ gor' = [gor EXCEPT ![1] = OnItem(@, v)]
        /\ consumed \in [Inputs -> Seq(Item)] /\ gor \in [Workers -> Memory]
    BY <2>0, ReceiveIs DEF Basic, TypeOK
  <2> HIDE DEF v
  <2>m. PICK m, w, c, n : m = gor[1] /\ w = gor'[1] /\ c = consumed[1] /\ n = Len(c)
    OBVIOUS
  <2>2. /\ m \in Memory /\ w = OnItem(m, v) /\ m.pc = "loop" /\ m.todo = <<>> /\ m.n \in Nat
        /\ v \in Values
    <3>1. m.pc = "loop" /\ m.todo = <<>>
      BY <2>m DEF Receive, Selecting
    <3> QED BY <2>0, <2>1, <2>m, <3>1 DEF Memory, Values
  <2>3. c \in Seq(Item) /\ n \in Nat /\ consumed'[1] = Append(c, v) /\ Len(Append(c, v)) = n + 1
    BY <2>0, <2>1, <2>m
  <2>4. Memorized
    BY DEF ItemsInv
  <2>5. CASE kind = "skip"
    <3>1. m.n <= n /\ m.n <= N /\ (m.n < N => m.n = n) /\ N \in Nat
      BY <2>4, <2>5, <2>m, StageAssumption DEF Memorized
    <3>2. w = IF m.n < N THEN [m EXCEPT !.n = @ + 1] ELSE Sending(m, 1, v)
      BY <2>2, <2>5, OnItemIs DEF Skip
    <3>3. w.n = IF m.n < N THEN m.n + 1 ELSE m.n
      <4>1. CASE m.n < N
        BY <2>2, <3>2, <4>1 DEF Memory
      <4>2. CASE ~(m.n < N)
        <5>1. Sending(m, 1, v).n = m.n
          BY <2>2, Channels, SendingIs
        <5> QED BY <3>2, <4>2, <5>1
      <4> QED BY <4>1, <4>2
    <3>4. w.n <= n + 1 /\ w.n <= N /\ (w.n < N => w.n = n + 1)
      BY <2>2, <2>3, <3>1, <3>3
    <3> QED BY <1>0, <2>3, <2>5, <2>m, <3>4 DEF Memorized
  <2>6. CASE kind \in {"take", "fanOut"}
    <3>1. m.n = n
      <4>1. m.n + Len(m.todo) = n /\ Len(m.todo) = 0
        BY <2>2, <2>4, <2>6, <2>m DEF Memorized
      <4> QED BY <2>2, <4>1
    <3>2. PICK o \in Outputs : w = Sending(m, o, v)
      <4>1. CASE kind = "take"
        BY <2>2, <4>1, OnItemIs, Channels
      <4>2. CASE kind = "fanOut"
        <5>1. (m.n % Fan) + 1 \in Outputs
          BY <2>2, <4>2, StageAssumption DEF Outputs
        <5> QED BY <2>2, <4>2, <5>1, OnItemIs
      <4> QED BY <2>6, <4>1, <4>2
    <3>3. w.n = n /\ w.todo = <<[out |-> o, val |-> v]>>
      BY <2>2, <3>1, <3>2, SendingIs
    <3>4. Len(w.todo) = 1
      BY <3>3
    <3> QED BY <1>0, <2>3, <2>6, <2>m, <3>3, <3>4 DEF Memorized
  <2>7. CASE kind = "scan"
    <3>1. m.held = c
      BY <2>4, <2>7, <2>m DEF Memorized
    <3>2. w = Scan(m, v)
      BY <2>2, <2>7, OnItemIs
    <3>3. w.held = Append(c, v)
      BY <2>2, <3>1, <3>2 DEF Scan, Sending, Memory
    <3> QED BY <1>0, <2>3, <2>7, <2>m, <3>3 DEF Memorized
  <2> QED BY <1>1, <2>5, <2>6, <2>7
<1>2. CASE kind = "zip"
  BY <1>0, <1>2, ZipMakes DEF Memorized
<1>3. CASE kind \notin {"skip", "take", "fanOut", "scan", "zip"}
  BY <1>0, <1>3 DEF Memorized
<1> QED BY <1>1, <1>2, <1>3

LEMMA InitItems == Init => ItemsInv
<1> SUFFICES ASSUME Init, kind \in Itemwise PROVE ItemsInv
  BY DEF ItemsInv
<1>0. Basic
  BY InitBasic
<1>1. /\ 1 \in Workers /\ gor[1].todo = <<>> /\ gor[1].held = <<>>
      /\ (kind # "throttle" => gor[1].n = 0) /\ N \in Nat
      /\ consumed[1] = <<>> /\ (kind \in {"zip", "first"} => consumed[2] = <<>>)
  BY Channels, StageAssumption DEF Init, Inputs
<1>2. Memorized
  <2>1. CASE kind = "skip"
    BY <1>1, <2>1 DEF Memorized
  <2>2. CASE kind \in {"take", "fanOut"}
    BY <1>1, <2>2 DEF Memorized
  <2>3. CASE kind \in {"scan", "zip"}
    BY <1>1, <2>3 DEF Memorized
  <2>4. CASE kind \notin {"skip", "take", "fanOut", "scan", "zip"}
    BY <2>4 DEF Memorized
  <2> QED BY <2>1, <2>2, <2>3, <2>4
<1>3. Len(Made) = 0
  <2>1. Len(consumed[1]) = 0 /\ (kind \in {"zip", "first"} => Len(consumed[2]) = 0)
    BY <1>1
  <2>2. kind = "first" => Len(Made) = 0 + 0
    BY <1>0, <2>1, MadeLen
  <2> QED BY <1>0, <2>1, <2>2, MadeLen
<1>4. \A o \in Outputs : sent[o] = <<>> /\ Chosen(o, 0) = {}
  BY DEF Init, Chosen
<1>5. \A o \in Outputs : Selects(sent[o], Made, Chosen(o, 0))
  BY <1>4, SelectsNone
<1>6. 1 .. Len(gor[1].todo) = {} /\ 0 \in 0 .. 0
  BY <1>1
<1> QED BY <1>2, <1>3, <1>5, <1>6 DEF ItemsInv, Complete

LEMMA NextItems == Basic /\ ClosedInv /\ ItemsInv /\ [Next]_vars => ItemsInv'
<1> SUFFICES ASSUME Basic, ClosedInv, ItemsInv, [Next]_vars, kind \in Itemwise PROVE ItemsInv'
  BY SettledNext DEF ItemsInv
<1>0. kind' = kind /\ kind # "merge" /\ Memorized /\ Counts /\ kind \notin Windows
  BY SettledNext DEF Itemwise, ItemsInv, ClosedInv
<1>1. CASE Around \/ UNCHANGED vars
  <2>1. UNCHANGED <<kind, consumed, gor, sent>> /\ (cancelled => cancelled')
    BY <1>1, AroundKeeps
  <2>2. Memorized'
    BY <1>0, <2>1, MemorizedKept
  <2> QED BY <2>1, <2>2, MadeSame, ItemsKept
<1>2. ASSUME NEW g \in Workers, Step(g) PROVE ItemsInv'
  <2>1. g = 1 /\ 1 \in Workers /\ cancelled' = cancelled
    BY <1>0, <1>2, OneWorker, StepKeeps
  <2>2. ASSUME NEW i \in Inputs, Receive(1, i) PROVE ItemsInv'
    <3>1. Memorized'
      BY <1>0, <2>2, MemorizedReceive
    <3>2. ASSUME NEW x, NEW n, Makes(x, n) PROVE ItemsInv'
      BY <2>2, <3>1, <3>2, MakesKeeps
    <3>3. CASE kind \in Passing
      BY <1>0, <2>2, <3>2, <3>3, Passes
    <3>4. CASE kind \in {"map", "scan"}
      BY <2>2, <3>2, <3>4, MapMakes
    <3>5. CASE kind = "first"
      BY <1>0, <2>2, <3>2, <3>5, FirstMakes
    <3>6. CASE kind = "zip"
      <4>1. \/ \E x, n : Makes(x, n)
            \/ Made' = Made /\ (\A o, n : Chosen(o, n)' = Chosen(o, n))
               /\ gor'[1].todo = gor[1].todo
        BY <2>2, <3>6, ZipMakes
      <4>2. gor[1].pc = "loop" /\ sent' = sent
        BY <2>2 DEF Receive, Selecting
      <4>3. CASE Made' = Made /\ (\A o, n : Chosen(o, n)' = Chosen(o, n))
                 /\ gor'[1].todo = gor[1].todo
        BY <1>0, <2>1, <3>1, <4>2, <4>3, ItemsKept
      <4> QED BY <3>2, <4>1, <4>3
    <3> QED BY <3>3, <3>4, <3>5, <3>6 DEF Itemwise, Passing, Stages, Windows
  <2>3. CASE Send(1)
    <3>1. Memorized'
      <4>m. PICK m, w, n : m = gor[1] /\ w = gor'[1] /\ n = Len(consumed[1])
        OBVIOUS
      <4>1. /\ consumed' = consumed /\ (w.pc = "loop" => m.pc = "loop")
            /\ kind \notin {"tee", "broadcast"} => Len(m.todo) = 1 /\ w.todo = <<>>
            /\ w.held = m.held
            /\ kind \in {"take", "fanOut"} => w.n = m.n + 1
            /\ kind \notin {"take", "fanOut"} => w.n = m.n
        BY <1>0, <2>1, <2>3, <4>m, SentIs DEF Windows, Buffering
      <4>2. CASE kind \in {"take", "fanOut"}
        <5>1. m.pc = "loop" => m.n + Len(m.todo) = n
          BY <1>0, <4>2, <4>m DEF Memorized
        <5>2. Len(m.todo) = 1 /\ Len(w.todo) = 0
          BY <4>1, <4>2
        <5>3. m.n \in Nat
          BY <2>1, <4>m DEF Basic, TypeOK, Memory
        <5>4. w.pc = "loop" => w.n + Len(w.todo) = n
          BY <4>1, <4>2, <5>1, <5>2, <5>3
        <5> QED BY <1>0, <4>1, <4>2, <4>m, <5>4 DEF Memorized
      <4>3. CASE kind \notin {"take", "fanOut"}
        BY <1>0, <4>1, <4>3, <4>m DEF Memorized
      <4> QED BY <4>2, <4>3
    <3> QED BY <2>3, <3>1, ItemsSent
  <2>4. CASE GiveUp(1) \/ Return(1) \/ Fire(1)
    <3>1. /\ UNCHANGED <<consumed, sent>>
          /\ gor'[1].held = gor[1].held /\ gor'[1].n = gor[1].n
          /\ (gor'[1].pc = "loop") <=> (gor[1].pc = "loop")
          /\ \/ gor'[1].todo = gor[1].todo
             \/ cancelled /\ gor[1].pc # "loop" /\ gor'[1].todo = <<>>
      BY <2>1, <2>4, QuietIs
    <3>2. Memorized'
      BY <1>0, <3>1, MemorizedKept
    <3> QED BY <1>0, <2>1, <3>1, <3>2, MadeSame, ItemsKept
  <2>5. CASE OnCancelled(1)
    <3>1. /\ UNCHANGED <<consumed, sent>> /\ cancelled
          /\ gor'[1].held = gor[1].held /\ gor'[1].n = gor[1].n
          /\ gor'[1].pc = "return" /\ gor'[1].todo = <<>>
      BY <1>0, <2>1, <2>5, CancelledIs DEF Windows, Buffering
    <3>2. Memorized'
      BY <1>0, <3>1, MemorizedKept
    <3> QED BY <1>0, <2>1, <3>1, <3>2, MadeSame, ItemsKept
  <2>6. CASE Tick(1) \/ \E i \in Inputs : InputEnds(1, i)
    <3>1. /\ UNCHANGED <<consumed, sent>>
          /\ gor'[1].held = gor[1].held /\ (kind # "throttle" => gor'[1].n = gor[1].n)
          /\ gor[1].pc = "loop" /\ gor[1].todo = <<>> /\ gor'[1].todo = <<>>
      BY <1>0, <2>1, <2>6, EndsIs
    <3>2. Memorized'
      BY <1>0, <3>1, MemorizedKept
    <3> QED BY <1>0, <2>1, <3>1, <3>2, MadeSame, ItemsKept
  <2> QED BY <1>2, <2>1, <2>2, <2>3, <2>4, <2>5, <2>6 DEF Step
<1> QED BY <1>1, <1>2, NextIs

\* The values on their way, by their places.
LEMMA PendingIs ==
    ASSUME Basic, NEW g \in Workers, NEW o, NEW v
    PROVE  v \in Pending(g, o) <=>
              \E k \in 1 .. Len(gor[g].todo) : gor[g].todo[k].out = o /\ gor[g].todo[k].val = v
<1>1. gor[g].todo \in Seq(Sends)
  BY DEF Basic, TypeOK, Memory
<1>2. DOMAIN gor[g].todo = 1 .. Len(gor[g].todo)
  BY <1>1
<1> QED BY <1>2 DEF Pending, ToSet

LEMMA ItemsInvDeliver == Basic /\ ItemsInv /\ kind \in Itemwise => ItemsDeliver
<1> SUFFICES ASSUME Basic, ItemsInv, kind \in Itemwise, NEW o \in Outputs
             PROVE  /\ \E n \in 0 .. Len(Made) : Selects(sent[o], Made, Chosen(o, n))
                    /\ ~cancelled => \A out \in Coming(o) : Selects(out, Made, Chosen(o, Len(Made)))
  BY DEF ItemsDeliver
<1>1. \E n \in 0 .. Len(Made) : Selects(sent[o], Made, Chosen(o, n))
  BY DEF ItemsInv
<1>2. ASSUME ~cancelled, NEW out \in Coming(o) PROVE Complete(o, out)
  <2>0. \A v : v \in Pending(1, o) <=>
              \E k \in 1 .. Len(gor[1].todo) : gor[1].todo[k].out = o /\ gor[1].todo[k].val = v
    BY Channels, PendingIs
  <2>1. CASE Pending(1, o) = {}
    <3>1. out = sent[o]
      BY <1>2, <2>1 DEF Coming
    <3>2. ~Waits(o)
      BY <2>0, <2>1 DEF Waits
    <3> QED BY <1>2, <3>1, <3>2 DEF ItemsInv
  <2>2. CASE Pending(1, o) # {}
    <3>1. PICK v \in Pending(1, o) : out = Append(sent[o], v)
      BY <1>2, <2>2 DEF Coming
    <3>2. PICK k \in 1 .. Len(gor[1].todo) : gor[1].todo[k].out = o /\ gor[1].todo[k].val = v
      BY <2>0, <3>1
    <3> QED BY <3>1, <3>2 DEF ItemsInv
  <2> QED BY <2>1, <2>2
<1> QED BY <1>1, <1>2 DEF Complete

-----------------------------------------------------------------------------
(* Merge *)

MergeInv ==
    kind = "merge" =>
        /\ \A p \in 1 .. Len(sent[1]) : \E i \in Inputs : sent[1][p] = <<i, CameFrom(i, p)>>
        /\ \A g \in Inputs :
              /\ gor[g].todo \in {<<>>, <<[out |-> 1, val |-> <<g, Len(consumed[g])>>]>>}
              /\ CameFrom(g, Len(sent[1])) + Len(gor[g].todo) <= Len(consumed[g])
              /\ gor[g].pc = "loop" \/ ~cancelled =>
                    CameFrom(g, Len(sent[1])) + Len(gor[g].todo) = Len(consumed[g])

\* The first n values of s that came from input i.
Among(s, i, n) == Cardinality({p \in 1 .. n : s[p][1] = i})

\* One more value on the output.
LEMMA CameMore ==
    ASSUME NEW S, NEW s \in Seq(S), NEW x \in S, NEW i
    PROVE  /\ \A n \in 1 .. Len(s) : Among(Append(s, x), i, n) = Among(s, i, n)
           /\ Among(s, i, Len(s)) \in Nat
           /\ Among(Append(s, x), i, Len(s) + 1)
                 = Among(s, i, Len(s)) + (IF x[1] = i THEN 1 ELSE 0)
<1> DEFINE A == {p \in 1 .. Len(s) : s[p][1] = i}
           B == {p \in 1 .. Len(s) + 1 : Append(s, x)[p][1] = i}
<1>1. /\ Len(s) \in Nat /\ Append(s, x)[Len(s) + 1] = x
      /\ \A p \in 1 .. Len(s) : Append(s, x)[p] = s[p]
  BY AppendProperties
<1>2. IsFiniteSet(A) /\ Cardinality(A) \in Nat /\ Len(s) + 1 \notin A
  <2>1. IsFiniteSet(1 .. Len(s)) /\ A \subseteq 1 .. Len(s)
    BY <1>1, FS_Interval
  <2>2. IsFiniteSet(A)
    BY <2>1, FS_Subset
  <2>3. Len(s) + 1 \notin A
    BY <1>1
  <2> QED BY <2>2, <2>3, FS_CardinalityType
<1>3. B = IF x[1] = i THEN A \cup {Len(s) + 1} ELSE A
  <2>1. 1 .. Len(s) + 1 = (1 .. Len(s)) \cup {Len(s) + 1}
    BY <1>1
  <2> QED BY <1>1, <2>1
<1>4. ASSUME NEW n \in 1 .. Len(s)
      PROVE  {p \in 1 .. n : Append(s, x)[p][1] = i} = {p \in 1 .. n : s[p][1] = i}
  <2>1. 1 .. n \subseteq 1 .. Len(s)
    BY <1>1
  <2> QED BY <1>1, <2>1
<1> HIDE DEF A, B
<1>5. Cardinality(A \cup {Len(s) + 1}) = Cardinality(A) + 1
  BY <1>2, FS_AddElement
<1>6. Cardinality(B) = Cardinality(A) + (IF x[1] = i THEN 1 ELSE 0)
  BY <1>2, <1>3, <1>5
<1>7. ASSUME NEW n \in 1 .. Len(s) PROVE Among(Append(s, x), i, n) = Among(s, i, n)
  BY <1>4 DEF Among
<1>8. Among(s, i, Len(s)) = Cardinality(A) /\ Among(Append(s, x), i, Len(s) + 1) = Cardinality(B)
  BY DEF A, B, Among
<1> QED BY <1>2, <1>6, <1>7, <1>8

LEMMA MergeTypes ==
    ASSUME Basic, kind = "merge"
    PROVE  /\ Inputs = {1, 2} /\ Workers = {1, 2} /\ Outputs = {1}
           /\ sent[1] \in Seq(Values) /\ Len(sent[1]) \in Nat
           /\ \A g \in {1, 2} : /\ consumed[g] \in Seq(Item) /\ Len(consumed[g]) \in Nat
                                /\ gor[g].todo \in Seq(Sends) /\ Len(gor[g].todo) \in Nat
                                /\ CameFrom(g, Len(sent[1])) \in Nat
<1>1. Inputs = {1, 2} /\ Workers = {1, 2} /\ Outputs = {1}
  BY DEF Inputs, Workers, Outputs
<1>2. sent[1] \in Seq(Values) /\ Len(sent[1]) \in Nat
  BY <1>1 DEF Basic, TypeOK
<1>3. ASSUME NEW g \in {1, 2}
      PROVE  consumed[g] \in Seq(Item) /\ Len(consumed[g]) \in Nat
             /\ gor[g].todo \in Seq(Sends) /\ Len(gor[g].todo) \in Nat
  <2>1. consumed[g] \in Seq(Item) /\ gor[g] \in Memory
    BY <1>1 DEF Basic, TypeOK
  <2> QED BY <2>1 DEF Memory
<1>4. ASSUME NEW g \in {1, 2} PROVE CameFrom(g, Len(sent[1])) \in Nat
  <2>1. PICK s : s = sent[1]
    OBVIOUS
  <2>2. s \in Seq(Values) /\ <<1, 1>> \in Values
    BY <1>2, <2>1 DEF Values, Item
  <2>3. Among(s, g, Len(s)) \in Nat
    BY <2>2, CameMore
  <2> QED BY <2>1, <2>3 DEF CameFrom, Among
<1> QED BY <1>1, <1>2, <1>3, <1>4

LEMMA InitMerge == Init => MergeInv
<1> SUFFICES ASSUME Init, kind = "merge" PROVE MergeInv
  BY DEF MergeInv
<1>1. /\ Inputs = {1, 2} /\ sent[1] = <<>>
      /\ \A g \in Inputs : consumed[g] = <<>> /\ gor[g].todo = <<>>
  BY DEF Init, Inputs, Workers, Outputs
<1>2. Len(sent[1]) = 0 /\ \A g \in Inputs : Len(consumed[g]) = 0 /\ Len(gor[g].todo) = 0
  BY <1>1
<1>3. \A g : CameFrom(g, 0) = 0
  <2>1. \A g : {p \in 1 .. 0 : sent[1][p][1] = g} = {}
    OBVIOUS
  <2> QED BY <2>1, FS_EmptySet DEF CameFrom
<1> QED BY <1>1, <1>2, <1>3 DEF MergeInv

LEMMA MergeKept ==
    ASSUME Basic, MergeInv, UNCHANGED <<kind, consumed, sent>>,
           \A g \in Workers :
              \/ gor'[g].todo = gor[g].todo /\ (gor'[g].pc = "loop" => gor[g].pc = "loop")
                 /\ (cancelled => cancelled')
              \/ cancelled' /\ gor'[g].todo = <<>> /\ gor'[g].pc # "loop"
    PROVE  MergeInv'
<1> SUFFICES ASSUME kind = "merge" PROVE MergeInv'
  BY DEF MergeInv
<1>0. Inputs = {1, 2} /\ Workers = {1, 2} /\ Inputs' = Inputs
  BY MergeTypes, Settled
<1>1. \A i, n : CameFrom(i, n)' = CameFrom(i, n)
  BY DEF CameFrom
<1>2. ASSUME NEW g \in Inputs
      PROVE  /\ gor'[g].todo \in {<<>>, <<[out |-> 1, val |-> <<g, Len(consumed[g])>>]>>}
             /\ CameFrom(g, Len(sent[1])) + Len(gor'[g].todo) <= Len(consumed[g])
             /\ gor'[g].pc = "loop" \/ ~cancelled' =>
                   CameFrom(g, Len(sent[1])) + Len(gor'[g].todo) = Len(consumed[g])
  <2>1. /\ gor[g].todo \in {<<>>, <<[out |-> 1, val |-> <<g, Len(consumed[g])>>]>>}
        /\ CameFrom(g, Len(sent[1])) + Len(gor[g].todo) <= Len(consumed[g])
        /\ gor[g].pc = "loop" \/ ~cancelled =>
              CameFrom(g, Len(sent[1])) + Len(gor[g].todo) = Len(consumed[g])
    BY DEF MergeInv
  <2>2. CASE gor'[g].todo = gor[g].todo /\ (gor'[g].pc = "loop" => gor[g].pc = "loop")
             /\ (cancelled => cancelled')
    BY <2>1, <2>2
  <2>3. CASE cancelled' /\ gor'[g].todo = <<>> /\ gor'[g].pc # "loop"
    <3>1. PICK a, b, c : /\ a = CameFrom(g, Len(sent[1])) /\ b = Len(gor[g].todo)
                         /\ c = Len(consumed[g])
      OBVIOUS
    <3>2. a \in Nat /\ b \in Nat /\ c \in Nat /\ Len(gor'[g].todo) = 0
      BY <1>0, <2>3, <3>1, MergeTypes
    <3>3. a + 0 <= c
      BY <2>1, <3>1, <3>2
    <3> QED BY <2>3, <3>1, <3>2, <3>3
  <2> QED BY <1>0, <2>2, <2>3
<1> QED BY <1>0, <1>1, <1>2 DEF MergeInv

LEMMA MergeReceive ==
    ASSUME Basic, MergeInv, kind = "merge", NEW g \in Workers, NEW i \in Inputs, Receive(g, i)
    PROVE  MergeInv'
<1>0. /\ Inputs = {1, 2} /\ Workers = {1, 2} /\ Inputs' = Inputs /\ kind' = kind /\ i = g
      /\ sent' = sent /\ cancelled' = cancelled /\ gor[g].pc = "loop" /\ gor[g].todo = <<>>
      /\ 1 \in Outputs
  BY MergeTypes, Settled, Channels DEF Receive, Wanted, Selecting
<1> DEFINE v == <<g, Len(consumed[g]) + 1>>
<1>1. /\ v \in Item /\ consumed' = [consumed EXCEPT ![g] = Append(@, v)]
      /\ gor' = [gor EXCEPT ![g] = OnItem(@, v)]
      /\ consumed \in [Inputs -> Seq(Item)] /\ gor \in [Workers -> Memory]
  BY <1>0, ReceiveIs DEF Basic, TypeOK
<1> HIDE DEF v
<1>2. gor'[g].todo = <<[out |-> 1, val |-> v]>>
  <2>1. gor'[g] = Sending(gor[g], 1, v) /\ v \in Values /\ gor[g] \in Memory
    BY <1>1, OnItemIs DEF Values
  <2> QED BY <1>0, <2>1, SendingIs
<1>3. Len(consumed'[g]) = Len(consumed[g]) + 1
  <2>1. consumed'[g] = Append(consumed[g], v) /\ consumed[g] \in Seq(Item)
    BY <1>0, <1>1
  <2> QED BY <1>1, <2>1, AppendProperties
<1>4. \A j, n : CameFrom(j, n)' = CameFrom(j, n)
  BY <1>0 DEF CameFrom
<1>5. ASSUME NEW h \in Inputs
      PROVE  /\ gor'[h].todo \in {<<>>, <<[out |-> 1, val |-> <<h, Len(consumed'[h])>>]>>}
             /\ CameFrom(h, Len(sent[1])) + Len(gor'[h].todo) <= Len(consumed'[h])
             /\ gor'[h].pc = "loop" \/ ~cancelled =>
                   CameFrom(h, Len(sent[1])) + Len(gor'[h].todo) = Len(consumed'[h])
  <2>1. CASE h # g
    <3>1. gor'[h] = gor[h] /\ consumed'[h] = consumed[h]
      BY <1>0, <1>1, <2>1
    <3> QED BY <3>1 DEF MergeInv
  <2>2. CASE h = g
    <3>1. PICK a, c : a = CameFrom(g, Len(sent[1])) /\ c = Len(consumed[g])
      OBVIOUS
    <3>2. a \in Nat /\ c \in Nat
      BY <1>0, <3>1, MergeTypes
    <3>3. a + 0 = c
      <4>1. CameFrom(g, Len(sent[1])) + Len(gor[g].todo) = Len(consumed[g])
        BY <1>0 DEF MergeInv
      <4>2. Len(gor[g].todo) = 0
        BY <1>0
      <4> QED BY <3>1, <4>1, <4>2
    <3>4. a = c
      BY <3>2, <3>3
    <3>5. Len(gor'[g].todo) = 1 /\ v = <<g, Len(consumed'[g])>>
      BY <1>2, <1>3 DEF v
    <3>6. CameFrom(g, Len(sent[1])) + Len(gor'[g].todo) = Len(consumed'[g])
      BY <1>3, <3>1, <3>4, <3>5
    <3>7. Len(consumed'[g]) <= Len(consumed'[g])
      BY <1>3, <3>1, <3>2
    <3> QED BY <1>2, <2>2, <3>5, <3>6, <3>7
  <2> QED BY <2>1, <2>2
<1> QED BY <1>0, <1>4, <1>5 DEF MergeInv

LEMMA MergeSend ==
    ASSUME Basic, MergeInv, kind = "merge", NEW g \in Workers, Send(g)
    PROVE  MergeInv'
<1>0. /\ Inputs = {1, 2} /\ Workers = {1, 2} /\ Inputs' = Inputs /\ kind' = kind
      /\ cancelled' = cancelled /\ consumed' = consumed /\ Outputs = {1}
  BY MergeTypes, Settled DEF Send
<1> DEFINE x == <<g, Len(consumed[g])>>
<1>m. PICK s, n : s = sent[1] /\ n = Len(s)
  OBVIOUS
<1>1. gor[g].todo = <<[out |-> 1, val |-> x]>> /\ gor'[g].todo = <<>> /\ gor[g].pc = "loop"
  <2>1. gor[g].todo # <<>> /\ gor'[g].todo = <<>>
    BY SendIs, SentIs
  <2>2. gor[g].pc = "loop"
    BY <2>1 DEF Basic, Sound, Windows
  <2> QED BY <1>0, <2>1, <2>2 DEF MergeInv
<1>2. s \in Seq(Values) /\ n \in Nat /\ sent'[1] = Append(s, x) /\ x \in Values
  <2>1. gor[g].todo[1].out = 1 /\ gor[g].todo[1].val = x
    BY <1>1
  <2>2. s \in Seq(Values) /\ n \in Nat
    BY <1>m, MergeTypes
  <2>3. sent' = [sent EXCEPT ![1] = Append(@, x)] /\ gor[g].todo # <<>>
    BY <2>1, SendIs
  <2>4. sent \in [Outputs -> Seq(Values)]
    BY DEF Basic, TypeOK
  <2>5. sent'[1] = Append(s, x)
    BY <1>0, <1>m, <2>3, <2>4
  <2>6. gor[g].todo \in Seq(Sends)
    BY <1>0, MergeTypes
  <2>7. gor[g].todo[1] \in Sends
    BY <2>3, <2>6, HeadTailProperties
  <2>8. x \in Values
    BY <2>1, <2>7 DEF Sends
  <2> QED BY <2>2, <2>5, <2>8
<1>3. Len(sent'[1]) = n + 1 /\ sent'[1][n + 1] = x /\ \A p \in 1 .. n : sent'[1][p] = s[p]
  BY <1>2, <1>m, AppendProperties
<1>4. \A i : /\ \A p \in 1 .. n : CameFrom(i, p)' = CameFrom(i, p)
             /\ CameFrom(i, n) \in Nat
             /\ CameFrom(i, n + 1)' = CameFrom(i, n) + (IF x[1] = i THEN 1 ELSE 0)
  <2> SUFFICES ASSUME NEW i
               PROVE  /\ \A p \in 1 .. n : CameFrom(i, p)' = CameFrom(i, p)
                      /\ CameFrom(i, n) \in Nat
                      /\ CameFrom(i, n + 1)' = CameFrom(i, n) + (IF x[1] = i THEN 1 ELSE 0)
    OBVIOUS
  <2> DEFINE z == Append(s, x)
  <2> HIDE DEF x
  <2>1. /\ \A p \in 1 .. Len(s) : Among(z, i, p) = Among(s, i, p)
        /\ Among(s, i, Len(s)) \in Nat
        /\ Among(z, i, Len(s) + 1) = Among(s, i, Len(s)) + (IF x[1] = i THEN 1 ELSE 0)
    BY <1>2, CameMore
  <2> HIDE DEF z
  <2>2. sent'[1] = z
    BY <1>2 DEF z
  <2>3. \A m : CameFrom(i, m) = Among(s, i, m) /\ CameFrom(i, m)' = Among(z, i, m)
    BY <1>m, <2>2 DEF CameFrom, Among
  <2> QED BY <1>m, <2>1, <2>3
<1>5. CameFrom(g, n + 1)' = CameFrom(g, n) + 1 /\ CameFrom(g, n) + 1 = Len(consumed[g])
  <2>1. CameFrom(g, n) + Len(gor[g].todo) = Len(consumed[g])
    BY <1>0, <1>1, <1>m DEF MergeInv
  <2>2. Len(gor[g].todo) = 1
    BY <1>1
  <2> QED BY <1>4, <2>1, <2>2
<1>6. ASSUME NEW p \in 1 .. Len(sent'[1])
      PROVE  \E i \in Inputs : sent'[1][p] = <<i, CameFrom(i, p)'>>
  <2>1. CASE p \in 1 .. n
    <3>1. PICK i \in Inputs : s[p] = <<i, CameFrom(i, p)>>
      BY <1>m, <2>1 DEF MergeInv
    <3> QED BY <1>3, <1>4, <2>1, <3>1
  <2>2. CASE p = n + 1
    <3>1. sent'[1][p] = <<g, CameFrom(g, p)'>>
      BY <1>3, <1>5, <2>2
    <3> QED BY <1>0, <3>1
  <2> QED BY <1>2, <1>3, <2>1, <2>2
<1>7. ASSUME NEW h \in Inputs
      PROVE  /\ gor'[h].todo \in {<<>>, <<[out |-> 1, val |-> <<h, Len(consumed[h])>>]>>}
             /\ CameFrom(h, n + 1)' + Len(gor'[h].todo) <= Len(consumed[h])
             /\ gor'[h].pc = "loop" \/ ~cancelled =>
                   CameFrom(h, n + 1)' + Len(gor'[h].todo) = Len(consumed[h])
  <2>1. CASE h # g
    <3>1. gor'[h] = gor[h]
      <4>1. Step(g)
        BY DEF Step
      <4> QED BY <1>0, <2>1, <4>1, StepSound
    <3>2. CameFrom(h, n + 1)' = CameFrom(h, n)
      BY <1>4, <2>1
    <3> QED BY <1>m, <3>1, <3>2 DEF MergeInv
  <2>2. CASE h = g
    <3>1. PICK a, c : a = CameFrom(g, n) /\ c = Len(consumed[g])
      OBVIOUS
    <3>2. a \in Nat /\ a + 1 = c
      BY <1>4, <1>5, <3>1
    <3>3. Len(gor'[g].todo) = 0 /\ CameFrom(g, n + 1)' = c
      BY <1>1, <1>5, <3>1, <3>2
    <3>4. c + 0 = c /\ c <= c
      BY <3>2
    <3> QED BY <1>1, <2>2, <3>1, <3>3, <3>4
  <2> QED BY <2>1, <2>2
<1>8. Len(sent'[1]) = n + 1
  BY <1>3
<1> QED BY <1>0, <1>6, <1>7, <1>8 DEF MergeInv

LEMMA NextMerge == Basic /\ MergeInv /\ [Next]_vars => MergeInv'
<1> SUFFICES ASSUME Basic, MergeInv, [Next]_vars, kind = "merge" PROVE MergeInv'
  BY SettledNext DEF MergeInv
<1>0. kind' = kind
  BY SettledNext
<1>1. CASE Around \/ UNCHANGED vars
  <2>1. UNCHANGED <<kind, consumed, gor, sent>> /\ (cancelled => cancelled')
    BY <1>1, AroundKeeps
  <2> QED BY <2>1, MergeKept
<1>2. ASSUME NEW g \in Workers, Step(g) PROVE MergeInv'
  <2>1. cancelled' = cancelled /\ \A h \in Workers \ {g} : gor'[h] = gor[h]
    BY <1>2, StepKeeps, StepSound
  <2>2. CASE GiveUp(g) \/ Return(g) \/ Fire(g)
    <3>1. /\ UNCHANGED <<consumed, sent>>
          /\ (gor'[g].pc = "loop") <=> (gor[g].pc = "loop")
          /\ \/ gor'[g].todo = gor[g].todo
             \/ cancelled /\ gor[g].pc # "loop" /\ gor'[g].todo = <<>>
      BY <2>2, QuietIs
    <3> QED BY <1>0, <2>1, <3>1, MergeKept
  <2>3. CASE OnCancelled(g)
    <3>1. /\ UNCHANGED <<consumed, sent>> /\ cancelled
          /\ gor'[g].pc = "return" /\ gor'[g].todo = <<>>
      BY <2>3, CancelledIs DEF Buffering
    <3> QED BY <1>0, <2>1, <3>1, MergeKept
  <2>4. CASE Tick(g) \/ \E i \in Inputs : InputEnds(g, i)
    <3>1. /\ UNCHANGED <<consumed, sent>>
          /\ gor[g].pc = "loop" /\ gor[g].todo = <<>> /\ gor'[g].todo = <<>>
      BY <2>4, EndsIs DEF Windows
    <3> QED BY <1>0, <2>1, <3>1, MergeKept
  <2> QED BY <1>2, <2>2, <2>3, <2>4, MergeReceive, MergeSend DEF Step
<1> QED BY <1>1, <1>2, NextIs

LEMMA MergeInvDelivers == Basic /\ MergeInv /\ kind = "merge" => MergeDelivers
<1> SUFFICES ASSUME Basic, MergeInv, kind = "merge" PROVE MergeDelivers
  OBVIOUS
<1>0. /\ Inputs = {1, 2} /\ Workers = {1, 2} /\ DOMAIN sent[1] = 1 .. Len(sent[1])
  BY MergeTypes, LenProperties
<1>1. ASSUME NEW i \in Inputs PROVE Cardinality(Pending(i, 1)) = Len(gor[i].todo)
  <2>1. \A v : v \in Pending(i, 1) <=>
              \E k \in 1 .. Len(gor[i].todo) : gor[i].todo[k].out = 1 /\ gor[i].todo[k].val = v
    BY <1>0, PendingIs
  <2>2. CASE gor[i].todo = <<>>
    <3>1. Len(gor[i].todo) = 0
      BY <2>2
    <3>2. Pending(i, 1) = {}
      BY <2>1, <3>1
    <3> QED BY <3>1, <3>2, FS_EmptySet
  <2>3. ASSUME NEW x, gor[i].todo = <<[out |-> 1, val |-> x]>>
        PROVE  Cardinality(Pending(i, 1)) = Len(gor[i].todo)
    <3>1. Len(gor[i].todo) = 1 /\ gor[i].todo[1].out = 1 /\ gor[i].todo[1].val = x
      BY <2>3
    <3>2. Pending(i, 1) = {x}
      BY <2>1, <3>1
    <3> QED BY <3>1, <3>2, FS_Singleton
  <2> QED BY <2>2, <2>3 DEF MergeInv
<1> QED BY <1>0, <1>1 DEF MergeInv, MergeDelivers

-----------------------------------------------------------------------------
(* The functions that hold items: what their steps are *)

Reasons == {"size", "timeout", "close"}

\* What is sent of the items that m holds; and m is sending that, if it holds any.
Bundle(m, why) ==
    IF kind \in Buffering THEN BatchValue(m, why)
    ELSE IF kind = "debounce" THEN m.held[1] ELSE m.held
Offers(m, why) ==
    IF m.held = <<>> THEN m.todo = <<>>
    ELSE m.todo = <<[out |-> 1, val |-> Bundle(m, why)]>>

\* Flush, Window and the send of Debounce.
LEMMA OffersIs ==
    ASSUME NEW m \in Memory, m.todo = <<>>, NEW why \in Reasons
    PROVE  /\ kind \in Buffering =>
                 Offers(Flush(m, why), why) /\ Flush(m, why).held = m.held
                 /\ Flush(m, why).pc = m.pc
           /\ kind \in {"tumbling", "sliding"} =>
                 Offers(Window(m), why) /\ Window(m).held = m.held /\ Window(m).pc = m.pc
           /\ kind = "debounce" /\ m.held # <<>> =>
                 /\ Offers(Sending(m, 1, m.held[1]), why)
                 /\ Sending(m, 1, m.held[1]).held = m.held
                 /\ Sending(m, 1, m.held[1]).pc = m.pc
<1>1. ASSUME kind \in Buffering
      PROVE  Offers(Flush(m, why), why) /\ Flush(m, why).held = m.held
             /\ Flush(m, why).pc = m.pc
  <2>1. PICK f : f = Flush(m, why)
    OBVIOUS
  <2>2. /\ f.held = m.held /\ f.pc = m.pc
        /\ f.todo = IF m.held = <<>> THEN <<>> ELSE <<[out |-> 1, val |-> BatchValue(m, why)]>>
    BY <2>1, FlushIs DEF Reasons
  <2>3. BatchValue(f, why) = BatchValue(m, why)
    BY <2>2 DEF BatchValue
  <2> QED BY <1>1, <2>1, <2>2, <2>3 DEF Offers, Bundle
<1>2. ASSUME kind \in {"tumbling", "sliding"}
      PROVE  Offers(Window(m), why) /\ Window(m).held = m.held /\ Window(m).pc = m.pc
  <2>1. PICK f : f = Window(m)
    OBVIOUS
  <2>2. /\ f.held = m.held /\ f.pc = m.pc
        /\ f.todo = IF m.held = <<>> THEN <<>> ELSE <<[out |-> 1, val |-> m.held]>>
    BY <2>1, WindowIs
  <2> QED BY <1>2, <2>1, <2>2 DEF Offers, Bundle, Buffering
<1>3. ASSUME kind = "debounce", m.held # <<>>
      PROVE  /\ Offers(Sending(m, 1, m.held[1]), why)
             /\ Sending(m, 1, m.held[1]).held = m.held
             /\ Sending(m, 1, m.held[1]).pc = m.pc
  <2>1. PICK f, x : f = Sending(m, 1, m.held[1]) /\ x = m.held[1]
    OBVIOUS
  <2>2. m.held \in Seq(Item) /\ 1 \in Outputs
    BY Channels DEF Memory
  <2>3. x \in Values
    BY <1>3, <2>1, <2>2, HeadTailProperties DEF Values
  <2>4. f.held = m.held /\ f.pc = m.pc /\ f.todo = <<[out |-> 1, val |-> x]>>
    BY <2>1, <2>2, <2>3, SendingIs
  <2> QED BY <1>3, <2>1, <2>4 DEF Offers, Bundle, Buffering
<1> QED BY <1>1, <1>2, <1>3

\* An item.
LEMMA GathersIs ==
    ASSUME Basic, kind \in Windows, NEW g \in Workers, NEW i \in Inputs, Receive(g, i)
    PROVE  LET m == gor[1]
               w == gor'[1]
               c == consumed[1]
               v == <<1, Len(c) + 1>>
           IN /\ i = 1 /\ g = 1 /\ m.todo = <<>> /\ m.pc = "loop" /\ w.pc = "loop" /\ v \in Item
              /\ UNCHANGED <<kind, sent, cancelled, closedIn>>
              /\ c \in Seq(Item) /\ consumed'[1] = Append(c, v)
              /\ m.held \in Seq(Item)
              /\ w.held = IF kind = "debounce" THEN <<v>> ELSE Append(m.held, v)
              /\ \/ w.todo = <<>> /\ (kind \in Buffering => ~(Len(w.held) >= N))
                 \/ kind \in Buffering /\ Len(w.held) >= N /\ Offers(w, "size")
<1>m. PICK m, w, v : m = gor[1] /\ w = gor'[1] /\ v = <<1, Len(consumed[1]) + 1>>
  OBVIOUS
<1>0. Inputs = {1} /\ i = 1 /\ g = 1
  BY OneWorker DEF Inputs, Windows
<1>1. /\ v \in Item /\ consumed' = [consumed EXCEPT ![1] = Append(@, v)]
      /\ gor' = [gor EXCEPT ![1] = OnItem(@, v)]
  BY <1>0, <1>m, ReceiveIs
<1>2. /\ consumed \in [Inputs -> Seq(Item)] /\ gor \in [Workers -> Memory]
      /\ m \in Memory /\ m.held \in Seq(Item) /\ m.todo = <<>> /\ m.pc = "loop"
      /\ UNCHANGED <<kind, sent, cancelled, closedIn>>
  BY <1>0, <1>m DEF Basic, TypeOK, Memory, Receive, Selecting
<1>3. consumed'[1] = Append(consumed[1], v) /\ consumed[1] \in Seq(Item) /\ w = OnItem(m, v)
  BY <1>0, <1>1, <1>2, <1>m
<1>4. /\ w.pc = "loop" /\ w.held = IF kind = "debounce" THEN <<v>> ELSE Append(m.held, v)
      /\ \/ w.todo = <<>> /\ (kind \in Buffering => ~(Len(w.held) >= N))
         \/ kind \in Buffering /\ Len(w.held) >= N /\ Offers(w, "size")
  <2>1. CASE kind \in {"tumbling", "sliding"}
    <3>1. w = [m EXCEPT !.held = Append(@, v)]
      BY <1>3, <2>1, OnItemIs
    <3> QED BY <1>2, <2>1, <3>1 DEF Memory, Buffering
  <2>2. CASE kind = "debounce"
    <3>1. w = [m EXCEPT !.held = <<v>>, !.clock = "armed"]
      BY <1>3, <2>2, OnItemIs DEF Debounce
    <3> QED BY <1>2, <2>2, <3>1 DEF Memory, Buffering
  <2>3. CASE kind \in Buffering
    <3>1. PICK x : x = Collect(m, v)
      OBVIOUS
    <3>2. kind # "debounce" /\ Append(m.held, v) \in Seq(Item)
      BY <1>1, <1>2, <2>3 DEF Buffering
    <3>3. /\ x \in Memory /\ x.held = Append(m.held, v) /\ x.todo = <<>> /\ x.pc = "loop"
      BY <1>2, <3>1, <3>2 DEF Collect, Memory
    <3>4. w = IF Len(x.held) >= N THEN Flush(x, "size") ELSE x
      BY <1>3, <2>3, <3>1, OnItemIs DEF Buffer
    <3>5. CASE Len(x.held) >= N
      <4>1. w = Flush(x, "size")
        BY <3>4, <3>5
      <4>2. Offers(w, "size") /\ w.held = x.held /\ w.pc = x.pc
        BY <2>3, <3>3, <4>1, OffersIs DEF Reasons
      <4> QED BY <2>3, <3>2, <3>3, <3>5, <4>2
    <3>6. CASE ~(Len(x.held) >= N)
      BY <3>2, <3>3, <3>4, <3>6
    <3> QED BY <3>5, <3>6
  <2> QED BY <2>1, <2>2, <2>3 DEF Windows, Buffering
<1> QED BY <1>0, <1>1, <1>2, <1>3, <1>4, <1>m

\* The clock, the end of the input, and for Buffer the context.
LEMMA FlushesIs ==
    ASSUME Basic, kind \in Windows, NEW g \in Workers,
           \/ Tick(g) \/ \E i \in Inputs : InputEnds(g, i)
           \/ OnCancelled(g) /\ kind \in Buffering
    PROVE  LET m == gor[1]
               w == gor'[1]
           IN /\ g = 1 /\ m.pc = "loop" /\ (m.todo = <<>> \/ cancelled)
              /\ UNCHANGED <<kind, consumed, sent, cancelled, closedIn>>
              /\ kind # "sliding" => w.held = m.held
              /\ \E k \in 0 .. Len(m.held) : kind = "sliding" =>
                    w.held = SubSeq(m.held, k + 1, Len(m.held))
              /\ \/ w.pc = "loop" /\ m.todo = <<>> /\ Offers(w, "timeout")
                 \/ w.pc = "return" /\ Offers(w, "close") /\ (cancelled \/ 1 \in closedIn)
<1>m. PICK m, w : m = gor[1] /\ w = gor'[1]
  OBVIOUS
<1>0. Inputs = {1} /\ g = 1 /\ 1 \in Workers
  BY OneWorker DEF Inputs, Windows
<1>1. /\ m \in Memory /\ m.held \in Seq(Item) /\ Len(m.held) \in Nat /\ 0 \in 0 .. Len(m.held)
      /\ gor \in [Workers -> Memory] /\ Sound(m)
  <2>1. m \in Memory /\ gor \in [Workers -> Memory] /\ Sound(m)
    BY <1>0, <1>m DEF Basic, TypeOK
  <2> QED BY <2>1 DEF Memory
<1>2. CASE Tick(g)
  <2>1. PICK k : k \in Expired(1) /\ gor' = [gor EXCEPT ![1] = OnTick(@, k)]
    BY <1>0, <1>2 DEF Tick
  <2>2. /\ w = OnTick(m, k) /\ m.pc = "loop" /\ m.todo = <<>> /\ m.clock = "due"
        /\ UNCHANGED <<kind, consumed, sent, cancelled, closedIn>>
    BY <1>0, <1>1, <1>2, <1>m, <2>1 DEF Tick, Selecting
  <2>3. kind = "sliding" => k \in 0 .. Len(m.held)
    BY <1>m, <2>1 DEF Expired
  <2>a. PICK a : a = [m EXCEPT !.clock = "armed"]
    OBVIOUS
  <2>b. PICK b : b = [m EXCEPT !.clock = "off"]
    OBVIOUS
  <2>4. /\ a \in Memory /\ a.pc = "loop" /\ a.held = m.held /\ a.todo = <<>>
        /\ b \in Memory /\ b.pc = "loop" /\ b.held = m.held /\ b.todo = <<>>
    BY <1>1, <2>2, <2>a, <2>b DEF Memory
  <2>5. CASE kind \in Buffering
    <3>1. w = Flush(b, "timeout") /\ kind # "sliding"
      BY <2>2, <2>5, <2>b, OnTickIs DEF Buffering
    <3>2. Offers(w, "timeout") /\ w.held = m.held /\ w.pc = "loop"
      BY <2>4, <2>5, <3>1, OffersIs DEF Reasons
    <3> QED BY <1>0, <1>1, <1>m, <2>2, <3>1, <3>2
  <2>6. CASE kind = "tumbling"
    <3>1. w = Window(a)
      BY <2>2, <2>6, <2>a, OnTickIs
    <3>2. Offers(w, "timeout") /\ w.held = m.held /\ w.pc = "loop"
      BY <2>4, <2>6, <3>1, OffersIs DEF Reasons
    <3> QED BY <1>0, <1>1, <1>m, <2>2, <2>6, <3>2
  <2>7. CASE kind = "sliding"
    <3>1. PICK u : u = Unexpired(a, k)
      OBVIOUS
    <3>2. w = Window(u)
      BY <2>2, <2>7, <2>a, <3>1, OnTickIs
    <3>3. /\ u \in Memory /\ u.todo = <<>> /\ u.pc = "loop"
          /\ u.held = SubSeq(m.held, k + 1, Len(m.held))
      BY <2>3, <2>4, <2>7, <3>1, UnexpiredIs
    <3>4. Offers(w, "timeout") /\ w.held = u.held /\ w.pc = "loop"
      BY <2>7, <3>2, <3>3, OffersIs DEF Reasons
    <3> QED BY <1>0, <1>m, <2>2, <2>3, <2>7, <3>3, <3>4
  <2>8. CASE kind = "debounce"
    <3>1. w = Sending(b, 1, b.held[1])
      BY <2>2, <2>8, <2>b, OnTickIs
    <3>2. b.held # <<>>
      BY <1>1, <2>2, <2>4, <2>8 DEF Sound
    <3>3. Offers(w, "timeout") /\ w.held = m.held /\ w.pc = "loop"
      BY <2>4, <2>8, <3>1, <3>2, OffersIs DEF Reasons
    <3> QED BY <1>0, <1>1, <1>m, <2>2, <2>8, <3>3
  <2> QED BY <2>5, <2>6, <2>7, <2>8 DEF Windows, Buffering
<1>3. ASSUME NEW i \in Inputs, InputEnds(g, i)
      PROVE  /\ m.pc = "loop" /\ m.todo = <<>> /\ w.pc = "return" /\ Offers(w, "close")
             /\ 1 \in closedIn
             /\ UNCHANGED <<kind, consumed, sent, cancelled, closedIn>>
             /\ kind # "sliding" => w.held = m.held
             /\ \E k \in 0 .. Len(m.held) : kind = "sliding" =>
                   w.held = SubSeq(m.held, k + 1, Len(m.held))
  <2>1. PICK k : k \in Expired(1) /\ gor' = [gor EXCEPT ![1] = OnEnd(@, k)]
    BY <1>0, <1>3 DEF InputEnds
  <2>2. /\ w = OnEnd(m, k) /\ m.pc = "loop" /\ m.todo = <<>> /\ 1 \in closedIn
        /\ UNCHANGED <<kind, consumed, sent, cancelled, closedIn>>
    BY <1>0, <1>1, <1>3, <1>m, <2>1 DEF InputEnds, Selecting
  <2>3. kind = "sliding" => k \in 0 .. Len(m.held)
    BY <1>m, <2>1 DEF Expired
  <2>a. PICK a : a = [m EXCEPT !.pc = "return"]
    OBVIOUS
  <2>4. a \in Memory /\ a.pc = "return" /\ a.held = m.held /\ a.todo = <<>>
    BY <1>1, <2>2, <2>a DEF Memory
  <2>5. CASE kind \in Buffering
    <3>1. w = Flush(a, "close") /\ kind # "sliding"
      BY <2>2, <2>5, <2>a, OnEndIs DEF Buffering
    <3>2. Offers(w, "close") /\ w.held = m.held /\ w.pc = "return"
      BY <2>4, <2>5, <3>1, OffersIs DEF Reasons
    <3> QED BY <1>1, <2>2, <3>1, <3>2
  <2>6. CASE kind = "tumbling"
    <3>1. w = Window(a)
      BY <2>2, <2>6, <2>a, OnEndIs
    <3>2. Offers(w, "close") /\ w.held = m.held /\ w.pc = "return"
      BY <2>4, <2>6, <3>1, OffersIs DEF Reasons
    <3> QED BY <1>1, <2>2, <2>6, <3>2
  <2>7. CASE kind = "sliding"
    <3>1. PICK u : u = Unexpired(a, k)
      OBVIOUS
    <3>2. w = Window(u)
      BY <2>2, <2>7, <2>a, <3>1, OnEndIs
    <3>3. /\ u \in Memory /\ u.todo = <<>> /\ u.pc = "return"
          /\ u.held = SubSeq(m.held, k + 1, Len(m.held))
      BY <2>3, <2>4, <2>7, <3>1, UnexpiredIs
    <3>4. Offers(w, "close") /\ w.held = u.held /\ w.pc = "return"
      BY <2>7, <3>2, <3>3, OffersIs DEF Reasons
    <3> QED BY <2>2, <2>3, <2>7, <3>3, <3>4
  <2>8. CASE kind = "debounce"
    <3>1. w = IF a.held = <<>> THEN a ELSE Sending(a, 1, a.held[1])
      BY <2>2, <2>8, <2>a, OnEndIs
    <3>2. Offers(w, "close") /\ w.held = m.held /\ w.pc = "return"
      <4>1. CASE a.held = <<>>
        BY <2>4, <3>1, <4>1 DEF Offers
      <4>2. CASE a.held # <<>>
        <5>1. w = Sending(a, 1, a.held[1])
          BY <3>1, <4>2
        <5> QED BY <2>4, <2>8, <4>2, <5>1, OffersIs DEF Reasons
      <4> QED BY <4>1, <4>2
    <3> QED BY <1>1, <2>2, <2>8, <3>2
  <2> QED BY <2>5, <2>6, <2>7, <2>8 DEF Windows, Buffering
<1>4. CASE OnCancelled(g) /\ kind \in Buffering
  <2>1. /\ gor' = [gor EXCEPT ![1] = OnCancel(@)] /\ cancelled /\ m.pc = "loop"
        /\ UNCHANGED <<kind, consumed, sent, cancelled, closedIn>>
    BY <1>0, <1>4, <1>m DEF OnCancelled
  <2>2. w = OnCancel(m)
    BY <1>0, <1>1, <1>m, <2>1
  <2>a. PICK a : a = [m EXCEPT !.pc = "return", !.todo = <<>>]
    OBVIOUS
  <2>3. a \in Memory /\ a.pc = "return" /\ a.held = m.held /\ a.todo = <<>>
    <3>1. <<>> \in Seq(Sends)
      OBVIOUS
    <3> QED BY <1>1, <2>a, <3>1 DEF Memory
  <2>4. w = Flush(a, "close") /\ kind # "sliding"
    BY <1>4, <2>2, <2>a DEF OnCancel, Buffering
  <2>5. Offers(w, "close") /\ w.held = m.held /\ w.pc = "return"
    BY <1>4, <2>3, <2>4, OffersIs DEF Reasons
  <2> QED BY <1>0, <1>1, <1>m, <2>1, <2>4, <2>5
<1> QED BY <1>0, <1>2, <1>3, <1>4, <1>m

\* A send.
LEMMA GivesIs ==
    ASSUME Basic, kind \in Windows, NEW g \in Workers, Send(g)
    PROVE  LET m == gor[1]
               w == gor'[1]
           IN /\ g = 1 /\ m.todo # <<>> /\ Len(m.todo) = 1 /\ m.todo[1].val \in Values
              /\ w.todo = <<>> /\ (w.pc = "loop" => m.pc = "loop")
              /\ UNCHANGED <<kind, consumed, cancelled, closedIn>>
              /\ sent[1] \in Seq(Values) /\ sent'[1] = Append(sent[1], m.todo[1].val)
              /\ w.held = IF kind = "sliding" THEN m.held ELSE <<>>
<1>m. PICK m, w, t : m = gor[1] /\ w = gor'[1] /\ t = m.todo[1]
  OBVIOUS
<1>0. Outputs = {1} /\ g = 1
  BY OneWorker DEF Outputs, Windows
<1>1. /\ m.todo # <<>> /\ t.out = 1 /\ t.val \in Values
      /\ sent' = [sent EXCEPT ![1] = Append(@, t.val)]
  BY <1>0, <1>m, SendIs
<1>2. sent \in [Outputs -> Seq(Values)]
  BY DEF Basic, TypeOK
<1>3. sent[1] \in Seq(Values) /\ sent'[1] = Append(sent[1], t.val)
  BY <1>0, <1>1, <1>2
<1>4. /\ Len(m.todo) = 1 /\ w.todo = <<>> /\ (w.pc = "loop" => m.pc = "loop")
      /\ w.held = IF kind = "sliding" THEN m.held ELSE <<>>
  <2>1. kind \notin {"tee", "broadcast"}
        /\ (kind = "sliding" => kind \notin Buffering \cup {"debounce", "tumbling"})
        /\ (kind # "sliding" => kind \in Buffering \cup {"debounce", "tumbling"})
    BY DEF Windows, Buffering
  <2> QED BY <1>0, <1>m, <2>1, SentIs
<1> QED BY <1>0, <1>1, <1>3, <1>4, <1>m DEF Send

\* The other steps leave what was received, sent and held as it is, and at most give up
\* a send for the context.
Flushing ==
    \/ Tick(1) \/ \E i \in Inputs : InputEnds(1, i)
    \/ OnCancelled(1) /\ kind \in Buffering
Stays ==
    /\ UNCHANGED <<kind, consumed, sent>> /\ gor'[1].held = gor[1].held
    /\ (cancelled => cancelled') /\ closedIn \subseteq closedIn'
    /\ gor'[1].pc = "loop" => gor[1].pc = "loop"
    /\ \/ gor'[1].todo = gor[1].todo /\ (gor[1].pc = "loop" => gor'[1].pc = "loop")
       \/ cancelled' /\ gor'[1].todo = <<>> /\ gor'[1].pc # "loop"

LEMMA WindowSteps ==
    ASSUME Basic, kind \in Windows, [Next]_vars
    PROVE  \/ \E i \in Inputs : Receive(1, i)
           \/ Flushing \/ Send(1) \/ Stays
<1>0. Workers = {1} /\ 1 \in Workers
  BY OneWorker, Channels DEF Windows
<1>1. ASSUME Around \/ UNCHANGED vars PROVE Stays
  BY <1>1, AroundKeeps DEF Stays
<1>2. ASSUME Step(1), GiveUp(1) \/ Return(1) \/ Fire(1) PROVE Stays
  <2>1. UNCHANGED <<kind, closedIn, cancelled>>
    BY <1>0, <1>2, StepKeeps
  <2>2. /\ UNCHANGED <<consumed, sent>> /\ gor'[1].held = gor[1].held
        /\ (gor'[1].pc = "loop") <=> (gor[1].pc = "loop")
        /\ \/ gor'[1].todo = gor[1].todo
           \/ cancelled /\ gor[1].pc # "loop" /\ gor'[1].todo = <<>>
    BY <1>0, <1>2, QuietIs
  <2> QED BY <2>1, <2>2 DEF Stays
<1>3. ASSUME Step(1), OnCancelled(1), kind \notin Buffering PROVE Stays
  <2>1. UNCHANGED <<kind, closedIn, cancelled>>
    BY <1>0, <1>3, StepKeeps
  <2>2. /\ UNCHANGED <<consumed, sent>> /\ cancelled /\ gor'[1].held = gor[1].held
        /\ gor'[1].pc = "return" /\ gor'[1].todo = <<>> /\ gor[1].pc = "loop"
    BY <1>0, <1>3, CancelledIs DEF OnCancelled
  <2> QED BY <2>1, <2>2 DEF Stays
<1>4. ASSUME Step(1)
      PROVE  (\E i \in Inputs : Receive(1, i)) \/ Flushing \/ Send(1) \/ Stays
  BY <1>2, <1>3, <1>4 DEF Step, Flushing
<1> QED BY <1>0, <1>1, <1>4, NextIs

\* What is sent is what is held, and what is held at the end is sent, or kept back by
\* the context.
HeldInv ==
    kind \in Windows =>
        /\ gor[1].todo # <<>> =>
              gor[1].held # <<>> /\ \E why \in Reasons : Offers(gor[1], why)
        /\ kind # "sliding" /\ gor[1].pc # "loop" /\ gor[1].held # <<>> =>
              cancelled \/ gor[1].todo # <<>>

LEMMA OffersSame ==
    ASSUME kind' = kind, NEW x, NEW y, x.held = y.held, x.todo = y.todo, NEW why
    PROVE  Offers(x, why)' <=> Offers(y, why)
BY DEF Offers, Bundle, BatchValue, Buffering

LEMMA InitHeld == Init => HeldInv
<1> SUFFICES ASSUME Init, kind \in Windows PROVE HeldInv
  BY DEF HeldInv
<1>1. gor[1].todo = <<>> /\ gor[1].held = <<>>
  BY Channels DEF Init
<1> QED BY <1>1 DEF HeldInv

LEMMA NextHeld == Basic /\ HeldInv /\ [Next]_vars => HeldInv'
<1> SUFFICES ASSUME Basic, HeldInv, [Next]_vars, kind \in Windows PROVE HeldInv'
  BY SettledNext DEF HeldInv
<1>m. PICK m, w : m = gor[1] /\ w = gor'[1]
  OBVIOUS
<1>0. kind' = kind /\ 1 \in Workers
  BY SettledNext, Channels
<1>1. /\ m.todo # <<>> => m.held # <<>> /\ \E why \in Reasons : Offers(m, why)
      /\ kind # "sliding" /\ m.pc # "loop" /\ m.held # <<>> => cancelled \/ m.todo # <<>>
  BY <1>m DEF HeldInv
<1> SUFFICES
      /\ w.todo # <<>> => w.held # <<>> /\ \E why \in Reasons : Offers(w, why)
      /\ kind # "sliding" /\ w.pc # "loop" /\ w.held # <<>> => cancelled' \/ w.todo # <<>>
  <2>1. \A why : Offers(gor[1], why)' <=> Offers(w, why)
    BY <1>0, <1>m, OffersSame DEF Offers, Bundle, BatchValue, Buffering
  <2> QED BY <1>0, <1>m, <2>1 DEF HeldInv, Reasons, Windows
<1>2. ASSUME NEW i \in Inputs, Receive(1, i)
      PROVE  /\ w.todo # <<>> => w.held # <<>> /\ \E why \in Reasons : Offers(w, why)
             /\ w.pc = "loop"
  <2>1. w.pc = "loop" /\ (w.todo = <<>> \/ Offers(w, "size"))
    BY <1>0, <1>2, <1>m, GathersIs
  <2>2. w.todo # <<>> => w.held # <<>>
    BY <2>1 DEF Offers
  <2> QED BY <2>1, <2>2 DEF Reasons
<1>3. CASE Flushing
  <2>1. \E why \in Reasons : Offers(w, why)
    BY <1>0, <1>3, <1>m, FlushesIs DEF Flushing, Reasons
  <2>2. (w.todo # <<>>) <=> (w.held # <<>>)
    BY <2>1 DEF Offers
  <2> QED BY <2>1, <2>2
<1>4. CASE Send(1)
  <2>1. w.todo = <<>> /\ (kind # "sliding" => w.held = <<>>)
    BY <1>0, <1>4, <1>m, GivesIs
  <2> QED BY <2>1
<1>5. CASE Stays
  <2>1. \A why : Offers(m, why) /\ w.held = m.held /\ w.todo = m.todo => Offers(w, why)
    BY DEF Offers, Bundle, BatchValue
  <2> QED BY <1>1, <1>5, <1>m, <2>1 DEF Stays
<1> QED BY <1>2, <1>3, <1>4, <1>5, WindowSteps

-----------------------------------------------------------------------------
(* Debounce *)

\* Debounce holds the last item or has sent it, and has sent earlier ones in order.
Debounces(held, c, s) ==
    /\ held # <<>> => c # <<>> /\ held = <<c[Len(c)]>>
    /\ \A k \in 1 .. Len(s) : \E n \in 1 .. Len(c) - Len(held) : s[k] = <<1, n>>
    /\ \A j, k \in 1 .. Len(s) : j < k => s[j][2] < s[k][2]
    /\ c # <<>> /\ held = <<>> => \E k \in 1 .. Len(s) : s[k] = c[Len(c)]

DebounceInv == kind = "debounce" => Debounces(gor[1].held, consumed[1], sent[1])

\* The types of a window's channels.
LEMMA WindowTypes ==
    ASSUME Basic, kind \in Windows
    PROVE  /\ Inputs = {1} /\ Outputs = {1} /\ Workers = {1}
           /\ consumed[1] \in Seq(Item) /\ Len(consumed[1]) \in Nat
           /\ sent[1] \in Seq(Values) /\ Len(sent[1]) \in Nat
           /\ gor[1] \in Memory /\ gor[1].held \in Seq(Item) /\ Len(gor[1].held) \in Nat
           /\ gor[1].todo \in Seq(Sends)
           /\ \A k \in 1 .. Len(consumed[1]) : consumed[1][k] = <<1, k>>
<1>1. Inputs = {1} /\ Outputs = {1} /\ Workers = {1}
  BY DEF Inputs, Outputs, Workers, Windows
<1>2. consumed[1] \in Seq(Item) /\ sent[1] \in Seq(Values) /\ gor[1] \in Memory
  BY <1>1 DEF Basic, TypeOK
<1>3. gor[1].held \in Seq(Item) /\ gor[1].todo \in Seq(Sends)
  BY <1>2 DEF Memory
<1>4. \A k \in 1 .. Len(consumed[1]) : consumed[1][k] = <<1, k>>
  BY <1>1 DEF Basic, Numbered
<1> QED BY <1>1, <1>2, <1>3, <1>4

LEMMA InitDebounce == Init => DebounceInv
<1> SUFFICES ASSUME Init, kind = "debounce" PROVE DebounceInv
  BY DEF DebounceInv
<1>1. gor[1].held = <<>> /\ consumed[1] = <<>> /\ sent[1] = <<>>
  BY Channels DEF Init
<1>2. Len(sent[1]) = 0
  BY <1>1
<1> QED BY <1>1, <1>2 DEF DebounceInv, Debounces

LEMMA NextDebounce == Basic /\ HeldInv /\ DebounceInv /\ [Next]_vars => DebounceInv'
<1> SUFFICES ASSUME Basic, HeldInv, DebounceInv, [Next]_vars, kind = "debounce"
             PROVE  DebounceInv'
  BY SettledNext DEF DebounceInv
<1>m. PICK m, w, c, s, d, z : m = gor[1] /\ w = gor'[1] /\ c = consumed[1] /\ s = sent[1]
                              /\ d = consumed'[1] /\ z = sent'[1]
  OBVIOUS
<1>0. kind' = kind /\ kind \in Windows /\ 1 \in Workers
  BY SettledNext, Channels DEF Windows
<1>1. /\ m.held # <<>> => c # <<>> /\ m.held = <<c[Len(c)]>>
      /\ \A k \in 1 .. Len(s) : \E n \in 1 .. Len(c) - Len(m.held) : s[k] = <<1, n>>
      /\ \A j, k \in 1 .. Len(s) : j < k => s[j][2] < s[k][2]
      /\ c # <<>> /\ m.held = <<>> => \E k \in 1 .. Len(s) : s[k] = c[Len(c)]
  BY <1>m DEF DebounceInv, Debounces
<1>2. /\ c \in Seq(Item) /\ s \in Seq(Values) /\ Len(c) \in Nat /\ Len(s) \in Nat
      /\ m.held \in Seq(Item) /\ Len(m.held) \in Nat /\ m.todo \in Seq(Sends)
      /\ \A k \in 1 .. Len(c) : c[k] = <<1, k>>
  BY <1>0, <1>m, WindowTypes
<1> SUFFICES
      /\ w.held # <<>> => d # <<>> /\ w.held = <<d[Len(d)]>>
      /\ \A k \in 1 .. Len(z) : \E n \in 1 .. Len(d) - Len(w.held) : z[k] = <<1, n>>
      /\ \A j, k \in 1 .. Len(z) : j < k => z[j][2] < z[k][2]
      /\ d # <<>> /\ w.held = <<>> => \E k \in 1 .. Len(z) : z[k] = d[Len(d)]
  <2>1. SUFFICES Debounces(w.held, d, z)
    BY <1>m DEF DebounceInv
  <2> QED BY DEF Debounces
<1>3. ASSUME NEW i \in Inputs, Receive(1, i)
      PROVE  /\ w.held # <<>> /\ d # <<>> /\ w.held = <<d[Len(d)]>> /\ z = s
             /\ \A k \in 1 .. Len(s) : \E n \in 1 .. Len(d) - Len(w.held) : s[k] = <<1, n>>
  <2>1. PICK v : v = <<1, Len(c) + 1>>
    OBVIOUS
  <2>2. v \in Item /\ d = Append(c, v) /\ w.held = <<v>> /\ z = s
    BY <1>0, <1>3, <1>m, <2>1, GathersIs
  <2>3. Len(d) = Len(c) + 1 /\ d[Len(d)] = v /\ Len(w.held) = 1
    BY <1>2, <2>2, AppendProperties
  <2>4. d # <<>>
    BY <1>2, <2>3
  <2>5. \A n \in 1 .. Len(c) - Len(m.held) : n \in 1 .. Len(d) - Len(w.held)
    BY <1>2, <2>3
  <2>6. w.held # <<>> /\ w.held = <<d[Len(d)]>>
    BY <2>2, <2>3
  <2>7. ASSUME NEW k \in 1 .. Len(s)
        PROVE  \E n \in 1 .. Len(d) - Len(w.held) : s[k] = <<1, n>>
    <3>1. PICK n \in 1 .. Len(c) - Len(m.held) : s[k] = <<1, n>>
      BY <1>1
    <3>2. n \in 1 .. Len(d) - Len(w.held)
      BY <2>5
    <3> QED BY <3>1, <3>2
  <2> QED BY <2>2, <2>4, <2>6, <2>7
<1>4. CASE Flushing
  <2>1. d = c /\ z = s /\ w.held = m.held
    BY <1>0, <1>4, <1>m, FlushesIs DEF Flushing
  <2> QED BY <1>1, <2>1
<1>5. CASE Stays
  <2>1. d = c /\ z = s /\ w.held = m.held
    BY <1>5, <1>m DEF Stays
  <2> QED BY <1>1, <2>1
<1>6. CASE Send(1)
  <2>1. PICK x : x = m.todo[1].val
    OBVIOUS
  <2>2. /\ m.todo # <<>> /\ x \in Values /\ d = c /\ z = Append(s, x) /\ w.held = <<>>
    BY <1>0, <1>6, <1>m, <2>1, GivesIs
  <2>3. PICK why : m.held # <<>> /\ Offers(m, why)
    BY <1>0, <1>m, <2>2 DEF HeldInv
  <2>4. m.todo = <<[out |-> 1, val |-> m.held[1]]>>
    BY <1>0, <2>3 DEF Offers, Bundle, Buffering
  <2>5. x = m.held[1]
    BY <2>1, <2>4
  <2>6. x = c[Len(c)] /\ c # <<>> /\ Len(m.held) = 1
    <3>1. PICK l : l = c[Len(c)]
      OBVIOUS
    <3>2. c # <<>> /\ m.held = <<l>>
      BY <1>1, <2>3, <3>1
    <3>3. m.held[1] = l /\ Len(m.held) = 1
      BY <3>2
    <3> QED BY <2>5, <3>1, <3>2, <3>3
  <2>7. Len(c) \in 1 .. Len(c)
    BY <1>2, <2>6, EmptySeq
  <2>8. x = <<1, Len(c)>>
    BY <1>2, <2>6, <2>7
  <2>9. Len(z) = Len(s) + 1 /\ z[Len(s) + 1] = x /\ \A k \in 1 .. Len(s) : z[k] = s[k]
    BY <1>2, <2>2, AppendProperties
  <2>10. Len(w.held) = 0 /\ Len(s) + 1 \in 1 .. Len(z)
    BY <1>2, <2>2, <2>9
  <2>11. \A k \in 1 .. Len(z) : k \in 1 .. Len(s) \/ k = Len(s) + 1
    BY <1>2, <2>9
  <2>12. ASSUME NEW k \in 1 .. Len(s)
         PROVE  \E n \in 1 .. Len(c) : z[k] = <<1, n>> /\ n < Len(c)
    <3>1. PICK n \in 1 .. Len(c) - Len(m.held) : s[k] = <<1, n>>
      BY <1>1
    <3>2. n \in 1 .. Len(c) /\ n < Len(c)
      BY <1>2, <2>6
    <3> QED BY <2>9, <3>1, <3>2
  <2>13. \A k \in 1 .. Len(z) : \E n \in 1 .. Len(d) - Len(w.held) : z[k] = <<1, n>>
    <3>1. 1 .. Len(d) - Len(w.held) = 1 .. Len(c)
      BY <1>2, <2>2, <2>10
    <3> QED BY <2>7, <2>8, <2>9, <2>11, <2>12, <3>1
  <2>14. ASSUME NEW j \in 1 .. Len(z), NEW k \in 1 .. Len(z), j < k
         PROVE  z[j][2] < z[k][2]
    <3>1. j \in 1 .. Len(s)
      BY <1>2, <2>9, <2>14
    <3>2. CASE k \in 1 .. Len(s)
      BY <1>1, <2>9, <2>14, <3>1, <3>2
    <3>3. CASE k = Len(s) + 1
      <4>1. PICK n \in 1 .. Len(c) : z[j] = <<1, n>> /\ n < Len(c)
        BY <2>12, <3>1
      <4>2. z[k] = <<1, Len(c)>>
        BY <2>8, <2>9, <3>3
      <4> QED BY <4>1, <4>2
    <3> QED BY <2>11, <3>2, <3>3
  <2>15. z[Len(s) + 1] = d[Len(d)]
    BY <2>2, <2>6, <2>9
  <2> QED BY <2>2, <2>10, <2>13, <2>14, <2>15
<1> QED BY <1>0, <1>1, <1>3, <1>4, <1>5, <1>6, WindowSteps

LEMMA DebounceInvDelivers ==
    Basic /\ HeldInv /\ DebounceInv /\ kind = "debounce" => DebounceDelivers
<1> SUFFICES ASSUME Basic, HeldInv, DebounceInv, kind = "debounce" PROVE DebounceDelivers
  OBVIOUS
<1>m. PICK m, c, s : m = gor[1] /\ c = consumed[1] /\ s = sent[1]
  OBVIOUS
<1>0. kind \in Windows /\ 1 \in Workers
  BY Channels DEF Windows
<1>1. /\ m.held # <<>> => c # <<>> /\ m.held = <<c[Len(c)]>>
      /\ \A k \in 1 .. Len(s) : \E n \in 1 .. Len(c) - Len(m.held) : s[k] = <<1, n>>
      /\ \A j, k \in 1 .. Len(s) : j < k => s[j][2] < s[k][2]
      /\ c # <<>> /\ m.held = <<>> => \E k \in 1 .. Len(s) : s[k] = c[Len(c)]
  BY <1>m DEF DebounceInv, Debounces
<1>2. /\ c \in Seq(Item) /\ s \in Seq(Values) /\ Len(c) \in Nat /\ Len(s) \in Nat
      /\ Len(m.held) \in Nat /\ \A k \in 1 .. Len(c) : c[k] = <<1, k>>
  BY <1>0, <1>m, WindowTypes
<1>3. ToSet(s) = {s[k] : k \in 1 .. Len(s)} /\ ToSet(c) = {c[k] : k \in 1 .. Len(c)}
      /\ DOMAIN s = 1 .. Len(s)
  BY <1>2, LenProperties DEF ToSet
<1>4. ToSet(s) \subseteq ToSet(c)
  <2>1. ASSUME NEW k \in 1 .. Len(s) PROVE \E n \in 1 .. Len(c) : s[k] = c[n]
    <3>1. PICK n \in 1 .. Len(c) - Len(m.held) : s[k] = <<1, n>>
      BY <1>1
    <3>2. n \in 1 .. Len(c)
      BY <1>2
    <3> QED BY <1>2, <3>1, <3>2
  <2> QED BY <1>3, <2>1
<1>5. ASSUME ~cancelled, c # <<>>
      PROVE  Last(c) \in ToSet(s) \cup (IF m.pc = "gone" THEN {} ELSE ToSet(m.held))
  <2>1. Last(c) = c[Len(c)]
    BY DEF Last
  <2>2. CASE m.held = <<>>
    BY <1>1, <1>3, <1>5, <2>1, <2>2
  <2>3. CASE m.held # <<>>
    <3>1. m.pc # "gone"
      <4>1. m.pc = "gone" => m.todo = <<>>
        BY <1>0, <1>m DEF Basic, Sound
      <4>2. kind # "sliding" /\ m.pc # "loop" /\ m.held # <<>> => cancelled \/ m.todo # <<>>
        BY <1>0, <1>m DEF HeldInv
      <4> QED BY <1>5, <2>3, <4>1, <4>2
    <3>2. m.held = <<Last(c)>>
      BY <1>1, <2>1, <2>3
    <3>3. Last(c) \in ToSet(m.held)
      <4>1. PICK l : l = Last(c)
        OBVIOUS
      <4>2. 1 \in DOMAIN <<l>> /\ <<l>>[1] = l
        OBVIOUS
      <4> QED BY <3>2, <4>1, <4>2 DEF ToSet
    <3> QED BY <3>1, <3>3
  <2> QED BY <2>2, <2>3
<1>6. \A j, k \in DOMAIN s : j < k => s[j][2] < s[k][2]
  BY <1>1, <1>3
<1> QED BY <1>4, <1>5, <1>6, <1>m DEF DebounceDelivers

-----------------------------------------------------------------------------
(* Buffer, BufferWithReason and Tumbling *)

LEMMA SubSeqKeeps ==
    ASSUME NEW S, NEW s \in Seq(S), NEW x \in S, NEW a \in Nat \ {0}, NEW b \in 0 .. Len(s)
    PROVE  SubSeq(Append(s, x), a, b) = SubSeq(s, a, b)
<1> DEFINE z == Append(s, x)
<1>1. /\ z \in Seq(S) /\ Len(z) = Len(s) + 1 /\ Len(s) \in Nat
      /\ \A k \in 1 .. Len(s) : z[k] = s[k]
  BY AppendProperties
<1> HIDE DEF z
<1>2. /\ b \in Nat /\ \A k \in a .. b : k \in 1 .. Len(s) /\ k \in 1 .. Len(z)
  BY <1>1
<1>3. /\ \A k \in a .. b : s[k] \in S /\ z[k] \in S
  BY <1>1, <1>2, ElementOfSeq
<1>4. /\ SubSeq(z, a, b) \in Seq(S) /\ SubSeq(s, a, b) \in Seq(S)
      /\ Len(SubSeq(z, a, b)) = (IF a <= b THEN b - a + 1 ELSE 0)
      /\ Len(SubSeq(s, a, b)) = (IF a <= b THEN b - a + 1 ELSE 0)
      /\ \A k \in 1 .. b - a + 1 : SubSeq(z, a, b)[k] = z[a + k - 1]
      /\ \A k \in 1 .. b - a + 1 : SubSeq(s, a, b)[k] = s[a + k - 1]
  BY <1>1, <1>2, <1>3, SubSeqProperties
<1>5. \A k \in 1 .. b - a + 1 : a + k - 1 \in 1 .. Len(s)
  BY <1>1, <1>2
<1>6. \A k \in 1 .. Len(SubSeq(z, a, b)) : SubSeq(z, a, b)[k] = SubSeq(s, a, b)[k]
  <2>1. \A k \in 1 .. Len(SubSeq(z, a, b)) : k \in 1 .. b - a + 1
    BY <1>2, <1>4
  <2> QED BY <1>1, <1>4, <1>5, <2>1
<1>7. SubSeq(z, a, b) = SubSeq(s, a, b)
  BY <1>4, <1>6, SeqEqual
<1> QED BY <1>7 DEF z

LEMMA SubSeqMore ==
    ASSUME NEW S, NEW s \in Seq(S), NEW x \in S, NEW a \in 1 .. Len(s) + 1
    PROVE  SubSeq(Append(s, x), a, Len(s) + 1) = Append(SubSeq(s, a, Len(s)), x)
<1> DEFINE z == Append(s, x)
           n == Len(s)
<1>1. /\ z \in Seq(S) /\ Len(z) = n + 1 /\ n \in Nat /\ z[n + 1] = x
      /\ \A k \in 1 .. n : z[k] = s[k]
  BY AppendProperties
<1>2. /\ \A k \in a .. n : s[k] \in S
      /\ \A k \in a .. n + 1 : z[k] \in S
  <2>1. \A k \in 1 .. n : s[k] \in S
    BY <1>1, ElementOfSeq
  <2>2. \A k \in 1 .. n + 1 : z[k] \in S
    BY <1>1, ElementOfSeq
  <2> QED BY <1>1, <2>1, <2>2
<1> HIDE DEF z, n
<1> DEFINE p == SubSeq(s, a, n)
           q == SubSeq(z, a, n + 1)
           l == n + 1 - a
<1>a. a \in Nat /\ a <= n + 1 /\ a >= 1 /\ l \in Nat
  BY <1>1 DEF n
<1>3. /\ p \in Seq(S) /\ Len(p) = l /\ \A k \in 1 .. l : p[k] = s[a + k - 1]
  BY <1>1, <1>2, <1>a, SubSeqProperties DEF n
<1>4. /\ q \in Seq(S) /\ Len(q) = l + 1 /\ \A k \in 1 .. l + 1 : q[k] = z[a + k - 1]
  BY <1>1, <1>2, <1>a, SubSeqProperties DEF n
<1> HIDE DEF p, q
<1>5. /\ Append(p, x) \in Seq(S) /\ Len(Append(p, x)) = l + 1 /\ Append(p, x)[l + 1] = x
      /\ \A k \in 1 .. l : Append(p, x)[k] = p[k]
  BY <1>3, AppendProperties
<1>6. ASSUME NEW k \in 1 .. l + 1 PROVE q[k] = Append(p, x)[k]
  <2>1. CASE k = l + 1
    <3>1. a + k - 1 = n + 1
      BY <1>1, <1>a, <2>1
    <3> QED BY <1>1, <1>4, <1>5, <2>1, <3>1
  <2>2. CASE k \in 1 .. l
    <3>1. a + k - 1 \in 1 .. n
      BY <1>1, <1>a, <2>2
    <3> QED BY <1>1, <1>3, <1>4, <1>5, <2>2, <3>1
  <2> HIDE DEF l
  <2>3. k = l + 1 \/ k \in 1 .. l
    BY <1>a
  <2> QED BY <2>1, <2>2, <2>3
<1>7. q = Append(p, x)
  BY <1>4, <1>5, <1>6, SeqEqual
<1> QED BY <1>7 DEF p, q, z, n

\* The end of a run of items.
LEMMA RunIs ==
    ASSUME Basic, kind \in Windows, NEW a \in Nat \ {0}, NEW b \in 0 .. Len(consumed[1])
    PROVE  LET r == SubSeq(consumed[1], a, b)
           IN /\ r \in Seq(Item) /\ Len(r) \in Nat
              /\ r = <<>> <=> b < a
              /\ Len(r) = IF a <= b THEN b - a + 1 ELSE 0
              /\ a <= b => r[1] = <<1, a>> /\ r[Len(r)] = <<1, b>> /\ Last(r) = <<1, b>>
<1>m. PICK c, r : c = consumed[1] /\ r = SubSeq(c, a, b)
  OBVIOUS
<1>1. /\ c \in Seq(Item) /\ Len(c) \in Nat /\ b \in 0 .. Len(c)
      /\ \A k \in 1 .. Len(c) : c[k] = <<1, k>>
  BY <1>m, WindowTypes
<1>2. \A k \in a .. b : k \in 1 .. Len(c) /\ c[k] \in Item
  <2>1. \A k \in a .. b : k \in 1 .. Len(c)
    BY <1>1
  <2> QED BY <1>1, <2>1, ElementOfSeq
<1>3. /\ r \in Seq(Item) /\ Len(r) = (IF a <= b THEN b - a + 1 ELSE 0)
      /\ \A k \in 1 .. b - a + 1 : r[k] = c[a + k - 1]
  BY <1>1, <1>2, <1>m, SubSeqProperties
<1>4. Len(r) \in Nat /\ (r = <<>> <=> Len(r) = 0)
  BY <1>3, EmptySeq
<1>5. r = <<>> <=> b < a
  BY <1>1, <1>3, <1>4
<1>6. ASSUME a <= b PROVE r[1] = <<1, a>> /\ r[Len(r)] = <<1, b>> /\ Last(r) = <<1, b>>
  <2>1. 1 \in 1 .. b - a + 1 /\ b - a + 1 \in 1 .. b - a + 1
    BY <1>1, <1>6
  <2>2. r[1] = c[a + 1 - 1] /\ r[b - a + 1] = c[a + (b - a + 1) - 1]
    BY <1>3, <2>1
  <2>3. a + 1 - 1 = a /\ a + (b - a + 1) - 1 = b /\ a \in 1 .. Len(c) /\ b \in 1 .. Len(c)
    BY <1>1, <1>6
  <2>4. r[1] = <<1, a>> /\ r[b - a + 1] = <<1, b>>
    BY <1>1, <2>2, <2>3
  <2> QED BY <1>3, <1>6, <2>4 DEF Last
<1> QED BY <1>3, <1>4, <1>5, <1>6, <1>m

Gathering == Buffering \cup {"tumbling"}

\* The batch x, and the number of the last item in the first k of s.
Items(x)   == IF kind = "bufferWithReason" THEN x.items ELSE x
Upto(s, k) == IF k = 0 THEN 0 ELSE Last(Items(s[k]))[2]

\* The batches s and what is held follow one another in c.
Runs(s, c, held) ==
    /\ \A k \in 1 .. Len(s) :
          /\ Upto(s, k) \in 1 .. Len(c) /\ Upto(s, k - 1) < Upto(s, k)
          /\ Items(s[k]) = SubSeq(c, Upto(s, k - 1) + 1, Upto(s, k))
    /\ held = SubSeq(c, Upto(s, Len(s)) + 1, Len(c))

BatchesInv == kind \in Gathering => Runs(sent[1], consumed[1], gor[1].held)

LEMMA RunsEnd ==
    ASSUME NEW s, NEW c \in Seq(Item), NEW held, Len(s) \in Nat, Runs(s, c, held)
    PROVE  \A k \in 0 .. Len(s) : Upto(s, k) \in 0 .. Len(c)
<1>1. Upto(s, 0) = 0 /\ 0 \in 0 .. Len(c)
  BY DEF Upto
<1>2. ASSUME NEW k \in 1 .. Len(s) PROVE Upto(s, k) \in 0 .. Len(c)
  <2>1. Upto(s, k) \in 1 .. Len(c)
    BY DEF Runs
  <2> QED BY <2>1
<1>3. \A k \in 0 .. Len(s) : k = 0 \/ k \in 1 .. Len(s)
  OBVIOUS
<1> QED BY <1>1, <1>2, <1>3

LEMMA RunsReceive ==
    ASSUME NEW s, NEW c \in Seq(Item), NEW held, Len(s) \in Nat, Runs(s, c, held), NEW v \in Item
    PROVE  Runs(s, Append(c, v), Append(held, v))
<1>0. \A k \in 0 .. Len(s) : Upto(s, k) \in 0 .. Len(c)
  BY RunsEnd
<1>1. Len(c) \in Nat /\ Len(Append(c, v)) = Len(c) + 1
  BY AppendProperties
<1>2. ASSUME NEW k \in 1 .. Len(s)
      PROVE  /\ Upto(s, k) \in 1 .. Len(c) + 1 /\ Upto(s, k - 1) < Upto(s, k)
             /\ Items(s[k]) = SubSeq(Append(c, v), Upto(s, k - 1) + 1, Upto(s, k))
  <2>1. /\ Upto(s, k) \in 1 .. Len(c) /\ Upto(s, k - 1) < Upto(s, k)
        /\ Items(s[k]) = SubSeq(c, Upto(s, k - 1) + 1, Upto(s, k))
    BY DEF Runs
  <2>2. k - 1 \in 0 .. Len(s)
    OBVIOUS
  <2>3. PICK a, b : a = Upto(s, k - 1) + 1 /\ b = Upto(s, k)
    OBVIOUS
  <2>4. a \in Nat \ {0} /\ b \in 0 .. Len(c)
    <3>1. PICK f : f = Upto(s, k - 1)
      OBVIOUS
    <3>2. f \in 0 .. Len(c)
      BY <1>0, <2>2, <3>1
    <3>3. a = f + 1
      BY <2>3, <3>1
    <3>4. b \in 0 .. Len(c)
      BY <1>1, <2>1, <2>3
    <3> QED BY <1>1, <3>2, <3>3, <3>4
  <2>5. SubSeq(Append(c, v), a, b) = SubSeq(c, a, b)
    BY <2>4, SubSeqKeeps
  <2>6. Upto(s, k) \in 1 .. Len(c) + 1
    BY <1>1, <2>1
  <2> QED BY <2>1, <2>3, <2>5, <2>6
<1>3. Append(held, v) = SubSeq(Append(c, v), Upto(s, Len(s)) + 1, Len(c) + 1)
  <2>1. PICK a : a = Upto(s, Len(s)) + 1
    OBVIOUS
  <2>2. Upto(s, Len(s)) \in 0 .. Len(c)
    BY <1>0
  <2>3. a \in 1 .. Len(c) + 1
    BY <1>1, <2>1, <2>2
  <2>4. held = SubSeq(c, a, Len(c))
    BY <2>1 DEF Runs
  <2>5. SubSeq(Append(c, v), a, Len(c) + 1) = Append(SubSeq(c, a, Len(c)), v)
    BY <2>3, SubSeqMore
  <2> QED BY <2>1, <2>4, <2>5
<1> QED BY <1>1, <1>2, <1>3 DEF Runs

LEMMA RunsSend ==
    ASSUME Basic, kind \in Gathering, NEW s \in Seq(Values), NEW c, c = consumed[1],
           NEW held, Runs(s, c, held), held # <<>>, NEW x \in Values, Items(x) = held
    PROVE  Runs(Append(s, x), c, <<>>)
<1>m. PICK z, n, e : z = Append(s, x) /\ n = Len(s) /\ e = Upto(s, Len(s))
  OBVIOUS
<1>0. kind \in Windows /\ c \in Seq(Item) /\ Len(c) \in Nat /\ n \in Nat
  <2>1. kind \in Windows
    BY DEF Gathering, Buffering, Windows
  <2> QED BY <1>m, <2>1, WindowTypes
<1>1. e \in 0 .. Len(c) /\ held = SubSeq(c, e + 1, Len(c))
  <2>1. n \in 0 .. n
    BY <1>0
  <2> QED BY <1>0, <1>m, <2>1, RunsEnd DEF Runs
<1>2. Len(z) = n + 1 /\ z[n + 1] = x /\ \A k \in 1 .. n : z[k] = s[k]
  BY <1>m, AppendProperties
<1>3. e < Len(c) /\ Last(held) = <<1, Len(c)>>
  <2>1. PICK a : a = e + 1
    OBVIOUS
  <2>2. a \in Nat \ {0} /\ Len(c) \in 0 .. Len(consumed[1])
    BY <1>0, <1>1, <2>1
  <2>3. PICK b : b = Len(c)
    OBVIOUS
  <2>4. b \in 0 .. Len(consumed[1]) /\ held = SubSeq(consumed[1], a, b)
    BY <1>1, <2>1, <2>2, <2>3
  <2>5. (held = <<>> <=> b < a) /\ (a <= b => Last(held) = <<1, b>>)
    BY <1>0, <2>2, <2>4, RunIs
  <2>6. ~(b < a) /\ b \in Nat /\ a \in Nat
    BY <1>0, <2>2, <2>3, <2>5
  <2> QED BY <1>1, <2>1, <2>3, <2>5, <2>6
<1>4. \A k \in 0 .. n : Upto(z, k) = Upto(s, k)
  <2>1. \A k \in 0 .. n : k = 0 \/ k \in 1 .. n
    BY <1>0
  <2> QED BY <1>2, <2>1 DEF Upto
<1>5. Upto(z, n + 1) = Len(c)
  BY <1>0, <1>2, <1>3 DEF Upto
<1>6. ASSUME NEW k \in 1 .. Len(z)
      PROVE  /\ Upto(z, k) \in 1 .. Len(c) /\ Upto(z, k - 1) < Upto(z, k)
             /\ Items(z[k]) = SubSeq(c, Upto(z, k - 1) + 1, Upto(z, k))
  <2>1. CASE k \in 1 .. n
    <3>1. k \in 0 .. n /\ k - 1 \in 0 .. n /\ k \in 1 .. Len(s)
      BY <1>0, <1>m, <2>1
    <3>2. /\ Upto(s, k) \in 1 .. Len(c) /\ Upto(s, k - 1) < Upto(s, k)
          /\ Items(s[k]) = SubSeq(c, Upto(s, k - 1) + 1, Upto(s, k))
      BY <3>1 DEF Runs
    <3> QED BY <1>2, <1>4, <2>1, <3>1, <3>2
  <2>2. CASE k = n + 1
    <3>1. n \in 0 .. n /\ k - 1 = n
      BY <1>0, <2>2
    <3>2. Upto(z, k - 1) = e /\ Upto(z, k) = Len(c) /\ z[k] = x
      BY <1>2, <1>4, <1>5, <1>m, <2>2, <3>1
    <3>3. Len(c) \in 1 .. Len(c)
      BY <1>0, <1>1, <1>3
    <3> QED BY <1>1, <1>3, <3>2, <3>3
  <2>3. k \in 1 .. n \/ k = n + 1
    BY <1>0, <1>2
  <2> QED BY <2>1, <2>2, <2>3
<1>7. <<>> = SubSeq(c, Len(c) + 1, Len(c))
  <2>1. PICK b \in Nat : b = Len(c)
    BY <1>0
  <2>2. b + 1 \in Int /\ b \in Int /\ b < b + 1
    OBVIOUS
  <2>3. SubSeq(c, b + 1, b) = <<>>
    BY <2>2, SubSeqEmpty
  <2> QED BY <2>1, <2>3
<1>8. Upto(z, Len(z)) = Len(c)
  BY <1>2, <1>5
<1>9. Runs(z, c, <<>>)
  BY <1>6, <1>7, <1>8 DEF Runs
<1> QED BY <1>9, <1>m

LEMMA InitBatches == Init => BatchesInv
<1> SUFFICES ASSUME Init, kind \in Gathering PROVE BatchesInv
  BY DEF BatchesInv
<1>1. gor[1].held = <<>> /\ consumed[1] = <<>> /\ sent[1] = <<>>
  BY Channels DEF Init
<1>2. Len(<<>>) = 0 /\ Upto(<<>>, 0) = 0 /\ SubSeq(<<>>, 0 + 1, 0) = <<>>
  <2>1. SubSeq(<<>>, 0 + 1, 0) = <<>>
    BY SubSeqEmpty
  <2> QED BY <2>1 DEF Upto
<1>3. Runs(<<>>, <<>>, <<>>)
  BY <1>2 DEF Runs
<1> QED BY <1>1, <1>3 DEF BatchesInv

LEMMA RunsSame ==
    ASSUME kind' = kind, NEW s, NEW c, NEW held PROVE Runs(s, c, held)' <=> Runs(s, c, held)
BY DEF Runs, Upto, Items

\* The items of a batch that is offered.
LEMMA BundleItems ==
    ASSUME kind \in Gathering, NEW m, NEW why, m.held # <<>>, Offers(m, why)
    PROVE  Items(m.todo[1].val) = m.held
<1>1. PICK h : h = m.held
  OBVIOUS
<1>2. m.todo[1].val = Bundle(m, why)
  <2>1. PICK x : x = Bundle(m, why)
    OBVIOUS
  <2>2. m.todo = <<[out |-> 1, val |-> x]>>
    BY <2>1 DEF Offers
  <2> QED BY <2>1, <2>2
<1>3. Bundle(m, why) = IF kind = "bufferWithReason" THEN [items |-> h, reason |-> why] ELSE h
  BY <1>1 DEF Bundle, BatchValue, Gathering, Buffering
<1> QED BY <1>1, <1>2, <1>3 DEF Items

LEMMA NextBatches == Basic /\ HeldInv /\ BatchesInv /\ [Next]_vars => BatchesInv'
<1> SUFFICES ASSUME Basic, HeldInv, BatchesInv, [Next]_vars, kind \in Gathering
             PROVE  BatchesInv'
  BY SettledNext DEF BatchesInv
<1>m. PICK m, w, c, s, d, z : m = gor[1] /\ w = gor'[1] /\ c = consumed[1] /\ s = sent[1]
                              /\ d = consumed'[1] /\ z = sent'[1]
  OBVIOUS
<1>0. kind' = kind /\ kind \in Windows /\ 1 \in Workers /\ kind # "sliding" /\ kind # "debounce"
  BY SettledNext, Channels DEF Windows, Gathering, Buffering
<1>1. /\ Runs(s, c, m.held)
      /\ c \in Seq(Item) /\ s \in Seq(Values) /\ Len(s) \in Nat
  BY <1>0, <1>m, WindowTypes DEF BatchesInv
<1> SUFFICES Runs(z, d, w.held)
  <2>1. PICK h : h = w.held
    OBVIOUS
  <2>2. Runs(z, d, h)'
    BY <1>0, <2>1, RunsSame
  <2> QED BY <1>0, <1>m, <2>1, <2>2 DEF BatchesInv
<1>2. ASSUME NEW i \in Inputs, Receive(1, i) PROVE Runs(z, d, w.held)
  <2>1. PICK v : v = <<1, Len(c) + 1>>
    OBVIOUS
  <2>2. v \in Item /\ d = Append(c, v) /\ w.held = Append(m.held, v) /\ z = s
    BY <1>0, <1>2, <1>m, <2>1, GathersIs
  <2>3. PICK h : h = m.held
    OBVIOUS
  <2>4. Runs(s, Append(c, v), Append(h, v))
    BY <1>1, <2>2, <2>3, RunsReceive
  <2> QED BY <2>2, <2>3, <2>4
<1>3. CASE Flushing
  <2>1. d = c /\ z = s /\ w.held = m.held
    BY <1>0, <1>3, <1>m, FlushesIs DEF Flushing
  <2> QED BY <1>1, <2>1
<1>4. CASE Stays
  <2>1. d = c /\ z = s /\ w.held = m.held
    BY <1>4, <1>m DEF Stays
  <2> QED BY <1>1, <2>1
<1>5. CASE Send(1)
  <2>1. PICK x, h : x = m.todo[1].val /\ h = m.held
    OBVIOUS
  <2>2. m.todo # <<>> /\ x \in Values /\ d = c /\ z = Append(s, x) /\ w.held = <<>>
    BY <1>0, <1>5, <1>m, <2>1, GivesIs
  <2>3. PICK why : m.held # <<>> /\ Offers(m, why)
    BY <1>0, <1>m, <2>2 DEF HeldInv
  <2>4. Items(x) = h /\ h # <<>>
    BY <2>1, <2>3, BundleItems
  <2>5. Runs(Append(s, x), c, <<>>)
    BY <1>1, <1>m, <2>1, <2>2, <2>4, RunsSend
  <2> QED BY <2>2, <2>5
<1> QED BY <1>0, <1>2, <1>3, <1>4, <1>5, WindowSteps

LEMMA BatchesInvDeliver ==
    Basic /\ HeldInv /\ BatchesInv /\ kind \in Gathering => BatchesDeliver
<1> SUFFICES ASSUME Basic, HeldInv, BatchesInv, kind \in Gathering PROVE BatchesDeliver
  OBVIOUS
<1>m. PICK m, c, s : m = gor[1] /\ c = consumed[1] /\ s = sent[1]
  OBVIOUS
<1>0. kind \in Windows /\ 1 \in Workers /\ kind # "sliding"
  BY Channels DEF Windows, Gathering, Buffering
<1>1. /\ Runs(s, c, m.held)
      /\ c \in Seq(Item) /\ s \in Seq(Values) /\ Len(s) \in Nat /\ DOMAIN s = 1 .. Len(s)
  BY <1>0, <1>m, WindowTypes, LenProperties DEF BatchesInv
<1>2. \A k : Batch(k) = Items(s[k]) /\ End(k) = Upto(s, k)
  BY <1>m DEF Batch, End, Items, Upto
<1>3. ASSUME NEW k \in 1 .. Len(s)
      PROVE  Items(s[k]) # <<>> /\ Items(s[k]) = SubSeq(c, Upto(s, k - 1) + 1, Upto(s, k))
  <2>1. /\ Upto(s, k) \in 1 .. Len(c) /\ Upto(s, k - 1) < Upto(s, k)
        /\ Items(s[k]) = SubSeq(c, Upto(s, k - 1) + 1, Upto(s, k))
    BY <1>1 DEF Runs
  <2>2. k - 1 \in 0 .. Len(s)
    BY <1>1
  <2>3. Upto(s, k - 1) \in 0 .. Len(c)
    BY <1>1, <2>2, RunsEnd
  <2>4. PICK a, b : a = Upto(s, k - 1) + 1 /\ b = Upto(s, k)
    OBVIOUS
  <2>5. a \in Nat \ {0} /\ b \in 0 .. Len(consumed[1]) /\ ~(b < a)
    BY <1>m, <1>1, <2>1, <2>3, <2>4
  <2>6. SubSeq(consumed[1], a, b) # <<>>
    BY <1>0, <2>5, RunIs
  <2> QED BY <1>m, <2>1, <2>4, <2>6
<1>4. ASSUME ~cancelled, m.pc = "gone" PROVE m.held = <<>>
  <2>1. m.todo = <<>>
    BY <1>0, <1>4, <1>m DEF Basic, Sound
  <2>2. kind # "sliding" /\ m.pc # "loop" /\ m.held # <<>> => cancelled \/ m.todo # <<>>
    BY <1>0, <1>m DEF HeldInv
  <2> QED BY <1>0, <1>4, <2>1, <2>2
<1>5. m.held = SubSeq(c, Upto(s, Len(s)) + 1, Len(c))
  BY <1>1 DEF Runs
<1> QED BY <1>1, <1>2, <1>3, <1>4, <1>5, <1>m DEF BatchesDeliver

-----------------------------------------------------------------------------
(* The sizes and the reasons of the batches *)

\* The reason of batch b is true, and after "close" the loop is over.
Honest(b) ==
    /\ b.reason = "size" => Len(b.items) = N
    /\ b.reason = "timeout" => Len(b.items) < N
    /\ b.reason = "close" => gor[1].pc # "loop" /\ (cancelled \/ 1 \in closedIn)

ReasonsInv ==
    /\ kind \in Buffering =>
          /\ Len(gor[1].held) <= N
          /\ gor[1].pc = "loop" /\ gor[1].todo = <<>> => Len(gor[1].held) < N
          /\ \A k \in 1 .. Len(sent[1]) : Len(Items(sent[1][k])) <= N
    /\ kind = "bufferWithReason" =>
          /\ gor[1].todo # <<>> => Honest(gor[1].todo[1].val)
          /\ \A k \in 1 .. Len(sent[1]) :
                /\ Honest(sent[1][k])
                /\ sent[1][k].reason = "close" => k = Len(sent[1]) /\ gor[1].todo = <<>>

LEMMA HonestKept ==
    ASSUME NEW b, Honest(b), gor'[1].pc = "loop" => gor[1].pc = "loop",
           cancelled => cancelled', closedIn \subseteq closedIn'
    PROVE  Honest(b)'
BY DEF Honest

LEMMA InitReasons == Basic /\ Init => ReasonsInv
<1> SUFFICES ASSUME Basic, Init, kind \in Buffering PROVE ReasonsInv
  BY DEF ReasonsInv, Buffering
<1>1. gor[1].todo = <<>> /\ gor[1].held = <<>> /\ sent[1] = <<>>
  BY Channels DEF Init
<1>2. Len(gor[1].held) = 0 /\ Len(sent[1]) = 0
  BY <1>1
<1>3. N \in Nat /\ N # 0
  BY StageAssumption DEF Basic, TypeOK, Buffering, Positive
<1> QED BY <1>1, <1>2, <1>3 DEF ReasonsInv

\* The batch that is offered, its reason and its items.
LEMMA OfferedBatch ==
    ASSUME kind = "bufferWithReason", NEW m, NEW why, Offers(m, why), m.todo # <<>>
    PROVE  m.todo[1].val.reason = why /\ m.todo[1].val.items = m.held
<1>1. PICK h, x : h = m.held /\ x = [items |-> h, reason |-> why]
  OBVIOUS
<1>2. Bundle(m, why) = x
  BY <1>1 DEF Bundle, BatchValue, Buffering
<1>3. m.todo = <<[out |-> 1, val |-> x]>>
  BY <1>2 DEF Offers
<1>4. m.todo[1].val = x
  BY <1>3
<1> QED BY <1>1, <1>4

LEMMA NextReasons == Basic /\ HeldInv /\ ReasonsInv /\ [Next]_vars => ReasonsInv'
<1> SUFFICES ASSUME Basic, HeldInv, ReasonsInv, [Next]_vars, kind \in Buffering
             PROVE  ReasonsInv'
  BY SettledNext DEF ReasonsInv, Buffering
<1>m. PICK m, w, s, z : m = gor[1] /\ w = gor'[1] /\ s = sent[1] /\ z = sent'[1]
  OBVIOUS
<1>0. /\ kind' = kind /\ kind \in Windows /\ 1 \in Workers /\ N \in Nat /\ N # 0
      /\ kind # "sliding" /\ kind # "debounce" /\ kind \in Gathering
  BY SettledNext, Channels, StageAssumption
     DEF Windows, Buffering, Basic, TypeOK, Positive, Gathering
<1>1. /\ Len(m.held) <= N
      /\ m.pc = "loop" /\ m.todo = <<>> => Len(m.held) < N
      /\ \A k \in 1 .. Len(s) : Len(Items(s[k])) <= N
      /\ m.held \in Seq(Item) /\ Len(m.held) \in Nat /\ s \in Seq(Values) /\ Len(s) \in Nat
  BY <1>0, <1>m, WindowTypes DEF ReasonsInv
<1>2. ASSUME kind = "bufferWithReason"
      PROVE  /\ m.todo # <<>> => Honest(m.todo[1].val)
             /\ \A k \in 1 .. Len(s) :
                   /\ Honest(s[k])
                   /\ s[k].reason = "close" => k = Len(s) /\ m.todo = <<>>
  BY <1>2, <1>m DEF ReasonsInv
<1>3. ASSUME m.pc = "loop", kind = "bufferWithReason"
      PROVE  \A k \in 1 .. Len(s) : s[k].reason # "close"
  BY <1>2, <1>3, <1>m DEF Honest
<1>4. /\ w.pc = "loop" => m.pc = "loop"
      /\ cancelled => cancelled'
      /\ closedIn \subseteq closedIn'
  BY <1>0, <1>m, WindowSteps, GathersIs, FlushesIs, GivesIs DEF Flushing, Stays
<1>5. \A b : Honest(b) => Honest(b)'
  BY <1>4, <1>m, HonestKept
<1>6. ASSUME Len(w.held) <= N,
             w.pc = "loop" /\ w.todo = <<>> => Len(w.held) < N,
             \A k \in 1 .. Len(z) : Len(Items(z[k])) <= N,
             kind = "bufferWithReason" =>
                /\ w.todo # <<>> => Honest(w.todo[1].val)'
                /\ \A k \in 1 .. Len(z) :
                      /\ Honest(z[k])'
                      /\ z[k].reason = "close" => k = Len(z) /\ w.todo = <<>>
      PROVE  ReasonsInv'
  <2>1. \A x : Items(x)' = Items(x)
    BY <1>0 DEF Items
  <2>2. \A k \in 1 .. Len(z) : Len(Items(z[k])') <= N
    BY <1>6, <2>1
  <2>3. /\ Len(gor'[1].held) <= N
        /\ gor'[1].pc = "loop" /\ gor'[1].todo = <<>> => Len(gor'[1].held) < N
        /\ \A k \in 1 .. Len(sent'[1]) : Len(Items(sent[1][k])') <= N
    <3>1. \A k : Items(sent[1][k])' = Items(z[k])'
      BY <1>m DEF Items
    <3> QED BY <1>6, <1>m, <2>2, <3>1
  <2>4. \A k : Honest(sent[1][k])' <=> Honest(z[k])'
    BY <1>m DEF Honest
  <2>5. Honest(gor[1].todo[1].val)' <=> Honest(w.todo[1].val)'
    BY <1>m DEF Honest
  <2>6. kind = "bufferWithReason" =>
          /\ gor'[1].todo # <<>> => Honest(gor[1].todo[1].val)'
          /\ \A k \in 1 .. Len(sent'[1]) :
                /\ Honest(sent[1][k])'
                /\ sent'[1][k].reason = "close" => k = Len(sent'[1]) /\ gor'[1].todo = <<>>
    BY <1>6, <1>m, <2>4, <2>5
  <2> QED BY <1>0, <2>3, <2>6 DEF ReasonsInv
<1>7. ASSUME NEW i \in Inputs, Receive(1, i) PROVE ReasonsInv'
  <2>1. PICK v : v = <<1, Len(consumed[1]) + 1>>
    OBVIOUS
  <2>2. /\ m.todo = <<>> /\ m.pc = "loop" /\ v \in Item /\ z = s
        /\ w.held = Append(m.held, v)
        /\ \/ w.todo = <<>> /\ ~(Len(w.held) >= N)
           \/ Len(w.held) >= N /\ Offers(w, "size")
    BY <1>0, <1>7, <1>m, <2>1, GathersIs
  <2>3. Len(w.held) = Len(m.held) + 1
    BY <1>1, <2>2, AppendProperties
  <2>4. Len(w.held) \in Nat /\ Len(w.held) <= N /\ (~(Len(w.held) >= N) => Len(w.held) < N)
    BY <1>0, <1>1, <2>2, <2>3
  <2>5. w.todo = <<>> => Len(w.held) < N
    <3>1. CASE w.todo = <<>> /\ Offers(w, "size")
      <4>1. w.held = <<>>
        <5>1. PICK x : x = Bundle(w, "size")
          OBVIOUS
        <5> QED BY <3>1, <5>1 DEF Offers
      <4> QED BY <2>3, <1>1, <4>1
    <3> QED BY <2>2, <2>4, <3>1
  <2>6. ASSUME kind = "bufferWithReason", w.todo # <<>> PROVE Honest(w.todo[1].val)'
    <3>1. Offers(w, "size") /\ Len(w.held) = N
      BY <1>0, <2>2, <2>4, <2>6
    <3>2. PICK x : x = w.todo[1].val
      OBVIOUS
    <3>3. x.reason = "size" /\ Len(x.items) = N
      BY <2>6, <3>1, <3>2, OfferedBatch
    <3>4. Honest(x)'
      BY <3>3 DEF Honest
    <3> QED BY <3>2, <3>4
  <2>7. kind = "bufferWithReason" => \A k \in 1 .. Len(z) : Honest(z[k])' /\ z[k].reason # "close"
    BY <1>2, <1>3, <1>5, <2>2
  <2> QED BY <1>1, <1>6, <2>2, <2>4, <2>5, <2>6, <2>7
<1>8. CASE Flushing
  <2>1. /\ m.pc = "loop" /\ z = s /\ w.held = m.held
        /\ \/ w.pc = "loop" /\ m.todo = <<>> /\ Offers(w, "timeout")
           \/ w.pc = "return" /\ Offers(w, "close") /\ (cancelled \/ 1 \in closedIn)
    BY <1>0, <1>8, <1>m, FlushesIs DEF Flushing
  <2>2. w.pc = "loop" /\ w.todo = <<>> => Len(w.held) < N
    <3>1. w.pc = "loop" => m.todo = <<>>
      BY <2>1
    <3> QED BY <1>1, <2>1, <3>1
  <2>3. ASSUME kind = "bufferWithReason", w.todo # <<>> PROVE Honest(w.todo[1].val)'
    <3>1. PICK x : x = w.todo[1].val
      OBVIOUS
    <3>2. CASE w.pc = "loop" /\ m.todo = <<>> /\ Offers(w, "timeout")
      <4>1. x.reason = "timeout" /\ x.items = w.held
        BY <2>3, <3>1, <3>2, OfferedBatch
      <4>2. Len(x.items) < N
        BY <1>1, <2>1, <3>2, <4>1
      <4>3. Honest(x)'
        BY <4>1, <4>2 DEF Honest
      <4> QED BY <3>1, <4>3
    <3>3. CASE w.pc = "return" /\ Offers(w, "close") /\ (cancelled \/ 1 \in closedIn)
      <4>1. x.reason = "close"
        BY <2>3, <3>1, <3>3, OfferedBatch
      <4>2. gor'[1].pc # "loop" /\ (cancelled' \/ 1 \in closedIn')
        BY <1>4, <1>m, <3>3
      <4>3. Honest(x)'
        BY <4>1, <4>2 DEF Honest
      <4> QED BY <3>1, <4>3
    <3> QED BY <2>1, <3>2, <3>3
  <2>4. kind = "bufferWithReason" => \A k \in 1 .. Len(z) : Honest(z[k])' /\ z[k].reason # "close"
    BY <1>2, <1>3, <1>5, <2>1
  <2> QED BY <1>1, <1>6, <2>1, <2>2, <2>3, <2>4
<1>9. CASE Stays
  <2>1. /\ z = s /\ w.held = m.held
        /\ \/ w.todo = m.todo /\ (w.pc = "loop" => m.pc = "loop")
           \/ w.todo = <<>> /\ w.pc # "loop"
    BY <1>9, <1>m DEF Stays
  <2>2. w.pc = "loop" /\ w.todo = <<>> => Len(w.held) < N
    BY <1>1, <2>1
  <2>3. ASSUME kind = "bufferWithReason"
        PROVE  /\ w.todo # <<>> => Honest(w.todo[1].val)'
               /\ \A k \in 1 .. Len(z) :
                      /\ Honest(z[k])'
                      /\ z[k].reason = "close" => k = Len(z) /\ w.todo = <<>>
    <3>1. PICK x : x = m.todo[1].val
      OBVIOUS
    <3>2. w.todo # <<>> => Honest(x)
      BY <1>2, <2>1, <2>3, <3>1
    <3>3. w.todo # <<>> => w.todo[1].val = x
      BY <2>1, <3>1
    <3>4. w.todo # <<>> => Honest(w.todo[1].val)'
      <4>1. PICK y : y = w.todo[1].val
        OBVIOUS
      <4>2. w.todo # <<>> => Honest(y)'
        BY <1>5, <3>2, <3>3, <4>1
      <4> QED BY <4>1, <4>2
    <3>5. \A k \in 1 .. Len(z) : Honest(z[k])'
      BY <1>2, <1>5, <2>1, <2>3
    <3>6. \A k \in 1 .. Len(z) : z[k].reason = "close" => k = Len(z) /\ w.todo = <<>>
      BY <1>2, <2>1, <2>3
    <3> QED BY <3>4, <3>5, <3>6
  <2> QED BY <1>1, <1>6, <2>1, <2>2, <2>3
<1>10. CASE Send(1)
  <2>1. PICK x, h : x = m.todo[1].val /\ h = m.held
    OBVIOUS
  <2>2. /\ m.todo # <<>> /\ x \in Values /\ z = Append(s, x) /\ w.held = <<>> /\ w.todo = <<>>
    BY <1>0, <1>10, <1>m, <2>1, GivesIs
  <2>3. PICK why : m.held # <<>> /\ Offers(m, why)
    BY <1>0, <1>m, <2>2 DEF HeldInv
  <2>4. Items(x) = h
    BY <1>0, <2>1, <2>3, BundleItems
  <2>5. /\ Len(z) = Len(s) + 1 /\ z[Len(s) + 1] = x /\ \A k \in 1 .. Len(s) : z[k] = s[k]
    BY <1>1, <2>2, AppendProperties
  <2>6. \A k \in 1 .. Len(z) : k \in 1 .. Len(s) \/ k = Len(s) + 1
    BY <1>1, <2>5
  <2>7. \A k \in 1 .. Len(z) : Len(Items(z[k])) <= N
    BY <1>1, <2>1, <2>4, <2>5, <2>6
  <2>8. Len(w.held) = 0 /\ 0 <= N /\ 0 < N
    BY <1>0, <2>2
  <2>9. kind = "bufferWithReason" => \A k \in 1 .. Len(z) : Honest(z[k])'
    BY <1>2, <1>5, <2>1, <2>2, <2>5, <2>6
  <2>10. kind = "bufferWithReason" =>
            \A k \in 1 .. Len(z) : z[k].reason = "close" => k = Len(z)
    BY <1>2, <2>2, <2>5, <2>6
  <2> QED BY <1>6, <2>2, <2>7, <2>8, <2>9, <2>10
<1> QED BY <1>0, <1>7, <1>8, <1>9, <1>10, WindowSteps

LEMMA ReasonsInvTrue == Basic /\ ReasonsInv => BatchesTrue
<1> SUFFICES ASSUME Basic, ReasonsInv, kind \in Buffering PROVE BatchesTrue
  BY DEF BatchesTrue, Buffering
<1>m. PICK s : s = sent[1]
  OBVIOUS
<1>0. DOMAIN s = 1 .. Len(s) /\ \A k : Batch(k) = Items(s[k])
  <2>1. s \in Seq(Values)
    BY <1>m, WindowTypes DEF Windows, Buffering
  <2> QED BY <1>m, <2>1, LenProperties DEF Batch, Items
<1>1. \A k \in 1 .. Len(s) : Len(Items(s[k])) <= N
  BY <1>m DEF ReasonsInv
<1>2. ASSUME kind = "bufferWithReason", NEW k \in 1 .. Len(s)
      PROVE  /\ s[k].reason = "size" => Len(s[k].items) = N
             /\ s[k].reason = "timeout" => Len(s[k].items) < N
             /\ s[k].reason = "close" => k = Len(s) /\ (cancelled \/ 1 \in closedIn)
  BY <1>2, <1>m DEF ReasonsInv, Honest
<1> QED BY <1>0, <1>1, <1>2, <1>m DEF BatchesTrue

-----------------------------------------------------------------------------
(* Sliding *)

\* The first and the last item of a batch, by their numbers.
From(x) == x[1][2]
To(x)   == x[Len(x)][2]

\* The batches s are runs of items of c that start no later than f, in order.
Slides(s, c, f) ==
    /\ \A k \in 1 .. Len(s) :
          /\ From(s[k]) \in 1 .. f /\ To(s[k]) \in From(s[k]) .. Len(c)
          /\ s[k] = SubSeq(c, From(s[k]), To(s[k]))
    /\ \A j, k \in 1 .. Len(s) :
          j < k => From(s[j]) <= From(s[k]) /\ To(s[j]) <= To(s[k])

\* What is held is all from item f on.
SlidingInv ==
    kind = "sliding" =>
        \E f \in 1 .. Len(consumed[1]) + 1 :
            /\ gor[1].held = SubSeq(consumed[1], f, Len(consumed[1]))
            /\ Slides(sent[1], consumed[1], f)

LEMMA SubSeqTail ==
    ASSUME NEW S, NEW s \in Seq(S), NEW f \in 1 .. Len(s) + 1, NEW k \in 0 .. Len(s) + 1 - f
    PROVE  SubSeq(SubSeq(s, f, Len(s)), k + 1, Len(SubSeq(s, f, Len(s))))
              = SubSeq(s, f + k, Len(s))
<1> DEFINE n == Len(s)
           l == n + 1 - f
           p == SubSeq(s, f, n)
           q == SubSeq(p, k + 1, l)
           r == SubSeq(s, f + k, n)
<1>1. n \in Nat /\ \A j \in 1 .. n : s[j] \in S
  BY ElementOfSeq
<1>2. f \in Nat /\ f >= 1 /\ f <= n + 1 /\ l \in Nat /\ k \in Nat /\ k <= l
  BY <1>1
<1>3. p \in Seq(S) /\ Len(p) = l /\ \A j \in 1 .. l : p[j] = s[f + j - 1]
  <2>1. \A j \in f .. n : s[j] \in S
    BY <1>1, <1>2
  <2> QED BY <1>1, <1>2, <2>1, SubSeqProperties
<1> HIDE DEF p
<1>4. q \in Seq(S) /\ Len(q) = l - k /\ \A j \in 1 .. l - k : q[j] = p[k + 1 + j - 1]
  <2>1. \A j \in k + 1 .. l : p[j] \in S
    <3>1. \A j \in k + 1 .. l : j \in 1 .. Len(p)
      BY <1>2, <1>3
    <3> QED BY <1>3, <3>1, ElementOfSeq
  <2>2. l - (k + 1) + 1 = l - k /\ (k + 1 <= l \/ l - k = 0)
    BY <1>2
  <2> HIDE DEF l
  <2>3. /\ q \in Seq(S) /\ Len(q) = (IF k + 1 <= l THEN l - (k + 1) + 1 ELSE 0)
        /\ \A j \in 1 .. l - (k + 1) + 1 : q[j] = p[k + 1 + j - 1]
    BY <1>2, <2>1, SubSeqProperties
  <2> QED BY <1>2, <2>2, <2>3
<1>5. r \in Seq(S) /\ Len(r) = l - k /\ \A j \in 1 .. l - k : r[j] = s[f + k + j - 1]
  <2>1. \A j \in f + k .. n : s[j] \in S
    BY <1>1, <1>2
  <2>2. n - (f + k) + 1 = l - k /\ (f + k <= n \/ l - k = 0)
    BY <1>1, <1>2
  <2>3. /\ r \in Seq(S) /\ Len(r) = (IF f + k <= n THEN n - (f + k) + 1 ELSE 0)
        /\ \A j \in 1 .. n - (f + k) + 1 : r[j] = s[f + k + j - 1]
    BY <1>1, <1>2, <2>1, SubSeqProperties
  <2> QED BY <1>1, <1>2, <2>2, <2>3
<1> HIDE DEF q, r
<1>6. ASSUME NEW j \in 1 .. l - k PROVE q[j] = r[j]
  <2>1. k + 1 + j - 1 \in 1 .. l /\ f + (k + 1 + j - 1) - 1 = f + k + j - 1
    BY <1>1, <1>2
  <2> HIDE DEF l
  <2>2. q[j] = p[k + 1 + j - 1] /\ r[j] = s[f + k + j - 1]
    BY <1>4, <1>5
  <2>3. p[k + 1 + j - 1] = s[f + (k + 1 + j - 1) - 1]
    BY <1>3, <2>1
  <2> QED BY <2>1, <2>2, <2>3
<1>7. q = r
  BY <1>4, <1>5, <1>6, SeqEqual
<1> QED BY <1>3, <1>7 DEF p, q, r

\* An item, the expiry of items, a send.
LEMMA SlidesReceive ==
    ASSUME NEW s, NEW c \in Seq(Item), NEW f \in Nat, Slides(s, c, f), NEW v \in Item
    PROVE  Slides(s, Append(c, v), f)
<1>1. Len(c) \in Nat /\ Len(Append(c, v)) = Len(c) + 1
  BY AppendProperties
<1>2. ASSUME NEW k \in 1 .. Len(s)
      PROVE  /\ From(s[k]) \in 1 .. f /\ To(s[k]) \in From(s[k]) .. Len(c) + 1
             /\ s[k] = SubSeq(Append(c, v), From(s[k]), To(s[k]))
  <2>1. PICK a, b : a = From(s[k]) /\ b = To(s[k])
    OBVIOUS
  <2>2. a \in 1 .. f /\ b \in a .. Len(c) /\ s[k] = SubSeq(c, a, b)
    BY <2>1 DEF Slides
  <2>3. a \in Nat \ {0} /\ b \in 0 .. Len(c) /\ b \in a .. Len(c) + 1
    BY <1>1, <2>2
  <2>4. SubSeq(Append(c, v), a, b) = SubSeq(c, a, b)
    BY <2>3, SubSeqKeeps
  <2> QED BY <2>1, <2>2, <2>3, <2>4
<1>3. \A j, k \in 1 .. Len(s) : j < k => From(s[j]) <= From(s[k]) /\ To(s[j]) <= To(s[k])
  BY DEF Slides
<1> QED BY <1>1, <1>2, <1>3 DEF Slides

LEMMA SlidesExpire ==
    ASSUME NEW s, NEW c, NEW f \in Nat, Slides(s, c, f), NEW e \in Nat, f <= e
    PROVE  Slides(s, c, e)
<1>1. \A a \in 1 .. f : a \in 1 .. e
  OBVIOUS
<1> QED BY <1>1 DEF Slides

LEMMA SlidesSend ==
    ASSUME Basic, kind = "sliding", NEW s \in Seq(Values), NEW c, c = consumed[1],
           NEW f \in 1 .. Len(c) + 1, Slides(s, c, f),
           NEW x \in Values, x = SubSeq(c, f, Len(c)), x # <<>>
    PROVE  Slides(Append(s, x), c, f)
<1>m. PICK z, n : z = Append(s, x) /\ n = Len(s)
  OBVIOUS
<1>0. c \in Seq(Item) /\ Len(c) \in Nat /\ n \in Nat /\ kind \in Windows
  <2>1. kind \in Windows
    BY DEF Windows
  <2> QED BY <1>m, <2>1, WindowTypes
<1>1. Len(z) = n + 1 /\ z[n + 1] = x /\ \A k \in 1 .. n : z[k] = s[k]
  BY <1>m, AppendProperties
<1>2. From(x) = f /\ To(x) = Len(c) /\ f <= Len(c)
  <2>1. PICK b : b = Len(c)
    OBVIOUS
  <2>2. f \in Nat \ {0} /\ b \in 0 .. Len(consumed[1]) /\ x = SubSeq(consumed[1], f, b)
    BY <1>0, <2>1
  <2>3. /\ x = <<>> <=> b < f
        /\ f <= b => x[1] = <<1, f>> /\ x[Len(x)] = <<1, b>>
    BY <1>0, <2>2, RunIs
  <2>4. f <= b
    BY <1>0, <2>1, <2>2, <2>3
  <2> QED BY <2>1, <2>3, <2>4 DEF From, To
<1>3. \A k \in 1 .. n :
         /\ From(s[k]) \in 1 .. f /\ To(s[k]) \in From(s[k]) .. Len(c)
         /\ s[k] = SubSeq(c, From(s[k]), To(s[k]))
  BY <1>m DEF Slides
<1>4. \A k \in 1 .. Len(z) : k \in 1 .. n \/ k = n + 1
  BY <1>0, <1>1
<1>5. ASSUME NEW k \in 1 .. Len(z)
      PROVE  /\ From(z[k]) \in 1 .. f /\ To(z[k]) \in From(z[k]) .. Len(c)
             /\ z[k] = SubSeq(c, From(z[k]), To(z[k]))
  <2>1. CASE k \in 1 .. n
    BY <1>1, <1>3, <2>1
  <2>2. CASE k = n + 1
    <3>1. z[k] = x /\ f \in 1 .. f /\ Len(c) \in f .. Len(c)
      BY <1>0, <1>1, <1>2, <2>2
    <3> QED BY <1>2, <3>1
  <2> QED BY <1>4, <2>1, <2>2
<1>6. ASSUME NEW j \in 1 .. Len(z), NEW k \in 1 .. Len(z), j < k
      PROVE  From(z[j]) <= From(z[k]) /\ To(z[j]) <= To(z[k])
  <2>1. j \in 1 .. n
    BY <1>0, <1>1, <1>6
  <2>2. CASE k \in 1 .. n
    <3>1. From(s[j]) <= From(s[k]) /\ To(s[j]) <= To(s[k])
      BY <1>6, <1>m, <2>1, <2>2 DEF Slides
    <3> QED BY <1>1, <2>1, <2>2, <3>1
  <2>3. CASE k = n + 1
    <3>1. PICK a, b : a = From(s[j]) /\ b = To(s[j])
      OBVIOUS
    <3>2. a \in 1 .. f /\ b \in a .. Len(c)
      BY <1>3, <2>1, <3>1
    <3>3. a <= f /\ b <= Len(c)
      BY <1>0, <3>2
    <3> QED BY <1>1, <1>2, <2>1, <2>3, <3>1, <3>3
  <2> QED BY <1>4, <2>2, <2>3
<1>7. Slides(z, c, f)
  BY <1>5, <1>6 DEF Slides
<1> QED BY <1>7, <1>m

LEMMA InitSliding == Init => SlidingInv
<1> SUFFICES ASSUME Init, kind = "sliding" PROVE SlidingInv
  BY DEF SlidingInv
<1>1. gor[1].held = <<>> /\ consumed[1] = <<>> /\ sent[1] = <<>>
  BY Channels DEF Init
<1>2. Len(<<>>) = 0 /\ SubSeq(<<>>, 1, 0) = <<>> /\ 1 \in 1 .. 0 + 1
  BY SubSeqEmpty
<1>3. Slides(<<>>, <<>>, 1)
  BY <1>2 DEF Slides
<1> QED BY <1>1, <1>2, <1>3 DEF SlidingInv

LEMMA NextSliding == Basic /\ HeldInv /\ SlidingInv /\ [Next]_vars => SlidingInv'
<1> SUFFICES ASSUME Basic, HeldInv, SlidingInv, [Next]_vars, kind = "sliding"
             PROVE  SlidingInv'
  BY SettledNext DEF SlidingInv
<1>m. PICK m, w, c, s, d, z : m = gor[1] /\ w = gor'[1] /\ c = consumed[1] /\ s = sent[1]
                              /\ d = consumed'[1] /\ z = sent'[1]
  OBVIOUS
<1>0. kind' = kind /\ kind \in Windows /\ 1 \in Workers /\ kind # "debounce"
      /\ kind \notin Buffering
  BY SettledNext, Channels DEF Windows, Buffering
<1>1. PICK f \in 1 .. Len(c) + 1 : m.held = SubSeq(c, f, Len(c)) /\ Slides(s, c, f)
  BY <1>m DEF SlidingInv
<1>2. /\ c \in Seq(Item) /\ Len(c) \in Nat /\ s \in Seq(Values) /\ Len(s) \in Nat
      /\ f \in Nat
  BY <1>0, <1>m, WindowTypes
<1>3. ASSUME NEW e \in 1 .. Len(d) + 1, w.held = SubSeq(d, e, Len(d)), Slides(z, d, e)
      PROVE  SlidingInv'
  <2>1. Slides(z, d, e)'
    BY <1>3 DEF Slides, From, To
  <2> QED BY <1>3, <1>m, <2>1 DEF SlidingInv
<1>4. ASSUME NEW i \in Inputs, Receive(1, i) PROVE SlidingInv'
  <2>1. PICK v : v = <<1, Len(c) + 1>>
    OBVIOUS
  <2>2. v \in Item /\ d = Append(c, v) /\ w.held = Append(m.held, v) /\ z = s
    BY <1>0, <1>4, <1>m, <2>1, GathersIs
  <2>3. Len(d) = Len(c) + 1
    BY <1>2, <2>2, AppendProperties
  <2>4. w.held = SubSeq(d, f, Len(d)) /\ f \in 1 .. Len(d) + 1
    <3>1. SubSeq(Append(c, v), f, Len(c) + 1) = Append(SubSeq(c, f, Len(c)), v)
      BY <1>2, <2>2, SubSeqMore
    <3>2. f \in 1 .. Len(d) + 1
      BY <1>2, <2>3
    <3> QED BY <1>1, <2>2, <2>3, <3>1, <3>2
  <2>5. Slides(z, d, f)
    BY <1>1, <1>2, <2>2, SlidesReceive
  <2> QED BY <1>3, <2>4, <2>5
<1>5. CASE Flushing
  <2>1. d = c /\ z = s
    BY <1>0, <1>5, <1>m, FlushesIs DEF Flushing
  <2>2. PICK k \in 0 .. Len(m.held) : w.held = SubSeq(m.held, k + 1, Len(m.held))
    BY <1>0, <1>5, <1>m, FlushesIs DEF Flushing
  <2>3. Len(m.held) = Len(c) + 1 - f
    <3>1. PICK b : b = Len(c)
      OBVIOUS
    <3>2. f \in Nat \ {0} /\ b \in 0 .. Len(consumed[1]) /\ m.held = SubSeq(consumed[1], f, b)
      BY <1>1, <1>2, <1>m, <3>1
    <3>3. Len(m.held) = IF f <= b THEN b - f + 1 ELSE 0
      BY <1>0, <3>2, RunIs
    <3> QED BY <1>2, <3>1, <3>3
  <2>4. k \in 0 .. Len(c) + 1 - f
    BY <2>3
  <2>5. SubSeq(SubSeq(c, f, Len(c)), k + 1, Len(SubSeq(c, f, Len(c)))) = SubSeq(c, f + k, Len(c))
    BY <1>2, <2>4, SubSeqTail
  <2>6. w.held = SubSeq(d, f + k, Len(d))
    BY <1>1, <2>1, <2>2, <2>5
  <2>7. f + k \in 1 .. Len(c) + 1 /\ f + k \in Nat /\ f <= f + k
    BY <1>2, <2>4
  <2>8. Slides(z, d, f + k)
    BY <1>1, <1>2, <2>1, <2>7, SlidesExpire
  <2> QED BY <1>3, <2>1, <2>6, <2>7, <2>8
<1>6. CASE Stays
  <2>1. d = c /\ z = s /\ w.held = m.held
    BY <1>6, <1>m DEF Stays
  <2> QED BY <1>1, <1>3, <2>1
<1>7. CASE Send(1)
  <2>1. PICK x, h : x = m.todo[1].val /\ h = m.held
    OBVIOUS
  <2>2. m.todo # <<>> /\ x \in Values /\ d = c /\ z = Append(s, x) /\ w.held = h
    BY <1>0, <1>7, <1>m, <2>1, GivesIs
  <2>3. PICK why : m.held # <<>> /\ Offers(m, why)
    BY <1>0, <1>m, <2>2 DEF HeldInv
  <2>4. m.todo = <<[out |-> 1, val |-> h]>>
    BY <1>0, <2>1, <2>3 DEF Offers, Bundle
  <2>5. x = h /\ h # <<>>
    BY <2>1, <2>3, <2>4
  <2>6. x = SubSeq(c, f, Len(c)) /\ w.held = SubSeq(c, f, Len(c))
    BY <1>1, <2>1, <2>2, <2>5
  <2>7. Slides(Append(s, x), c, f)
    BY <1>1, <1>2, <1>m, <2>2, <2>5, <2>6, SlidesSend
  <2> QED BY <1>3, <2>2, <2>6, <2>7
<1> QED BY <1>0, <1>4, <1>5, <1>6, <1>7, WindowSteps

LEMMA SlidingInvDelivers == Basic /\ SlidingInv /\ kind = "sliding" => SlidingDelivers
<1> SUFFICES ASSUME Basic, SlidingInv, kind = "sliding" PROVE SlidingDelivers
  OBVIOUS
<1>m. PICK c, s : c = consumed[1] /\ s = sent[1]
  OBVIOUS
<1>0. kind \in Windows
  BY DEF Windows
<1>1. PICK f \in 1 .. Len(c) + 1 : Slides(s, c, f)
  BY <1>m DEF SlidingInv
<1>2. c \in Seq(Item) /\ Len(c) \in Nat /\ DOMAIN s = 1 .. Len(s)
  BY <1>0, <1>m, WindowTypes, LenProperties
<1>3. \A x : From(x) = x[1][2] /\ To(x) = Last(x)[2]
  BY DEF From, To, Last
<1>4. ASSUME NEW k \in 1 .. Len(s)
      PROVE  s[k] # <<>> /\ s[k] = SubSeq(c, From(s[k]), To(s[k]))
  <2>1. PICK a, b : a = From(s[k]) /\ b = To(s[k])
    OBVIOUS
  <2>2. a \in 1 .. f /\ b \in a .. Len(c) /\ s[k] = SubSeq(c, a, b)
    BY <1>1, <2>1 DEF Slides
  <2>3. a \in Nat \ {0} /\ b \in 0 .. Len(consumed[1]) /\ ~(b < a)
    BY <1>2, <1>m, <2>2
  <2>4. SubSeq(consumed[1], a, b) # <<>>
    BY <1>0, <2>3, RunIs
  <2> QED BY <1>m, <2>1, <2>2, <2>4
<1>5. \A j, k \in 1 .. Len(s) : j < k => From(s[j]) <= From(s[k]) /\ To(s[j]) <= To(s[k])
  BY <1>1 DEF Slides
<1> QED BY <1>2, <1>3, <1>4, <1>5, <1>m DEF SlidingDelivers

-----------------------------------------------------------------------------
(* The invariant *)

IInv ==
    /\ Basic /\ RateInv /\ ClosedInv
    /\ ItemsInv /\ MergeInv
    /\ HeldInv /\ DebounceInv /\ BatchesInv /\ ReasonsInv /\ SlidingInv

\* What each function remembers, holds and has under way follows from what it has
\* received and sent, in every state of the goroutines of chanx.
THEOREM Invariance == Spec => []IInv
<1>1. Init => IInv
  BY InitBasic, InitRate, InitClosed, InitItems, InitMerge, InitHeld, InitDebounce,
     InitBatches, InitReasons, InitSliding DEF IInv
<1>2. IInv /\ [Next]_vars => IInv'
  BY NextBasic, NextRate, NextClosed, NextItems, NextMerge, NextHeld, NextDebounce,
     NextBatches, NextReasons, NextSliding DEF IInv
<1> QED BY <1>1, <1>2, PTL DEF Spec

\* Every function of chanx that reads channels and writes channels gives its outputs
\* what they should have, loses nothing without a cancellation, keeps order, makes true
\* batches, and closes its outputs last (chanx/*.go).
THEOREM Right == Spec => []OutputsRight
<1>1. IInv => OutputsRight
  <2> SUFFICES ASSUME IInv PROVE OutputsRight
    OBVIOUS
  <2>1. ClosedLast /\ BatchesTrue
    BY ClosedInvLast, ReasonsInvTrue DEF IInv
  <2>2. kind \in Stages
    BY StageAssumption DEF IInv, Basic, TypeOK
  <2>3. kind = "merge" => MergeDelivers
    BY MergeInvDelivers DEF IInv
  <2>4. kind = "debounce" => DebounceDelivers
    BY DebounceInvDelivers DEF IInv
  <2>5. kind = "sliding" => SlidingDelivers
    BY SlidingInvDelivers DEF IInv
  <2>6. kind \in Buffering \cup {"tumbling"} => BatchesDeliver
    BY BatchesInvDeliver DEF IInv, Gathering
  <2>7. kind \notin Windows \cup {"merge"} => ItemsDeliver
    BY <2>2, ItemsInvDeliver DEF IInv, Itemwise
  <2>8. Delivered
    <3>1. CASE kind = "merge"
      BY <2>1, <2>3, <3>1 DEF Delivered, Buffering
    <3>2. CASE kind = "debounce"
      BY <2>1, <2>4, <3>2 DEF Delivered, Buffering
    <3>3. CASE kind = "sliding"
      BY <2>1, <2>5, <3>3 DEF Delivered, Buffering
    <3>4. CASE kind \in Buffering \cup {"tumbling"}
      BY <2>1, <2>6, <3>4 DEF Delivered, Buffering
    <3>5. CASE kind \notin Windows \cup {"merge"}
      BY <2>1, <2>7, <3>5 DEF Delivered, Buffering, Windows
    <3> QED BY <3>1, <3>2, <3>3, <3>4, <3>5 DEF Windows, Buffering
  <2> QED BY <2>1, <2>8 DEF OutputsRight
<1> QED BY <1>1, Invariance, PTL
=============================================================================
