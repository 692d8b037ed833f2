------------------------------- MODULE Stage -------------------------------
(***************************************************************************)
(* The goroutines of chanx that read channels and write channels: Map,     *)
(* Filter, Take, Skip, Scan, OrDone, Merge, FanOut, Tee, Broadcast, Zip,   *)
(* Partition, First, Buffer, BufferWithReason, Window, Debounce, Throttle. *)
(* They are one loop: a select on inputs, a clock and a context, then      *)
(* selects on sends and the context.  The actions below are that loop; an  *)
(* operator for each function says what it makes of an item, a tick and    *)
(* the end of its input.  Item k of input i is <<i, k>>.                   *)
(***************************************************************************)
EXTENDS Naturals, FiniteSets, SequencesExt

CONSTANTS
    Kinds,      \* the functions considered
    N,          \* their number: n of Take, Skip, Throttle; size of Buffer; bufSize
    Fan,        \* the number of outputs of FanOut, Tee and Broadcast
    MaxItems,   \* bound: the items an input offers
    MaxWindows  \* bound: the overlapping batches of a sliding window

\* Every function of the module, and those that panic when their number is 0.
Stages == {"map", "filter", "take", "skip", "scan", "orDone", "merge", "fanOut",
           "tee", "broadcast", "partition", "first", "zip", "buffer",
           "bufferWithReason", "tumbling", "sliding", "debounce", "throttle"}
Positive == {"buffer", "bufferWithReason", "broadcast", "throttle"}

ASSUME StageAssumption ==
    /\ Kinds \subseteq Stages
    /\ N \in Nat /\ (N = 0 => Kinds \cap Positive = {})
    /\ Fan \in Nat \ {0}

VARIABLES
    kind,       \* the function
    nilIn,      \* the inputs that are nil
    closedIn,   \* the inputs their owner has closed
    consumed,   \* per input, the items received so far
    cancelled,  \* ctx.Done is closed
    gor,        \* the goroutines: control point, sends to make, memory, clock
    sent,       \* per output, the values sent so far
    read,       \* per output, how many of them were received
    closedOut,  \* the outputs are closed
    reading,    \* the readers of the outputs are still there
    debt        \* sends less intervals, since the moment that makes it largest

vars == <<kind, nilIn, closedIn, consumed, cancelled, gor, sent, read, closedOut, reading, debt>>

Inputs  == IF kind \in {"merge", "zip", "first"} THEN {1, 2} ELSE {1}
Outputs == IF kind \in {"tee", "broadcast", "fanOut"} THEN 1 .. Fan
           ELSE IF kind = "partition" THEN {1, 2} ELSE {1}
Workers == IF kind = "merge" THEN Inputs ELSE {1}

\* The buffer of an output channel.
Capacity == CASE kind = "broadcast"           -> N
              [] kind \in {"fanOut", "first"} -> 1
              [] OTHER                        -> 0

Apply(v) == <<"fn", v>>          \* the function given to Map
Keep(v)  == v[2] % 2 = 1         \* the predicate given to Filter and Partition

Ticking   == {"tumbling", "sliding", "throttle"}
Buffering == {"buffer", "bufferWithReason"}

-----------------------------------------------------------------------------
\* A goroutine m: its sends, its number n, the items it holds, its clock.

Sending(m, o, v) == [m EXCEPT !.todo = <<[out |-> o, val |-> v]>>]

Map(m, v)    == Sending(m, 1, Apply(v))
Filter(m, v) == IF Keep(v) THEN Sending(m, 1, v) ELSE m
Take(m, v)   == Sending(m, 1, v)
Skip(m, v)   == IF m.n < N THEN [m EXCEPT !.n = @ + 1] ELSE Sending(m, 1, v)
Scan(m, v)   == Sending([m EXCEPT !.held = Append(@, v)], 1, Append(m.held, v))
OrDone(m, v) == Sending(m, 1, v)
Merge(m, v)  == Sending(m, 1, v)
FanOut(m, v) == Sending(m, (m.n % Fan) + 1, v)

ToEach(m, v) == [m EXCEPT !.todo = [o \in 1 .. Fan |-> [out |-> o, val |-> v]]]
Tee(m, v)       == ToEach(m, v)
Broadcast(m, v) == ToEach(m, v)

Partition(m, v) == Sending(m, IF Keep(v) THEN 1 ELSE 2, v)

\* First returns after its one receive.
First(m, v) == [Sending(m, 1, v) EXCEPT !.pc = "return"]

\* Zip reads its second input when it holds an item of the first.
ZipPair(m, v) ==
    IF m.held = <<>> THEN [m EXCEPT !.held = <<v>>]
             ELSE Sending([m EXCEPT !.held = <<>>], 1, <<m.held[1], v>>)

\* The batch stays in place until it is sent, so that a flush that the context
\* interrupts leaves it to the deferred flush.
BatchValue(m, reason) ==
    IF kind = "buffer" THEN m.held ELSE [items |-> m.held, reason |-> reason]
Flush(m, reason) ==
    IF m.held = <<>> THEN m ELSE Sending(m, 1, BatchValue(m, reason))
Collect(m, v) ==
    [m EXCEPT !.held = Append(@, v), !.clock = IF m.held = <<>> THEN "armed" ELSE @]
Buffer(m, v) ==
    LET c == Collect(m, v) IN IF Len(c.held) >= N THEN Flush(c, "size") ELSE c
BufferWithReason(m, v) ==
    LET c == Collect(m, v) IN IF Len(c.held) >= N THEN Flush(c, "size") ELSE c

\* Windows: a ticker, and for the sliding one items that have expired, the first k.
Tumbling(m, v) == [m EXCEPT !.held = Append(@, v)]
Sliding(m, v)  == [m EXCEPT !.held = Append(@, v)]
Unexpired(m, k) == [m EXCEPT !.held = SubSeq(@, k + 1, Len(@))]
Window(m) == IF m.held = <<>> THEN m ELSE Sending(m, 1, m.held)

\* Every item of Debounce restarts its timer.
Debounce(m, v) == [m EXCEPT !.held = <<v>>, !.clock = "armed"]

Throttle(m, v) == Sending([m EXCEPT !.n = @ - 1], 1, v)

\* Mutation of Refill: the bucket has no bottom.
RefillUncapped(m) == [m EXCEPT !.n = @ + 1]

Refill(m) == IF m.n < N THEN [m EXCEPT !.n = @ + 1] ELSE m

OnItem(m, v) ==
    CASE kind = "map"       -> Map(m, v)
      [] kind = "filter"    -> Filter(m, v)
      [] kind = "take"      -> Take(m, v)
      [] kind = "skip"      -> Skip(m, v)
      [] kind = "scan"      -> Scan(m, v)
      [] kind = "orDone"    -> OrDone(m, v)
      [] kind = "merge"     -> Merge(m, v)
      [] kind = "fanOut"    -> FanOut(m, v)
      [] kind = "tee"       -> Tee(m, v)
      [] kind = "broadcast" -> Broadcast(m, v)
      [] kind = "partition" -> Partition(m, v)
      [] kind = "first"     -> First(m, v)
      [] kind = "zip"       -> ZipPair(m, v)
      [] kind = "buffer"    -> Buffer(m, v)
      [] kind = "bufferWithReason" -> BufferWithReason(m, v)
      [] kind = "tumbling"  -> Tumbling(m, v)
      [] kind = "sliding"   -> Sliding(m, v)
      [] kind = "debounce"  -> Debounce(m, v)
      [] kind = "throttle"  -> Throttle(m, v)

\* The clock of m has fired; k items have expired.
OnTick(m, k) ==
    LET t == [m EXCEPT !.clock = IF kind \in Ticking THEN "armed" ELSE "off"]
    IN CASE kind \in Buffering -> Flush(t, "timeout")
         [] kind = "tumbling"  -> Window(t)
         [] kind = "sliding"   -> Window(Unexpired(t, k))
         [] kind = "debounce"  -> Sending(t, 1, t.held[1])
         [] kind = "throttle"  -> Refill(t)

\* The input has ended.  What is held goes out, by the deferred call of Buffer or
\* by a last send of the others.
OnEnd(m, k) ==
    LET r == [m EXCEPT !.pc = "return"]
    IN CASE kind \in Buffering -> Flush(r, "close")
         [] kind = "tumbling"  -> Window(r)
         [] kind = "sliding"   -> Window(Unexpired(r, k))
         [] kind = "debounce"  -> IF r.held = <<>> THEN r ELSE Sending(r, 1, r.held[1])
         [] OTHER              -> r

\* The context has ended the loop.  The deferred call of Buffer runs here, too.
OnCancel(m) ==
    LET r == [m EXCEPT !.pc = "return", !.todo = <<>>]
    IN IF kind \in Buffering THEN Flush(r, "close") ELSE r

\* Mutation of OnSent: a batch that was sent is kept.
SentKeeping(m) ==
    IF kind = "take"
    THEN [m EXCEPT !.n = @ + 1, !.pc = IF m.n + 1 < N THEN @ ELSE "return"]
    ELSE IF kind = "fanOut" THEN [m EXCEPT !.n = @ + 1] ELSE m

\* The last send of a step has succeeded.
OnSent(m) ==
    CASE kind = "take" ->
            [m EXCEPT !.n = @ + 1, !.pc = IF m.n + 1 < N THEN @ ELSE "return"]
      [] kind = "fanOut" -> [m EXCEPT !.n = @ + 1]
      [] kind \in Buffering \cup {"debounce"} -> [m EXCEPT !.held = <<>>, !.clock = "off"]
      [] kind = "tumbling" -> [m EXCEPT !.held = <<>>]
      [] OTHER -> m

-----------------------------------------------------------------------------
\* A nil input: the outputs are closed at once, except that Merge and First skip it.
NothingToDo == IF kind \in {"merge", "first"} THEN Inputs \subseteq nilIn ELSE nilIn # {}

Init ==
    /\ kind \in Kinds
    /\ nilIn \in SUBSET Inputs
    /\ closedIn = {} /\ cancelled = FALSE /\ reading = TRUE /\ debt = 0
    /\ consumed = [i \in Inputs |-> <<>>]
    /\ sent = [o \in Outputs |-> <<>>]
    /\ read = [o \in Outputs |-> 0]
    /\ closedOut = NothingToDo
    /\ gor = [g \in Workers |->
          [pc    |-> IF NothingToDo \/ (kind = "merge" /\ g \in nilIn) THEN "gone"
                     ELSE IF kind = "take" /\ N = 0 THEN "return" ELSE "loop",
           todo  |-> <<>>,
           held  |-> <<>>,
           n     |-> IF kind = "throttle" THEN N ELSE 0,
           clock |-> IF kind \in Ticking THEN "armed" ELSE "off"]]

Selecting(g) == gor[g].pc = "loop" /\ gor[g].todo = <<>>

\* The inputs that the select of g is on.
Wanted(g) ==
    CASE kind = "merge"    -> {g}
      [] kind = "zip"      -> IF gor[g].held = <<>> THEN {1} ELSE {2}
      [] kind = "throttle" -> IF gor[g].n = 0 THEN {} ELSE {1}
      [] OTHER             -> Inputs \ nilIn

Receive(g, i) ==
    /\ Selecting(g) /\ i \in Wanted(g) \ closedIn
    /\ Len(consumed[i]) < MaxItems
    /\ LET v == <<i, Len(consumed[i]) + 1>>
       IN /\ consumed' = [consumed EXCEPT ![i] = Append(@, v)]
          /\ gor' = [gor EXCEPT ![g] = OnItem(@, v)]
    /\ UNCHANGED <<kind, nilIn, closedIn, cancelled, sent, read, closedOut, reading, debt>>

\* k of the held items have expired when time.Now is read; only Sliding looks at it.
Expired(g) == IF kind = "sliding" THEN 0 .. Len(gor[g].held) ELSE {0}

InputEnds(g, i) ==
    /\ Selecting(g) /\ i \in Wanted(g) \cap closedIn
    /\ \E k \in Expired(g) : gor' = [gor EXCEPT ![g] = OnEnd(@, k)]
    /\ UNCHANGED <<kind, nilIn, closedIn, consumed, cancelled, sent, read, closedOut, reading, debt>>

Tick(g) ==
    /\ Selecting(g) /\ gor[g].clock = "due"
    /\ \E k \in Expired(g) : gor' = [gor EXCEPT ![g] = OnTick(@, k)]
    /\ UNCHANGED <<kind, nilIn, closedIn, consumed, cancelled, sent, read, closedOut, reading, debt>>

\* Mutation of OnCancelled: the loop does not look at the context.
NeverCancelled(g) == FALSE /\ UNCHANGED vars

OnCancelled(g) ==
    /\ cancelled /\ gor[g].pc = "loop"
    /\ gor' = [gor EXCEPT ![g] = OnCancel(@)]
    /\ UNCHANGED <<kind, nilIn, closedIn, consumed, cancelled, sent, read, closedOut, reading, debt>>

\* A send succeeds: into the buffer or, without one, into the hands of a reader.
HasRoom(o) == IF Capacity = 0 THEN reading ELSE Len(sent[o]) - read[o] < Capacity

Send(g) ==
    /\ gor[g].todo # <<>>
    /\ LET o    == gor[g].todo[1].out
           rest == [gor[g] EXCEPT !.todo = Tail(@)]
       IN /\ HasRoom(o)
          /\ sent' = [sent EXCEPT ![o] = Append(@, gor[g].todo[1].val)]
          /\ read' = IF Capacity = 0 THEN [read EXCEPT ![o] = @ + 1] ELSE read
          /\ gor' = [gor EXCEPT ![g] = IF rest.todo = <<>> THEN OnSent(rest) ELSE rest]
    /\ debt' = IF kind = "throttle" THEN debt + 1 ELSE 0
    /\ UNCHANGED <<kind, nilIn, closedIn, consumed, cancelled, closedOut, reading>>

\* The last send gives way to the context; the send of First is not in a select.
GiveUp(g) ==
    /\ cancelled /\ kind # "first"
    /\ gor[g].pc = "return" /\ gor[g].todo # <<>>
    /\ gor' = [gor EXCEPT ![g].todo = <<>>]
    /\ UNCHANGED <<kind, nilIn, closedIn, consumed, cancelled, sent, read, closedOut, reading, debt>>

\* The deferred close; a worker of Merge leaves the closing to the closer.
Return(g) ==
    /\ gor[g].pc = "return" /\ gor[g].todo = <<>>
    /\ gor' = [gor EXCEPT ![g].pc = "gone"]
    /\ closedOut' = (kind # "merge")
    /\ UNCHANGED <<kind, nilIn, closedIn, consumed, cancelled, sent, read, reading, debt>>

\* Mutation of Closer: it does not wait for every worker.
CloserImpatient ==
    /\ kind = "merge" /\ ~closedOut
    /\ \E g \in Workers : gor[g].pc = "gone"
    /\ closedOut' = TRUE
    /\ UNCHANGED <<kind, nilIn, closedIn, consumed, cancelled, gor, sent, read, reading, debt>>

Closer ==
    /\ kind = "merge" /\ ~closedOut
    /\ \A g \in Workers : gor[g].pc = "gone"
    /\ closedOut' = TRUE
    /\ UNCHANGED <<kind, nilIn, closedIn, consumed, cancelled, gor, sent, read, reading, debt>>

\* The program around the stage.

CloseInput(i) ==
    /\ i \notin closedIn
    /\ closedIn' = closedIn \cup {i}
    /\ UNCHANGED <<kind, nilIn, consumed, cancelled, gor, sent, read, closedOut, reading, debt>>

Cancel ==
    /\ ~cancelled
    /\ cancelled' = TRUE
    /\ UNCHANGED <<kind, nilIn, closedIn, consumed, gor, sent, read, closedOut, reading, debt>>

\* Time: a timer or ticker fires.  A tick that nobody has received yet is kept.
Fire(g) ==
    /\ gor[g].pc = "loop" /\ gor[g].clock = "armed"
    /\ kind = "sliding" => Len(sent[1]) < MaxWindows
    /\ gor' = [gor EXCEPT ![g].clock = "due"]
    /\ debt' = IF debt = 0 THEN 0 ELSE debt - 1
    /\ UNCHANGED <<kind, nilIn, closedIn, consumed, cancelled, sent, read, closedOut, reading>>

\* A reader receives from a buffer, as Drain does, until it leaves.
Read(o) ==
    /\ reading /\ read[o] < Len(sent[o])
    /\ read' = [read EXCEPT ![o] = @ + 1]
    /\ UNCHANGED <<kind, nilIn, closedIn, consumed, cancelled, gor, sent, closedOut, reading, debt>>

StopReading ==
    /\ reading
    /\ reading' = FALSE
    /\ UNCHANGED <<kind, nilIn, closedIn, consumed, cancelled, gor, sent, read, closedOut, debt>>

Next ==
    \/ \E g \in Workers :
          \/ \E i \in Inputs : Receive(g, i) \/ InputEnds(g, i)
          \/ Tick(g) \/ OnCancelled(g) \/ Send(g) \/ GiveUp(g) \/ Return(g) \/ Fire(g)
    \/ Closer
    \/ \E i \in Inputs : CloseInput(i)
    \/ Cancel
    \/ \E o \in Outputs : Read(o)
    \/ StopReading

\* The goroutines run when they can.  A select takes a ready case now and then,
\* whichever others are ready, hence the strong fairness of the end of an input; an
\* input that is open owes nothing.  Clocks run; a reader that is there receives.
Fairness ==
    /\ \A g \in {1, 2} :
          /\ SF_vars(g \in Workers /\ \E i \in Inputs : InputEnds(g, i))
          /\ WF_vars(g \in Workers /\ OnCancelled(g))
          /\ WF_vars(g \in Workers /\ (Tick(g) \/ Send(g) \/ GiveUp(g) \/ Return(g)))
          /\ WF_vars(g \in Workers /\ Fire(g))
    /\ WF_vars(Closer)
    /\ \A o \in {1, 2} \cup 1 .. Fan : WF_vars(o \in Outputs /\ Read(o))

Spec     == Init /\ [][Next]_vars
FairSpec == Spec /\ Fairness

-----------------------------------------------------------------------------
\* What the outputs have to be, given what was received: definitions on whole
\* sequences, which know nothing of the loops.

\* out consists of the elements of made at the positions chosen, in their order.
Selects(out, made, chosen) ==
    /\ Len(out) = Cardinality(chosen)
    /\ \A k \in chosen : out[Cardinality({j \in chosen : j <= k})] = made[k]

\* What a function makes of its items, one value after the other,
Made ==
    LET c == consumed[1]
    IN CASE kind = "map"   -> [k \in DOMAIN c |-> Apply(c[k])]
         [] kind = "scan"  -> [k \in DOMAIN c |-> SubSeq(c, 1, k)]
         [] kind = "zip"   -> [k \in DOMAIN consumed[2] |-> <<c[k], consumed[2][k]>>]
         [] kind = "first" -> c \o consumed[2]
         [] OTHER          -> c

\* and whether the k-th of these values is for output o.
Gets(o, k) ==
    CASE kind = "filter"    -> Keep(consumed[1][k])
      [] kind = "take"      -> k <= N
      [] kind = "skip"      -> k > N
      [] kind = "fanOut"    -> o = ((k - 1) % Fan) + 1
      [] kind = "partition" -> Keep(consumed[1][k]) = (o = 1)
      [] OTHER              -> TRUE

Chosen(o, n) == {k \in 1 .. n : Gets(o, k)}

\* The values on their way to output o.
Pending(g, o) == {x.val : x \in {t \in ToSet(gor[g].todo) : t.out = o}}

\* What output o will have been given when the sends under way are done.
Coming(o) ==
    IF Pending(1, o) = {} THEN {sent[o]} ELSE {Append(sent[o], v) : v \in Pending(1, o)}

\* An output has what it gets of the first n items, and of all but for a cancellation.
ItemsDeliver ==
    \A o \in Outputs :
        /\ \E n \in 0 .. Len(Made) : Selects(sent[o], Made, Chosen(o, n))
        /\ ~cancelled => \A out \in Coming(o) : Selects(out, Made, Chosen(o, Len(Made)))

\* Merge keeps the order of each input, its items on the output being its first ones,
\* and loses nothing.
CameFrom(i, n) == Cardinality({p \in 1 .. n : sent[1][p][1] = i})
MergeDelivers ==
    /\ \A p \in DOMAIN sent[1] :
          \E i \in Inputs : sent[1][p] = <<i, CameFrom(i, p)>>
    /\ \A i \in Inputs :
          LET due == CameFrom(i, Len(sent[1])) + Cardinality(Pending(i, 1))
          IN /\ due <= Len(consumed[i])
             /\ ~cancelled => due = Len(consumed[i])

\* Debounce may skip items, but never goes back, and not the last one.
DebounceDelivers ==
    /\ ToSet(sent[1]) \subseteq ToSet(consumed[1])
    /\ \A j, k \in DOMAIN sent[1] : j < k => sent[1][j][2] < sent[1][k][2]
    /\ ~cancelled /\ consumed[1] # <<>>
          => Last(consumed[1]) \in ToSet(sent[1])
                 \cup (IF gor[1].pc = "gone" THEN {} ELSE ToSet(gor[1].held))

\* The batches of Buffer and Tumbling are runs of items, each from where the one
\* before it ended, and the rest is held while the goroutine is there.
Batch(k) == IF kind = "bufferWithReason" THEN sent[1][k].items ELSE sent[1][k]
End(k)   == IF k = 0 THEN 0 ELSE Last(Batch(k))[2]
BatchesDeliver ==
    LET c == consumed[1]
    IN /\ \A k \in DOMAIN sent[1] :
             Batch(k) # <<>> /\ Batch(k) = SubSeq(c, End(k - 1) + 1, End(k))
       /\ ~cancelled =>
             /\ gor[1].held = SubSeq(c, End(Len(sent[1])) + 1, Len(c))
             /\ gor[1].pc = "gone" => gor[1].held = <<>>

\* A batch of Sliding is a run of consecutive items; neither of its ends goes back.
SlidingDelivers ==
    LET s == sent[1]
    IN /\ \A k \in DOMAIN s :
             s[k] # <<>> /\ s[k] = SubSeq(consumed[1], s[k][1][2], Last(s[k])[2])
       /\ \A j, k \in DOMAIN s :
             j < k => s[j][1][2] <= s[k][1][2] /\ Last(s[j])[2] <= Last(s[k])[2]

\* Batches are not above the size, and the reason given with one is true: full for
\* the size, not full at the timeout, and none after the last (buffer.go:43-58,
\* 151-181).
BatchesTrue ==
    /\ kind \in Buffering => \A k \in DOMAIN sent[1] : Len(Batch(k)) <= N
    /\ kind = "bufferWithReason" =>
          \A k \in DOMAIN sent[1] :
              LET b == sent[1][k]
              IN /\ b.reason = "size" => Len(b.items) = N
                 /\ b.reason = "timeout" => Len(b.items) < N
                 /\ b.reason = "close" =>
                       k = Len(sent[1]) /\ (cancelled \/ 1 \in closedIn)

\* Whatever the readers, the clock and the owners of the inputs do, each output is
\* at every moment the beginning of what it has to be, and what is missing without
\* a cancellation is on its way: nothing is lost, repeated, reordered or sent to
\* the wrong output, and batches are what they say (transform.go, merge.go, tee.go,
\* broadcast.go, zip.go, partition.go, buffer.go, window.go, debounce.go,
\* throttle.go, first.go).
Delivered ==
    /\ BatchesTrue
    /\ CASE kind = "merge"    -> MergeDelivers
         [] kind = "debounce" -> DebounceDelivers
         [] kind = "sliding"  -> SlidingDelivers
         [] kind \in Buffering \cup {"tumbling"} -> BatchesDeliver
         [] OTHER             -> ItemsDeliver

\* Outputs are closed when no goroutine is left that could send on them, and only
\* for one of the reasons the functions give: the context, the end of the inputs,
\* or, for Take and First, having given what they had to give.
ClosedLast ==
    closedOut =>
        /\ \A g \in Workers : gor[g].pc = "gone" /\ gor[g].todo = <<>>
        /\ \/ cancelled \/ NothingToDo
           \/ kind = "merge" /\ Inputs \subseteq closedIn \cup nilIn
           \/ kind # "merge" /\ closedIn # {}
           \/ kind = "take" /\ Len(sent[1]) = N
           \/ kind = "first" /\ Len(sent[1]) = 1

\* The outputs get what they should, and are closed behind it (chanx/*.go).
OutputsRight == Delivered /\ ClosedLast

\* In any span of time Throttle sends no more than the full bucket, an item for each
\* interval that passed, and one for a tick that was kept while it was blocked
\* (throttle.go:41-71).
RateBounded == debt <= N + 1

\* A cancelled stage closes its outputs whether or not anyone reads them or still
\* sends to it; one whose inputs have ended does while its outputs are read.
Ends ==
    /\ cancelled ~> closedOut
    /\ (Inputs \subseteq closedIn \cup nilIn) ~> (closedOut \/ ~reading)
=============================================================================
