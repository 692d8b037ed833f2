---------------------------- MODULE StreamProofs ----------------------------
(***************************************************************************)
(* Proofs about the module Stream, for every set of pipelines, any number  *)
(* for Take, Skip and Batch and any number of items.  The operator and the *)
(* terminal are proved apart: what comes out of the operator follows from  *)
(* what its closure remembers, whatever reads it; what the terminal has    *)
(* made of it follows from the items alone.  Stop has an invariant of its  *)
(* own, which says which streams it still has to reach.                    *)
(***************************************************************************)
EXTENDS Stream, FiniteSetTheorems, SequenceTheorems, TLAPS

-----------------------------------------------------------------------------
(* The state *)

Ends   == {"open", "eof", "err"}
Things == Values \cup Seq(Values) \cup ({"fn"} \X Values) \cup (Values \X Values)
Memory == [n : Nat, held : Seq(Values), cur : Streams \cup {0}]
Room(s) == IF s = 1 THEN MaxItems ELSE MaxSub
Active == phase \in {"pull", "send"}

TypeOK ==
    /\ op \in Operators /\ term \in Terminals /\ source \in Sources
    /\ op = "batch" => N > 0
    /\ pulled \in [Streams -> Seq(Values)] /\ ended \in [Streams -> Ends]
    /\ \A s \in Streams : Len(pulled[s]) <= Room(s)
    /\ cuts \subseteq Nat
    /\ hidden \in BOOLEAN /\ recorded \in BOOLEAN /\ outside \in BOOLEAN
    /\ cancelled \in BOOLEAN
    /\ made \subseteq Streams /\ stopped \subseteq Streams /\ tostop \in Seq(Streams)
    /\ m \in Memory
    /\ phase \in {"pull", "send", "leave", "done"}
    /\ got \in Seq(Things)
    /\ answer \in {"none", "nil", "err"}
    /\ once \in {"free", "taken", "over"}

-----------------------------------------------------------------------------
(* What the closure of the operator remembers, and what has come out of it *)

PlainInv == got = pulled[1]

\* Only the last item can be missing, and then it is the last the source was asked for.
MapInv ==
    /\ got = [k \in 1 .. Len(got) |-> <<"fn", pulled[1][k]>>]
    /\ \/ Len(got) = Len(pulled[1])
       \/ Len(got) = Len(pulled[1]) - 1 /\ ended[1] = "open" /\ ~Active

Kept(p)   == {k \in 1 .. Len(p) : Keep(p[k])}
FilterInv == Selects(got, pulled[1], Kept(pulled[1]))

TakeInv == m.n = Len(pulled[1]) /\ m.n <= N /\ got = pulled[1]

SkipInv ==
    /\ m.n = IF Len(pulled[1]) <= N THEN Len(pulled[1]) ELSE N
    /\ got = SubSeq(pulled[1], N + 1, Len(pulled[1]))

TakeWhileInv ==
    LET low == AllLow(pulled[1], Len(pulled[1]))
    IN /\ got = IF low THEN pulled[1] ELSE Front(pulled[1])
       /\ Active => low

DropWhileInv ==
    LET p == pulled[1]
    IN \E k \in 0 .. Len(p) :
          /\ got = SubSeq(p, k + 1, Len(p))
          /\ AllLow(p, k) /\ (k < Len(p) => ~Keep(p[k + 1]))
          /\ m.n = IF k = Len(p) THEN 0 ELSE 1

\* What Distinct has seen are the values it was given.
New(p)      == {k \in 1 .. Len(p) : \A j \in 1 .. k - 1 : p[j] # p[k]}
DistinctInv == /\ m.held = got /\ ToSet(got) = ToSet(pulled[1])
               /\ Selects(got, pulled[1], New(pulled[1]))

ScanInv ==
    /\ m.held = pulled[1]
    /\ got = [k \in 1 .. Len(pulled[1]) |-> SubSeq(pulled[1], 1, k)]

\* How a sequence is cut into batches, given the places where the source has ended: what
\* Batched and Batches say of cuts, of any set of places.
Cut(i, k, c) ==
    /\ i < k /\ k <= i + N /\ (k < i + N => k \in c)
    /\ \A e \in c : ~(i < e /\ e < k)

CutAt(b, out, s, c) ==
    LET n == Len(out)
    IN /\ b \in [0 .. n -> 0 .. Len(s)] /\ b[0] = 0
       /\ \A j \in 1 .. n : out[j] = SubSeq(s, b[j - 1] + 1, b[j]) /\ Cut(b[j - 1], b[j], c)
       /\ \A e \in c : e <= b[n]

\* b[j] is the place of the last item of the j-th batch; what follows is held.
BatchEnds(b) ==
    LET p == pulled[1]
        n == Len(got)
    IN /\ CutAt(b, got, p, cuts) /\ Len(p) < b[n] + N
       /\ Active => m.held = SubSeq(p, b[n] + 1, Len(p))

BatchInv == \E b : BatchEnds(b)

\* Zip holds the item of its first stream until the second gives one.
ZipInv ==
    LET p == pulled[1]
        q == pulled[2]
    IN /\ Len(q) <= Len(p)
       /\ Active => \/ m.held = <<>> /\ Len(p) = Len(q)
                    \/ m.held = <<p[Len(p)]>> /\ Len(p) = Len(q) + 1
       /\ got = [k \in 1 .. Len(q) |-> <<p[k], q[k]>>]

\* FlatMap is in the sub-stream of the last item; the streams to come are empty.
FlatMapInv ==
    LET p == pulled[1]
    IN /\ m.n = Len(p) /\ m.held = <<>>
       /\ 1 \in made /\ made \subseteq 1 .. Len(p) + 1
       /\ \A s \in Streams \ made : pulled[s] = <<>>
       /\ m.cur # 0 => m.cur = Len(p) + 1 /\ m.cur \in made /\ m.cur # 1
       /\ Concatenates(got)

OperatorInv ==
    /\ op # "flatMap" => m.cur = 0 /\ made = IF op = "zip" THEN {1, 2} ELSE {1}
    /\ op \in {"none", "observe", "peek"} => PlainInv
    /\ op = "map"       => MapInv
    /\ op = "filter"    => FilterInv
    /\ op = "take"      => TakeInv
    /\ op = "skip"      => SkipInv
    /\ op = "takeWhile" => TakeWhileInv
    /\ op = "dropWhile" => DropWhileInv
    /\ op = "distinct"  => DistinctInv
    /\ op = "scan"      => ScanInv
    /\ op = "batch"     => BatchInv
    /\ op = "zip"       => ZipInv
    /\ op = "flatMap"   => FlatMapInv

-----------------------------------------------------------------------------
(* What the terminal has made of the items, and its answer *)

Excused == term = "first" /\ answer = "err"

TallyInv ==
    /\ phase = "send" => term = "toChan" /\ got # <<>> /\ tally = Front(got)
    /\ Excused => tally \in Along
    /\ phase # "send" /\ ~Excused =>
          \/ tally = Told(got)
          \/ term = "toChan" /\ answer = "err" /\ tally = Front(got)

\* Why a terminal may answer nil.
Enough ==
    \/ ended[1] = "eof" \/ (op = "zip" /\ ended[2] = "eof")
    \/ op = "map" /\ Len(got) < Len(pulled[1])
    \/ op = "take" /\ Len(pulled[1]) = N
    \/ op = "takeWhile" /\ ~Keep(Last(pulled[1]))
    \/ term \in {"first", "any", "all"} /\ got # <<>>

AnswerInv ==
    /\ answer = "none" <=> Active
    /\ recorded \/ (\E s \in Streams : ended[s] = "err") => answer = "err"
    /\ op = "none" /\ hidden => answer = "err"
    /\ answer = "nil" => Enough
    /\ term = "first" => Len(got) <= 1 /\ (Active => got = <<>>)
    /\ term \in {"any", "all"} =>
          \A k \in 1 .. Len(got) : k < Len(got) \/ Active => (Keep(got[k]) <=> term = "all")

-----------------------------------------------------------------------------
(* What Stop has yet to reach *)

StopInv ==
    /\ once = "free" => ~outside /\ phase # "done"
    /\ once # "taken" => tostop = <<>>
    /\ once # "free" => 1 \in stopped \cup ToSet(tostop)
    /\ once # "free" /\ ~outside => ~Active /\ made \subseteq stopped \cup ToSet(tostop)
    /\ phase = "done" => once = "over"
    /\ made \subseteq stopped \cup {1, m.cur} \cup (IF op = "zip" THEN {2} ELSE {})

IInv == TypeOK /\ OperatorInv /\ TallyInv /\ AnswerInv /\ StopInv

-----------------------------------------------------------------------------
(* Steps *)

Results == [m : Memory, res : {"more", "item", "eof", "err"}, val : Things \cup {0},
            with : Seq(Things), stops : SUBSET Streams]

\* The value that an error comes with, or none.
Brought == {<<>>} \cup {<<v>> : v \in Values}

\* The first two streams are there.
LEMMA TwoStreams == 1 \in Streams /\ 2 \in Streams /\ Streams \subseteq Nat \ {0}
  BY StreamAssumption DEF Streams

\* What an operator makes of an item, taken apart.
LEMMA OnItemForms ==
    ASSUME op \in Operators, NEW v, NEW r \in OnItem(m, v)
    PROVE  /\ op \in {"none", "observe", "peek"} => r = Item(m, v)
           /\ op = "map"       => r \in Map(m, v)
           /\ op = "filter"    => r = Filter(m, v)
           /\ op = "take"      => r = Take(m, v)
           /\ op = "skip"      => r = Skip(m, v)
           /\ op = "takeWhile" => r = TakeWhile(m, v)
           /\ op = "dropWhile" => r = DropWhile(m, v)
           /\ op = "distinct"  => r = Distinct(m, v)
           /\ op = "scan"      => r = Scan(m, v)
           /\ op = "batch"     => r = Batch(m, v)
           /\ op = "zip"       => r = ZipPair(m, v)
           /\ op = "flatMap"   => r \in FlatMap(m, v)
<1>1. CASE op \in {"none", "observe", "peek"}
  BY <1>1 DEF OnItem, Observe, Peek
<1>2. CASE op \in {"map", "filter", "take", "skip", "takeWhile", "dropWhile"}
  BY <1>2 DEF OnItem
<1>3. CASE op \in {"distinct", "scan", "batch", "zip", "flatMap"}
  BY <1>3 DEF OnItem
<1> QED BY <1>1, <1>2, <1>3 DEF Operators

\* What it makes of the end of an input.
LEMMA OnEofForms ==
    /\ op = "batch"   => OnEof(m) = BatchAtEof(m)
    /\ op = "zip"     => OnEof(m) = ZipAtEnd(m, "eof")
    /\ op = "flatMap" => OnEof(m) = FlatMapAtEof(m)
    /\ op \in Operators \ {"batch", "zip", "flatMap"} => OnEof(m) = Eof(m, {})
  BY DEF OnEof, Operators

\* What it makes of the failure of an input.
LEMMA OnErrForms ==
    ASSUME NEW w
    PROVE  /\ op = "batch" => OnErr(m, w) = BatchAtErr(m)
           /\ op = "zip"   => OnErr(m, w) = ZipAtEnd(m, "err")
           /\ op \in Operators \ {"batch", "zip"} =>
                 OnErr(m, w) = Fail(m, IF ZeroAtErr(m) THEN <<>> ELSE w)
<1>1. CASE op = "batch"
  BY <1>1 DEF OnErr, ZeroAtErr
<1>2. CASE op = "zip"
  BY <1>2 DEF OnErr, ZeroAtErr
<1>3. CASE op \notin {"batch", "zip"} /\ ZeroAtErr(m)
  BY <1>3 DEF OnErr
<1>4. CASE op \notin {"batch", "zip"} /\ ~ZeroAtErr(m)
  BY <1>4 DEF OnErr
<1> QED BY <1>1, <1>2, <1>3, <1>4

\* The stream that is asked.
LEMMA FromForms ==
    /\ op = "zip"     => From(m) = IF m.held = <<>> THEN 1 ELSE 2
    /\ op = "flatMap" => From(m) = IF m.cur = 0 THEN 1 ELSE m.cur
    /\ op \in Operators \ {"zip", "flatMap"} => From(m) = 1
  BY DEF From, Operators

\* What a step of Next does to the stream and, an item apart, to the terminal.
LEMMA ProceedForms ==
    ASSUME NEW r \in Results, Proceed(r)
    PROVE  /\ m' = r.m /\ stopped' = stopped \cup r.stops
           /\ made' = IF r.m.cur = 0 THEN made ELSE made \cup {r.m.cur}
           /\ IF r.res = "err" THEN recorded' = TRUE ELSE recorded' = recorded
           /\ r.res = "item" => /\ got' = Append(got, r.val)
                                /\ phase' \in {"pull", "send", "leave"}
           /\ r.res # "item" => got' = got
           /\ r.res \in {"more", "eof"} => tally' = tally
           /\ r.res = "more" => phase' = phase /\ answer' = answer
           /\ r.res = "eof"  => /\ phase' = "leave"
                                /\ answer' = IF recorded \/ (op = "none" /\ hidden')
                                             THEN "err" ELSE "nil"
           /\ r.res = "err"  => /\ phase' = "leave" /\ answer' = "err"
                                /\ tally' = IF term = "first" THEN r.with ELSE tally
<1>0. r.res \in {"more", "item", "eof", "err"}
  BY DEF Results
<1>1. CASE r.res = "more"
  BY <1>1 DEF Proceed
<1>2. CASE r.res = "item"
  BY <1>2 DEF Proceed
<1>3. CASE r.res = "eof"
  BY <1>3 DEF Proceed
<1>4. CASE r.res = "err"
  BY <1>4 DEF Proceed
<1> QED BY <1>0, <1>1, <1>2, <1>3, <1>4

\* A result is what it is put together from.
LEMMA PlainTypes ==
    ASSUME NEW s \in Memory, NEW res \in {"more", "eof", "err"}, NEW S \in SUBSET Streams
    PROVE  LET r == Result(s, res, 0, S)
           IN r \in Results /\ r.res = res /\ r.m = s /\ r.stops = S
  BY DEF Result, Results

\* The same for an item,
LEMMA ItemTypes ==
    ASSUME NEW s \in Memory, NEW x \in Things
    PROVE  LET r == Item(s, x)
           IN r \in Results /\ r.res = "item" /\ r.val = x /\ r.m = s /\ r.stops = {}
  BY DEF Item, Result, Results

\* for the next round of the loop,
LEMMA MoreTypes ==
    ASSUME NEW s \in Memory
    PROVE  LET r == More(s)
           IN r \in Results /\ r.res = "more" /\ r.m = s /\ r.stops = {}
  BY PlainTypes DEF More

\* for what ends the stream, and for an error.
LEMMA EndingTypes ==
    ASSUME NEW s \in Memory, NEW S \in SUBSET Streams
    PROVE  LET r == Eof(s, S)
           IN r \in Results /\ r.res = "eof" /\ r.m = s /\ r.stops = S
  BY PlainTypes DEF Eof

LEMMA FailTypes ==
    ASSUME NEW s \in Memory, NEW w \in Seq(Things)
    PROVE  LET r == Fail(s, w)
           IN /\ r \in Results /\ r.res = "err" /\ r.m = s /\ r.stops = {} /\ r.with = w
  BY DEF Fail, Result, Results

\* What the operators return are items.
LEMMA OnItemTypes ==
    ASSUME TypeOK, NEW v \in Values, NEW r \in OnItem(m, v),
           op = "flatMap" /\ m.cur = 0 => m.n + 2 \in Streams
    PROVE  r \in Results /\ (r.res = "item" => r.val \in Things)
<1>0. m \in Memory /\ op \in Operators /\ v \in Things /\ 1 \in Streams
  BY TwoStreams DEF TypeOK, Things
<1>1. CASE op \in {"none", "observe", "peek", "filter", "takeWhile"}
  BY <1>0, <1>1, ItemTypes, MoreTypes, EndingTypes, OnItemForms DEF Filter, TakeWhile
<1>2. CASE op = "map"
  <2> DEFINE x == <<"fn", v>>
  <2>1. x \in Things
    BY DEF Things
  <2>2. r \in {Item(m, x), Eof(m, {}), Fail(m, <<>>), Fail(m, <<x>>)}
    BY <1>0, <1>2, OnItemForms DEF Map
  <2> HIDE DEF x
  <2> DEFINE y == <<x>>
  <2>3. <<>> \in Seq(Things) /\ y \in Seq(Things) /\ {} \in SUBSET Streams
    BY <2>1
  <2> HIDE DEF y
  <2>4. CASE r = Item(m, x)
    BY <1>0, <2>1, <2>4, ItemTypes
  <2>5. CASE r = Eof(m, {})
    BY <1>0, <2>3, <2>5, EndingTypes
  <2>6. CASE r \in {Fail(m, <<>>), Fail(m, <<x>>)}
    <3>1. Fail(m, <<>>) \in Results /\ Fail(m, <<>>).res = "err"
      BY <1>0, <2>3, FailTypes
    <3>2. Fail(m, y) \in Results /\ Fail(m, y).res = "err"
      BY <1>0, <2>3, FailTypes
    <3> QED BY <2>6, <3>1, <3>2 DEF y
  <2> QED BY <2>2, <2>4, <2>5, <2>6
<1>3. CASE op \in {"take", "skip", "dropWhile"}
  <2>1. [m EXCEPT !.n = @ + 1] \in Memory /\ [m EXCEPT !.n = 1] \in Memory
    BY <1>0 DEF Memory
  <2> QED BY <1>0, <1>3, <2>1, ItemTypes, MoreTypes, EndingTypes, OnItemForms
          DEF Take, Skip, DropWhile
<1>4. CASE op \in {"distinct", "scan", "batch", "zip"}
  <2>1. Append(m.held, v) \in Seq(Values) /\ <<v>> \in Seq(Values) /\ <<>> \in Seq(Values)
    BY <1>0 DEF Memory
  <2>2. /\ [m EXCEPT !.held = Append(@, v)] \in Memory
        /\ [m EXCEPT !.held = Append(m.held, v)] \in Memory
        /\ [m EXCEPT !.held = <<>>] \in Memory /\ [m EXCEPT !.held = <<v>>] \in Memory
    BY <1>0, <2>1 DEF Memory
  <2>3. Append(m.held, v) \in Things
    BY <2>1 DEF Things
  <2>4. m.held # <<>> => <<m.held[1], v>> \in Things
    <3>1. m.held # <<>> => m.held[1] \in Values
      BY <1>0 DEF Memory
    <3> QED BY <3>1 DEF Things
  <2>5. op = "distinct" => r \in {More(m), Item([m EXCEPT !.held = Append(@, v)], v)}
    BY <1>0, OnItemForms DEF Distinct
  <2>6. op = "scan" => r = Item([m EXCEPT !.held = Append(m.held, v)], Append(m.held, v))
    BY <1>0, OnItemForms DEF Scan
  <2>7. op = "batch" => r \in {Item([m EXCEPT !.held = <<>>], Append(m.held, v)),
                              More([m EXCEPT !.held = Append(m.held, v)])}
    BY <1>0, OnItemForms DEF Batch
  <2>8. op = "zip" /\ m.held = <<>> => r = More([m EXCEPT !.held = <<v>>])
    BY <1>0, OnItemForms DEF ZipPair
  <2>9. op = "zip" /\ m.held # <<>> => r = Item([m EXCEPT !.held = <<>>], <<m.held[1], v>>)
    BY <1>0, OnItemForms DEF ZipPair
  <2> QED BY <1>0, <1>4, <2>2, <2>3, <2>4, <2>5, <2>6, <2>7, <2>8, <2>9, ItemTypes,
             MoreTypes, EndingTypes
<1>5. CASE op = "flatMap"
  <2>1. /\ [m EXCEPT !.n = @ + 1] \in Memory
        /\ m.cur = 0 => [m EXCEPT !.n = @ + 1, !.cur = m.n + 2] \in Memory
    <3>1. m.n + 1 \in Nat /\ (m.cur = 0 => m.n + 2 \in Streams \cup {0})
      BY <1>0, <1>5 DEF Memory
    <3> QED BY <1>0, <3>1 DEF Memory
  <2>2. \/ r = Item(m, v)
        \/ m.cur = 0 /\ r \in {More([m EXCEPT !.n = @ + 1]),
                               More([m EXCEPT !.n = @ + 1, !.cur = m.n + 2])}
    BY <1>0, <1>5, OnItemForms DEF FlatMap
  <2> QED BY <1>0, <2>1, <2>2, ItemTypes, MoreTypes, EndingTypes
<1> QED BY <1>0, <1>1, <1>2, <1>3, <1>4, <1>5 DEF Operators

\* What they make of the end or the failure of an input is a result as well.
LEMMA EndTypes ==
    ASSUME TypeOK
    PROVE  /\ OnEof(m) \in Results /\ (OnEof(m).res = "item" => OnEof(m).val \in Things)
           /\ \A w \in Brought : OnErr(m, w) \in Results /\ OnErr(m, w).res = "err"
           /\ Eof(m, {1}) \in Results
<1>0. /\ m \in Memory /\ op \in Operators /\ m.held \in Things /\ {1} \in SUBSET Streams
      /\ {} \in SUBSET Streams /\ m.cur \in Streams \cup {0} /\ m.held \in Seq(Values)
  BY TwoStreams DEF TypeOK, Things, Memory
<1>1. /\ [m EXCEPT !.held = <<>>] \in Memory /\ [m EXCEPT !.cur = 0] \in Memory
      /\ m.cur # 0 => {m.cur} \in SUBSET Streams
  <2>1. <<>> \in Seq(Values) /\ 0 \in Streams \cup {0}
    OBVIOUS
  <2>2. m.cur # 0 => m.cur \in Streams
    BY <1>0
  <2> QED BY <1>0, <2>1, <2>2 DEF Memory
<1>2. op = "zip" => {3 - From(m)} \in SUBSET Streams
  BY FromForms, TwoStreams
<1>3. ASSUME NEW w \in Brought PROVE OnErr(m, w) \in Results /\ OnErr(m, w).res = "err"
  <2>0. \A x \in Things : <<x>> \in Seq(Things)
    OBVIOUS
  <2>1. w \in Seq(Things) /\ <<>> \in Seq(Things)
    <3>1. CASE w = <<>>
      BY <3>1
    <3>2. ASSUME NEW v \in Values, w = <<v>> PROVE w \in Seq(Things)
      <4>1. v \in Things
        BY DEF Things
      <4> QED BY <2>0, <3>2, <4>1
    <3> QED BY <3>1, <3>2 DEF Brought
  <2>2. CASE op = "batch"
    <3> DEFINE x == IF m.held = <<>> THEN <<>> ELSE <<m.held>>
    <3>1. x \in Seq(Things)
      BY <1>0, <2>0, <2>1
    <3>2. OnErr(m, w) = Fail([m EXCEPT !.held = <<>>], x)
      BY <2>2, OnErrForms DEF BatchAtErr
    <3> HIDE DEF x
    <3> QED BY <1>1, <3>1, <3>2, FailTypes
  <2>3. CASE op = "zip"
    BY <1>0, <1>1, <1>2, <2>3, OnErrForms, PlainTypes DEF ZipAtEnd
  <2>4. CASE op \notin {"batch", "zip"}
    <3> DEFINE x == IF ZeroAtErr(m) THEN <<>> ELSE w
    <3>1. x \in Seq(Things)
      BY <2>1
    <3>2. OnErr(m, w) = Fail(m, x)
      BY <1>0, <2>4, OnErrForms
    <3> HIDE DEF x
    <3> QED BY <1>0, <3>1, <3>2, FailTypes
  <2> QED BY <2>2, <2>3, <2>4
<1>4. CASE op = "batch"
  BY <1>0, <1>1, <1>3, <1>4, OnEofForms, ItemTypes, MoreTypes, EndingTypes DEF BatchAtEof
<1>5. CASE op = "zip"
  BY <1>0, <1>1, <1>2, <1>3, <1>5, OnEofForms, PlainTypes, EndingTypes DEF ZipAtEnd
<1>6. CASE op = "flatMap"
  BY <1>0, <1>1, <1>3, <1>6, OnEofForms, PlainTypes, EndingTypes DEF FlatMapAtEof
<1> QED BY <1>0, <1>3, <1>4, <1>5, <1>6, OnEofForms, ItemTypes, MoreTypes, EndingTypes

-----------------------------------------------------------------------------
(* The steps of Next on the stream *)

Advances(r) ==
    /\ r \in Results /\ (r.res = "item" => r.val \in Things)
    /\ phase = "pull" /\ Proceed(r)
    /\ UNCHANGED <<op, term, source, once, tostop, outside, cancelled>>

Limited(r) == AtLimit /\ r = Eof(m, {1}) /\ UNCHANGED <<pulled, ended, cuts, hidden>>

Yielded(r) ==
    \E v \in Values :
        /\ From(m) \in Streams /\ Len(pulled[From(m)]) < Room(From(m)) /\ ~AtLimit
        /\ pulled' = [pulled EXCEPT ![From(m)] = Append(@, v)]
        /\ ended' = [ended EXCEPT ![From(m)] = "open"]
        /\ r \in OnItem(m, v)
        /\ UNCHANGED <<cuts, hidden>>

Ended(r) ==
    /\ From(m) \in Streams /\ ~AtLimit
    /\ ended' = [ended EXCEPT ![From(m)] = "eof"]
    /\ cuts' = IF From(m) = 1 THEN cuts \cup {Len(pulled[1])} ELSE cuts
    /\ hidden' \in BOOLEAN
    /\ r = OnEof(m)
    /\ UNCHANGED pulled

Broken(r) ==
    /\ From(m) \in Streams
    /\ ended' = [ended EXCEPT ![From(m)] = "err"]
    /\ \E w \in Brought : r = OnErr(m, w)
    /\ UNCHANGED <<pulled, cuts, hidden>>

\* The steps of the others, and those of the terminal between two calls of Next.
Quiet ==
    \/ SendItem \/ SendCancelled \/ Stop \/ StopOne \/ Return \/ Cancel
    \/ UNCHANGED vars

\* Every step is one of the others, or takes a result of Next from the operator.
LEMMA NextForms ==
    ASSUME TypeOK, OperatorInv, [Next]_vars
    PROVE  \/ Quiet
           \/ \E r : Advances(r) /\ (Limited(r) \/ Yielded(r) \/ Ended(r) \/ Broken(r))
<1>1. CASE TakeEnds
  <2>1. /\ phase = "pull" /\ AtLimit /\ Proceed(Eof(m, {1}))
        /\ UNCHANGED <<op, term, source, pulled, ended, cuts, hidden, once, tostop, outside, cancelled>>
    BY <1>1 DEF TakeEnds
  <2>2. Eof(m, {1}) \in Results /\ Eof(m, {1}).res # "item"
    <3>1. m \in Memory /\ {1} \in SUBSET Streams
      BY TwoStreams DEF TypeOK
    <3>2. Eof(m, {1}).res = "eof"
      BY <3>1, EndingTypes
    <3> QED BY <3>2, EndTypes
  <2> QED BY <2>1, <2>2 DEF Advances, Limited
<1>2. ASSUME NEW s \in Streams, Yield(s)
      PROVE  \E r : Advances(r) /\ Yielded(r)
  <2>0. PICK v \in Values : /\ pulled' = [pulled EXCEPT ![s] = Append(@, v)]
                            /\ \E r \in OnItem(m, v) : Proceed(r)
    BY <1>2 DEF Yield
  <2>1. PICK r \in OnItem(m, v) : Proceed(r)
    BY <2>0
  <2>2. s = From(m) /\ phase = "pull" /\ ~AtLimit
        /\ Len(pulled[s]) < Room(s)
    BY <1>2 DEF Yield, Pulling, CanYield, Room
  <2>3. op = "flatMap" /\ m.cur = 0 => m.n + 2 \in Streams
    <3> SUFFICES ASSUME op = "flatMap", m.cur = 0 PROVE m.n + 2 \in Streams
      OBVIOUS
    <3>1. s = 1 /\ Len(pulled[1]) < Room(1)
      BY <2>2, FromForms
    <3>2. m.n = Len(pulled[1])
      BY DEF OperatorInv, FlatMapInv
    <3>3. m.n \in Nat
      BY DEF TypeOK, Memory
    <3> QED BY <3>1, <3>2, <3>3, StreamAssumption DEF Room, Streams
  <2> QED BY <1>2, <2>0, <2>1, <2>2, <2>3, OnItemTypes DEF Yield, Advances, Yielded
<1>3. ASSUME NEW s \in Streams, End(s)
      PROVE  \E r : Advances(r) /\ Ended(r)
  BY <1>3, EndTypes DEF End, Pulling, Advances, Ended, TypeOK
<1>4. ASSUME NEW s \in Streams, Break(s)
      PROVE  \E r : Advances(r) /\ Broken(r)
  <2>1. PICK w \in Brought : Proceed(OnErr(m, w))
    BY <1>4 DEF Break, Brought
  <2>2. OnErr(m, w) \in Results /\ OnErr(m, w).res # "item"
    BY <2>1, EndTypes
  <2> QED BY <1>4, <2>1, <2>2 DEF Break, Pulling, Advances, Broken
<1> QED BY <1>1, <1>2, <1>3, <1>4 DEF Next, Quiet

\* What an item is to the terminal.
LEMMA ItemForms ==
    ASSUME NEW r, Proceed(r), r.res = "item"
    PROVE  /\ term = "toChan" => phase' = "send" /\ tally' = tally /\ answer' = answer
           /\ term # "toChan" => \E k \in OnGot(tally, r.val) :
                 /\ tally' = k.tally /\ answer' = k.ret
                 /\ phase' = IF k.ret = "none" THEN "pull" ELSE "leave"
  BY DEF Proceed

\* What the terminals make of an item, taken apart.
LEMMA OnGotForms ==
    ASSUME term \in Terminals, NEW t, NEW x, NEW k \in OnGot(t, x)
    PROVE  /\ k.ret \in {"none", "nil", "err"}
           /\ term \in {"toSlice", "toChan", "reduce"} => k = Keeps(Append(t, x), "none")
           /\ term = "forEach" => \E ret \in {"none", "err"} : k = Keeps(Append(t, x), ret)
           /\ term = "count" => k = Keeps(t + 1, "none")
           /\ term = "any" => k = IF Keep(x) THEN Keeps(TRUE, "nil") ELSE Keeps(t, "none")
           /\ term = "all" => k = IF Keep(x) THEN Keeps(t, "none") ELSE Keeps(FALSE, "nil")
           /\ term = "first" => k = Keeps(<<x>>, "nil")
           /\ term = "last" => k = Keeps(<<x>>, "none")
<1>1. CASE term \in {"toSlice", "toChan", "reduce"}
  BY <1>1 DEF OnGot, ToSlice, Reduce, Keeps
<1>2. CASE term = "forEach"
  BY <1>2 DEF OnGot, ForEach, Keeps
<1>3. CASE term \in {"count", "any", "all"}
  BY <1>3 DEF OnGot, Count, AnyOf, AllOf, Keeps
<1>4. CASE term \in {"first", "last"}
  BY <1>4 DEF OnGot, FirstOf, LastOf, Keeps
<1> QED BY <1>1, <1>2, <1>3, <1>4 DEF Terminals

\* The steps of the others leave the operator alone.
LEMMA QuietForms ==
    ASSUME TypeOK, Quiet
    PROVE  /\ UNCHANGED <<op, term, source, pulled, ended, cuts, hidden, made, m, recorded, got>>
           /\ Active' => Active
           /\ phase' = "send" => phase = "send"
  BY DEF Quiet, SendItem, SendCancelled, Stop, StopOne, Return, Cancel, vars, Active

\* What Stop has to stop.
LEMMA StopLists ==
    ASSUME TypeOK
    PROVE  /\ StopList \in Seq(Streams) /\ StopList # <<>>
           /\ {1, m.cur} \cap Streams \subseteq
                 ToSet(StopList) \cup (IF op = "flatMap" THEN {} ELSE {m.cur})
           /\ op = "zip" => 2 \in ToSet(StopList)
<1>0. /\ 1 \in Streams /\ 2 \in Streams /\ 0 \notin Streams
      /\ op \in Operators /\ m.cur \in Streams \cup {0}
  BY TwoStreams DEF TypeOK, Memory
<1>1. \A a, b : ToSet(<<a>>) = {a} /\ ToSet(<<a, b>>) = {a, b}
  BY DEF ToSet
<1>2. CASE op = "zip"
  BY <1>0, <1>1, <1>2 DEF StopList
<1>3. CASE op = "flatMap"
  BY <1>0, <1>1, <1>3 DEF StopList
<1>4. CASE op \notin {"zip", "flatMap"}
  BY <1>0, <1>1, <1>4 DEF StopList, Operators
<1> QED BY <1>2, <1>3, <1>4

\* The types at the start.
LEMMA InitTypes == Init => TypeOK
<1> SUFFICES ASSUME Init PROVE TypeOK
  OBVIOUS
<1>1. PICK c \in Cases : op = c[1] /\ term = c[2] /\ source = c[3]
  BY DEF Init
<1>2. op \in Operators /\ term \in Terminals /\ source \in Sources /\ (op = "batch" => N > 0)
  BY <1>1, StreamAssumption
<1>3. /\ pulled \in [Streams -> Seq(Values)] /\ ended \in [Streams -> Ends]
      /\ \A s \in Streams : Len(pulled[s]) <= Room(s)
  BY StreamAssumption DEF Init, Ends, Room
<1>4. m \in Memory
  BY DEF Init, Memory
<1>5. made \subseteq Streams /\ stopped \subseteq Streams /\ tostop \in Seq(Streams)
  BY TwoStreams DEF Init
<1>6. got \in Seq(Things)
  BY DEF Init
<1>7. /\ hidden \in BOOLEAN /\ recorded \in BOOLEAN /\ outside \in BOOLEAN
      /\ cancelled \in BOOLEAN /\ phase = "pull" /\ answer = "none" /\ once = "free"
      /\ cuts = {}
  BY DEF Init
<1> QED BY <1>2, <1>3, <1>4, <1>5, <1>6, <1>7 DEF TypeOK

\* The types after a step: the bounds on the streams are those of the sources.
LEMMA NextTypes == TypeOK /\ OperatorInv /\ [Next]_vars => TypeOK'
<1> SUFFICES ASSUME TypeOK, OperatorInv, [Next]_vars PROVE TypeOK'
  OBVIOUS
<1>1. CASE Quiet
  <2>1. /\ UNCHANGED <<op, term, source, pulled, ended, cuts, hidden, made, m, recorded, got>>
    BY <1>1, QuietForms
  <2>2. /\ stopped' \subseteq Streams /\ tostop' \in Seq(Streams)
        /\ once' \in {"free", "taken", "over"}
    <3>1. CASE Stop
      BY <3>1, StopLists DEF Stop, TypeOK
    <3>2. CASE StopOne
      <4>1. tostop # <<>> /\ tostop \in Seq(Streams)
        BY <3>2 DEF StopOne, TypeOK
      <4>2. Head(tostop) \in Streams /\ Tail(tostop) \in Seq(Streams)
        BY <4>1
      <4> QED BY <3>2, <4>2 DEF StopOne, TypeOK
    <3>3. CASE ~Stop /\ ~StopOne
      BY <1>1, <3>3 DEF Quiet, SendItem, SendCancelled, Return, Cancel, vars, TypeOK
    <3> QED BY <3>1, <3>2, <3>3
  <2>3. /\ phase' \in {"pull", "send", "leave", "done"} /\ answer' \in {"none", "nil", "err"}
        /\ outside' \in BOOLEAN /\ cancelled' \in BOOLEAN
    BY <1>1 DEF Quiet, SendItem, SendCancelled, Stop, StopOne, Return, Cancel, vars, TypeOK
  <2> QED BY <2>1, <2>2, <2>3 DEF TypeOK, Room, Streams
<1>2. ASSUME NEW r, Advances(r), Limited(r) \/ Yielded(r) \/ Ended(r) \/ Broken(r)
      PROVE  TypeOK'
  <2>0. /\ r \in Results /\ (r.res = "item" => r.val \in Things) /\ Proceed(r)
        /\ phase = "pull"
        /\ UNCHANGED <<op, term, source, once, tostop, outside, cancelled>>
    BY <1>2 DEF Advances
  <2>1. /\ pulled' \in [Streams -> Seq(Values)]
        /\ \A s \in Streams : Len(pulled'[s]) <= Room(s)
    <3>1. CASE UNCHANGED pulled
      BY <3>1 DEF TypeOK
    <3>2. CASE Yielded(r)
      <4>1. PICK v \in Values :
              /\ From(m) \in Streams /\ Len(pulled[From(m)]) < Room(From(m))
              /\ pulled' = [pulled EXCEPT ![From(m)] = Append(@, v)]
        BY <3>2 DEF Yielded
      <4>2. /\ Append(pulled[From(m)], v) \in Seq(Values)
            /\ Len(Append(pulled[From(m)], v)) = Len(pulled[From(m)]) + 1
        BY <4>1 DEF TypeOK
      <4>3. Room(From(m)) \in Nat /\ Len(pulled[From(m)]) \in Nat
        BY <4>1, StreamAssumption DEF Room, TypeOK
      <4> QED BY <4>1, <4>2, <4>3 DEF TypeOK
    <3> QED BY <1>2, <3>1, <3>2 DEF Limited, Ended, Broken
  <2>2. ended' \in [Streams -> Ends] /\ hidden' \in BOOLEAN /\ cuts' \subseteq Nat
    <3>1. Len(pulled[1]) \in Nat
      BY TwoStreams DEF TypeOK
    <3> QED BY <1>2, <3>1 DEF Limited, Yielded, Ended, Broken, TypeOK, Ends
  <2>3. /\ m' \in Memory /\ stopped' \subseteq Streams /\ made' \subseteq Streams
        /\ recorded' \in BOOLEAN
    BY <2>0, ProceedForms DEF TypeOK, Results, Memory
  <2>4. got' \in Seq(Things)
    <3>1. got \in Seq(Things) /\ (got' = got \/ (r.res = "item" /\ got' = Append(got, r.val)))
      BY <2>0, ProceedForms DEF TypeOK
    <3> QED BY <2>0, <3>1
  <2>5. r.res \in {"more", "item", "eof", "err"}
    BY <2>0 DEF Results
  <2>6. /\ phase' \in {"pull", "send", "leave", "done"} /\ answer' \in {"none", "nil", "err"}
    <3>1. CASE r.res = "item"
      <4>1. CASE term = "toChan"
        BY <2>0, <3>1, <4>1, ItemForms DEF TypeOK
      <4>2. CASE term # "toChan"
        <5>1. PICK k \in OnGot(tally, r.val) :
                 answer' = k.ret /\ phase' = IF k.ret = "none" THEN "pull" ELSE "leave"
          BY <2>0, <3>1, <4>2, ItemForms
        <5>2. term \in Terminals
          BY DEF TypeOK
        <5>3. k.ret \in {"none", "nil", "err"}
          BY <5>2, OnGotForms
        <5> QED BY <5>1, <5>3
      <4> QED BY <4>1, <4>2
    <3>2. CASE r.res # "item"
      BY <2>0, <2>5, <3>2, ProceedForms DEF TypeOK
    <3> QED BY <3>1, <3>2
  <2> QED BY <2>0, <2>1, <2>2, <2>3, <2>4, <2>6 DEF TypeOK, Room, Streams
<1> QED BY <1>1, <1>2, NextForms

-----------------------------------------------------------------------------
(* Stop *)

\* The stream that FlatMap is in changes when it had none, or when it has been stopped.
LEMMA CurrentMoves ==
    ASSUME TypeOK, NEW r, Limited(r) \/ Yielded(r) \/ Ended(r) \/ Broken(r)
    PROVE  /\ op # "flatMap" => r.m.cur = m.cur
           /\ r.m.cur = m.cur \/ m.cur = 0 \/ (r.m.cur = 0 /\ m.cur \in r.stops)
<1>0. m \in Memory /\ op \in Operators
  BY DEF TypeOK
<1> USE DEF Result, More, Item, Eof, Fail
<1>1. CASE Limited(r)
  BY <1>1 DEF Limited
<1>2. CASE Yielded(r)
  <2>1. PICK v \in Values : r \in OnItem(m, v)
    BY <1>2 DEF Yielded
  <2>2. CASE op \in {"none", "observe", "peek", "map", "filter", "take", "skip", "takeWhile",
                     "dropWhile"}
    BY <1>0, <2>1, <2>2, OnItemForms
       DEF Map, Filter, Take, Skip, TakeWhile, DropWhile, Memory
  <2>3. CASE op \in {"distinct", "scan", "batch", "zip"}
    BY <1>0, <2>1, <2>3, OnItemForms DEF Distinct, Scan, Batch, ZipPair, Memory
  <2>4. CASE op = "flatMap"
    BY <1>0, <2>1, <2>4, OnItemForms DEF FlatMap, Memory
  <2> QED BY <1>0, <2>2, <2>3, <2>4 DEF Operators
<1>3. CASE Ended(r)
  BY <1>0, <1>3, OnEofForms DEF Ended, BatchAtEof, ZipAtEnd, FlatMapAtEof, Memory
<1>4. CASE Broken(r)
  BY <1>0, <1>4, OnErrForms DEF Broken, BatchAtErr, ZipAtEnd, Memory
<1> QED BY <1>1, <1>2, <1>3, <1>4

\* At the start nothing has been stopped, and only the inputs of the operator are there.
LEMMA InitStop == Init => StopInv
<1> SUFFICES ASSUME Init PROVE StopInv
  OBVIOUS
<1> QED BY DEF Init, StopInv, ToSet

\* Taking the first of a list and the rest of it.
LEMMA ListParts ==
    ASSUME NEW S, NEW l \in Seq(S), l # <<>>
    PROVE  ToSet(l) = {Head(l)} \cup ToSet(Tail(l)) /\ (Len(l) = 1 => Tail(l) = <<>>)
<1>1. Len(l) \in Nat \ {0} /\ Len(Tail(l)) = Len(l) - 1 /\ Tail(l) \in Seq(S)
  OBVIOUS
<1>2. \A i \in 1 .. Len(l) - 1 : Tail(l)[i] = l[i + 1]
  OBVIOUS
<1>3. ToSet(l) \subseteq {Head(l)} \cup ToSet(Tail(l))
  <2> SUFFICES ASSUME NEW i \in 1 .. Len(l), i # 1 PROVE l[i] \in ToSet(Tail(l))
    BY DEF ToSet
  <2>1. i - 1 \in 1 .. Len(Tail(l)) /\ i - 1 \in 1 .. Len(l) - 1 /\ (i - 1) + 1 = i
    BY <1>1
  <2>2. Tail(l)[i - 1] = l[i]
    BY <1>2, <2>1
  <2>3. DOMAIN Tail(l) = 1 .. Len(Tail(l))
    BY <1>1
  <2> QED BY <2>1, <2>2, <2>3 DEF ToSet
<1>4. {Head(l)} \cup ToSet(Tail(l)) \subseteq ToSet(l)
  BY <1>1, <1>2 DEF ToSet
<1> QED BY <1>1, <1>3, <1>4

\* Stop keeps its invariant: the list that stopNow makes has all that is not stopped yet.
LEMMA NextStop == TypeOK /\ OperatorInv /\ StopInv /\ [Next]_vars => StopInv'
<1> SUFFICES ASSUME TypeOK, OperatorInv, StopInv, [Next]_vars PROVE StopInv'
  OBVIOUS
<1>0. /\ {1} \subseteq Streams /\ 0 \notin Streams
      /\ m.cur \in Streams \cup {0} /\ made \subseteq Streams
  BY TwoStreams DEF TypeOK, Memory
<1>1. CASE Stop
  <2>1. /\ once = "free" /\ once' = "taken" /\ tostop' = StopList
        /\ (phase = "leave" /\ outside' = outside) \/ outside' = TRUE
        /\ UNCHANGED <<op, made, stopped, m, phase>>
    BY <1>1 DEF Stop
  <2>2. made \subseteq stopped \cup ToSet(StopList)
    BY <1>0, StopLists DEF StopInv, OperatorInv, TypeOK
  <2>3. 1 \in ToSet(StopList)
    BY <1>0, StopLists DEF OperatorInv
  <2> QED BY <2>1, <2>2, <2>3 DEF StopInv, Active
<1>2. CASE StopOne
  <2>1. /\ once = "taken" /\ tostop # <<>> /\ tostop' = Tail(tostop)
        /\ stopped' = stopped \cup {Head(tostop)}
        /\ once' = IF Len(tostop) = 1 THEN "over" ELSE "taken"
        /\ UNCHANGED <<op, made, m, phase, outside>>
    BY <1>2 DEF StopOne
  <2>2. /\ ToSet(tostop) = {Head(tostop)} \cup ToSet(Tail(tostop))
        /\ Len(tostop) = 1 => Tail(tostop) = <<>>
    BY <2>1, ListParts DEF TypeOK
  <2> QED BY <2>1, <2>2 DEF StopInv, Active
<1>3. CASE SendItem \/ SendCancelled \/ Return \/ Cancel \/ UNCHANGED vars
  BY <1>3 DEF SendItem, SendCancelled, Return, Cancel, vars, StopInv, Active
<1>4. ASSUME NEW r, Advances(r), Limited(r) \/ Yielded(r) \/ Ended(r) \/ Broken(r)
      PROVE  StopInv'
  <2>1. /\ r \in Results /\ Proceed(r) /\ phase = "pull"
        /\ UNCHANGED <<op, once, tostop, outside>>
    BY <1>4 DEF Advances
  <2>2. /\ m' = r.m /\ stopped' = stopped \cup r.stops
        /\ made' = IF r.m.cur = 0 THEN made ELSE made \cup {r.m.cur}
        /\ phase' \in {"pull", "send", "leave"}
    BY <2>1, ProceedForms DEF Results
  <2>3. r.m.cur = m.cur \/ m.cur = 0 \/ (r.m.cur = 0 /\ m.cur \in r.stops)
    BY <1>4, CurrentMoves
  <2>4. once # "free" => outside
    BY <2>1 DEF StopInv, Active
  <2>5. made' \subseteq stopped' \cup {1, m'.cur} \cup (IF op' = "zip" THEN {2} ELSE {})
    BY <1>0, <2>1, <2>2, <2>3 DEF StopInv
  <2> QED BY <2>1, <2>2, <2>4, <2>5 DEF StopInv
<1> QED BY <1>1, <1>2, <1>3, <1>4, NextForms DEF Quiet

-----------------------------------------------------------------------------
(* The terminal *)

\* What the terminals have to answer, taken apart.
LEMMA ToldForms ==
    ASSUME term \in Terminals, NEW g
    PROVE  /\ term \in {"toSlice", "toChan", "forEach", "reduce"} => Told(g) = g
           /\ term = "count" => Told(g) = Len(g)
           /\ term = "any" => Told(g) = \E k \in DOMAIN g : Keep(g[k])
           /\ term = "all" => Told(g) = \A k \in DOMAIN g : Keep(g[k])
           /\ term = "first" => Told(g) = IF g = <<>> THEN <<>> ELSE <<g[1]>>
           /\ term = "last" => Told(g) = IF g = <<>> THEN <<>> ELSE <<Last(g)>>
<1>1. CASE term \in {"toSlice", "toChan", "forEach", "reduce"}
  BY <1>1 DEF Told
<1>2. CASE term \in {"count", "first", "last"}
  BY <1>2 DEF Told
<1>3. CASE term = "any"
  BY <1>3 DEF Told
<1>4. CASE term = "all"
  BY <1>4 DEF Told
<1> QED BY <1>1, <1>2, <1>3, <1>4 DEF Terminals

\* One more element.
LEMMA OneMore ==
    ASSUME NEW S, NEW g \in Seq(S), NEW x \in S
    PROVE  LET h == Append(g, x)
           IN /\ h \in Seq(S) /\ h # <<>> /\ Len(h) = Len(g) + 1
              /\ \A k \in 1 .. Len(g) : h[k] = g[k]
              /\ h[Len(g) + 1] = x /\ Last(h) = x /\ Front(h) = g
<1> DEFINE h == Append(g, x)
<1>1. h \in Seq(S) /\ h # <<>> /\ Len(h) = Len(g) + 1 /\ Len(g) \in Nat
  OBVIOUS
<1>2. (\A k \in 1 .. Len(g) : h[k] = g[k]) /\ h[Len(g) + 1] = x
  OBVIOUS
<1>3. Last(h) = x
  BY <1>1, <1>2 DEF Last
<1>4. Front(h) = g
  <2>1. Front(h) = [i \in 1 .. Len(g) |-> h[i]]
    BY <1>1 DEF Front
  <2>2. g = [i \in 1 .. Len(g) |-> g[i]]
    OBVIOUS
  <2> QED BY <1>2, <2>1, <2>2
<1> QED BY <1>1, <1>2, <1>3, <1>4

\* An item that is handed on at the end of what was handed on.
LEMMA HandOn ==
    ASSUME NEW S, NEW g \in Seq(S), g # <<>> PROVE Append(Front(g), Last(g)) = g
<1> DEFINE n == Len(g) - 1
<1>1. n \in Nat /\ Len(g) = n + 1 /\ g = [i \in 1 .. n + 1 |-> g[i]]
  OBVIOUS
<1>2. Front(g) = [i \in 1 .. n |-> g[i]] /\ Last(g) = g[n + 1]
  BY <1>1 DEF Front, Last
<1>3. Front(g) \in Seq(S) /\ Len(Front(g)) = n
  BY <1>1, <1>2
<1>4. \A i \in 1 .. n + 1 : Append(Front(g), g[n + 1])[i] = g[i]
  BY <1>1, <1>2, <1>3
<1>5. Append(Front(g), g[n + 1]) \in Seq(S) /\ Len(Append(Front(g), g[n + 1])) = n + 1
  <2>1. g[n + 1] \in S
    BY <1>1
  <2>2. \A f \in Seq(S), x \in S : Append(f, x) \in Seq(S) /\ Len(Append(f, x)) = Len(f) + 1
    OBVIOUS
  <2> QED BY <1>3, <2>1, <2>2
<1> QED BY <1>1, <1>2, <1>4, <1>5

\* The predicates of Any and All have let everything pass as long as they go on.
PassesAll == term \in {"any", "all"} => \A k \in 1 .. Len(got) : Keep(got[k]) <=> term = "all"

\* The loop of a terminal, once round.
LEMMA Tells ==
    ASSUME term \in Terminals, got \in Seq(Things), PassesAll, tally = Told(got),
           term = "first" => got = <<>>,
           NEW x \in Things, NEW k \in OnGot(tally, x)
    PROVE  /\ k.tally = Told(Append(got, x))
           /\ k.ret = "nil" => term \in {"first", "any", "all"}
           /\ k.ret = "none" => term # "first"
           /\ term \in {"any", "all"} =>
                 (k.ret = "none" <=> (Keep(x) <=> term = "all"))
<1> DEFINE h == Append(got, x)
<1>0. /\ h # <<>> /\ Len(h) = Len(got) + 1 /\ DOMAIN h = 1 .. Len(got) + 1
      /\ \A j \in 1 .. Len(got) : h[j] = got[j]
      /\ h[Len(got) + 1] = x /\ Last(h) = x
      /\ DOMAIN got = 1 .. Len(got) /\ Len(got) \in Nat
  BY OneMore
<1> HIDE DEF h
<1>1. CASE term \in {"toSlice", "toChan", "reduce", "forEach"}
  <2>1. Told(got) = got /\ Told(h) = h
    BY <1>1, ToldForms
  <2>2. \E ret \in {"none", "err"} : k = Keeps(Append(got, x), ret)
    BY <1>1, <2>1, OnGotForms
  <2>3. k.tally = h /\ k.ret \in {"none", "err"}
    BY <2>2 DEF Keeps, h
  <2> QED BY <1>1, <2>1, <2>3 DEF h
<1>2. CASE term = "count"
  <2>1. Told(got) = Len(got) /\ Told(h) = Len(h)
    BY <1>2, ToldForms
  <2>2. k = Keeps(Len(got) + 1, "none")
    BY <1>2, <2>1, OnGotForms
  <2> QED BY <1>0, <1>2, <2>1, <2>2 DEF Keeps, h
<1>3. CASE term = "first"
  <2>1. h[1] = x
    BY <1>0, <1>3
  <2>2. Told(h) = <<x>>
    BY <1>0, <1>3, <2>1, ToldForms
  <2>3. k = Keeps(<<x>>, "nil")
    BY <1>3, OnGotForms
  <2> QED BY <1>3, <2>2, <2>3 DEF Keeps, h
<1>6. CASE term = "last"
  <2>1. Told(h) = <<x>>
    BY <1>0, <1>6, ToldForms
  <2>2. k = Keeps(<<x>>, "none")
    BY <1>6, OnGotForms
  <2> QED BY <1>6, <2>1, <2>2 DEF Keeps, h
<1>4. CASE term = "any"
  <2>1. \A j \in DOMAIN got : ~Keep(got[j])
    BY <1>0, <1>4 DEF PassesAll
  <2>2. (\E j \in DOMAIN h : Keep(h[j])) <=> Keep(x)
    BY <1>0, <2>1
  <2>3. tally = FALSE
    BY <1>4, <2>1, ToldForms
  <2>4. Told(h) = IF Keep(x) THEN TRUE ELSE FALSE
    BY <1>4, <2>2, ToldForms
  <2>5. k = IF Keep(x) THEN Keeps(TRUE, "nil") ELSE Keeps(tally, "none")
    BY <1>4, OnGotForms
  <2>6. CASE Keep(x)
    <3>1. k = Keeps(TRUE, "nil") /\ Told(h) = TRUE
      BY <2>4, <2>5, <2>6
    <3> QED BY <1>4, <2>6, <3>1 DEF Keeps, h
  <2>7. CASE ~Keep(x)
    <3>1. k = Keeps(FALSE, "none") /\ Told(h) = FALSE
      BY <2>3, <2>4, <2>5, <2>7
    <3> QED BY <1>4, <2>7, <3>1 DEF Keeps, h
  <2> QED BY <2>6, <2>7
<1>5. CASE term = "all"
  <2>1. \A j \in DOMAIN got : Keep(got[j])
    BY <1>0, <1>5 DEF PassesAll
  <2>2. (\A j \in DOMAIN h : Keep(h[j])) <=> Keep(x)
    BY <1>0, <2>1
  <2>3. tally = TRUE
    BY <1>5, <2>1, ToldForms
  <2>4. Told(h) = IF Keep(x) THEN TRUE ELSE FALSE
    BY <1>5, <2>2, ToldForms
  <2>5. k = IF Keep(x) THEN Keeps(tally, "none") ELSE Keeps(FALSE, "nil")
    BY <1>5, OnGotForms
  <2>6. CASE Keep(x)
    <3>1. k = Keeps(TRUE, "none") /\ Told(h) = TRUE
      BY <2>3, <2>4, <2>5, <2>6
    <3> QED BY <1>5, <2>6, <3>1 DEF Keeps, h
  <2>7. CASE ~Keep(x)
    <3>1. k = Keeps(FALSE, "nil") /\ Told(h) = FALSE
      BY <2>4, <2>5, <2>7
    <3> QED BY <1>5, <2>7, <3>1 DEF Keeps, h
  <2> QED BY <2>6, <2>7
<1> QED BY <1>1, <1>2, <1>3, <1>4, <1>5, <1>6 DEF Terminals

\* What makes Next answer io.EOF or an error.
LEMMA WhyItEnds ==
    ASSUME TypeOK, OperatorInv, op = "none" => ~hidden, \A s \in Streams : ended[s] # "err",
           NEW r, Advances(r),
           Limited(r) \/ Yielded(r) \/ Ended(r) \/ Broken(r)
    PROVE  /\ (\E s \in Streams : ended'[s] = "err") => r.res = "err"
           /\ op = "none" /\ hidden' => r.res = "eof"
           /\ r.res = "eof" => Enough'
<1>0. /\ m \in Memory /\ op \in Operators /\ ended \in [Streams -> Ends]
      /\ r \in Results /\ op' = op /\ term' = term /\ Proceed(r) /\ Active
  BY DEF TypeOK, Advances, Active
<1>1. CASE Limited(r)
  <2>1. op = "take" /\ m.n = Len(pulled[1]) /\ m.n <= N /\ m.n >= N /\ m.n \in Nat
    BY <1>0, <1>1 DEF Limited, AtLimit, OperatorInv, TakeInv, Memory
  <2>2. Len(pulled'[1]) = N
    BY <1>1, <2>1, StreamAssumption DEF Limited
  <2> QED BY <1>0, <1>1, <2>1, <2>2 DEF Limited, Enough
<1>2. CASE Yielded(r)
  <2>1. PICK v \in Values : /\ pulled' = [pulled EXCEPT ![From(m)] = Append(@, v)]
                            /\ r \in OnItem(m, v) /\ From(m) \in Streams
    BY <1>2 DEF Yielded
  <2>2. hidden' = hidden /\ \A s \in Streams : ended'[s] # "err"
    BY <1>0, <1>2 DEF Yielded
  <2>3. r.res = "eof" => op = "map" \/ (op = "takeWhile" /\ ~Keep(v))
    <3> USE DEF More, Item, Eof, Fail, Result
    <3>1. CASE op \in {"none", "observe", "peek", "filter", "take", "skip", "dropWhile"}
      BY <1>0, <2>1, <3>1, OnItemForms DEF Filter, Take, Skip, DropWhile
    <3>4. CASE op = "takeWhile"
      BY <1>0, <2>1, <3>4, OnItemForms DEF TakeWhile
    <3>2. CASE op \in {"distinct", "scan", "batch", "zip", "flatMap"}
      BY <1>0, <2>1, <3>2, OnItemForms DEF Distinct, Scan, Batch, ZipPair, FlatMap
    <3> QED BY <1>0, <3>1, <3>2, <3>4 DEF Operators
  <2>4. op = "takeWhile" => Last(pulled'[1]) = v
    <3> SUFFICES ASSUME op = "takeWhile" PROVE Last(pulled'[1]) = v
      OBVIOUS
    <3>1. pulled'[1] = Append(pulled[1], v) /\ pulled[1] \in Seq(Values)
      BY <2>1, FromForms, TwoStreams DEF TypeOK, Operators
    <3> QED BY <3>1, OneMore
  <2>5. op = "map" /\ r.res = "eof" => Len(got') < Len(pulled'[1])
    <3> SUFFICES ASSUME op = "map", r.res = "eof" PROVE Len(got') < Len(pulled'[1])
      OBVIOUS
    <3>1. pulled'[1] = Append(pulled[1], v) /\ pulled[1] \in Seq(Values)
      BY <2>1, FromForms, TwoStreams DEF TypeOK, Operators
    <3>2. got' = got /\ Len(got) = Len(pulled[1])
      BY <1>0, ProceedForms DEF OperatorInv, MapInv
    <3> QED BY <3>1, <3>2
  <2> QED BY <1>0, <2>2, <2>3, <2>4, <2>5 DEF Enough
<1>3. CASE Ended(r)
  <2>1. ended' = [ended EXCEPT ![From(m)] = "eof"] /\ r = OnEof(m) /\ From(m) \in Streams
    BY <1>3 DEF Ended
  <2>2. \A s \in Streams : ended'[s] # "err"
    BY <1>0, <2>1
  <2>3. op = "none" => r.res = "eof"
    BY <2>1, OnEofForms DEF Eof, Result, Operators
  <2>4. r.res = "eof" => From(m) = 1 \/ (op = "zip" /\ From(m) = 2)
    BY <1>0, <2>1, OnEofForms, FromForms
       DEF FlatMapAtEof, Eof, Result
  <2> QED BY <1>0, <2>1, <2>2, <2>3, <2>4 DEF Enough
<1>4. CASE Broken(r)
  BY <1>4, EndTypes DEF Broken
<1> QED BY <1>1, <1>2, <1>3, <1>4

\* The value that comes with the first answer of Next when that is an error.
LEMMA ErrAlong ==
    ASSUME TypeOK, OperatorInv, got = <<>>,
           NEW r, Advances(r), r.res = "err", Limited(r) \/ Yielded(r) \/ Ended(r) \/ Broken(r)
    PROVE  r.with \in Along'
<1>0. /\ m \in Memory /\ op \in Operators /\ op' = op /\ Active
      /\ pulled[1] \in Seq(Values) /\ 1 \in Streams /\ pulled \in [Streams -> Seq(Values)]
  BY TwoStreams DEF TypeOK, Advances, Active
<1>1. CASE Limited(r) \/ Ended(r)
  BY <1>0, <1>1, OnEofForms
     DEF Limited, Ended, BatchAtEof, ZipAtEnd, FlatMapAtEof, Item, Eof, Result
<1>2. CASE Yielded(r)
  <2>1. PICK v \in Values :
          pulled' = [pulled EXCEPT ![From(m)] = Append(@, v)] /\ r \in OnItem(m, v)
    BY <1>2 DEF Yielded
  <2>2. op = "map"
    <3> USE DEF More, Item, Eof, Result
    <3>1. CASE op \in {"none", "observe", "peek", "filter", "take", "skip", "dropWhile"}
      BY <1>0, <2>1, <3>1, OnItemForms DEF Filter, Take, Skip, DropWhile
    <3>2. CASE op = "takeWhile"
      BY <1>0, <2>1, <3>2, OnItemForms DEF TakeWhile
    <3>3. CASE op \in {"distinct", "scan", "batch", "zip", "flatMap"}
      BY <1>0, <2>1, <3>3, OnItemForms DEF Distinct, Scan, Batch, ZipPair, FlatMap
    <3> QED BY <1>0, <3>1, <3>2, <3>3 DEF Operators
  <2>3. r.with \in {<<>>, << <<"fn", v>> >>}
    BY <1>0, <2>1, <2>2, OnItemForms DEF Map, Item, Eof, Fail, Result
  <2>4. v \in ToSet(pulled'[1])
    <3>1. pulled'[1] = Append(pulled[1], v)
      BY <1>0, <2>1, <2>2, FromForms DEF Operators
    <3>2. /\ DOMAIN Append(pulled[1], v) = 1 .. Len(pulled[1]) + 1 /\ Len(pulled[1]) \in Nat
          /\ Append(pulled[1], v)[Len(pulled[1]) + 1] = v
      BY <1>0
    <3> QED BY <3>1, <3>2 DEF ToSet
  <2> QED BY <1>0, <2>2, <2>3, <2>4 DEF Along
<1>3. CASE Broken(r)
  <2>1. PICK w \in Brought : r = OnErr(m, w)
    BY <1>3 DEF Broken
  <2>2. pulled' = pulled
    BY <1>3 DEF Broken
  <2>3. CASE op = "batch"
    <3>1. PICK b : BatchEnds(b)
      BY <2>3 DEF OperatorInv, BatchInv
    <3>2. m.held = SubSeq(pulled[1], 1, Len(pulled[1]))
      BY <1>0, <3>1 DEF BatchEnds, CutAt
    <3>3. m.held = pulled[1]
      BY <1>0, <3>2
    <3>4. r.with = IF m.held = <<>> THEN <<>> ELSE <<m.held>>
      BY <2>1, <2>3, OnErrForms DEF BatchAtErr, Fail, Result
    <3> QED BY <1>0, <2>2, <2>3, <3>3, <3>4 DEF Along
  <2>4. CASE op = "zip"
    <3>1. r.with = <<>>
      BY <2>1, <2>4, OnErrForms DEF ZipAtEnd, Result
    <3> QED BY <1>0, <2>4, <3>1 DEF Along
  <2>5. CASE op \notin {"batch", "zip"}
    <3>1. r.with = IF ZeroAtErr(m) THEN <<>> ELSE w
      BY <1>0, <2>1, <2>5, OnErrForms DEF Fail, Result
    <3>2. CASE op \in {"map", "scan"}
      BY <1>0, <3>1, <3>2 DEF ZeroAtErr, Along
    <3>3. CASE op = "skip" /\ Len(pulled[1]) < N
      <4>1. m.n < N
        BY <1>0, <3>3, StreamAssumption DEF OperatorInv, SkipInv
      <4> QED BY <1>0, <2>2, <3>1, <3>3, <4>1 DEF ZeroAtErr, Along
    <3>4. CASE op \notin {"map", "scan"} /\ ~(op = "skip" /\ Len(pulled[1]) < N)
      <4>1. Along' = Brought
        BY <1>0, <2>2, <2>5, <3>4 DEF Along, Brought
      <4> QED BY <2>1, <3>1, <4>1 DEF Brought
    <3> QED BY <3>2, <3>3, <3>4
  <2> QED BY <2>3, <2>4, <2>5
<1> QED BY <1>1, <1>2, <1>3

\* A terminal that has seen nothing has told what there is to tell.
LEMMA InitAnswers == Init => TallyInv /\ AnswerInv
<1> SUFFICES ASSUME Init PROVE TallyInv /\ AnswerInv
  OBVIOUS
<1>0. term \in Terminals
  BY InitTypes DEF TypeOK
<1>1. /\ phase = "pull" /\ got = <<>> /\ tally = Start /\ answer = "none"
      /\ ~hidden /\ ~recorded /\ ended = [s \in Streams |-> "open"]
  BY DEF Init
<1>2. tally = Told(got)
  <2>1. CASE term \in {"toSlice", "toChan", "forEach", "reduce", "first", "last"}
    BY <1>1, <2>1, ToldForms DEF Start, Terminals
  <2>2. CASE term = "count"
    BY <1>1, <2>2, ToldForms DEF Start, Terminals
  <2>3. CASE term = "any"
    <3>1. ~(\E k \in DOMAIN got : Keep(got[k]))
      BY <1>1
    <3> QED BY <1>1, <2>3, <3>1, ToldForms DEF Start, Terminals
  <2>4. CASE term = "all"
    <3>1. \A k \in DOMAIN got : Keep(got[k])
      BY <1>1
    <3> QED BY <1>1, <2>4, <3>1, ToldForms DEF Start, Terminals
  <2> QED BY <1>0, <2>1, <2>2, <2>3, <2>4 DEF Terminals
<1> QED BY <1>1, <1>2 DEF TallyInv, AnswerInv, Active, Excused

\* The tally stays what the items make it, and the answer stays justified.
LEMMA NextAnswers ==
    TypeOK /\ OperatorInv /\ TallyInv /\ AnswerInv /\ [Next]_vars => TallyInv' /\ AnswerInv'
<1> SUFFICES ASSUME TypeOK, OperatorInv, TallyInv, AnswerInv, [Next]_vars
             PROVE  TallyInv' /\ AnswerInv'
  OBVIOUS
<1>0. term \in Terminals /\ got \in Seq(Things)
  BY DEF TypeOK
<1>1. CASE Quiet
  <2>0. /\ UNCHANGED <<op, term, source, pulled, ended, cuts, hidden, made, m, recorded, got>>
    BY <1>1, QuietForms
  <2>1. Enough' = Enough /\ Along' = Along
    BY <2>0 DEF Enough, Along
  <2>2. Told(got)' = Told(got)
    BY <2>0 DEF Told
  <2>3. CASE SendItem
    <3>1. /\ phase = "send" /\ phase' = "pull" /\ answer' = answer
          /\ \E k \in OnGot(tally, Last(got)) : tally' = k.tally
      BY <2>3 DEF SendItem
    <3>2. term = "toChan" /\ got # <<>> /\ tally = Front(got)
      BY <3>1 DEF TallyInv
    <3>3. tally' = Append(tally, Last(got))
      BY <1>0, <3>1, <3>2, OnGotForms DEF Keeps
    <3>4. tally' = Told(got)
      BY <1>0, <3>2, <3>3, HandOn, ToldForms
    <3> QED BY <2>0, <2>1, <2>2, <3>1, <3>2, <3>4 DEF TallyInv, AnswerInv, Active, Excused
  <2>4. CASE SendCancelled
    <3>1. phase = "send" /\ phase' = "leave" /\ answer' = "err" /\ tally' = tally
      BY <2>4 DEF SendCancelled
    <3>2. term = "toChan" /\ got # <<>> /\ tally = Front(got)
      BY <3>1 DEF TallyInv
    <3> QED BY <2>0, <2>1, <3>1, <3>2 DEF TallyInv, AnswerInv, Active, Excused
  <2>5. CASE Stop \/ StopOne \/ Return \/ Cancel \/ UNCHANGED vars
    <3>1. /\ UNCHANGED <<tally, answer>>
          /\ phase' = phase \/ (phase = "leave" /\ phase' = "done")
      BY <2>5 DEF Stop, StopOne, Return, Cancel, vars
    <3> QED BY <2>0, <2>1, <2>2, <3>1 DEF TallyInv, AnswerInv, Active, Excused
  <2> QED BY <1>1, <2>3, <2>4, <2>5 DEF Quiet
<1>2. ASSUME NEW r, Advances(r), Limited(r) \/ Yielded(r) \/ Ended(r) \/ Broken(r)
      PROVE  TallyInv' /\ AnswerInv'
  <2>0. /\ r \in Results /\ (r.res = "item" => r.val \in Things) /\ Proceed(r)
        /\ phase = "pull" /\ op' = op /\ term' = term
    BY <1>2 DEF Advances
  <2>1. /\ answer = "none" /\ ~recorded /\ (\A s \in Streams : ended[s] # "err")
        /\ (op = "none" => ~hidden) /\ tally = Told(got) /\ PassesAll
        /\ (term = "first" => got = <<>>)
    BY <2>0 DEF AnswerInv, TallyInv, Active, PassesAll, Excused
  <2>2. /\ (\E s \in Streams : ended'[s] = "err") => r.res = "err"
        /\ op = "none" /\ hidden' => r.res = "eof"
        /\ r.res = "eof" => Enough'
    BY <1>2, <2>1, WhyItEnds
  <2>3. Told(got)' = Told(got')
    BY <2>0 DEF Told
  <2>4. CASE r.res = "item"
    <3>1. got' = Append(got, r.val) /\ recorded' = recorded /\ r.val \in Things
      BY <2>0, <2>4, ProceedForms
    <3>2. /\ Len(got') = Len(got) + 1 /\ got' # <<>> /\ got'[Len(got) + 1] = r.val
          /\ \A k \in 1 .. Len(got) : got'[k] = got[k]
          /\ Front(got') = got /\ Len(got) \in Nat
      BY <1>0, <3>1, OneMore
    <3>3. CASE term = "toChan"
      <4>1. phase' = "send" /\ tally' = tally /\ answer' = answer
        BY <2>0, <2>4, <3>3, ItemForms
      <4>2. tally = got
        BY <1>0, <2>1, <3>3, ToldForms
      <4> QED BY <2>0, <2>1, <2>2, <2>4, <3>1, <3>2, <3>3, <4>1, <4>2
              DEF TallyInv, AnswerInv, Active, Excused
    <3>4. CASE term # "toChan"
      <4>1. PICK k \in OnGot(tally, r.val) :
              /\ tally' = k.tally /\ answer' = k.ret
              /\ phase' = IF k.ret = "none" THEN "pull" ELSE "leave"
        BY <2>0, <2>4, <3>4, ItemForms
      <4>2. /\ tally' = Told(got')
            /\ k.ret = "nil" => term \in {"first", "any", "all"}
            /\ k.ret = "none" => term # "first"
            /\ term \in {"any", "all"} =>
                  (k.ret = "none" <=> (Keep(r.val) <=> term = "all"))
        BY <1>0, <2>1, <3>1, <4>1, Tells
      <4>3. k.ret = "nil" => Enough'
        BY <2>0, <3>2, <4>2 DEF Enough
      <4>8. term = "first" => answer' # "err"
        <5> SUFFICES ASSUME term = "first" PROVE answer' = "nil"
          OBVIOUS
        <5>1. k = Keeps(<<r.val>>, "nil")
          BY <1>0, <4>1, OnGotForms
        <5> QED BY <4>1, <5>1 DEF Keeps
      <4>4. TallyInv'
        BY <2>0, <2>3, <4>1, <4>2, <4>8 DEF TallyInv, Excused
      <4>5. /\ answer' = "none" <=> Active'
            /\ recorded' \/ (\E s \in Streams : ended'[s] = "err") => answer' = "err"
            /\ op' = "none" /\ hidden' => answer' = "err"
            /\ answer' = "nil" => Enough'
        BY <2>0, <2>1, <2>2, <2>4, <3>1, <4>1, <4>3 DEF Active
      <4>6. term = "first" => Len(got') <= 1 /\ (Active' => got' = <<>>)
        BY <2>1, <3>2, <4>1, <4>2 DEF Active
      <4>7. ASSUME term \in {"any", "all"}, NEW i \in 1 .. Len(got'),
                   i < Len(got') \/ Active'
            PROVE  Keep(got'[i]) <=> term = "all"
        <5>1. CASE i \in 1 .. Len(got)
          BY <2>1, <3>2, <4>7, <5>1 DEF PassesAll
        <5>2. CASE i = Len(got) + 1
          BY <3>2, <4>1, <4>2, <4>7, <5>2 DEF Active
        <5> QED BY <3>2, <5>1, <5>2
      <4> QED BY <2>0, <4>4, <4>5, <4>6, <4>7 DEF AnswerInv
    <3> QED BY <3>3, <3>4
  <2>5. CASE r.res = "more"
    <3>1. UNCHANGED <<got, tally, phase, answer, recorded>>
      BY <2>0, <2>5, ProceedForms
    <3> QED BY <2>0, <2>1, <2>2, <2>3, <2>5, <3>1 DEF TallyInv, AnswerInv, Active, Excused
  <2>6. CASE r.res \in {"eof", "err"}
    <3>1. /\ got' = got /\ phase' = "leave"
          /\ answer' = "nil" => r.res = "eof"
          /\ answer' \in {"nil", "err"}
          /\ recorded' \/ (op = "none" /\ hidden') \/ r.res = "err" => answer' = "err"
      BY <2>0, <2>6, ProceedForms
    <3>2. tally' = Told(got)' \/ (r.res = "err" /\ term = "first")
      BY <2>0, <2>1, <2>3, <2>6, <3>1, ProceedForms
    <3>3. Excused' => tally' \in Along'
      <4> SUFFICES ASSUME Excused' PROVE tally' \in Along'
        OBVIOUS
      <4>0. term = "first" /\ got = <<>> /\ answer' = "err"
        BY <2>0, <2>1 DEF Excused
      <4>1. CASE r.res = "err"
        <5>1. tally' = r.with
          BY <2>0, <4>0, <4>1, ProceedForms
        <5> QED BY <1>2, <4>0, <4>1, <5>1, ErrAlong
      <4>2. CASE r.res = "eof"
        <5>1. op = "none" /\ tally' = <<>>
          <6>1. tally' = <<>>
            BY <1>0, <2>0, <2>1, <4>0, <4>2, ProceedForms, ToldForms
          <6> QED BY <2>0, <2>1, <4>0, <4>2, <6>1, ProceedForms
        <5> QED BY <2>0, <5>1 DEF Along
      <4> QED BY <2>6, <4>1, <4>2
    <3>4. TallyInv'
      BY <2>0, <3>1, <3>2, <3>3, ProceedForms, <2>6 DEF TallyInv, Excused
    <3>5. AnswerInv'
      BY <2>0, <2>1, <2>2, <2>6, <3>1 DEF AnswerInv, Active, PassesAll
    <3> QED BY <3>4, <3>5
  <2> QED BY <2>0, <2>4, <2>5, <2>6 DEF Results
<1> QED BY <1>1, <1>2, NextForms

-----------------------------------------------------------------------------
(* Operators with one input *)

Single == Operators \ {"batch", "zip", "flatMap"}

\* An item v of the source is answered with r;
Gets(v, r) ==
    /\ r \in OnItem(m, v) /\ v \in Values
    /\ pulled'[1] = Append(pulled[1], v) /\ ended'[1] = "open"
    /\ m' = r.m /\ got' = IF r.res = "item" THEN Append(got, r.val) ELSE got
    /\ r.res \in {"eof", "err"} => ~Active'
    /\ IF r.res = "err" THEN recorded' = TRUE ELSE recorded' = recorded
    /\ ~AtLimit

\* or nothing more comes.
Over ==
    /\ pulled'[1] = pulled[1] /\ got' = got /\ m' = m
    /\ ~Active'

\* A step of an operator with one input is one of these two.
LEMMA SingleMoves ==
    ASSUME TypeOK, op \in Single,
           NEW r, Advances(r), Limited(r) \/ Yielded(r) \/ Ended(r) \/ Broken(r)
    PROVE  Over \/ \E v : Gets(v, r)
<1>0. /\ m \in Memory /\ From(m) = 1 /\ 1 \in Streams
      /\ pulled \in [Streams -> Seq(Values)] /\ ended \in [Streams -> Ends]
  BY FromForms, TwoStreams DEF TypeOK, Single
<1>1. /\ r \in Results /\ Proceed(r) /\ phase = "pull"
  BY DEF Advances
<1>3. CASE Yielded(r)
  <2>1. PICK v \in Values :
          /\ pulled' = [pulled EXCEPT ![1] = Append(@, v)] /\ r \in OnItem(m, v)
          /\ ~AtLimit /\ ended'[1] = "open"
    BY <1>0, <1>3 DEF Yielded
  <2>2. Gets(v, r)
    BY <1>0, <1>1, <2>1, ProceedForms DEF Gets, Active
  <2> QED BY <2>2
<1>4. CASE Limited(r)
  <2>1. r.res = "eof" /\ r.m = m
    BY <1>4 DEF Limited, Eof, Result
  <2>2. m' = m /\ got' = got /\ recorded' = recorded /\ phase' = "leave" /\ pulled' = pulled
    BY <1>1, <1>4, <2>1, ProceedForms DEF Limited
  <2> QED BY <2>2 DEF Over, Active
<1>5. CASE Ended(r)
  <2>1. r.res = "eof" /\ r.m = m /\ pulled' = pulled
    BY <1>5, OnEofForms DEF Ended, Single, Eof, Result
  <2>2. m' = m /\ got' = got /\ recorded' = recorded /\ phase' = "leave"
    BY <1>1, <2>1, ProceedForms
  <2> QED BY <2>1, <2>2 DEF Over, Active
<1>6. CASE Broken(r)
  <2>1. r.res = "err" /\ r.m = m /\ pulled' = pulled
    BY <1>6, OnErrForms DEF Broken, Single, Fail, Result
  <2>2. m' = m /\ got' = got /\ phase' = "leave"
    BY <1>1, <2>1, ProceedForms
  <2> QED BY <2>1, <2>2 DEF Over, Active
<1> QED BY <1>3, <1>4, <1>5, <1>6

\* The result of an item that goes through,
LEMMA Through ==
    ASSUME NEW r, NEW v, Gets(v, r), NEW s, NEW x, r = Item(s, x)
    PROVE  m' = s /\ got' = Append(got, x) /\ recorded' = recorded
  BY DEF Gets, Item, Result

\* and of one that does not.
LEMMA HeldBack ==
    ASSUME NEW r, NEW v, Gets(v, r), NEW s, r = More(s)
    PROVE  m' = s /\ got' = got /\ recorded' = recorded
  BY DEF Gets, More, Result

\* The items of a source that is read once more.
LEMMA Inputs ==
    ASSUME TypeOK, NEW r, NEW v, Gets(v, r)
    PROVE  LET p == pulled[1]
               q == pulled'[1]
           IN /\ p \in Seq(Values) /\ q \in Seq(Values) /\ v \in Values /\ q = Append(p, v)
              /\ Len(q) = Len(p) + 1 /\ Len(p) \in Nat
              /\ \A k \in 1 .. Len(p) : q[k] = p[k]
              /\ q[Len(p) + 1] = v /\ Front(q) = p /\ q # <<>>
<1> DEFINE p == pulled[1]
           q == pulled'[1]
<1>1. p \in Seq(Values) /\ v \in Values /\ q = Append(p, v)
  BY TwoStreams DEF TypeOK, Gets
<1> HIDE DEF p, q
<1>2. /\ q \in Seq(Values) /\ Len(q) = Len(p) + 1 /\ Len(p) \in Nat /\ q # <<>>
      /\ q[Len(p) + 1] = v
  BY <1>1
<1>3. \A k \in 1 .. Len(p) : q[k] = p[k]
  BY <1>1
<1>4. Front(q) = p
  BY <1>1, OneMore
<1> QED BY <1>1, <1>2, <1>3, <1>4 DEF p, q

\* Observe and Peek let everything through.
LEMMA PlainNext ==
    ASSUME TypeOK, op \in {"none", "observe", "peek"}, PlainInv,
           NEW r, Over \/ \E v : Gets(v, r)
    PROVE  PlainInv'
<1>1. ASSUME NEW v, Gets(v, r) PROVE PlainInv'
  <2>1. r = Item(m, v)
    BY <1>1, OnItemForms DEF Gets, TypeOK
  <2>2. got' = Append(got, v)
    BY <1>1, <2>1, Through
  <2> QED BY <1>1, <2>2 DEF PlainInv, Gets
<1> QED BY <1>1 DEF PlainInv, Over

\* Map returns the image of every item, but for one its function refuses.
LEMMA MapNext ==
    ASSUME TypeOK, op = "map", MapInv, Active, NEW r, Over \/ \E v : Gets(v, r)
    PROVE  MapInv'
<1> DEFINE p == pulled[1]
           q == pulled'[1]
<1>0. got = [k \in 1 .. Len(p) |-> <<"fn", p[k]>>] /\ Len(got) = Len(p)
  BY DEF MapInv
<1>1. CASE Over
  BY <1>0, <1>1 DEF MapInv, Over
<1>2. ASSUME NEW v, Gets(v, r), r = Item(m, <<"fn", v>>) PROVE MapInv'
  <2>1. got' = Append(got, <<"fn", v>>)
    BY <1>2, Through
  <2>2. Append(got, <<"fn", v>>) = [k \in 1 .. Len(q) |-> <<"fn", q[k]>>] /\ Len(q) \in Nat
    <3>1. /\ Len(q) = Len(p) + 1 /\ Len(p) \in Nat /\ q[Len(p) + 1] = v
          /\ \A k \in 1 .. Len(p) : q[k] = p[k]
      BY <1>2, Inputs
    <3> DEFINE n == Len(p)
               h == [k \in 1 .. n + 1 |-> <<"fn", q[k]>>]
    <3>2. got = [k \in 1 .. n |-> <<"fn", q[k]>>] /\ h[n + 1] = <<"fn", v>>
      BY <1>0, <3>1
    <3> HIDE DEF n
    <3>3. n \in Nat
      BY <3>1 DEF n
    <3>4. Append(got, <<"fn", v>>) = h
      BY <3>2, <3>3
    <3>5. Len(q) = n + 1 /\ Len(q) \in Nat
      BY <3>1, <3>3 DEF n
    <3> QED BY <3>4, <3>5
  <2>3. Len(got') = Len(q)
    BY <2>1, <2>2
  <2> QED BY <2>1, <2>2, <2>3 DEF MapInv
<1>3. ASSUME NEW v, Gets(v, r), r.res \in {"eof", "err"} PROVE MapInv'
  <2>1. got' = got /\ ~Active' /\ ended'[1] = "open"
    BY <1>3 DEF Gets
  <2>2. Len(q) = Len(p) + 1 /\ Len(p) \in Nat /\ \A k \in 1 .. Len(p) : q[k] = p[k]
    BY <1>3, Inputs
  <2>3. Len(got') = Len(q) - 1 /\ got' = [k \in 1 .. Len(got') |-> <<"fn", q[k]>>]
    BY <1>0, <2>1, <2>2
  <2> QED BY <2>1, <2>3 DEF MapInv
<1>4. ASSUME NEW v, Gets(v, r) PROVE MapInv'
  <2>1. r \in Map(m, v)
    BY <1>4, OnItemForms DEF Gets, TypeOK
  <2>2. r = Item(m, <<"fn", v>>) \/ r.res \in {"eof", "err"}
    BY <2>1 DEF Map, Eof, Fail, Result
  <2> QED BY <1>2, <1>3, <1>4, <2>2
<1> QED BY <1>1, <1>4

\* Take counts what it has returned.
LEMMA TakeNext ==
    ASSUME TypeOK, op = "take", TakeInv, NEW r, Over \/ \E v : Gets(v, r)
    PROVE  TakeInv'
<1>1. ASSUME NEW v, Gets(v, r) PROVE TakeInv'
  <2>1. r = Item([m EXCEPT !.n = @ + 1], v)
    BY <1>1, OnItemForms DEF Gets, TypeOK, Take
  <2>2. m'.n = m.n + 1 /\ got' = Append(got, v)
    <3>1. m' = [m EXCEPT !.n = @ + 1] /\ got' = Append(got, v)
      BY <1>1, <2>1, Through
    <3> QED BY <3>1 DEF TypeOK, Memory
  <2>3. m.n < N
    BY <1>1, StreamAssumption DEF Gets, AtLimit, TypeOK, Memory, TakeInv
  <2> QED BY <1>1, <2>2, <2>3, Inputs, StreamAssumption DEF TakeInv
<1> QED BY <1>1 DEF TakeInv, Over

\* Skip counts up to its number and returns the rest.
LEMMA SkipNext ==
    ASSUME TypeOK, op = "skip", SkipInv, NEW r, Over \/ \E v : Gets(v, r)
    PROVE  SkipInv'
<1>1. ASSUME NEW v, Gets(v, r) PROVE SkipInv'
  <2> DEFINE p == pulled[1]
             q == pulled'[1]
  <2>0. /\ p \in Seq(Values) /\ q = Append(p, v) /\ Len(q) = Len(p) + 1 /\ Len(p) \in Nat
        /\ N \in Nat /\ q \in Seq(Values) /\ v \in Values
    BY <1>1, Inputs, StreamAssumption
  <2>1. r = Skip(m, v)
    BY <1>1, OnItemForms DEF Gets, TypeOK
  <2> HIDE DEF p, q
  <2>2. CASE Len(p) < N
    <3>1. m.n = Len(p) /\ got = SubSeq(p, N + 1, Len(p))
      BY <2>0, <2>2 DEF SkipInv, p
    <3>2. r = More([m EXCEPT !.n = @ + 1])
      BY <2>1, <2>2, <3>1 DEF Skip
    <3>3. m'.n = Len(p) + 1 /\ got' = got
      <4>1. m' = [m EXCEPT !.n = @ + 1] /\ got' = got
        BY <1>1, <3>2, HeldBack
      <4> QED BY <3>1, <4>1 DEF TypeOK, Memory
    <3>4. SubSeq(p, N + 1, Len(p)) = <<>> /\ SubSeq(q, N + 1, Len(q)) = <<>>
      BY <2>0, <2>2
    <3> QED BY <2>0, <2>2, <3>1, <3>3, <3>4 DEF SkipInv, q
  <2>3. CASE Len(p) >= N
    <3>1. m.n = N /\ got = SubSeq(p, N + 1, Len(p))
      BY <2>0, <2>3 DEF SkipInv, p
    <3>2. r = Item(m, v)
      BY <2>0, <2>1, <3>1 DEF Skip
    <3>3. m' = m /\ got' = Append(got, v)
      BY <1>1, <3>2, Through
    <3>4. Append(SubSeq(p, N + 1, Len(p)), v) = SubSeq(q, N + 1, Len(q))
      BY <2>0, <2>3
    <3>5. got' = SubSeq(q, N + 1, Len(q))
      BY <3>1, <3>3, <3>4
    <3>6. m'.n = IF Len(q) <= N THEN Len(q) ELSE N
      BY <2>0, <2>3, <3>1, <3>3
    <3> QED BY <3>5, <3>6 DEF SkipInv, q
  <2> QED BY <2>0, <2>2, <2>3
<1> QED BY <1>1 DEF SkipInv, Over

\* TakeWhile returns what there is until the first item that does not pass.
LEMMA TakeWhileNext ==
    ASSUME TypeOK, op = "takeWhile", TakeWhileInv, Active, NEW r, Over \/ \E v : Gets(v, r)
    PROVE  TakeWhileInv'
<1>0. AllLow(pulled[1], Len(pulled[1])) /\ got = pulled[1]
  BY DEF TakeWhileInv
<1>1. ASSUME NEW v, Gets(v, r) PROVE TakeWhileInv'
  <2> DEFINE p == pulled[1]
             q == pulled'[1]
  <2>1. /\ q = Append(p, v) /\ Len(q) = Len(p) + 1 /\ Len(p) \in Nat /\ q[Len(p) + 1] = v
        /\ (\A k \in 1 .. Len(p) : q[k] = p[k]) /\ Front(q) = p
    BY <1>1, Inputs
  <2>2. r = TakeWhile(m, v)
    BY <1>1, OnItemForms DEF Gets, TypeOK
  <2>3. AllLow(q, Len(q)) <=> Keep(v)
    BY <1>0, <2>1 DEF AllLow
  <2>4. CASE Keep(v)
    <3>1. got' = Append(got, v)
      BY <1>1, <2>2, <2>4, Through DEF TakeWhile
    <3> QED BY <1>0, <2>1, <2>3, <2>4, <3>1 DEF TakeWhileInv
  <2>5. CASE ~Keep(v)
    <3>1. got' = got /\ ~Active'
      BY <1>1, <2>2, <2>5 DEF Gets, TakeWhile, Eof, Result
    <3> QED BY <1>0, <2>1, <2>3, <2>5, <3>1 DEF TakeWhileInv
  <2> QED BY <2>4, <2>5
<1> QED BY <1>0, <1>1 DEF TakeWhileInv, Over

\* DropWhile returns everything from the first item that does not pass.
LEMMA DropWhileNext ==
    ASSUME TypeOK, op = "dropWhile", DropWhileInv, NEW r, Over \/ \E v : Gets(v, r)
    PROVE  DropWhileInv'
<1>1. ASSUME NEW v, Gets(v, r) PROVE DropWhileInv'
  <2> DEFINE p == pulled[1]
             q == pulled'[1]
  <2>0. /\ p \in Seq(Values) /\ q = Append(p, v) /\ Len(q) = Len(p) + 1 /\ Len(p) \in Nat
        /\ v \in Values /\ q[Len(p) + 1] = v /\ \A k \in 1 .. Len(p) : q[k] = p[k]
    BY <1>1, Inputs
  <2>1. PICK k \in 0 .. Len(p) :
          /\ got = SubSeq(p, k + 1, Len(p))
          /\ AllLow(p, k) /\ (k < Len(p) => ~Keep(p[k + 1]))
          /\ m.n = IF k = Len(p) THEN 0 ELSE 1
    BY DEF DropWhileInv
  <2>2. r = DropWhile(m, v) /\ m \in Memory
    BY <1>1, OnItemForms DEF Gets, TypeOK
  <2> HIDE DEF p, q
  <2>3. CASE k = Len(p) /\ Keep(v)
    <3>1. m' = m /\ got' = got
      BY <1>1, <2>1, <2>2, <2>3, HeldBack DEF DropWhile
    <3>2. AllLow(q, Len(q))
      BY <2>0, <2>1, <2>3 DEF AllLow
    <3>3. SubSeq(p, k + 1, Len(p)) = <<>> /\ SubSeq(q, Len(q) + 1, Len(q)) = <<>>
      BY <2>0, <2>3
    <3>4. Len(q) \in 0 .. Len(q)
      BY <2>0
    <3>5. m'.n = 0 /\ got' = SubSeq(q, Len(q) + 1, Len(q))
      BY <2>1, <2>3, <3>1, <3>3
    <3> DEFINE e == Len(q)
    <3>6. /\ e \in 0 .. Len(q) /\ got' = SubSeq(q, e + 1, Len(q)) /\ AllLow(q, e)
          /\ (e < Len(q) => ~Keep(q[e + 1])) /\ m'.n = IF e = Len(q) THEN 0 ELSE 1
      BY <2>0, <3>2, <3>4, <3>5
    <3> HIDE DEF e
    <3> QED BY <3>6 DEF DropWhileInv, q
  <2>4. CASE ~(k = Len(p) /\ Keep(v))
    <3>1. ~(m.n = 0 /\ Keep(v))
      BY <2>1, <2>4
    <3>2. m' = [m EXCEPT !.n = 1] /\ got' = Append(got, v)
      BY <1>1, <2>2, <3>1, Through DEF DropWhile
    <3>3. m'.n = 1
      BY <2>2, <3>2 DEF Memory
    <3>4. Append(SubSeq(p, k + 1, Len(p)), v) = SubSeq(q, k + 1, Len(q))
      BY <2>0
    <3>5. AllLow(q, k) /\ k < Len(q) /\ k \in 0 .. Len(q)
      BY <2>0, <2>1 DEF AllLow
    <3>6. ~Keep(q[k + 1])
      BY <2>0, <2>1, <2>4
    <3>7. /\ k \in 0 .. Len(q) /\ got' = SubSeq(q, k + 1, Len(q)) /\ AllLow(q, k)
          /\ (k < Len(q) => ~Keep(q[k + 1])) /\ m'.n = IF k = Len(q) THEN 0 ELSE 1
      <4>1. got' = SubSeq(q, k + 1, Len(q))
        BY <2>1, <3>2, <3>4
      <4>2. k # Len(q)
        BY <3>5, <2>0
      <4> QED BY <3>3, <3>5, <3>6, <4>1, <4>2
    <3> QED BY <3>7 DEF DropWhileInv, q
  <2> QED BY <2>3, <2>4
<1> QED BY <1>1 DEF DropWhileInv, Over

\* Scan returns the accumulator of every prefix.
LEMMA ScanNext ==
    ASSUME TypeOK, op = "scan", ScanInv, NEW r, Over \/ \E v : Gets(v, r)
    PROVE  ScanInv'
<1>1. ASSUME NEW v, Gets(v, r) PROVE ScanInv'
  <2> DEFINE p == pulled[1]
             q == pulled'[1]
             n == Len(p)
  <2>0. /\ p \in Seq(Values) /\ q = Append(p, v) /\ Len(q) = n + 1 /\ n \in Nat
        /\ v \in Values /\ q \in Seq(Values)
    BY <1>1, Inputs
  <2>1. m.held = p /\ got = [k \in 1 .. n |-> SubSeq(p, 1, k)] /\ m \in Memory
    BY DEF ScanInv, TypeOK
  <2>2. r = Item([m EXCEPT !.held = q], q)
    BY <1>1, <2>0, <2>1, OnItemForms DEF Gets, TypeOK, Scan
  <2>3. m' = [m EXCEPT !.held = q] /\ got' = Append(got, q)
    BY <1>1, <2>2, Through
  <2>4. m'.held = q
    BY <2>1, <2>3 DEF Memory
  <2> HIDE DEF p, q, n
  <2>5. \A k \in 1 .. n : SubSeq(q, 1, k) = SubSeq(p, 1, k)
    BY <2>0 DEF n
  <2>6. SubSeq(q, 1, n + 1) = q
    BY <2>0
  <2>7. got = [k \in 1 .. n |-> SubSeq(q, 1, k)]
    BY <2>1, <2>5
  <2>8. Append(got, q) = [k \in 1 .. n + 1 |-> SubSeq(q, 1, k)]
    <3> DEFINE h == [k \in 1 .. n + 1 |-> SubSeq(q, 1, k)]
               s(k) == SubSeq(q, 1, k)
    <3>1. s(n + 1) = q /\ got = [k \in 1 .. n |-> s(k)]
      BY <2>6, <2>7
    <3> HIDE DEF s
    <3>2. Append(got, s(n + 1)) = [k \in 1 .. n + 1 |-> s(k)]
      BY <2>0, <3>1
    <3> QED BY <3>1, <3>2 DEF s
  <2> QED BY <2>0, <2>3, <2>4, <2>8 DEF ScanInv, q, n
<1> QED BY <1>1 DEF ScanInv, Over

-----------------------------------------------------------------------------
(* Filter and Distinct *)

\* One more position, above the others, is one more element at the end.
LEMMA SelectsMore ==
    ASSUME NEW S, NEW out \in Seq(S), NEW s, NEW n \in Nat, NEW chosen \in SUBSET (1 .. n),
           s[n + 1] \in S, Selects(out, s, chosen)
    PROVE  Selects(Append(out, s[n + 1]), s, chosen \cup {n + 1})
<1> DEFINE more == chosen \cup {n + 1}
           upTo(k) == {j \in chosen : j <= k}
<1>0. 1 .. n \subseteq Nat /\ \A k \in chosen : k \in Nat /\ k <= n
  OBVIOUS
<1>1. IsFiniteSet(chosen) /\ Cardinality(chosen) \in Nat /\ n + 1 \notin chosen
  <2>1. IsFiniteSet(1 .. n)
    BY FS_Interval
  <2>2. IsFiniteSet(chosen)
    BY <2>1, FS_Subset
  <2> QED BY <1>0, <2>2, FS_CardinalityType
<1>2. Cardinality(more) = Cardinality(chosen) + 1
  BY <1>1, FS_AddElement
<1>3. Len(Append(out, s[n + 1])) = Cardinality(more)
  BY <1>2 DEF Selects
<1>4. ASSUME NEW k \in chosen
      PROVE  Append(out, s[n + 1])[Cardinality({j \in more : j <= k})] = s[k]
  <2>1. {j \in more : j <= k} = upTo(k)
    BY <1>0
  <2>2. upTo(k) \subseteq chosen /\ k \in upTo(k)
    BY <1>0
  <2>3. Len(out) = Cardinality(chosen) /\ out[Cardinality(upTo(k))] = s[k]
    BY DEF Selects
  <2> DEFINE c == Cardinality(upTo(k))
  <2> HIDE DEF upTo, more
  <2>4. IsFiniteSet(upTo(k)) /\ c \in Nat /\ c <= Cardinality(chosen) /\ c # 0
    <3>1. IsFiniteSet(upTo(k)) /\ c <= Cardinality(chosen)
      BY <1>1, <2>2, FS_Subset
    <3>2. c \in Nat
      BY <3>1, FS_CardinalityType
    <3>3. upTo(k) # {}
      BY <2>2
    <3> QED BY <3>1, <3>2, <3>3, FS_EmptySet
  <2>5. c \in 1 .. Len(out) /\ out[c] = s[k]
    BY <2>3, <2>4
  <2> HIDE DEF c
  <2>6. Append(out, s[n + 1])[c] = out[c]
    BY <2>5
  <2> QED BY <2>1, <2>5, <2>6 DEF c
<1>5. Append(out, s[n + 1])[Cardinality({j \in more : j <= n + 1})] = s[n + 1]
  <2>1. {j \in more : j <= n + 1} = more
    <3>1. \A j \in more : j <= n + 1
      BY <1>0
    <3> HIDE DEF more
    <3> QED BY <3>1
  <2>2. Len(out) = Cardinality(chosen)
    BY DEF Selects
  <2> HIDE DEF more
  <2>3. Cardinality(more) = Len(out) + 1
    BY <1>2, <2>2
  <2>4. Append(out, s[n + 1])[Len(out) + 1] = s[n + 1]
    OBVIOUS
  <2> QED BY <2>1, <2>3, <2>4
<1> HIDE DEF more
<1> QED BY <1>3, <1>4, <1>5 DEF Selects, more

\* Nothing is selected from nothing.
LEMMA SelectsNone == ASSUME NEW s PROVE Selects(<<>>, s, {})
  BY FS_EmptySet DEF Selects

\* A selection and one item more, chosen or not.
LEMMA SelectsOn ==
    ASSUME NEW S, NEW out \in Seq(S), NEW s, NEW also, NEW n \in Nat,
           NEW chosen \in SUBSET (1 .. n), Selects(out, s, chosen),
           \A k \in 1 .. n : also[k] = s[k], also[n + 1] \in S
    PROVE  /\ Selects(out, also, chosen)
           /\ Selects(Append(out, also[n + 1]), also, chosen \cup {n + 1})
<1>1. Selects(out, also, chosen)
  BY DEF Selects
<1> QED BY <1>1, SelectsMore

\* Filter selects what passes.
LEMMA FilterNext ==
    ASSUME TypeOK, op = "filter", FilterInv, NEW r, Over \/ \E v : Gets(v, r)
    PROVE  FilterInv'
<1>1. ASSUME NEW v, Gets(v, r) PROVE FilterInv'
  <2> DEFINE p == pulled[1]
             q == pulled'[1]
             n == Len(p)
  <2>0. /\ Len(q) = n + 1 /\ n \in Nat /\ q[n + 1] = v /\ (\A k \in 1 .. n : q[k] = p[k])
        /\ got \in Seq(Things) /\ q[n + 1] \in Things
    BY <1>1, Inputs DEF TypeOK, Things
  <2>1. r = Filter(m, v)
    BY <1>1, OnItemForms DEF Gets, TypeOK
  <2>2. Selects(got, p, Kept(p)) /\ Kept(p) \in SUBSET (1 .. n)
    BY DEF FilterInv, Kept
  <2>3. Kept(q) = IF Keep(v) THEN Kept(p) \cup {n + 1} ELSE Kept(p)
    BY <2>0 DEF Kept
  <2>4. got' = IF Keep(v) THEN Append(got, v) ELSE got
    BY <1>1, <2>1, Through, HeldBack DEF Filter
  <2> HIDE DEF p, q, n
  <2>5. Selects(got, q, Kept(p)) /\ Selects(Append(got, q[n + 1]), q, Kept(p) \cup {n + 1})
    BY <2>0, <2>2, SelectsOn
  <2>6. Selects(got', q, Kept(q))
    BY <2>0, <2>3, <2>4, <2>5
  <2>7. q = pulled'[1] /\ Kept(pulled[1])' = Kept(pulled'[1])
    BY DEF q, Kept
  <2> QED BY <2>6, <2>7 DEF FilterInv, Selects
<1> QED BY <1>1 DEF FilterInv, Over, Kept, Selects

\* Distinct selects the first occurrence of each value.
LEMMA DistinctNext ==
    ASSUME TypeOK, op = "distinct", DistinctInv, NEW r, Over \/ \E v : Gets(v, r)
    PROVE  DistinctInv'
<1>1. ASSUME NEW v, Gets(v, r) PROVE DistinctInv'
  <2> DEFINE p == pulled[1]
             q == pulled'[1]
             n == Len(p)
  <2>0. /\ Len(q) = n + 1 /\ n \in Nat /\ q[n + 1] = v /\ (\A k \in 1 .. n : q[k] = p[k])
        /\ got \in Seq(Things) /\ q[n + 1] \in Things /\ v \in Things
        /\ p \in Seq(Values) /\ q \in Seq(Values) /\ m \in Memory
    BY <1>1, Inputs DEF TypeOK, Things
  <2>1. r = Distinct(m, v)
    BY <1>1, OnItemForms DEF Gets, TypeOK
  <2>2. /\ Selects(got, p, New(p)) /\ New(p) \in SUBSET (1 .. n)
        /\ m.held = got /\ ToSet(got) = ToSet(p)
    BY DEF DistinctInv, New
  <2> HIDE DEF p, q, n
  <2>3. ToSet(p) = {p[k] : k \in 1 .. n} /\ ToSet(q) = {q[k] : k \in 1 .. n + 1}
    BY <2>0 DEF ToSet, n
  <2>4. ToSet(q) = ToSet(p) \cup {v}
    BY <2>0, <2>3
  <2>5. New(q) = IF v \in ToSet(p) THEN New(p) ELSE New(p) \cup {n + 1}
    <3>1. \A k \in 1 .. n : k \in New(q) <=> k \in New(p)
      BY <2>0 DEF New, n
    <3>2. n + 1 \in New(q) <=> v \notin ToSet(p)
      BY <2>0, <2>3 DEF New
    <3>3. New(q) \subseteq 1 .. n + 1 /\ New(p) \subseteq 1 .. n /\ n + 1 \notin 1 .. n
          /\ 1 .. n + 1 = 1 .. n \cup {n + 1}
      BY <2>0 DEF New, n
    <3> HIDE DEF New
    <3> QED BY <3>1, <3>2, <3>3
  <2>6. Selects(got, q, New(p)) /\ Selects(Append(got, q[n + 1]), q, New(p) \cup {n + 1})
    BY <2>0, <2>2, SelectsOn
  <2>7. /\ m'.held = got' /\ got' = IF v \in ToSet(p) THEN got ELSE Append(got, v)
    <3>1. CASE v \in ToSet(p)
      <4>1. m' = m /\ got' = got
        BY <1>1, <2>1, <2>2, <3>1, HeldBack DEF Distinct
      <4> QED BY <2>2, <3>1, <4>1
    <3>2. CASE v \notin ToSet(p)
      <4>1. m' = [m EXCEPT !.held = Append(@, v)] /\ got' = Append(got, v)
        BY <1>1, <2>1, <2>2, <3>2, Through DEF Distinct
      <4> QED BY <2>0, <2>2, <3>2, <4>1 DEF Memory
    <3> QED BY <3>1, <3>2
  <2>8. ToSet(got') = ToSet(q)
    <3>1. ToSet(Append(got, v)) = ToSet(got) \cup {v}
      <4>1. /\ Append(got, v)[Len(got) + 1] = v /\ Len(got) \in Nat
            /\ DOMAIN got = 1 .. Len(got) /\ DOMAIN Append(got, v) = 1 .. Len(got) + 1
            /\ \A k \in 1 .. Len(got) : Append(got, v)[k] = got[k]
        BY <2>0
      <4> QED BY <4>1 DEF ToSet
    <3> QED BY <2>2, <2>4, <2>7, <3>1
  <2>9. Selects(got', q, New(q))
    BY <2>0, <2>5, <2>6, <2>7
  <2>10. q = pulled'[1] /\ New(pulled[1])' = New(pulled'[1])
    BY DEF q, New
  <2> QED BY <2>7, <2>8, <2>9, <2>10 DEF DistinctInv, Selects
<1>2. CASE Over
  <2>1. pulled'[1] = pulled[1] /\ got' = got /\ m' = m
    BY <1>2 DEF Over
  <2>2. New(pulled[1])' = New(pulled[1])
    BY <2>1 DEF New
  <2> QED BY <2>1, <2>2 DEF DistinctInv, Selects
<1> QED BY <1>1, <1>2

-----------------------------------------------------------------------------
(* Batch *)

\* A part of a sequence is what it is, whatever comes after it.
LEMMA PartSame ==
    ASSUME NEW p \in Seq(Values), NEW v \in Values, NEW i \in Nat, NEW k \in Nat, k <= Len(p)
    PROVE  SubSeq(Append(p, v), i + 1, k) = SubSeq(p, i + 1, k)
  OBVIOUS

\* The rest of a sequence, and one element more.
LEMMA RestMore ==
    ASSUME NEW p \in Seq(Values), NEW v \in Values, NEW a \in Nat, a <= Len(p)
    PROVE  Append(SubSeq(p, a + 1, Len(p)), v) = SubSeq(Append(p, v), a + 1, Len(p) + 1)
  OBVIOUS

\* The places where batches end.
LEMMA CutForms ==
    ASSUME NEW out \in Seq(Things), NEW s \in Seq(Values), NEW c, NEW b, CutAt(b, out, s, c)
    PROVE  /\ \A j \in 0 .. Len(out) : b[j] \in Nat /\ b[j] <= Len(s)
           /\ \A j \in 1 .. Len(out) : j \in 0 .. Len(out) /\ j - 1 \in 0 .. Len(out)
           /\ Len(out) \in Nat /\ 0 \in 0 .. Len(out) /\ Len(out) \in 0 .. Len(out)
           /\ b[Len(out)] \in Nat /\ b[Len(out)] <= Len(s) /\ Len(s) \in Nat
<1>1. PICK n \in Nat, l \in Nat : n = Len(out) /\ l = Len(s)
  OBVIOUS
<1>2. b \in [0 .. n -> 0 .. l]
  BY <1>1 DEF CutAt
<1>3. ASSUME NEW j \in 0 .. n PROVE b[j] \in Nat /\ b[j] <= l
  <2>1. b[j] \in 0 .. l
    BY <1>2
  <2> QED BY <2>1
<1> QED BY <1>1, <1>3

\* An item that comes leaves the batches as they are.
LEMMA CutMore ==
    ASSUME NEW out \in Seq(Things), NEW s \in Seq(Values), NEW c, NEW b, CutAt(b, out, s, c),
           NEW v \in Values
    PROVE  CutAt(b, out, Append(s, v), c)
<1>0. PICK n \in Nat, l \in Nat : n = Len(out) /\ l = Len(s)
  OBVIOUS
<1>1. Len(Append(s, v)) = l + 1 /\ 0 .. l \subseteq 0 .. l + 1
  BY <1>0
<1>2. ASSUME NEW j \in 1 .. n
      PROVE  SubSeq(Append(s, v), b[j - 1] + 1, b[j]) = SubSeq(s, b[j - 1] + 1, b[j])
  <2>1. PICK i \in Nat, k \in Nat : i = b[j - 1] /\ k = b[j] /\ k <= Len(s)
    BY <1>0, CutForms
  <2> QED BY <2>1, PartSame
<1>3. b \in [0 .. n -> 0 .. l]
  BY <1>0 DEF CutAt
<1>4. b \in [0 .. n -> 0 .. l + 1]
  BY <1>1, <1>3
<1> QED BY <1>0, <1>1, <1>2, <1>4 DEF CutAt

\* Neither does an end of the source after all of them.
LEMMA CutLater ==
    ASSUME NEW out \in Seq(Things), NEW s \in Seq(Values), NEW c, NEW b, CutAt(b, out, s, c),
           NEW j \in 1 .. Len(out)
    PROVE  Cut(b[j - 1], b[j], c \cup {Len(s)})
<1>1. PICK i \in Nat, k \in Nat, l \in Nat : i = b[j - 1] /\ k = b[j] /\ l = Len(s) /\ k <= l
  BY CutForms
<1>2. Cut(i, k, c)
  BY <1>1 DEF CutAt
<1>3. Cut(i, k, c \cup {l})
  BY <1>1, <1>2 DEF Cut
<1> QED BY <1>1, <1>3

\* One batch more, which ends with the last item.
Further(b, n, k) == [j \in 0 .. n + 1 |-> IF j <= n THEN b[j] ELSE k]

\* The items x of s that follow the batches, after the i-th, become one more: there is a
\* reason to end it, d being the ends of the source up to now and c those before.
Completes(x, i, b, out, s, c, d) ==
    /\ out \in Seq(Things) /\ s \in Seq(Values) /\ x \in Things /\ i \in Nat
    /\ CutAt(b, out, s, c) /\ N \in Nat /\ c \subseteq Nat
    /\ c \subseteq d /\ d \subseteq c \cup {Len(s)}
    /\ i = b[Len(out)] /\ i < Len(s) /\ Len(s) <= i + N
    /\ (Len(s) < i + N => Len(s) \in d) /\ SubSeq(s, i + 1, Len(s)) = x

LEMMA CutGrows ==
    ASSUME NEW out, NEW s, NEW c, NEW d, NEW b, NEW i, NEW x, Completes(x, i, b, out, s, c, d)
    PROVE  /\ CutAt(Further(b, Len(out), Len(s)), Append(out, x), s, d)
           /\ Further(b, Len(out), Len(s))[Len(Append(out, x))] = Len(s)
<1> USE DEF Completes
<1>0. PICK n \in Nat, l \in Nat : n = Len(out) /\ l = Len(s)
  OBVIOUS
<1> DEFINE e == Further(b, n, l)
           h == Append(out, x)
<1>1. Len(h) = n + 1 /\ h[n + 1] = x /\ \A j \in 1 .. n : h[j] = out[j]
  BY <1>0, OneMore
<1>2. \A j \in 0 .. n : b[j] \in 0 .. l
  BY <1>0 DEF CutAt
<1>3. /\ 0 \in 0 .. n /\ n + 1 \in 0 .. n + 1 /\ ~(n + 1 <= n)
      /\ \A j \in 0 .. n : j \in 0 .. n + 1 /\ j <= n
      /\ \A j \in 0 .. n + 1 : j <= n => j \in 0 .. n
      /\ \A j \in 1 .. n : j \in 0 .. n /\ j - 1 \in 0 .. n
      /\ \A j \in 1 .. n + 1 : j \in 1 .. n \/ (j = n + 1 /\ j - 1 = n)
      /\ n \in 0 .. n
  OBVIOUS
<1>4. e[n + 1] = l /\ \A j \in 0 .. n : e[j] = b[j]
  BY <1>3 DEF Further
<1>5. e \in [0 .. n + 1 -> 0 .. l]
  <2>1. l \in 0 .. l
    OBVIOUS
  <2> QED BY <1>2, <1>3, <2>1 DEF Further
<1> HIDE DEF e, h
<1>6. ASSUME NEW j \in 1 .. n
      PROVE  h[j] = SubSeq(s, e[j - 1] + 1, e[j]) /\ Cut(e[j - 1], e[j], d)
  <2>1. e[j - 1] = b[j - 1] /\ e[j] = b[j]
    BY <1>3, <1>4
  <2>2. out[j] = SubSeq(s, b[j - 1] + 1, b[j]) /\ Cut(b[j - 1], b[j], c)
    BY <1>0 DEF CutAt
  <2>3. Cut(b[j - 1], b[j], d)
    <3>1. Cut(b[j - 1], b[j], c \cup {Len(s)})
      BY <1>0, CutLater
    <3>2. CASE Len(s) \in d
      <4>1. d = c \cup {Len(s)}
        BY <3>2
      <4> QED BY <3>1, <4>1
    <3>3. CASE Len(s) \notin d
      <4>1. d = c
        BY <3>3
      <4> QED BY <2>2, <4>1
    <3> QED BY <3>2, <3>3
  <2> QED BY <1>1, <2>1, <2>2, <2>3
<1>7. i = b[n]
  BY <1>0
<1>8. \A a \in c : a \in Nat /\ a <= i
  BY <1>0, <1>7 DEF CutAt
<1>9. \A a \in d : a \in c \/ a = l
  BY <1>0
<1>10. Cut(i, l, d)
  <2>1. \A a \in d : ~(i < a /\ a < l)
    BY <1>0, <1>8, <1>9
  <2> QED BY <1>0, <2>1 DEF Cut
<1>11. h[n + 1] = SubSeq(s, e[n] + 1, e[n + 1]) /\ Cut(e[n], e[n + 1], d)
  <2>1. e[n] = i /\ e[n + 1] = l
    BY <1>3, <1>4, <1>7
  <2> QED BY <1>0, <1>1, <1>10, <2>1
<1>12. \A a \in d : a <= e[n + 1]
  BY <1>0, <1>4, <1>7, <1>8, <1>9
<1>13. e[0] = 0
  BY <1>0, <1>3, <1>4 DEF CutAt
<1>14. ASSUME NEW j \in 1 .. n + 1
       PROVE  h[j] = SubSeq(s, e[j - 1] + 1, e[j]) /\ Cut(e[j - 1], e[j], d)
  BY <1>3, <1>6, <1>11
<1>15. CutAt(e, h, s, d) /\ Len(h) = n + 1 /\ e[Len(h)] = l
  BY <1>0, <1>1, <1>4, <1>5, <1>12, <1>13, <1>14 DEF CutAt
<1> QED BY <1>0, <1>15 DEF e, h

\* How the cut is read as what Batch has returned: with nothing held, or with what follows.
LEMMA BatchCut ==
    ASSUME NEW e, NEW h \in Seq(Things), NEW s \in Seq(Values), N \in Nat, N > 0,
           CutAt(e, h, s, cuts'), e[Len(h)] = Len(s),
           got' = h, pulled'[1] = s, m'.held = <<>>
    PROVE  BatchInv'
<1>1. PICK l \in Nat : l = Len(s)
  OBVIOUS
<1>2. SubSeq(s, l + 1, l) = <<>> /\ l < l + N
  OBVIOUS
<1>3. BatchEnds(e)'
  BY <1>1, <1>2 DEF BatchEnds
<1> QED BY <1>3 DEF BatchInv

LEMMA BatchHolds ==
    ASSUME NEW e, NEW h \in Seq(Things), NEW s \in Seq(Values),
           CutAt(e, h, s, cuts'), Len(s) < e[Len(h)] + N,
           got' = h, pulled'[1] = s, m'.held = SubSeq(s, e[Len(h)] + 1, Len(s))
    PROVE  BatchInv'
<1>1. BatchEnds(e)'
  BY DEF BatchEnds
<1> QED BY <1>1 DEF BatchInv

\* Batch has returned the batches and holds what follows, which it returns at the end.
LEMMA BatchNext ==
    ASSUME TypeOK, op = "batch", BatchInv,
           NEW r, Advances(r), Limited(r) \/ Yielded(r) \/ Ended(r) \/ Broken(r)
    PROVE  BatchInv'
<1>0. /\ m \in Memory /\ From(m) = 1 /\ 1 \in Streams /\ N \in Nat /\ N > 0
      /\ pulled \in [Streams -> Seq(Values)] /\ cuts \subseteq Nat
      /\ m.held \in Seq(Values)
  BY FromForms, TwoStreams, StreamAssumption DEF TypeOK, Operators, Memory
<1>1. /\ r \in Results /\ Proceed(r) /\ phase = "pull" /\ Active
  BY DEF Advances, Active
<1>2. PICK out \in Seq(Things), p \in Seq(Values), n \in Nat, l \in Nat :
        out = got /\ p = pulled[1] /\ n = Len(out) /\ l = Len(p)
  BY <1>0 DEF TypeOK
<1>3. PICK b : CutAt(b, out, p, cuts) /\ l < b[n] + N /\ m.held = SubSeq(p, b[n] + 1, l)
  BY <1>1, <1>2 DEF BatchInv, BatchEnds
<1>4. PICK i \in Nat : i = b[n] /\ i <= l
  BY <1>2, <1>3, CutForms
<1>5. Len(m.held) = l - i
  <2>1. Len(SubSeq(p, i + 1, l)) = l - i
    BY <1>2, <1>4
  <2> QED BY <1>3, <1>4, <2>1
<1>10. l < i + N /\ i = b[Len(out)]
  BY <1>2, <1>3, <1>4
<1>6. CASE Yielded(r)
  <2>1. PICK v \in Values :
          /\ pulled' = [pulled EXCEPT ![1] = Append(@, v)] /\ r \in OnItem(m, v)
          /\ cuts' = cuts
    BY <1>0, <1>6 DEF Yielded
  <2>2. PICK q \in Seq(Values), x \in Seq(Values) :
          q = Append(p, v) /\ x = Append(m.held, v)
    <3>1. Append(p, v) \in Seq(Values) /\ Append(m.held, v) \in Seq(Values)
      BY <1>0, <1>2, <2>1
    <3> QED BY <3>1
  <2>3. /\ r = Batch(m, v) /\ pulled'[1] = q /\ Len(q) = l + 1 /\ x \in Things
        /\ Len(x) = Len(m.held) + 1
    BY <1>0, <1>2, <2>1, <2>2, OnItemForms DEF TypeOK, Things
  <2>4. x = SubSeq(q, i + 1, l + 1)
    <3>1. Append(SubSeq(p, i + 1, Len(p)), v) = SubSeq(Append(p, v), i + 1, Len(p) + 1)
      BY <1>2, <1>4, <2>1, RestMore
    <3> QED BY <1>2, <1>3, <1>4, <2>2, <3>1
  <2>5. CutAt(b, out, q, cuts)
    BY <1>2, <1>3, <2>2, CutMore
  <2>8. Len(x) = l - i + 1 /\ Len(q) = l + 1
    BY <1>5, <2>3
  <2>9. x \in Things /\ q \in Seq(Values)
    BY <2>2, <2>3
  <2>6. CASE Len(x) = N
    <3>1. r = Item([m EXCEPT !.held = <<>>], x)
      BY <2>2, <2>3, <2>6 DEF Batch
    <3>2. r.res = "item" /\ r.m = [m EXCEPT !.held = <<>>] /\ r.val = x
      BY <3>1 DEF Item, Result
    <3>3. got' = Append(out, x) /\ m'.held = <<>>
      BY <1>0, <1>1, <1>2, <3>2, ProceedForms DEF Memory
    <3>4. i < l + 1 /\ l + 1 = i + N
      <4>1. l - i + 1 = N
        BY <2>6, <2>8
      <4>2. l \in Nat /\ i \in Nat /\ i <= l
        BY <1>2, <1>4
      <4> QED BY <4>1, <4>2
    <3>5. /\ CutAt(Further(b, n, l + 1), Append(out, x), q, cuts)
          /\ Further(b, n, l + 1)[Len(Append(out, x))] = l + 1
      <4>1. /\ i = b[Len(out)] /\ i < Len(q) /\ Len(q) <= i + N /\ ~(Len(q) < i + N)
            /\ SubSeq(q, i + 1, Len(q)) = x
        <5>1. Len(q) = l + 1 /\ l \in Nat
          BY <1>2, <2>8
        <5>2. SubSeq(q, i + 1, Len(q)) = x
          BY <2>4, <5>1
        <5>3. i < Len(q) /\ Len(q) <= i + N /\ ~(Len(q) < i + N)
          BY <3>4, <5>1
        <5> QED BY <1>10, <5>2, <5>3
      <4>2. /\ CutAt(Further(b, Len(out), Len(q)), Append(out, x), q, cuts)
            /\ Further(b, Len(out), Len(q))[Len(Append(out, x))] = Len(q)
        <5>1. Completes(x, i, b, out, q, cuts, cuts)
          BY <1>0, <1>2, <1>4, <2>5, <2>9, <4>1 DEF Completes
        <5> QED BY <5>1, CutGrows
      <4> QED BY <1>2, <2>3, <4>2
    <3>6. PICK h \in Seq(Things) : h = Append(out, x)
      <4>1. Append(out, x) \in Seq(Things)
        BY <1>2, <2>3
      <4> QED BY <4>1
    <3> QED BY <1>0, <2>1, <2>2, <2>3, <3>3, <3>5, <3>6, BatchCut
  <2>7. CASE Len(x) # N
    <3>1. r = More([m EXCEPT !.held = x])
      BY <2>2, <2>3, <2>7 DEF Batch
    <3>2. r.res = "more" /\ r.m = [m EXCEPT !.held = x]
      BY <3>1 DEF More, Result
    <3>3. got' = out /\ m'.held = x
      BY <1>0, <1>1, <1>2, <3>2, ProceedForms DEF Memory
    <3>4. l + 1 < i + N
      <4>1. l - i + 1 # N /\ N \in Nat
        BY <1>0, <2>7, <2>8
      <4>2. l < i + N /\ l \in Nat /\ i \in Nat
        BY <1>2, <1>4, <1>10
      <4> QED BY <4>1, <4>2
    <3> QED BY <1>2, <1>4, <2>1, <2>2, <2>3, <2>4, <2>5, <3>3, <3>4, BatchHolds
  <2> QED BY <2>6, <2>7
<1>7. CASE Ended(r)
  <2>1. r = BatchAtEof(m) /\ pulled' = pulled /\ cuts' = cuts \cup {l}
    BY <1>0, <1>2, <1>7, OnEofForms DEF Ended
  <2>2. CASE m.held = <<>>
    <3>1. r.res = "eof" /\ r.m = m
      BY <2>1, <2>2 DEF BatchAtEof, Eof, Result
    <3>2. got' = out /\ m' = m
      BY <1>1, <1>2, <3>1, ProceedForms
    <3>3. l = i
      BY <1>4, <1>5, <2>2
    <3>4. CutAt(b, out, p, cuts \cup {l})
      <4>1. \A j \in 1 .. n : Cut(b[j - 1], b[j], cuts \cup {l})
        BY <1>2, <1>3, CutLater
      <4>2. \A e \in cuts \cup {l} : e <= b[n]
        BY <1>2, <1>3, <1>4, <3>3 DEF CutAt
      <4> QED BY <1>2, <1>3, <4>1, <4>2 DEF CutAt
    <3> QED BY <1>2, <1>3, <2>1, <3>2, <3>4, BatchHolds
  <2>3. CASE m.held # <<>>
    <3>1. r = Item([m EXCEPT !.held = <<>>], m.held)
      BY <2>1, <2>3 DEF BatchAtEof
    <3>2. r.res = "item" /\ r.m = [m EXCEPT !.held = <<>>] /\ r.val = m.held
      BY <3>1 DEF Item, Result
    <3>3. PICK x \in Things : x = m.held
      BY <1>0 DEF Things
    <3>4. got' = Append(out, x) /\ m'.held = <<>>
      BY <1>0, <1>1, <1>2, <3>2, <3>3, ProceedForms DEF Memory
    <3>5. Len(m.held) \in Nat /\ Len(m.held) # 0
      BY <1>0, <2>3
    <3>6. i < l /\ l < i + N
      BY <1>3, <1>4, <1>5, <3>5
    <3>7. /\ CutAt(Further(b, n, l), Append(out, x), p, cuts \cup {l})
          /\ Further(b, n, l)[Len(Append(out, x))] = l
      <4>1. /\ i = b[Len(out)] /\ i < Len(p) /\ Len(p) <= i + N
            /\ SubSeq(p, i + 1, Len(p)) = x
        BY <1>0, <1>2, <1>3, <1>4, <3>3, <3>6
      <4>2. PICK d : d = cuts \cup {l}
        OBVIOUS
      <4>3. cuts \subseteq d /\ d \subseteq cuts \cup {Len(p)} /\ Len(p) \in d
        BY <1>2, <4>2
      <4>4. /\ CutAt(Further(b, Len(out), Len(p)), Append(out, x), p, d)
            /\ Further(b, Len(out), Len(p))[Len(Append(out, x))] = Len(p)
        <5>1. Completes(x, i, b, out, p, cuts, d)
          BY <1>0, <1>2, <1>3, <1>4, <3>3, <4>1, <4>3 DEF Completes
        <5> QED BY <5>1, CutGrows
      <4> QED BY <1>2, <4>2, <4>4
    <3>8. PICK h \in Seq(Things) : h = Append(out, x)
      <4>1. Append(out, x) \in Seq(Things)
        BY <1>2, <3>3
      <4> QED BY <4>1
    <3> QED BY <1>0, <1>2, <2>1, <3>4, <3>7, <3>8, BatchCut
  <2> QED BY <2>2, <2>3
<1>8. CASE Broken(r)
  <2>1. r.res = "err" /\ pulled' = pulled /\ cuts' = cuts
    BY <1>8, EndTypes DEF Broken
  <2>2. got' = got /\ ~Active'
    BY <1>1, <2>1, ProceedForms DEF Active
  <2> QED BY <1>2, <1>3, <2>1, <2>2 DEF BatchInv, BatchEnds
<1>9. CASE Limited(r)
  BY <1>9 DEF Limited, AtLimit
<1> QED BY <1>6, <1>7, <1>8, <1>9

-----------------------------------------------------------------------------
(* Zip *)

\* Zip pairs the items of its inputs by position.
LEMMA ZipNext ==
    ASSUME TypeOK, op = "zip", ZipInv,
           NEW r, Advances(r), Limited(r) \/ Yielded(r) \/ Ended(r) \/ Broken(r)
    PROVE  ZipInv'
<1> DEFINE p == pulled[1]
           q == pulled[2]
           n == Len(q)
<1>0. /\ m \in Memory /\ m.held \in Seq(Values) /\ 1 \in Streams /\ 2 \in Streams
      /\ pulled \in [Streams -> Seq(Values)]
      /\ p \in Seq(Values) /\ q \in Seq(Values) /\ Len(p) \in Nat /\ n \in Nat
      /\ From(m) = IF m.held = <<>> THEN 1 ELSE 2
  BY FromForms, TwoStreams DEF TypeOK, Memory
<1>1. /\ r \in Results /\ Proceed(r) /\ phase = "pull"
  BY DEF Advances
<1>2. /\ n <= Len(p) /\ got = [k \in 1 .. n |-> <<p[k], q[k]>>]
      /\ \/ m.held = <<>> /\ Len(p) = n
         \/ m.held = <<p[Len(p)]>> /\ Len(p) = n + 1
  BY <1>1 DEF ZipInv, Active
<1>3. CASE Yielded(r)
  <2>1. PICK v \in Values :
          pulled' = [pulled EXCEPT ![From(m)] = Append(@, v)] /\ r \in OnItem(m, v)
    BY <1>3 DEF Yielded
  <2>2. r = ZipPair(m, v)
    BY <2>1, OnItemForms DEF TypeOK
  <2>3. CASE m.held = <<>>
    <3>1. r.res = "more" /\ r.m = [m EXCEPT !.held = <<v>>]
      BY <2>2, <2>3 DEF ZipPair, More, Result
    <3>2. got' = got /\ m'.held = <<v>>
      BY <1>0, <1>1, <3>1, ProceedForms DEF Memory
    <3>3. pulled'[1] = Append(p, v) /\ pulled'[2] = q
      BY <1>0, <2>1, <2>3
    <3>4. Len(p) = n
      BY <1>2, <2>3
    <3> HIDE DEF p, q, n
    <3> DEFINE pp == pulled'[1]
               qq == pulled'[2]
    <3>5. /\ Len(pp) = n + 1 /\ pp[n + 1] = v /\ qq = q /\ Len(qq) = n
          /\ \A k \in 1 .. n : pp[k] = p[k]
      BY <1>0, <3>3, <3>4 DEF n
    <3> HIDE DEF pp, qq
    <3>6. got' = [k \in 1 .. Len(qq) |-> <<pp[k], qq[k]>>]
      BY <1>2, <3>2, <3>5
    <3>7. Len(qq) <= Len(pp) /\ Len(pp) = Len(qq) + 1 /\ m'.held = <<pp[Len(pp)]>>
      BY <1>0, <3>2, <3>5
    <3> QED BY <3>6, <3>7 DEF ZipInv, pp, qq
  <2>4. CASE m.held # <<>>
    <3>1. m.held[1] = p[n + 1] /\ Len(p) = n + 1
      BY <1>2, <2>4
    <3>2. r = Item([m EXCEPT !.held = <<>>], <<p[n + 1], v>>)
      BY <2>2, <2>4, <3>1 DEF ZipPair
    <3>3. r.res = "item" /\ r.m = [m EXCEPT !.held = <<>>] /\ r.val = <<p[n + 1], v>>
      BY <3>2 DEF Item, Result
    <3>4. got' = Append(got, <<p[n + 1], v>>) /\ m'.held = <<>>
      BY <1>0, <1>1, <3>3, ProceedForms DEF Memory
    <3>5. pulled'[1] = p /\ pulled'[2] = Append(q, v)
      BY <1>0, <2>1, <2>4
    <3> HIDE DEF p, q, n
    <3> DEFINE pp == pulled'[1]
               qq == pulled'[2]
               pair(k) == <<pp[k], qq[k]>>
    <3>6. /\ pp = p /\ Len(pp) = n + 1 /\ Len(qq) = n + 1 /\ qq[n + 1] = v
          /\ \A k \in 1 .. n : qq[k] = q[k]
      BY <1>0, <3>1, <3>5 DEF n
    <3> HIDE DEF pp, qq
    <3>7. got = [k \in 1 .. n |-> pair(k)] /\ pair(n + 1) = <<p[n + 1], v>>
      BY <1>2, <3>6
    <3> HIDE DEF pair
    <3>8. Append(got, pair(n + 1)) = [k \in 1 .. n + 1 |-> pair(k)]
      BY <1>0, <3>7
    <3>9. got' = [k \in 1 .. n + 1 |-> pair(k)]
      BY <3>4, <3>7, <3>8
    <3>10. /\ got' = [k \in 1 .. Len(qq) |-> <<pp[k], qq[k]>>] /\ m'.held = <<>>
           /\ Len(pp) = Len(qq) /\ Len(qq) <= Len(pp)
      <4>1. got' = [k \in 1 .. n + 1 |-> <<pp[k], qq[k]>>]
        BY <3>9 DEF pair
      <4>2. Len(qq) = n + 1 /\ Len(pp) = n + 1 /\ n \in Nat
        BY <1>0, <3>6
      <4>3. 1 .. Len(qq) = 1 .. n + 1 /\ Len(qq) <= Len(pp)
        BY <4>2
      <4>4. got' = [k \in 1 .. Len(qq) |-> <<pp[k], qq[k]>>]
        BY <4>1, <4>3
      <4> QED BY <3>4, <4>2, <4>3, <4>4
    <3> QED BY <3>10 DEF ZipInv, pp, qq
  <2> QED BY <2>3, <2>4
<1>4. CASE Ended(r) \/ Broken(r)
  <2>1. pulled' = pulled /\ r.res \in {"eof", "err"}
    BY <1>4, OnEofForms, OnErrForms DEF Ended, Broken, ZipAtEnd, Result
  <2>2. got' = got /\ phase' = "leave"
    BY <1>1, <2>1, ProceedForms
  <2> QED BY <1>2, <2>1, <2>2 DEF ZipInv, Active
<1>5. CASE Limited(r)
  BY <1>5 DEF Limited, AtLimit
<1> QED BY <1>3, <1>4, <1>5

-----------------------------------------------------------------------------
(* FlatMap *)

\* What comes out, in terms of the number n of sub-streams and their items.
Grid         == (1 .. MaxItems) \X (1 .. MaxSub)
Filled(n, f) == {d \in Grid : d[1] <= n /\ d[2] <= Len(f[d[1]])}
Below(P, d)  == {e \in P : e[1] < d[1] \/ (e[1] = d[1] /\ e[2] <= d[2])}
Joined(out, n, f) ==
    /\ Len(out) = Cardinality(Filled(n, f))
    /\ \A d \in Filled(n, f) : out[Cardinality(Below(Filled(n, f), d))] = f[d[1]][d[2]]

\* There are finitely many places.
LEMMA GridFinite ==
    /\ IsFiniteSet(Grid)
    /\ \A d \in Grid : d[1] \in 1 .. MaxItems /\ d[2] \in 1 .. MaxSub
<1>1. IsFiniteSet(1 .. MaxItems) /\ IsFiniteSet(1 .. MaxSub)
  BY StreamAssumption, FS_Interval
<1> QED BY <1>1, FS_Product DEF Grid

\* One more item of the last sub-stream is one more element at the end.
LEMMA JoinedMore ==
    ASSUME NEW S, NEW out \in Seq(S), NEW x \in S, NEW n \in 1 .. MaxItems,
           NEW f, NEW g, f[n] \in Seq(S), Len(f[n]) < MaxSub, g[n] = Append(f[n], x),
           \A k \in 1 .. MaxItems : k # n => g[k] = f[k],
           Joined(out, n, f)
    PROVE  Joined(Append(out, x), n, g)
<1> DEFINE P == Filled(n, f)
           Q == Filled(n, g)
           e == <<n, Len(f[n]) + 1>>
           j == Len(f[n])
<1>0. /\ j \in Nat /\ Len(g[n]) = j + 1 /\ g[n][j + 1] = x /\ MaxSub \in Nat
      /\ \A i \in 1 .. j : g[n][i] = f[n][i]
      /\ e = <<n, j + 1>> /\ e[1] = n /\ e[2] = j + 1
  BY StreamAssumption
<1>1. e \in Grid /\ e \notin P
  BY <1>0 DEF Grid, Filled
<1> HIDE DEF j, e
<1>2. \A d \in Grid : d[1] = n /\ d[2] = j + 1 => d = e
  BY <1>0 DEF Grid
<1>3. ASSUME NEW d \in Grid PROVE d \in Q <=> d \in P \/ d = e
  <2>0. d[1] \in 1 .. MaxItems /\ d[2] \in 1 .. MaxSub
    BY GridFinite
  <2>1. CASE d[1] = n
    <3>1. d \in Q <=> d[2] <= j + 1
      BY <1>0, <2>1, <2>0 DEF Filled
    <3>2. d \in P <=> d[2] <= j
      BY <2>1, <2>0 DEF Filled, j
    <3>3. d = e <=> d[2] = j + 1
      BY <1>0, <1>2, <2>1
    <3> QED BY <1>0, <2>0, <3>1, <3>2, <3>3
  <2>2. CASE d[1] # n
    BY <1>0, <2>0, <2>2 DEF Filled
  <2> QED BY <2>1, <2>2
<1>4. Q = P \cup {e}
  BY <1>1, <1>3 DEF Filled
<1>5. IsFiniteSet(P) /\ Cardinality(P) \in Nat /\ P \subseteq Grid
  BY GridFinite, FS_Subset, FS_CardinalityType DEF Filled
<1>6. ASSUME NEW d \in P
      PROVE  /\ d[1] \in 1 .. n /\ d[2] \in Nat /\ (d[1] = n => d[2] <= j)
             /\ g[d[1]][d[2]] = f[d[1]][d[2]]
  <2>1. d[1] \in 1 .. MaxItems /\ d[2] \in 1 .. MaxSub /\ d[1] <= n /\ d[2] <= Len(f[d[1]])
    BY GridFinite DEF Filled
  <2>2. d[1] = n => d[2] <= j
    BY <2>1 DEF j
  <2>3. CASE d[1] = n
    BY <1>0, <2>1, <2>2, <2>3
  <2>4. CASE d[1] # n
    BY <2>1, <2>4
  <2> QED BY <2>1, <2>2, <2>3, <2>4
<1>7. Len(out) = Cardinality(P) /\ \A d \in P : out[Cardinality(Below(P, d))] = f[d[1]][d[2]]
  BY DEF Joined
<1> HIDE DEF P, Q
<1>8. Cardinality(Q) = Cardinality(P) + 1
  BY <1>1, <1>4, <1>5, FS_AddElement
<1>9. ASSUME NEW d \in P PROVE Append(out, x)[Cardinality(Below(Q, d))] = g[d[1]][d[2]]
  <2>1. Below(Q, d) = Below(P, d)
    BY <1>0, <1>4, <1>6 DEF Below
  <2>2. Below(P, d) \subseteq P /\ d \in Below(P, d)
    BY <1>6 DEF Below
  <2> DEFINE c == Cardinality(Below(P, d))
  <2>3. c \in 1 .. Len(out)
    <3>1. IsFiniteSet(Below(P, d)) /\ c <= Cardinality(P)
      BY <1>5, <2>2, FS_Subset
    <3>2. c \in Nat /\ c # 0
      BY <2>2, <3>1, FS_CardinalityType, FS_EmptySet
    <3> QED BY <1>5, <1>7, <3>1, <3>2
  <2>4. out[c] = g[d[1]][d[2]]
    BY <1>6, <1>7
  <2> HIDE DEF c
  <2>5. Append(out, x)[c] = out[c]
    BY <2>3
  <2> QED BY <2>1, <2>4, <2>5 DEF c
<1>10. Append(out, x)[Cardinality(Below(Q, e))] = g[e[1]][e[2]]
  <2>1. Below(Q, e) = Q
    BY <1>0, <1>4, <1>6 DEF Below
  <2>2. Append(out, x)[Len(out) + 1] = x
    OBVIOUS
  <2> QED BY <1>0, <1>7, <1>8, <2>1, <2>2
<1>11. Len(Append(out, x)) = Cardinality(Q)
  BY <1>7, <1>8
<1> QED BY <1>4, <1>9, <1>10, <1>11 DEF Joined, Q

\* An empty sub-stream makes no difference.
LEMMA JoinedSame ==
    ASSUME NEW out, NEW n \in Nat, NEW f, NEW g,
           \A k \in 1 .. MaxItems : g[k] = f[k], f[n + 1] = <<>>,
           Joined(out, n, f)
    PROVE  Joined(out, n + 1, g) /\ Joined(out, n, g)
<1>1. Filled(n + 1, g) = Filled(n, f) /\ Filled(n, g) = Filled(n, f)
  BY GridFinite DEF Filled
<1>2. \A d \in Filled(n, f) : g[d[1]] = f[d[1]]
  BY GridFinite DEF Filled
<1> QED BY <1>1, <1>2 DEF Joined

Subs == [k \in 1 .. MaxItems |-> SubOf(k)]

\* The definition that the model has, in these terms.
LEMMA ConcatenatesForms ==
    ASSUME NEW out
    PROVE  Concatenates(out) <=> Joined(out, Len(pulled[1]), Subs)
<1>1. \A d \in Grid : Subs[d[1]] = SubOf(d[1])
  BY GridFinite DEF Subs
<1>2. Places = Filled(Len(pulled[1]), Subs)
  BY <1>1 DEF Places, Filled, Grid
<1>3. \A d \in Places : UpTo(d) = Below(Places, d) /\ d \in Grid
  BY DEF UpTo, Below, Places, Grid
<1> QED BY <1>1, <1>2, <1>3 DEF Concatenates, Joined

\* The same after a step.
LEMMA ConcatenatesNext ==
    ASSUME Joined(got', Len(pulled'[1]), Subs') PROVE Concatenates(got)'
<1>1. \A d \in Grid : Subs'[d[1]] = SubOf(d[1])'
  BY GridFinite DEF Subs
<1>2. Places' = Filled(Len(pulled'[1]), Subs')
  BY <1>1 DEF Places, Filled, Grid
<1>3. \A d \in Places' : UpTo(d)' = Below(Places', d) /\ d \in Grid
  BY DEF UpTo, Below, Places, Grid
<1> QED BY <1>1, <1>2, <1>3 DEF Concatenates, Joined

\* FlatMap returns the items of its sub-streams, one after the other.
LEMMA FlatMapNext ==
    ASSUME TypeOK, op = "flatMap", FlatMapInv,
           NEW r, Advances(r), Limited(r) \/ Yielded(r) \/ Ended(r) \/ Broken(r)
    PROVE  FlatMapInv'
<1> DEFINE p == pulled[1]
           n == Len(p)
<1>0. /\ m \in Memory /\ 1 \in Streams /\ made \subseteq Streams
      /\ pulled \in [Streams -> Seq(Values)] /\ p \in Seq(Values) /\ n \in Nat
      /\ From(m) = IF m.cur = 0 THEN 1 ELSE m.cur
      /\ got \in Seq(Things) /\ n <= MaxItems /\ MaxItems \in Nat
  BY FromForms, TwoStreams, StreamAssumption DEF TypeOK, Room
<1>1. /\ r \in Results /\ Proceed(r) /\ phase = "pull" /\ op' = op
  BY DEF Advances
<1>2. /\ m.n = n /\ m.held = <<>> /\ 1 \in made /\ made \subseteq 1 .. n + 1
      /\ \A s \in Streams \ made : pulled[s] = <<>>
      /\ m.cur # 0 => m.cur = n + 1 /\ m.cur \in made /\ m.cur # 1
      /\ Joined(got, n, Subs)
  BY ConcatenatesForms DEF FlatMapInv
<1>3. \A k \in 1 .. MaxItems : k + 1 \in Streams /\ k + 1 # 1 /\ Subs[k] = SubOf(k)
  BY <1>0 DEF Streams, Subs
<1>4. CASE Yielded(r) /\ m.cur = 0
  <2>1. PICK v \in Values :
          /\ pulled' = [pulled EXCEPT ![1] = Append(@, v)] /\ r \in OnItem(m, v)
          /\ n < MaxItems
    BY <1>0, <1>4 DEF Yielded, Room
  <2>2. r \in {More([m EXCEPT !.n = @ + 1]), More([m EXCEPT !.n = @ + 1, !.cur = n + 2])}
    BY <1>2, <1>4, <2>1, OnItemForms DEF TypeOK, FlatMap
  <2>3. /\ r.res = "more"
        /\ r.m \in {[m EXCEPT !.n = @ + 1], [m EXCEPT !.n = @ + 1, !.cur = n + 2]}
    BY <2>2 DEF More, Result
  <2>4. got' = got /\ m' = r.m /\ made' = IF r.m.cur = 0 THEN made ELSE made \cup {r.m.cur}
    BY <1>1, <2>3, ProceedForms
  <2>5. /\ m'.n = n + 1 /\ m'.held = <<>>
        /\ \/ m'.cur = 0 /\ made' = made
           \/ m'.cur = n + 2 /\ made' = made \cup {n + 2}
    BY <1>0, <1>2, <1>4, <2>3, <2>4 DEF Memory
  <2>6. /\ pulled'[1] = Append(p, v) /\ Len(pulled'[1]) = n + 1
        /\ \A s \in Streams : s # 1 => pulled'[s] = pulled[s]
    BY <1>0, <2>1
  <2> HIDE DEF p, n
  <2>7. n + 2 \notin made /\ n + 2 \in Streams /\ pulled[n + 2] = <<>>
    <3>1. n + 1 <= MaxItems
      BY <1>0, <2>1
    <3>2. n + 2 \in Streams
      BY <1>0, <3>1 DEF Streams
    <3> QED BY <1>0, <1>2, <3>2
  <2>8. \A k \in 1 .. MaxItems : Subs'[k] = Subs[k]
    <3> SUFFICES ASSUME NEW k \in 1 .. MaxItems PROVE Subs'[k] = Subs[k]
      OBVIOUS
    <3>1. Subs'[k] = SubOf(k)' /\ Subs[k] = SubOf(k)
      BY DEF Subs
    <3>2. pulled'[k + 1] = pulled[k + 1]
      BY <1>3, <2>6
    <3>3. CASE k + 1 = n + 2
      BY <2>5, <2>7, <3>1, <3>2, <3>3 DEF SubOf
    <3>4. CASE k + 1 # n + 2
      BY <2>5, <3>1, <3>2, <3>4 DEF SubOf
    <3> QED BY <3>3, <3>4
  <2>9. Subs[n + 1] = <<>>
    <3>1. n + 1 \in 1 .. MaxItems /\ (n + 1) + 1 = n + 2
      BY <1>0, <2>1
    <3> QED BY <2>7, <3>1 DEF Subs, SubOf
  <2>10. Joined(got', n + 1, Subs')
    BY <1>0, <1>2, <2>4, <2>8, <2>9, JoinedSame
  <2>11. Concatenates(got)'
    BY <2>6, <2>10, ConcatenatesNext
  <2>12. 1 \in made' /\ made' \subseteq 1 .. (n + 1) + 1
    <3>1. 1 .. n + 1 \subseteq 1 .. (n + 1) + 1 /\ n + 2 \in 1 .. (n + 1) + 1
      BY <1>0
    <3> QED BY <1>2, <2>5, <3>1
  <2>13. \A s \in Streams \ made' : pulled'[s] = <<>>
    <3>1. \A s \in Streams \ made' : s # 1 /\ s \notin made
      BY <1>2, <2>5
    <3> QED BY <1>2, <2>6, <3>1
  <2>14. m'.cur # 0 => m'.cur = (n + 1) + 1 /\ m'.cur \in made' /\ m'.cur # 1
    BY <1>0, <2>5
  <2> QED BY <2>5, <2>6, <2>11, <2>12, <2>13, <2>14 DEF FlatMapInv
<1>5. CASE Yielded(r) /\ m.cur # 0
  <2> DEFINE c == m.cur
             f == pulled[c]
  <2>1. PICK v \in Values :
          /\ pulled' = [pulled EXCEPT ![c] = Append(@, v)] /\ r \in OnItem(m, v)
          /\ c \in Streams /\ Len(f) < Room(c)
    BY <1>0, <1>5 DEF Yielded
  <2>2. c = n + 1 /\ c \in made /\ c # 1 /\ Room(c) = MaxSub /\ n \in 1 .. MaxItems
    BY <1>0, <1>2, <1>5, <2>1 DEF Room, Streams
  <2>3. r = Item(m, v)
    BY <1>5, <2>1, OnItemForms DEF TypeOK, FlatMap
  <2>4. r.res = "item" /\ r.val = v /\ r.m = m
    BY <2>3 DEF Item, Result
  <2>5. got' = Append(got, v) /\ m' = m /\ made' = made
    <3>1. /\ got' = Append(got, v) /\ m' = m
          /\ made' = IF m.cur = 0 THEN made ELSE made \cup {m.cur}
      BY <1>1, <2>4, ProceedForms
    <3> QED BY <2>2, <3>1
  <2>6. /\ pulled'[1] = p /\ pulled'[c] = Append(f, v) /\ f \in Seq(Values)
        /\ \A s \in Streams : s # c => pulled'[s] = pulled[s]
    BY <1>0, <2>1, <2>2
  <2> HIDE DEF p, n, c, f
  <2>7. Subs[n] = f /\ Subs'[n] = Append(f, v)
    BY <2>2, <2>5, <2>6 DEF Subs, SubOf, f
  <2>8. \A k \in 1 .. MaxItems : k # n => Subs'[k] = Subs[k]
    <3> SUFFICES ASSUME NEW k \in 1 .. MaxItems, k # n PROVE Subs'[k] = Subs[k]
      OBVIOUS
    <3>1. k + 1 \in Streams /\ k + 1 # c
      BY <1>3, <2>2
    <3> QED BY <2>5, <2>6, <3>1 DEF Subs, SubOf
  <2>9. f \in Seq(Things) /\ v \in Things
    BY <2>6 DEF Things
  <2>10. Joined(got', n, Subs')
    BY <1>0, <1>2, <2>1, <2>2, <2>5, <2>7, <2>8, <2>9, JoinedMore
  <2>11. Concatenates(got)'
    <3>1. Len(pulled'[1]) = n
      BY <2>6 DEF n
    <3> QED BY <2>10, <3>1, ConcatenatesNext
  <2>12. \A s \in Streams \ made' : pulled'[s] = <<>>
    BY <1>2, <2>2, <2>5, <2>6
  <2> QED BY <1>2, <2>5, <2>6, <2>11, <2>12 DEF FlatMapInv, n
<1>6. ASSUME pulled' = pulled, got' = got, made' = made, m'.n = m.n, m'.held = m.held,
             m'.cur \in {0, m.cur}
      PROVE  FlatMapInv'
  <2>1. Concatenates(got)'
    <3>1. \A k : SubOf(k)' = SubOf(k)
      BY <1>6 DEF SubOf
    <3>2. Subs' = Subs
      BY <3>1 DEF Subs
    <3>3. Len(pulled'[1]) = n
      BY <1>6
    <3> QED BY <1>2, <1>6, <3>2, <3>3, ConcatenatesNext
  <2> QED BY <1>2, <1>6, <2>1 DEF FlatMapInv
<1>7. CASE Ended(r)
  <2>1. pulled' = pulled /\ r = FlatMapAtEof(m)
    BY <1>7, OnEofForms DEF Ended
  <2>2. CASE m.cur = 0
    <3>1. r.res = "eof" /\ r.m = m
      BY <2>1, <2>2 DEF FlatMapAtEof, Eof, Result
    <3>2. got' = got /\ m' = m /\ made' = made
      BY <1>1, <2>2, <3>1, ProceedForms
    <3> QED BY <1>6, <2>1, <3>2
  <2>3. CASE m.cur # 0
    <3>1. r.res = "more" /\ r.m = [m EXCEPT !.cur = 0]
      BY <2>1, <2>3 DEF FlatMapAtEof, Result
    <3>2. /\ got' = got /\ m' = [m EXCEPT !.cur = 0]
          /\ made' = IF r.m.cur = 0 THEN made ELSE made \cup {r.m.cur}
      BY <1>1, <3>1, ProceedForms
    <3>3. m'.cur = 0 /\ m'.n = m.n /\ m'.held = m.held /\ made' = made
      BY <1>0, <3>1, <3>2 DEF Memory
    <3> QED BY <1>6, <2>1, <3>2, <3>3
  <2> QED BY <2>2, <2>3
<1>8. CASE Broken(r)
  <2>1. pulled' = pulled /\ r.res = "err" /\ r.m = m
    BY <1>8, OnErrForms DEF Broken, Operators, Fail, Result
  <2>2. got' = got /\ m' = m /\ made' = IF m.cur = 0 THEN made ELSE made \cup {m.cur}
    BY <1>1, <2>1, ProceedForms
  <2>3. made' = made
    BY <1>2, <2>2
  <2> QED BY <1>6, <2>1, <2>2, <2>3
<1>9. CASE Limited(r)
  BY <1>9 DEF Limited, AtLimit
<1> QED BY <1>4, <1>5, <1>7, <1>8, <1>9

-----------------------------------------------------------------------------
(* The operators together *)

\* What comes out of nothing is nothing.
LEMMA InitOperator == Init => OperatorInv
<1> SUFFICES ASSUME Init PROVE OperatorInv
  OBVIOUS
<1>0. /\ TypeOK /\ pulled[1] = <<>> /\ pulled[2] = <<>> /\ got = <<>> /\ cuts = {}
      /\ m.n = 0 /\ m.held = <<>> /\ m.cur = 0 /\ ended[1] = "open"
      /\ made = (IF op = "zip" THEN {1, 2} ELSE {1})
      /\ \A s \in Streams : pulled[s] = <<>>
  BY InitTypes, TwoStreams DEF Init
<1>1. /\ Len(<<>>) = 0 /\ 1 .. 0 = {} /\ 0 .. 0 = {0} /\ N \in Nat /\ 0 * N = 0
      /\ ToSet(<<>>) = {} /\ SubSeq(<<>>, N + 1, 0) = <<>> /\ SubSeq(<<>>, 1, 0) = <<>>
  BY StreamAssumption DEF ToSet
<1>2. PlainInv /\ MapInv /\ TakeInv /\ SkipInv /\ ScanInv /\ ZipInv
  BY <1>0, <1>1 DEF PlainInv, MapInv, TakeInv, SkipInv, ScanInv, ZipInv
<1>3. FilterInv
  <2>1. Kept(<<>>) = {}
    BY DEF Kept
  <2> QED BY <1>0, <2>1, SelectsNone DEF FilterInv
<1>4. DistinctInv
  <2>1. New(<<>>) = {}
    BY DEF New
  <2> QED BY <1>0, <1>1, <2>1, SelectsNone DEF DistinctInv
<1>5. TakeWhileInv
  <2>1. AllLow(<<>>, 0)
    BY DEF AllLow
  <2> QED BY <1>0, <1>1, <2>1 DEF TakeWhileInv
<1>6. DropWhileInv
  <2>1. AllLow(<<>>, 0)
    BY DEF AllLow
  <2> QED BY <1>0, <1>1, <2>1 DEF DropWhileInv
<1>7. op = "batch" => BatchInv
  <2> SUFFICES ASSUME op = "batch" PROVE BatchInv
    OBVIOUS
  <2>1. N > 0
    BY <1>0 DEF TypeOK
  <2> DEFINE b == [j \in 0 .. 0 |-> 0]
  <2>2. b \in [0 .. 0 -> 0 .. 0] /\ b[0] = 0 /\ 0 < 0 + N /\ 0 + 1 = 1
    BY <1>1, <2>1
  <2> HIDE DEF b
  <2>3. BatchEnds(b)
    BY <1>0, <1>1, <2>2 DEF BatchEnds, CutAt
  <2> QED BY <2>3 DEF BatchInv
<1>8. op = "flatMap" => FlatMapInv
  <2>1. Places = {}
    <3>1. \A d \in Grid : ~(d[1] <= 0)
      BY GridFinite
    <3> QED BY <1>0, <1>1, <3>1 DEF Places, Grid
  <2>2. Concatenates(got)
    BY <1>0, <1>1, <2>1, FS_EmptySet DEF Concatenates
  <2> QED BY <1>0, <1>1, <2>2 DEF FlatMapInv
<1> QED BY <1>0, <1>2, <1>3, <1>4, <1>5, <1>6, <1>7, <1>8 DEF OperatorInv

\* A step that leaves the streams and the closure alone leaves the operator alone.
LEMMA QuietOperator ==
    ASSUME OperatorInv, Active' => Active,
           UNCHANGED <<op, pulled, ended, cuts, made, m, recorded, got>>
    PROVE  OperatorInv'
<1>1. UNCHANGED <<PlainInv, TakeInv, SkipInv, ScanInv, DropWhileInv>>
  BY DEF PlainInv, TakeInv, SkipInv, ScanInv, DropWhileInv, AllLow
<1>2. UNCHANGED <<FilterInv, DistinctInv>> /\ (BatchInv => BatchInv')
  BY DEF FilterInv, DistinctInv, BatchInv, BatchEnds, CutAt, Cut, Kept, New, Selects
<1>3. FlatMapInv' = FlatMapInv
  BY DEF FlatMapInv, Concatenates, Places, UpTo, SubOf
<1>4. (MapInv => MapInv') /\ (TakeWhileInv => TakeWhileInv') /\ (ZipInv => ZipInv')
  BY DEF MapInv, TakeWhileInv, AllLow, ZipInv
<1> QED BY <1>1, <1>2, <1>3, <1>4 DEF OperatorInv

\* Every operator keeps its invariant.
LEMMA NextOperator ==
    TypeOK /\ OperatorInv /\ AnswerInv /\ [Next]_vars => OperatorInv'
<1> SUFFICES ASSUME TypeOK, OperatorInv, AnswerInv, [Next]_vars PROVE OperatorInv'
  OBVIOUS
<1>1. CASE Quiet
  BY <1>1, QuietForms, QuietOperator
<1>2. ASSUME NEW r, Advances(r), Limited(r) \/ Yielded(r) \/ Ended(r) \/ Broken(r)
      PROVE  OperatorInv'
  <2>0. r \in Results /\ Proceed(r) /\ phase = "pull" /\ op' = op
    BY <1>2 DEF Advances
  <2>1. Active /\ ~recorded /\ op \in Operators
    BY <2>0 DEF Active, AnswerInv, TypeOK
  <2>2. op' # "flatMap" => m'.cur = 0 /\ made' = IF op' = "zip" THEN {1, 2} ELSE {1}
    BY <1>2, <2>0, ProceedForms, CurrentMoves DEF OperatorInv
  <2>3. op \in Single => Over \/ \E v : Gets(v, r)
    BY <1>2, SingleMoves
  <2>4. CASE op \in {"none", "observe", "peek"}
    BY <2>0, <2>2, <2>3, <2>4, PlainNext DEF OperatorInv, Single, Operators
  <2>5. CASE op = "map"
    BY <2>0, <2>1, <2>2, <2>3, <2>5, MapNext DEF OperatorInv, Single, Operators
  <2>6. CASE op = "filter"
    BY <2>0, <2>2, <2>3, <2>6, FilterNext DEF OperatorInv, Single, Operators
  <2>7. CASE op = "take"
    BY <2>0, <2>2, <2>3, <2>7, TakeNext DEF OperatorInv, Single, Operators
  <2>8. CASE op = "skip"
    BY <2>0, <2>2, <2>3, <2>8, SkipNext DEF OperatorInv, Single, Operators
  <2>9. CASE op = "takeWhile"
    BY <2>0, <2>1, <2>2, <2>3, <2>9, TakeWhileNext DEF OperatorInv, Single, Operators
  <2>10. CASE op = "dropWhile"
    BY <2>0, <2>2, <2>3, <2>10, DropWhileNext DEF OperatorInv, Single, Operators
  <2>11. CASE op = "distinct"
    BY <2>0, <2>2, <2>3, <2>11, DistinctNext DEF OperatorInv, Single, Operators
  <2>12. CASE op = "scan"
    BY <2>0, <2>2, <2>3, <2>12, ScanNext DEF OperatorInv, Single, Operators
  <2>13. CASE op = "batch"
    BY <1>2, <2>0, <2>2, <2>13, BatchNext DEF OperatorInv
  <2>14. CASE op = "zip"
    BY <1>2, <2>0, <2>2, <2>14, ZipNext DEF OperatorInv
  <2>15. CASE op = "flatMap"
    BY <1>2, <2>0, <2>15, FlatMapNext DEF OperatorInv
  <2> QED BY <2>1, <2>4, <2>5, <2>6, <2>7, <2>8, <2>9, <2>10, <2>11, <2>12, <2>13, <2>14,
             <2>15 DEF Operators
<1> QED BY <1>1, <1>2, NextForms

-----------------------------------------------------------------------------
(* Theorems *)

\* What is returned is what the operator stands for.
LEMMA OperatorMeant == TypeOK /\ OperatorInv => Meant
<1> SUFFICES ASSUME TypeOK, OperatorInv PROVE Meant
  OBVIOUS
<1> DEFINE p == pulled[1]
<1>0. /\ op \in Operators /\ p \in Seq(Values) /\ pulled[2] \in Seq(Values)
      /\ DOMAIN p = 1 .. Len(p) /\ DOMAIN pulled[2] = 1 .. Len(pulled[2])
  BY TwoStreams DEF TypeOK
<1>1. CASE op \in {"none", "observe", "peek"}
  BY <1>1 DEF OperatorInv, PlainInv, Meant
<1>2. CASE op = "map"
  <2>1. got \in Seq(Things) /\ phase \in {"pull", "send", "leave", "done"}
    BY DEF TypeOK
  <2>2. DOMAIN got = 1 .. Len(got)
    BY <2>1
  <2> QED BY <1>2, <2>1, <2>2 DEF OperatorInv, MapInv, Meant, Refusable, Active
<1>3. CASE op = "filter"
  BY <1>0, <1>3 DEF OperatorInv, FilterInv, Kept, Meant
<1>4. CASE op = "take"
  BY <1>4 DEF OperatorInv, TakeInv, Meant
<1>5. CASE op = "skip"
  BY <1>5 DEF OperatorInv, SkipInv, Meant
<1>6. CASE op = "takeWhile"
  BY <1>6 DEF OperatorInv, TakeWhileInv, Meant
<1>7. CASE op = "dropWhile"
  BY <1>7 DEF OperatorInv, DropWhileInv, Meant
<1>8. CASE op = "distinct"
  BY <1>0, <1>8 DEF OperatorInv, DistinctInv, New, Meant
<1>9. CASE op = "scan"
  BY <1>0, <1>9 DEF OperatorInv, ScanInv, Meant
<1>10. CASE op = "batch"
  <2>1. PICK b : BatchEnds(b)
    BY <1>10 DEF OperatorInv, BatchInv
  <2>2. DOMAIN got = 1 .. Len(got)
    BY DEF TypeOK
  <2>3. Batches(got, p)
    BY <2>1, <2>2 DEF Batches, Batched, BatchEnds, CutAt, Cut
  <2> QED BY <1>10, <2>3 DEF Meant
<1>11. CASE op = "zip"
  BY <1>0, <1>11 DEF OperatorInv, ZipInv, Meant
<1>12. CASE op = "flatMap"
  BY <1>12 DEF OperatorInv, FlatMapInv, Meant
<1> QED BY <1>0, <1>1, <1>2, <1>3, <1>4, <1>5, <1>6, <1>7, <1>8, <1>9, <1>10, <1>11, <1>12
        DEF Operators

\* What the closure of the operator remembers, what the terminal has made of the
\* items, why it answers and what Stop has left to do: the inductive invariant
\* (stream.go:180-225, 380-434, 689-1066, stream_ops.go).
THEOREM Invariance == Spec => []IInv
<1>1. Init => IInv
  BY InitTypes, InitOperator, InitAnswers, InitStop DEF IInv
<1>2. IInv /\ [Next]_vars => IInv'
  BY NextTypes, NextOperator, NextAnswers, NextStop DEF IInv
<1> QED BY <1>1, <1>2, PTL DEF Spec

\* For every pipeline of one of the operators and one of the terminals, any number
\* of items and any way its sources end, the items that come out are those that the
\* operator stands for, and the terminal answers for them as it should
\* (stream.go:180-225, 380-434, 689-1066, stream_ops.go).
THEOREM Outcome == Spec => []OutcomeRight
<1>1. IInv => ItemsRight
  BY OperatorMeant DEF IInv, ItemsRight, TallyInv, Excused
<1>2. IInv => AnswerRight
  <2> SUFFICES ASSUME IInv, answer = "nil"
               PROVE  /\ ~recorded /\ \A s \in made : ended[s] # "err"
                      /\ op = "none" => ~hidden
                      /\ Enough
                      /\ term = "first" => Len(got) <= 1
                      /\ term = "any" /\ tally  => \A k \in 1 .. Len(got) - 1 : ~Keep(got[k])
                      /\ term = "all" /\ ~tally => \A k \in 1 .. Len(got) - 1 : Keep(got[k])
    BY DEF AnswerRight, Enough
  <2>1. made \subseteq Streams /\ Len(got) \in Nat
    BY DEF IInv, TypeOK
  <2>2. /\ ~recorded /\ \A s \in Streams : ended[s] # "err"
        /\ op = "none" => ~hidden
        /\ Enough
        /\ term = "first" => Len(got) <= 1
        /\ term \in {"any", "all"} =>
              \A k \in 1 .. Len(got) : k < Len(got) => (Keep(got[k]) <=> term = "all")
    BY DEF IInv, AnswerInv
  <2>3. \A k \in 1 .. Len(got) - 1 : k \in 1 .. Len(got) /\ k < Len(got)
    BY <2>1
  <2> QED BY <2>1, <2>2, <2>3
<1> QED BY <1>1, <1>2, Invariance, PTL DEF OutcomeRight

\* Whoever calls Stop first, and whichever sub-stream FlatMap is in by then, a
\* terminal that has returned has stopped all that it was reading from
\* (stream.go:82-97, 1030-1038).
THEOREM Stops == Spec => []StopReaches
<1>1. IInv => StopReaches
  <2> SUFFICES ASSUME IInv, phase = "done"
               PROVE  IF outside THEN 1 \in stopped ELSE made \subseteq stopped
    BY DEF StopReaches
  <2>1. once = "over" /\ tostop = <<>> /\ outside \in BOOLEAN
    BY DEF IInv, StopInv, TypeOK
  <2>2. ToSet(tostop) = {}
    BY <2>1 DEF ToSet
  <2>3. /\ 1 \in stopped \cup ToSet(tostop)
        /\ ~outside => made \subseteq stopped \cup ToSet(tostop)
    BY <2>1 DEF IInv, StopInv
  <2> QED BY <2>1, <2>2, <2>3
<1> QED BY <1>1, Invariance, PTL
=============================================================================
