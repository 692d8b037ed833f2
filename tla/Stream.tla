------------------------------- MODULE Stream -------------------------------
(***************************************************************************)
(* Pull streams: a source, one operator over it, and one terminal call     *)
(* that reads the result in a goroutine, while another goroutine may call  *)
(* Stop and the context may be cancelled.  Streams are numbers: 1 is the   *)
(* source, 2 the second stream of Zip, k + 1 the sub-stream that FlatMap   *)
(* makes of the k-th item.  One step is one call of Next on one of these,  *)
(* with all that the operator and the terminal then do on their own.       *)
(***************************************************************************)
EXTENDS Integers, FiniteSets, SequencesExt

CONSTANTS
    Cases,      \* the pipelines considered: operator (or "none"), terminal, source
    N,          \* the number of Take, Skip and Batch
    MaxItems,   \* bound: the items of a source
    MaxSub      \* bound: the items of a sub-stream, or of the second stream of Zip

Operators == {"none", "observe", "peek", "map", "filter", "take", "skip", "takeWhile",
              "dropWhile", "distinct", "scan", "batch", "zip", "flatMap"}
Terminals == {"toSlice", "toChan", "forEach", "count", "any", "all", "first", "last",
              "reduce"}
Sources   == {"slice", "chan", "custom", "repeat", "generate", "empty", "parallel"}

\* Batch panics unless its number is positive, Take and Skip if theirs is negative.
ASSUME StreamAssumption ==
    /\ Cases \subseteq Operators \X Terminals \X Sources
    /\ N \in Nat
    /\ (\E c \in Cases : c[1] = "batch") => N > 0
    /\ MaxItems \in Nat \ {0} /\ MaxSub \in Nat

VARIABLES
    op, term, source,
    pulled,     \* per stream, the items its Next has returned
    ended,      \* per stream, what its Next gave last: "open" (an item), "eof", "err"
    cuts,       \* after how many items the source has answered io.EOF
    hidden,     \* the source has recorded an error and answered io.EOF
    made,       \* the streams that exist
    stopped,    \* the streams whose stop function has run
    m,          \* the variables of the operator's closure
    recorded,   \* err of the stream the terminal reads
    phase,      \* the terminal: "pull", "send", "leave", "done"
    got,        \* the items Next has returned to the terminal
    tally,      \* what the terminal has made of them
    answer,     \* the error it returns: "none" before, then "nil" or "err"
    once,       \* stopOnce of the stream read: "free", "taken", "over"
    tostop,     \* the streams that the stop function has yet to stop
    outside,    \* Stop was called by another goroutine
    cancelled   \* ctx.Done is closed

vars == <<op, term, source, pulled, ended, cuts, hidden, made, stopped, m, recorded, phase,
          got, tally, answer, once, tostop, outside, cancelled>>

Streams == 1 .. MaxItems + 1
Values  == {1, 2}
Keep(v) == v = 1          \* the predicate given to Filter, Any, All, ...

-----------------------------------------------------------------------------
\* What an operator makes of an item v: it goes on, returns an item, ends, fails.  An
\* error may come with a value, which is <<>> or has one element.

Result(s, res, val, stops) ==
    [m |-> s, res |-> res, val |-> val, with |-> <<>>, stops |-> stops]
More(s)    == Result(s, "more", 0, {})
Item(s, x) == Result(s, "item", x, {})
Eof(s, S)  == Result(s, "eof", 0, S)
Fail(s, w) == [Result(s, "err", 0, {}) EXCEPT !.with = w]

Observe(s, v)   == Item(s, v)
Peek(s, v)      == Item(s, v)
\* The answer of the function given to Map is that of Next, io.EOF included.
Map(s, v) ==
    LET x == <<"fn", v>> IN {Item(s, x), Eof(s, {}), Fail(s, <<>>), Fail(s, <<x>>)}

Filter(s, v)    == IF Keep(v) THEN Item(s, v) ELSE More(s)
Take(s, v)      == Item([s EXCEPT !.n = @ + 1], v)
Skip(s, v)      == IF s.n < N THEN More([s EXCEPT !.n = @ + 1]) ELSE Item(s, v)
TakeWhile(s, v) == IF Keep(v) THEN Item(s, v) ELSE Eof(s, {1})

\* Mutation of DropWhile: it drops whatever satisfies the predicate, to the end.
DropAlways(s, v) == IF Keep(v) THEN More(s) ELSE Item(s, v)

DropWhile(s, v) == IF s.n = 0 /\ Keep(v) THEN More(s) ELSE Item([s EXCEPT !.n = 1], v)
Distinct(s, v)  == IF v \in ToSet(s.held) THEN More(s)
                   ELSE Item([s EXCEPT !.held = Append(@, v)], v)
Scan(s, v)      == LET acc == Append(s.held, v) IN Item([s EXCEPT !.held = acc], acc)

Batch(s, v) ==
    LET batch == Append(s.held, v)
    IN IF Len(batch) = N THEN Item([s EXCEPT !.held = <<>>], batch)
       ELSE More([s EXCEPT !.held = batch])

ZipPair(s, v) ==
    IF s.held = <<>> THEN More([s EXCEPT !.held = <<v>>])
    ELSE Item([s EXCEPT !.held = <<>>], <<s.held[1], v>>)

\* The function given to FlatMap may return nil.
FlatMap(s, v) ==
    IF s.cur # 0 THEN {Item(s, v)}
    ELSE {More([s EXCEPT !.n = @ + 1]), More([s EXCEPT !.n = @ + 1, !.cur = s.n + 2])}

OnItem(s, v) ==
    CASE op = "none"      -> {Item(s, v)}
      [] op = "observe"   -> {Observe(s, v)}
      [] op = "peek"      -> {Peek(s, v)}
      [] op = "map"       -> Map(s, v)
      [] op = "filter"    -> {Filter(s, v)}
      [] op = "take"      -> {Take(s, v)}
      [] op = "skip"      -> {Skip(s, v)}
      [] op = "takeWhile" -> {TakeWhile(s, v)}
      [] op = "dropWhile" -> {DropWhile(s, v)}
      [] op = "distinct"  -> {Distinct(s, v)}
      [] op = "scan"      -> {Scan(s, v)}
      [] op = "batch"     -> {Batch(s, v)}
      [] op = "zip"       -> {ZipPair(s, v)}
      [] op = "flatMap"   -> FlatMap(s, v)

\* The stream that the operator's Next calls next.
From(s) == CASE op = "zip"     -> IF s.held = <<>> THEN 1 ELSE 2
             [] op = "flatMap" -> IF s.cur = 0 THEN 1 ELSE s.cur
             [] OTHER          -> 1

\* The end of one of its inputs: Batch returns what it has, Zip stops the other
\* input, FlatMap goes back to its source.
BatchAtEof(s) ==
    IF s.held = <<>> THEN Eof(s, {}) ELSE Item([s EXCEPT !.held = <<>>], s.held)
ZipAtEnd(s, res) ==
    Result([s EXCEPT !.held = <<>>], res, 0, {3 - From(s)})
FlatMapAtEof(s) ==
    IF s.cur = 0 THEN Eof(s, {}) ELSE Result([s EXCEPT !.cur = 0], "more", 0, {s.cur})

OnEof(s) == CASE op = "batch"   -> BatchAtEof(s)
              [] op = "zip"     -> ZipAtEnd(s, "eof")
              [] op = "flatMap" -> FlatMapAtEof(s)
              [] OTHER          -> Eof(s, {})

\* An error of an input, and the value w it came with: Batch returns what it has, some
\* return the zero value, the others hand w on.
BatchAtErr(s) ==
    Fail([s EXCEPT !.held = <<>>], IF s.held = <<>> THEN <<>> ELSE <<s.held>>)
ZeroAtErr(s) == \/ op \in {"map", "scan"}
                \/ op = "skip" /\ s.n < N
                \/ op = "flatMap" /\ s.cur = 0

OnErr(s, w) == CASE op = "batch"  -> BatchAtErr(s)
                 [] op = "zip"    -> ZipAtEnd(s, "err")
                 [] ZeroAtErr(s)  -> Fail(s, <<>>)
                 [] OTHER         -> Fail(s, w)

-----------------------------------------------------------------------------
\* What a terminal makes of an item: its tally, and whether it returns ("nil" or
\* "err") or not ("none").

Keeps(t, ret) == [tally |-> t, ret |-> ret]

ToSlice(t, x) == Keeps(Append(t, x), "none")
ForEach(t, x) == {Keeps(Append(t, x), "none"), Keeps(Append(t, x), "err")}
Count(t, x)   == Keeps(t + 1, "none")
AnyOf(t, x)   == IF Keep(x) THEN Keeps(TRUE, "nil") ELSE Keeps(t, "none")
AllOf(t, x)   == IF Keep(x) THEN Keeps(t, "none") ELSE Keeps(FALSE, "nil")
FirstOf(t, x) == Keeps(<<x>>, "nil")
LastOf(t, x)  == Keeps(<<x>>, "none")
Reduce(t, x)  == Keeps(Append(t, x), "none")    \* the accumulator stands for what it is made of

OnGot(t, x) ==
    CASE term \in {"toSlice", "toChan"} -> {ToSlice(t, x)}
      [] term = "forEach" -> ForEach(t, x)
      [] term = "count"   -> {Count(t, x)}
      [] term = "any"     -> {AnyOf(t, x)}
      [] term = "all"     -> {AllOf(t, x)}
      [] term = "first"   -> {FirstOf(t, x)}
      [] term = "last"    -> {LastOf(t, x)}
      [] term = "reduce"  -> {Reduce(t, x)}

Start == CASE term = "count" -> 0
           [] term = "any"   -> FALSE
           [] term = "all"   -> TRUE
           [] OTHER          -> <<>>

Init ==
    /\ \E c \in Cases : op = c[1] /\ term = c[2] /\ source = c[3]
    /\ pulled = [s \in Streams |-> <<>>] /\ ended = [s \in Streams |-> "open"]
    /\ cuts = {} /\ hidden = FALSE /\ recorded = FALSE
    /\ made = IF op = "zip" THEN {1, 2} ELSE {1}
    /\ stopped = {} /\ tostop = <<>> /\ once = "free" /\ outside = FALSE
    /\ m = [n |-> 0, held |-> <<>>, cur |-> 0]
    /\ phase = "pull" /\ got = <<>> /\ tally = Start /\ answer = "none"
    /\ cancelled = FALSE

\* The goroutine of the terminal gets r from the operator's Next: it goes round the
\* loop, hands the item on, or leaves.  At io.EOF the answer is Err.  First returns the
\* value that an error came with, the others do not look at it.
Proceed(r) ==
    /\ m' = r.m
    /\ stopped' = stopped \cup r.stops
    /\ made' = IF r.m.cur = 0 THEN made ELSE made \cup {r.m.cur}
    /\ CASE r.res = "more" ->
              UNCHANGED <<recorded, phase, got, tally, answer>>
         [] r.res = "item" ->
              /\ got' = Append(got, r.val)
              /\ IF term = "toChan" THEN phase' = "send" /\ UNCHANGED <<tally, answer>>
                 ELSE \E k \in OnGot(tally, r.val) :
                        /\ tally' = k.tally /\ answer' = k.ret
                        /\ phase' = IF k.ret = "none" THEN "pull" ELSE "leave"
              /\ UNCHANGED recorded
         [] r.res = "eof" ->
              /\ answer' = IF recorded \/ (op = "none" /\ hidden') THEN "err" ELSE "nil"
              /\ phase' = "leave"
              /\ UNCHANGED <<recorded, got, tally>>
         [] r.res = "err" ->
              /\ recorded' = TRUE /\ answer' = "err" /\ phase' = "leave"
              /\ tally' = IF term = "first" THEN r.with ELSE tally
              /\ UNCHANGED got

\* Mutation of AtLimit: Take asks its source once more.
AtLimitLate == op = "take" /\ m.n > N

AtLimit == op = "take" /\ m.n >= N

\* Take does not ask its source when it has its items.
TakeEnds ==
    /\ phase = "pull" /\ AtLimit
    /\ Proceed(Eof(m, {1}))
    /\ UNCHANGED <<op, term, source, pulled, ended, cuts, hidden, once, tostop, outside, cancelled>>

Pulling(s) == phase = "pull" /\ ~AtLimit /\ s = From(m)

\* What a source can answer.  Sources over a slice, Repeat and Generate look at the
\* context first; FromChan may take either; a function given to NewStream does as it
\* likes, after io.EOF as well.  So does the mapper of a ParallelMap, whose answers are
\* those of its Next; it answers io.EOF for an error of its own source.
Kind(s) == IF s = 1 THEN source ELSE "custom"
Free(s) == Kind(s) \in {"custom", "parallel"}
CanYield(s) == /\ Kind(s) # "empty"
               /\ Len(pulled[s]) < (IF s = 1 THEN MaxItems ELSE MaxSub)
               /\ ended[s] = "open" \/ Free(s)
               /\ Kind(s) \in {"slice", "repeat", "generate"} => ~cancelled
CanEnd(s)   == /\ Kind(s) # "generate"
               /\ Kind(s) \in {"slice", "repeat"} => ~cancelled
CanFail(s)  == Free(s) \/ (Kind(s) # "empty" /\ cancelled)

\* FromSlice, FromChan, NewStream: an item.  Those of Repeat are all the same.
Yield(s) ==
    /\ Pulling(s) /\ CanYield(s)
    /\ \E v \in Values :
         /\ Kind(s) = "repeat" /\ pulled[s] # <<>> => v = pulled[s][1]
         /\ pulled' = [pulled EXCEPT ![s] = Append(@, v)]
         /\ \E r \in OnItem(m, v) : Proceed(r)
    /\ ended' = [ended EXCEPT ![s] = "open"]
    /\ UNCHANGED <<op, term, source, cuts, hidden, once, tostop, outside, cancelled>>

End(s) ==
    /\ Pulling(s) /\ CanEnd(s)
    /\ ended' = [ended EXCEPT ![s] = "eof"]
    /\ cuts' = IF s = 1 THEN cuts \cup {Len(pulled[1])} ELSE cuts
    /\ hidden' \in {hidden, Kind(s) = "parallel"}
    /\ Proceed(OnEof(m))
    /\ UNCHANGED <<op, term, source, pulled, once, tostop, outside, cancelled>>

Break(s) ==
    /\ Pulling(s) /\ CanFail(s)
    /\ ended' = [ended EXCEPT ![s] = "err"]
    /\ \E w \in {<<>>} \cup {<<v>> : v \in Values} :
         /\ w # <<>> => Free(s)
         /\ Proceed(OnErr(m, w))
    /\ UNCHANGED <<op, term, source, pulled, cuts, hidden, once, tostop, outside, cancelled>>

\* ToChanScope: the item goes to the channel, or the context ends the task.
SendItem ==
    /\ phase = "send"
    /\ \E k \in OnGot(tally, Last(got)) : tally' = k.tally
    /\ phase' = "pull"
    /\ UNCHANGED <<op, term, source, pulled, ended, cuts, hidden, made, stopped, m, recorded,
                   got, answer, once, tostop, outside, cancelled>>

SendCancelled ==
    /\ phase = "send" /\ cancelled
    /\ answer' = "err" /\ phase' = "leave"
    /\ UNCHANGED <<op, term, source, pulled, ended, cuts, hidden, made, stopped, m, recorded,
                   got, tally, once, tostop, outside, cancelled>>

\* Mutation of StopList: FlatMap stops its source only.
StopSource == IF op = "zip" THEN <<1, 2>> ELSE <<1>>

\* The stop function of the stream that is read; it looks at current once.
StopList ==
    CASE op = "zip"     -> <<1, 2>>
      [] op = "flatMap" -> IF m.cur = 0 THEN <<1>> ELSE <<m.cur, 1>>
      [] OTHER          -> <<1>>

\* stopNow, from the deferred call of the terminal or from Stop in another goroutine:
\* the first to come runs the stop function.
Stop ==
    /\ once = "free"
    /\ once' = "taken" /\ tostop' = StopList
    /\ \/ phase = "leave" /\ UNCHANGED outside
       \/ outside' = TRUE
    /\ UNCHANGED <<op, term, source, pulled, ended, cuts, hidden, made, stopped, m, recorded,
                   phase, got, tally, answer, cancelled>>

StopOne ==
    /\ once = "taken" /\ tostop # <<>>
    /\ stopped' = stopped \cup {Head(tostop)}
    /\ tostop' = Tail(tostop)
    /\ once' = IF Len(tostop) = 1 THEN "over" ELSE "taken"
    /\ UNCHANGED <<op, term, source, pulled, ended, cuts, hidden, made, m, recorded, phase,
                   got, tally, answer, outside, cancelled>>

\* The terminal returns when its stopNow has; a second call waits for the first.
Return ==
    /\ phase = "leave" /\ once = "over"
    /\ phase' = "done"
    /\ UNCHANGED <<op, term, source, pulled, ended, cuts, hidden, made, stopped, m, recorded,
                   got, tally, answer, once, tostop, outside, cancelled>>

Cancel ==
    /\ ~cancelled
    /\ cancelled' = TRUE
    /\ UNCHANGED <<op, term, source, pulled, ended, cuts, hidden, made, stopped, m, recorded,
                   phase, got, tally, answer, once, tostop, outside>>

Next ==
    \/ TakeEnds
    \/ \E s \in Streams : Yield(s) \/ End(s) \/ Break(s)
    \/ SendItem \/ SendCancelled
    \/ Stop \/ StopOne \/ Return
    \/ Cancel

Spec == Init /\ [][Next]_vars

-----------------------------------------------------------------------------
\* What the stream has to be, given what its inputs have returned: definitions on
\* whole sequences, which know nothing of the loops.

AllLow(s, k) == \A j \in 1 .. k : Keep(s[j])

\* out consists of the items of s at the positions chosen, in their order.
Selects(out, s, chosen) ==
    /\ Len(out) = Cardinality(chosen)
    /\ \A k \in chosen : out[Cardinality({j \in chosen : j <= k})] = s[k]

\* The items after the i-th up to the k-th make a batch: there are N of them, or the
\* source has ended there, and it has not ended before.
Batched(i, k) ==
    /\ i < k /\ k <= i + N /\ (k < i + N => k \in cuts)
    /\ \A e \in cuts : ~(i < e /\ e < k)

\* out are the batches of s, b[j] the place of the last item of the j-th; those that
\* follow are not a batch yet.
Batches(out, s) ==
    \E b \in [0 .. Len(out) -> 0 .. Len(s)] :
        /\ b[0] = 0
        /\ \A j \in DOMAIN out : /\ out[j] = SubSeq(s, b[j - 1] + 1, b[j])
                                 /\ Batched(b[j - 1], b[j])
        /\ Len(s) < b[Len(out)] + N /\ \A e \in cuts : e <= b[Len(out)]

\* The places <<k, j>> of the items of the sub-streams: item j of the k-th of them.
SubOf(k)  == IF k + 1 \in made THEN pulled[k + 1] ELSE <<>>
Places    == {d \in (1 .. MaxItems) \X (1 .. MaxSub) :
                 d[1] <= Len(pulled[1]) /\ d[2] <= Len(SubOf(d[1]))}
UpTo(d)   == {e \in Places : e[1] < d[1] \/ (e[1] = d[1] /\ e[2] <= d[2])}

\* out consists of the items of the sub-streams, one sub-stream after the other.
Concatenates(out) ==
    /\ Len(out) = Cardinality(Places)
    /\ \A d \in Places : out[Cardinality(UpTo(d))] = SubOf(d[1])[d[2]]

\* The terminal has left after an item of the source, which the function of Map may have
\* refused, with an error or with io.EOF.
Refusable == phase \in {"leave", "done"} /\ ended[1] = "open"

Meant ==
    LET p == pulled[1]
    IN CASE op = "map"    ->
               /\ got = [k \in DOMAIN got |-> <<"fn", p[k]>>]
               /\ Len(got) = Len(p) \/ (Refusable /\ Len(got) = Len(p) - 1)
         [] op = "filter" -> Selects(got, p, {k \in DOMAIN p : Keep(p[k])})
         [] op = "take"   -> got = p /\ Len(p) <= N
         [] op = "skip"   -> got = SubSeq(p, N + 1, Len(p))
         [] op = "takeWhile" -> got = IF AllLow(p, Len(p)) THEN p ELSE Front(p)
         [] op = "dropWhile" ->
               \E k \in 0 .. Len(p) :
                   /\ got = SubSeq(p, k + 1, Len(p))
                   /\ AllLow(p, k) /\ (k < Len(p) => ~Keep(p[k + 1]))
         [] op = "distinct" ->
               Selects(got, p, {k \in DOMAIN p : \A j \in 1 .. k - 1 : p[j] # p[k]})
         [] op = "scan"   -> got = [k \in DOMAIN p |-> SubSeq(p, 1, k)]
         [] op = "batch"  -> Batches(got, p)
         [] op = "zip"    -> got = [k \in DOMAIN pulled[2] |-> <<p[k], pulled[2][k]>>]
         [] op = "flatMap" -> Concatenates(got)
         [] OTHER         -> got = p

\* What the terminal has to answer, given all the items of the stream.
Told(g) ==
    CASE term \in {"toSlice", "toChan", "forEach", "reduce"} -> g
      [] term = "count"  -> Len(g)
      [] term = "any"    -> \E k \in DOMAIN g : Keep(g[k])
      [] term = "all"    -> \A k \in DOMAIN g : Keep(g[k])
      [] term = "first"  -> IF g = <<>> THEN <<>> ELSE <<g[1]>>
      [] term = "last"   -> IF g = <<>> THEN <<>> ELSE <<Last(g)>>

\* What First may return with an error: what Batch has of a batch, a value of the
\* function of Map, or the one that came with the error of the source.
Along ==
    LET p == pulled[1]
    IN CASE op = "batch" -> {IF p = <<>> THEN <<>> ELSE <<p>>}
         [] op = "map"   -> {<<>>} \cup {<< <<"fn", v>> >> : v \in ToSet(p)}
         [] op \in {"scan", "zip"} \/ (op = "skip" /\ Len(p) < N) -> {<<>>}
         [] OTHER        -> {<<>>} \cup {<<v>> : v \in Values}

\* Whatever the sources answer, wherever they fail and whenever Stop is called, the
\* items are those the operator stands for, each once and in order, and the terminal
\* makes of them what it says.  There are two exceptions: an item that a cancelled
\* ToChanScope did not hand over, and First, which with an error returns what came
\* with it (stream.go:180-225, 380-434, 689-1066, stream_ops.go).
ItemsRight ==
    /\ Meant
    /\ IF term = "first" /\ answer = "err" THEN tally \in Along
       ELSE \/ tally = Told(got)
            \/ term = "toChan" /\ (phase = "send" \/ answer = "err") /\ tally = Front(got)

\* A terminal answers nil only if its last call of Next was answered with io.EOF or it
\* has seen enough, and then it has read no further than it had to: Take, First, Any and
\* All leave alone what follows (stream.go:202-225, 689-704, 814-945).  The io.EOF is
\* that of an input of the operator or that of the function given to Map, which may end
\* the stream while its source is open (stream.go:397).  No error that Next returned is
\* lost.  An error that the source of a ParallelMap has recorded, when io.EOF has hidden
\* it, is told to whoever reads that stream itself; through a derived stream it is lost.
AnswerRight ==
    answer = "nil" =>
        /\ ~recorded /\ \A s \in made : ended[s] # "err"
        /\ op = "none" => ~hidden
        /\ \/ ended[1] = "eof" \/ (op = "zip" /\ ended[2] = "eof")
           \/ op = "map" /\ Len(got) < Len(pulled[1])
           \/ op = "take" /\ Len(pulled[1]) = N
           \/ op = "takeWhile" /\ ~Keep(Last(pulled[1]))
           \/ term \in {"first", "any", "all"} /\ got # <<>>
        /\ term = "first" => Len(got) <= 1
        /\ term = "any" /\ tally  => \A k \in 1 .. Len(got) - 1 : ~Keep(got[k])
        /\ term = "all" /\ ~tally => \A k \in 1 .. Len(got) - 1 : Keep(got[k])

\* What comes out is right: the items, and the answer that goes with them
\* (stream.go:180-225, 380-434, 689-1066, stream_ops.go).
OutcomeRight == ItemsRight /\ AnswerRight

\* When a terminal has returned, everything it was reading from is stopped, the
\* sub-stream FlatMap was in and the other side of a Zip as well.  If Stop was
\* called from outside before, the source is, but not a sub-stream made later
\* (stream.go:82-97, 1030-1038).
StopReaches ==
    phase = "done" => IF outside THEN 1 \in stopped ELSE made \subseteq stopped
=============================================================================
