------------------------------ MODULE MCStream ------------------------------
EXTENDS Stream

\* Each operator, read whole, read to a channel, and left after one item; each
\* terminal; each source.  Any and All apply their predicate to plain items.
AllCases ==
    ({"none", "observe", "peek", "map", "filter", "take", "skip", "takeWhile",
      "dropWhile", "distinct", "scan", "batch", "zip", "flatMap"}
        \X {"toSlice", "first"} \X {"custom"})
    \cup ({"none", "filter", "take"}
        \X {"forEach", "count", "any", "all", "last", "reduce", "toChan"} \X {"custom"})
    \cup ({"none", "take", "batch"} \X {"toSlice"}
        \X {"slice", "chan", "repeat", "generate", "empty", "parallel"})
    \cup ({"zip", "flatMap"} \X {"toChan"} \X {"chan"})
=============================================================================
