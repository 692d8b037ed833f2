--------------------------- MODULE MCParallelMap ---------------------------
EXTENDS ParallelMap

Base == [ordered |-> TRUE, workers |-> 2, buffer |-> 0, maxPending |-> 2,
         items |-> 3, srcFails |-> FALSE, outcomes |-> {"ok", "err"}]

\* Ordered: as many tokens as workers, and a source that fails after its items.
OrderedConfig == [Base EXCEPT !.srcFails = TRUE]

\* Ordered with one token for two workers and mappers that return io.EOF.
TightConfig == [Base EXCEPT !.maxPending = 1, !.outcomes = {"ok", "eof"}]

\* Ordered with the default number of tokens, two for one worker.
DefaultConfig == [Base EXCEPT !.maxPending = 0, !.workers = 1]

\* Unordered, without tokens; one worker and a channel of one.
UnorderedConfig == [Base EXCEPT !.ordered = FALSE]
SingleConfig == [Base EXCEPT !.ordered = FALSE, !.workers = 1, !.srcFails = TRUE]

AllConfigs == {OrderedConfig, TightConfig, DefaultConfig, UnorderedConfig,
               SingleConfig}
=============================================================================
