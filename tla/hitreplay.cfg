\* Streams of up to three chunks, any entry a store can return.
SPECIFICATION FairSpec
INVARIANT ReplayFaithful
PROPERTY ReplayEnds
\* A lookup ends.
CHECK_DEADLOCK FALSE
CONSTANTS
    MaxChunks = 3
    ForeignEntries = TRUE
    None = None
