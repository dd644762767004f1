\* One hit of a stream of up to three chunks, with the entries this cache writes.
SPECIFICATION Spec
INVARIANTS StreamComplete
\* A lookup ends.
CHECK_DEADLOCK FALSE
CONSTANTS
    MaxChunks = 3
    ForeignEntries = FALSE
    None = None
