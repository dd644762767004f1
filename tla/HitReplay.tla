------------------------------- MODULE HitReplay -------------------------------
(* One cache hit in detail: how buildResponseFromResult judges the entry the  *)
(* store returned, and, for a streaming request, how a goroutine replays the  *)
(* stored chunks into a buffered channel while Lookup returns (and so cancels *)
(* the context the goroutine watches) and the caller reads, or walks away.    *)
EXTENDS Naturals, Sequences

CONSTANTS MaxChunks,      \* bound on the chunks of an entry
          ForeignEntries, \* TRUE: the store may return what this cache never wrote
          None

ASSUME ReplayAssumption == MaxChunks \in Nat \ {0} /\ ForeignEntries \in BOOLEAN

VARIABLES
    entry,    \* the properties the store returned
    isStream, \* req.Type.IsStream()
    outcome,  \* what buildResponseFromResult made of it
    evicting, \* a goroutine deletes the entry
    returned, \* Lookup has returned to its caller
    ctxDone,  \* the lookup context is done
    replay,   \* the replay goroutine
    sent,     \* how many chunks it has sent
    ch,       \* the buffer of the channel
    closed,   \* the channel is closed
    reader,   \* the caller ranging over Stream
    received  \* the chunks it has read

buildVars  == <<entry, isStream, outcome, evicting>>
streamVars == <<replay, sent, ch, closed>>
readVars   == <<reader, received>>
vars == <<buildVars, returned, ctxDone, streamVars, readVars>>

\* expires_at: absent, in the future, in the past, or no integer.  chunks: how
\* many strings stream_chunks yields, None when it cannot be parsed.  response:
\* absent (or null), empty, a text, or not a string.
Properties == [expiresAt: {"absent", "future", "past", "garbled"},
               chunks: 0..MaxChunks \cup {None},
               response: {"absent", "empty", "text", "other"}]

\* storeResponse writes an empty chunk list and a text, storeStreamResponse at
\* least one chunk and an empty response; both write expires_at.
OwnEntries ==
    {e \in Properties :
        /\ e.expiresAt \in {"future", "past"}
        /\ \/ e.chunks = 0 /\ e.response = "text"
           \/ e.chunks \in 1..MaxChunks /\ e.response = "empty"}

Chunks == [i \in 1..entry.chunks |-> i]

-------------------------------------------------------------------------------
Init ==
    /\ entry \in IF ForeignEntries THEN Properties ELSE OwnEntries
    /\ isStream \in BOOLEAN
    /\ outcome = "pending"
    /\ evicting = FALSE
    /\ returned = FALSE
    /\ ctxDone = FALSE
    /\ replay = "none" /\ sent = 0
    /\ ch = <<>> /\ closed = FALSE
    /\ reader = "waiting" /\ received = <<>>

\* isExpiredEntry: expired entries are evicted, unreadable ones are left alone.
Unusable ==
    /\ entry.expiresAt \in {"past", "garbled"}
    /\ evicting' = (entry.expiresAt = "past")
    /\ outcome' = "miss"
    /\ UNCHANGED replay

Usable == entry.expiresAt \in {"absent", "future"}

BuildStream ==
    /\ Usable /\ isStream
    /\ IF entry.chunks \in {None, 0}
       THEN outcome' = "miss" /\ UNCHANGED replay
       ELSE outcome' = "hit" /\ replay' = "running"
    /\ UNCHANGED evicting

BuildResponse ==
    /\ Usable /\ ~ isStream
    /\ outcome' = CASE entry.response = "absent" -> "miss"
                    [] entry.response = "other"  -> "error"
                    [] OTHER                     -> "hit"
    /\ UNCHANGED <<evicting, replay>>

buildResponseFromResult ==
    /\ outcome = "pending"
    /\ Unusable \/ BuildStream \/ BuildResponse
    /\ UNCHANGED <<entry, isStream, returned, ctxDone, sent, ch, closed, readVars>>

\* Lookup's deferred cancel runs as it returns.
LookupReturns ==
    /\ outcome # "pending" /\ ~ returned
    /\ returned' = TRUE
    /\ ctxDone' = TRUE
    /\ UNCHANGED <<buildVars, streamVars, readVars>>

\* The five seconds of the lookup context, or the caller's own context, end.
ContextEnds ==
    /\ ~ ctxDone
    /\ ctxDone' = TRUE
    /\ UNCHANGED <<buildVars, returned, streamVars, readVars>>

\* An unbuffered channel: a send waits for the reader.
SendUnbuffered ==
    /\ replay = "running" /\ sent < entry.chunks
    /\ ch = <<>> /\ reader = "reading"
    /\ ch' = Append(ch, Chunks[sent + 1])
    /\ sent' = sent + 1
    /\ UNCHANGED <<replay, closed>>

\* The select: a send (the buffer has room for every chunk) ...
SendChunk ==
    /\ replay = "running" /\ sent < entry.chunks
    /\ Len(ch) < entry.chunks
    /\ ch' = Append(ch, Chunks[sent + 1])
    /\ sent' = sent + 1
    /\ UNCHANGED <<replay, closed>>

\* ... or the end of the context, either one when both are ready; the deferred
\* close runs in both cases.
GiveUp ==
    /\ replay = "running" /\ sent < entry.chunks
    /\ ctxDone
    /\ replay' = "ended" /\ closed' = TRUE
    /\ UNCHANGED <<sent, ch>>

\* Plausible bug: the loop ends one chunk early.
AllSent_OneShort ==
    /\ replay = "running" /\ sent \in {entry.chunks, entry.chunks - 1}
    /\ replay' = "ended" /\ closed' = TRUE
    /\ UNCHANGED <<sent, ch>>

AllSent ==
    /\ replay = "running" /\ sent = entry.chunks
    /\ replay' = "ended" /\ closed' = TRUE
    /\ UNCHANGED <<sent, ch>>

\* Plausible bug: the channel is unbuffered and the send is not in a select.
Replay_Blocking ==
    /\ SendUnbuffered \/ AllSent
    /\ UNCHANGED <<buildVars, returned, ctxDone, readVars>>

Replay ==
    /\ SendChunk \/ GiveUp \/ AllSent
    /\ UNCHANGED <<buildVars, returned, ctxDone, readVars>>

\* The caller gets the result, ranges over Stream until it is closed and empty,
\* or stops listening at any time.
ReadFirst ==
    /\ reader = "waiting" /\ returned /\ outcome = "hit" /\ isStream
    /\ reader' = "reading"
    /\ UNCHANGED <<ch, received>>

ReadChunk ==
    /\ reader = "reading" /\ ch # <<>>
    /\ received' = Append(received, Head(ch))
    /\ ch' = Tail(ch)
    /\ UNCHANGED reader

ReadEnd ==
    /\ reader = "reading" /\ ch = <<>> /\ closed
    /\ reader' = "finished"
    /\ UNCHANGED <<ch, received>>

Abandon ==
    /\ reader = "reading"
    /\ reader' = "gone"
    /\ UNCHANGED <<ch, received>>

Read ==
    /\ ReadFirst \/ ReadChunk \/ ReadEnd \/ Abandon
    /\ UNCHANGED <<buildVars, returned, ctxDone, replay, sent, closed>>

Next ==
    \/ buildResponseFromResult
    \/ LookupReturns
    \/ ContextEnds
    \/ Replay
    \/ Read

Spec == Init /\ [][Next]_vars

\* Go runs the lookup and the replay goroutine; nobody makes the caller read.
FairSpec == Spec /\ WF_vars(buildResponseFromResult \/ LookupReturns) /\ WF_vars(Replay)

-------------------------------------------------------------------------------
TypeOK ==
    /\ entry \in Properties /\ isStream \in BOOLEAN
    /\ outcome \in {"pending", "hit", "miss", "error"}
    /\ {evicting, returned, ctxDone, closed} \subseteq BOOLEAN
    /\ replay \in {"none", "running", "ended"}
    /\ sent \in 0..MaxChunks
    /\ ch \in Seq(1..MaxChunks) /\ received \in Seq(1..MaxChunks)
    /\ reader \in {"waiting", "reading", "finished", "gone"}

\* What has been read and what is buffered are together the first chunks of the
\* stored stream, in order and none twice; and the goroutine stops short only
\* when the context has ended (the select in buildResponseFromResult).
ReplayFaithful ==
    replay # "none" =>
        /\ received \o ch = SubSeq(Chunks, 1, sent)
        /\ (replay = "ended" /\ sent < entry.chunks) => ctxDone

\* The replay goroutine ends, also when the caller never reads: the buffer
\* holds the whole stream, so no send waits for a reader.
ReplayEnds == replay = "running" ~> replay = "ended"

-------------------------------------------------------------------------------
(* What the documentation says and the code does not do.                      *)

\* types.go:115 on LookupResult.Stream: "The channel is closed after the last
\* chunk", so a caller that reads to the end has every chunk.
StreamComplete == reader = "finished" => received = Chunks
===============================================================================
