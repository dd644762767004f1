---------------------------- MODULE HitReplayProofs ----------------------------
(* Proofs about HitReplay, for streams of any length.                         *)
EXTENDS HitReplay, SequenceTheorems, TLAPS

\* What makes ReplayFaithful inductive: a replay runs only for an entry that
\* has chunks, has sent no more of them than there are, and before it starts
\* nothing is in the channel and nobody has read.
Playing ==
    /\ replay = "none" => sent = 0 /\ ch = <<>> /\ received = <<>>
    /\ replay # "none" => entry.chunks \in 1..MaxChunks /\ sent \in 0..entry.chunks
    /\ outcome = "pending" => replay = "none"

Inv == TypeOK /\ Playing /\ ReplayFaithful

LEMMA InitInv == Init => Inv
<1> SUFFICES ASSUME Init PROVE Inv
  OBVIOUS
<1> USE ReplayAssumption
<1>1. entry \in Properties
  BY DEF Init, OwnEntries
<1>2. {evicting, returned, ctxDone, closed} \subseteq BOOLEAN
  BY DEF Init
<1>3. ch \in Seq(1..MaxChunks) /\ received \in Seq(1..MaxChunks) /\ sent \in 0..MaxChunks
  BY DEF Init
<1>4. TypeOK
  BY <1>1, <1>2, <1>3 DEF Init, TypeOK
<1> QED
  BY <1>4 DEF Inv, Init, Playing, ReplayFaithful

LEMMA ChunksAre ==
    ASSUME entry.chunks \in 1..MaxChunks
    PROVE  /\ Chunks \in Seq(1..MaxChunks) /\ Len(Chunks) = entry.chunks
           /\ \A i \in 1..entry.chunks : Chunks[i] = i
BY ReplayAssumption DEF Chunks

LEMMA BuildStep == ASSUME Inv, buildResponseFromResult PROVE Inv'
<1> USE ReplayAssumption DEF Inv, TypeOK, Playing, buildResponseFromResult
<1>1. /\ replay = "none" /\ sent = 0 /\ ch = <<>> /\ received = <<>>
      /\ UNCHANGED <<entry, isStream, returned, ctxDone, sent, ch, closed, reader, received>>
  BY DEF readVars
<1>2. CASE Unusable
  BY <1>1, <1>2 DEF Unusable, ReplayFaithful
<1>3. CASE BuildStream
  <2>1. entry.chunks \in 0..MaxChunks \cup {None}
    BY DEF Properties
  <2>2. \/ replay' = "none"
        \/ replay' = "running" /\ entry.chunks \in 1..MaxChunks
    BY <1>1, <1>3, <2>1 DEF BuildStream
  <2>3. TypeOK' /\ Playing'
    BY <1>1, <1>3, <2>2 DEF BuildStream
  <2>4. ReplayFaithful'
    <3>1. CASE replay' = "none"
      BY <3>1 DEF ReplayFaithful
    <3>2. CASE replay' = "running" /\ entry.chunks \in 1..MaxChunks
      <4>1. SubSeq(Chunks, 1, 0) = <<>>
        BY SubSeqEmpty
      <4>2. received' \o ch' = <<>> /\ Chunks' = Chunks
        BY <1>1 DEF Chunks
      <4> QED
        BY <1>1, <3>2, <4>1, <4>2 DEF ReplayFaithful
    <3> QED
      BY <2>2, <3>1, <3>2
  <2> QED
    BY <2>3, <2>4
<1>4. CASE BuildResponse
  BY <1>1, <1>4 DEF BuildResponse, ReplayFaithful
<1> QED
  BY <1>2, <1>3, <1>4

LEMMA ReplayStep == ASSUME Inv, Replay PROVE Inv'
<1> USE ReplayAssumption DEF Inv, TypeOK, Playing
<1>1. /\ UNCHANGED <<entry, isStream, outcome, evicting, returned, ctxDone, reader, received>>
      /\ replay = "running" /\ entry.chunks \in 1..MaxChunks /\ sent \in 0..entry.chunks
      /\ Chunks' = Chunks
  BY DEF Replay, buildVars, readVars, SendChunk, GiveUp, AllSent, Chunks
<1>2. CASE SendChunk
  <2>1. /\ sent < entry.chunks /\ sent' = sent + 1
        /\ ch' = Append(ch, Chunks[sent + 1]) /\ UNCHANGED <<replay, closed>>
    BY <1>2 DEF SendChunk
  <2>2. Chunks[sent + 1] \in 1..MaxChunks
    BY <1>1, <2>1, ChunksAre
  <2>3. TypeOK' /\ Playing'
    BY <1>1, <2>1, <2>2
  <2>4. received' \o ch' = SubSeq(Chunks', 1, sent')
    <3>1. received \o Append(ch, Chunks[sent + 1]) = Append(received \o ch, Chunks[sent + 1])
      BY SMTT(30), <2>2
    <3>2. SubSeq(Chunks, 1, sent + 1) = Append(SubSeq(Chunks, 1, sent), Chunks[sent + 1])
      BY <1>1, <2>1, ChunksAre
    <3> QED
      BY <1>1, <2>1, <3>1, <3>2 DEF ReplayFaithful
  <2> QED
    BY <1>1, <2>1, <2>3, <2>4 DEF ReplayFaithful
<1>3. CASE GiveUp \/ AllSent
  <2>1. /\ replay' = "ended" /\ closed' = TRUE /\ UNCHANGED <<sent, ch>>
        /\ sent = entry.chunks \/ ctxDone
    BY <1>3 DEF GiveUp, AllSent
  <2>2. TypeOK' /\ Playing'
    BY <1>1, <2>1
  <2> QED
    BY <1>1, <2>1, <2>2 DEF ReplayFaithful
<1> QED
  BY <1>2, <1>3 DEF Replay

LEMMA ReadStep == ASSUME Inv, Read PROVE Inv'
<1> USE ReplayAssumption DEF Inv, TypeOK, Playing
<1>1. /\ UNCHANGED <<entry, isStream, outcome, evicting, returned, ctxDone, replay, sent, closed>>
      /\ Chunks' = Chunks
  BY DEF Read, buildVars, Chunks
<1>2. CASE ReadFirst \/ ReadEnd \/ Abandon
  BY <1>1, <1>2 DEF ReadFirst, ReadEnd, Abandon, ReplayFaithful
<1>3. CASE ReadChunk
  <2>1. /\ ch # <<>> /\ received' = Append(received, Head(ch)) /\ ch' = Tail(ch)
        /\ UNCHANGED reader
    BY <1>3 DEF ReadChunk
  <2>2. Head(ch) \in 1..MaxChunks /\ Tail(ch) \in Seq(1..MaxChunks)
    BY <2>1
  <2>3. TypeOK' /\ Playing'
    BY <1>1, <2>1, <2>2
  <2>4. Append(received, Head(ch)) \o Tail(ch) = received \o ch
    BY SMTT(30), <2>1
  <2> QED
    BY <1>1, <2>1, <2>3, <2>4 DEF ReplayFaithful
<1> QED
  BY <1>2, <1>3 DEF Read

LEMMA NextInv == Inv /\ [Next]_vars => Inv'
<1> SUFFICES ASSUME Inv, [Next]_vars PROVE Inv'
  OBVIOUS
<1>1. CASE LookupReturns \/ ContextEnds
  BY <1>1 DEF LookupReturns, ContextEnds, buildVars, streamVars, readVars,
              Inv, TypeOK, Playing, ReplayFaithful, Chunks
<1>2. CASE UNCHANGED vars
  BY <1>2 DEF vars, buildVars, streamVars, readVars,
              Inv, TypeOK, Playing, ReplayFaithful, Chunks
<1> QED
  BY <1>1, <1>2, BuildStep, ReplayStep, ReadStep DEF Next

\* The variables of a hit keep their types, and no more chunks are sent than a
\* stream may have.
THEOREM TypeCorrect == Spec => []TypeOK
<1>1. Inv => TypeOK
  BY DEF Inv
<1> QED
  BY InitInv, NextInv, <1>1, PTL DEF Spec

\* ReplayFaithful always holds: what the caller of Lookup has read and what is
\* buffered are the first chunks of the stored stream, whenever the context
\* ends and the caller walks away (the goroutine of buildResponseFromResult).
THEOREM ReplayFaithfulHolds == Spec => []ReplayFaithful
<1>1. Inv => ReplayFaithful
  BY DEF Inv
<1> QED
  BY InitInv, NextInv, <1>1, PTL DEF Spec
===============================================================================
