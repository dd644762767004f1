--------------------------- MODULE AdaptiveThreshold ---------------------------
(* The AdaptiveThresholdManager: one ring of accepted / rejected outcomes and *)
(* one live threshold per intent, nudged by RecordOutcome under its mutex.    *)
(* Thresholds are counted in hundredths.  The code adds and subtracts 0.01 in *)
(* float64, so a threshold that would land exactly on a bound may come out a  *)
(* rounding error beyond it and be refused: there the model allows both.      *)
EXTENDS Integers, FiniteSets, Sequences

CONSTANTS Intents,    \* intents that have a bucket
          Unknown,    \* IntentUnknown
          Others,     \* intent values without a bucket
          Base,       \* defaultIntentThresholds
          RingSize,   \* adaptiveRingSize
          MinSamples, \* adaptiveMinSamples
          Target,     \* adaptiveTargetRate, in percent
          Loose,      \* the rate above which the threshold goes down, in percent
          Step,       \* adaptiveStep
          MaxDelta    \* adaptiveMaxDelta

ASSUME ThresholdAssumption ==
    /\ Unknown \in Intents
    /\ Intents \cap Others = {}
    /\ Base \in [Intents -> Int]
    /\ RingSize \in Nat \ {0}
    /\ MinSamples \in 1..RingSize
    /\ Target \in 0..100 /\ Loose \in Target..100
    /\ Step \in Nat /\ MaxDelta \in Nat

VARIABLES buf,     \* the ring of each intent, from 0
          head,    \* where its next outcome goes
          count,   \* how many outcomes the ring holds
          current, \* the live threshold
          recent   \* history: the last outcomes of each intent, oldest first

vars == <<buf, head, count, current, recent>>

TypeOK ==
    /\ buf \in [Intents -> [0..RingSize - 1 -> BOOLEAN]]
    /\ head \in [Intents -> 0..RingSize - 1]
    /\ count \in [Intents -> 0..RingSize]
    /\ current \in [Intents -> Int]

-------------------------------------------------------------------------------
Bucket(intent) == IF intent \in Intents THEN intent ELSE Unknown

Init ==
    /\ buf = [i \in Intents |-> [k \in 0..RingSize - 1 |-> FALSE]]
    /\ head = [i \in Intents |-> 0]
    /\ count = [i \in Intents |-> 0]
    /\ current = Base
    /\ recent = [i \in Intents |-> <<>>]

\* Plausible bug: the head wraps one slot early.
record_ShortRing(i, accepted) ==
    /\ buf' = [buf EXCEPT ![i][head[i]] = accepted]
    /\ head' = [head EXCEPT ![i] = (@ + 1) % (RingSize - 1)]
    /\ count' = [count EXCEPT ![i] = IF @ < RingSize THEN @ + 1 ELSE @]

\* Plausible bug: the count is not capped.
record_Uncapped(i, accepted) ==
    /\ buf' = [buf EXCEPT ![i][head[i]] = accepted]
    /\ head' = [head EXCEPT ![i] = (@ + 1) % RingSize]
    /\ count' = [count EXCEPT ![i] = @ + 1]

record(i, accepted) ==
    /\ buf' = [buf EXCEPT ![i][head[i]] = accepted]
    /\ head' = [head EXCEPT ![i] = (@ + 1) % RingSize]
    /\ count' = [count EXCEPT ![i] = IF @ < RingSize THEN @ + 1 ELSE @]

\* acceptanceRate looks at the first n slots, all there is before the first wrap.
Accepted(ring, n) == Cardinality({k \in 0..RingSize - 1 : k < n /\ ring[k]})

\* Plausible bug: a threshold may step over its bound.
Raise_NoBound(t, base) == {t + Step}

Raise(t, base) ==
    LET next == t + Step
        hi == base + MaxDelta
    IN IF next < hi THEN {next} ELSE IF next = hi THEN {t, next} ELSE {t}

Lower(t, base) ==
    LET next == t - Step
        lo == base - MaxDelta
    IN IF next > lo THEN {next} ELSE IF next = lo THEN {t, next} ELSE {t}

\* Plausible bug: the first rejection already moves the threshold.
Nudged_TooEarly(t, base, acc, n) ==
    IF 100 * acc < Target * n THEN Raise(t, base)
    ELSE IF 100 * acc > Loose * n THEN Lower(t, base)
    ELSE {t}

\* What RecordOutcome may leave of threshold t after acc acceptances in n outcomes.
\* Comparing acc/n with 0.95 and 0.99 is exact: both sides round the same ratio.
Nudged(t, base, acc, n) ==
    IF n < MinSamples THEN {t}
    ELSE IF 100 * acc < Target * n THEN Raise(t, base)
    ELSE IF 100 * acc > Loose * n THEN Lower(t, base)
    ELSE {t}

RecordOutcome(intent, accepted) ==
    LET i == Bucket(intent)
    IN /\ record(i, accepted)
       /\ \E t \in Nudged(current[i], Base[i], Accepted(buf'[i], count'[i]), count'[i]) :
             current' = [current EXCEPT ![i] = t]
       /\ recent' = [recent EXCEPT ![i] =
             LET longer == Append(@, accepted)
             IN IF Len(longer) > RingSize THEN Tail(longer) ELSE longer]

Next == \E intent \in Intents \cup Others, accepted \in BOOLEAN :
            RecordOutcome(intent, accepted)

Spec == Init /\ [][Next]_vars

-------------------------------------------------------------------------------
AcceptedRecently(i) == Cardinality({k \in DOMAIN recent[i] : recent[i][k]})

\* The rate RecordOutcome acts on is the rate of the last RingSize outcomes:
\* the ring forgets the oldest one and no other, also after it has wrapped.
RingIsRecent ==
    \A i \in Intents :
        /\ count[i] = Len(recent[i])
        /\ Accepted(buf[i], count[i]) = AcceptedRecently(i)

\* However feedback comes in, a threshold stays within MaxDelta of its default
\* (the bounds in RecordOutcome), so the complaint threshold of -1 never
\* becomes one that Lookup takes for a similarity (t > 0).
WithinDelta ==
    \A i \in Intents : current[i] \in Base[i] - MaxDelta .. Base[i] + MaxDelta

\* A threshold rises only when enough of the recent outcomes of that very intent
\* were rejected, and falls only when almost all were accepted.
NudgesJustified ==
    [][\A i \in Intents :
          /\ current'[i] > current[i] =>
                Len(recent'[i]) >= MinSamples /\ 100 * AcceptedRecently(i)' < Target * Len(recent'[i])
          /\ current'[i] < current[i] =>
                Len(recent'[i]) >= MinSamples /\ 100 * AcceptedRecently(i)' > Loose * Len(recent'[i])]_vars
===============================================================================
