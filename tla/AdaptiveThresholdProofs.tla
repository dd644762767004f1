------------------------ MODULE AdaptiveThresholdProofs ------------------------
(* Proofs about AdaptiveThreshold, for every ring size, step and bound.       *)
EXTENDS AdaptiveThreshold, FiniteSetTheorems, SequenceTheorems, TLAPS

\* The ring has room for its head and its count, and the threshold is a number.
LEMMA TypeStep == ASSUME TypeOK, [Next]_vars PROVE TypeOK'
<1> USE ThresholdAssumption DEF TypeOK
<1>1. ASSUME NEW intent \in Intents \cup Others, NEW accepted \in BOOLEAN,
             RecordOutcome(intent, accepted)
      PROVE  TypeOK'
  <2> DEFINE i == Bucket(intent)
  <2>1. i \in Intents /\ record(i, accepted)
    BY <1>1 DEF RecordOutcome, Bucket
  <2> HIDE DEF i
  <2>2. buf' \in [Intents -> [0..RingSize - 1 -> BOOLEAN]]
    BY <2>1 DEF record
  <2>3. (head[i] + 1) % RingSize \in 0..RingSize - 1
    BY SMTT(30), <2>1
  <2>4. head' \in [Intents -> 0..RingSize - 1]
    BY <2>1, <2>3 DEF record
  <2>5. count' \in [Intents -> 0..RingSize]
    <3>1. \A k \in 0..RingSize : (IF k < RingSize THEN k + 1 ELSE k) \in 0..RingSize
      OBVIOUS
    <3> QED
      BY <2>1, <3>1 DEF record
  <2>6. PICK t \in Nudged(current[i], Base[i], Accepted(buf'[i], count'[i]), count'[i]) :
            current' = [current EXCEPT ![i] = t]
    BY <1>1 DEF RecordOutcome, i
  <2>7. t \in Int
    BY <2>1, <2>6 DEF Nudged, Raise, Lower
  <2> QED
    BY <2>1, <2>2, <2>4, <2>5, <2>6, <2>7
<1>2. CASE UNCHANGED vars
  BY <1>2 DEF vars
<1> QED
  BY <1>1, <1>2 DEF Next

\* However many outcomes are counted, head and count stay within the ring.
THEOREM TypeCorrect == Spec => []TypeOK
<1>1. Init => TypeOK
  BY ThresholdAssumption DEF Init, TypeOK
<1> QED
  BY <1>1, TypeStep, PTL DEF Spec

\* One nudge of a threshold within its bounds leaves it within them.
LEMMA NudgeBounded ==
    ASSUME NEW t \in Int, NEW base \in Int, NEW acc, NEW n,
           t \in base - MaxDelta .. base + MaxDelta,
           NEW u \in Nudged(t, base, acc, n)
    PROVE  u \in base - MaxDelta .. base + MaxDelta
BY ThresholdAssumption DEF Nudged, Raise, Lower

LEMMA WithinDeltaStep ==
    ASSUME TypeOK, WithinDelta, [Next]_vars
    PROVE  WithinDelta'
<1>1. ASSUME NEW intent \in Intents \cup Others, NEW accepted \in BOOLEAN,
             RecordOutcome(intent, accepted)
      PROVE  WithinDelta'
  <2> DEFINE i == Bucket(intent)
  <2>1. i \in Intents
    BY ThresholdAssumption DEF Bucket
  <2>2. PICK t \in Nudged(current[i], Base[i], Accepted(buf'[i], count'[i]), count'[i]) :
            current' = [current EXCEPT ![i] = t]
    BY <1>1 DEF RecordOutcome
  <2> HIDE DEF i
  <2>3. current[i] \in Int /\ Base[i] \in Int
    BY <2>1, ThresholdAssumption DEF TypeOK
  <2>4. t \in Base[i] - MaxDelta .. Base[i] + MaxDelta
    BY <2>1, <2>2, <2>3, NudgeBounded DEF WithinDelta
  <2> QED
    BY <2>1, <2>2, <2>4 DEF WithinDelta, TypeOK
<1>2. CASE UNCHANGED vars
  BY <1>2 DEF vars, WithinDelta
<1> QED
  BY <1>1, <1>2 DEF Next

\* However feedback comes in, each threshold stays within adaptiveMaxDelta of
\* the default of its intent (the bounds tested in RecordOutcome).
THEOREM WithinDeltaHolds == Spec => []WithinDelta
<1>1. Init => WithinDelta
  BY ThresholdAssumption DEF Init, WithinDelta
<1> QED
  BY <1>1, TypeCorrect, WithinDeltaStep, PTL DEF Spec

(* ------------------------- The ring and its history ---------------------- *)

\* Where the k-th oldest outcome of an intent lies in its ring.
Slot(i, k) ==
    IF count[i] < RingSize THEN k - 1
    ELSE IF head[i] + k - 1 < RingSize THEN head[i] + k - 1
    ELSE head[i] + k - 1 - RingSize

\* The inductive invariant behind RingIsRecent: until it wraps, the ring fills
\* from slot 0; from then on its oldest outcome lies at the head.
RingHolds(i) ==
    /\ recent[i] \in Seq(BOOLEAN) /\ Len(recent[i]) = count[i]
    /\ count[i] < RingSize => head[i] = count[i]
    /\ \A k \in 1..count[i] : recent[i][k] = buf[i][Slot(i, k)]

RingInv ==
    /\ recent \in [Intents -> Seq(BOOLEAN)]
    /\ \A i \in Intents : RingHolds(i)

\* A ring that holds the recent outcomes has as many acceptances as they have:
\* Slot is a bijection between the places of the acceptances.
LEMMA SameAccepted ==
    ASSUME TypeOK, NEW i \in Intents, RingHolds(i)
    PROVE  Accepted(buf[i], count[i]) = AcceptedRecently(i)
<1> USE ThresholdAssumption
<1> DEFINE inRing == {k \in 0..RingSize - 1 : k < count[i] /\ buf[i][k]}
           inRecent == {k \in DOMAIN recent[i] : recent[i][k]}
           f == [k \in inRecent |-> Slot(i, k)]
<1>1. count[i] \in 0..RingSize /\ head[i] \in 0..RingSize - 1
  BY DEF TypeOK
<1>2. DOMAIN recent[i] = 1..count[i]
  BY DEF RingHolds
<1>3. inRecent \subseteq 1..count[i] /\ IsFiniteSet(1..count[i])
  <2>1. count[i] \in Int /\ 1 \in Int
    BY <1>1
  <2> QED
    BY <1>2, <2>1, FS_Interval
<1>4. IsFiniteSet(inRecent)
  BY <1>3, FS_Subset
<1>5. \A k \in 1..count[i] : Slot(i, k) \in 0..RingSize - 1 /\ Slot(i, k) < count[i]
  BY <1>1 DEF Slot
<1>6. \A k \in inRecent : buf[i][Slot(i, k)]
  BY <1>2 DEF RingHolds
<1>7. f \in [inRecent -> inRing]
  BY <1>3, <1>5, <1>6
<1>8. \A j, k \in 1..count[i] : Slot(i, j) = Slot(i, k) => j = k
  BY <1>1 DEF Slot
<1>9. \A s \in inRing : \E k \in inRecent : Slot(i, k) = s
  <2> SUFFICES ASSUME NEW s \in inRing PROVE \E k \in inRecent : Slot(i, k) = s
    OBVIOUS
  <2>1. \E k \in 1..count[i] : Slot(i, k) = s
    <3>1. CASE count[i] < RingSize
      <4>1. s + 1 \in 1..count[i] /\ Slot(i, s + 1) = s
        BY <1>1, <3>1 DEF Slot
      <4> QED
        BY <4>1
    <3>2. CASE count[i] = RingSize /\ head[i] <= s
      <4>1. s - head[i] + 1 \in 1..count[i] /\ Slot(i, s - head[i] + 1) = s
        BY <1>1, <3>2 DEF Slot
      <4> QED
        BY <4>1
    <3>3. CASE count[i] = RingSize /\ s < head[i]
      <4>1. s + RingSize - head[i] + 1 \in 1..count[i] /\ Slot(i, s + RingSize - head[i] + 1) = s
        BY <1>1, <3>3 DEF Slot
      <4> QED
        BY <4>1
    <3> QED
      BY <1>1, <3>1, <3>2, <3>3
  <2> QED
    BY <1>2, <2>1 DEF RingHolds
<1> HIDE DEF inRing, inRecent
<1>10. f \in Injection(inRecent, inRing)
  BY <1>3, <1>7, <1>8 DEF Injection, IsInjective
<1>11. f \in Surjection(inRecent, inRing)
  BY <1>7, <1>9 DEF Surjection
<1>12. ExistsBijection(inRecent, inRing)
  BY <1>10, <1>11 DEF ExistsBijection, Bijection
<1> QED
  BY <1>4, <1>12, FS_Bijection DEF Accepted, AcceptedRecently, inRing, inRecent

LEMMA WrapsAround ==
    ASSUME NEW n \in Nat \ {0}, NEW h \in 0..n - 1
    PROVE  (h + 1) % n = IF h + 1 = n THEN 0 ELSE h + 1
<1>1. CASE h + 1 = n
  BY <1>1
<1>2. CASE h + 1 < n
  BY <1>2
<1> QED
  BY <1>1, <1>2

LEMMA RingStep == ASSUME TypeOK, RingInv, [Next]_vars PROVE RingInv'
<1> USE ThresholdAssumption
<1>1. ASSUME NEW intent \in Intents \cup Others, NEW accepted \in BOOLEAN,
             RecordOutcome(intent, accepted)
      PROVE  RingInv'
  <2> DEFINE i == Bucket(intent)
             longer == Append(recent[i], accepted)
  <2>1. i \in Intents /\ record(i, accepted)
    BY <1>1 DEF RecordOutcome, Bucket
  <2>2. recent' = [recent EXCEPT ![i] =
                     IF Len(longer) > RingSize THEN Tail(longer) ELSE longer]
    BY <1>1 DEF RecordOutcome
  <2> HIDE DEF i
  <2>3. /\ head[i] \in 0..RingSize - 1 /\ count[i] \in 0..RingSize
        /\ buf[i] \in [0..RingSize - 1 -> BOOLEAN]
        /\ recent[i] \in Seq(BOOLEAN) /\ Len(recent[i]) = count[i]
        /\ count[i] < RingSize => head[i] = count[i]
        /\ \A k \in 1..count[i] : recent[i][k] = buf[i][Slot(i, k)]
    BY <2>1 DEF TypeOK, RingInv, RingHolds
  <2>4. /\ longer \in Seq(BOOLEAN) /\ Len(longer) = count[i] + 1
        /\ longer[count[i] + 1] = accepted
        /\ \A k \in 1..count[i] : longer[k] = recent[i][k]
    BY <2>3, AppendProperties
  <2> HIDE DEF longer
  <2>5. /\ buf'[i] = [buf[i] EXCEPT ![head[i]] = accepted]
        /\ head'[i] = IF head[i] + 1 = RingSize THEN 0 ELSE head[i] + 1
        /\ count'[i] = IF count[i] < RingSize THEN count[i] + 1 ELSE count[i]
        /\ recent'[i] = IF count[i] = RingSize THEN Tail(longer) ELSE longer
    <3>1. (head[i] + 1) % RingSize = IF head[i] + 1 = RingSize THEN 0 ELSE head[i] + 1
      BY <2>3, WrapsAround
    <3> QED
      BY SMTT(30), <2>1, <2>2, <2>3, <2>4, <3>1 DEF record, TypeOK, RingInv, longer
  <2>6. \A j \in Intents : j # i =>
            /\ buf'[j] = buf[j] /\ head'[j] = head[j] /\ count'[j] = count[j]
            /\ recent'[j] = recent[j]
    BY <2>1, <2>2 DEF record, TypeOK, RingInv
  <2>7. recent'[i] \in Seq(BOOLEAN) /\ Len(recent'[i]) = count'[i]
    <3>1. longer # <<>>
      BY <2>3, <2>4
    <3>2. Tail(longer) \in Seq(BOOLEAN) /\ Len(Tail(longer)) = count[i]
      <4>1. Tail(longer) \in Seq(BOOLEAN) /\ Len(Tail(longer)) = Len(longer) - 1
        BY <2>4, <3>1, HeadTailProperties, Zenon
      <4> QED
        BY <2>3, <2>4, <4>1
    <3>3. CASE count[i] = RingSize
      <4>1. recent'[i] = Tail(longer) /\ count'[i] = count[i]
        BY <2>5, <3>3
      <4> QED
        BY <3>2, <4>1, Zenon
    <3>4. CASE count[i] < RingSize
      <4>1. recent'[i] = longer /\ count'[i] = count[i] + 1
        BY <2>5, <3>4
      <4> QED
        BY <2>4, <4>1, Zenon
    <3> QED
      BY <2>3, <3>3, <3>4
  <2>8. ASSUME NEW k \in 1..count'[i]
        PROVE  recent'[i][k] = buf'[i][Slot(i, k)']
    <3> DEFINE h == head[i]  n == count[i]
    <3>1. /\ h \in 0..RingSize - 1 /\ n \in 0..RingSize
          /\ n < RingSize => h = n
          /\ head'[i] = IF h + 1 = RingSize THEN 0 ELSE h + 1
          /\ count'[i] = IF n < RingSize THEN n + 1 ELSE n
      BY <2>3, <2>5
    <3> HIDE DEF h, n
    <3>2. CASE n < RingSize
      <4>1. Slot(i, k)' = k - 1
        BY <2>8, <3>1, <3>2 DEF Slot
      <4>2. recent'[i] = longer
        BY <2>5, <3>2 DEF n
      <4>3. CASE k = n + 1
        <5>1. k - 1 = h
          BY <3>1, <3>2, <4>3
        <5>2. buf'[i][h] = accepted
          BY <2>3, <2>5 DEF h
        <5> QED
          BY <2>4, <4>1, <4>2, <4>3, <5>1, <5>2 DEF n
      <4>4. CASE k # n + 1
        <5>1. k \in 1..n /\ k - 1 \in 0..RingSize - 1 /\ k - 1 # h /\ Slot(i, k) = k - 1
          BY <2>8, <3>1, <3>2, <4>4 DEF Slot, n
        <5>2. buf'[i][k - 1] = buf[i][k - 1]
          BY <2>3, <2>5, <5>1 DEF h
        <5>3. longer[k] = buf[i][k - 1]
          BY <2>3, <2>4, <5>1 DEF n
        <5> QED
          BY <4>1, <4>2, <5>2, <5>3
      <4> QED
        BY <4>3, <4>4
    <3>3. CASE n = RingSize
      <4>1. longer # <<>> /\ recent'[i] = Tail(longer) /\ Len(Tail(longer)) = n
        BY <2>3, <2>4, <2>5, <3>3, HeadTailProperties DEF n
      <4>2. recent'[i][k] = longer[k + 1]
        BY <2>4, <2>8, <3>1, <3>3, <4>1, HeadTailProperties
      <4>3. CASE k = RingSize
        <5>1. Slot(i, k)' = h /\ k = n
          BY <3>1, <3>3, <4>3 DEF Slot
        <5>2. buf'[i][h] = accepted
          BY <2>3, <2>5 DEF h
        <5> QED
          BY <2>4, <4>2, <5>1, <5>2 DEF n
      <4>4. CASE k # RingSize
        <5>1. /\ Slot(i, k)' = Slot(i, k + 1) /\ k + 1 \in 1..n
              /\ Slot(i, k + 1) # h /\ Slot(i, k + 1) \in 0..RingSize - 1
          BY <2>8, <3>1, <3>3, <4>4 DEF Slot, h, n
        <5>2. buf'[i][Slot(i, k + 1)] = buf[i][Slot(i, k + 1)]
          BY <2>3, <2>5, <5>1 DEF h
        <5>3. longer[k + 1] = buf[i][Slot(i, k + 1)]
          BY <2>3, <2>4, <5>1 DEF n
        <5> QED
          BY <4>2, <5>1, <5>2, <5>3
      <4> QED
        BY <4>3, <4>4
    <3> QED
      BY <3>1, <3>2, <3>3
  <2>9. RingHolds(i)'
    <3>1. count'[i] < RingSize => head'[i] = count'[i]
      BY <2>3, <2>5
    <3> QED
      BY <2>7, <2>8, <3>1 DEF RingHolds
  <2>10. \A j \in Intents : j # i => RingHolds(j)'
    <3> SUFFICES ASSUME NEW j \in Intents, j # i PROVE RingHolds(j)'
      OBVIOUS
    <3>1. \A k \in 1..count[j] : Slot(j, k)' = Slot(j, k)
      BY <2>6 DEF Slot
    <3>2. RingHolds(j)
      BY DEF RingInv
    <3> QED
      <4>1. /\ recent'[j] \in Seq(BOOLEAN) /\ Len(recent'[j]) = count'[j]
            /\ count'[j] < RingSize => head'[j] = count'[j]
        BY <2>6, <3>2 DEF RingHolds
      <4>2. ASSUME NEW k \in 1..count'[j] PROVE recent'[j][k] = buf'[j][Slot(j, k)']
        <5>1. k \in 1..count[j]
          BY <2>6, <4>2
        <5>2. recent[j][k] = buf[j][Slot(j, k)]
          BY <3>2, <5>1 DEF RingHolds
        <5>3. Slot(j, k)' = Slot(j, k)
          BY <3>1, <5>1
        <5> QED
          BY <2>6, <5>2, <5>3
      <4> QED
        BY <4>1, <4>2 DEF RingHolds
  <2>11. recent' \in [Intents -> Seq(BOOLEAN)]
    BY <2>1, <2>2, <2>5, <2>7 DEF RingInv
  <2> QED
    BY <2>9, <2>10, <2>11 DEF RingInv
<1>2. CASE UNCHANGED vars
  BY <1>2 DEF vars, RingInv, RingHolds, Slot
<1> QED
  BY <1>1, <1>2 DEF Next

LEMMA RingCorrect == Spec => [](TypeOK /\ RingInv)
<1>1. Init => RingInv
  BY ThresholdAssumption DEF Init, RingInv, RingHolds
<1> QED
  BY <1>1, TypeCorrect, RingStep, PTL DEF Spec

\* RingIsRecent always holds, for every ring size: however often the ring has
\* wrapped, it counts the acceptances among the last RingSize outcomes
\* (outcomeRing.record and acceptanceRate).
THEOREM RingIsRecentHolds == Spec => []RingIsRecent
<1>1. TypeOK /\ RingInv => RingIsRecent
  BY SameAccepted DEF RingInv, RingHolds, RingIsRecent
<1> QED
  BY RingCorrect, <1>1, PTL

\* No step moves a threshold but for the recent outcomes of its own intent:
\* RecordOutcome judges the rate that the ring, and so RingIsRecent, gives it.
THEOREM NudgesJustifiedHolds == Spec => NudgesJustified
<1> DEFINE Justified ==
      \A i \in Intents :
          /\ current'[i] > current[i] =>
                Len(recent'[i]) >= MinSamples /\ 100 * AcceptedRecently(i)' < Target * Len(recent'[i])
          /\ current'[i] < current[i] =>
                Len(recent'[i]) >= MinSamples /\ 100 * AcceptedRecently(i)' > Loose * Len(recent'[i])
<1>1. ASSUME TypeOK, RingInv, RingIsRecent', NEW intent \in Intents \cup Others,
             NEW accepted \in BOOLEAN, RecordOutcome(intent, accepted)
      PROVE  Justified
  <2> DEFINE b == Bucket(intent)
             n == count'[b]
             acc == Accepted(buf'[b], count'[b])
  <2>1. b \in Intents
    BY ThresholdAssumption DEF Bucket
  <2>2. PICK t \in Nudged(current[b], Base[b], acc, n) :
            current' = [current EXCEPT ![b] = t]
    BY <1>1 DEF RecordOutcome
  <2>3. n = Len(recent'[b]) /\ acc = AcceptedRecently(b)'
    BY <1>1, <2>1 DEF RingIsRecent
  <2>4. n \in Nat
    BY <1>1, <2>1, <2>3, TypeStep DEF TypeOK, Next
  <2>5. current[b] \in Int
    BY <1>1, <2>1 DEF TypeOK
  <2> HIDE DEF b, n, acc
  <2>6. /\ t > current[b] => n >= MinSamples /\ 100 * acc < Target * n
        /\ t < current[b] => n >= MinSamples /\ 100 * acc > Loose * n
    BY <2>2, <2>4, <2>5, ThresholdAssumption DEF Nudged, Raise, Lower
  <2>7. \A i \in Intents : current'[i] = IF i = b THEN t ELSE current[i]
    BY <1>1, <2>2 DEF TypeOK
  <2>8. \A i \in Intents : i # b => ~ (current'[i] > current[i]) /\ ~ (current'[i] < current[i])
    BY <1>1, <2>7 DEF TypeOK
  <2>9. current'[b] = t
    BY <2>1, <2>7
  <2> QED
    BY <2>3, <2>6, <2>8, <2>9
<1>2. ASSUME TypeOK, RingInv, RingIsRecent', [Next]_vars PROVE [Justified]_vars
  BY <1>1, <1>2 DEF Next
<1> QED
  BY <1>2, RingCorrect, RingIsRecentHolds, PTL DEF Spec, NudgesJustified
===============================================================================
