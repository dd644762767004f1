-------------------------- MODULE MCAdaptiveThreshold --------------------------
(* Two buckets, a ring of four outcomes judged from three on, and thresholds   *)
(* that may move two steps either way.                                        *)
EXTENDS AdaptiveThreshold

CONSTANTS unknown, complaint, other

MCBase == [i \in Intents |-> IF i = complaint THEN -100 ELSE 72]
===============================================================================
