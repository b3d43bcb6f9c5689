------------------------ MODULE MCThroughputJournal ------------------------
(* Instances of ThroughputJournal for TLC: every time in a month of its   *)
(* own, legacy rates from the first two minutes.                           *)
EXTENDS ThroughputJournal

CONSTANTS l1, l2

EarlyLegacy == [l \in Legacy |-> IF l = l1 THEN 0 ELSE 1]
OwnMonth    == [t \in 0..MaxNow |-> t]
=============================================================================
