-------------------------- MODULE MCEvidenceIndex --------------------------
(* Instances of EvidenceIndex for TLC: two consumers with different        *)
(* windows and two files.                                                  *)
EXTENDS EvidenceIndex, TLC

CONSTANTS c1, c2, p1, p2

MixedCutoffs == c1 :> "recent" @@ c2 :> "archive"
NoPriority   == [c \in Consumers |-> {}]
OnePriority  == c1 :> {p1} @@ c2 :> {}
=============================================================================
