------------------------- MODULE MCEvidenceWatcher -------------------------
(* An instance of EvidenceWatcher for TLC: one caller of snapshot(), one    *)
(* root at the start and another to come.                                   *)
EXTENDS EvidenceWatcher

CONSTANTS c1, r1, r2
=============================================================================
