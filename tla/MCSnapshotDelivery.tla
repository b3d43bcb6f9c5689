------------------------ MODULE MCSnapshotDelivery ------------------------
(* Instances of SnapshotDelivery for TLC: one client that accepts gzip and *)
(* one that does not, one API caller that asks for refreshes.              *)
EXTENDS SnapshotDelivery, TLC

CONSTANTS h1, h2, r1
=============================================================================
