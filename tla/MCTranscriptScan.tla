------------------------- MODULE MCTranscriptScan -------------------------
(* An instance of TranscriptScan for TLC: one caller, one file, one set of  *)
(* priorities.                                                              *)
EXTENDS TranscriptScan

CONSTANTS c1, f1, k1

OneKey == [c \in ScanCallers |-> k1]
=============================================================================
