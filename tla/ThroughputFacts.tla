-------------------------- MODULE ThroughputFacts --------------------------
(***************************************************************************)
(* Throughput facts and the rule by which one supersedes another for the   *)
(* same key (throughput_maintenance.go).  A fact is where it came from and *)
(* its token count; a minute the sampler could not measure has no tokens.  *)
(***************************************************************************)
EXTENDS Integers

NoTokens    == -1
Missing     == [origin |-> "none", tokens |-> NoTokens]
Unavailable == [origin |-> "online", tokens |-> NoTokens]
LegacyRate  == [origin |-> "legacy", tokens |-> 0]

Online(tokens)   == [origin |-> "online", tokens |-> tokens]
Replayed(tokens) == [origin |-> "session_replay", tokens |-> tokens]

Measured(fact) == fact.origin = "online" /\ fact.tokens # NoTokens

ShouldReplace(old, next) ==
  \/ old.origin = "session_replay"
  \/ old.tokens = NoTokens
  \/ next.origin # "session_replay"

Fold(old, next) == IF ShouldReplace(old, next) THEN next ELSE old
=============================================================================
