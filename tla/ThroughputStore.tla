-------------------------- MODULE ThroughputStore --------------------------
(***************************************************************************)
(* What the throughput store promises, without files: for every key one    *)
(* durable fact and one fact in memory.  A write that is acknowledged      *)
(* changes both, one that is refused or cut short by a crash may change    *)
(* only the durable fact, and a restart makes memory equal to the durable  *)
(* facts again.  Nothing else changes either, except that rewriting the    *)
(* files may turn the durable fact of a key that serves no measurement     *)
(* back into a measurement an earlier refused write left behind.           *)
(***************************************************************************)
EXTENDS ThroughputFacts

CONSTANTS Slots, Facts

ASSUME FactsAssumption ==
  /\ Facts \subseteq [origin : {"online", "session_replay", "legacy"}, tokens : Int]
  /\ Missing \notin Facts

VARIABLES
  durable,   \* what a restart would read
  memory,    \* what the running process serves
  retained,  \* keys inside the retention window
  up         \* the process runs

store == <<durable, memory, retained, up>>

Values  == Facts \cup {Missing}
Nothing == [s \in Slots |-> Missing]

Init ==
  /\ durable = Nothing
  /\ memory = Nothing
  /\ retained = Slots
  /\ up = FALSE

(* Mutant: a minute can be measured again.                                 *)
AdmissibleTwice(s, fact) ==
  /\ fact.origin = "session_replay" => ~Measured(memory[s])
  /\ fact.origin = "legacy" => memory[s] = Missing

(* An online fact never replaces an online fact, a replayed one never      *)
(* replaces a measured one, a legacy rate is written once.                 *)
Admissible(s, fact) ==
  /\ fact.origin = "online" => memory[s].origin # "online"
  /\ fact.origin = "session_replay" => ~Measured(memory[s])
  /\ fact.origin = "legacy" => memory[s] = Missing

(* Mutant: a measured fact stays even against a newer measurement.         *)
PreferredFirst(old, next) == IF Measured(old) THEN old ELSE next

(* The fact that stays when both are on disk.                              *)
Preferred(old, next) ==
  IF Measured(old) /\ next.origin = "session_replay" THEN old ELSE next

Offered(s) == {fact \in Facts : Admissible(s, fact)}

Kept(s)     == durable'[s] = durable[s]
Refused(s)  == \E fact \in Offered(s) : durable'[s] = Preferred(durable[s], fact)
Accepted(s) == \E fact \in Offered(s) : /\ durable'[s] = Preferred(durable[s], fact)
                                        /\ \/ memory'[s] = fact
                                           \/ s \notin retained /\ memory'[s] = Missing

(* Rewriting the files may bring back a measurement that a refused write    *)
(* left on disk, while nothing measured is served for its key.             *)
Restored(s) == /\ ~Measured(memory[s])
               /\ \E fact \in Facts : Measured(fact) /\ durable'[s] = fact

Typed == durable' \in [Slots -> Values] /\ memory' \in [Slots -> Values]

Write ==
  /\ up
  /\ UNCHANGED <<retained, up>>
  /\ Typed
  /\ \A s \in Slots : \/ /\ memory'[s] = memory[s]
                         /\ Kept(s) \/ Refused(s) \/ Restored(s)
                      \/ Accepted(s)
                      \/ Kept(s) /\ s \notin retained /\ memory'[s] = Missing

Crash ==
  /\ up
  /\ up' = FALSE
  /\ UNCHANGED retained
  /\ Typed
  /\ memory' = Nothing
  /\ \A s \in Slots : Kept(s) \/ Refused(s)

Restart ==
  /\ ~up
  /\ up' = TRUE
  /\ memory' = [s \in Slots |-> IF s \in retained THEN durable[s] ELSE Missing]
  /\ UNCHANGED <<durable, retained>>

Expire ==
  /\ retained' \in SUBSET retained
  /\ UNCHANGED <<durable, memory, up>>

Next == Write \/ Crash \/ Restart \/ Expire

Spec == Init /\ [][Next]_store

(* Every variable keeps its type, and a stopped process holds nothing.     *)
StoreType ==
  /\ durable \in [Slots -> Values]
  /\ memory \in [Slots -> Values]
  /\ retained \in SUBSET Slots
  /\ up \in BOOLEAN
  /\ ~up => memory = Nothing

(* A number the running process serves as an online measurement is on      *)
(* disk, exactly.                                                          *)
MeasuredIsDurable == \A s \in Slots : Measured(memory[s]) => durable[s] = memory[s]

(* No step, a crash included, changes what is on disk for a number that    *)
(* has been acknowledged.                                                  *)
AcknowledgedSurvive ==
  [][\A s \in Slots : Measured(memory[s]) => durable'[s] = memory[s]]_store
=============================================================================
