--------------------------- MODULE AgentDatabases ---------------------------
(***************************************************************************)
(* The session readers of agent_extra_transcripts.go for the two vendors   *)
(* that keep all sessions in one SQLite store.  Each query is a sqlite3    *)
(* process of its own, so the vendor's writes fall between the queries of  *)
(* one read: OpenCode's messages, parts and session rows, Hermes' sessions,*)
(* events and usage by model.                                              *)
(*                                                                         *)
(* One session is followed.  A step of work is one token; OpenCode writes  *)
(* a part for each step and puts the message's total on the message when   *)
(* it ends, Hermes keeps the session's aggregate and its usage by model.   *)
(***************************************************************************)
EXTENDS Integers, FiniteSets

CONSTANTS DbMessages, DbModels,
          MaxSteps  \* bound: steps of a message, and of a model

ASSUME DatabaseConstants == /\ IsFiniteSet(DbMessages) /\ IsFiniteSet(DbModels)
                            /\ MaxSteps \in Nat /\ "unknown" \notin DbModels

VARIABLES dbVendor,  \* "opencode" or "hermes"
          partTable, \* whether this schema has the part table
          dbRows,    \* OpenCode's message rows and the steps of each
          worked,    \* Hermes' session_model_usage: tokens by model
          aggregate, \* the token columns of the session row
          dbRead     \* the reader's locals

dbVars == <<dbVendor, partTable, dbRows, worked, aggregate, dbRead>>

-----------------------------------------------------------------------------
NoMessage == [role |-> "none", steps |-> 0, usage |-> 0]
Total(f, S) == Cardinality(UNION {{x} \X (1 .. f[x]) : x \in S})
Steps == Total([m \in DbMessages |-> dbRows[m].steps], DbMessages)

\* What the store holds for the reader to find: with parts every finished step,
\* without them the messages that ended.
Recorded ==
    IF dbVendor = "hermes" THEN Total(worked, DbModels)
    ELSE IF partTable THEN Steps
    ELSE Total([m \in DbMessages |-> dbRows[m].usage], DbMessages)
EverUsed == IF dbVendor = "hermes" THEN Total(worked, DbModels) ELSE Steps

NotReading == [pc |-> "idle", began |-> 0, seen |-> {}, counted |-> {}, tokens |-> 0,
               byModel |-> [m \in DbModels \cup {"unknown"} |-> 0]]

DatabaseInit ==
    /\ dbVendor \in {"opencode", "hermes"} /\ partTable \in BOOLEAN
    /\ dbRows = [m \in DbMessages |-> NoMessage]
    /\ worked = [m \in DbModels |-> 0]
    /\ aggregate = 0 /\ dbRead = NotReading

-----------------------------------------------------------------------------
(* The vendors, from the rows the readers select.                          *)

AddMessage(m) ==
    /\ dbVendor = "opencode" /\ dbRows[m].role = "none"
    /\ \E role \in {"user", "assistant"} : dbRows' = [dbRows EXCEPT ![m].role = role]
    /\ UNCHANGED <<dbVendor, partTable, worked, aggregate, dbRead>>

FinishStep(m) ==
    /\ dbRows[m].role = "assistant" /\ dbRows[m].usage = 0 /\ dbRows[m].steps < MaxSteps
    /\ dbRows' = [dbRows EXCEPT ![m].steps = @ + 1]
    /\ UNCHANGED <<dbVendor, partTable, worked, aggregate, dbRead>>

EndMessage(m) ==
    /\ dbRows[m].steps > 0 /\ dbRows[m].usage = 0
    /\ dbRows' = [dbRows EXCEPT ![m].usage = dbRows[m].steps]
    /\ UNCHANGED <<dbVendor, partTable, worked, aggregate, dbRead>>

SumSession ==
    /\ dbVendor = "opencode" /\ aggregate # Steps
    /\ aggregate' = Steps
    /\ UNCHANGED <<dbVendor, partTable, dbRows, worked, dbRead>>

WorkWithModel(model) ==
    /\ dbVendor = "hermes" /\ worked[model] < MaxSteps
    /\ worked' = [worked EXCEPT ![model] = @ + 1]
    /\ aggregate' = aggregate + 1
    /\ UNCHANGED <<dbVendor, partTable, dbRows, dbRead>>

-----------------------------------------------------------------------------
(* parseOpenCodeDatabaseSessions.                                          *)

ReadOpenCodeMessages ==
    /\ dbVendor = "opencode" /\ dbRead.pc = "idle"
    /\ LET seen == {m \in DbMessages : dbRows[m].role # "none"}
           counted == {m \in seen : dbRows[m].role = "assistant" /\ dbRows[m].usage > 0}
       IN dbRead' = [NotReading EXCEPT !.pc = "parts", !.began = Recorded, !.seen = seen,
                       !.counted = counted,
                       !.tokens = Total([m \in DbMessages |-> dbRows[m].usage], counted)]
    /\ UNCHANGED <<dbVendor, partTable, dbRows, worked, aggregate>>

\* Mutant: the parts of a message with tokens of its own count as well.
OpenMessagesAll == dbRead.seen
OpenMessages == dbRead.seen \ dbRead.counted

\* Step-finish parts count for the messages that had no tokens of their own.
ReadOpenCodeParts ==
    /\ dbVendor = "opencode" /\ dbRead.pc = "parts"
    /\ LET open == IF partTable THEN OpenMessages ELSE {}
       IN dbRead' = [dbRead EXCEPT !.pc = "session",
                       !.tokens = @ + Total([m \in DbMessages |-> dbRows[m].steps], open)]
    /\ UNCHANGED <<dbVendor, partTable, dbRows, worked, aggregate>>

\* The session's own columns count for a session no message or part counted
\* for; a session without messages is not reported.
ReadOpenCodeSession ==
    /\ dbVendor = "opencode" /\ dbRead.pc = "session"
    /\ dbRead' = [dbRead EXCEPT !.pc = IF dbRead.seen = {} THEN "empty" ELSE "done",
                    !.tokens = IF @ = 0 THEN aggregate ELSE @]
    /\ UNCHANGED <<dbVendor, partTable, dbRows, worked, aggregate>>

-----------------------------------------------------------------------------
(* parseHermesDatabaseSessions.                                            *)

ReadHermesSession ==
    /\ dbVendor = "hermes" /\ dbRead.pc = "idle"
    /\ \E m \in DbModels :
         dbRead' = [NotReading EXCEPT !.pc = "models", !.began = Recorded,
                      !.tokens = aggregate, !.byModel[m] = aggregate]
    /\ UNCHANGED <<dbVendor, partTable, dbRows, worked, aggregate>>

\* The usage rows in the order the query returns them: each adds to the running
\* usage of the session, and that running usage is added to the row's model.
RunningUsage(order, n) ==
    Total([i \in DOMAIN order |-> worked[order[i]]], 1..n)
Orders(S) == {o \in [1..Cardinality(S) -> S] : \A x \in S : \E i \in DOMAIN o : o[i] = x}

HermesUsageByModel(order) ==
    [m \in DbModels \cup {"unknown"} |->
       Total([i \in DOMAIN order |-> RunningUsage(order, i)], {i \in DOMAIN order : order[i] = m})]

\* No rows, or a failed query, and the session's aggregate stands.
ReadHermesModels ==
    /\ dbVendor = "hermes" /\ dbRead.pc = "models"
    /\ LET used == {m \in DbModels : worked[m] > 0}
       IN IF used = {} THEN dbRead' = [dbRead EXCEPT !.pc = "done"]
          ELSE \E order \in Orders(used) :
                 dbRead' = [dbRead EXCEPT !.pc = "done", !.tokens = Total(worked, used),
                              !.byModel = HermesUsageByModel(order)]
    /\ UNCHANGED <<dbVendor, partTable, dbRows, worked, aggregate>>

HermesModelsUnreadable ==
    /\ dbVendor = "hermes" /\ dbRead.pc = "models"
    /\ dbRead' = [dbRead EXCEPT !.pc = "done"]
    /\ UNCHANGED <<dbVendor, partTable, dbRows, worked, aggregate>>

\* A query of the read fails or times out: no session is reported.
FailRead ==
    /\ dbRead.pc \in {"parts", "session", "models"}
    /\ dbRead' = NotReading
    /\ UNCHANGED <<dbVendor, partTable, dbRows, worked, aggregate>>

ReturnSession ==
    /\ dbRead.pc \in {"done", "empty"}
    /\ dbRead' = NotReading
    /\ UNCHANGED <<dbVendor, partTable, dbRows, worked, aggregate>>

DatabaseNext ==
    \/ \E m \in DbMessages : AddMessage(m) \/ FinishStep(m) \/ EndMessage(m)
    \/ \E model \in DbModels : WorkWithModel(model)
    \/ SumSession
    \/ ReadOpenCodeMessages \/ ReadOpenCodeParts \/ ReadOpenCodeSession
    \/ ReadHermesSession \/ ReadHermesModels \/ HermesModelsUnreadable
    \/ FailRead \/ ReturnSession

DatabaseSpec == DatabaseInit /\ [][DatabaseNext]_dbVars

-----------------------------------------------------------------------------
\* Whatever the vendor writes between the queries of one read, the session's
\* tokens are at least what the store held when the read began and at most what
\* was ever used: messages, parts and session columns never count a step twice
\* and never drop one between them.
SessionReadIsBracketed ==
    dbRead.pc = "done" => dbRead.began <= dbRead.tokens /\ dbRead.tokens <= EverUsed
=============================================================================
