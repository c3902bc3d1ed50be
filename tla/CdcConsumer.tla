---------------------------- MODULE CdcConsumer ----------------------------
(***************************************************************************)
(* The CDC consumer that keeps an Elasticsearch index in step with a table *)
(* of Postgres: Consumer.Run (internal/infrastructure/cdc/consumer.go),    *)
(* the topic handlers it routes to and the indexers they call.             *)
(*                                                                         *)
(* The module describes one partition of one topic. Debezium keys changes  *)
(* by row, offsets are kept per partition, and the handlers touch no other *)
(* row's document, so partitions do not affect each other.                 *)
(***************************************************************************)
EXTENDS Naturals, Sequences

CONSTANTS
  Keys,                   \* rows of the table
  Values, Absent,         \* contents of a row, and no row
  Consumers, NoConsumer,  \* processes of the consumer group
  MaxLog,                 \* bound on the length of the partition
  MaxStops,               \* bound on the number of crashes
  Faults                  \* the failures that may happen: see FaultKinds

FaultKinds == {
  "index",      \* a call of Elasticsearch fails
  "commit",     \* CommitMessages fails
  "rebalance"}  \* the group gives the partition to another consumer

ASSUME AbsentAssumption     == Absent \notin Values
ASSUME NoConsumerAssumption == NoConsumer \notin Consumers
ASSUME BoundsAssumption     == MaxLog \in Nat /\ MaxStops \in Nat
ASSUME FaultsAssumption     == Faults \subseteq FaultKinds

\* A Debezium event is an upsert (op r, c or u), a delete (op d), or the
\* tombstone, a message without a value, that follows a delete.
Message == [op: {"upsert"}, key: Keys, after: Values]
             \cup [op: {"delete", "tombstone"}, key: Keys]

VARIABLES
  table,      \* the rows of Postgres
  log,        \* the partition
  index,      \* the documents of Elasticsearch, by id
  committed,  \* the group's committed offset: the first message not yet done
  owner,      \* the consumer that has the partition
  pc,         \* "fetch", "handle" or "commit", for each consumer
  pos,        \* the offset that each consumer's reader fetches next
  cur,        \* the message each consumer is working on
  handled,    \* history: the offsets some handler has returned nil for
  stops       \* crashes so far

vars == <<table, log, index, committed, owner, pc, pos, cur, handled, stops>>

Init ==
  /\ table = [k \in Keys |-> Absent]
  /\ log = <<>>
  /\ index = [k \in Keys |-> Absent]
  /\ committed = 1
  /\ owner = NoConsumer
  /\ pc = [c \in Consumers |-> "fetch"]
  /\ pos = [c \in Consumers |-> 1]
  /\ cur = [c \in Consumers |-> 0]
  /\ handled = {}
  /\ stops = 0

consumerVars == <<index, committed, owner, pc, pos, cur, handled, stops>>

-----------------------------------------------------------------------------
(* Postgres and Debezium: changes reach the partition in commit order *)

Write(k, v) ==
  /\ Len(log) < MaxLog
  /\ table[k] # v
  /\ table' = [table EXCEPT ![k] = v]
  /\ log' = Append(log, [op |-> "upsert", key |-> k, after |-> v])
  /\ UNCHANGED consumerVars

Delete(k) ==
  /\ Len(log) + 1 < MaxLog
  /\ table[k] # Absent
  /\ table' = [table EXCEPT ![k] = Absent]
  /\ log' = log \o <<[op |-> "delete", key |-> k], [op |-> "tombstone", key |-> k]>>
  /\ UNCHANGED consumerVars

\* The connector restarts and sends the changes since its last offset again.
Resend(i) ==
  /\ Len(log) + (Len(log) - i + 1) <= MaxLog
  /\ log' = log \o SubSeq(log, i, Len(log))
  /\ UNCHANGED <<table, consumerVars>>

-----------------------------------------------------------------------------
(* The consumer group *)

\* Mutant: a reader starts at the end of the partition.
AssignAtEnd(c) ==
  /\ owner = NoConsumer \/ ("rebalance" \in Faults /\ owner # c)
  /\ owner' = c
  /\ pos' = [pos EXCEPT ![c] = Len(log) + 1]
  /\ UNCHANGED <<table, log, index, committed, pc, cur, handled, stops>>

\* The reader of the new owner starts at the committed offset. A consumer
\* that is still alive finishes the message it has fetched.
Assign(c) ==
  /\ owner = NoConsumer \/ ("rebalance" \in Faults /\ owner # c)
  /\ owner' = c
  /\ pos' = [pos EXCEPT ![c] = committed]
  /\ UNCHANGED <<table, log, index, committed, pc, cur, handled, stops>>

Stop(c) ==
  /\ stops < MaxStops
  /\ owner = c \/ pc[c] # "fetch"
  /\ owner' = IF owner = c THEN NoConsumer ELSE owner
  /\ pc' = [pc EXCEPT ![c] = "fetch"]
  /\ cur' = [cur EXCEPT ![c] = 0]
  /\ stops' = stops + 1
  /\ UNCHANGED <<table, log, index, committed, pos, handled>>

-----------------------------------------------------------------------------
(* Consumer.Run *)

\* FetchMessage advances the reader, whatever becomes of the message.
FetchMessage(c) ==
  /\ owner = c
  /\ pc[c] = "fetch"
  /\ pos[c] <= Len(log)
  /\ cur' = [cur EXCEPT ![c] = pos[c]]
  /\ pos' = [pos EXCEPT ![c] = @ + 1]
  /\ pc' = [pc EXCEPT ![c] = "handle"]
  /\ UNCHANGED <<table, log, index, committed, owner, handled, stops>>

\* Index and Delete by document id: neither compares versions.
Applied(m) ==
  [index EXCEPT ![m.key] = IF m.op = "upsert" THEN m.after ELSE Absent]

Handle(c) ==
  LET m == log[cur[c]] IN
  /\ pc[c] = "handle"
  /\ m.op # "tombstone"
  /\ index' = Applied(m)
  /\ handled' = handled \cup {cur[c]}
  /\ pc' = [pc EXCEPT ![c] = "commit"]
  /\ UNCHANGED <<table, log, committed, owner, pos, cur, stops>>

\* Mutant: a message that failed is committed.
HandleFailsCommits(c) ==
  /\ pc[c] = "handle"
  /\ log[cur[c]].op = "tombstone" \/ "index" \in Faults
  /\ committed' = cur[c] + 1
  /\ pc' = [pc EXCEPT ![c] = "fetch"]
  /\ cur' = [cur EXCEPT ![c] = 0]
  /\ UNCHANGED <<table, log, index, owner, pos, handled, stops>>

\* A tombstone does not unmarshal. A failing call of Elasticsearch may have
\* taken effect. Nothing is committed and the loop fetches the next message.
HandleFails(c) ==
  LET m == log[cur[c]] IN
  /\ pc[c] = "handle"
  /\ \/ m.op = "tombstone" /\ UNCHANGED index
     \/ /\ m.op # "tombstone"
        /\ "index" \in Faults
        /\ index' \in {index, Applied(m)}
  /\ pc' = [pc EXCEPT ![c] = "fetch"]
  /\ cur' = [cur EXCEPT ![c] = 0]
  /\ UNCHANGED <<table, log, committed, owner, pos, handled, stops>>

\* Mutant: the committed offset is one too far.
CommitOffByOne(c) ==
  /\ pc[c] = "commit"
  /\ committed' = cur[c] + 2
  /\ pc' = [pc EXCEPT ![c] = "fetch"]
  /\ cur' = [cur EXCEPT ![c] = 0]
  /\ UNCHANGED <<table, log, index, owner, pos, handled, stops>>

\* The broker takes a commit from any member of the group, whoever has the
\* partition; it refuses one from a member that has to rejoin first.
CommitMessages(c) ==
  /\ pc[c] = "commit"
  /\ \/ committed' = cur[c] + 1
     \/ (owner # c \/ "commit" \in Faults) /\ UNCHANGED committed
  /\ pc' = [pc EXCEPT ![c] = "fetch"]
  /\ cur' = [cur EXCEPT ![c] = 0]
  /\ UNCHANGED <<table, log, index, owner, pos, handled, stops>>

-----------------------------------------------------------------------------
Run(c) == FetchMessage(c) \/ Handle(c) \/ HandleFails(c) \/ CommitMessages(c)

Next ==
  \/ \E k \in Keys : (\E v \in Values : Write(k, v)) \/ Delete(k)
  \/ \E i \in 1 .. Len(log) : Resend(i)
  \/ \E c \in Consumers : Assign(c) \/ Stop(c) \/ Run(c)

Spec == Init /\ [][Next]_vars

\* The consumer keeps running, and a partition without an owner gets one.
Fairness ==
  /\ \A c \in Consumers : WF_vars(Run(c))
  /\ WF_vars(owner = NoConsumer /\ \E c \in Consumers : Assign(c))

FairSpec == Spec /\ Fairness

-----------------------------------------------------------------------------
(* Properties *)

\* The partition, the offsets and the index are well formed.
TypeOK ==
  /\ table \in [Keys -> Values \cup {Absent}]
  /\ log \in Seq(Message)
  /\ index \in [Keys -> Values \cup {Absent}]
  /\ committed \in 1 .. Len(log) + 1
  /\ owner \in Consumers \cup {NoConsumer}
  /\ pc \in [Consumers -> {"fetch", "handle", "commit"}]
  /\ pos \in [Consumers -> 1 .. Len(log) + 1]
  /\ cur \in [Consumers -> 0 .. Len(log)]
  /\ handled \subseteq 1 .. Len(log)
  /\ stops \in 0 .. MaxStops

\* The comment "no commit, retry" in Consumer.Run: the group does not move
\* past a message that the handler has not taken (a tombstone carries no
\* change). It holds as long as no call of Elasticsearch fails.
FailedIsRetried ==
  \A i \in 1 .. committed - 1 : i \in handled \/ log[i].op = "tombstone"

\* Whatever fails, the committed offset lies right behind a message that was
\* handled: a failure of the newest message is made good after a restart.
CommitFollowsHandled == committed = 1 \/ committed - 1 \in handled

\* When the consumer has read the whole partition and no message is in
\* flight, the index equals the table, although every crash, failed commit or
\* restart of the connector makes it apply old versions again.
CaughtUp ==
  /\ \E c \in Consumers : owner = c /\ pos[c] = Len(log) + 1
  /\ \A c \in Consumers : pc[c] = "fetch"

SyncedWhenCaughtUp == CaughtUp => index = table

\* Once the changes stop, the index becomes and stays equal to the table.
EventuallySynced == <>[](index = table)
=============================================================================
