------------------------- MODULE CdcConsumerProofs -------------------------
(***************************************************************************)
(* Proofs about CdcConsumer, for any number of rows and for partitions of  *)
(* any length. TypeInv, with CommitInv, holds for any number of consumers  *)
(* and whatever fails. SyncInv is the argument for the index: a table that *)
(* is ahead of it is so only for the rows that a message still to be       *)
(* handled is about. It needs what the run of the same property assumes, a *)
(* consumer group of one process and an Elasticsearch that answers.        *)
(***************************************************************************)
EXTENDS CdcConsumer, SequenceTheorems, TLAPS

\* A consumer that has fetched a message is working on it.
TypeInv ==
  /\ TypeOK
  /\ \A c \in Consumers : pc[c] # "fetch" => cur[c] # 0

CommitInv ==
  /\ CommitFollowsHandled
  /\ \A c \in Consumers : pc[c] = "commit" => cur[c] \in handled

\* The partition is written at its end only.
LogGrows ==
  /\ log' \in Seq(Message)
  /\ Len(log') >= Len(log)
  /\ \A i \in 1 .. Len(log) : log'[i] = log[i]

LEMMA MessageFields ==
  ASSUME NEW m \in Message
  PROVE  /\ m.key \in Keys
         /\ m.op \in {"upsert", "delete", "tombstone"}
         /\ m.op = "upsert" => m.after \in Values
BY DEF Message

LEMMA WriteLog ==
  ASSUME TypeOK, NEW k \in Keys, NEW v \in Values, Write(k, v)
  PROVE  /\ LogGrows /\ Len(log') = Len(log) + 1
         /\ log'[Len(log) + 1] = [op |-> "upsert", key |-> k, after |-> v]
<1> DEFINE m == [op |-> "upsert", key |-> k, after |-> v]
<1>1. m \in Message
  BY DEF Message
<1>2. log \in Seq(Message) /\ log' = Append(log, m)
  BY DEF TypeOK, Write
<1> HIDE DEF m
<1>3. /\ log' \in Seq(Message) /\ Len(log') = Len(log) + 1
      /\ \A i \in 1 .. Len(log) : log'[i] = log[i]
      /\ log'[Len(log) + 1] = m
  BY <1>1, <1>2, AppendProperties
<1> QED
  BY <1>2, <1>3, LenProperties DEF LogGrows, m

LEMMA DeleteLog ==
  ASSUME TypeOK, NEW k \in Keys, Delete(k)
  PROVE  /\ LogGrows /\ Len(log') = Len(log) + 2
         /\ log'[Len(log) + 1] = [op |-> "delete", key |-> k]
         /\ log'[Len(log) + 2] = [op |-> "tombstone", key |-> k]
<1> DEFINE d == [op |-> "delete", key |-> k]
           t == [op |-> "tombstone", key |-> k]
<1>1. d \in Message /\ t \in Message
  BY DEF Message
<1>2. log \in Seq(Message) /\ log' = log \o <<d, t>>
  BY DEF TypeOK, Delete
<1> HIDE DEF d, t
<1>3. <<d, t>> \in Seq(Message) /\ Len(<<d, t>>) = 2 /\ <<d, t>>[1] = d /\ <<d, t>>[2] = t
  BY <1>1
<1>4. /\ log' \in Seq(Message) /\ Len(log') = Len(log) + 2
      /\ \A i \in 1 .. Len(log) : log'[i] = log[i]
      /\ log'[Len(log) + 1] = d /\ log'[Len(log) + 2] = t
  BY <1>2, <1>3, ConcatProperties, LenProperties
<1> QED
  BY <1>2, <1>4, LenProperties DEF LogGrows, d, t

LEMMA ResendLog ==
  ASSUME TypeOK, NEW i \in 1 .. Len(log), Resend(i)
  PROVE  /\ LogGrows /\ Len(log') = Len(log) + (Len(log) - i + 1)
         /\ \A j \in i .. Len(log) : log'[Len(log) + (j - i + 1)] = log[j]
<1> DEFINE s == SubSeq(log, i, Len(log))
<1>1. log \in Seq(Message) /\ log' = log \o s /\ Len(log) \in Nat
  BY LenProperties DEF TypeOK, Resend
<1>2. /\ s \in Seq(Message) /\ Len(s) = Len(log) - i + 1
      /\ \A j \in 1 .. Len(s) : s[j] = log[i + j - 1]
  <2>1. i \in Int /\ Len(log) \in Int /\ i <= Len(log)
    BY <1>1
  <2>2. \A j \in i .. Len(log) : log[j] \in Message
    BY <1>1, ElementOfSeq
  <2>3. /\ s \in Seq(Message)
        /\ Len(s) = IF i <= Len(log) THEN Len(log) - i + 1 ELSE 0
        /\ \A j \in 1 .. Len(log) - i + 1 : s[j] = log[i + j - 1]
    BY <2>1, <2>2, SubSeqProperties
  <2> QED
    BY <2>1, <2>3
<1> HIDE DEF s
<1>3. /\ log' \in Seq(Message) /\ Len(log') = Len(log) + Len(s)
      /\ \A j \in 1 .. Len(log) : log'[j] = log[j]
      /\ \A j \in 1 .. Len(s) : log'[Len(log) + j] = s[j]
  <2>1. /\ log' \in Seq(Message) /\ Len(log') = Len(log) + Len(s)
        /\ \A j \in 1 .. Len(log) + Len(s) :
             log'[j] = IF j <= Len(log) THEN log[j] ELSE s[j - Len(log)]
    BY <1>1, <1>2, ConcatProperties
  <2>2. Len(s) \in Nat
    BY <1>2, LenProperties
  <2>3. ASSUME NEW j \in 1 .. Len(s) PROVE log'[Len(log) + j] = s[j]
    <3>1. Len(log) + j \in 1 .. Len(log) + Len(s) /\ ~(Len(log) + j <= Len(log))
          /\ Len(log) + j - Len(log) = j
      BY <1>1, <2>2
    <3> QED
      BY <2>1, <3>1
  <2> QED
    BY <1>1, <2>1, <2>2, <2>3
<1>4. ASSUME NEW j \in i .. Len(log) PROVE log'[Len(log) + (j - i + 1)] = log[j]
  <2>1. (j - i + 1) \in 1 .. Len(s) /\ i + (j - i + 1) - 1 = j
    BY <1>1, <1>2
  <2> QED
    BY <1>2, <1>3, <2>1
<1> QED
  BY <1>1, <1>2, <1>3, <1>4 DEF LogGrows

-----------------------------------------------------------------------------
(* Types, and what a commit follows *)

LEMMA TypeInit == Init => TypeInv /\ CommitInv
<1> SUFFICES ASSUME Init PROVE TypeInv /\ CommitInv
  OBVIOUS
<1>1. log \in Seq(Message) /\ Len(log) = 0
  BY EmptySeq DEF Init
<1> QED
  BY <1>1, BoundsAssumption DEF Init, TypeInv, TypeOK, CommitInv, CommitFollowsHandled

\* The message that consumer c is working on.
LEMMA CurrentMessage ==
  ASSUME TypeInv, NEW c \in Consumers, pc[c] # "fetch"
  PROVE  cur[c] \in 1 .. Len(log) /\ log[cur[c]] \in Message
<1>1. cur[c] \in 1 .. Len(log) /\ log \in Seq(Message) /\ Len(log) \in Nat
  BY LenProperties DEF TypeInv, TypeOK
<1> QED
  BY <1>1, ElementOfSeq

LEMMA AppliedType ==
  ASSUME TypeInv, NEW c \in Consumers, pc[c] = "handle"
  PROVE  Applied(log[cur[c]]) \in [Keys -> Values \cup {Absent}]
<1>1. log[cur[c]] \in Message
  BY CurrentMessage
<1> QED
  BY <1>1, MessageFields DEF Applied, TypeInv, TypeOK

LEMMA TypeStep == TypeInv /\ [Next]_vars => TypeInv'
<1> SUFFICES ASSUME TypeInv, [Next]_vars PROVE TypeInv'
  OBVIOUS
<1>0. Len(log) \in Nat /\ log \in Seq(Message)
  BY LenProperties DEF TypeInv, TypeOK
<1>1. ASSUME LogGrows, UNCHANGED consumerVars, table' \in [Keys -> Values \cup {Absent}]
      PROVE  TypeInv'
  <2>1. Len(log') \in Nat
    BY <1>1, LenProperties DEF LogGrows
  <2> QED
    BY <1>0, <1>1, <2>1 DEF TypeInv, TypeOK, LogGrows, consumerVars
<1>2. ASSUME NEW k \in Keys, NEW v \in Values, Write(k, v) PROVE TypeInv'
  BY <1>1, <1>2, WriteLog DEF Write, TypeInv, TypeOK
<1>3. ASSUME NEW k \in Keys, Delete(k) PROVE TypeInv'
  BY <1>1, <1>3, DeleteLog DEF Delete, TypeInv, TypeOK
<1>4. ASSUME NEW i \in 1 .. Len(log), Resend(i) PROVE TypeInv'
  BY <1>1, <1>4, ResendLog DEF Resend, TypeInv, TypeOK
<1>5. ASSUME NEW c \in Consumers, Assign(c) PROVE TypeInv'
  BY <1>5 DEF Assign, TypeInv, TypeOK
<1>6. ASSUME NEW c \in Consumers, Stop(c) PROVE TypeInv'
  BY <1>0, <1>6, BoundsAssumption DEF Stop, TypeInv, TypeOK
<1>7. ASSUME NEW c \in Consumers, FetchMessage(c) PROVE TypeInv'
  BY <1>0, <1>7 DEF FetchMessage, TypeInv, TypeOK
<1>8. ASSUME NEW c \in Consumers, Handle(c) PROVE TypeInv'
  <2>1. index' \in [Keys -> Values \cup {Absent}] /\ cur[c] \in 1 .. Len(log)
    BY <1>8, AppliedType, CurrentMessage DEF Handle
  <2> QED
    BY <1>8, <2>1 DEF Handle, TypeInv, TypeOK
<1>9. ASSUME NEW c \in Consumers, HandleFails(c) PROVE TypeInv'
  <2>1. index' \in [Keys -> Values \cup {Absent}]
    BY <1>9, AppliedType DEF HandleFails, TypeInv, TypeOK
  <2> QED
    BY <1>0, <1>9, <2>1 DEF HandleFails, TypeInv, TypeOK
<1>10. ASSUME NEW c \in Consumers, CommitMessages(c) PROVE TypeInv'
  <2>1. cur[c] \in 1 .. Len(log)
    BY <1>10, CurrentMessage DEF CommitMessages
  <2> QED
    BY <1>0, <1>10, <2>1 DEF CommitMessages, TypeInv, TypeOK
<1>11. ASSUME UNCHANGED vars PROVE TypeInv'
  BY <1>11 DEF vars, TypeInv, TypeOK
<1> QED
  BY <1>2, <1>3, <1>4, <1>5, <1>6, <1>7, <1>8, <1>9, <1>10, <1>11 DEF Next, Run

\* The partition, the offsets and the documents stay well formed: no consumer
\* works on, and no commit names, an offset outside the partition.
THEOREM TypeCorrect == Spec => []TypeOK
<1>1. TypeInv => TypeOK
  BY DEF TypeInv
<1> QED
  BY <1>1, TypeInit, TypeStep, PTL DEF Spec

LEMMA CommitStep == TypeInv /\ CommitInv /\ [Next]_vars => CommitInv'
<1> SUFFICES ASSUME TypeInv, CommitInv, [Next]_vars PROVE CommitInv'
  OBVIOUS
<1> USE DEF CommitInv, CommitFollowsHandled
<1>1. ASSUME UNCHANGED consumerVars PROVE CommitInv'
  BY <1>1 DEF consumerVars
<1>2. ASSUME NEW c \in Consumers, Assign(c) PROVE CommitInv'
  BY <1>2 DEF Assign
<1>3. ASSUME NEW c \in Consumers, Stop(c) PROVE CommitInv'
  BY <1>3 DEF Stop, TypeInv, TypeOK
<1>4. ASSUME NEW c \in Consumers, FetchMessage(c) PROVE CommitInv'
  BY <1>4 DEF FetchMessage, TypeInv, TypeOK
<1>5. ASSUME NEW c \in Consumers, Handle(c) PROVE CommitInv'
  BY <1>5 DEF Handle, TypeInv, TypeOK
<1>6. ASSUME NEW c \in Consumers, HandleFails(c) PROVE CommitInv'
  BY <1>6 DEF HandleFails, TypeInv, TypeOK
<1>7. ASSUME NEW c \in Consumers, CommitMessages(c) PROVE CommitInv'
  <2>1. cur[c] \in handled /\ cur[c] \in Nat
    BY <1>7 DEF CommitMessages, TypeInv, TypeOK
  <2>2. committed' = cur[c] + 1 \/ committed' = committed
    BY <1>7 DEF CommitMessages
  <2>3. CommitFollowsHandled'
    BY <1>7, <2>1, <2>2 DEF CommitMessages
  <2>4. \A d \in Consumers : pc'[d] = "commit" => cur'[d] \in handled'
    BY <1>7 DEF CommitMessages, TypeInv, TypeOK
  <2> QED
    BY <2>3, <2>4
<1> QED
  BY <1>1, <1>2, <1>3, <1>4, <1>5, <1>6, <1>7
     DEF Next, Run, Write, Delete, Resend, vars, consumerVars

\* Whatever fails and whoever owns the partition, the committed offset lies
\* right behind a message that was handled.
THEOREM CommitsFollowHandled == Spec => []CommitFollowsHandled
<1>1. CommitInv => CommitFollowsHandled
  BY DEF CommitInv
<1> QED
  BY <1>1, TypeInit, TypeStep, CommitStep, PTL DEF Spec

-----------------------------------------------------------------------------
(* The index follows the table *)

\* Message m is a change of row k.
Touches(m, k) == m.op # "tombstone" /\ m.key = k

Effect(m) == IF m.op = "upsert" THEN m.after ELSE Absent

\* The last change of a row in the partition made it what it is.
LastIsTable ==
  \A i \in 1 .. Len(log), k \in Keys :
    /\ Touches(log[i], k)
    /\ \A j \in i + 1 .. Len(log) : ~Touches(log[j], k)
    => Effect(log[i]) = table[k]

\* The document of a row is right unless message n or a later one changes it.
SyncedFrom(n) ==
  \A k \in Keys : (\A i \in n .. Len(log) : ~Touches(log[i], k)) => index[k] = table[k]

\* The first message whose effect consumer c has not brought about.
Front(c) == IF pc[c] = "handle" THEN cur[c] ELSE pos[c]

SyncInv ==
  /\ LastIsTable
  /\ SyncedFrom(committed)
  /\ \A c \in Consumers :
       /\ owner = NoConsumer => pc[c] = "fetch"
       /\ pc[c] # "fetch" => pos[c] = cur[c] + 1
       /\ owner = c => SyncedFrom(Front(c)) /\ committed <= Front(c)

LEMMA SyncInit == Init => SyncInv
<1> SUFFICES ASSUME Init PROVE SyncInv
  OBVIOUS
<1>1. log = <<>> /\ Len(log) = 0
  BY EmptySeq DEF Init
<1> QED
  BY <1>1, NoConsumerAssumption DEF Init, SyncInv, LastIsTable, SyncedFrom

\* A change of row k at the end of the partition, and perhaps its tombstone.
LEMMA ChangeSyncs ==
  ASSUME TypeOK, LastIsTable, LogGrows, NEW k \in Keys,
         Len(log') > Len(log), Touches(log'[Len(log) + 1], k),
         \A j \in Len(log) + 2 .. Len(log') : log'[j].op = "tombstone",
         index' = index, \A x \in Keys \ {k} : table'[x] = table[x],
         Effect(log'[Len(log) + 1]) = table'[k]
  PROVE  /\ LastIsTable'
         /\ \A n \in 1 .. Len(log) + 1 : SyncedFrom(n) => SyncedFrom(n)'
<1>0. Len(log) \in Nat /\ Len(log') \in Nat
  BY LenProperties DEF TypeOK, LogGrows
<1>1. /\ \A j \in 1 .. Len(log), x \in Keys : Touches(log'[j], x) <=> Touches(log[j], x)
      /\ \A j \in Len(log) + 2 .. Len(log'), x \in Keys : ~Touches(log'[j], x)
      /\ \A x \in Keys \ {k} : ~Touches(log'[Len(log) + 1], x)
  BY DEF LogGrows, Touches
<1>2. LastIsTable'
  <2> SUFFICES ASSUME NEW i \in 1 .. Len(log'), NEW x \in Keys, Touches(log'[i], x),
                      \A j \in i + 1 .. Len(log') : ~Touches(log'[j], x)
               PROVE  Effect(log'[i]) = table'[x]
    BY DEF LastIsTable, Effect
  <2>1. CASE i = Len(log) + 1
    BY <1>1, <2>1
  <2>2. CASE i \in 1 .. Len(log)
    <3>1. x # k
      BY <1>0, <2>2
    <3>2. Touches(log[i], x) /\ \A j \in i + 1 .. Len(log) : ~Touches(log[j], x)
      BY <1>0, <1>1, <2>2
    <3>3. Effect(log[i]) = table[x]
      BY <2>2, <3>2 DEF LastIsTable
    <3>4. log'[i] = log[i] /\ table'[x] = table[x]
      BY <2>2, <3>1 DEF LogGrows
    <3> QED
      BY <3>3, <3>4 DEF Effect
  <2> QED
    BY <1>0, <1>1, <2>1, <2>2
<1>3. ASSUME NEW n \in 1 .. Len(log) + 1, SyncedFrom(n), NEW x \in Keys,
             \A i \in n .. Len(log') : ~Touches(log'[i], x)
      PROVE  index'[x] = table'[x]
  <2>1. x # k
    BY <1>0, <1>3
  <2>2. \A i \in n .. Len(log) : ~Touches(log[i], x)
    BY <1>0, <1>1, <1>3
  <2> QED
    BY <1>3, <2>1, <2>2 DEF SyncedFrom
<1> QED
  BY <1>2, <1>3 DEF SyncedFrom

\* Changes that are sent again end with the last change of every row they are about.
LEMMA ResendSyncs ==
  ASSUME TypeOK, LastIsTable, NEW i \in 1 .. Len(log), Resend(i)
  PROVE  /\ LastIsTable'
         /\ \A n \in 1 .. Len(log) + 1 : SyncedFrom(n) => SyncedFrom(n)'
<1>0. Len(log) \in Nat /\ Len(log') = Len(log) + (Len(log) - i + 1)
  BY LenProperties, ResendLog DEF TypeOK
<1>1. UNCHANGED <<table, index>>
  BY DEF Resend, consumerVars
<1>2. /\ \A j \in 1 .. Len(log) : log'[j] = log[j]
      /\ \A j \in i .. Len(log) : log'[Len(log) + (j - i + 1)] = log[j]
  BY ResendLog DEF LogGrows
<1>3. LastIsTable'
  <2> SUFFICES ASSUME NEW a \in 1 .. Len(log'), NEW k \in Keys, Touches(log'[a], k),
                      \A j \in a + 1 .. Len(log') : ~Touches(log'[j], k)
               PROVE  Effect(log'[a]) = table'[k]
    BY DEF LastIsTable, Effect
  <2>1. ASSUME NEW b \in 1 .. Len(log), log[b] = log'[a],
               \A j \in b + 1 .. Len(log) : ~Touches(log[j], k)
        PROVE  Effect(log'[a]) = table'[k]
    <3>1. Touches(log[b], k)
      BY <2>1 DEF Touches
    <3>2. Effect(log[b]) = table[k]
      BY <2>1, <3>1 DEF LastIsTable
    <3> QED
      BY <1>1, <2>1, <3>2
  <2>2. CASE a \in 1 .. Len(log)
    <3>1. log[a] = log'[a]
      BY <1>2, <2>2
    <3>2. ASSUME NEW j \in a + 1 .. Len(log) PROVE ~Touches(log[j], k)
      <4>1. j \in a + 1 .. Len(log') /\ j \in 1 .. Len(log)
        BY <1>0, <2>2
      <4> QED
        BY <1>2, <4>1 DEF Touches
    <3> QED
      BY <2>1, <2>2, <3>1, <3>2
  <2>3. CASE a \in Len(log) + 1 .. Len(log')
    <3> DEFINE b == a - Len(log) + i - 1
    <3>1. b \in i .. Len(log) /\ b \in 1 .. Len(log) /\ a = Len(log) + (b - i + 1)
      BY <1>0, <2>3
    <3>2. log[b] = log'[a]
      BY <1>2, <3>1
    <3>3. ASSUME NEW j \in b + 1 .. Len(log) PROVE ~Touches(log[j], k)
      <4> DEFINE x == Len(log) + (j - i + 1)
      <4>1. j \in i .. Len(log) /\ x \in a + 1 .. Len(log')
        BY <1>0, <2>3, <3>1
      <4>2. log'[x] = log[j] /\ ~Touches(log'[x], k)
        BY <1>2, <4>1
      <4> QED
        BY <4>2 DEF Touches
    <3> HIDE DEF b
    <3> QED
      BY <2>1, <3>1, <3>2, <3>3
  <2> QED
    BY <1>0, <2>2, <2>3
<1>4. ASSUME NEW n \in 1 .. Len(log) + 1, SyncedFrom(n), NEW k \in Keys,
             \A j \in n .. Len(log') : ~Touches(log'[j], k)
      PROVE  index'[k] = table'[k]
  <2>1. ASSUME NEW j \in n .. Len(log) PROVE ~Touches(log[j], k)
    <3>1. j \in n .. Len(log') /\ j \in 1 .. Len(log)
      BY <1>0
    <3> QED
      BY <1>2, <1>4, <3>1 DEF Touches
  <2> QED
    BY <1>1, <1>4, <2>1 DEF SyncedFrom
<1> QED
  BY <1>3, <1>4 DEF SyncedFrom

\* A change that is applied is no longer missing, and spoils no other document.
LEMMA HandleSyncs ==
  ASSUME TypeInv, LastIsTable, NEW c \in Consumers, Handle(c)
  PROVE  /\ SyncedFrom(cur[c]) => SyncedFrom(cur[c] + 1)'
         /\ \A n \in 1 .. cur[c] : SyncedFrom(n) => SyncedFrom(n)'
<1> DEFINE i == cur[c]
           m == log[i]
<1>0. /\ i \in 1 .. Len(log) /\ m \in Message /\ Len(log) \in Nat
      /\ m.op # "tombstone" /\ UNCHANGED <<table, log>>
      /\ index' = [index EXCEPT ![m.key] = Effect(m)]
  BY CurrentMessage, LenProperties DEF Handle, Applied, Effect, TypeInv, TypeOK
<1>1. m.key \in Keys /\ Touches(log[i], m.key) /\ \A k \in Keys \ {m.key} : ~Touches(log[i], k)
  BY <1>0, MessageFields DEF Touches
<1>2. index'[m.key] = Effect(m) /\ \A k \in Keys \ {m.key} : index'[k] = index[k]
  BY <1>0, <1>1 DEF TypeInv, TypeOK
<1>3. cur' = cur
  BY DEF Handle
<1> HIDE DEF i, m
<1>4. ASSUME SyncedFrom(i), NEW k \in Keys, \A j \in i + 1 .. Len(log) : ~Touches(log[j], k)
      PROVE  index'[k] = table'[k]
  <2>1. CASE k = m.key
    <3>1. Effect(m) = table[k]
      BY <1>0, <1>1, <1>4, <2>1 DEF LastIsTable, m
    <3> QED
      BY <1>0, <1>2, <2>1, <3>1
  <2>2. CASE k # m.key
    <3>1. \A j \in i .. Len(log) : ~Touches(log[j], k)
      BY <1>0, <1>1, <1>4, <2>2
    <3> QED
      BY <1>0, <1>2, <1>4, <2>2, <3>1 DEF SyncedFrom
  <2> QED
    BY <2>1, <2>2
<1>5. ASSUME NEW n \in 1 .. i, SyncedFrom(n), NEW k \in Keys,
             \A j \in n .. Len(log) : ~Touches(log[j], k)
      PROVE  index'[k] = table'[k]
  <2>1. k # m.key
    BY <1>0, <1>1, <1>5
  <2> QED
    BY <1>0, <1>2, <1>5, <2>1 DEF SyncedFrom
<1>6. ASSUME SyncedFrom(i) PROVE SyncedFrom(i + 1)'
  BY <1>0, <1>3, <1>4, <1>6 DEF SyncedFrom, i
<1>7. ASSUME NEW n \in 1 .. i, SyncedFrom(n) PROVE SyncedFrom(n)'
  BY <1>0, <1>5, <1>7 DEF SyncedFrom
<1> QED
  BY <1>3, <1>6, <1>7 DEF i

\* Steps of Postgres and Debezium.
LEMMA SyncLog ==
  ASSUME TypeInv, SyncInv, UNCHANGED consumerVars, LastIsTable',
         \A n \in 1 .. Len(log) + 1 : SyncedFrom(n) => SyncedFrom(n)'
  PROVE  SyncInv'
<1>1. UNCHANGED <<committed, owner, pc, pos, cur>>
  BY DEF consumerVars
<1>2. Len(log) \in Nat /\ committed \in 1 .. Len(log) + 1
  BY LenProperties DEF TypeInv, TypeOK
<1>3. SyncedFrom(committed)'
  BY <1>1, <1>2 DEF SyncInv, SyncedFrom
<1>4. ASSUME NEW c \in Consumers, owner = c
      PROVE  SyncedFrom(Front(c))' /\ committed' <= Front(c)'
  <2>1. Front(c) \in 1 .. Len(log) + 1
    BY <1>2, CurrentMessage DEF Front, TypeInv, TypeOK
  <2>2. Front(c)' = Front(c)
    BY <1>1 DEF Front
  <2>3. \A n : n = Front(c) => (SyncedFrom(n)' <=> SyncedFrom(Front(c))')
    BY <2>2 DEF SyncedFrom
  <2> QED
    BY <1>1, <1>4, <2>1, <2>2, <2>3 DEF SyncInv
<1> QED
  BY <1>1, <1>3, <1>4 DEF SyncInv

\* The deployment that SyncedWhenCaughtUp is checked for: one process in the
\* consumer group, and an Elasticsearch that answers.
Alone ==
  /\ \A c, d \in Consumers : c = d
  /\ "index" \notin Faults

LEMMA SyncStep == Alone /\ TypeInv /\ SyncInv /\ [Next]_vars => SyncInv'
<1> SUFFICES ASSUME Alone, TypeInv, SyncInv, [Next]_vars PROVE SyncInv'
  OBVIOUS
<1>0. /\ Len(log) \in Nat /\ committed \in Nat /\ LastIsTable /\ SyncedFrom(committed)
      /\ committed \in 1 .. Len(log) + 1
  BY LenProperties DEF TypeInv, TypeOK, SyncInv
<1>1. ASSUME NEW k \in Keys, NEW v \in Values, Write(k, v) PROVE SyncInv'
  <2>1. /\ LogGrows /\ Len(log') = Len(log) + 1
        /\ log'[Len(log) + 1] = [op |-> "upsert", key |-> k, after |-> v]
    BY <1>1, WriteLog DEF TypeInv
  <2>2. UNCHANGED consumerVars /\ table' = [table EXCEPT ![k] = v] /\ index' = index
    BY <1>1 DEF Write, consumerVars
  <2>3. Touches(log'[Len(log) + 1], k) /\ Effect(log'[Len(log) + 1]) = v
    BY <2>1 DEF Touches, Effect
  <2>4. table'[k] = v /\ \A x \in Keys \ {k} : table'[x] = table[x]
    BY <2>2 DEF TypeInv, TypeOK
  <2>5. /\ Len(log') > Len(log)
        /\ \A j \in Len(log) + 2 .. Len(log') : log'[j].op = "tombstone"
    BY <1>0, <2>1
  <2>6. /\ LastIsTable'
        /\ \A n \in 1 .. Len(log) + 1 : SyncedFrom(n) => SyncedFrom(n)'
    BY <1>0, <2>1, <2>2, <2>3, <2>4, <2>5, ChangeSyncs DEF TypeInv
  <2> QED
    BY <2>2, <2>6, SyncLog
<1>2. ASSUME NEW k \in Keys, Delete(k) PROVE SyncInv'
  <2>1. /\ LogGrows /\ Len(log') = Len(log) + 2
        /\ log'[Len(log) + 1] = [op |-> "delete", key |-> k]
        /\ log'[Len(log) + 2] = [op |-> "tombstone", key |-> k]
    BY <1>2, DeleteLog DEF TypeInv
  <2>2. UNCHANGED consumerVars /\ table' = [table EXCEPT ![k] = Absent] /\ index' = index
    BY <1>2 DEF Delete, consumerVars
  <2>3. Touches(log'[Len(log) + 1], k) /\ Effect(log'[Len(log) + 1]) = Absent
    BY <2>1 DEF Touches, Effect
  <2>4. table'[k] = Absent /\ \A x \in Keys \ {k} : table'[x] = table[x]
    BY <2>2 DEF TypeInv, TypeOK
  <2>5. /\ Len(log') > Len(log)
        /\ \A j \in Len(log) + 2 .. Len(log') : log'[j].op = "tombstone"
    BY <1>0, <2>1
  <2>6. /\ LastIsTable'
        /\ \A n \in 1 .. Len(log) + 1 : SyncedFrom(n) => SyncedFrom(n)'
    BY <1>0, <2>1, <2>2, <2>3, <2>4, <2>5, ChangeSyncs DEF TypeInv
  <2> QED
    BY <2>2, <2>6, SyncLog
<1>3. ASSUME NEW i \in 1 .. Len(log), Resend(i) PROVE SyncInv'
  <2>1. UNCHANGED consumerVars
    BY <1>3 DEF Resend
  <2> QED
    BY <1>0, <1>3, <2>1, ResendSyncs, SyncLog DEF TypeInv
<1>4. ASSUME NEW c \in Consumers, Assign(c) \/ Stop(c) \/ Run(c) PROVE SyncInv'
  <2>1. /\ Consumers = {c} /\ owner \in {c, NoConsumer} /\ c # NoConsumer
        /\ pos[c] \in 1 .. Len(log) + 1
    BY NoConsumerAssumption DEF Alone, TypeInv, TypeOK
  <2>2. /\ owner = NoConsumer => pc[c] = "fetch"
        /\ pc[c] # "fetch" => pos[c] = cur[c] + 1 /\ owner = c
        /\ owner = c => SyncedFrom(Front(c)) /\ committed <= Front(c)
    BY <2>1 DEF SyncInv
  <2>3. SUFFICES /\ LastIsTable' /\ SyncedFrom(committed)'
                 /\ owner' = NoConsumer => pc'[c] = "fetch"
                 /\ pc'[c] # "fetch" => pos'[c] = cur'[c] + 1
                 /\ owner' = c => SyncedFrom(Front(c))' /\ committed' <= Front(c)'
    BY <2>1 DEF SyncInv
  <2>4. LastIsTable'
    BY <1>0, <1>4 DEF LastIsTable, Touches, Effect, Assign, Stop, Run, FetchMessage, Handle,
       HandleFails, CommitMessages
  <2>6. CASE Assign(c)
    <3>1. /\ UNCHANGED <<table, log, index, committed, pc, cur>>
          /\ owner' = c /\ pos'[c] = committed
      BY <2>1, <2>6 DEF Assign, TypeInv, TypeOK
    <3>2. pc[c] = "fetch"
      BY <2>1, <2>2, <2>6 DEF Assign
    <3>3. Front(c)' = committed
      BY <3>1, <3>2 DEF Front
    <3>4. SyncedFrom(committed)' /\ SyncedFrom(Front(c))'
      BY <1>0, <3>1, <3>3 DEF SyncedFrom
    <3> QED
      BY <1>0, <2>1, <2>4, <3>1, <3>2, <3>3, <3>4
  <2>7. CASE Stop(c)
    <3>1. UNCHANGED <<table, log, index, committed>> /\ owner' = NoConsumer /\ pc'[c] = "fetch"
      BY <2>1, <2>2, <2>7 DEF Stop, TypeInv, TypeOK
    <3>2. SyncedFrom(committed)'
      BY <1>0, <3>1 DEF SyncedFrom
    <3> QED
      BY <2>1, <2>4, <3>1, <3>2
  <2>8. CASE FetchMessage(c)
    <3>1. /\ UNCHANGED <<table, log, index, committed, owner>>
          /\ owner = c /\ pc[c] = "fetch" /\ pc'[c] = "handle" /\ cur'[c] = pos[c]
          /\ pos'[c] = pos[c] + 1
      BY <2>8 DEF FetchMessage, TypeInv, TypeOK
    <3>2. Front(c) = pos[c] /\ Front(c)' = pos[c]
      BY <3>1 DEF Front
    <3>3. SyncedFrom(committed)' /\ SyncedFrom(Front(c))'
      BY <1>0, <2>2, <3>1, <3>2 DEF SyncedFrom
    <3> QED
      BY <2>1, <2>2, <2>4, <3>1, <3>2, <3>3
  <2>9. CASE Handle(c)
    <3>1. /\ UNCHANGED <<table, log, committed, owner, pos, cur>>
          /\ pc[c] = "handle" /\ pc'[c] = "commit"
      BY <2>9 DEF Handle, TypeInv, TypeOK
    <3>2. owner = c /\ pos[c] = cur[c] + 1 /\ Front(c) = cur[c] /\ Front(c)' = cur[c] + 1
      BY <2>2, <3>1 DEF Front
    <3>3. committed \in 1 .. cur[c] /\ cur[c] \in Nat
      BY <1>0, <2>2, <3>1, <3>2, CurrentMessage
    <3>4. SyncedFrom(cur[c] + 1)' /\ \A n \in 1 .. cur[c] : SyncedFrom(n) => SyncedFrom(n)'
      BY <1>0, <2>2, <2>9, <3>2, HandleSyncs
    <3>5. SyncedFrom(Front(c))'
      BY <3>1, <3>2, <3>4 DEF SyncedFrom
    <3>6. SyncedFrom(committed)'
      BY <1>0, <3>1, <3>3, <3>4 DEF SyncedFrom
    <3> QED
      BY <2>1, <2>4, <3>1, <3>2, <3>3, <3>5, <3>6
  <2>10. CASE HandleFails(c)
    <3>1. /\ UNCHANGED <<table, log, index, committed, owner, pos>>
          /\ pc[c] = "handle" /\ pc'[c] = "fetch" /\ log[cur[c]].op = "tombstone"
      BY <2>10 DEF HandleFails, TypeInv, TypeOK, Alone
    <3>2. owner = c /\ pos[c] = cur[c] + 1 /\ Front(c) = cur[c] /\ Front(c)' = pos[c]
      BY <2>2, <3>1 DEF Front
    <3>3. cur[c] \in 1 .. Len(log)
      BY <3>1, CurrentMessage
    <3>4. SyncedFrom(pos[c])
      <4> SUFFICES ASSUME NEW k \in Keys, \A i \in pos[c] .. Len(log) : ~Touches(log[i], k)
                   PROVE  index[k] = table[k]
        BY DEF SyncedFrom
      <4>1. \A i \in cur[c] .. Len(log) : ~Touches(log[i], k)
        <5> SUFFICES ASSUME NEW i \in cur[c] .. Len(log) PROVE ~Touches(log[i], k)
          OBVIOUS
        <5>1. CASE i = cur[c]
          BY <3>1, <5>1 DEF Touches
        <5>2. CASE i # cur[c]
          BY <1>0, <3>2, <3>3, <5>2
        <5> QED
          BY <5>1, <5>2
      <4> QED
        BY <2>2, <3>2, <4>1 DEF SyncedFrom
    <3>5. SyncedFrom(Front(c))' /\ SyncedFrom(committed)'
      BY <1>0, <3>1, <3>2, <3>4 DEF SyncedFrom
    <3>6. committed <= pos[c]
      BY <1>0, <2>2, <3>2, <3>3
    <3> QED
      BY <2>1, <2>4, <3>1, <3>2, <3>5, <3>6
  <2>11. CASE CommitMessages(c)
    <3>1. /\ UNCHANGED <<table, log, index, owner, pos>>
          /\ pc[c] = "commit" /\ pc'[c] = "fetch"
          /\ committed' = cur[c] + 1 \/ committed' = committed
      BY <2>11 DEF CommitMessages, TypeInv, TypeOK
    <3>2. owner = c /\ pos[c] = cur[c] + 1 /\ Front(c) = pos[c] /\ Front(c)' = pos[c]
      BY <2>2, <3>1 DEF Front
    <3>3. SyncedFrom(pos[c]) /\ committed <= pos[c]
      BY <2>2, <3>2
    <3>4. SyncedFrom(Front(c))'
      BY <3>1, <3>2, <3>3 DEF SyncedFrom
    <3>5. SyncedFrom(committed)' /\ committed' <= pos[c]
      <4>1. CASE committed' = pos[c]
        BY <2>1, <3>1, <3>3, <4>1 DEF SyncedFrom
      <4>2. CASE committed' = committed
        BY <1>0, <3>1, <3>3, <4>2 DEF SyncedFrom
      <4> QED
        BY <3>1, <3>2, <4>1, <4>2
    <3> QED
      BY <2>1, <2>4, <3>1, <3>2, <3>4, <3>5
  <2> QED
    BY <1>4, <2>6, <2>7, <2>8, <2>9, <2>10, <2>11 DEF Run
<1>5. ASSUME UNCHANGED vars PROVE SyncInv'
  <2>1. UNCHANGED consumerVars /\ UNCHANGED <<table, log, index>>
    BY <1>5 DEF vars, consumerVars
  <2>2. LastIsTable' /\ \A n \in 1 .. Len(log) + 1 : SyncedFrom(n) => SyncedFrom(n)'
    BY <1>0, <2>1 DEF LastIsTable, SyncedFrom
  <2> QED
    BY <2>1, <2>2, SyncLog
<1> QED
  BY <1>1, <1>2, <1>3, <1>4, <1>5 DEF Next

\* A consumer that has read its whole partition has an index equal to the
\* table, after any number of crashes, commits that failed and restarts of the
\* connector, each of which makes it apply old versions again: what is applied
\* out of date is always followed by a message that is still to be handled.
THEOREM CaughtUpIsSynced ==
  ASSUME Alone
  PROVE  Spec => []SyncedWhenCaughtUp
<1>1. TypeInv /\ SyncInv => SyncedWhenCaughtUp
  <2> SUFFICES ASSUME TypeInv, SyncInv, CaughtUp PROVE index = table
    BY DEF SyncedWhenCaughtUp
  <2>1. PICK c \in Consumers : owner = c /\ pos[c] = Len(log) + 1 /\ pc[c] = "fetch"
    BY DEF CaughtUp
  <2>2. SyncedFrom(Len(log) + 1) /\ Len(log) \in Nat
    BY <2>1, LenProperties DEF SyncInv, Front, TypeInv, TypeOK
  <2>3. Len(log) + 1 .. Len(log) = {}
    BY <2>2
  <2>4. \A k \in Keys : index[k] = table[k]
    BY <2>2, <2>3 DEF SyncedFrom
  <2> QED
    BY <2>4 DEF TypeInv, TypeOK
<1>2. TypeInv /\ SyncInv /\ [Next]_vars => SyncInv'
  BY SyncStep
<1> QED
  BY <1>1, <1>2, TypeInit, TypeStep, SyncInit, PTL DEF Spec
=============================================================================
