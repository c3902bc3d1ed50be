--------------------------- MODULE LifecycleProofs --------------------------
(***************************************************************************)
(* Proofs about Lifecycle, for any number of instances and requests, any   *)
(* roles and permissions to be seeded and any deployment.                  *)
(*                                                                         *)
(* IInv has four parts. TypeInv counts the goroutines that have ended,     *)
(* SeedInv says what an instance that seeds has completed, LoneInv what    *)
(* may have happened since it looked for a row, and CallInv where requests *)
(* are while their instance drains. Most steps of a running instance do    *)
(* one of two things, RunsOn or Dies; those of a start do StartsOn or Dies.*)
(* ConfigInv, at the end, says that settings were accepted before a worker *)
(* uses them; with it the closed form of Backoff is a fact about numbers.  *)
(***************************************************************************)
EXTENDS Lifecycle, FiniteSetTheorems, WellFoundedInduction, TLAPS

PhaseNames == {"permissions", "roles", "grants", "admin"}

Bit(b) == IF b THEN 1 ELSE 0

\* The goroutines of an instance. errCh counts the ones that have ended.
ServerOK(r) ==
  /\ r.errCh = Bit(r.grpc = "closed") + Bit(r.http = "closed") + Bit(r.worker = "ended")
  /\ r.pc \notin Running =>
       r.grpc = "off" /\ r.http = "off" /\ r.worker = "off" /\ ~r.expired
  /\ r.expired => r.pc = "close"
  /\ r.pc = "close" => r.grpc = "closed"

\* While an instance seeds, its earlier phases are complete, and what the present
\* one lacks is still in its list. Rows are never removed.
SeedOK(r, db) ==
  /\ r.pc \in {"config", "connect"} => r.phase = 1
  /\ r.pc \in {"seed", "create"} =>
       /\ \A k \in 1..4 : k < r.phase => RowsOf[Phases[k]] \subseteq db[Phases[k]]
       /\ ToSet(r.left) \subseteq RowsOf[Phases[r.phase]]
       /\ RowsOf[Phases[r.phase]] \subseteq db[Phases[r.phase]] \cup ToSet(r.left)
  /\ r.pc = "create" => r.left # <<>> /\ r.phase # 3
  /\ r.pc \in Running /\ Load.Env = "development" => db = RowsOf

\* Only an instance that seeds at the same time, or the deletion of the account,
\* comes between the search for a row and its creation.
LoneOK(r, db, del) ==
  /\ r.pc = "create" /\ ~r.overlapped =>
       \/ r.phase = 4 /\ del
       \/ Head(r.left) \notin db[Phases[r.phase]]
  /\ r.end = "conflict" => r.pc = "down" /\ (r.overlapped \/ del)

CallOK(k) ==
  /\ k.result = "cut" => k.pc = "over"
  /\ k.pc = "new" => k.at = None
  /\ k.pc \in {"gateway", "rpc", "reply"} => k.at \in Instances /\ k.via \in {"grpc", "http"}
  /\ k.pc \in {"gateway", "reply"} => k.via = "http"
  /\ k.pc = "rpc" => k.handler
  /\ k.handler => k.at \in Instances

\* A request is at an instance that runs, and one that has drained has no handler left.
PlaceOK(k, r) ==
  /\ k.pc # "over" \/ k.handler => r.pc \in Running
  /\ r.pc = "close" /\ ~r.expired => ~k.handler

TypeInv ==
  /\ deployment \in Deployments
  /\ rows \in [PhaseNames -> SUBSET AllRows]
  /\ \A p \in PhaseNames : rows[p] \subseteq RowsOf[p]
  /\ deleted \in BOOLEAN
  /\ starts \in [Instances -> Nat]
  /\ \A i \in Instances : starts[i] <= deployment.starts[i]
  /\ inst \in [Instances -> Instance]
  /\ \A i \in Instances : ServerOK(inst[i])
  /\ call \in [Calls -> Request]

SeedInv == \A i \in Instances : SeedOK(inst[i], rows)

LoneInv ==
  /\ \A i \in Instances : LoneOK(inst[i], rows, deleted)
  /\ \A i, j \in Instances : i # j /\ Seeding(i) /\ Seeding(j) => inst[i].overlapped

CallInv ==
  \A c \in Calls : CallOK(call[c]) /\ \A i \in Instances : call[c].at = i => PlaceOK(call[c], inst[i])

IInv == TypeInv /\ SeedInv /\ LoneInv /\ CallInv

-----------------------------------------------------------------------------
(* Seeds *)

LEMMA PhaseFacts ==
  /\ Len(Phases) = 4 /\ ToSet(Phases) = PhaseNames
  /\ Phases[1] = "permissions" /\ Phases[2] = "roles"
  /\ Phases[3] = "grants" /\ Phases[4] = "admin"
BY DEF Phases, PhaseNames, ToSet

LEMMA RowFacts ==
  /\ DOMAIN RowsOf = PhaseNames
  /\ RowsOf["permissions"] = ToSet(AllPermissions) /\ RowsOf["roles"] = ToSet(Roles)
  /\ RowsOf["grants"] = Grants /\ RowsOf["admin"] = {AdminEmail}
  /\ \A p \in PhaseNames : RowsOf[p] \subseteq AllRows
<1>1. /\ DOMAIN RowsOf = PhaseNames
      /\ RowsOf["permissions"] = ToSet(AllPermissions) /\ RowsOf["roles"] = ToSet(Roles)
      /\ RowsOf["grants"] = Grants /\ RowsOf["admin"] = {AdminEmail}
  BY DEF RowsOf, PhaseNames
<1> QED
  BY <1>1 DEF AllRows

\* The first row of a list and the rest.
LEMMA TailFacts ==
  ASSUME NEW S, NEW s \in Seq(S), s # <<>>
  PROVE  /\ Head(s) \in S /\ Tail(s) \in Seq(S)
         /\ ToSet(s) = {Head(s)} \cup ToSet(Tail(s))
<1>1. /\ Head(s) = s[1] /\ Tail(s) \in Seq(S) /\ Len(s) \in Nat \ {0}
      /\ Len(Tail(s)) = Len(s) - 1 /\ DOMAIN s = 1..Len(s) /\ DOMAIN Tail(s) = 1..Len(Tail(s))
      /\ \A n \in 1..Len(Tail(s)) : Tail(s)[n] = s[n + 1]
  OBVIOUS
<1>2. ASSUME NEW n \in DOMAIN s PROVE s[n] \in {Head(s)} \cup ToSet(Tail(s))
  <2>1. CASE n = 1
    BY <1>1, <2>1
  <2>2. CASE n # 1
    <3>1. n - 1 \in DOMAIN Tail(s) /\ Tail(s)[n - 1] = s[n]
      BY <1>1, <2>2
    <3> QED
      BY <3>1 DEF ToSet
  <2> QED
    BY <2>1, <2>2
<1>3. ASSUME NEW n \in DOMAIN Tail(s) PROVE Tail(s)[n] \in ToSet(s)
  <2>1. n + 1 \in DOMAIN s /\ Tail(s)[n] = s[n + 1]
    BY <1>1
  <2> QED
    BY <2>1 DEF ToSet
<1>4. Head(s) \in ToSet(s) /\ s[1] \in S
  BY <1>1 DEF ToSet
<1> QED
  BY <1>1, <1>2, <1>3, <1>4 DEF ToSet

LEMMA Wider ==
  ASSUME NEW S, NEW T, S \subseteq T, NEW s \in Seq(S)
  PROVE  s \in Seq(T)
OBVIOUS

LEMMA GrantsFinite == Cardinality(Grants) \in Nat
<1>1. ASSUME NEW S, NEW s \in Seq(S) PROVE IsFiniteSet(ToSet(s))
  <2>1. s \in Surjection(1..Len(s), ToSet(s))
    BY DEF ToSet, Surjection
  <2>2. IsFiniteSet(1..Len(s))
    BY FS_Interval
  <2> QED
    BY <2>1, <2>2, FS_Surjection
<1>2. IsFiniteSet(ToSet(Roles)) /\ IsFiniteSet(ToSet(AllPermissions))
  BY <1>1, RoleAssumption
<1>3. IsFiniteSet(ToSet(Roles) \X ToSet(AllPermissions))
  BY <1>2, FS_Product
<1>4. IsFiniteSet(Grants)
  BY <1>3, FS_Subset DEF Grants
<1> QED
  BY <1>4, FS_CardinalityType

\* Whatever the order, a phase lists its rows and no others.
LEMMA OrderFacts ==
  ASSUME NEW k \in 1..4, NEW o \in OrdersOf(Phases[k])
  PROVE  o \in Seq(AllRows) /\ ToSet(o) = RowsOf[Phases[k]]
<1>1. CASE k = 1
  <2>1. o = AllPermissions
    BY <1>1, PhaseFacts DEF OrdersOf
  <2> QED
    BY <1>1, <2>1, PhaseFacts, RowFacts, RoleAssumption, Wider DEF PhaseNames
<1>2. CASE k = 2
  <2>1. o = Roles
    BY <1>2, PhaseFacts DEF OrdersOf
  <2> QED
    BY <1>2, <2>1, PhaseFacts, RowFacts, RoleAssumption, Wider DEF PhaseNames
<1>3. CASE k = 3
  <2>1. o \in [1..Cardinality(Grants) -> Grants] /\ ToSet(o) = Grants
    BY <1>3, PhaseFacts DEF OrdersOf
  <2>2. o \in Seq(Grants)
    BY <2>1, GrantsFinite
  <2> QED
    BY <1>3, <2>1, <2>2, PhaseFacts, RowFacts, Wider DEF PhaseNames
<1>4. CASE k = 4
  <2>1. o = <<AdminEmail>>
    BY <1>4, PhaseFacts DEF OrdersOf
  <2>2. o \in Seq({AdminEmail}) /\ ToSet(o) = {AdminEmail}
    BY <2>1 DEF ToSet
  <2> QED
    BY <1>4, <2>2, PhaseFacts, RowFacts, Wider DEF PhaseNames
<1> QED
  BY <1>1, <1>2, <1>3, <1>4

-----------------------------------------------------------------------------
(* What a step does to an instance that runs, and how an instance ends *)

RunsOn(i, n) ==
  /\ Set(i, n) /\ n \in Instance /\ ServerOK(n)
  /\ inst[i].pc \in Running /\ n.pc \in Running
  /\ n.end = inst[i].end /\ n.overlapped = inst[i].overlapped
  /\ n.pc = "close" /\ ~n.expired =>
       Handling(i) = {} \/ (inst[i].pc = "close" /\ ~inst[i].expired)
  /\ \/ call' = call
     \/ call' = Cut(Handling(i)) /\ n.expired
     \/ call' = Cut({c \in Handling(i) : call[c].via = "http"})
  /\ UNCHANGED <<deployment, database, starts>>

Dies(i, end) ==
  /\ Exit(i, end) /\ end \in Ends
  /\ end \in {"failed", "ended"} \/ InFlight(i) = {} \/ inst[i].expired
  /\ end = "conflict" => inst[i].overlapped \/ deleted
  /\ UNCHANGED <<deployment, database, starts>>

Effect(i) == (\E n \in Instance : RunsOn(i, n)) \/ (\E end \in Ends : Dies(i, end))

LEMMA Fails == ASSUME NEW i, Exit(i, "failed"), UNCHANGED <<deployment, database, starts>> PROVE Effect(i)
BY DEF Effect, Dies, Ends

LEMMA IsEnded == ASSUME NEW i, Exit(i, "ended"), UNCHANGED <<deployment, database, starts>> PROVE Effect(i)
BY DEF Effect, Dies, Ends

LEMMA InstanceFields ==
  ASSUME TypeInv, NEW i \in Instances
  PROVE  /\ inst[i] \in Instance /\ ServerOK(inst[i])
         /\ inst[i].pc \in PC /\ inst[i].errCh \in 0..3 /\ inst[i].phase \in 1..4
         /\ inst[i].left \in Seq(AllRows)
<1>1. inst[i] \in Instance /\ ServerOK(inst[i])
  BY DEF TypeInv
<1> QED
  BY <1>1, PhaseFacts DEF Instance

\* A record that differs from inst[i] only where its goroutines are concerned.
LEMMA RunRecord ==
  ASSUME TypeInv, NEW i \in Instances, NEW n, Set(i, n), DOMAIN n = DOMAIN inst[i],
         n = [inst[i] EXCEPT !.pc = n.pc, !.grpc = n.grpc, !.http = n.http, !.conn = n.conn,
                             !.worker = n.worker, !.signalled = n.signalled,
                             !.errCh = n.errCh, !.expired = n.expired],
         inst[i].pc \in Running, n.pc \in Running, ServerOK(n),
         n.grpc \in Server, n.http \in Server, n.conn \in {"off", "open", "closed"},
         n.worker \in {"off", "running", "ended"}, n.signalled \in BOOLEAN, n.expired \in BOOLEAN,
         n.pc = "close" /\ ~n.expired =>
           Handling(i) = {} \/ (inst[i].pc = "close" /\ ~inst[i].expired),
         \/ call' = call
         \/ call' = Cut(Handling(i)) /\ n.expired
         \/ call' = Cut({c \in Handling(i) : call[c].via = "http"}),
         UNCHANGED <<deployment, database, starts>>
  PROVE  Effect(i)
<1>1. inst[i] \in Instance
  BY InstanceFields
<1>2. n.errCh \in 0..3
  BY DEF ServerOK, Bit
<1>3. n.pc \in PC
  BY DEF PC
<1>4. n \in Instance
  BY <1>1, <1>2, <1>3 DEF Instance
<1>5. n.end = inst[i].end /\ n.overlapped = inst[i].overlapped
  BY <1>1 DEF Instance
<1> QED
  BY <1>4, <1>5 DEF Effect, RunsOn

LEMMA ServesGRPC == ASSUME TypeInv, NEW i \in Instances, Serve(i, "grpc") PROVE Effect(i)
<1> USE DEF Server, Running
<1>0. /\ inst[i] \in Instance /\ ServerOK(inst[i]) /\ inst[i].errCh \in 0..3
      /\ inst[i].pc \in Running /\ inst[i].grpc = "off"
      /\ UNCHANGED <<deployment, database, starts>>
  BY InstanceFields DEF Serve
<1>1. CASE Set(i, [inst[i] EXCEPT !.grpc = "serving"]) /\ UNCHANGED call
  <2> DEFINE n == [inst[i] EXCEPT !.grpc = "serving"]
  <2>1. ServerOK(n)
    BY <1>0 DEF ServerOK, Bit, Instance
  <2> QED
    BY <1>0, <1>1, <2>1, RunRecord DEF Instance
<1>2. CASE Send(i, [inst[i] EXCEPT !.grpc = "closed"])
  <2>1. CASE inst[i].pc = "select"
    BY <1>0, <1>2, <2>1, IsEnded DEF Send
  <2>2. CASE inst[i].pc # "select"
    <3> DEFINE n == [inst[i] EXCEPT !.grpc = "closed", !.errCh = @ + 1]
    <3>1. Set(i, n) /\ UNCHANGED call
      BY <1>0, <1>2, <2>2 DEF Send, Set, Instance
    <3>2. ServerOK(n)
      BY <1>0 DEF ServerOK, Bit, Instance
    <3> QED
      BY <1>0, <3>1, <3>2, RunRecord DEF Instance
  <2> QED
    BY <2>1, <2>2
<1> QED
  BY <1>1, <1>2 DEF Serve

LEMMA ServesHTTP == ASSUME TypeInv, NEW i \in Instances, Serve(i, "http") PROVE Effect(i)
<1> USE DEF Server, Running
<1>0. /\ inst[i] \in Instance /\ ServerOK(inst[i]) /\ inst[i].errCh \in 0..3
      /\ inst[i].pc \in Running /\ inst[i].http = "off"
      /\ UNCHANGED <<deployment, database, starts>>
  BY InstanceFields DEF Serve
<1>1. CASE Set(i, [inst[i] EXCEPT !.http = "serving"]) /\ UNCHANGED call
  <2> DEFINE n == [inst[i] EXCEPT !.http = "serving"]
  <2>1. ServerOK(n)
    BY <1>0 DEF ServerOK, Bit, Instance
  <2> QED
    BY <1>0, <1>1, <2>1, RunRecord DEF Instance
<1>2. CASE Send(i, [inst[i] EXCEPT !.http = "closed"])
  <2>1. CASE inst[i].pc = "select"
    BY <1>0, <1>2, <2>1, IsEnded DEF Send
  <2>2. CASE inst[i].pc # "select"
    <3> DEFINE n == [inst[i] EXCEPT !.http = "closed", !.errCh = @ + 1]
    <3>1. Set(i, n) /\ UNCHANGED call
      BY <1>0, <1>2, <2>2 DEF Send, Set, Instance
    <3>2. ServerOK(n)
      BY <1>0 DEF ServerOK, Bit, Instance
    <3> QED
      BY <1>0, <3>1, <3>2, RunRecord DEF Instance
  <2> QED
    BY <2>1, <2>2
<1> QED
  BY <1>1, <1>2 DEF Serve

LEMMA WorkerRuns == ASSUME TypeInv, NEW i \in Instances, WorkerRun(i) PROVE Effect(i)
<1> USE DEF Server, Running
<1>0. /\ inst[i] \in Instance /\ ServerOK(inst[i])
      /\ inst[i].pc \in Running /\ inst[i].worker = "off"
      /\ UNCHANGED <<deployment, database, starts>>
  BY InstanceFields DEF WorkerRun
<1> DEFINE n == [inst[i] EXCEPT !.worker = "running"]
<1>1. ServerOK(n)
  BY <1>0 DEF ServerOK, Bit, Instance
<1>2. CASE Set(i, n) /\ UNCHANGED call
  BY <1>0, <1>1, <1>2, RunRecord DEF Instance
<1> QED
  BY <1>0, <1>2, Fails DEF WorkerRun

LEMMA WorkerEnds == ASSUME TypeInv, NEW i \in Instances, WorkerEnd(i) PROVE Effect(i)
<1> USE DEF Server, Running
<1>0. /\ inst[i] \in Instance /\ ServerOK(inst[i]) /\ inst[i].errCh \in 0..3
      /\ inst[i].pc \in Running /\ inst[i].worker = "running"
      /\ UNCHANGED <<deployment, database, starts>>
  BY InstanceFields DEF WorkerEnd
<1>1. CASE inst[i].pc = "select"
  BY <1>0, <1>1, IsEnded DEF WorkerEnd, Send
<1>2. CASE inst[i].pc # "select"
  <2> DEFINE n == [inst[i] EXCEPT !.worker = "ended", !.errCh = @ + 1]
  <2>1. Set(i, n) /\ UNCHANGED call
    BY <1>0, <1>2 DEF WorkerEnd, Send, Set, Instance
  <2>2. ServerOK(n)
    BY <1>0 DEF ServerOK, Bit, Instance
  <2> QED
    BY <1>0, <2>1, <2>2, RunRecord DEF Instance
<1> QED
  BY <1>1, <1>2

LEMMA Signals == ASSUME TypeInv, NEW i \in Instances, Signal(i) PROVE Effect(i)
<1> USE DEF Server, Running
<1>0. /\ inst[i] \in Instance /\ ServerOK(inst[i]) /\ inst[i].pc \in PC \ {"down"}
      /\ UNCHANGED <<deployment, database, starts>>
  BY InstanceFields DEF Signal
<1>1. CASE inst[i].pc \in Starting
  <2>1. Exit(i, "failed")
    BY <1>1 DEF Signal, Starting
  <2> QED
    BY <1>0, <2>1, Fails
<1>2. CASE inst[i].pc = "select"
  <2> DEFINE n == [inst[i] EXCEPT !.pc = "drain", !.signalled = TRUE]
  <2>1. Set(i, n) /\ UNCHANGED call
    BY <1>2 DEF Signal, Starting
  <2>2. ServerOK(n)
    BY <1>0, <1>2 DEF ServerOK, Bit, Instance
  <2> QED
    BY <1>0, <1>2, <2>1, <2>2, RunRecord DEF Instance
<1>3. CASE inst[i].pc \notin Starting \cup {"select"}
  <2> DEFINE n == [inst[i] EXCEPT !.signalled = TRUE]
  <2>1. Set(i, n) /\ UNCHANGED call
    BY <1>3 DEF Signal
  <2>2. ServerOK(n)
    BY <1>0 DEF ServerOK, Bit, Instance
  <2>3. inst[i].pc \in Running
    BY <1>0, <1>3 DEF PC
  <2> QED
    BY <1>0, <2>1, <2>2, <2>3, RunRecord DEF Instance
<1> QED
  BY <1>1, <1>2, <1>3

LEMMA Selects == ASSUME TypeInv, NEW i \in Instances, Select(i) PROVE Effect(i)
<1> USE DEF Server, Running
<1>0. /\ inst[i] \in Instance /\ ServerOK(inst[i]) /\ inst[i].pc = "launch"
      /\ UNCHANGED <<deployment, database, starts>>
  BY InstanceFields DEF Select
<1>1. ASSUME NEW p \in {"drain", "select"}, GoTo(i, p), UNCHANGED call PROVE Effect(i)
  <2> DEFINE n == [inst[i] EXCEPT !.pc = p]
  <2>1. Set(i, n)
    BY <1>1 DEF GoTo, Set
  <2>2. ServerOK(n)
    BY <1>0 DEF ServerOK, Bit, Instance
  <2> QED
    BY <1>0, <1>1, <2>1, <2>2, RunRecord DEF Instance
<1> QED
  BY <1>0, <1>1, IsEnded DEF Select

LEMMA GracefulStops == ASSUME TypeInv, NEW i \in Instances, GracefulStop(i) PROVE Effect(i)
<1> USE DEF Server, Running
<1>0. /\ inst[i] \in Instance /\ ServerOK(inst[i]) /\ inst[i].errCh \in 0..3
      /\ inst[i].pc = "drain" /\ inst[i].grpc # "closed"
  BY InstanceFields DEF GracefulStop
<1> DEFINE n == [inst[i] EXCEPT !.grpc = "closed", !.errCh = @ + 1]
<1>1. Set(i, n) /\ UNCHANGED <<deployment, database, starts, call>>
  BY DEF GracefulStop
<1>2. ServerOK(n)
  BY <1>0 DEF ServerOK, Bit, Instance
<1> QED
  BY <1>0, <1>1, <1>2, RunRecord DEF Instance

LEMMA Drains == ASSUME TypeInv, NEW i \in Instances, Drained(i) PROVE Effect(i)
<1> USE DEF Server, Running
<1>0. /\ inst[i] \in Instance /\ ServerOK(inst[i])
      /\ inst[i].pc = "drain" /\ inst[i].grpc = "closed" /\ Handling(i) = {}
  BY InstanceFields DEF Drained
<1> DEFINE n == [inst[i] EXCEPT !.pc = "close"]
<1>1. Set(i, n) /\ UNCHANGED <<deployment, database, starts, call>>
  BY DEF Drained, GoTo, Set
<1>2. ServerOK(n)
  BY <1>0 DEF ServerOK, Bit, Instance
<1> QED
  BY <1>0, <1>1, <1>2, RunRecord DEF Instance

LEMMA Expires == ASSUME TypeInv, NEW i \in Instances, Deadline(i) PROVE Effect(i)
<1> USE DEF Server, Running
<1>0. /\ inst[i] \in Instance /\ ServerOK(inst[i]) /\ inst[i].errCh \in 0..3
      /\ inst[i].pc \in {"drain", "close"} /\ ~inst[i].expired
  BY InstanceFields DEF Deadline
<1> DEFINE e == IF inst[i].grpc = "closed" THEN inst[i].errCh ELSE inst[i].errCh + 1
           n == [inst[i] EXCEPT !.expired = TRUE, !.pc = "close", !.grpc = "closed", !.errCh = e]
<1>1. Set(i, n) /\ call' = Cut(Handling(i)) /\ UNCHANGED <<deployment, database, starts>>
  BY <1>0 DEF Deadline, Set, Instance
<1>2. ServerOK(n)
  BY <1>0 DEF ServerOK, Bit, Instance
<1>3. e \in 0..3
  BY <1>0 DEF ServerOK, Bit
<1> HIDE DEF e
<1>4. /\ n \in Instance /\ n.expired = TRUE /\ n.pc = "close"
      /\ n.end = inst[i].end /\ n.overlapped = inst[i].overlapped
  BY <1>0, <1>3 DEF Instance, PC
<1> HIDE DEF n
<1> QED
  BY <1>0, <1>1, <1>2, <1>4 DEF Effect, RunsOn

LEMMA ConnCloses == ASSUME TypeInv, NEW i \in Instances, CloseConn(i) PROVE Effect(i)
<1> USE DEF Server, Running
<1>0. /\ inst[i] \in Instance /\ ServerOK(inst[i]) /\ inst[i].pc \in Running
  BY InstanceFields DEF CloseConn
<1> DEFINE n == [inst[i] EXCEPT !.conn = "closed"]
<1>1. /\ Set(i, n) /\ call' = Cut({c \in Handling(i) : call[c].via = "http"})
      /\ UNCHANGED <<deployment, database, starts>>
  BY DEF CloseConn
<1>2. ServerOK(n)
  BY <1>0 DEF ServerOK, Bit, Instance
<1> QED
  BY <1>0, <1>1, <1>2, RunRecord DEF Instance

\* Shutdown ends without its deadline only when no request is left: the handlers
\* had returned before, and it waits for those of the gateway.
LEMMA HTTPCloses == ASSUME TypeInv, CallInv, NEW i \in Instances, CloseHTTP(i) PROVE Effect(i)
<1> USE DEF Server, Running
<1>0. /\ inst[i] \in Instance /\ ServerOK(inst[i]) /\ inst[i].errCh \in 0..3
      /\ inst[i].pc = "close" /\ UNCHANGED <<deployment, database, starts>>
  BY InstanceFields DEF CloseHTTP
<1>1. CASE /\ inst[i].http # "closed"
           /\ Set(i, [inst[i] EXCEPT !.http = "closed", !.errCh = @ + 1]) /\ UNCHANGED call
  <2> DEFINE n == [inst[i] EXCEPT !.http = "closed", !.errCh = @ + 1]
  <2>1. ServerOK(n)
    BY <1>0, <1>1 DEF ServerOK, Bit, Instance
  <2> QED
    BY <1>0, <1>1, <2>1, RunRecord DEF Instance
<1>2. CASE {c \in InFlight(i) : call[c].via = "http"} = {} /\ Exit(i, "graceful")
  <2>1. CASE inst[i].expired
    BY <1>0, <1>2, <2>1 DEF Effect, Dies, Ends
  <2>2. CASE ~inst[i].expired
    <3>1. ASSUME NEW c \in InFlight(i) PROVE FALSE
      <4>1. /\ c \in Calls /\ call[c].at = i /\ call[c].pc # "over" /\ call[c].via # "http"
            /\ CallOK(call[c]) /\ PlaceOK(call[c], inst[i]) /\ call[c] \in Request
        BY <1>2, <3>1 DEF InFlight, CallInv, TypeInv
      <4>2. call[c].pc = "rpc"
        BY <4>1, NoneAssumption DEF CallOK, Request
      <4> QED
        BY <1>0, <2>2, <4>1, <4>2 DEF CallOK, PlaceOK
    <3> QED
      BY <1>0, <1>2, <3>1 DEF Effect, Dies, Ends
  <2> QED
    BY <2>1, <2>2
<1>3. CASE inst[i].expired /\ Exit(i, "deadline")
  BY <1>0, <1>3 DEF Effect, Dies, Ends
<1> QED
  BY <1>1, <1>2, <1>3 DEF CloseHTTP

-----------------------------------------------------------------------------
(* What these do to the invariants *)

LEMMA SetFacts ==
  ASSUME TypeInv, NEW i \in Instances, NEW n \in Instance, Set(i, n)
  PROVE  /\ inst' \in [Instances -> Instance] /\ inst'[i] = n
         /\ \A j \in Instances \ {i} : inst'[j] = inst[j]
BY DEF TypeInv, Set

LEMMA DownFacts ==
  ASSUME NEW end \in Ends, NEW b \in BOOLEAN
  PROVE  LET n == [Down(end) EXCEPT !.overlapped = b] IN
         /\ Down(end) \in Instance /\ n \in Instance /\ ServerOK(n)
         /\ n.pc = "down" /\ n.end = end /\ n.overlapped = b
<1> DEFINE n == [Down(end) EXCEPT !.overlapped = b]
<1>1. /\ n.pc = "down" /\ n.end = end /\ n.overlapped = b
      /\ n.grpc = "off" /\ n.http = "off" /\ n.worker = "off" /\ n.errCh = 0 /\ n.expired = FALSE
  BY DEF Down
<1>2. Down(end) \in Instance /\ n \in Instance
  <2>1. <<>> \in Seq(AllRows) /\ 1 \in 1..Len(Phases) /\ 0 \in 0..3
    BY PhaseFacts
  <2>2. Down(end) \in Instance
    BY <2>1 DEF Down, Instance, PC, Server
  <2> QED
    BY <2>2 DEF Instance
<1>3. ServerOK(n)
  BY <1>1 DEF ServerOK, Bit
<1> QED
  BY <1>1, <1>2, <1>3

LEMMA CutFacts ==
  ASSUME TypeInv, CallInv, NEW C, NEW c \in Calls
  PROVE  /\ Cut(C)[c] \in Request /\ CallOK(Cut(C)[c])
         /\ Cut(C)[c].at = call[c].at /\ Cut(C)[c].handler = call[c].handler
         /\ call[c].pc = "over" => Cut(C)[c].pc = "over"
         /\ Cut(C)[c].result = "cut" /\ call[c].pc # "over" => c \in C /\ call[c].via = "grpc"
<1>0. call[c] \in Request /\ CallOK(call[c])
  BY DEF TypeInv, CallInv
<1>1. CASE c \in C /\ call[c].pc = "rpc" /\ call[c].via = "grpc"
  <2>1. Cut(C)[c] = [call[c] EXCEPT !.pc = "over", !.result = "cut"]
    BY <1>1 DEF Cut
  <2> QED
    BY <1>0, <1>1, <2>1 DEF CallOK, Request
<1>2. CASE c \in C /\ call[c].pc = "rpc" /\ call[c].via = "http"
  <2>1. Cut(C)[c] = [call[c] EXCEPT !.pc = "reply", !.result = "refused"]
    BY <1>2 DEF Cut
  <2> QED
    BY <1>0, <1>2, <2>1 DEF CallOK, Request
<1>3. CASE ~(c \in C /\ call[c].pc = "rpc" /\ call[c].via \in {"grpc", "http"})
  <2>1. Cut(C)[c] = call[c]
    BY <1>3 DEF Cut
  <2> QED
    BY <1>0, <2>1 DEF CallOK
<1> QED
  BY <1>1, <1>2, <1>3

\* A step that changes nothing but the place of instances in their program.
LEMMA CallsRest ==
  ASSUME CallInv, UNCHANGED call,
         \A j \in Instances :
           \/ inst'[j].pc = inst[j].pc /\ inst'[j].expired = inst[j].expired
           \/ inst[j].pc \notin Running /\ inst'[j].pc # "close"
  PROVE  CallInv'
<1>1. ASSUME NEW c \in Calls, NEW j \in Instances, call[c].at = j
      PROVE  PlaceOK(call[c], inst'[j])
  BY <1>1 DEF CallInv, PlaceOK, Running
<1> QED
  BY <1>1 DEF CallInv, CallOK, PlaceOK

LEMMA RunsOnStep ==
  ASSUME IInv, NEW i \in Instances, NEW n \in Instance, RunsOn(i, n)
  PROVE  IInv'
<1>0. TypeInv /\ SeedInv /\ LoneInv /\ CallInv
  BY DEF IInv
<1>1. /\ inst' \in [Instances -> Instance] /\ inst'[i] = n
      /\ \A j \in Instances \ {i} : inst'[j] = inst[j]
  BY <1>0, SetFacts DEF RunsOn
<1>2. /\ deployment' = deployment /\ rows' = rows /\ deleted' = deleted /\ starts' = starts
      /\ ServerOK(n) /\ n.pc \in Running /\ inst[i].pc \in Running
      /\ n.end = inst[i].end /\ n.overlapped = inst[i].overlapped
      /\ n.pc = "close" /\ ~n.expired =>
           Handling(i) = {} \/ (inst[i].pc = "close" /\ ~inst[i].expired)
  BY DEF RunsOn, database
<1>3. \A c \in Calls : /\ call'[c] \in Request /\ CallOK(call'[c])
                       /\ call'[c].at = call[c].at /\ call'[c].handler = call[c].handler
                       /\ call[c].pc = "over" => call'[c].pc = "over"
  BY <1>0, CutFacts DEF RunsOn, CallInv, TypeInv
<1>4. call' \in [Calls -> Request]
  <2>1. call' = [c \in Calls |-> call'[c]]
    BY <1>0 DEF RunsOn, Cut, TypeInv
  <2> QED
    BY <1>3, <2>1
<1>5. TypeInv'
  BY <1>0, <1>1, <1>2, <1>4 DEF TypeInv, ServerOK, Bit
<1>6. SeedInv'
  <2>1. Load' = Load
    BY <1>2 DEF Load, GetEnv
  <2>2. SeedOK(n, rows)
    BY <1>0, <1>2 DEF SeedInv, SeedOK, Running
  <2>3. \A j \in Instances : SeedOK(inst'[j], rows)
    BY <1>0, <1>1, <2>2 DEF SeedInv
  <2> QED
    BY <1>2, <2>1, <2>3 DEF SeedInv, SeedOK
<1>7. LoneInv'
  <2>1. \A j \in Instances : LoneOK(inst'[j], rows, deleted)
    BY <1>0, <1>1, <1>2 DEF LoneInv, LoneOK, Running
  <2>2. ASSUME NEW j \in Instances, NEW k \in Instances, j # k,
               inst'[j].pc \in {"seed", "create"}, inst'[k].pc \in {"seed", "create"}
        PROVE  inst'[j].overlapped
    BY <1>0, <1>1, <1>2, <2>2 DEF LoneInv, Seeding, Running
  <2> QED
    BY <1>2, <2>1, <2>2 DEF LoneInv, LoneOK, Seeding
<1>8. CallInv'
  <2>1. ASSUME NEW c \in Calls, NEW j \in Instances, call'[c].at = j
        PROVE  PlaceOK(call'[c], inst'[j])
    <3>1. PlaceOK(call[c], inst[j])
      BY <1>0, <1>3, <2>1 DEF CallInv
    <3>2. CASE j # i
      BY <1>1, <1>3, <3>1, <3>2 DEF PlaceOK
    <3>3. CASE j = i
      <4>1. n.pc = "close" /\ ~n.expired => ~call[c].handler
        BY <1>2, <1>3, <2>1, <3>1, <3>3 DEF Handling, PlaceOK
      <4> QED
        BY <1>1, <1>2, <1>3, <3>3, <4>1 DEF PlaceOK
    <3> QED
      BY <3>2, <3>3
  <2> QED
    BY <1>3, <2>1 DEF CallInv, CallOK, PlaceOK
<1> QED
  BY <1>5, <1>6, <1>7, <1>8 DEF IInv

LEMMA DiesStep ==
  ASSUME IInv, NEW i \in Instances, NEW end \in Ends, Dies(i, end)
  PROVE  IInv'
<1>0. TypeInv /\ SeedInv /\ LoneInv /\ CallInv
  BY DEF IInv
<1> DEFINE b == inst[i].overlapped
           n == [Down(end) EXCEPT !.overlapped = b]
<1>b. b \in BOOLEAN
  BY <1>0, InstanceFields DEF Instance
<1>n. n \in Instance /\ ServerOK(n) /\ n.pc = "down" /\ n.end = end /\ n.overlapped = b
  BY <1>b, DownFacts
<1>s. Set(i, n)
  BY DEF Dies, Exit, Set
<1> HIDE DEF n
<1>1. /\ inst' \in [Instances -> Instance] /\ inst'[i] = n
      /\ \A j \in Instances \ {i} : inst'[j] = inst[j]
  BY <1>0, <1>n, <1>s, SetFacts
<1>2. /\ deployment' = deployment /\ rows' = rows /\ deleted' = deleted /\ starts' = starts
      /\ end = "conflict" => b \/ deleted
  BY DEF Dies, database
<1>3. ASSUME NEW c \in Calls
      PROVE  /\ call'[c] \in Request /\ CallOK(call'[c])
             /\ call'[c].at = call[c].at
             /\ call[c].at = i => call'[c].pc = "over" /\ ~call'[c].handler
             /\ call[c].at # i => call'[c] = call[c]
  <2>0. call[c] \in Request /\ CallOK(call[c])
    BY <1>0 DEF TypeInv, CallInv
  <2>1. CASE call[c].at = i /\ call[c].pc # "over"
    <3>1. call'[c] = [call[c] EXCEPT !.pc = "over", !.handler = FALSE, !.result = "cut"]
      BY <2>1 DEF Dies, Exit, InFlight
    <3> QED
      BY <2>0, <2>1, <3>1 DEF CallOK, Request
  <2>2. CASE call[c].at = i /\ call[c].pc = "over"
    <3>1. call'[c] = [call[c] EXCEPT !.handler = FALSE]
      BY <2>2 DEF Dies, Exit, InFlight
    <3> QED
      BY <2>0, <2>2, <3>1 DEF CallOK, Request
  <2>3. CASE call[c].at # i
    <3>1. call'[c] = call[c]
      BY <2>3 DEF Dies, Exit, InFlight
    <3> QED
      BY <2>0, <2>3, <3>1
  <2> QED
    BY <2>1, <2>2, <2>3
<1>4. call' \in [Calls -> Request]
  <2>1. call' = [c \in Calls |-> call'[c]]
    BY DEF Dies, Exit
  <2> QED
    BY <1>3, <2>1
<1>5. TypeInv'
  BY <1>0, <1>1, <1>2, <1>4, <1>n DEF TypeInv, ServerOK, Bit
<1>6. SeedInv'
  <2>1. Load' = Load
    BY <1>2 DEF Load, GetEnv
  <2>2. SeedOK(n, rows)
    BY <1>n DEF SeedOK, Running
  <2>3. \A j \in Instances : SeedOK(inst'[j], rows)
    BY <1>0, <1>1, <2>2 DEF SeedInv
  <2> QED
    BY <1>2, <2>1, <2>3 DEF SeedInv, SeedOK
<1>7. LoneInv'
  <2>1. \A j \in Instances : LoneOK(inst'[j], rows, deleted)
    BY <1>0, <1>1, <1>2, <1>n DEF LoneInv, LoneOK
  <2>2. ASSUME NEW j \in Instances, NEW k \in Instances, j # k,
               inst'[j].pc \in {"seed", "create"}, inst'[k].pc \in {"seed", "create"}
        PROVE  inst'[j].overlapped
    BY <1>0, <1>1, <1>n, <2>2 DEF LoneInv, Seeding
  <2> QED
    BY <1>2, <2>1, <2>2 DEF LoneInv, LoneOK, Seeding
<1>8. CallInv'
  <2>1. ASSUME NEW c \in Calls, NEW j \in Instances, call'[c].at = j
        PROVE  PlaceOK(call'[c], inst'[j])
    BY <1>0, <1>1, <1>3, <1>n, <2>1 DEF CallInv, PlaceOK
  <2> QED
    BY <1>3, <2>1 DEF CallInv, CallOK, PlaceOK
<1> QED
  BY <1>5, <1>6, <1>7, <1>8 DEF IInv

LEMMA EffectStep == ASSUME IInv, NEW i \in Instances, Effect(i) PROVE IInv'
BY RunsOnStep, DiesStep DEF Effect

-----------------------------------------------------------------------------
(* New *)

\* Rows are only added: what held of an instance that seeds or runs still does.
LEMMA SeedsStay ==
  ASSUME TypeInv, SeedInv, NEW j \in Instances, NEW r \in Instance, r.pc = inst[j].pc,
         r.phase = inst[j].phase, r.left = inst[j].left,
         NEW db \in [PhaseNames -> SUBSET AllRows],
         \A p \in PhaseNames : rows[p] \subseteq db[p] /\ db[p] \subseteq RowsOf[p]
  PROVE  SeedOK(r, db)
<1>0. SeedOK(inst[j], rows) /\ r.phase \in 1..4
  BY PhaseFacts DEF SeedInv, Instance
<1>1. \A k \in 1..4 : Phases[k] \in PhaseNames /\ rows[Phases[k]] \subseteq db[Phases[k]]
  <2>1. \A k \in 1..4 : Phases[k] \in PhaseNames
    BY PhaseFacts DEF PhaseNames
  <2> QED
    BY <2>1
<1>2. rows = RowsOf => db = RowsOf
  <2> SUFFICES ASSUME rows = RowsOf PROVE db = RowsOf
    OBVIOUS
  <2>1. \A p \in PhaseNames : db[p] = rows[p]
    OBVIOUS
  <2>2. rows = [p \in PhaseNames |-> rows[p]] /\ db = [p \in PhaseNames |-> db[p]]
    BY DEF TypeInv
  <2> QED
    BY <2>1, <2>2
<1> QED
  BY <1>0, <1>1, <1>2 DEF SeedOK

StartsOn(i, n) ==
  /\ Set(i, n) /\ n \in Instance /\ ServerOK(n)
  /\ inst[i].pc \notin Running /\ n.pc # "close"
  /\ UNCHANGED <<deployment, deleted, call>>
  /\ rows' \in [PhaseNames -> SUBSET AllRows]
  /\ \A p \in PhaseNames : rows[p] \subseteq rows'[p] /\ rows'[p] \subseteq RowsOf[p]
  /\ starts' \in [Instances -> Nat] /\ \A j \in Instances : starts'[j] <= deployment.starts[j]
  /\ SeedOK(n, rows') /\ LoneOK(n, rows', deleted)
  /\ n.pc \in {"seed", "create"} => Seeding(i) /\ n.overlapped = inst[i].overlapped
  /\ Seeding(i) \/ rows' = rows

LEMMA StartsOnStep ==
  ASSUME IInv, NEW i \in Instances, NEW n \in Instance, StartsOn(i, n)
  PROVE  IInv'
<1>0. TypeInv /\ SeedInv /\ LoneInv /\ CallInv
  BY DEF IInv
<1>1. /\ inst' \in [Instances -> Instance] /\ inst'[i] = n
      /\ \A j \in Instances \ {i} : inst'[j] = inst[j]
  BY <1>0, SetFacts DEF StartsOn
<1>2. /\ deployment' = deployment /\ deleted' = deleted /\ call' = call
  BY DEF StartsOn
<1>5. TypeInv'
  BY <1>0, <1>1, <1>2 DEF TypeInv, ServerOK, Bit, StartsOn
<1>6. SeedInv'
  <2>1. Load' = Load
    BY <1>2 DEF Load, GetEnv
  <2>2. ASSUME NEW j \in Instances, j # i PROVE SeedOK(inst'[j], rows')
    <3>1. inst'[j] = inst[j] /\ inst[j] \in Instance
      BY <1>0, <1>1, <2>2 DEF TypeInv
    <3> QED
      BY <1>0, <3>1, SeedsStay DEF StartsOn
  <2>3. \A j \in Instances : SeedOK(inst'[j], rows')
    BY <1>1, <2>2 DEF StartsOn
  <2> QED
    BY <2>1, <2>3 DEF SeedInv, SeedOK
<1>7. LoneInv'
  <2>1. ASSUME NEW j \in Instances, j # i PROVE LoneOK(inst'[j], rows', deleted)
    <3>1. inst'[j] = inst[j] /\ LoneOK(inst[j], rows, deleted)
      BY <1>0, <1>1, <2>1 DEF LoneInv
    <3>2. Seeding(i) /\ inst[j].pc = "create" => inst[j].overlapped
      BY <1>0, <2>1 DEF LoneInv, Seeding
    <3> QED
      BY <3>1, <3>2 DEF LoneOK, StartsOn
  <2>2. ASSUME NEW j \in Instances, NEW k \in Instances, j # k,
               inst'[j].pc \in {"seed", "create"}, inst'[k].pc \in {"seed", "create"}
        PROVE  inst'[j].overlapped
    BY <1>0, <1>1, <2>2 DEF LoneInv, Seeding, StartsOn
  <2>3. \A j \in Instances : LoneOK(inst'[j], rows', deleted)
    BY <1>1, <2>1 DEF StartsOn
  <2> QED
    BY <1>2, <2>2, <2>3 DEF LoneInv, LoneOK, Seeding
<1>8. CallInv'
  BY <1>0, <1>1, <1>2, CallsRest DEF StartsOn
<1> QED
  BY <1>5, <1>6, <1>7, <1>8 DEF IInv

\* The rows stay what they are.
LEMMA SameRows ==
  ASSUME TypeInv, UNCHANGED rows
  PROVE  /\ rows' \in [PhaseNames -> SUBSET AllRows]
         /\ \A p \in PhaseNames : rows[p] \subseteq rows'[p] /\ rows'[p] \subseteq RowsOf[p]
BY DEF TypeInv

LEMMA SameStarts ==
  ASSUME TypeInv, UNCHANGED <<deployment, starts>>
  PROVE  starts' \in [Instances -> Nat] /\ \A j \in Instances : starts'[j] <= deployment.starts[j]
BY DEF TypeInv

LEMMA Starts == ASSUME IInv, NEW i \in Instances, Start(i) PROVE IInv'
<1>0. TypeInv /\ inst[i].pc = "down"
  BY DEF IInv, Start
<1> DEFINE n == [Down(None) EXCEPT !.pc = "config"]
<1>1. /\ n.pc = "config" /\ n.phase = 1 /\ n.end = None
      /\ n.grpc = "off" /\ n.http = "off" /\ n.worker = "off" /\ n.errCh = 0 /\ n.expired = FALSE
  BY DEF Down
<1>2. n \in Instance
  <2>1. Down(None) \in Instance /\ "config" \in PC
    BY DownFacts DEF Ends, PC, Starting
  <2> QED
    BY <2>1 DEF Instance
<1>3. Set(i, n)
  BY DEF Start
<1> HIDE DEF n
<1>4. ServerOK(n) /\ SeedOK(n, rows) /\ LoneOK(n, rows, deleted)
  BY <1>1, NoneAssumption DEF ServerOK, Bit, SeedOK, LoneOK, Running
<1>5. starts' \in [Instances -> Nat] /\ \A j \in Instances : starts'[j] <= deployment.starts[j]
  <2>1. /\ starts \in [Instances -> Nat] /\ \A j \in Instances : starts[j] <= deployment.starts[j]
        /\ deployment.starts \in [Instances -> Nat] /\ starts[i] < deployment.starts[i]
        /\ starts' = [starts EXCEPT ![i] = starts[i] + 1]
    BY <1>0, DeploymentAssumption DEF TypeInv, Start
  <2> QED
    BY <2>1
<1>6. UNCHANGED <<deployment, rows, deleted, call>>
  BY DEF Start, database
<1>7. StartsOn(i, n)
  BY <1>0, <1>1, <1>2, <1>3, <1>4, <1>5, <1>6, SameRows DEF StartsOn, Running
<1> QED
  BY <1>2, <1>7, StartsOnStep

LEMMA LoadsConfig == ASSUME IInv, NEW i \in Instances, LoadConfig(i) PROVE IInv'
<1>0. /\ TypeInv /\ inst[i].pc = "config" /\ UNCHANGED <<deployment, database, starts>>
      /\ inst[i] \in Instance /\ ServerOK(inst[i])
      /\ SeedOK(inst[i], rows) /\ LoneOK(inst[i], rows, deleted)
  BY InstanceFields DEF IInv, LoadConfig, SeedInv, LoneInv
<1>1. CASE Exit(i, "failed")
  BY <1>0, <1>1, Fails, EffectStep
<1>2. CASE GoTo(i, "connect") /\ UNCHANGED call
  <2> DEFINE n == [inst[i] EXCEPT !.pc = "connect"]
  <2>1. Set(i, n)
    BY <1>2 DEF GoTo, Set
  <2>2. /\ n \in Instance /\ n.pc = "connect" /\ n.phase = inst[i].phase /\ n.end = inst[i].end
        /\ n.grpc = inst[i].grpc /\ n.http = inst[i].http /\ n.worker = inst[i].worker
        /\ n.errCh = inst[i].errCh /\ n.expired = inst[i].expired
    BY <1>0 DEF Instance, PC, Starting
  <2> HIDE DEF n
  <2>3. ServerOK(n) /\ SeedOK(n, rows) /\ LoneOK(n, rows, deleted)
    BY <1>0, <2>2 DEF ServerOK, Bit, SeedOK, LoneOK, Running
  <2>4. StartsOn(i, n)
    BY <1>0, <1>2, <2>1, <2>2, <2>3, SameRows, SameStarts DEF StartsOn, Running, database
  <2> QED
    BY <2>2, <2>4, StartsOnStep
<1> QED
  BY <1>1, <1>2 DEF LoadConfig

LEMMA Launches ==
  ASSUME IInv, NEW i \in Instances, inst[i].pc \in {"connect", "seed"}, Launch(i),
         Load.Env = "development" => rows = RowsOf,
         UNCHANGED <<deployment, database, starts, call>>
  PROVE  IInv'
<1>0. /\ TypeInv /\ inst[i] \in Instance /\ ServerOK(inst[i])
      /\ LoneOK(inst[i], rows, deleted)
  BY InstanceFields DEF IInv, LoneInv
<1> DEFINE n == [inst[i] EXCEPT !.pc = "launch", !.conn = "open"]
<1>1. Set(i, n)
  BY DEF Launch
<1>2. /\ n \in Instance /\ n.pc = "launch" /\ n.end = inst[i].end
      /\ n.grpc = inst[i].grpc /\ n.http = inst[i].http /\ n.worker = inst[i].worker
      /\ n.errCh = inst[i].errCh /\ n.expired = inst[i].expired
  BY <1>0 DEF Instance, PC, Running
<1> HIDE DEF n
<1>3. ServerOK(n) /\ SeedOK(n, rows) /\ LoneOK(n, rows, deleted)
  BY <1>0, <1>2 DEF ServerOK, Bit, SeedOK, LoneOK, Running
<1>4. StartsOn(i, n)
  BY <1>0, <1>1, <1>2, <1>3, SameRows, SameStarts DEF StartsOn, Running, database
<1> QED
  BY <1>2, <1>4, StartsOnStep

\* Seeding goes on with the rows of l, in the same phase.
LEMMA SeedsOn ==
  ASSUME IInv, NEW i \in Instances, Seeding(i), NEW p \in {"seed", "create"},
         NEW l \in Seq(AllRows), Set(i, [inst[i] EXCEPT !.pc = p, !.left = l]),
         ToSet(l) \subseteq RowsOf[PhaseOf(i)],
         RowsOf[PhaseOf(i)] \subseteq rows'[PhaseOf(i)] \cup ToSet(l),
         p = "create" => /\ l # <<>> /\ inst[i].phase # 3
                         /\ \/ inst[i].phase = 4 /\ deleted
                            \/ Head(l) \notin rows'[PhaseOf(i)],
         rows' \in [PhaseNames -> SUBSET AllRows],
         \A q \in PhaseNames : rows[q] \subseteq rows'[q] /\ rows'[q] \subseteq RowsOf[q],
         UNCHANGED <<deployment, deleted, starts, call>>
  PROVE  IInv'
<1>0. /\ TypeInv /\ inst[i] \in Instance /\ ServerOK(inst[i]) /\ inst[i].phase \in 1..4
      /\ SeedOK(inst[i], rows) /\ LoneOK(inst[i], rows, deleted)
  BY InstanceFields DEF IInv, SeedInv, LoneInv
<1> DEFINE n == [inst[i] EXCEPT !.pc = p, !.left = l]
<1>1. Set(i, n)
  OBVIOUS
<1>2. /\ n \in Instance /\ n.pc = p /\ n.left = l /\ n.phase = inst[i].phase
      /\ n.end = inst[i].end /\ n.overlapped = inst[i].overlapped
      /\ n.grpc = inst[i].grpc /\ n.http = inst[i].http /\ n.worker = inst[i].worker
      /\ n.errCh = inst[i].errCh /\ n.expired = inst[i].expired
  BY <1>0 DEF Instance, PC, Starting
<1> HIDE DEF n
<1>3. ServerOK(n)
  BY <1>0, <1>2 DEF ServerOK, Bit, Running, Seeding
<1>4. SeedOK(n, rows')
  <2>1. \A k \in 1..4 : k < n.phase => RowsOf[Phases[k]] \subseteq rows[Phases[k]]
    BY <1>0, <1>2 DEF SeedOK, Seeding
  <2>2. \A k \in 1..4 : Phases[k] \in PhaseNames
    BY PhaseFacts DEF PhaseNames
  <2>3. \A k \in 1..4 : k < n.phase => RowsOf[Phases[k]] \subseteq rows'[Phases[k]]
    BY <2>1, <2>2
  <2> QED
    BY <1>2, <2>3 DEF SeedOK, PhaseOf, Running
<1>5. LoneOK(n, rows', deleted)
  BY <1>0, <1>2 DEF LoneOK, PhaseOf, Seeding
<1>6. StartsOn(i, n)
  BY <1>0, <1>1, <1>2, <1>3, <1>4, <1>5, SameStarts DEF StartsOn, Running, Seeding
<1> QED
  BY <1>2, <1>6, StartsOnStep

\* The phase of an instance that seeds.
LEMMA SeedingFacts ==
  ASSUME IInv, NEW i \in Instances, Seeding(i)
  PROVE  /\ TypeInv /\ inst[i] \in Instance
         /\ inst[i].phase \in 1..4 /\ inst[i].left \in Seq(AllRows)
         /\ PhaseOf(i) \in PhaseNames
         /\ PhaseOf(i) = "grants" <=> inst[i].phase = 3
         /\ PhaseOf(i) = "admin" <=> inst[i].phase = 4
         /\ \A k \in 1..4 : k < inst[i].phase => RowsOf[Phases[k]] \subseteq rows[Phases[k]]
         /\ ToSet(inst[i].left) \subseteq RowsOf[PhaseOf(i)]
         /\ RowsOf[PhaseOf(i)] \subseteq rows[PhaseOf(i)] \cup ToSet(inst[i].left)
<1>1. TypeInv /\ SeedOK(inst[i], rows)
  BY DEF IInv, SeedInv
<1>2. inst[i] \in Instance /\ inst[i].phase \in 1..4 /\ inst[i].left \in Seq(AllRows)
  BY <1>1, InstanceFields
<1>3. /\ PhaseOf(i) \in PhaseNames
      /\ PhaseOf(i) = "grants" <=> inst[i].phase = 3
      /\ PhaseOf(i) = "admin" <=> inst[i].phase = 4
  BY <1>2, PhaseFacts DEF PhaseOf, PhaseNames
<1> QED
  BY <1>1, <1>2, <1>3 DEF SeedOK, PhaseOf, Seeding

\* What a seed refers to was seeded in an earlier phase.
LEMMA NeedsMet ==
  ASSUME IInv, NEW i \in Instances, Seeding(i), inst[i].left # <<>>
  PROVE  Needs(PhaseOf(i), Seed(i))
<1>0. /\ inst[i].phase \in 1..4
      /\ \A k \in 1..4 : k < inst[i].phase => RowsOf[Phases[k]] \subseteq rows[Phases[k]]
      /\ PhaseOf(i) = "grants" <=> inst[i].phase = 3
      /\ PhaseOf(i) = "admin" <=> inst[i].phase = 4
      /\ Seed(i) \in RowsOf[PhaseOf(i)]
  BY SeedingFacts, TailFacts DEF Seed
<1>1. CASE inst[i].phase = 3
  <2>1. Seed(i) \in Grants
    BY <1>0, <1>1, RowFacts
  <2>2. Seed(i)[1] \in ToSet(Roles) /\ Seed(i)[2] \in ToSet(AllPermissions)
    BY <2>1 DEF Grants
  <2>3. ToSet(Roles) \subseteq rows["roles"] /\ ToSet(AllPermissions) \subseteq rows["permissions"]
    BY <1>0, <1>1, PhaseFacts, RowFacts
  <2> QED
    BY <1>0, <1>1, <2>2, <2>3 DEF Needs
<1>2. CASE inst[i].phase = 4
  <2>1. ToSet(Roles) \subseteq rows["roles"]
    BY <1>0, <1>2, PhaseFacts, RowFacts
  <2> QED
    BY <1>0, <1>2, <2>1, RoleAssumption DEF Needs
<1>3. CASE inst[i].phase \notin {3, 4}
  BY <1>0, <1>3 DEF Needs
<1> QED
  BY <1>1, <1>2, <1>3

LEMMA SeedFinds == ASSUME IInv, NEW i \in Instances, SeedFind(i) PROVE IInv'
<1>0. /\ Seeding(i) /\ inst[i].pc = "seed" /\ inst[i].left # <<>> /\ PhaseOf(i) # "grants"
      /\ UNCHANGED <<deployment, database, starts>>
  BY DEF SeedFind, Seeding
<1>1. /\ TypeInv /\ inst[i] \in Instance /\ inst[i].left \in Seq(AllRows)
      /\ PhaseOf(i) \in PhaseNames
      /\ PhaseOf(i) = "grants" <=> inst[i].phase = 3
      /\ PhaseOf(i) = "admin" <=> inst[i].phase = 4
      /\ ToSet(inst[i].left) \subseteq RowsOf[PhaseOf(i)]
      /\ RowsOf[PhaseOf(i)] \subseteq rows[PhaseOf(i)] \cup ToSet(inst[i].left)
  BY <1>0, SeedingFacts
<1>2. /\ Tail(inst[i].left) \in Seq(AllRows)
      /\ ToSet(inst[i].left) = {Seed(i)} \cup ToSet(Tail(inst[i].left))
  BY <1>0, <1>1, TailFacts DEF Seed
<1>3. /\ rows' = rows /\ deleted' = deleted
      /\ rows' \in [PhaseNames -> SUBSET AllRows]
      /\ \A q \in PhaseNames : rows[q] \subseteq rows'[q] /\ rows'[q] \subseteq RowsOf[q]
  BY <1>0, <1>1, SameRows DEF database
<1>4. CASE Visible(PhaseOf(i), Seed(i))
  <2>1. Set(i, [inst[i] EXCEPT !.left = Tail(inst[i].left)]) /\ UNCHANGED call
    BY <1>4 DEF SeedFind, Set
  <2>2. [inst[i] EXCEPT !.left = Tail(inst[i].left)]
          = [inst[i] EXCEPT !.pc = "seed", !.left = Tail(inst[i].left)]
    BY <1>0, <1>1 DEF Instance
  <2>3. Set(i, [inst[i] EXCEPT !.pc = "seed", !.left = Tail(inst[i].left)])
    BY <2>1, <2>2
  <2>4. Seed(i) \in rows[PhaseOf(i)]
    BY <1>4 DEF Visible
  <2> QED
    BY <1>0, <1>1, <1>2, <1>3, <2>1, <2>3, <2>4, SeedsOn
<1>5. CASE ~Visible(PhaseOf(i), Seed(i))
  <2>1. GoTo(i, "create") /\ UNCHANGED call
    BY <1>0, <1>5, NeedsMet DEF SeedFind
  <2>2. Set(i, [inst[i] EXCEPT !.pc = "create", !.left = inst[i].left])
    <3>1. [inst[i] EXCEPT !.pc = "create", !.left = inst[i].left] = [inst[i] EXCEPT !.pc = "create"]
      BY <1>1 DEF Instance
    <3> QED
      BY <2>1, <3>1 DEF GoTo, Set
  <2>3. \/ inst[i].phase = 4 /\ deleted
        \/ Head(inst[i].left) \notin rows'[PhaseOf(i)]
    BY <1>1, <1>3, <1>5 DEF Visible, Seed
  <2> QED
    BY <1>0, <1>1, <1>3, <2>1, <2>2, <2>3, SeedsOn
<1> QED
  BY <1>4, <1>5

\* The row x of the present phase is added and the list is shortened.
LEMMA SeedAdds ==
  ASSUME IInv, NEW i \in Instances, Seeding(i), inst[i].left # <<>>,
         rows' = [rows EXCEPT ![PhaseOf(i)] = rows[PhaseOf(i)] \cup {Seed(i)}],
         Set(i, [inst[i] EXCEPT !.pc = "seed", !.left = Tail(inst[i].left)]),
         UNCHANGED <<deployment, deleted, starts, call>>
  PROVE  IInv'
<1>1. /\ TypeInv /\ inst[i] \in Instance /\ inst[i].left \in Seq(AllRows)
      /\ PhaseOf(i) \in PhaseNames
      /\ ToSet(inst[i].left) \subseteq RowsOf[PhaseOf(i)]
      /\ RowsOf[PhaseOf(i)] \subseteq rows[PhaseOf(i)] \cup ToSet(inst[i].left)
  BY SeedingFacts
<1>2. /\ Tail(inst[i].left) \in Seq(AllRows) /\ Seed(i) \in AllRows
      /\ ToSet(inst[i].left) = {Seed(i)} \cup ToSet(Tail(inst[i].left))
  BY <1>1, TailFacts DEF Seed
<1>3. /\ rows' \in [PhaseNames -> SUBSET AllRows]
      /\ \A q \in PhaseNames : rows[q] \subseteq rows'[q] /\ rows'[q] \subseteq RowsOf[q]
      /\ rows'[PhaseOf(i)] = rows[PhaseOf(i)] \cup {Seed(i)}
  BY <1>1, <1>2 DEF TypeInv
<1> QED
  BY <1>1, <1>2, <1>3, SeedsOn

LEMMA SeedCreates == ASSUME IInv, NEW i \in Instances, SeedCreate(i) PROVE IInv'
<1>0. /\ Seeding(i) /\ inst[i].pc = "create" /\ UNCHANGED <<deployment, deleted, starts>>
      /\ LoneOK(inst[i], rows, deleted) /\ SeedOK(inst[i], rows) /\ inst[i].left # <<>>
  BY DEF SeedCreate, Seeding, IInv, LoneInv, SeedInv, SeedOK
<1>1. CASE Seed(i) \in rows[PhaseOf(i)]
  <2>1. Exit(i, "conflict") /\ UNCHANGED rows
    BY <1>1 DEF SeedCreate
  <2>2. inst[i].overlapped \/ deleted
    BY <1>0, <1>1 DEF LoneOK, Seed, PhaseOf
  <2>3. InFlight(i) = {}
    BY <1>0 DEF InFlight, IInv, CallInv, PlaceOK, Running
  <2>4. Dies(i, "conflict") /\ "conflict" \in Ends
    BY <1>0, <2>1, <2>2, <2>3 DEF Dies, Ends, database
  <2> QED
    BY <2>4, DiesStep
<1>2. CASE Seed(i) \notin rows[PhaseOf(i)]
  <2>1. /\ rows' = [rows EXCEPT ![PhaseOf(i)] = rows[PhaseOf(i)] \cup {Seed(i)}]
        /\ Set(i, [inst[i] EXCEPT !.pc = "seed", !.left = Tail(inst[i].left)]) /\ UNCHANGED call
    BY <1>2 DEF SeedCreate, Set
  <2> QED
    BY <1>0, <2>1, SeedAdds
<1> QED
  BY <1>1, <1>2

LEMMA SeedGrants == ASSUME IInv, NEW i \in Instances, SeedGrant(i) PROVE IInv'
<1>0. /\ Seeding(i) /\ inst[i].pc = "seed" /\ inst[i].left # <<>> /\ PhaseOf(i) = "grants"
      /\ UNCHANGED <<deployment, deleted, starts>>
  BY DEF SeedGrant, Seeding
<1>1. Needs("grants", Seed(i)) /\ inst[i] \in Instance
  BY <1>0, NeedsMet, SeedingFacts
<1>2. /\ rows' = [rows EXCEPT ![PhaseOf(i)] = rows[PhaseOf(i)] \cup {Seed(i)}]
      /\ Set(i, [inst[i] EXCEPT !.left = Tail(inst[i].left)]) /\ UNCHANGED call
  BY <1>0, <1>1 DEF SeedGrant, Set
<1>3. [inst[i] EXCEPT !.left = Tail(inst[i].left)]
        = [inst[i] EXCEPT !.pc = "seed", !.left = Tail(inst[i].left)]
  BY <1>0, <1>1 DEF Instance
<1>4. Set(i, [inst[i] EXCEPT !.pc = "seed", !.left = Tail(inst[i].left)])
  BY <1>2, <1>3
<1> QED
  BY <1>0, <1>2, <1>4, SeedAdds

LEMMA PhaseEnds == ASSUME IInv, NEW i \in Instances, NextPhase(i) PROVE IInv'
<1>0. /\ Seeding(i) /\ inst[i].pc = "seed" /\ inst[i].left = <<>>
      /\ UNCHANGED <<deployment, database, starts, call>>
  BY DEF NextPhase, Seeding
<1>1. /\ TypeInv /\ inst[i] \in Instance /\ inst[i].phase \in 1..4
      /\ \A k \in 1..4 : k < inst[i].phase => RowsOf[Phases[k]] \subseteq rows[Phases[k]]
      /\ RowsOf[Phases[inst[i].phase]] \subseteq rows[Phases[inst[i].phase]] \cup ToSet(inst[i].left)
  BY <1>0, SeedingFacts DEF PhaseOf
<1>2. ToSet(inst[i].left) = {}
  BY <1>0 DEF ToSet
<1>3. \A k \in 1..4 : k <= inst[i].phase => RowsOf[Phases[k]] \subseteq rows[Phases[k]]
  BY <1>1, <1>2
<1>4. CASE inst[i].phase < Len(Phases)
  <2>1. PICK o \in OrdersOf(Phases[inst[i].phase + 1]) :
          Set(i, [inst[i] EXCEPT !.phase = inst[i].phase + 1, !.left = o])
    <3>1. inst[i].phase # Len(Phases)
      BY <1>1, <1>4, PhaseFacts
    <3>2. PICK o \in OrdersOf(Phases[inst[i].phase + 1]) :
            Set(i, [inst[i] EXCEPT !.phase = @ + 1, !.left = o])
      BY <3>1 DEF NextPhase
    <3>3. [inst[i] EXCEPT !.phase = @ + 1, !.left = o]
            = [inst[i] EXCEPT !.phase = inst[i].phase + 1, !.left = o]
      BY <1>1 DEF Instance
    <3> QED
      BY <3>2, <3>3
  <2> DEFINE n == [inst[i] EXCEPT !.phase = inst[i].phase + 1, !.left = o]
  <2>2. /\ inst[i].phase + 1 \in 1..4 /\ o \in Seq(AllRows)
        /\ ToSet(o) = RowsOf[Phases[inst[i].phase + 1]]
    BY <1>1, <1>4, <2>1, PhaseFacts, OrderFacts
  <2>3. /\ n \in Instance /\ n.pc = "seed" /\ n.left = o /\ n.phase = inst[i].phase + 1
        /\ n.end = inst[i].end /\ n.overlapped = inst[i].overlapped
        /\ n.grpc = inst[i].grpc /\ n.http = inst[i].http /\ n.worker = inst[i].worker
        /\ n.errCh = inst[i].errCh /\ n.expired = inst[i].expired
    BY <1>0, <1>1, <2>2, PhaseFacts DEF Instance
  <2>4. Set(i, n)
    BY <2>1
  <2> HIDE DEF n
  <2>5. ServerOK(n) /\ LoneOK(n, rows, deleted)
    BY <1>0, <2>3 DEF ServerOK, Bit, Running, LoneOK, IInv, TypeInv, LoneInv
  <2>6. SeedOK(n, rows)
    BY <1>1, <1>3, <2>2, <2>3 DEF SeedOK, Running
  <2>7. StartsOn(i, n)
    BY <1>0, <1>1, <2>3, <2>4, <2>5, <2>6, SameRows, SameStarts DEF StartsOn, Running, database
  <2> QED
    BY <2>3, <2>7, StartsOnStep
<1>5. CASE inst[i].phase = Len(Phases)
  <2>1. Launch(i)
    BY <1>1, <1>5, PhaseFacts DEF NextPhase
  <2>2. \A p \in PhaseNames : RowsOf[p] = rows[p]
    <3>1. \A k \in 1..4 : RowsOf[Phases[k]] \subseteq rows[Phases[k]]
      BY <1>3, <1>5, PhaseFacts
    <3>2. \A p \in PhaseNames : \E k \in 1..4 : p = Phases[k]
      BY PhaseFacts DEF PhaseNames
    <3> QED
      BY <1>1, <3>1, <3>2 DEF TypeInv
  <2>3. RowsOf = [p \in PhaseNames |-> RowsOf[p]] /\ rows = [p \in PhaseNames |-> rows[p]]
    <3>1. rows = [p \in PhaseNames |-> rows[p]]
      BY <1>1 DEF TypeInv
    <3>2. RowsOf = [p \in PhaseNames |-> RowsOf[p]]
      BY DEF RowsOf, PhaseNames
    <3> QED
      BY <3>1, <3>2
  <2>4. rows = RowsOf
    BY <2>2, <2>3
  <2> QED
    BY <1>0, <2>1, <2>4, Launches
<1> QED
  BY <1>4, <1>5 DEF NextPhase

LEMMA Connects == ASSUME IInv, NEW i \in Instances, Connect(i) PROVE IInv'
<1>0. /\ TypeInv /\ SeedInv /\ LoneInv /\ CallInv
      /\ inst[i].pc = "connect" /\ inst[i] \in Instance /\ ServerOK(inst[i])
      /\ inst[i].phase = 1 /\ inst[i].end # "conflict"
      /\ UNCHANGED <<deployment, database, starts, call>>
  BY InstanceFields DEF IInv, Connect, SeedInv, SeedOK, LoneInv, LoneOK
<1>1. CASE Load.Env # "development"
  BY <1>0, <1>1, Launches DEF Connect
<1>2. CASE Load.Env = "development"
  <2> DEFINE b == \E k \in Instances \ {i} : Seeding(k)
             n == [inst[i] EXCEPT !.pc = "seed", !.left = AllPermissions, !.overlapped = b]
  <2>1. inst' = [j \in Instances |->
                   CASE j = i -> n
                     [] j # i /\ Seeding(j) -> [inst[j] EXCEPT !.overlapped = TRUE]
                     [] OTHER -> inst[j]]
    BY <1>2 DEF Connect
  <2>2. AllPermissions \in Seq(AllRows) /\ ToSet(AllPermissions) = RowsOf[Phases[1]]
    BY PhaseFacts, RowFacts, RoleAssumption, Wider DEF PhaseNames
  <2>b. b \in BOOLEAN
    OBVIOUS
  <2> HIDE DEF b
  <2>3. /\ n \in Instance /\ n.pc = "seed" /\ n.left = AllPermissions /\ n.phase = 1
        /\ n.end = inst[i].end /\ n.overlapped = b
        /\ n.grpc = inst[i].grpc /\ n.http = inst[i].http /\ n.worker = inst[i].worker
        /\ n.errCh = inst[i].errCh /\ n.expired = inst[i].expired
    BY <1>0, <2>2, <2>b DEF Instance, PC, Starting
  <2> HIDE DEF n
  <2>4. /\ ServerOK(n) /\ SeedOK(n, rows) /\ LoneOK(n, rows, deleted)
    BY <1>0, <2>2, <2>3 DEF ServerOK, Bit, SeedOK, LoneOK, Running
  <2>5. ASSUME NEW j \in Instances, j # i
        PROVE  /\ inst'[j] \in Instance /\ inst'[j].pc = inst[j].pc
               /\ inst'[j].phase = inst[j].phase /\ inst'[j].left = inst[j].left
               /\ inst'[j].grpc = inst[j].grpc /\ inst'[j].http = inst[j].http
               /\ inst'[j].worker = inst[j].worker /\ inst'[j].errCh = inst[j].errCh
               /\ inst'[j].expired = inst[j].expired /\ inst'[j].end = inst[j].end
               /\ inst[j].overlapped \/ Seeding(j) => inst'[j].overlapped
               /\ Seeding(j) \/ inst'[j] = inst[j]
    <3>0. inst[j] \in Instance /\ inst[j].overlapped \in BOOLEAN
      BY <1>0, InstanceFields DEF Instance
    <3>1. CASE Seeding(j)
      <4>1. inst'[j] = [inst[j] EXCEPT !.overlapped = TRUE]
        BY <2>1, <2>5, <3>1
      <4> QED
        BY <3>0, <3>1, <4>1 DEF Instance
    <3>2. CASE ~Seeding(j)
      <4>1. inst'[j] = inst[j]
        BY <2>1, <2>5, <3>2
      <4> QED
        BY <3>0, <3>2, <4>1
    <3> QED
      BY <3>1, <3>2
  <2>6. inst'[i] = n /\ inst' \in [Instances -> Instance]
    <3>1. inst'[i] = n
      BY <2>1
    <3>2. inst' = [j \in Instances |-> inst'[j]]
      BY <2>1
    <3>3. \A j \in Instances : inst'[j] \in Instance
      BY <2>3, <2>5, <3>1
    <3> QED
      BY <3>1, <3>2, <3>3
  <2>7. TypeInv'
    <3>1. \A j \in Instances : ServerOK(inst'[j])
      BY <1>0, <2>4, <2>5, <2>6 DEF TypeInv, ServerOK, Bit
    <3> QED
      BY <1>0, <2>6, <3>1 DEF TypeInv, ServerOK, Bit, database
  <2>8. SeedInv'
    <3>1. Load' = Load /\ rows' = rows
      BY <1>0 DEF Load, GetEnv, database
    <3>2. ASSUME NEW j \in Instances, j # i PROVE SeedOK(inst'[j], rows)
      <4>1. /\ inst'[j] \in Instance /\ inst'[j].pc = inst[j].pc
            /\ inst'[j].phase = inst[j].phase /\ inst'[j].left = inst[j].left
        BY <2>5, <3>2
      <4>2. /\ rows \in [PhaseNames -> SUBSET AllRows]
            /\ \A p \in PhaseNames : rows[p] \subseteq rows[p] /\ rows[p] \subseteq RowsOf[p]
        BY <1>0 DEF TypeInv
      <4> QED
        BY <1>0, <4>1, <4>2, SeedsStay
    <3>3. \A j \in Instances : SeedOK(inst'[j], rows)
      BY <2>4, <2>6, <3>2
    <3> QED
      BY <3>1, <3>3 DEF SeedInv, SeedOK
  <2>9. LoneInv'
    <3>0. ASSUME NEW j \in Instances, j # i PROVE LoneOK(inst'[j], rows, deleted)
      <4>1. LoneOK(inst[j], rows, deleted)
        BY <1>0 DEF LoneInv
      <4> QED
        BY <2>5, <3>0, <4>1 DEF LoneOK, Seeding
    <3>1. \A j \in Instances : LoneOK(inst'[j], rows, deleted)
      BY <2>4, <2>6, <3>0
    <3>2. ASSUME NEW j \in Instances, NEW k \in Instances, j # k,
                 inst'[j].pc \in {"seed", "create"}, inst'[k].pc \in {"seed", "create"}
          PROVE  inst'[j].overlapped
      <4>1. CASE j = i
        <5>1. Seeding(k)
          BY <2>5, <3>2, <4>1 DEF Seeding
        <5> QED
          BY <2>3, <2>6, <3>2, <4>1, <5>1 DEF b
      <4>2. CASE j # i
        BY <2>5, <3>2, <4>2 DEF Seeding
      <4> QED
        BY <4>1, <4>2
    <3> QED
      BY <1>0, <3>1, <3>2 DEF LoneInv, LoneOK, Seeding, database
  <2>10. CallInv'
    BY <1>0, <2>3, <2>5, <2>6, CallsRest DEF Running
  <2> QED
    BY <2>7, <2>8, <2>9, <2>10 DEF IInv
<1> QED
  BY <1>1, <1>2

LEMMA AdminDeleted == ASSUME IInv, DeleteAdmin PROVE IInv'
<1>0. /\ TypeInv /\ SeedInv /\ LoneInv /\ CallInv /\ deleted' = TRUE
      /\ UNCHANGED <<deployment, rows, starts, inst, call>>
  BY DEF IInv, DeleteAdmin
<1>1. TypeInv'
  BY <1>0 DEF TypeInv, ServerOK, Bit
<1>2. SeedInv'
  BY <1>0 DEF SeedInv, SeedOK, Load, GetEnv
<1>3. LoneInv'
  BY <1>0 DEF LoneInv, LoneOK, Seeding
<1>4. CallInv'
  BY <1>0, CallsRest
<1> QED
  BY <1>1, <1>2, <1>3, <1>4 DEF IInv

-----------------------------------------------------------------------------
(* Requests *)

\* Request c becomes k, at the same instance or at one that serves it.
LEMMA CallBecomes ==
  ASSUME IInv, NEW c \in Calls, NEW k \in Request, call' = [call EXCEPT ![c] = k], CallOK(k),
         \A i \in Instances : k.at = i => PlaceOK(k, inst[i]),
         UNCHANGED <<deployment, database, starts, inst>>
  PROVE  IInv'
<1>0. TypeInv /\ SeedInv /\ LoneInv /\ CallInv
  BY DEF IInv
<1>1. call' \in [Calls -> Request] /\ call'[c] = k /\ \A d \in Calls \ {c} : call'[d] = call[d]
  BY <1>0 DEF TypeInv
<1>2. TypeInv'
  BY <1>0, <1>1 DEF TypeInv, ServerOK, Bit, database
<1>3. SeedInv'
  BY <1>0 DEF SeedInv, SeedOK, Load, GetEnv, database
<1>4. LoneInv'
  BY <1>0 DEF LoneInv, LoneOK, Seeding, database
<1>5. CallInv'
  <2>1. \A d \in Calls : CallOK(call'[d]) /\ \A i \in Instances : call'[d].at = i => PlaceOK(call'[d], inst[i])
    BY <1>0, <1>1 DEF CallInv
  <2> QED
    BY <2>1 DEF CallInv, CallOK, PlaceOK
<1> QED
  BY <1>2, <1>3, <1>4, <1>5 DEF IInv

LEMMA Called ==
  ASSUME IInv, NEW c \in Calls, NEW i \in Instances, CallGRPC(c, i) \/ CallHTTP(c, i)
  PROVE  IInv' /\ call'[c].result = None /\ \A d \in Calls \ {c} : call'[d] = call[d]
<1>0. /\ TypeInv /\ ServerOK(inst[i]) /\ inst[i].pc \in PC
      /\ UNCHANGED <<deployment, database, starts, inst>>
  BY InstanceFields DEF IInv, CallGRPC, CallHTTP
<1>1. CASE CallGRPC(c, i)
  <2> DEFINE k == [pc |-> "rpc", at |-> i, via |-> "grpc", handler |-> TRUE, result |-> None]
  <2>1. k \in Request /\ CallOK(k)
    BY NoneAssumption DEF Request, CallOK
  <2>2. inst[i].pc \in Running /\ inst[i].pc # "close"
    BY <1>0, <1>1 DEF CallGRPC, ServerOK
  <2>3. \A j \in Instances : k.at = j => PlaceOK(k, inst[j])
    BY <2>2 DEF PlaceOK
  <2>4. call' = [call EXCEPT ![c] = k] /\ k.result = None
    BY <1>1 DEF CallGRPC
  <2> HIDE DEF k
  <2> QED
    BY <1>0, <2>1, <2>3, <2>4, CallBecomes DEF TypeInv
<1>2. CASE CallHTTP(c, i)
  <2> DEFINE k == [pc |-> "gateway", at |-> i, via |-> "http", handler |-> FALSE, result |-> None]
  <2>1. k \in Request /\ CallOK(k)
    BY NoneAssumption DEF Request, CallOK
  <2>2. inst[i].pc \in Running
    BY <1>0, <1>2 DEF CallHTTP, ServerOK
  <2>3. \A j \in Instances : k.at = j => PlaceOK(k, inst[j])
    BY <2>2 DEF PlaceOK
  <2>4. call' = [call EXCEPT ![c] = k] /\ k.result = None
    BY <1>2 DEF CallHTTP
  <2> HIDE DEF k
  <2> QED
    BY <1>0, <2>1, <2>3, <2>4, CallBecomes DEF TypeInv
<1> QED
  BY <1>1, <1>2

\* What a request that goes on keeps, and what follows.
LEMMA CallGoesOn ==
  ASSUME IInv, NEW c \in Calls, NEW k \in Request, call' = [call EXCEPT ![c] = k], CallOK(k),
         k.at = call[c].at,
         call[c].pc = "over" => k.pc = "over",
         k.handler => call[c].handler \/ inst[call[c].at].pc # "close",
         k.handler => call[c].handler \/ call[c].pc # "over",
         k.result = "cut" => k.result = call[c].result,
         UNCHANGED <<deployment, database, starts, inst>>
  PROVE  /\ IInv'
         /\ \A d \in Calls : call'[d].result = "cut" => call'[d].result = call[d].result
<1>1. \A i \in Instances : k.at = i => PlaceOK(k, inst[i])
  BY DEF IInv, CallInv, PlaceOK
<1>2. IInv'
  BY <1>1, CallBecomes
<1> QED
  BY <1>2 DEF IInv, TypeInv

LEMMA GoesOn ==
  ASSUME IInv, NEW c \in Calls, Forward(c) \/ Finish(c) \/ Reply(c)
  PROVE  /\ IInv'
         /\ \A d \in Calls : call'[d].result = "cut" => call'[d].result = call[d].result
<1>0. /\ TypeInv /\ call[c] \in Request /\ CallOK(call[c])
      /\ UNCHANGED <<deployment, database, starts, inst>>
  BY DEF IInv, TypeInv, CallInv, Forward, Finish, Reply
<1>1. CASE Forward(c)
  <2>0. call[c].pc = "gateway" /\ call[c].via = "http" /\ call[c].at \in Instances
    BY <1>0, <1>1 DEF Forward, CallOK
  <2>1. ServerOK(inst[call[c].at])
    BY <1>0, <2>0 DEF TypeInv
  <2>2. CASE inst[call[c].at].grpc = "serving" /\ inst[call[c].at].conn = "open"
    <3> DEFINE k == [call[c] EXCEPT !.pc = "rpc", !.handler = TRUE]
    <3>1. call' = [call EXCEPT ![c] = k]
      BY <1>0, <1>1, <2>2 DEF Forward, TypeInv
    <3>2. /\ k \in Request /\ CallOK(k) /\ k.at = call[c].at /\ k.result = call[c].result
      BY <1>0, <2>0 DEF Request, CallOK
    <3>3. inst[call[c].at].pc # "close"
      BY <2>1, <2>2 DEF ServerOK
    <3> HIDE DEF k
    <3> QED
      BY <1>0, <2>0, <3>1, <3>2, <3>3, CallGoesOn
  <2>3. CASE ~(inst[call[c].at].grpc = "serving" /\ inst[call[c].at].conn = "open")
    <3> DEFINE k == [call[c] EXCEPT !.pc = "reply", !.result = "refused"]
    <3>1. call' = [call EXCEPT ![c] = k]
      BY <1>0, <1>1, <2>3 DEF Forward, TypeInv
    <3>2. /\ k \in Request /\ CallOK(k) /\ k.at = call[c].at /\ k.result = "refused"
          /\ k.handler = call[c].handler
      BY <1>0, <2>0 DEF Request, CallOK
    <3> HIDE DEF k
    <3> QED
      BY <1>0, <2>0, <3>1, <3>2, CallGoesOn
  <2> QED
    BY <2>2, <2>3
<1>2. CASE Finish(c)
  <2>1. CASE call[c].pc = "rpc" /\ call[c].via = "grpc"
    <3> DEFINE k == [call[c] EXCEPT !.handler = FALSE, !.pc = "over", !.result = "served"]
    <3>1. call' = [call EXCEPT ![c] = k]
      BY <1>0, <1>2, <2>1 DEF Finish, TypeInv
    <3>2. /\ k \in Request /\ CallOK(k) /\ k.at = call[c].at /\ k.result = "served" /\ ~k.handler
      BY <1>0, <2>1 DEF Request, CallOK
    <3> HIDE DEF k
    <3> QED
      BY <1>0, <2>1, <3>1, <3>2, CallGoesOn
  <2>2. CASE call[c].pc = "rpc" /\ call[c].via = "http"
    <3> DEFINE k == [call[c] EXCEPT !.handler = FALSE, !.pc = "reply", !.result = "served"]
    <3>1. call' = [call EXCEPT ![c] = k]
      BY <1>0, <1>2, <2>2 DEF Finish, TypeInv
    <3>2. /\ k \in Request /\ CallOK(k) /\ k.at = call[c].at /\ k.result = "served" /\ ~k.handler
      BY <1>0, <2>2 DEF Request, CallOK
    <3> HIDE DEF k
    <3> QED
      BY <1>0, <2>2, <3>1, <3>2, CallGoesOn
  <2>3. CASE call[c].pc # "rpc"
    <3> DEFINE k == [call[c] EXCEPT !.handler = FALSE]
    <3>1. call' = [call EXCEPT ![c] = k]
      BY <1>0, <1>2, <2>3 DEF Finish, TypeInv
    <3>2. /\ k \in Request /\ CallOK(k) /\ k.at = call[c].at /\ k.result = call[c].result
          /\ k.pc = call[c].pc /\ ~k.handler
      BY <1>0, <2>3 DEF Request, CallOK
    <3> HIDE DEF k
    <3> QED
      BY <1>0, <2>3, <3>1, <3>2, CallGoesOn
  <2> QED
    BY <1>0, <2>1, <2>2, <2>3 DEF CallOK
<1>3. CASE Reply(c)
  <2> DEFINE k == [call[c] EXCEPT !.pc = "over"]
  <2>1. call' = [call EXCEPT ![c] = k]
    BY <1>0, <1>3 DEF Reply, TypeInv
  <2>2. /\ k \in Request /\ CallOK(k) /\ k.at = call[c].at /\ k.result = call[c].result
        /\ k.pc = "over" /\ k.handler = call[c].handler
    BY <1>0, <1>3 DEF Request, CallOK, Reply
  <2> HIDE DEF k
  <2> QED
    BY <1>0, <1>3, <2>1, <2>2, CallGoesOn DEF Reply
<1> QED
  BY <1>1, <1>2, <1>3

-----------------------------------------------------------------------------
(* The theorems *)

LEMMA IInit == Init => IInv
<1> SUFFICES ASSUME Init PROVE IInv
  OBVIOUS
<1>1. \A i \in Instances : inst[i] = Down(None)
  BY DEF Init
<1>2. Down(None) \in Instance
  BY DownFacts DEF Ends
<1>3. /\ Down(None).pc = "down" /\ Down(None).end = None /\ Down(None).errCh = 0
      /\ Down(None).grpc = "off" /\ Down(None).http = "off" /\ Down(None).worker = "off"
      /\ Down(None).expired = FALSE
  BY DEF Down
<1>4. ServerOK(Down(None)) /\ SeedOK(Down(None), rows) /\ LoneOK(Down(None), rows, deleted)
  BY <1>3, NoneAssumption DEF ServerOK, Bit, SeedOK, LoneOK, Running
<1>5. NewCall \in Request /\ CallOK(NewCall) /\ NewCall.at = None
  BY NoneAssumption DEF NewCall, Request, CallOK
<1>6. \A i \in Instances : deployment.starts[i] \in Nat
  BY DeploymentAssumption DEF Init
<1>7. TypeInv
  <2>1. rows = [p \in PhaseNames |-> {}] /\ deployment \in Deployments /\ deleted \in BOOLEAN
    BY PhaseFacts DEF Init
  <2>2. starts \in [Instances -> Nat] /\ \A i \in Instances : starts[i] <= deployment.starts[i]
    BY <1>6 DEF Init
  <2>3. inst \in [Instances -> Instance] /\ \A i \in Instances : ServerOK(inst[i])
    BY <1>1, <1>2, <1>4 DEF Init
  <2>4. call \in [Calls -> Request]
    BY <1>5 DEF Init
  <2> QED
    BY <2>1, <2>2, <2>3, <2>4 DEF TypeInv
<1>8. SeedInv
  BY <1>1, <1>4 DEF SeedInv
<1>9. LoneInv
  BY <1>1, <1>3, <1>4 DEF LoneInv, Seeding
<1>10. CallInv
  BY <1>5, NoneAssumption DEF CallInv, Init
<1> QED
  BY <1>7, <1>8, <1>9, <1>10 DEF IInv

LEMMA IStep == IInv /\ [Next]_vars => IInv'
<1> SUFFICES ASSUME IInv, [Next]_vars PROVE IInv'
  OBVIOUS
<1>0. TypeInv /\ CallInv
  BY DEF IInv
<1>1. ASSUME NEW i \in Instances, Step(i) PROVE IInv'
  BY <1>0, <1>1, LoadsConfig, Connects, SeedFinds, SeedCreates, SeedGrants, PhaseEnds,
     ServesGRPC, ServesHTTP, WorkerRuns, WorkerEnds, Selects, GracefulStops, Drains, Expires,
     ConnCloses, HTTPCloses, EffectStep DEF Step
<1>2. ASSUME NEW i \in Instances, Start(i) \/ Fail(i) \/ Signal(i) PROVE IInv'
  BY <1>0, <1>2, Starts, Fails, Signals, EffectStep DEF Fail
<1>3. ASSUME NEW c \in Calls, Forward(c) \/ Finish(c) \/ Reply(c) PROVE IInv'
  BY <1>3, GoesOn
<1>4. ASSUME NEW c \in Calls, NEW i \in Instances, CallGRPC(c, i) \/ CallHTTP(c, i) PROVE IInv'
  BY <1>4, Called
<1>5. CASE UNCHANGED vars
  <2>1. UNCHANGED <<deployment, rows, deleted, starts, inst, call>>
    BY <1>5 DEF vars
  <2>2. TypeInv' /\ SeedInv' /\ LoneInv'
    BY <2>1 DEF IInv, TypeInv, ServerOK, Bit, SeedInv, SeedOK, LoneInv, LoneOK, Seeding, Load, GetEnv
  <2>3. CallInv'
    BY <1>0, <2>1, CallsRest
  <2> QED
    BY <2>2, <2>3 DEF IInv
<1> QED
  BY <1>1, <1>2, <1>3, <1>4, <1>5, AdminDeleted DEF Next

\* The state of an instance and of its requests is well-formed, and the channel
\* of Run never holds more results than its three places.
THEOREM TypeCorrect == Spec => []TypeOK
<1>1. IInv => TypeOK
  <2> SUFFICES ASSUME TypeInv PROVE TypeOK
    BY DEF IInv
  <2>1. \A i \in Instances : starts[i] \in 0..deployment.starts[i]
    BY DeploymentAssumption DEF TypeInv
  <2> QED
    BY <2>1, RowFacts DEF TypeInv, TypeOK
<1> QED
  BY <1>1, IInit, IStep, PTL DEF Spec

\* An instance that runs in the development environment has every seed, whatever
\* starts overlap, fail or are killed.
THEOREM ServedAreSeeded == Spec => []ServesSeeded
<1>1. IInv => ServesSeeded
  BY DEF IInv, SeedInv, SeedOK, ServesSeeded, Seeded
<1> QED
  BY <1>1, IInit, IStep, PTL DEF Spec

\* Seeding fails on a unique index or on a missing row only when another instance
\* seeded during the start or the administrator's account is soft-deleted.
THEOREM LoneStartsSucceed == Spec => []LoneStartSucceeds
<1>1. IInv => LoneStartSucceeds
  BY DEF IInv, LoneInv, LoneOK, LoneStartSucceeds
<1> QED
  BY <1>1, IInit, IStep, PTL DEF Spec

\* What GracefulCutsNobody says of one request.
Spared(c) ==
  call[c].pc # "over" /\ call'[c].result = "cut" =>
    LET i == call[c].at IN
    inst[i].expired \/ inst'[i].expired \/ inst'[i].end \in {"failed", "ended"}

LEMMA RestSpares == ASSUME IInv, NEW c \in Calls, call'[c].result = "cut" => call'[c].result = call[c].result
                    PROVE  Spared(c)
BY DEF IInv, CallInv, CallOK, Spared

LEMMA EffectSpares == ASSUME IInv, NEW i \in Instances, Effect(i), NEW c \in Calls PROVE Spared(c)
<1>0. TypeInv /\ CallInv /\ CallOK(call[c])
  BY DEF IInv, CallInv
<1>1. ASSUME NEW n \in Instance, RunsOn(i, n) PROVE Spared(c)
  <2>1. inst'[i] = n
    BY <1>0, <1>1, SetFacts DEF RunsOn
  <2>2. CASE call' = call
    BY <2>2, RestSpares
  <2>3. CASE call' = Cut(Handling(i)) /\ n.expired
    BY <1>0, <2>1, <2>3, CutFacts DEF Handling, Spared
  <2>4. CASE call' = Cut({d \in Handling(i) : call[d].via = "http"})
    BY <1>0, <2>4, CutFacts DEF Spared
  <2> QED
    BY <1>1, <2>2, <2>3, <2>4 DEF RunsOn
<1>2. ASSUME NEW end \in Ends, Dies(i, end) PROVE Spared(c)
  <2>1. CASE c \in InFlight(i)
    <3>1. inst'[i].end = end
      <4> DEFINE n == [Down(end) EXCEPT !.overlapped = inst[i].overlapped]
      <4>1. n.end = end
        BY DEF Down
      <4>2. inst'[i] = n
        BY <1>0, <1>2 DEF Dies, Exit, TypeInv
      <4> QED
        BY <4>1, <4>2
    <3>2. call[c].at = i
      BY <2>1 DEF InFlight
    <3> QED
      BY <1>2, <2>1, <3>1, <3>2 DEF Dies, Spared
  <2>2. CASE c \notin InFlight(i)
    <3>1. call[c] \in Request
      BY <1>0 DEF TypeInv
    <3>2. call'[c] = call[c] \/ call'[c] = [call[c] EXCEPT !.handler = FALSE]
      BY <1>2, <2>2 DEF Dies, Exit
    <3>3. call'[c].result = call[c].result
      BY <3>1, <3>2 DEF Request
    <3> QED
      BY <3>3, RestSpares
  <2> QED
    BY <2>1, <2>2
<1> QED
  BY <1>1, <1>2 DEF Effect

\* A start that fails has no requests.
LEMMA StartSpares ==
  ASSUME IInv, NEW i \in Instances, inst[i].pc \notin Running,
         NEW end, Exit(i, end) \/ UNCHANGED call, NEW c \in Calls
  PROVE  Spared(c)
<1>1. call[c] \in Request /\ c \notin InFlight(i)
  BY DEF IInv, TypeInv, CallInv, PlaceOK, InFlight
<1>2. call'[c] = call[c] \/ call'[c] = [call[c] EXCEPT !.handler = FALSE]
  BY <1>1 DEF Exit
<1>3. call'[c].result = call[c].result
  BY <1>1, <1>2 DEF Request
<1> QED
  BY <1>3, RestSpares

LEMMA NextSpares == ASSUME IInv, [Next]_vars, NEW c \in Calls PROVE Spared(c)
<1>0. TypeInv /\ CallInv
  BY DEF IInv
<1>1. ASSUME NEW i \in Instances, Start(i) \/ LoadConfig(i) \/ Connect(i) \/ SeedFind(i)
               \/ SeedCreate(i) \/ SeedGrant(i) \/ NextPhase(i)
      PROVE  Spared(c)
  <2>1. inst[i].pc \notin Running
    BY <1>1 DEF Running, Start, LoadConfig, Connect, SeedFind, SeedCreate, SeedGrant, NextPhase
  <2>2. Exit(i, "failed") \/ Exit(i, "conflict") \/ UNCHANGED call
    <3>1. CASE SeedFind(i)
      BY <3>1 DEF SeedFind
    <3>2. CASE ~SeedFind(i)
      BY <1>1, <3>2 DEF Start, LoadConfig, Connect, SeedCreate, SeedGrant, NextPhase
    <3> QED
      BY <3>1, <3>2
  <2> QED
    BY <2>1, <2>2, StartSpares
<1>2. ASSUME NEW i \in Instances, Serve(i, "grpc") \/ Serve(i, "http") \/ WorkerRun(i)
               \/ WorkerEnd(i) \/ Select(i) \/ GracefulStop(i) \/ Drained(i) \/ Deadline(i)
               \/ CloseHTTP(i) \/ CloseConn(i) \/ Fail(i) \/ Signal(i)
      PROVE  Spared(c)
  BY <1>0, <1>2, ServesGRPC, ServesHTTP, WorkerRuns, WorkerEnds, Selects, GracefulStops, Drains,
     Expires, ConnCloses, HTTPCloses, Fails, Signals, EffectSpares DEF Fail
<1>3. ASSUME NEW d \in Calls, Forward(d) \/ Finish(d) \/ Reply(d) PROVE Spared(c)
  BY <1>3, GoesOn, RestSpares
<1>4. ASSUME NEW d \in Calls, NEW i \in Instances, CallGRPC(d, i) \/ CallHTTP(d, i) PROVE Spared(c)
  BY <1>4, Called, RestSpares, NoneAssumption
<1>5. CASE UNCHANGED call
  BY <1>5, RestSpares
<1> QED
  BY <1>1, <1>2, <1>3, <1>4, <1>5 DEF Next, Step, vars, DeleteAdmin

\* Before its deadline Shutdown leaves no request without an answer: GracefulStop
\* waits for every handler, HTTPServer.Shutdown for every request of the gateway,
\* and what the closing connection interrupts is answered by the gateway.
THEOREM ShutdownCutsNobody == Spec => GracefulCutsNobody
<1>1. IInv /\ [Next]_vars =>
        [\A c \in Calls :
           call[c].pc # "over" /\ call'[c].result = "cut" =>
             LET i == call[c].at IN
             inst[i].expired \/ inst'[i].expired \/ inst'[i].end \in {"failed", "ended"}]_vars
  BY NextSpares DEF Spared
<1> QED
  BY <1>1, IInit, IStep, PTL DEF Spec, GracefulCutsNobody

-----------------------------------------------------------------------------
(* Backoff. The library's theorems on induction and on recursive functions   *)
(* take an operator, which the backends cannot instantiate: here induction   *)
(* is over a set, and follows from the order of the naturals being           *)
(* well-founded.                                                             *)

\* A set of numbers that is not empty has a least one.
LEMMA Least ==
  ASSUME NEW T \in SUBSET Nat, T # {}
  PROVE  \E x \in T : \A y \in T : x <= y
<1> DEFINE R == {ss \in Nat \X Nat : ss[1] < ss[2]}
<1>1. IsWellFoundedOn(R, Nat)
  BY NatLessThanWellFounded DEF OpToRel
<1> HIDE DEF R
<1>2. PICK x \in T : \A y \in T : ~(<<y, x>> \in R)
  BY <1>1, WFMin
<1>3. \A y \in T : ~(y < x)
  BY <1>2 DEF R
<1> QED
  BY <1>3

LEMMA SetInduction ==
  ASSUME NEW T, 0 \in T, \A n \in Nat : n \in T => n + 1 \in T
  PROVE  Nat \subseteq T
<1> SUFFICES ASSUME Nat \ T # {} PROVE FALSE
  OBVIOUS
<1>1. PICK x \in Nat \ T : \A y \in Nat \ T : x <= y
  BY Least
<1>2. x # 0 /\ x - 1 \in Nat
  BY <1>1
<1>3. x - 1 \in T
  BY <1>1, <1>2
<1> QED
  BY <1>1, <1>2, <1>3

\* f iterates step from c, m times.
Iterates(f, c, step, m) ==
  /\ f \in [0..m -> Int] /\ f[0] = c
  /\ \A n \in Nat : n < m => f[n + 1] = step[f[n]]

LEMMA IteratesExist ==
  ASSUME NEW c \in Int, NEW step \in [Int -> Int]
  PROVE  \A m \in Nat : \E f : Iterates(f, c, step, m)
<1> DEFINE T == {m \in Nat : \E f : Iterates(f, c, step, m)}
<1>1. 0 \in T
  <2>1. Iterates([n \in 0..0 |-> c], c, step, 0)
    BY DEF Iterates
  <2> QED
    BY <2>1
<1>2. ASSUME NEW m \in Nat, m \in T PROVE m + 1 \in T
  <2>1. PICK f : Iterates(f, c, step, m)
    BY <1>2
  <2> DEFINE last == step[f[m]]
             g == [n \in 0..(m + 1) |-> IF n = m + 1 THEN last ELSE f[n]]
  <2>2. f \in [0..m -> Int] /\ f[0] = c
    BY <2>1 DEF Iterates
  <2>3. last \in Int
    BY <2>2
  <2> HIDE DEF last
  <2>4. g \in [0..(m + 1) -> Int] /\ g[m + 1] = last /\ \A n \in 0..m : g[n] = f[n]
    <3>1. \A n \in 0..m : n \in 0..(m + 1) /\ n # m + 1
      OBVIOUS
    <3>2. m + 1 \in 0..(m + 1) /\ \A n \in 0..(m + 1) : n = m + 1 \/ n \in 0..m
      OBVIOUS
    <3> QED
      BY <2>2, <2>3, <3>1, <3>2
  <2> HIDE DEF g
  <2>5. ASSUME NEW n \in Nat, n < m + 1 PROVE g[n + 1] = step[g[n]]
    <3>1. CASE n = m
      <4>1. g[m] = f[m]
        BY <2>4
      <4> QED
        BY <2>4, <3>1, <4>1 DEF last
    <3>2. CASE n # m
      <4>1. n < m /\ n \in 0..m /\ n + 1 \in 0..m
        BY <2>5, <3>2
      <4>2. f[n + 1] = step[f[n]]
        BY <2>1, <4>1 DEF Iterates
      <4>3. g[n] = f[n] /\ g[n + 1] = f[n + 1]
        BY <2>4, <4>1
      <4> QED
        BY <4>2, <4>3
    <3> QED
      BY <3>1, <3>2
  <2>6. Iterates(g, c, step, m + 1)
    BY <2>2, <2>4, <2>5 DEF Iterates
  <2> QED
    BY <2>6
<1> HIDE DEF T
<1>3. Nat \subseteq T
  BY <1>1, <1>2, SetInduction
<1> QED
  BY <1>3 DEF T

LEMMA IteratesAgree ==
  ASSUME NEW c, NEW step, NEW k \in Nat, NEW m \in Nat, NEW f, NEW g,
         Iterates(f, c, step, k), Iterates(g, c, step, m),
         NEW n \in Nat, n <= k, n <= m
  PROVE  f[n] = g[n]
<1> DEFINE T == {i \in Nat : i <= k /\ i <= m => f[i] = g[i]}
<1>1. 0 \in T
  BY DEF Iterates
<1>2. ASSUME NEW i \in Nat, i \in T PROVE i + 1 \in T
  <2> SUFFICES ASSUME i + 1 <= k, i + 1 <= m PROVE f[i + 1] = g[i + 1]
    OBVIOUS
  <2>1. f[i] = g[i] /\ i < k /\ i < m
    BY <1>2
  <2>2. f[i + 1] = step[f[i]] /\ g[i + 1] = step[g[i]]
    BY <2>1 DEF Iterates
  <2> QED
    BY <2>1, <2>2
<1> HIDE DEF T
<1>3. n \in T
  BY <1>1, <1>2, SetInduction
<1> QED
  BY <1>3 DEF T

\* Iteration defines a function of all the numbers.
LEMMA Iteration ==
  ASSUME NEW c \in Int, NEW step \in [Int -> Int]
  PROVE  \E F \in [Nat -> Int] : F[0] = c /\ \A n \in Nat : F[n + 1] = step[F[n]]
<1> DEFINE P(m) == CHOOSE f : Iterates(f, c, step, m)
           F == [n \in Nat |-> P(n)[n]]
<1>1. \A m \in Nat : Iterates(P(m), c, step, m)
  BY IteratesExist
<1> HIDE DEF P
<1>2. F \in [Nat -> Int]
  BY <1>1 DEF Iterates
<1>3. F[0] = c
  BY <1>1 DEF Iterates
<1>4. ASSUME NEW n \in Nat PROVE F[n + 1] = step[F[n]]
  <2>1. Iterates(P(n), c, step, n) /\ Iterates(P(n + 1), c, step, n + 1)
    BY <1>1
  <2>2. P(n + 1)[n] = P(n)[n]
    BY <2>1, IteratesAgree
  <2>3. P(n + 1)[n + 1] = step[P(n + 1)[n]]
    BY <2>1 DEF Iterates
  <2> QED
    BY <2>2, <2>3
<1> QED
  BY <1>2, <1>3, <1>4

LEMMA MinFacts ==
  ASSUME NEW a \in Int, NEW b \in Int
  PROVE  Min({a, b}) = IF a <= b THEN a ELSE b
<1>1. PICK x \in {a, b} : x = IF a <= b THEN a ELSE b
  OBVIOUS
<1>2. \A y \in {a, b} : x <= y
  BY <1>1
<1>3. \A z \in {a, b} : (\A y \in {a, b} : z <= y) => z = x
  BY <1>1
<1>4. Min({a, b}) = x
  BY <1>2, <1>3 DEF Min
<1> QED
  BY <1>1, <1>4

LEMMA TwoToFacts ==
  /\ TwoTo[0] = 1
  /\ \A n \in Nat : TwoTo[n] \in Nat \ {0} /\ TwoTo[n + 1] = 2 * TwoTo[n]
<1> DEFINE double == [x \in Int |-> 2 * x]
           Powers(f) == f = [n \in Nat |-> IF n = 0 THEN 1 ELSE 2 * f[n - 1]]
<1>1. PICK F \in [Nat -> Int] : F[0] = 1 /\ \A n \in Nat : F[n + 1] = double[F[n]]
  <2>1. 1 \in Int /\ double \in [Int -> Int]
    OBVIOUS
  <2> HIDE DEF double
  <2> QED
    BY <2>1, Iteration
<1>2. ASSUME NEW n \in Nat PROVE F[n] = IF n = 0 THEN 1 ELSE 2 * F[n - 1]
  <2>1. CASE n # 0
    <3>1. n - 1 \in Nat /\ (n - 1) + 1 = n
      BY <2>1
    <3>2. F[n] = double[F[n - 1]] /\ F[n - 1] \in Int
      BY <1>1, <3>1
    <3> QED
      BY <2>1, <3>2
  <2> QED
    BY <1>1, <2>1
<1>3. Powers(F)
  BY <1>1, <1>2
<1>4. Powers(TwoTo)
  <2>1. TwoTo = CHOOSE f : Powers(f)
    BY DEF TwoTo
  <2> HIDE DEF Powers
  <2> QED
    BY <1>3, <2>1
<1>5. TwoTo[0] = 1 /\ \A n \in Nat : TwoTo[n + 1] = 2 * TwoTo[n]
  <2>1. ASSUME NEW n \in Nat PROVE TwoTo[n] = IF n = 0 THEN 1 ELSE 2 * TwoTo[n - 1]
    BY <1>4
  <2>2. ASSUME NEW n \in Nat PROVE TwoTo[n + 1] = 2 * TwoTo[n]
    BY <2>1
  <2> QED
    BY <2>1, <2>2
<1> DEFINE T == {n \in Nat : TwoTo[n] \in Nat \ {0}}
<1>6. 0 \in T
  BY <1>5
<1>7. ASSUME NEW n \in Nat, n \in T PROVE n + 1 \in T
  BY <1>5, <1>7
<1> HIDE DEF T
<1>8. Nat \subseteq T
  BY <1>6, <1>7, SetInduction
<1> QED
  BY <1>5, <1>8 DEF T

\* The delays are what the recursion of Backoff says.
LEMMA BackoffFacts ==
  ASSUME InitialBackoff \in Int, MaxBackoff \in Int, NEW max \in Int
  PROVE  \A n \in RetryCounts(max) :
           Backoff(max)[n] =
             IF n = 1 THEN InitialBackoff ELSE Min({2 * Backoff(max)[n - 1], MaxBackoff})
<1> DEFINE first == InitialBackoff
           cap == MaxBackoff
           N == max - 1
           next == [x \in Int |-> Min({2 * x, cap})]
           Delays(d) == d = [n \in 1..N |-> IF n = 1 THEN first ELSE Min({2 * d[n - 1], cap})]
           B == Backoff(max)
<1>1. B = CHOOSE d : Delays(d)
  BY DEF Backoff, RetryCounts
<1>2. RetryCounts(max) = 1..N
  BY DEF RetryCounts
<1>3. first \in Int /\ cap \in Int /\ N \in Int
  OBVIOUS
<1> HIDE DEF first, cap, N, B
<1>4. PICK F \in [Nat -> Int] : F[0] = first /\ \A n \in Nat : F[n + 1] = next[F[n]]
  <2>1. ASSUME NEW x \in Int PROVE Min({2 * x, cap}) \in Int
    BY <1>3, MinFacts
  <2>2. next \in [Int -> Int]
    BY <2>1
  <2> HIDE DEF next
  <2> QED
    BY <1>3, <2>2, Iteration
<1> DEFINE d == [n \in 1..N |-> F[n - 1]]
<1>5. ASSUME NEW n \in 1..N
      PROVE  d[n] = IF n = 1 THEN first ELSE Min({2 * d[n - 1], cap})
  <2>1. d[n] = F[n - 1]
    OBVIOUS
  <2>2. CASE n = 1
    BY <1>4, <2>1, <2>2
  <2>3. CASE n # 1
    <3>1. n - 2 \in Nat /\ (n - 2) + 1 = n - 1 /\ n - 1 \in 1..N /\ (n - 1) - 1 = n - 2
      BY <1>3, <2>3
    <3>2. F[n - 1] = next[F[n - 2]] /\ F[n - 2] \in Int
      BY <1>4, <3>1
    <3>3. d[n - 1] = F[n - 2]
      BY <3>1
    <3>4. F[n - 1] = Min({2 * F[n - 2], cap})
      BY <3>2
    <3> QED
      BY <2>1, <2>3, <3>3, <3>4
  <2> QED
    BY <2>2, <2>3
<1>6. Delays(d)
  <2>1. d = [n \in 1..N |-> d[n]]
    OBVIOUS
  <2> HIDE DEF d
  <2> QED
    BY <1>5, <2>1
<1>7. Delays(B)
  <2> HIDE DEF Delays, d
  <2> QED
    BY <1>1, <1>6
<1>8. \A n \in 1..N : B[n] = IF n = 1 THEN first ELSE Min({2 * B[n - 1], cap})
  BY <1>7
<1> QED
  BY <1>2, <1>8 DEF first, cap, B

LEMMA BackoffIs ==
  ASSUME InitialBackoff \in Nat \ {0}, MaxBackoff \in Nat \ {0},
         NEW max \in Int, NEW n \in RetryCounts(max)
  PROVE  /\ Backoff(max)[n] \in Nat \ {0}
         /\ n = 1 => Backoff(max)[n] = InitialBackoff
         /\ n > 1 => /\ Backoff(max)[n] = Min({InitialBackoff * TwoTo[n - 1], MaxBackoff})
                     /\ InitialBackoff <= MaxBackoff => Backoff(max)[n] >= Backoff(max)[n - 1]
<1> DEFINE first == InitialBackoff
           cap == MaxBackoff
           N == max - 1
           B == Backoff(max)
           Is(k) == IF k = 1 \/ first * TwoTo[k - 1] <= cap THEN first * TwoTo[k - 1] ELSE cap
<1>1. RetryCounts(max) = 1..N
  BY DEF RetryCounts
<1>2. first \in Nat \ {0} /\ cap \in Nat \ {0} /\ N \in Int /\ n \in 1..N
  BY <1>1
<1>3. \A k \in 1..N : B[k] = IF k = 1 THEN first ELSE Min({2 * B[k - 1], cap})
  <2>1. InitialBackoff \in Int /\ MaxBackoff \in Int
    OBVIOUS
  <2>2. \A k \in RetryCounts(max) :
          Backoff(max)[k] =
            IF k = 1 THEN InitialBackoff ELSE Min({2 * Backoff(max)[k - 1], MaxBackoff})
    BY <2>1, BackoffFacts
  <2> QED
    BY <1>1, <2>2
<1> HIDE DEF first, cap, N, B
<1>4. \A k \in Nat : first * TwoTo[k] \in Nat \ {0} /\ first * TwoTo[k + 1] = 2 * (first * TwoTo[k])
  BY <1>2, TwoToFacts
<1>5. ASSUME NEW k \in 1..N, k > 1, B[k - 1] \in Int
      PROVE  B[k] = IF 2 * B[k - 1] <= cap THEN 2 * B[k - 1] ELSE cap
  <2>1. B[k] = Min({2 * B[k - 1], cap})
    BY <1>3, <1>5
  <2>2. 2 * B[k - 1] \in Int /\ cap \in Int
    BY <1>2, <1>5
  <2> QED
    BY <2>1, <2>2, MinFacts
<1> DEFINE T == {k \in Nat : k + 1 \in 1..N => B[k + 1] = Is(k + 1)}
<1>6. 0 \in T
  <2>1. first * TwoTo[0] = first
    BY <1>2, TwoToFacts
  <2>2. 1 \in 1..N => B[1] = first
    BY <1>3
  <2> QED
    BY <2>1, <2>2
<1>7. ASSUME NEW k \in Nat, k \in T PROVE k + 1 \in T
  <2> SUFFICES ASSUME k + 2 \in 1..N PROVE B[k + 2] = Is(k + 2)
    OBVIOUS
  <2>1. k + 1 \in 1..N /\ k + 1 >= 1 /\ (k + 2) - 1 = k + 1
    BY <1>2
  <2> DEFINE p == first * TwoTo[k]
  <2>2. p \in Nat \ {0} /\ first * TwoTo[k + 1] = 2 * p
    BY <1>4
  <2>3. B[k + 1] = IF k = 0 \/ p <= cap THEN p ELSE cap
    BY <1>7, <2>1
  <2> HIDE DEF p
  <2>4. B[k + 2] = IF 2 * B[k + 1] <= cap THEN 2 * B[k + 1] ELSE cap
    BY <1>2, <1>5, <2>1, <2>2, <2>3
  <2>5. Is(k + 2) = IF 2 * p <= cap THEN 2 * p ELSE cap
    BY <2>1, <2>2
  <2> HIDE DEF Is
  <2> QED
    BY <1>2, <2>2, <2>3, <2>4, <2>5
<1> HIDE DEF T
<1>8. Nat \subseteq T
  BY <1>6, <1>7, SetInduction
<1>9. ASSUME NEW k \in 1..N PROVE B[k] = Is(k)
  <2>1. k - 1 \in Nat /\ (k - 1) + 1 = k
    OBVIOUS
  <2>2. k - 1 \in T
    BY <1>8, <2>1
  <2> HIDE DEF Is
  <2> QED
    BY <2>1, <2>2 DEF T
<1> DEFINE p == first * TwoTo[n - 1]
<1>10. p \in Nat \ {0} /\ B[n] = IF n = 1 \/ p <= cap THEN p ELSE cap
  BY <1>2, <1>4, <1>9
<1>11. B[n] \in Nat \ {0} /\ (n = 1 => B[n] = first)
  BY <1>2, <1>3, <1>10
<1>12. n > 1 => B[n] = Min({p, cap})
  <2> HIDE DEF p
  <2> QED
    BY <1>2, <1>10, MinFacts
<1>13. ASSUME n > 1, first <= cap PROVE B[n] >= B[n - 1]
  <2>1. n - 1 \in 1..N /\ n - 2 \in Nat /\ (n - 1) - 1 = n - 2 /\ (n - 2) + 1 = n - 1
    BY <1>2, <1>13
  <2> DEFINE q == first * TwoTo[n - 2]
  <2>2. q \in Nat \ {0}
    BY <1>4, <2>1
  <2>3. B[n - 1] = IF n = 2 \/ q <= cap THEN q ELSE cap
    BY <1>2, <1>9, <2>1
  <2>4. n = 2 => B[n - 1] = first
    <3>1. 1 \in 1..N => B[1] = first
      BY <1>3
    <3>2. n = 2 => n - 1 = 1
      OBVIOUS
    <3> QED
      BY <2>1, <3>1, <3>2
  <2>5. B[n] = IF 2 * B[n - 1] <= cap THEN 2 * B[n - 1] ELSE cap
    BY <1>2, <1>5, <1>13, <2>1, <2>2, <2>3
  <2> HIDE DEF q
  <2> QED
    BY <1>2, <1>13, <2>2, <2>3, <2>4, <2>5
<1> HIDE DEF p
<1>14. /\ B[n] \in Nat \ {0}
       /\ n = 1 => B[n] = first
       /\ n > 1 => /\ B[n] = Min({p, cap})
                   /\ first <= cap => B[n] >= B[n - 1]
  BY <1>11, <1>12, <1>13
<1> QED
  BY <1>14 DEF first, cap, B, p

LEMMA MaxFacts ==
  ASSUME NEW a \in Int, NEW b \in Int
  PROVE  Max({a, b}) = IF a >= b THEN a ELSE b
<1> DEFINE x == IF a >= b THEN a ELSE b
<1>1. x \in {a, b} /\ x \in Int /\ a <= x /\ b <= x
  OBVIOUS
<1>2. \A y \in {a, b} : x >= y
  BY <1>1
<1>3. \A z \in {a, b} : (\A y \in {a, b} : z >= y) => z = x
  BY <1>1
<1>4. Max({a, b}) = x
  BY <1>2, <1>3 DEF Max
<1> QED
  BY <1>4

LEMMA JitterBounds ==
  ASSUME LoadOutboxWorkerConfig.RetryJitterRatio \in Int, NEW d \in Nat \ {0}
  PROVE  /\ Jittered(d)[1] >= Min({d, Millisecond})
         /\ Jittered(d)[2] <= Max({2 * d, Millisecond})
<1> DEFINE ratio == LoadOutboxWorkerConfig.RetryJitterRatio
           ms == Millisecond
           w == Whole
           r == IF ratio > w THEN w ELSE ratio
           low == (d * (w - r)) \div w
           p == d * (w + r)
           high == p \div w
<1>1. Jittered(d) = IF ratio <= 0 THEN <<d, d>>
                    ELSE <<IF low < ms THEN ms ELSE low, IF high < ms THEN ms ELSE high>>
  BY DEF Jittered
<1>2. ratio \in Int /\ ms \in Nat \ {0} /\ w \in Nat \ {0}
  BY UnitAssumption
<1> HIDE DEF ratio, ms, w
<1>3. /\ Min({d, ms}) = IF d <= ms THEN d ELSE ms
      /\ Max({2 * d, ms}) = IF 2 * d >= ms THEN 2 * d ELSE ms
  BY <1>2, MinFacts, MaxFacts
<1>4. CASE ratio <= 0
  <2>1. Jittered(d)[1] = d /\ Jittered(d)[2] = d
    BY <1>1, <1>4
  <2> QED
    BY <1>2, <1>3, <2>1 DEF ms
<1>5. CASE ratio > 0
  <2>1. r \in Int /\ r > 0 /\ r <= w
    BY <1>2, <1>5
  <2> HIDE DEF r
  <2>2. low \in Int
    BY <1>2, <2>1
  <2>3. p \in Nat /\ p <= (2 * d) * w
    <3>1. w + r <= 2 * w /\ w + r \in Nat
      BY <1>2, <2>1
    <3> QED
      BY <1>2, <3>1
  <2> HIDE DEF p
  <2>4. high \in Int /\ high <= 2 * d
    BY <1>2, <2>3
  <2> HIDE DEF low, high
  <2>5. /\ Jittered(d)[1] = (IF low < ms THEN ms ELSE low)
        /\ Jittered(d)[2] = (IF high < ms THEN ms ELSE high)
    <3> DEFINE a == IF low < ms THEN ms ELSE low
               b == IF high < ms THEN ms ELSE high
    <3>1. ~(ratio <= 0)
      BY <1>2, <1>5
    <3>2. Jittered(d) = <<a, b>>
      BY <1>1, <3>1
    <3> HIDE DEF a, b
    <3>3. Jittered(d)[1] = a /\ Jittered(d)[2] = b
      BY <3>2
    <3> QED
      BY <3>3 DEF a, b
  <2> QED
    BY <1>2, <1>3, <2>2, <2>4, <2>5 DEF ms
<1> QED
  BY <1>2, <1>4, <1>5

\* Numbers, once LoadOutboxWorkerConfig has not refused them; but the ratio may be NaN.
LEMMA SettingFacts ==
  ASSUME TypeInv, Parses(LoadOutboxWorkerConfig)
  PROVE  /\ LoadOutboxWorkerConfig.MaxRetry \in Int
         /\ LoadOutboxWorkerConfig.RetryJitterRatio \in Int \cup {NaN}
         /\ InitialBackoff \in Nat \ {0} /\ MaxBackoff \in Nat \ {0}
<1> DEFINE c == LoadOutboxWorkerConfig
<1>1. deployment \in Deployments
  BY DEF TypeInv
<1>2. ASSUME NEW key \in RetrySettings, NEW v \in Int, GetEnv(key, v) # Malformed
      PROVE  /\ GetEnv(key, v) \in Int \cup {NaN}
             /\ key # "OUTBOX_WORKER_RETRY_JITTER_RATIO" => GetEnv(key, v) \in Int
  BY <1>1, <1>2, SettingAssumption DEF GetEnv
<1>3. /\ c.MaxRetry # Malformed /\ c.RetryJitterRatio # Malformed
      /\ c.RetryInitialBackoff # Malformed /\ c.RetryMaxBackoff # Malformed
  <2>1. DOMAIN c = {"Interval", "MaxRetry", "RetryInitialBackoff", "RetryMaxBackoff",
                    "RetryJitterRatio"}
    BY DEF LoadOutboxWorkerConfig
  <2> HIDE DEF c
  <2>2. \A field \in DOMAIN c : c[field] # Malformed
    BY DEF Parses, c
  <2> QED
    BY <2>1, <2>2
<1>4. /\ c.MaxRetry = GetEnv("OUTBOX_WORKER_MAX_RETRY", 10)
      /\ c.RetryJitterRatio = GetEnv("OUTBOX_WORKER_RETRY_JITTER_RATIO", Whole \div 5)
      /\ c.RetryInitialBackoff = GetEnv("OUTBOX_WORKER_RETRY_INITIAL_BACKOFF", 30000 * Millisecond)
      /\ c.RetryMaxBackoff = GetEnv("OUTBOX_WORKER_RETRY_MAX_BACKOFF", 1800000 * Millisecond)
  BY DEF LoadOutboxWorkerConfig
<1> DEFINE short == 30000 * Millisecond
           long == 1800000 * Millisecond
           fifth == Whole \div 5
<1>5. short \in Nat \ {0} /\ long \in Nat \ {0} /\ fifth \in Int /\ 10 \in Int
  BY UnitAssumption
<1> HIDE DEF short, long, fifth
<1>6. /\ c.MaxRetry \in Int /\ c.RetryJitterRatio \in Int \cup {NaN}
      /\ c.RetryInitialBackoff \in Int /\ c.RetryMaxBackoff \in Int
  <2> HIDE DEF c
  <2>1. /\ c.MaxRetry = GetEnv("OUTBOX_WORKER_MAX_RETRY", 10)
        /\ c.RetryJitterRatio = GetEnv("OUTBOX_WORKER_RETRY_JITTER_RATIO", fifth)
        /\ c.RetryInitialBackoff = GetEnv("OUTBOX_WORKER_RETRY_INITIAL_BACKOFF", short)
        /\ c.RetryMaxBackoff = GetEnv("OUTBOX_WORKER_RETRY_MAX_BACKOFF", long)
    BY <1>4 DEF short, long, fifth
  <2> QED
    BY <1>2, <1>3, <1>5, <2>1 DEF RetrySettings
<1> HIDE DEF c
<1>7. /\ InitialBackoff = OrDefault(c.RetryInitialBackoff, short)
      /\ MaxBackoff = OrDefault(c.RetryMaxBackoff, long)
  BY DEF InitialBackoff, MaxBackoff, c, short, long
<1>8. InitialBackoff \in Nat \ {0} /\ MaxBackoff \in Nat \ {0}
  BY <1>5, <1>6, <1>7 DEF OrDefault
<1> QED
  BY <1>6, <1>8 DEF c

\* Nobody comes past New's loaders with a setting that does not parse.
ConfigInv ==
  \A i \in Instances : inst[i].pc \notin {"down", "config"} => Parses(LoadOutboxWorkerConfig)

\* A step takes no instance past the loaders, except LoadConfig when they accept.
LoadedBefore ==
  /\ deployment' = deployment
  /\ \A i \in Instances : inst'[i].pc \notin {"down", "config"} =>
       inst[i].pc \notin {"down", "config"} \/ Parses(LoadOutboxWorkerConfig)

LEMMA ExitLoaded ==
  ASSUME TypeInv, NEW i \in Instances, NEW end, Exit(i, end), UNCHANGED deployment
  PROVE  LoadedBefore
<1>1. inst' = [inst EXCEPT ![i] = [Down(end) EXCEPT !.overlapped = inst[i].overlapped]]
  BY DEF Exit
<1> DEFINE n == [Down(end) EXCEPT !.overlapped = inst[i].overlapped]
<1>2. n.pc = "down"
  BY DEF Down
<1> HIDE DEF n
<1>3. inst' = [inst EXCEPT ![i] = n] /\ inst \in [Instances -> Instance]
  BY <1>1 DEF n, TypeInv
<1> QED
  BY <1>2, <1>3 DEF LoadedBefore

LEMMA SetLoaded ==
  ASSUME TypeInv, NEW i \in Instances, NEW n, Set(i, n), UNCHANGED deployment,
         \/ inst[i].pc \notin {"down", "config"} \/ n.pc = "config"
         \/ Parses(LoadOutboxWorkerConfig)
  PROVE  LoadedBefore
BY DEF TypeInv, Set, LoadedBefore

LEMMA EffectLoaded == ASSUME TypeInv, NEW i \in Instances, Effect(i) PROVE LoadedBefore
<1>1. deployment' = deployment
  BY DEF Effect, RunsOn, Dies
<1> QED
  BY <1>1, SetLoaded, ExitLoaded DEF Effect, RunsOn, Dies, Running

LEMMA StartLoaded ==
  ASSUME TypeInv, NEW i \in Instances,
         \/ Start(i) \/ LoadConfig(i) \/ Connect(i) \/ SeedFind(i)
         \/ SeedCreate(i) \/ SeedGrant(i) \/ NextPhase(i)
  PROVE  LoadedBefore
<1>0. UNCHANGED deployment /\ \A pc : GoTo(i, pc) => Set(i, [inst[i] EXCEPT !.pc = pc])
  BY DEF Start, LoadConfig, Connect, SeedFind, SeedCreate, SeedGrant, NextPhase, GoTo, Set
<1>1. CASE Start(i)
  <2> DEFINE n == [Down(None) EXCEPT !.pc = "config"]
  <2>1. Set(i, n)
    BY <1>1 DEF Start
  <2>2. n.pc = "config"
    BY DEF Down
  <2> HIDE DEF n
  <2> QED
    BY <1>0, <2>1, <2>2, SetLoaded
<1>2. CASE LoadConfig(i)
  <2>1. CASE Exit(i, "failed")
    BY <1>0, <2>1, ExitLoaded
  <2>2. CASE ~Exit(i, "failed")
    <3>1. Parses(LoadOutboxWorkerConfig) /\ GoTo(i, "connect")
      BY <1>2, <2>2 DEF LoadConfig
    <3> QED
      BY <1>0, <3>1, SetLoaded
  <2> QED
    BY <2>1, <2>2
<1>3. CASE Connect(i)
  <2>1. CASE Load.Env # "development"
    BY <1>0, <1>3, <2>1, SetLoaded DEF Connect, Launch
  <2>2. CASE Load.Env = "development"
    <3>1. ASSUME NEW j \in Instances, j # i PROVE inst'[j].pc = inst[j].pc
      <4>1. inst'[j] = IF Seeding(j) THEN [inst[j] EXCEPT !.overlapped = TRUE] ELSE inst[j]
        BY <1>3, <2>2, <3>1 DEF Connect
      <4>2. inst[j] \in Instance
        BY DEF TypeInv
      <4> QED
        BY <4>1, <4>2 DEF Instance
    <3>2. inst[i].pc = "connect"
      BY <1>3 DEF Connect
    <3> QED
      BY <1>0, <3>1, <3>2 DEF LoadedBefore
  <2> QED
    BY <2>1, <2>2
<1>4. CASE SeedFind(i)
  <2>1. inst[i].pc = "seed" /\ (Exit(i, "conflict") \/ \E n : Set(i, n))
    BY <1>0, <1>4 DEF SeedFind
  <2> QED
    BY <1>0, <2>1, SetLoaded, ExitLoaded
<1>5. CASE SeedCreate(i) \/ SeedGrant(i)
  <2>1. inst[i].pc \in {"seed", "create"} /\ (Exit(i, "conflict") \/ \E n : Set(i, n))
    BY <1>5 DEF SeedCreate, SeedGrant
  <2> QED
    BY <1>0, <2>1, SetLoaded, ExitLoaded
<1>6. CASE NextPhase(i)
  <2>1. inst[i].pc = "seed" /\ \E n : Set(i, n)
    BY <1>6 DEF NextPhase, Launch
  <2> QED
    BY <1>0, <2>1, SetLoaded
<1> QED
  BY <1>1, <1>2, <1>3, <1>4, <1>5, <1>6

LEMMA NextLoaded == ASSUME IInv, [Next]_vars PROVE LoadedBefore
<1>0. TypeInv /\ CallInv
  BY DEF IInv
<1>1. ASSUME NEW i \in Instances, Start(i) \/ LoadConfig(i) \/ Connect(i) \/ SeedFind(i)
               \/ SeedCreate(i) \/ SeedGrant(i) \/ NextPhase(i)
      PROVE  LoadedBefore
  BY <1>0, <1>1, StartLoaded
<1>2. ASSUME NEW i \in Instances, Serve(i, "grpc") \/ Serve(i, "http") \/ WorkerRun(i)
               \/ WorkerEnd(i) \/ Select(i) \/ GracefulStop(i) \/ Drained(i) \/ Deadline(i)
               \/ CloseHTTP(i) \/ CloseConn(i) \/ Fail(i) \/ Signal(i)
      PROVE  LoadedBefore
  BY <1>0, <1>2, ServesGRPC, ServesHTTP, WorkerRuns, WorkerEnds, Selects, GracefulStops, Drains,
     Expires, ConnCloses, HTTPCloses, Fails, Signals, EffectLoaded DEF Fail
<1>3. CASE UNCHANGED <<deployment, inst>>
  BY <1>3 DEF LoadedBefore
<1>4. ASSUME NEW c \in Calls, NEW i \in Instances,
             Forward(c) \/ Finish(c) \/ Reply(c) \/ CallGRPC(c, i) \/ CallHTTP(c, i)
      PROVE  UNCHANGED <<deployment, inst>>
  BY <1>4 DEF Forward, Finish, Reply, CallGRPC, CallHTTP
<1>5. ASSUME NEW c \in Calls, Forward(c) \/ Finish(c) \/ Reply(c)
      PROVE  UNCHANGED <<deployment, inst>>
  BY <1>5 DEF Forward, Finish, Reply
<1> QED
  BY <1>1, <1>2, <1>3, <1>4, <1>5 DEF Next, Step, vars, DeleteAdmin

\* For every configuration with which the application starts and every limit of an
\* event, the delays of the worker double up to the maximum. The jitter, unless its
\* ratio is NaN, at most doubles a delay or raises it to a millisecond, and never
\* makes it shorter than both.
THEOREM RetriesAlwaysBackOff == Spec => []RetriesBackOff
<1>1. Init => ConfigInv
  <2>1. Down(None).pc = "down"
    BY DEF Down
  <2> QED
    BY <2>1 DEF Init, ConfigInv
<1>2. IInv /\ ConfigInv /\ [Next]_vars => ConfigInv'
  <2> SUFFICES ASSUME IInv, ConfigInv, [Next]_vars PROVE ConfigInv'
    OBVIOUS
  <2>1. LoadedBefore
    BY NextLoaded
  <2>2. LoadOutboxWorkerConfig' = LoadOutboxWorkerConfig
    BY <2>1 DEF LoadedBefore, LoadOutboxWorkerConfig, GetEnv
  <2> QED
    BY <2>1, <2>2 DEF LoadedBefore, ConfigInv, Parses
<1>3. IInv /\ ConfigInv => RetriesBackOff
  <2> SUFFICES ASSUME IInv, ConfigInv, NEW i \in Instances, inst[i].worker = "running",
                      NEW e \in EventMaxRetries, NEW n \in RetryCounts(MaxRetryOf(e))
               PROVE  LET delay == Backoff(MaxRetryOf(e)) IN
                      /\ n > 1 => /\ delay[n] = Min({InitialBackoff * TwoTo[n - 1], MaxBackoff})
                                  /\ InitialBackoff <= MaxBackoff => delay[n] >= delay[n - 1]
                      /\ LoadOutboxWorkerConfig.RetryJitterRatio # NaN =>
                           /\ Jittered(delay[n])[1] >= Min({delay[n], Millisecond})
                           /\ Jittered(delay[n])[2] <= Max({2 * delay[n], Millisecond})
    BY DEF RetriesBackOff
  <2>1. TypeInv /\ inst[i].pc \in Running
    BY DEF IInv, TypeInv, ServerOK
  <2>2. Parses(LoadOutboxWorkerConfig)
    BY <2>1 DEF ConfigInv, Running
  <2>3. /\ LoadOutboxWorkerConfig.MaxRetry \in Int
        /\ LoadOutboxWorkerConfig.RetryJitterRatio \in Int \cup {NaN}
        /\ InitialBackoff \in Nat \ {0} /\ MaxBackoff \in Nat \ {0}
    BY <2>1, <2>2, SettingFacts
  <2>4. MaxRetryOf(e) \in Int
    BY <2>3, EventAssumption DEF MaxRetryOf
  <2> DEFINE max == MaxRetryOf(e)
  <2> HIDE DEF max
  <2>5. max \in Int /\ n \in RetryCounts(max)
    BY <2>4 DEF max
  <2>6. /\ Backoff(max)[n] \in Nat \ {0}
        /\ n > 1 => /\ Backoff(max)[n] = Min({InitialBackoff * TwoTo[n - 1], MaxBackoff})
                    /\ InitialBackoff <= MaxBackoff => Backoff(max)[n] >= Backoff(max)[n - 1]
    BY <2>3, <2>5, BackoffIs
  <2>7. ASSUME LoadOutboxWorkerConfig.RetryJitterRatio # NaN
        PROVE  /\ Jittered(Backoff(max)[n])[1] >= Min({Backoff(max)[n], Millisecond})
               /\ Jittered(Backoff(max)[n])[2] <= Max({2 * Backoff(max)[n], Millisecond})
    BY <2>3, <2>6, <2>7, JitterBounds
  <2> QED
    BY <2>6, <2>7 DEF max
<1> QED
  BY <1>1, <1>2, <1>3, IInit, IStep, PTL DEF Spec
=============================================================================
