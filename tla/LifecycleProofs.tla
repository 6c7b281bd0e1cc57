-------------------------- MODULE LifecycleProofs --------------------------
(***************************************************************************)
(* Proofs about Lifecycle for any number of requests and starts, any       *)
(* deployments, any capacity of the outbox and any faults of the broker.   *)
(***************************************************************************)
EXTENDS Lifecycle, TLAPS

-----------------------------------------------------------------------------
(* The inductive invariant *)

\* A process that is up has a store, the one its environment names: without a
\* database address in sight no process starts unless none was configured.
StoreWired ==
    /\ proc = "down" => wired = Unwired /\ ~conn
    /\ proc \in Alive =>
          /\ \/ wired.store = "postgres"
             \/ wired.store = "memory" /\ deployment.dsn = "none"
          /\ conn = deployment.broker
    /\ wired.conductor => wired.outbound
    /\ wired.envelope => wired.conductor

\* A handler runs in a process, and past its save the job is in the store.
HandlerAlive ==
    \A r \in Requests :
        /\ handler[r] \in Running => proc \in Alive
        /\ handler[r] \in {"emit", "created"} /\ deployment.dsn # "none" => r \in database

\* A flush with a broker that takes events in time has left nothing in the outbox
\* but what was emitted after it.
FlushLeft ==
    proc = "stopped" /\ inTime /\ deployment.broker => Spooled \subseteq late

LifecycleInv == TypeOK /\ StoreWired /\ HandlerAlive /\ EvidenceKept /\ FlushLeft

-----------------------------------------------------------------------------
(* The outbox *)

\* Putting an event into the outbox keeps the events that are in it.
LEMMA SpoolAppended ==
  ASSUME TypeOK, NEW r \in Requests, spool' = Append(spool, r)
  PROVE  /\ spool' \in Seq(Requests)
         /\ Len(spool') = Len(spool) + 1
         /\ \A i \in 1 .. Len(spool) : spool'[i] = spool[i]
         /\ spool'[Len(spool) + 1] = r
         /\ Spooled' = Spooled \cup {r}
<1>1. spool \in Seq(Requests)
  BY DEF TypeOK
<1>2. /\ spool' \in Seq(Requests)
      /\ Len(spool') = Len(spool) + 1 /\ Len(spool) \in Nat
      /\ \A i \in 1 .. Len(spool) : spool'[i] = spool[i]
      /\ spool'[Len(spool) + 1] = r
  BY <1>1
<1>3. Spooled' \subseteq Spooled \cup {r}
  BY <1>2 DEF Spooled
<1>4. Spooled \cup {r} \subseteq Spooled'
  BY <1>2 DEF Spooled
<1> QED
  BY <1>2, <1>3, <1>4

\* Taking the oldest event out of the outbox leaves the others.
LEMMA SpoolDrained ==
  ASSUME TypeOK, spool # <<>>, spool' = Tail(spool)
  PROVE  /\ spool' \in Seq(Requests)
         /\ Len(spool') = Len(spool) - 1
         /\ \A i \in 1 .. Len(spool') : i + 1 \in 1 .. Len(spool) /\ spool'[i] = spool[i + 1]
         /\ Head(spool) \in Requests
         /\ Spooled \subseteq Spooled' \cup {Head(spool)}
<1>1. spool \in Seq(Requests)
  BY DEF TypeOK
<1>2. /\ spool' \in Seq(Requests)
      /\ Len(spool') = Len(spool) - 1 /\ Len(spool) \in Nat \ {0}
      /\ \A i \in 1 .. Len(spool') : i + 1 \in 1 .. Len(spool) /\ spool'[i] = spool[i + 1]
      /\ Head(spool) = spool[1] /\ Head(spool) \in Requests
  BY <1>1
<1>3. ASSUME NEW i \in 1 .. Len(spool), i # 1
      PROVE  i - 1 \in 1 .. Len(spool') /\ spool[i] = spool'[i - 1]
  BY <1>2, <1>3
<1>4. ASSUME NEW q \in Spooled
      PROVE  q \in Spooled' \cup {Head(spool)}
  <2>1. PICK i \in 1 .. Len(spool) : q = spool[i]
    BY <1>4 DEF Spooled
  <2>2. CASE i = 1
    BY <2>1, <2>2, <1>2
  <2>3. CASE i # 1
    <3>1. i - 1 \in 1 .. Len(spool') /\ q = spool'[i - 1]
      BY <1>3, <2>1, <2>3
    <3> QED
      BY <3>1 DEF Spooled
  <2> QED
    BY <2>2, <2>3
<1> QED
  BY <1>2, <1>4

-----------------------------------------------------------------------------
(* The invariant is kept *)

\* Every handler's and the process's steps keep the types.
LEMMA TypeKept ==
  ASSUME TypeOK, [Next]_lvars
  PROVE  TypeOK'
<1> USE LifecycleAssumption
<1>1. CASE WriteSecret
  BY <1>1 DEF WriteSecret, TypeOK
<1>2. CASE Start
  <2>1. deployment.broker \in BOOLEAN
    BY DEF TypeOK, DeploymentType
  <2>2. starts + 1 \in 0 .. MaxStarts
    BY <1>2 DEF Start, TypeOK
  <2>3. wired' \in [store : {"none", "postgres", "memory"}, outbound : BOOLEAN,
                    conductor : BOOLEAN, envelope : BOOLEAN]
    <3>1. OutboundEnabled \in BOOLEAN /\ ConductorReady \in BOOLEAN
      BY DEF OutboundEnabled, ConductorReady
    <3>2. (ConductorReady /\ EnvelopeReady) \in BOOLEAN
      BY DEF ConductorReady, EnvelopeReady
    <3> QED
      BY <1>2, <3>1, <3>2, Zenon DEF Start
  <2> QED
    BY <1>2, <2>1, <2>2, <2>3 DEF Start, TypeOK, Alive
<1>3. CASE Stop \/ StopTasks \/ FlushEnds
  BY <1>3 DEF Stop, StopTasks, FlushEnds, TypeOK, Alive
<1>4. CASE Dies
  BY <1>4 DEF Dies, TypeOK, Unwired
<1>5. ASSUME NEW r \in Requests, CreateSigning(r)
      PROVE  TypeOK'
  BY <1>5 DEF CreateSigning, TypeOK, Running
<1>6. ASSUME NEW r \in Requests, SaveJob(r)
      PROVE  TypeOK'
  BY <1>6 DEF SaveJob, TypeOK, Running
<1>7. ASSUME NEW r \in Requests, Emit(r)
      PROVE  TypeOK'
  <2>1. spool' \in Seq(Requests) /\ Len(spool') <= OutboxCapacity
    <3>1. CASE spool' = spool
      BY <3>1 DEF TypeOK
    <3>2. CASE spool' = Append(spool, r) /\ Len(spool) < OutboxCapacity
      BY <3>2, SpoolAppended DEF TypeOK
    <3> QED
      BY <1>7, <3>1, <3>2 DEF Emit
  <2> QED
    BY <1>7, <2>1 DEF Emit, TypeOK, Running
<1>8. CASE Drain
  <2>1. spool' \in Seq(Requests) /\ Len(spool') <= OutboxCapacity /\ Head(spool) \in Requests
    BY <1>8, SpoolDrained DEF Drain, TypeOK
  <2> QED
    BY <1>8, <2>1 DEF Drain, TypeOK
<1>9. CASE BrokerMoves
  BY <1>9 DEF BrokerMoves, TypeOK
<1>10. CASE UNCHANGED lvars
  BY <1>10 DEF lvars, TypeOK
<1> QED
  BY <1>1, <1>2, <1>3, <1>4, <1>5, <1>6, <1>7, <1>8, <1>9, <1>10
  DEF Next, ProcessStep, CloseConn, Crash, Handle

\* A process that starts has the store its environment names, and whatever a
\* conductor needs.
LEMMA StartWires ==
  ASSUME TypeOK, Start
  PROVE  StoreWired'
<1>1. deployment \in DeploymentType /\ deployment' = deployment
  BY LifecycleAssumption DEF TypeOK, Start
<1>2. wired' = [store     |-> IF StorePostgres THEN "postgres" ELSE "memory",
                outbound  |-> OutboundEnabled,
                conductor |-> ConductorReady,
                envelope  |-> ConductorReady /\ EnvelopeReady]
  BY DEF Start
<1>3. wired'.store = "postgres" \/ (wired'.store = "memory" /\ deployment.dsn = "none")
  <2>1. CASE StorePostgres
    BY <1>2, <2>1
  <2>2. CASE ~StorePostgres
    <3>1. deployment.dsn = "none"
      BY <1>1, <2>2 DEF Start, StorePostgres, refuseEmptyFileSecret, StoreDSN, DeploymentType
    <3> QED
      BY <1>2, <2>2, <3>1
  <2> QED
    BY <2>1, <2>2
<1>4. ConductorReady => OutboundEnabled
  BY DEF ConductorReady, OutboundEnabled
<1>5. (wired'.conductor => wired'.outbound) /\ (wired'.envelope => wired'.conductor)
  BY <1>2, <1>4, Zenon
<1>6. proc' = "serving" /\ conn' = deployment'.broker
  BY <1>1 DEF Start
<1> QED
  BY <1>1, <1>3, <1>5, <1>6 DEF StoreWired, Alive

\* Every step keeps the wiring, the handlers and their jobs in step.
LEMMA WiringKept ==
  ASSUME TypeOK, StoreWired, HandlerAlive, [Next]_lvars
  PROVE  StoreWired' /\ HandlerAlive'
<1>1. CASE WriteSecret \/ BrokerMoves \/ Drain
  BY <1>1 DEF WriteSecret, BrokerMoves, Drain, StoreWired, HandlerAlive
<1>2. CASE Start
  BY <1>2, StartWires DEF Start, HandlerAlive, Alive
<1>3. CASE Stop \/ StopTasks \/ FlushEnds
  BY <1>3 DEF Stop, StopTasks, FlushEnds, StoreWired, HandlerAlive, Alive
<1>4. CASE Dies
  BY <1>4 DEF Dies, StoreWired, HandlerAlive, Alive, Running, Unwired, TypeOK
<1>5. ASSUME NEW r \in Requests, CreateSigning(r)
      PROVE  StoreWired' /\ HandlerAlive'
  BY <1>5 DEF CreateSigning, StoreWired, HandlerAlive, Alive, Running, TypeOK
<1>6. ASSUME NEW r \in Requests, SaveJob(r)
      PROVE  StoreWired' /\ HandlerAlive'
  <2>1. StoreWired'
    BY <1>6 DEF SaveJob, StoreWired
  <2>2. proc \in Alive /\ proc' = proc
    BY <1>6 DEF SaveJob, HandlerAlive, Running
  <2>3. ASSUME NEW q \in Requests
        PROVE  /\ handler'[q] \in Running => proc' \in Alive
               /\ handler'[q] \in {"emit", "created"} /\ deployment'.dsn # "none" => q \in database'
    BY <1>6, <2>2 DEF SaveJob, HandlerAlive, StoreWired, TypeOK
  <2> QED
    BY <2>1, <2>3 DEF HandlerAlive
<1>7. ASSUME NEW r \in Requests, Emit(r)
      PROVE  StoreWired' /\ HandlerAlive'
  BY <1>7 DEF Emit, StoreWired, HandlerAlive, Running, TypeOK
<1>8. CASE UNCHANGED lvars
  BY <1>8 DEF lvars, StoreWired, HandlerAlive
<1> QED
  BY <1>1, <1>2, <1>3, <1>4, <1>5, <1>6, <1>7, <1>8
  DEF Next, ProcessStep, CloseConn, Crash, Handle

\* What a step does to the events that are kept: they stay kept, and an answer is
\* given together with its event or past a full outbox.
LEMMA EventsStay ==
  ASSUME TypeOK, [Next]_lvars
  PROVE  /\ deployment' = deployment
         /\ Spooled \cup published \subseteq Spooled' \cup published'
         /\ full \subseteq full'
         /\ \A q \in Requests :
               handler[q] # "created" /\ handler'[q] = "created" =>
                  q \in Spooled' \/ ~Durable \/ q \in full'
<1> DEFINE Stays ==
      /\ deployment' = deployment
      /\ Spooled \cup published \subseteq Spooled' \cup published'
      /\ full \subseteq full'
      /\ \A q \in Requests :
            handler[q] # "created" /\ handler'[q] = "created" =>
               q \in Spooled' \/ ~Durable \/ q \in full'
<1>1. ASSUME UNCHANGED <<deployment, spool, published, full>>,
             \A q \in Requests : handler[q] # "created" => handler'[q] # "created"
      PROVE  Stays
  BY <1>1 DEF Spooled
<1>2. CASE Dies
  BY <1>1, <1>2 DEF Dies, TypeOK, Running
<1>3. ASSUME NEW r \in Requests, CreateSigning(r) \/ SaveJob(r)
      PROVE  Stays
  BY <1>1, <1>3 DEF CreateSigning, SaveJob, TypeOK
<1>4. ASSUME NEW r \in Requests, Emit(r)
      PROVE  Stays
  <2>1. /\ deployment' = deployment /\ published \subseteq published' /\ full \subseteq full'
        /\ \A q \in Requests \ {r} : handler'[q] = handler[q]
    BY <1>4 DEF Emit, TypeOK
  <2>2. CASE spool' = Append(spool, r)
    <3>1. Spooled' = Spooled \cup {r}
      BY <2>2, SpoolAppended
    <3> QED
      BY <2>1, <3>1
  <2>3. CASE spool' = spool /\ ~(Durable /\ Len(spool) < OutboxCapacity)
    <3>1. Len(spool) \in Nat /\ OutboxCapacity \in Nat
      BY LifecycleAssumption DEF TypeOK
    <3>2. ~Durable \/ r \in full'
      BY <1>4, <2>3, <3>1 DEF Emit
    <3> QED
      BY <2>1, <2>3, <3>2 DEF Spooled
  <2> QED
    BY <1>4, <2>2, <2>3 DEF Emit
<1>5. CASE Drain
  <2>1. Spooled \subseteq Spooled' \cup {Head(spool)}
    BY <1>5, SpoolDrained DEF Drain
  <2> QED
    BY <1>5, <2>1 DEF Drain
<1>6. CASE WriteSecret \/ Start \/ Stop \/ StopTasks \/ FlushEnds \/ BrokerMoves \/ UNCHANGED lvars
  BY <1>1, <1>6 DEF WriteSecret, Start, Stop, StopTasks, FlushEnds, BrokerMoves, lvars
<1>7. CASE CloseConn \/ Crash
  BY <1>2, <1>7 DEF CloseConn, Crash
<1> QED
  BY <1>3, <1>4, <1>5, <1>6, <1>7, Zenon DEF Next, ProcessStep, Handle

\* No event of an answered request is lost but one that met a full outbox.
LEMMA EventsKept ==
  ASSUME TypeOK, EvidenceKept, [Next]_lvars
  PROVE  EvidenceKept'
<1> SUFFICES ASSUME deployment.broker, deployment.outbox,
                    NEW q \in Requests, handler'[q] = "created"
             PROVE  q \in Spooled' \cup published' \cup full'
  BY EventsStay DEF EvidenceKept
<1>1. CASE handler[q] = "created"
  <2>1. q \in Spooled \cup published \cup full
    BY <1>1 DEF EvidenceKept
  <2> QED
    BY <2>1, EventsStay
<1>2. CASE handler[q] # "created"
  BY <1>2, EventsStay DEF Durable
<1> QED
  BY <1>1, <1>2

\* A flush that ends although the broker takes events has nothing left to send,
\* since a deployment with a broker is still connected; after it only late events
\* enter the outbox.
LEMMA FlushKept ==
  ASSUME TypeOK, StoreWired, FlushLeft, [Next]_lvars
  PROVE  FlushLeft'
<1>1. ASSUME UNCHANGED <<deployment, proc, inTime, spool, late>>
      PROVE  FlushLeft'
  BY <1>1 DEF FlushLeft, Spooled
<1>2. CASE WriteSecret \/ UNCHANGED lvars
  BY <1>1, <1>2 DEF WriteSecret, lvars
<1>3. CASE Start \/ Stop \/ StopTasks \/ Dies \/ BrokerMoves
  BY <1>3 DEF Start, Stop, StopTasks, Dies, BrokerMoves, FlushLeft
<1>4. CASE FlushEnds
  <2>1. conn = deployment.broker
    BY <1>4 DEF FlushEnds, StoreWired, Alive
  <2>2. inTime' /\ deployment'.broker => spool' = <<>>
    BY <1>4, <2>1 DEF FlushEnds
  <2>3. spool' = <<>> => Spooled' = {}
    BY DEF Spooled
  <2> QED
    BY <2>2, <2>3 DEF FlushLeft
<1>5. ASSUME NEW r \in Requests, CreateSigning(r) \/ SaveJob(r)
      PROVE  FlushLeft'
  BY <1>1, <1>5 DEF CreateSigning, SaveJob
<1>6. ASSUME NEW r \in Requests, Emit(r)
      PROVE  FlushLeft'
  <2>1. spool' = Append(spool, r) => Spooled' = Spooled \cup {r}
    BY SpoolAppended
  <2>2. Spooled' \subseteq Spooled \cup {r}
    BY <1>6, <2>1 DEF Emit, Spooled
  <2> QED
    BY <1>6, <2>2 DEF Emit, FlushLeft
<1>7. CASE Drain
  BY <1>7 DEF Drain, FlushLeft
<1> QED
  BY <1>2, <1>3, <1>4, <1>5, <1>6, <1>7, Zenon
  DEF Next, ProcessStep, CloseConn, Crash, Handle

-----------------------------------------------------------------------------
(* The theorems *)

\* The first process has yet to start; nothing is stored, spooled or running.
LEMMA InitInv == Init => LifecycleInv
<1> SUFFICES ASSUME Init PROVE LifecycleInv
  OBVIOUS
<1>1. TypeOK
  <2>1. wired \in [store : {"none", "postgres", "memory"}, outbound : BOOLEAN,
                   conductor : BOOLEAN, envelope : BOOLEAN]
    BY DEF Init, Unwired
  <2>2. handler \in [Requests -> {"idle", "created", "failed"} \cup Running]
    BY DEF Init
  <2>3. spool \in Seq(Requests) /\ Len(spool) <= OutboxCapacity /\ starts \in 0 .. MaxStarts
    BY LifecycleAssumption DEF Init
  <2>4. conn \in BOOLEAN /\ broker = "up" /\ secret \in BOOLEAN /\ proc = "down"
    BY Zenon DEF Init
  <2>5. /\ deployment \in Deployments /\ memory \subseteq Requests /\ database \subseteq Requests
        /\ published \subseteq Requests /\ full \subseteq Requests /\ late \subseteq Requests
        /\ inTime \in BOOLEAN
    BY Zenon DEF Init
  <2> QED
    BY <2>1, <2>2, <2>3, <2>4, <2>5, Zenon DEF TypeOK
<1>2. StoreWired
  <2>1. wired.conductor = FALSE /\ wired.envelope = FALSE
    BY DEF Init, Unwired
  <2>2. proc = "down" /\ proc \notin Alive /\ wired = Unwired /\ conn = FALSE
    BY DEF Init, Alive
  <2> QED
    BY <2>1, <2>2, Zenon DEF StoreWired
<1>3. HandlerAlive
  BY DEF Init, HandlerAlive, Running
<1>4. EvidenceKept /\ FlushLeft
  BY DEF Init, EvidenceKept, FlushLeft
<1> QED
  BY <1>1, <1>2, <1>3, <1>4 DEF LifecycleInv

\* The invariant holds in every reachable state.
THEOREM InvHolds == Spec => []LifecycleInv
<1>1. LifecycleInv /\ [Next]_lvars => LifecycleInv'
  BY TypeKept, WiringKept, EventsKept, FlushKept DEF LifecycleInv
<1> QED
  BY <1>1, InitInv, PTL DEF Spec

\* Type correctness.
THEOREM TypeCorrect == Spec => []TypeOK
<1>1. LifecycleInv => TypeOK
  BY DEF LifecycleInv
<1> QED
  BY <1>1, InvHolds, PTL

\* An answered signing of a deployment with a database is in the database,
\* whenever the file with its address was written and however often the process
\* stopped, died and started.
THEOREM JobsSurvive == Spec => []CreatedKept
<1>1. LifecycleInv => CreatedKept
  BY DEF LifecycleInv, HandlerAlive, CreatedKept
<1> QED
  BY <1>1, InvHolds, PTL

\* The event of an answered request is in the outbox or published, unless it met
\* a full outbox, for any number of requests, any capacity and any order of stops,
\* crashes, restarts and outages.
THEOREM EvidenceSurvives == Spec => []EvidenceKept
<1>1. LifecycleInv => EvidenceKept
  BY DEF LifecycleInv
<1> QED
  BY <1>1, InvHolds, PTL

\* Whatever New builds is complete, for every set of configured collaborators.
THEOREM WiringComplete == Spec => []ConductorComplete
<1>1. LifecycleInv => ConductorComplete
  <2> SUFFICES ASSUME LifecycleInv PROVE ConductorComplete
    OBVIOUS
  <2>1. proc \in {"down"} \cup Alive
    BY DEF LifecycleInv, TypeOK
  <2>2. wired.conductor => wired.store # "none"
    BY <2>1 DEF LifecycleInv, StoreWired, Unwired
  <2> QED
    BY <2>1, <2>2 DEF LifecycleInv, StoreWired, ConductorComplete
<1> QED
  BY <1>1, InvHolds, PTL

\* A shutdown whose broker took events in time has published the event of every
\* answered request, but for the two kinds of events it names, for any number of
\* requests that emit meanwhile (App.Stop).
THEOREM ShutdownDelivers == Spec => []StopDelivers
<1>1. LifecycleInv => StopDelivers
  BY DEF LifecycleInv, EvidenceKept, FlushLeft, StopDelivers
<1> QED
  BY <1>1, InvHolds, PTL
=============================================================================
