----------------------------- MODULE Lifecycle -----------------------------
(***************************************************************************)
(* One instance of the service from configuration to shutdown (src/app.go, *)
(* src/config.go, src/secretfile.go, src/audit/drain.go): which store and  *)
(* which collaborators it wires, what happens to accepted jobs and to      *)
(* spooled evidence when it stops, dies and starts again, and a secrets    *)
(* agent that writes the database address after the service first starts.  *)
(*                                                                         *)
(* A request is a createSigning in brief: it saves its job and emits one   *)
(* event.  The framework that runs the server and the tasks, the outbox on *)
(* disk and the broker are outside the repository.                         *)
(***************************************************************************)
EXTENDS Naturals, Sequences, FiniteSets

CONSTANTS
    Requests,       \* createSigning requests; also their jobs and events
    Deployments,    \* the environments the service may run in
    OutboxCapacity, \* events the outbox holds
    MaxStarts,      \* bound: how often the process starts; the last one stays
    BrokerFaults    \* "away": unreachable for a while; "slow": takes events, but late

Collaborators == {"signer", "document", "envelope"}

\* dsn: where SIGNING_STORE_DSN comes from, "both" the environment and a file.
DeploymentType == [dsn : {"none", "env", "file", "both"}, urls : SUBSET Collaborators,
                   broker : BOOLEAN, outbox : BOOLEAN]

ASSUME LifecycleAssumption ==
    /\ Deployments \subseteq DeploymentType
    /\ IsFiniteSet(Requests)
    /\ OutboxCapacity \in Nat
    /\ MaxStarts \in Nat
    /\ BrokerFaults \subseteq {"away", "slow"}

VARIABLES
    deployment, \* the environment, fixed
    secret,     \* the agent has written the secret's file
    proc,       \* the process
    starts,     \* how often it has started
    wired,      \* what init built: [store, outbound, conductor, envelope]
    conn,       \* the broker connection is open
    memory,     \* jobs in the in-memory store
    database,   \* jobs in the database
    handler,    \* handler[r]: how far request r is
    broker,     \* how the broker is
    spool,      \* events in the outbox, on disk
    published,  \* events the broker has
    inTime,     \* the broker has taken events in time since the flush began

    \* History, which no guard reads:
    full,       \* requests that emitted when the outbox was at its capacity
    late        \* requests that emitted when the flush of this process was over

lvars == <<deployment, secret, proc, starts, wired, conn, memory, database, handler,
           broker, spool, published, inTime, full, late>>

Alive    == {"serving", "stopping", "flushing", "stopped"}
Running  == {"save", "emit"}
Unwired  == [store |-> "none", outbound |-> FALSE, conductor |-> FALSE, envelope |-> FALSE]

TypeOK ==
    /\ deployment \in Deployments
    /\ secret \in BOOLEAN /\ conn \in BOOLEAN
    /\ broker \in {"up"} \cup BrokerFaults
    /\ proc \in {"down"} \cup Alive
    /\ starts \in 0 .. MaxStarts
    /\ wired \in [store : {"none", "postgres", "memory"}, outbound : BOOLEAN,
                  conductor : BOOLEAN, envelope : BOOLEAN]
    /\ memory \subseteq Requests /\ database \subseteq Requests
    /\ handler \in [Requests -> {"idle", "created", "failed"} \cup Running]
    /\ spool \in Seq(Requests) /\ Len(spool) <= OutboxCapacity
    /\ published \subseteq Requests
    /\ inTime \in BOOLEAN
    /\ full \subseteq Requests /\ late \subseteq Requests

Init ==
    /\ deployment \in Deployments
    /\ secret \in BOOLEAN
    /\ proc = "down"
    /\ starts = 0
    /\ wired = Unwired
    /\ conn = FALSE
    /\ memory = {} /\ database = {}
    /\ handler = [r \in Requests |-> "idle"]
    /\ broker = "up"
    /\ spool = <<>>
    /\ published = {}
    /\ inTime = FALSE
    /\ full = {} /\ late = {}

Reachable == broker # "away"

Spooled == {spool[i] : i \in 1 .. Len(spool)}

-----------------------------------------------------------------------------
(* Configuration *)

\* loadSecret: the file's content is a default that the environment overrides.
StoreDSN == deployment.dsn \in {"env", "both"} \/ (deployment.dsn = "file" /\ secret)

\* Variant: a file that gives no value counts as not set.
refuseEmptyFileSecret_Never == FALSE

\* A secret named as a file that gives no value stops the start.
refuseEmptyFileSecret == deployment.dsn \in {"file", "both"} /\ ~StoreDSN

StorePostgres == StoreDSN

\* Variant: the outbound client is built for the envelope service only.
OutboundEnabled_Envelope == "envelope" \in deployment.urls

OutboundEnabled == deployment.urls # {}
ConductorReady  == {"signer", "document"} \subseteq deployment.urls
EnvelopeReady   == "envelope" \in deployment.urls

\* Variant: the emitter is built without its outbox.
Durable_Never == FALSE

\* initAudit: events are spooled when a broker and a directory are configured.
Durable == deployment.broker /\ deployment.outbox

-----------------------------------------------------------------------------
(* The process *)

\* The secrets agent writes the file.
WriteSecret ==
    /\ ~secret
    /\ secret' = TRUE
    /\ UNCHANGED <<deployment, proc, starts, wired, conn, memory, database, handler,
                   broker, spool, published, inTime, full, late>>

\* New and init.  A refusal or a failing broker connection ends the process at
\* once, and it is started again.
Start ==
    /\ proc = "down"
    /\ starts < MaxStarts
    /\ ~refuseEmptyFileSecret
    /\ deployment.broker => Reachable
    /\ proc' = "serving"
    /\ starts' = starts + 1
    /\ wired' = [store     |-> IF StorePostgres THEN "postgres" ELSE "memory",
                 outbound  |-> OutboundEnabled,
                 conductor |-> ConductorReady,
                 envelope  |-> ConductorReady /\ EnvelopeReady]
    /\ conn' = deployment.broker
    /\ inTime' = FALSE
    /\ late' = {}
    /\ UNCHANGED <<deployment, secret, memory, database, handler, broker, spool, published,
                   full>>

\* Variant: the broker connection is closed before the outbox is flushed.
Stop_ConnFirst ==
    /\ proc = "serving" /\ starts < MaxStarts
    /\ proc' = "stopping"
    /\ conn' = FALSE
    /\ UNCHANGED <<deployment, secret, starts, wired, memory, database, handler, broker,
                   spool, published, inTime, full, late>>

\* Stop closes the store first; the requests in flight go on without it.
Stop ==
    /\ proc = "serving" /\ starts < MaxStarts
    /\ proc' = "stopping"
    /\ UNCHANGED <<deployment, secret, starts, wired, conn, memory, database, handler,
                   broker, spool, published, inTime, full, late>>

\* App.Stop has the drain task close the emitter, which flushes the outbox; the
\* framework may do so before or after the last request has ended.
StopTasks ==
    /\ proc = "stopping"
    /\ proc' = "flushing"
    /\ inTime' = (broker = "up")
    /\ UNCHANGED <<deployment, secret, starts, wired, conn, memory, database, handler,
                   broker, spool, published, full, late>>

\* The flush ends when the outbox is empty, or after five seconds: there is no
\* broker to publish to, or at some time it did not take the events in time.
FlushEnds ==
    /\ proc = "flushing"
    /\ spool = <<>> \/ ~conn \/ ~inTime
    /\ proc' = "stopped"
    /\ UNCHANGED <<deployment, secret, starts, wired, conn, memory, database, handler,
                   broker, spool, published, inTime, full, late>>

\* What a dead process takes along: its memory and its requests.
Dies ==
    /\ proc' = "down"
    /\ wired' = Unwired
    /\ conn' = FALSE
    /\ memory' = {}
    /\ handler' = [r \in Requests |-> IF handler[r] \in Running THEN "failed" ELSE handler[r]]
    /\ UNCHANGED <<deployment, secret, starts, database, broker, spool, published, inTime,
                   full, late>>

CloseConn == proc = "stopped" /\ Dies
Crash     == proc \in Alive /\ (starts < MaxStarts \/ proc # "serving") /\ Dies

-----------------------------------------------------------------------------
(* Requests *)

\* Without a conductor the route answers 503.
CreateSigning(r) ==
    /\ proc = "serving"
    /\ handler[r] = "idle"
    /\ handler' = [handler EXCEPT ![r] = IF wired.conductor THEN "save" ELSE "failed"]
    /\ UNCHANGED <<deployment, secret, proc, starts, wired, conn, memory, database, broker,
                   spool, published, inTime, full, late>>

\* Save the job.  The call may fail, and fails on a pool that is closed; closing
\* the in-memory store does nothing.
SaveJob(r) ==
    /\ handler[r] = "save"
    /\ \/ /\ wired.store = "memory" \/ proc = "serving"
          /\ handler' = [handler EXCEPT ![r] = "emit"]
          /\ IF wired.store = "postgres"
             THEN database' = database \cup {r} /\ UNCHANGED memory
             ELSE memory' = memory \cup {r} /\ UNCHANGED database
       \/ /\ handler' = [handler EXCEPT ![r] = "failed"]
          /\ UNCHANGED <<memory, database>>
    /\ UNCHANGED <<deployment, secret, proc, starts, wired, conn, broker, spool, published,
                   inTime, full, late>>

\* Variant: the outbox takes events beyond its capacity.
Emit_Unbounded(r) ==
    /\ handler[r] = "emit"
    /\ handler' = [handler EXCEPT ![r] = "created"]
    /\ spool' = IF Durable THEN Append(spool, r) ELSE spool
    /\ published' = IF ~Durable /\ conn /\ Reachable THEN published \cup {r} ELSE published
    /\ full' = IF Len(spool) >= OutboxCapacity THEN full \cup {r} ELSE full
    /\ late' = IF proc = "stopped" THEN late \cup {r} ELSE late
    /\ UNCHANGED <<deployment, secret, proc, starts, wired, conn, memory, database, broker,
                   inTime>>

\* The event is spooled, or published before the answer; an error is only
\* logged.  A full outbox takes no event.
Emit(r) ==
    /\ handler[r] = "emit"
    /\ handler' = [handler EXCEPT ![r] = "created"]
    /\ spool' = IF Durable /\ Len(spool) < OutboxCapacity THEN Append(spool, r) ELSE spool
    /\ published' = IF ~Durable /\ conn /\ Reachable THEN published \cup {r} ELSE published
    /\ full' = IF Len(spool) >= OutboxCapacity THEN full \cup {r} ELSE full
    /\ late' = IF proc = "stopped" THEN late \cup {r} ELSE late
    /\ UNCHANGED <<deployment, secret, proc, starts, wired, conn, memory, database, broker,
                   inTime>>

\* Variant: only the flush of a shutdown publishes.
Drain_FlushOnly ==
    /\ proc = "flushing" /\ conn /\ Reachable
    /\ spool # <<>>
    /\ published' = published \cup {Head(spool)}
    /\ spool' = Tail(spool)
    /\ UNCHANGED <<deployment, secret, proc, starts, wired, conn, memory, database, handler,
                   broker, inTime, full, late>>

\* The background drainer publishes the oldest event and then removes it; the
\* flush of the shutdown does the same.
Drain ==
    /\ proc \in {"serving", "stopping", "flushing"}
    /\ conn /\ Reachable
    /\ spool # <<>>
    /\ published' = published \cup {Head(spool)}
    /\ spool' = Tail(spool)
    /\ UNCHANGED <<deployment, secret, proc, starts, wired, conn, memory, database, handler,
                   broker, inTime, full, late>>

BrokerMoves ==
    /\ broker' \in ({"up"} \cup BrokerFaults) \ {broker}
    /\ inTime' = FALSE
    /\ UNCHANGED <<deployment, secret, proc, starts, wired, conn, memory, database, handler,
                   spool, published, full, late>>

-----------------------------------------------------------------------------
ProcessStep == Start \/ StopTasks \/ FlushEnds \/ CloseConn
Handle(r)   == SaveJob(r) \/ Emit(r)

Next ==
    \/ WriteSecret \/ ProcessStep \/ Stop \/ Crash \/ Drain \/ BrokerMoves
    \/ \E r \in Requests : CreateSigning(r) \/ Handle(r)

Spec == Init /\ [][Next]_lvars

\* The agent writes the file, the supervisor starts the process again, Stop runs
\* to its end, handlers go on; a broker that is away or slow recovers, and
\* then the drainer gets to publish however often the process is restarted.
Fairness ==
    /\ WF_lvars(WriteSecret)
    /\ SF_lvars(Start)
    /\ WF_lvars(StopTasks) /\ WF_lvars(FlushEnds) /\ WF_lvars(CloseConn)
    /\ WF_lvars(BrokerMoves /\ broker' = "up")
    /\ SF_lvars(Drain)
    /\ \A r \in Requests : WF_lvars(Handle(r))

FairSpec == Spec /\ Fairness

-----------------------------------------------------------------------------
(* Properties *)

\* A signing that was answered as created is still there after any number of
\* stops, crashes and restarts if the deployment names a database, also while
\* the file with its address is not there yet (refuseEmptyFileSecret: "an unset
\* database address silently selects the in-memory store").
CreatedKept ==
    \A r \in Requests :
        handler[r] = "created" /\ deployment.dsn # "none" => r \in database

\* What New builds fits together: a conductor has a store and the client its
\* calls go through, and whatever serves has been wired (three predicates over
\* the same addresses decide this, each on its own).
ConductorComplete ==
    /\ wired.conductor => wired.outbound /\ wired.store # "none"
    /\ wired.envelope => wired.conductor
    /\ proc = "serving" => wired.store # "none" /\ (conn \/ ~deployment.broker)

\* With the outbox, the event of an answered request is on disk or published,
\* whatever became of the process and the broker since; the only events that are
\* lost are those emitted into an outbox that was full at that moment (config.go:
\* "evidence survives a broker outage / restart").
EvidenceKept ==
    deployment.broker /\ deployment.outbox =>
        \A r \in Requests : handler[r] = "created" => r \in Spooled \cup published \cup full

\* When a process has stopped and its broker took events in time, the events of
\* all answered requests, those of earlier processes included, are published:
\* all but the ones a full outbox refused and the ones that requests still in
\* flight emitted after the flush, which wait on disk for the next start
\* (App.Stop: the flush comes "while the broker connection is still live; only
\* then is it closed").
StopDelivers ==
    proc = "stopped" /\ inTime /\ deployment.broker /\ deployment.outbox =>
        \A r \in Requests : handler[r] = "created" => r \in published \cup full \cup late

\* An event in the outbox reaches the broker, across stops, crashes, restarts
\* and outages.
SpoolDelivered == \A r \in Requests : r \in Spooled ~> r \in published
=============================================================================
