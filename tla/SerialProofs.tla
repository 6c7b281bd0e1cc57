---------------------------- MODULE SerialProofs ----------------------------
(***************************************************************************)
(* Proofs about Conductor under assumptions about what surrounds it        *)
(* (Serialized): a lock in front of it that runs the requests of a slot    *)
(* one at a time, a record store that answers and instances that live on.  *)
(***************************************************************************)
EXTENDS ConductorProofs, FiniteSetTheorems

-----------------------------------------------------------------------------
(* One record per job, when the requests of a slot run one at a time, the    *)
(* record store answers, no instance dies in the middle of a handler and the *)
(* provider refuses signature values for jobs that have ended                *)

Serialized ==
    /\ {"poll", "submit"} \subseteq SerializedOps /\ "validate" \notin SerializedOps
    /\ Faults \subseteq {"collab", "lostReply", "lapse"}
    /\ ~LateSubmit

\* Calls of a poll or a submission up to the record, and up to COMPLETED.
UnrecordedAt == {"status", "reconcile", "store", "insert", "mirror"}
DrivingAt    == UnrecordedAt \cup {"submit", "keepalive", "complete"}

\* The request belongs to an operation that is serialized.
OpKept == \A r \in Requests : req[r].pc \in DrivingAt => req[r].op \in SerializedOps

\* Requests of one slot run one at a time.
OneAtATime ==
    \A q, r \in Requests :
        /\ {req[q].pc, req[r].pc} \subseteq RequestRunning
        /\ {req[q].op, req[r].op} \subseteq SerializedOps
        /\ slotOf(req[q].job) = slotOf(req[r].job)
        => q = r

\* A handler on its way to the record is its job's first to get there.
Unrecorded == \A r \in Requests : req[r].pc \in UnrecordedAt => ~Recorded(req[r].job)

\* A handler past READY has seen the provider's job end.
EndedAt(q) ==
    \/ q.pc = "reconcile" /\ q.st = "READY"
    \/ q.pc \in {"store", "insert"}
EndSeen == \A r \in Requests : EndedAt(req[r]) => provider[req[r].job] \in {"READY", "FAILED"}

\* A record is its job's last word, but for the write of COMPLETED.
RecordLast ==
    \A a \in Attempts : Recorded(a) =>
        /\ provider[a] \in {"READY", "FAILED"}
        /\ \/ jobs[a] = "COMPLETED"
           \/ \E r \in Requests : req[r].pc = "complete" /\ req[r].job = a

\* A Begin finds neither provider work nor a job row of its own.
BeginFresh ==
    \A a \in Attempts :
        /\ att[a].pc \in {"idle", "head", "lock", "prepare"} => provider[a] = "none"
        /\ att[a].pc \in {"idle", "head", "lock", "prepare", "save"} => jobs[a] = "none"

SerialInv ==
    OpKept /\ OneAtATime /\ Unrecorded /\ EndSeen /\ RecordLast /\ BeginFresh /\ OneRecordPerJob

\* A request of a slot goes on, or ends.
Proceeds(q) ==
    /\ req'[q].pc \in RequestRunning => /\ req[q].pc \in RequestRunning
                                        /\ req'[q].job = req[q].job
                                        /\ req'[q].op = req[q].op
    /\ req'[q].pc \in DrivingAt => req[q].pc \in DrivingAt \ {"complete"}
    /\ req'[q].pc \in UnrecordedAt => ~Recorded(req[q].job)
    /\ EndedAt(req'[q]) => provider[req[q].job] \in {"READY", "FAILED"}
    /\ req[q].pc = "complete" => jobs'[req[q].job] = "COMPLETED"

\* What a step that records nothing does to the jobs.
JobsSettle ==
    \A a \in Attempts :
        /\ provider[a] \in {"READY", "FAILED"} => provider'[a] = provider[a]
        /\ Recorded(a) /\ jobs[a] = "COMPLETED" => jobs'[a] = "COMPLETED"

\* A step that inserts no record keeps the invariant.
LEMMA SerialInvStays ==
  ASSUME HandlerInv, SerialInv, UNCHANGED input, BeginFresh', JobsSettle,
         Len(sigs') = Len(sigs),
         \A k \in 1 .. Len(sigs) : sigs'[k].job = sigs[k].job,
         \A q \in Requests : req'[q] = req[q] \/ Proceeds(q)
  PROVE  SerialInv'
  <1> USE DEF SerialInv
  <1>1. \A a : Recorded(a)' <=> Recorded(a)
    BY DEF Recorded
  <1>2. DrivingAt \subseteq RequestRunning /\ UnrecordedAt \subseteq DrivingAt
    BY DEF DrivingAt, UnrecordedAt, RequestRunning
  <1>3. \A q \in Requests : req[q].pc \in RequestRunning => req[q].job \in Attempts
    BY RunningJob
  <1>4. OpKept'
    BY <1>2 DEF OpKept, Proceeds
  <1>5. OneAtATime'
    BY DEF OneAtATime, Proceeds, slotOf
  <1>6. Unrecorded'
    BY <1>1, <1>2 DEF Unrecorded, Proceeds
  <1>7. EndSeen'
    <2> SUFFICES ASSUME NEW q \in Requests, EndedAt(req'[q])
                 PROVE  provider'[req'[q].job] \in {"READY", "FAILED"}
      BY DEF EndSeen, EndedAt
    <2>1. req'[q].pc \in RequestRunning
      BY DEF EndedAt, RequestRunning
    <2>2. /\ req[q].pc \in RequestRunning /\ req'[q].job = req[q].job
          /\ provider[req[q].job] \in {"READY", "FAILED"}
      BY <2>1 DEF Proceeds, EndSeen
    <2> QED BY <1>3, <2>2 DEF JobsSettle
  <1>8. RecordLast'
    <2> SUFFICES ASSUME NEW a \in Attempts, Recorded(a)
                 PROVE  /\ provider'[a] \in {"READY", "FAILED"}
                        /\ \/ jobs'[a] = "COMPLETED"
                           \/ \E r \in Requests : req'[r].pc = "complete" /\ req'[r].job = a
      BY <1>1 DEF RecordLast
    <2>1. provider'[a] \in {"READY", "FAILED"}
      BY DEF RecordLast, JobsSettle
    <2>2. CASE jobs[a] = "COMPLETED"
      BY <2>1, <2>2 DEF JobsSettle
    <2>3. ASSUME NEW r \in Requests, req[r].pc = "complete", req[r].job = a
          PROVE  jobs'[a] = "COMPLETED" \/ (req'[r].pc = "complete" /\ req'[r].job = a)
      <3>1. CASE req'[r] = req[r]
        BY <2>3, <3>1
      <3>2. CASE Proceeds(r)
        BY <2>3, <3>2 DEF Proceeds
      <3> QED BY <3>1, <3>2
    <2> QED BY <2>1, <2>2, <2>3 DEF RecordLast
  <1>9. OneRecordPerJob'
    BY DEF OneRecordPerJob
  <1> QED BY <1>4, <1>5, <1>6, <1>7, <1>8, <1>9

\* Begin's steps come before its job can have a record.
LEMMA BeginKeepsSerialInv ==
  ASSUME Serialized, HandlerInv, SerialInv, NEW a \in Attempts, BeginStep(a) \/ ProviderMoves(a)
  PROVE  SerialInv'
  <1>0. /\ UNCHANGED <<input, sigs, req>>
        /\ att \in [Attempts -> BeginType]
        /\ jobs \in [Attempts -> JobStates \cup {"none"}]
        /\ provider \in [Attempts -> ProviderStates \cup {"none"}]
    BY DEF BeginStep, ProviderMoves, BeginChecks, ResolveHead, AcquireLock, Prepare, SaveJob,
           ReleaseOnFailure, HandlerInv, TypeOK
  <1>1. ASSUME UNCHANGED <<jobs, provider>>, NEW new, att' = [att EXCEPT ![a] = new],
               new.pc \in {"idle", "head", "lock", "prepare", "save"} =>
                   att[a].pc \in {"idle", "head", "lock", "prepare"},
               new.pc # "save" \/ jobs[a] = "none"
        PROVE  BeginFresh' /\ JobsSettle
    BY <1>0, <1>1 DEF SerialInv, BeginFresh, JobsSettle
  <1>2. ASSUME UNCHANGED <<jobs, provider>>, NEW l, BeginAt(a, l),
               l \in {"head", "prepare"} => att[a].pc \in {"idle", "head", "lock"},
               l \notin {"idle", "lock", "save"}
        PROVE  BeginFresh' /\ JobsSettle
    <2> DEFINE new == [att[a] EXCEPT !.pc = l, !.st = "PENDING"]
    <2>1. att' = [att EXCEPT ![a] = new] /\ new.pc = l
      BY <1>0, <1>2 DEF BeginAt, BeginWith, BeginType
    <2> HIDE DEF new
    <2> QED BY <1>1, <1>2, <2>1
  <1>3. ASSUME BeginChecks(a)
        PROVE  BeginFresh' /\ JobsSettle
    BY <1>2, <1>3 DEF BeginChecks
  <1>4. ASSUME NEW o, ResolveHead(a, o)
        PROVE  BeginFresh' /\ JobsSettle
    <2>1. CASE BeginAt(a, "failed")
      BY <1>2, <1>4, <2>1 DEF ResolveHead
    <2>2. ASSUME NEW new, att' = [att EXCEPT ![a] = new], new.pc \in {"lock", "prepare"}
          PROVE  BeginFresh' /\ JobsSettle
      BY <1>1, <1>4, <2>2 DEF ResolveHead
    <2> QED BY <1>4, <2>1, <2>2 DEF ResolveHead
  <1>5. ASSUME NEW o, AcquireLock(a, o)
        PROVE  BeginFresh' /\ JobsSettle
    BY <1>2, <1>5 DEF AcquireLock
  <1>6. ASSUME NEW o, Prepare(a, o)
        PROVE  BeginFresh' /\ JobsSettle
    <2>1. /\ att[a].pc = "prepare" /\ provider[a] = "none" /\ jobs[a] = "none"
          /\ jobs' = jobs
          /\ \A b \in Attempts \ {a} : provider'[b] = provider[b]
      BY <1>0, <1>6 DEF Prepare, SerialInv, BeginFresh
    <2>2. /\ \A b \in Attempts \ {a} : att'[b] = att[b]
          /\ att'[a].pc \in {"save", "unlock", "failed"}
      BY <1>6, BeginGoes DEF Prepare, BeginAt, unwind, HandlerInv
    <2> QED BY <2>1, <2>2 DEF SerialInv, BeginFresh, JobsSettle
  <1>7. ASSUME NEW o, SaveJob(a, o)
        PROVE  BeginFresh' /\ JobsSettle
    <2>1. /\ att[a].pc = "save" /\ jobs[a] = "none"
          /\ provider' = provider
          /\ \A b \in Attempts \ {a} : jobs'[b] = jobs[b]
      BY <1>0, <1>7 DEF SaveJob, SerialInv, BeginFresh
    <2>2. /\ \A b \in Attempts \ {a} : att'[b] = att[b]
          /\ att'[a].pc \in {"bound", "unlock", "failed"}
      BY <1>7, BeginGoes DEF SaveJob, BeginAt, unwind, HandlerInv
    <2> QED BY <2>1, <2>2 DEF SerialInv, BeginFresh, JobsSettle
  <1>8. ASSUME NEW o, ReleaseOnFailure(a, o)
        PROVE  BeginFresh' /\ JobsSettle
    BY <1>2, <1>8 DEF ReleaseOnFailure
  <1>9. ASSUME ProviderMoves(a)
        PROVE  BeginFresh' /\ JobsSettle
    <2>1. /\ provider[a] = "PENDING" /\ UNCHANGED <<att, jobs>>
          /\ \A b \in Attempts \ {a} : provider'[b] = provider[b]
      BY <1>0, <1>9 DEF ProviderMoves
    <2> QED BY <2>1 DEF SerialInv, BeginFresh, JobsSettle
  <1> QED BY <1>0, <1>3, <1>4, <1>5, <1>6, <1>7, <1>8, <1>9, SerialInvStays DEF BeginStep

\* A request is admitted when no other of its slot is under way; a poll of a
\* job with a record finds it COMPLETED.
LEMMA ArriveKeepsSerialInv ==
  ASSUME Serialized, HandlerInv, SerialInv, NEW r \in Requests, Arrive(r)
  PROVE  SerialInv'
  <1>0. /\ UNCHANGED <<input, att, jobs, sigs, provider>>
        /\ req[r].pc = "idle"
        /\ req \in [Requests -> RequestType]
    BY DEF Arrive, Reconcile, SubmitClientSignature, Abandon, GetJob, Validate, HandlerInv, TypeOK
  <1>1. BeginFresh' /\ JobsSettle
    BY <1>0 DEF SerialInv, BeginFresh, JobsSettle
  <1>2. ASSUME \A q \in Requests \ {r} : req'[q] = req[q], req'[r].pc = "done"
        PROVE  SerialInv'
    <2>1. Proceeds(r)
      BY <1>0, <1>2 DEF Proceeds, RequestRunning, DrivingAt, UnrecordedAt, EndedAt
    <2> QED BY <1>0, <1>1, <1>2, <2>1, SerialInvStays
  <1>3. CASE End(r)
    BY <1>2, <1>3, EndMoves DEF HandlerInv
  <1>4. ASSUME NEW c, NEW a \in Attempts, NEW op, NEW l \in {"status", "submit", "abandon"},
               GetJob(r, op, c, a, l), ~End(r),
               l = "abandon" \/ op \in {"poll", "submit"},
               l = "status" => jobs[a] # "COMPLETED"
        PROVE  SerialInv'
    <2>1. /\ req'[r].pc = l /\ req'[r].op = op /\ req'[r].job = a /\ req'[r].st = "PENDING"
          /\ \A q \in Requests \ {r} : req'[q] = req[q]
          /\ Admitted(op, a)
      BY <1>0, <1>4 DEF GetJob, End, IdleRequest
    <2>2. l # "abandon" => op \in SerializedOps
      BY <1>4 DEF Serialized
    <2>3. l = "status" => ~Recorded(a)
      <3> SUFFICES ASSUME l = "status", Recorded(a)
                   PROVE  FALSE
        OBVIOUS
      <3>1. PICK q \in Requests : req[q].pc = "complete" /\ req[q].job = a
        BY <1>4 DEF SerialInv, RecordLast
      <3>2. req[q].op \in SerializedOps /\ req[q].pc \in RequestRunning
        BY <3>1 DEF SerialInv, OpKept, DrivingAt, RequestRunning
      <3> QED BY <2>1, <2>2, <3>1, <3>2 DEF Admitted
    <2>4. OpKept'
      BY <2>1, <2>2 DEF SerialInv, OpKept, DrivingAt, UnrecordedAt
    <2>5. OneAtATime'
      BY <1>0, <2>1 DEF SerialInv, OneAtATime, Admitted, slotOf
    <2>6. Unrecorded'
      BY <1>0, <2>1, <2>3 DEF SerialInv, Unrecorded, UnrecordedAt, Recorded
    <2>7. EndSeen'
      BY <1>0, <2>1 DEF SerialInv, EndSeen, EndedAt
    <2>8. RecordLast' /\ OneRecordPerJob'
      BY <1>0, <2>1 DEF SerialInv, RecordLast, Recorded, OneRecordPerJob
    <2> QED BY <1>1, <2>4, <2>5, <2>6, <2>7, <2>8 DEF SerialInv
  <1>5. ASSUME NEW c, NEW k \in 1 .. Len(sigs), Validate(r, c, k), ~End(r)
        PROVE  SerialInv'
    <2>1. /\ req'[r].pc = "report" /\ req'[r].op = "validate"
          /\ req'[r].job = sigs[k].job
          /\ \A q \in Requests \ {r} : req'[q] = req[q]
      BY <1>0, <1>5 DEF Validate, End, IdleRequest
    <2>4. OpKept' /\ Unrecorded' /\ EndSeen'
      BY <1>0, <2>1 DEF SerialInv, OpKept, Unrecorded, EndSeen, EndedAt, DrivingAt, UnrecordedAt, Recorded
    <2>5. OneAtATime'
      BY <1>0, <2>1 DEF Serialized, SerialInv, OneAtATime, slotOf
    <2>8. RecordLast' /\ OneRecordPerJob'
      BY <1>0, <2>1 DEF SerialInv, RecordLast, Recorded, OneRecordPerJob
    <2> QED BY <1>1, <2>4, <2>5, <2>8 DEF SerialInv
  <1>6. ASSUME NEW c, NEW a \in Attempts, Reconcile(r, c, a), ~End(r)
        PROVE  SerialInv'
    <2>1. jobs[a] # "COMPLETED" /\ GetJob(r, "poll", c, a, "status")
      BY <1>6 DEF Reconcile, GetJob, End
    <2> QED BY <1>4, <1>6, <2>1
  <1>7. ASSUME NEW c, NEW a \in Attempts, SubmitClientSignature(r, c, a), ~End(r)
        PROVE  SerialInv'
    BY <1>4, <1>7 DEF SubmitClientSignature
  <1>8. ASSUME NEW c, NEW a \in Attempts, Abandon(r, c, a), ~End(r)
        PROVE  SerialInv'
    <2>1. GetJob(r, "abandon", c, a, "abandon")
      BY <1>8 DEF Abandon, GetJob, End
    <2> QED BY <1>4, <1>8, <2>1
  <1> QED BY <1>3, <1>5, <1>6, <1>7, <1>8 DEF Arrive

\* A step of request r that inserts no record.
LEMMA MoveKeepsSerialInv ==
  ASSUME HandlerInv, SerialInv, NEW r \in Requests, UNCHANGED <<input, att>>,
         Len(sigs') = Len(sigs),
         \A k \in 1 .. Len(sigs) : sigs'[k].job = sigs[k].job,
         \A q \in Requests \ {r} : req'[q] = req[q],
         Proceeds(r), JobsSettle,
         \A a \in Attempts : provider[a] = "none" => provider'[a] = "none",
         \A a \in Attempts : jobs[a] = "none" => jobs'[a] = "none"
  PROVE  SerialInv'
  <1>1. BeginFresh'
    BY DEF SerialInv, BeginFresh
  <1> QED BY <1>1, SerialInvStays

\* A handler that ends before COMPLETED is due, or after.
LEMMA EndProceeds ==
  ASSUME TypeOK, NEW r \in Requests, End(r), req[r].pc # "complete"
  PROVE  Proceeds(r) /\ \A q \in Requests \ {r} : req'[q] = req[q]
  BY EndMoves DEF Proceeds, RequestRunning, DrivingAt, UnrecordedAt, EndedAt

\* A handler that goes to another call.
LEMMA GoesOn ==
  ASSUME HandlerInv, SerialInv, NEW r \in Requests, req[r].pc \in RequestRunning,
         NEW new, req' = [req EXCEPT ![r] = new],
         new.job = req[r].job, new.op = req[r].op,
         new.pc \in DrivingAt => req[r].pc \in DrivingAt \ {"complete"},
         new.pc \in UnrecordedAt => req[r].pc \in UnrecordedAt \/ ~Recorded(req[r].job),
         EndedAt(new) => EndedAt(req[r]) \/ provider[req[r].job] \in {"READY", "FAILED"},
         req[r].pc = "complete" => jobs'[req[r].job] = "COMPLETED"
  PROVE  Proceeds(r) /\ \A q \in Requests \ {r} : req'[q] = req[q]
  <1>1. req'[r] = new /\ \A q \in Requests \ {r} : req'[q] = req[q]
    BY DEF HandlerInv, TypeOK
  <1>2. req[r].pc \in UnrecordedAt => ~Recorded(req[r].job)
    BY DEF SerialInv, Unrecorded
  <1>3. EndedAt(req[r]) => provider[req[r].job] \in {"READY", "FAILED"}
    BY DEF SerialInv, EndSeen
  <1> QED BY <1>1, <1>2, <1>3 DEF Proceeds

\* The store's calls succeed.
LEMMA StoreAnswers ==
  ASSUME Serialized
  PROVE  Outcomes("store") = {"ok"} /\ "crash" \notin Faults
  BY DEF Serialized, Outcomes

\* InsertSignature: the first record of its job.
LEMMA InsertKeepsSerialInv ==
  ASSUME HandlerInv, SerialInv, NEW r \in Requests, InsertSignature(r, "ok")
  PROVE  SerialInv'
  <1> DEFINE a == req[r].job
             new == [req[r] EXCEPT !.pc = "complete", !.sig = Len(sigs) + 1]
  <1>0. /\ req[r].pc = "insert" /\ UNCHANGED <<input, att, jobs, provider>>
        /\ sigs' = Append(sigs, signatureRecord(r))
        /\ req' = [req EXCEPT ![r] = new]
    BY DEF InsertSignature, Applied
  <1>1. req[r] \in RequestType /\ req \in [Requests -> RequestType] /\ a \in Attempts
    BY <1>0, RunningJob DEF HandlerInv, TypeOK, RequestRunning
  <1>2. /\ req'[r].pc = "complete" /\ req'[r].job = a /\ req'[r].op = req[r].op
        /\ \A q \in Requests \ {r} : req'[q] = req[q]
    BY <1>0, <1>1 DEF RequestType
  <1>3. sigs \in Seq(RecordType) /\ signatureRecord(r) \in RecordType
    BY <1>1 DEF HandlerInv, TypeOK, RequestType, signatureRecord, RecordType
  <1>4. /\ Len(sigs) \in Nat
        /\ Len(sigs') = Len(sigs) + 1
        /\ \A k \in 1 .. Len(sigs) : sigs'[k] = sigs[k]
        /\ sigs'[Len(sigs) + 1].job = a
        /\ \A k \in 1 .. Len(sigs') : k \in 1 .. Len(sigs) \/ k = Len(sigs) + 1
    BY <1>0, <1>3, AppendProperties DEF signatureRecord
  <1>5. \A b : Recorded(b)' => Recorded(b) \/ b = a
    BY <1>4 DEF Recorded
  <1>6. ~Recorded(a) /\ provider[a] \in {"READY", "FAILED"} /\ req[r].op \in SerializedOps
    BY <1>0 DEF SerialInv, OpKept, Unrecorded, EndSeen, UnrecordedAt, DrivingAt, EndedAt
  <1> HIDE DEF a, new
  <1>7. \A q \in Requests \ {r} : req[q].pc \in DrivingAt => req[q].job # a
    <2>1. DrivingAt \subseteq RequestRunning /\ "insert" \in RequestRunning
      BY DEF DrivingAt, UnrecordedAt, RequestRunning
    <2>2. \A q \in Requests \ {r} : req[q].pc \in DrivingAt => req[q].op \in SerializedOps
      BY DEF SerialInv, OpKept
    <2> QED BY <1>0, <1>6, <2>1, <2>2 DEF SerialInv, OneAtATime, a
  <1>8. OpKept'
    BY <1>2, <1>6 DEF SerialInv, OpKept
  <1>9. OneAtATime'
    BY <1>0, <1>2 DEF SerialInv, OneAtATime, slotOf, a, RequestRunning
  <1>10. Unrecorded'
    <2> SUFFICES ASSUME NEW q \in Requests, req'[q].pc \in UnrecordedAt,
                        NEW b, b = req'[q].job, Recorded(b)'
                 PROVE  FALSE
      BY DEF Unrecorded, Recorded
    <2>1. q # r /\ req[q].pc \in UnrecordedAt /\ b = req[q].job
      BY <1>2 DEF UnrecordedAt
    <2>2. Recorded(b) \/ b = a
      BY <1>5
    <2> QED BY <1>7, <2>1, <2>2 DEF SerialInv, Unrecorded, DrivingAt
  <1>11. EndSeen'
    BY <1>0, <1>2 DEF SerialInv, EndSeen, EndedAt
  <1>12. RecordLast'
    BY <1>0, <1>2, <1>5, <1>6 DEF SerialInv, RecordLast
  <1>13. BeginFresh'
    BY <1>0 DEF SerialInv, BeginFresh
  <1>14. OneRecordPerJob'
    BY <1>4, <1>6 DEF SerialInv, OneRecordPerJob, Recorded
  <1> QED BY <1>8, <1>9, <1>10, <1>11, <1>12, <1>13, <1>14 DEF SerialInv

\* The other steps of a request.
LEMMA RequestKeepsSerialInv ==
  ASSUME Serialized, HandlerInv, SerialInv, NEW r \in Requests, RequestStep(r) \/ CrashRequest(r)
  PROVE  SerialInv'
  <1> DEFINE a == req[r].job
  <1>0. /\ req \in [Requests -> RequestType] /\ req[r] \in RequestType
        /\ jobs \in [Attempts -> JobStates \cup {"none"}]
        /\ provider \in [Attempts -> ProviderStates \cup {"none"}]
        /\ TypeOK
    BY DEF HandlerInv, TypeOK
  <1>r. req[r].pc \in RequestRunning => a \in Attempts /\ jobs[a] # "none"
    BY RunningJob
  <1>1. ASSUME UNCHANGED <<input, att, jobs, sigs, provider>>, Proceeds(r),
               \A q \in Requests \ {r} : req'[q] = req[q]
        PROVE  SerialInv'
    <2>1. JobsSettle
      BY <1>1 DEF JobsSettle
    <2> QED BY <1>1, <2>1, MoveKeepsSerialInv
  <1>2. ASSUME UNCHANGED <<input, att, jobs, sigs, provider>>, End(r), req[r].pc # "complete"
        PROVE  SerialInv'
    BY <1>0, <1>1, <1>2, EndProceeds
  <1>3. ASSUME UNCHANGED <<input, att, jobs, sigs, provider>>, req[r].pc \in RequestRunning,
               NEW l, l \notin DrivingAt, At(r, l), req[r].pc # "complete"
        PROVE  SerialInv'
    <2> DEFINE new == [req[r] EXCEPT !.pc = l]
    <2>1. /\ req' = [req EXCEPT ![r] = new]
          /\ new.pc = l /\ new.job = a /\ new.op = req[r].op
      BY <1>0, <1>3 DEF At, RequestType
    <2>2. l \notin UnrecordedAt /\ ~EndedAt(new)
      BY <1>3, <2>1 DEF DrivingAt, UnrecordedAt, EndedAt
    <2> HIDE DEF new
    <2> QED BY <1>1, <1>3, <2>1, <2>2, GoesOn
  <1>4. ASSUME NEW o, KeepAlive(r, o) \/ AbandonRelease(r, o)
        PROVE  SerialInv'
    BY <1>2, <1>4 DEF KeepAlive, AbandonRelease
  <1>5. ASSUME NEW o, ReleaseChainLock(r, o) \/ notifySlotSigned(r, o)
        PROVE  SerialInv'
    BY <1>3, <1>5 DEF ReleaseChainLock, notifySlotSigned, DrivingAt, UnrecordedAt, RequestRunning
  <1>6. ASSUME NEW o, PollStatus(r, o)
        PROVE  SerialInv'
    <2> DEFINE new == [req[r] EXCEPT !.pc = "reconcile", !.st = provider[a]]
    <2>1. /\ req[r].pc = "status" /\ UNCHANGED <<input, att, jobs, sigs, provider>>
          /\ End(r) \/ req' = [req EXCEPT ![r] = new]
      BY <1>6 DEF PollStatus
    <2>2. new.pc = "reconcile" /\ new.job = a /\ new.op = req[r].op /\ new.st = provider[a]
      BY <1>0 DEF RequestType
    <2>3. EndedAt(new) => provider[a] \in {"READY", "FAILED"}
      BY <2>2 DEF EndedAt
    <2>4. {"reconcile", "status"} \subseteq UnrecordedAt \cap DrivingAt \cap RequestRunning
      BY DEF UnrecordedAt, DrivingAt, RequestRunning
    <2> HIDE DEF new
    <2>5. CASE req' = [req EXCEPT ![r] = new]
      BY <1>1, <2>1, <2>2, <2>3, <2>4, <2>5, GoesOn
    <2> QED BY <1>2, <2>1, <2>5
  <1>7. ASSUME NEW o, StoreSignedDocument(r, o) \/ CompleteContainer(r, o) \/ CompleteConflict(r)
        PROVE  SerialInv'
    <2>1. req[r].pc = "store" /\ UNCHANGED <<input, att, jobs, sigs, provider>>
      BY <1>7 DEF StoreSignedDocument, CompleteContainer, CompleteConflict
    <2>2. \/ End(r)
          \/ \E new : /\ req' = [req EXCEPT ![r] = new]
                      /\ new.pc \in {"store", "insert"} /\ new.job = a /\ new.op = req[r].op
      <3>1. CASE StoreSignedDocument(r, o) \/ CompleteContainer(r, o)
        <4> DEFINE new == [req[r] EXCEPT !.pc = "insert", !.ref = Latest + 1]
        <4>1. End(r) \/ req' = [req EXCEPT ![r] = new]
          BY <3>1 DEF StoreSignedDocument, CompleteContainer, Stored
        <4>2. new.pc = "insert" /\ new.job = a /\ new.op = req[r].op
          BY <1>0 DEF RequestType
        <4> HIDE DEF new
        <4> QED BY <4>1, <4>2
      <3>2. CASE CompleteConflict(r)
        <4> DEFINE new == [req[r] EXCEPT !.tries = @ + 1]
        <4>1. End(r) \/ req' = [req EXCEPT ![r] = new]
          BY <3>2 DEF CompleteConflict
        <4>2. new.pc = "store" /\ new.job = a /\ new.op = req[r].op
          BY <1>0, <2>1 DEF RequestType
        <4> HIDE DEF new
        <4> QED BY <4>1, <4>2
      <3> QED BY <1>7, <3>1, <3>2
    <2>3. /\ {"store", "insert"} \subseteq UnrecordedAt \cap DrivingAt \cap RequestRunning
          /\ EndedAt(req[r])
      BY <2>1 DEF UnrecordedAt, DrivingAt, RequestRunning, EndedAt
    <2>4. ASSUME NEW new, req' = [req EXCEPT ![r] = new],
                 new.pc \in {"store", "insert"}, new.job = a, new.op = req[r].op
          PROVE  SerialInv'
      BY <1>1, <2>1, <2>3, <2>4, GoesOn
    <2> QED BY <1>2, <2>1, <2>2, <2>4
  <1>8. ASSUME NEW o, StoreReport(r, o)
        PROVE  SerialInv'
    <2> DEFINE new == [req[r] EXCEPT !.pc = "link", !.rep = Len(reports) + 1]
    <2>1. /\ req[r].pc = "report" /\ UNCHANGED <<input, att, jobs, sigs, provider>>
          /\ End(r) \/ req' = [req EXCEPT ![r] = new]
      BY <1>8 DEF StoreReport
    <2>2. new.pc = "link" /\ new.job = a /\ new.op = req[r].op
      BY <1>0 DEF RequestType
    <2>3. "report" \in RequestRunning /\ "link" \notin DrivingAt /\ "link" \notin UnrecordedAt /\ ~EndedAt(new)
      BY <2>2 DEF UnrecordedAt, DrivingAt, RequestRunning, EndedAt
    <2> HIDE DEF new
    <2>4. CASE req' = [req EXCEPT ![r] = new]
      BY <1>1, <2>1, <2>2, <2>3, <2>4, GoesOn
    <2> QED BY <1>2, <2>1, <2>4
  <1>9. ASSUME NEW o, RecordValidation(r, o)
        PROVE  SerialInv'
    <2>1. End(r) /\ UNCHANGED <<input, att, jobs, provider>> /\ req[r].pc = "link"
      BY <1>9 DEF RecordValidation
    <2>2. Len(sigs') = Len(sigs) /\ \A k \in 1 .. Len(sigs) : sigs'[k].job = sigs[k].job
      BY <1>9, LinkKeepsRecords
    <2>3. JobsSettle
      BY <2>1 DEF JobsSettle
    <2> QED BY <1>0, <2>1, <2>2, <2>3, EndProceeds, MoveKeepsSerialInv
  <1>10. ASSUME ReconcileJob(r, "ok") \/ MirrorState(r, "ok")
         PROVE  SerialInv'
    <2>1. /\ req[r].pc \in {"reconcile", "mirror"} /\ UNCHANGED <<input, att, sigs, provider>>
          /\ jobs' = [jobs EXCEPT ![a] = req[r].st]
          /\ \/ End(r)
             \/ At(r, "store") /\ req[r].pc = "reconcile" /\ req[r].st = "READY"
             \/ At(r, "keepalive")
      BY <1>10 DEF ReconcileJob, MirrorState, Applied
    <2>2. a \in Attempts /\ jobs[a] # "none" /\ ~Recorded(a)
      BY <1>r, <2>1 DEF SerialInv, Unrecorded, UnrecordedAt, RequestRunning
    <2>3. \A b \in Attempts \ {a} : jobs'[b] = jobs[b]
      BY <1>0, <2>1
    <2>4. JobsSettle
      BY <2>1, <2>2, <2>3 DEF JobsSettle
    <2>5. Proceeds(r) /\ \A q \in Requests \ {r} : req'[q] = req[q]
      <3>1. CASE End(r)
        BY <1>0, <2>1, <3>1, EndProceeds
      <3>2. ASSUME NEW l, At(r, l), (l = "store" /\ EndedAt(req[r])) \/ l = "keepalive"
            PROVE  Proceeds(r) /\ \A q \in Requests \ {r} : req'[q] = req[q]
        <4> DEFINE new == [req[r] EXCEPT !.pc = l]
        <4>1. /\ req' = [req EXCEPT ![r] = new]
              /\ new.pc = l /\ new.job = a /\ new.op = req[r].op
          BY <1>0, <3>2 DEF At, RequestType
        <4>2. /\ req[r].pc \in UnrecordedAt \cap DrivingAt \cap RequestRunning
              /\ req[r].pc # "complete"
              /\ EndedAt(new) => EndedAt(req[r])
          BY <2>1, <3>2, <4>1 DEF UnrecordedAt, DrivingAt, RequestRunning, EndedAt
        <4> HIDE DEF new
        <4> QED BY <4>1, <4>2, GoesOn
      <3>3. req[r].pc = "reconcile" /\ req[r].st = "READY" => EndedAt(req[r])
        BY DEF EndedAt
      <3> QED BY <2>1, <3>1, <3>2, <3>3
    <2> QED BY <2>1, <2>2, <2>3, <2>4, <2>5, MoveKeepsSerialInv
  <1>11. ASSUME MarkCompleted(r, "ok")
         PROVE  SerialInv'
    <2> DEFINE l == afterCompleted(a)
               new == [req[r] EXCEPT !.pc = l]
    <2>1. /\ req[r].pc = "complete" /\ UNCHANGED <<input, att, sigs, provider>>
          /\ jobs' = [jobs EXCEPT ![a] = "COMPLETED"]
          /\ req' = [req EXCEPT ![r] = new]
      BY <1>11 DEF MarkCompleted, Applied, At
    <2>2. a \in Attempts /\ jobs[a] # "none"
      BY <1>r, <2>1 DEF RequestRunning
    <2>3. jobs'[a] = "COMPLETED" /\ \A b \in Attempts \ {a} : jobs'[b] = jobs[b]
      BY <1>0, <2>1, <2>2
    <2>4. JobsSettle
      BY <2>1, <2>3 DEF JobsSettle
    <2>5. /\ new.pc = l /\ new.job = a /\ new.op = req[r].op
          /\ l \in {"release", "notify"}
      BY <1>0 DEF RequestType, afterCompleted
    <2>6. /\ l \notin DrivingAt /\ l \notin UnrecordedAt /\ ~EndedAt(new)
          /\ req[r].pc \in RequestRunning
      BY <2>1, <2>5 DEF UnrecordedAt, DrivingAt, RequestRunning, EndedAt
    <2> HIDE DEF new, l
    <2>7. Proceeds(r) /\ \A q \in Requests \ {r} : req'[q] = req[q]
      BY <2>1, <2>3, <2>5, <2>6, GoesOn
    <2> QED BY <2>1, <2>2, <2>3, <2>4, <2>7, MoveKeepsSerialInv
  <1>12. ASSUME NEW o, Submit(r, o)
         PROVE  SerialInv'
    <2>1. req[r].pc = "submit" /\ UNCHANGED <<input, att, jobs, sigs>> /\ a \in Attempts
      BY <1>12, <1>r DEF Submit, RequestRunning
    <2>2. CASE End(r) /\ UNCHANGED provider
      BY <1>2, <2>1, <2>2
    <2>3. CASE provider[a] = "PENDING"
      <3>1. PICK st \in ProviderStates :
              /\ provider' = provider \/ provider' = [provider EXCEPT ![a] = st]
              /\ End(r) \/ req' = [req EXCEPT ![r].pc = "mirror", ![r].st = st]
        BY <1>12, <2>3 DEF Submit
      <3>2. ~Recorded(a)
        BY <2>1, <2>3 DEF SerialInv, RecordLast
      <3>3. \A b \in Attempts \ {a} : provider'[b] = provider[b]
        BY <1>0, <3>1
      <3>4. JobsSettle
        BY <2>1, <2>3, <3>3 DEF JobsSettle
      <3>5. Proceeds(r) /\ \A q \in Requests \ {r} : req'[q] = req[q]
        <4>1. CASE End(r)
          BY <1>0, <2>1, <4>1, EndProceeds
        <4>2. CASE req' = [req EXCEPT ![r].pc = "mirror", ![r].st = st]
          <5> DEFINE new == [req[r] EXCEPT !.pc = "mirror", !.st = st]
          <5>1. /\ req' = [req EXCEPT ![r] = new]
                /\ new.pc = "mirror" /\ new.job = a /\ new.op = req[r].op
            BY <1>0, <4>2 DEF RequestType
          <5>2. /\ req[r].pc \in DrivingAt \cap RequestRunning
                /\ req[r].pc # "complete" /\ ~EndedAt(new)
            BY <2>1, <5>1 DEF UnrecordedAt, DrivingAt, RequestRunning, EndedAt
          <5> HIDE DEF new
          <5> QED BY <3>2, <5>1, <5>2, GoesOn
        <4> QED BY <3>1, <4>1, <4>2
      <3> QED BY <2>1, <2>3, <3>3, <3>4, <3>5, MoveKeepsSerialInv
    <2>4. ~LateSubmit
      BY DEF Serialized
    <2> QED BY <1>12, <2>2, <2>3, <2>4 DEF Submit
  <1>13. ~CrashRequest(r)
    BY StoreAnswers DEF CrashRequest
  <1>14. ASSUME \E o \in Outcomes("store") : ReconcileJob(r, o) \/ MirrorState(r, o)
                                             \/ MarkCompleted(r, o) \/ InsertSignature(r, o)
         PROVE  SerialInv'
    BY <1>10, <1>11, <1>14, StoreAnswers, InsertKeepsSerialInv
  <1> QED BY <1>4, <1>5, <1>6, <1>7, <1>8, <1>9, <1>12, <1>13, <1>14 DEF RequestStep

\* Every step keeps it.
LEMMA NextSerialInv ==
  ASSUME Serialized, HandlerInv, SerialInv, [Next]_vars
  PROVE  SerialInv'
  <1>1. CASE Lapse \/ UNCHANGED vars
    <2>1. UNCHANGED <<input, att, jobs, sigs, provider, req>>
      BY <1>1 DEF Lapse, vars
    <2>2. BeginFresh' /\ JobsSettle
      BY <2>1 DEF SerialInv, BeginFresh, JobsSettle
    <2> QED BY <2>1, <2>2, SerialInvStays
  <1>2. ASSUME NEW a \in Attempts
        PROVE  ~CrashBegin(a)
    BY StoreAnswers DEF CrashBegin
  <1> QED BY <1>1, <1>2, BeginKeepsSerialInv, ArriveKeepsSerialInv, RequestKeepsSerialInv DEF Next

\* There are no records and no requests at the start.
LEMMA InitSerialInv == Init => SerialInv
  BY DEF Init, IdleRequest, SerialInv, OpKept, OneAtATime, Unrecorded, EndSeen, RecordLast,
         BeginFresh, OneRecordPerJob, Recorded, DrivingAt, UnrecordedAt, EndedAt, RequestRunning

-----------------------------------------------------------------------------
(* What a request's step comes to, seen from the jobs and the lock *)

RecordsStay ==
    /\ Len(sigs') = Len(sigs)
    /\ \A k \in 1 .. Len(sigs) : sigs'[k].job = sigs[k].job

\* The request goes to another call with the same job.
Goes(r, label) == req'[r].pc = label /\ req'[r].job = req[r].job

Ends(r) == req'[r].pc = "done"

\* The request reads, stores a document or a result, or links one.
Quiet(r) ==
    /\ UNCHANGED <<jobs, provider, told, lock>>
    /\ RecordsStay
    /\ \/ req[r].pc \in {"status", "store", "report", "link", "submit"} /\ Ends(r)
       \/ req[r].pc = "status" /\ Goes(r, "reconcile") /\ req'[r].st = provider[req[r].job]
       \/ req[r].pc = "store" /\ (Goes(r, "store") \/ Goes(r, "insert"))
       \/ req[r].pc = "report" /\ Goes(r, "link")

\* The state the request read or got as an answer is written.
WritesState(r) ==
    /\ req[r].pc \in {"reconcile", "mirror"}
    /\ jobs' = [jobs EXCEPT ![req[r].job] = req[r].st]
    /\ UNCHANGED <<provider, told, lock>>
    /\ RecordsStay
    /\ \/ Ends(r)
       \/ req[r].st = "READY" /\ Goes(r, "store")
       \/ req[r].st = "PENDING" /\ isPAdES(req[r].job) /\ Goes(r, "keepalive")

\* The signature gets its record.
Inserts(r) ==
    /\ req[r].pc = "insert" /\ Goes(r, "complete")
    /\ sigs' = Append(sigs, signatureRecord(r))
    /\ UNCHANGED <<jobs, provider, told, lock>>

Completes(r) ==
    /\ req[r].pc = "complete" /\ Goes(r, afterCompleted(req[r].job))
    /\ jobs' = [jobs EXCEPT ![req[r].job] = "COMPLETED"]
    /\ UNCHANGED <<provider, told, lock>>
    /\ RecordsStay

\* The lock is refreshed, or freed if the slot holds it.
UsesLock(r) ==
    /\ UNCHANGED <<jobs, provider, told>>
    /\ RecordsStay
    /\ \/ /\ req[r].pc = "keepalive" /\ Ends(r)
          /\ lock' = lock \/ lock' = slotOf(req[r].job)
       \/ /\ req[r].pc = "release" /\ Goes(r, "notify")
          /\ lock' = Released(req[r].job)
       \/ /\ req[r].pc = "abandon" /\ Ends(r)
          /\ lock' = Released(req[r].job)

Tells(r) ==
    /\ req[r].pc = "notify" /\ Goes(r, "report")
    /\ told' = told \/ told' = told \cup {req[r].sig}
    /\ UNCHANGED <<jobs, provider, lock>>
    /\ RecordsStay

\* The provider took the signature value; its answer may get lost.
Submits(r) ==
    /\ req[r].pc = "submit" /\ provider[req[r].job] = "PENDING"
    /\ UNCHANGED <<jobs, told, lock>>
    /\ RecordsStay
    /\ \E st \in ProviderStates :
          \/ /\ Ends(r)
             /\ provider' = provider \/ provider' = [provider EXCEPT ![req[r].job] = st]
          \/ /\ Goes(r, "mirror") /\ req'[r].st = st
             /\ provider' = [provider EXCEPT ![req[r].job] = st]

\* Every step of a request is one of these, and moves that request only.
LEMMA RequestMoves ==
  ASSUME Serialized, HandlerInv, NEW r \in Requests, RequestStep(r)
  PROVE  /\ UNCHANGED <<input, att>>
         /\ \A q \in Requests \ {r} : req'[q] = req[q]
         /\ \/ Quiet(r) \/ WritesState(r) \/ Inserts(r) \/ Completes(r)
            \/ UsesLock(r) \/ Tells(r) \/ Submits(r)
  <1> DEFINE Moves == \/ Quiet(r) \/ WritesState(r) \/ Inserts(r) \/ Completes(r)
                      \/ UsesLock(r) \/ Tells(r) \/ Submits(r)
             Others == \A q \in Requests \ {r} : req'[q] = req[q]
             a == req[r].job
  <1>0. /\ req \in [Requests -> RequestType] /\ req[r] \in RequestType
        /\ Outcomes("store") = {"ok"}
    BY StoreAnswers DEF HandlerInv, TypeOK
  <1>1. UNCHANGED <<input, att>>
    BY DEF RequestStep, PollStatus, StoreSignedDocument, CompleteContainer, notifySlotSigned, Submit,
           ReconcileJob, KeepAlive, InsertSignature, MarkCompleted, ReleaseChainLock,
           RecordValidation, MirrorState, AbandonRelease, StoreReport, CompleteConflict
  <1>2. ASSUME End(r)
        PROVE  Ends(r) /\ Others
    BY <1>0, <1>2 DEF End, Ended, IdleRequest, Ends
  <1>3. ASSUME NEW l, At(r, l)
        PROVE  Goes(r, l) /\ Others
    BY <1>0, <1>3 DEF At, Goes, RequestType
  <1>4. UNCHANGED sigs => RecordsStay
    BY DEF RecordsStay
  <1>5. ASSUME NEW o, PollStatus(r, o)
        PROVE  Moves /\ Others
    <2>1. CASE ~End(r)
      <3>1. Goes(r, "reconcile") /\ Others /\ req'[r].st = provider[a]
        BY <1>0, <1>5, <2>1 DEF PollStatus, Goes, RequestType
      <3> QED BY <1>4, <1>5, <3>1 DEF PollStatus, Quiet
    <2> QED BY <1>2, <1>4, <1>5, <2>1 DEF PollStatus, Quiet
  <1>6. ASSUME NEW o, StoreSignedDocument(r, o) \/ CompleteContainer(r, o) \/ CompleteConflict(r)
        PROVE  Moves /\ Others
    <2>0. req[r].pc = "store" /\ UNCHANGED <<jobs, provider, told, lock, sigs>>
      BY <1>6 DEF StoreSignedDocument, CompleteContainer, CompleteConflict
    <2>1. CASE End(r)
      BY <1>2, <1>4, <2>0, <2>1 DEF Quiet
    <2>2. CASE ~End(r)
      <3>1. (Goes(r, "insert") \/ Goes(r, "store")) /\ Others
        <4>1. CASE StoreSignedDocument(r, o) \/ CompleteContainer(r, o)
          BY <1>0, <2>2, <4>1 DEF StoreSignedDocument, CompleteContainer, Stored, Goes, RequestType
        <4>2. CASE CompleteConflict(r)
          BY <1>0, <2>2, <4>2 DEF CompleteConflict, Goes, RequestType
        <4> QED BY <1>6, <4>1, <4>2
      <3> QED BY <1>4, <2>0, <3>1 DEF Quiet
    <2> QED BY <2>1, <2>2
  <1>7. ASSUME NEW o, notifySlotSigned(r, o)
        PROVE  Moves /\ Others
    BY <1>3, <1>4, <1>7 DEF notifySlotSigned, Tells
  <1>8. ASSUME NEW o, Submit(r, o)
        PROVE  Moves /\ Others
    <2>0. req[r].pc = "submit" /\ UNCHANGED <<jobs, told, lock, sigs>>
      BY <1>8 DEF Submit
    <2>1. CASE End(r) /\ UNCHANGED provider
      BY <1>2, <1>4, <2>0, <2>1 DEF Quiet
    <2>2. CASE provider[a] = "PENDING"
      <3>1. PICK st \in ProviderStates :
              /\ provider' = IF Applied(o) THEN [provider EXCEPT ![a] = st] ELSE provider
              /\ IF o = "ok"
                 THEN req' = [req EXCEPT ![r].pc = "mirror", ![r].st = st]
                 ELSE End(r)
        BY <1>8, <2>2 DEF Submit
      <3>2. CASE o = "ok"
        <4>1. Goes(r, "mirror") /\ Others /\ req'[r].st = st
          BY <1>0, <3>1, <3>2 DEF Goes, RequestType
        <4> QED BY <1>4, <2>0, <2>2, <3>1, <3>2, <4>1 DEF Submits, Applied
      <3>3. CASE o # "ok"
        BY <1>2, <1>4, <2>0, <2>2, <3>1, <3>3 DEF Submits
      <3> QED BY <3>2, <3>3
    <2> QED BY <1>8, <2>1, <2>2 DEF Submit, Serialized
  <1>9. ASSUME ReconcileJob(r, "ok") \/ MirrorState(r, "ok")
        PROVE  Moves /\ Others
    <2>1. req[r].st \in {"PENDING", "READY", "FAILED"}
      BY <1>0 DEF RequestType, ProviderStates
    <2>2. CASE ReconcileJob(r, "ok")
      BY <1>2, <1>3, <1>4, <2>1, <2>2 DEF ReconcileJob, Applied, WritesState
    <2>3. CASE MirrorState(r, "ok")
      BY <1>2, <1>4, <2>3 DEF MirrorState, Applied, WritesState
    <2> QED BY <1>9, <2>2, <2>3
  <1>10. ASSUME KeepAlive(r, "ok") \/ ReleaseChainLock(r, "ok") \/ AbandonRelease(r, "ok")
         PROVE  Moves /\ Others
    BY <1>2, <1>3, <1>4, <1>10 DEF KeepAlive, ReleaseChainLock, AbandonRelease, Applied, UsesLock
  <1>11. ASSUME InsertSignature(r, "ok")
         PROVE  Moves /\ Others
    <2>1. Goes(r, "complete") /\ Others
      BY <1>0, <1>11 DEF InsertSignature, Goes, RequestType
    <2> QED BY <1>11, <2>1 DEF InsertSignature, Applied, Inserts
  <1>12. ASSUME MarkCompleted(r, "ok")
         PROVE  Moves /\ Others
    BY <1>3, <1>4, <1>12 DEF MarkCompleted, Applied, Completes
  <1>13. ASSUME NEW o, RecordValidation(r, o)
         PROVE  Moves /\ Others
    <2>1. RecordsStay
      BY <1>13, LinkKeepsRecords DEF RecordsStay
    <2> QED BY <1>2, <1>13, <2>1 DEF RecordValidation, Quiet
  <1>14. ASSUME NEW o, StoreReport(r, o)
         PROVE  Moves /\ Others
    <2>0. req[r].pc = "report" /\ UNCHANGED <<jobs, provider, told, lock, sigs>>
      BY <1>14 DEF StoreReport
    <2>1. CASE ~End(r)
      <3>1. Goes(r, "link") /\ Others
        BY <1>0, <1>14, <2>1 DEF StoreReport, Goes, RequestType
      <3> QED BY <1>4, <2>0, <3>1 DEF Quiet
    <2> QED BY <1>2, <1>4, <2>0, <2>1 DEF Quiet
  <1>15. Moves /\ Others
    <2> HIDE DEF Moves, Others
    <2> QED BY <1>0, <1>5, <1>6, <1>7, <1>8, <1>9, <1>10, <1>11, <1>12, <1>13, <1>14 DEF RequestStep
  <1> QED BY <1>1, <1>15

\* Begin saves a new job; what the provider has ended stays as it is.
LEMMA BeginMoves ==
  ASSUME Serialized, HandlerInv, SerialInv, NEW a \in Attempts, BeginStep(a) \/ ProviderMoves(a)
  PROVE  /\ UNCHANGED <<req, sigs, told>>
         /\ \/ jobs' = jobs
            \/ /\ jobs[a] = "none" /\ att[a].pc = "save" /\ att[a].st \in ProviderStates
               /\ jobs' = [jobs EXCEPT ![a] = att[a].st]
         /\ \A b \in Attempts : provider[b] \in {"READY", "FAILED"} => provider'[b] = provider[b]
  <1>0. provider \in [Attempts -> ProviderStates \cup {"none"}]
    BY DEF HandlerInv, TypeOK
  <1>1. UNCHANGED <<req, sigs, told>>
    BY DEF BeginStep, ProviderMoves, BeginChecks, ResolveHead, AcquireLock, Prepare, SaveJob,
           ReleaseOnFailure
  <1>2. \/ jobs' = jobs
        \/ /\ jobs[a] = "none" /\ att[a].pc = "save" /\ att[a].st \in ProviderStates
           /\ jobs' = [jobs EXCEPT ![a] = att[a].st]
    <2>1. att[a].st \in ProviderStates
      BY DEF HandlerInv, TypeOK, BeginType
    <2> QED BY <2>1
            DEF BeginStep, ProviderMoves, BeginChecks, ResolveHead, AcquireLock, Prepare, SaveJob,
                ReleaseOnFailure, SerialInv, BeginFresh
  <1>3. /\ \A b \in Attempts \ {a} : provider'[b] = provider[b]
        /\ provider'[a] = provider[a] \/ provider[a] \in {"none", "PENDING"}
    BY <1>0
    DEF BeginStep, ProviderMoves, BeginChecks, ResolveHead, AcquireLock, Prepare, SaveJob,
        ReleaseOnFailure, SerialInv, BeginFresh
  <1> QED BY <1>1, <1>2, <1>3

\* A request that arrives writes nothing, and a poll of an ended job ends.
LEMMA ArriveMoves ==
  ASSUME HandlerInv, NEW r \in Requests, Arrive(r)
  PROVE  /\ UNCHANGED <<input, att, jobs, sigs, provider, told, lock>>
         /\ \A q \in Requests \ {r} : req'[q] = req[q]
         /\ \/ req'[r].pc \in {"done", "submit", "abandon", "report"}
            \/ /\ req'[r].pc = "status" /\ req'[r].job \in Attempts
               /\ jobs[req'[r].job] \in {"PENDING", "READY"}
  <1>0. /\ req \in [Requests -> RequestType]
        /\ jobs \in [Attempts -> JobStates \cup {"none"}]
    BY DEF HandlerInv, TypeOK
  <1>1. /\ UNCHANGED <<input, att, jobs, sigs, provider, told, lock>>
        /\ \A q \in Requests \ {r} : req'[q] = req[q]
    BY <1>0 DEF Arrive, Reconcile, SubmitClientSignature, Abandon, GetJob, Validate
  <1>2. CASE End(r)
    BY <1>1, <1>2, EndMoves DEF HandlerInv
  <1>3. ASSUME NEW op, NEW c, NEW a \in Attempts, NEW l, GetJob(r, op, c, a, l), ~End(r)
        PROVE  req'[r].pc = l /\ req'[r].job = a /\ jobs[a] # "none" /\ l # "done"
    BY <1>0, <1>3 DEF GetJob, End, IdleRequest
  <1>4. ASSUME NEW c, NEW k, Validate(r, c, k), ~End(r)
        PROVE  req'[r].pc = "report"
    BY <1>0, <1>4 DEF Validate, End, IdleRequest
  <1>5. ASSUME NEW c, NEW a \in Attempts, Reconcile(r, c, a), ~End(r)
        PROVE  req'[r].pc = "status" /\ req'[r].job = a /\ jobs[a] \in {"PENDING", "READY"}
    BY <1>0, <1>3, <1>5 DEF Reconcile, JobStates, ProviderStates
  <1>6. ASSUME NEW c, NEW a \in Attempts, SubmitClientSignature(r, c, a) \/ Abandon(r, c, a), ~End(r)
        PROVE  req'[r].pc \in {"submit", "abandon"}
    BY <1>3, <1>6 DEF SubmitClientSignature, Abandon
  <1> QED BY <1>1, <1>2, <1>4, <1>5, <1>6 DEF Arrive

-----------------------------------------------------------------------------
(* A handler finds its job as it left it *)

OpenStates == {"PENDING", "READY"}

\* Calls at which the job is neither failed nor completed.
OpenAt == UnrecordedAt \cup {"keepalive", "complete"}

\* The job is open up to COMPLETED and COMPLETED from then on, and a state other
\* than PENDING that the handler carries is still the provider's.
HandlerFits(r) ==
    /\ req[r].pc \in OpenAt => jobs[req[r].job] \in OpenStates
    /\ req[r].pc \in {"release", "notify"} => jobs[req[r].job] = "COMPLETED"
    /\ req[r].pc \in {"reconcile", "mirror"} /\ req[r].st # "PENDING" =>
           provider[req[r].job] = req[r].st

\* A job that failed here, or that Begin is about to save as failed, has failed at
\* the provider.
FailedEnded ==
    \A a \in Attempts :
        \/ jobs[a] = "FAILED"
        \/ att[a].pc = "save" /\ att[a].st = "FAILED"
        => provider[a] = "FAILED"

\* The envelope service hears of records that exist.
ToldKnown == told \subseteq 1 .. Len(sigs)

PhaseInv == (\A r \in Requests : HandlerFits(r)) /\ FailedEnded /\ ToldKnown

ProviderEndsStay ==
    \A a \in Attempts : provider[a] \in {"READY", "FAILED"} => provider'[a] = provider[a]

\* One handler at a time drives a job.
LEMMA OneDriver ==
  ASSUME SerialInv, NEW q \in Requests, NEW r \in Requests,
         req[q].pc \in DrivingAt, req[r].pc \in DrivingAt, req[q].job = req[r].job
  PROVE  q = r
  <1>1. DrivingAt \subseteq RequestRunning
    BY DEF DrivingAt, UnrecordedAt, RequestRunning
  <1>2. {req[q].op, req[r].op} \subseteq SerializedOps
    BY DEF SerialInv, OpKept
  <1> QED BY <1>1, <1>2 DEF SerialInv, OneAtATime

\* A handler that does not move is not disturbed: another one writes a job's
\* state only while it drives that job.
LEMMA OthersFit ==
  ASSUME HandlerInv, SerialInv, PhaseInv, NEW r \in Requests,
         \A q \in Requests \ {r} : req'[q] = req[q], ProviderEndsStay,
         \/ jobs' = jobs
         \/ /\ req[r].pc \in OpenAt
            /\ \E st : jobs' = [jobs EXCEPT ![req[r].job] = st]
  PROVE  \A q \in Requests \ {r} : HandlerFits(q)'
  <1> SUFFICES ASSUME NEW q \in Requests \ {r}
               PROVE  HandlerFits(q)'
    OBVIOUS
  <1> DEFINE b == req[q].job
  <1>0. HandlerFits(q) /\ HandlerFits(r) /\ req'[q] = req[q]
    BY DEF PhaseInv
  <1>1. OpenAt \subseteq DrivingAt /\ OpenAt \cup {"release", "notify"} \subseteq RequestRunning
    BY DEF OpenAt, DrivingAt, UnrecordedAt, RequestRunning
  <1>2. req[q].pc \in RequestRunning => b \in Attempts
    BY RunningJob
  <1>3. ASSUME req[q].pc \in OpenAt \cup {"release", "notify"}
        PROVE  jobs'[b] = jobs[b]
    <2>1. b \in Attempts /\ jobs \in [Attempts -> JobStates \cup {"none"}]
      BY <1>1, <1>2, <1>3 DEF HandlerInv, TypeOK
    <2>2. CASE req[r].pc \in OpenAt /\ b = req[r].job
      <3>1. jobs[b] # "COMPLETED"
        BY <1>0, <2>2 DEF HandlerFits, OpenStates
      <3>2. req[q].pc \in OpenAt
        BY <1>0, <1>3, <3>1 DEF HandlerFits
      <3> QED BY <1>1, <2>2, <3>2, OneDriver
    <2> QED BY <2>1, <2>2
  <1>4. ASSUME req[q].pc \in {"reconcile", "mirror"}, req[q].st # "PENDING"
        PROVE  provider'[b] = req[q].st
    <2>1. b \in Attempts /\ req[q].st \in {"READY", "FAILED"} /\ provider[b] = req[q].st
      BY <1>0, <1>2, <1>4 DEF HandlerFits, RequestRunning, HandlerInv, TypeOK, RequestType, ProviderStates
    <2> QED BY <2>1 DEF ProviderEndsStay
  <1> HIDE DEF b
  <1> QED BY <1>0, <1>3, <1>4 DEF HandlerFits, b

\* A request's step: what it writes or goes on with fits the job.
LEMMA RequestKeepsPhaseInv ==
  ASSUME Serialized, HandlerInv, SerialInv, PhaseInv, CompletedRecorded,
         NEW r \in Requests, RequestStep(r)
  PROVE  PhaseInv'
  <1> DEFINE a == req[r].job
  <1>0. /\ jobs \in [Attempts -> JobStates \cup {"none"}]
        /\ provider \in [Attempts -> ProviderStates \cup {"none"}]
        /\ req[r] \in RequestType
        /\ Len(sigs) \in Nat
    BY DEF HandlerInv, TypeOK
  <1>a. att' = att
    BY DEF RequestStep, PollStatus, StoreSignedDocument, CompleteContainer, notifySlotSigned, Submit,
           ReconcileJob, KeepAlive, InsertSignature, MarkCompleted, ReleaseChainLock,
           RecordValidation, MirrorState, AbandonRelease, StoreReport, CompleteConflict
  <1>1. /\ HandlerFits(r) /\ FailedEnded /\ ToldKnown
        /\ \A q \in Requests \ {r} : req'[q] = req[q]
        /\ \/ Quiet(r) \/ WritesState(r) \/ Inserts(r) \/ Completes(r)
           \/ UsesLock(r) \/ Tells(r) \/ Submits(r)
    BY RequestMoves DEF PhaseInv
  <1>2. req[r].pc \in RequestRunning => a \in Attempts /\ jobs[a] # "none"
    BY RunningJob
  <1>3. ASSUME ProviderEndsStay, HandlerFits(r)', FailedEnded', ToldKnown',
               \/ jobs' = jobs
               \/ req[r].pc \in OpenAt /\ \E st : jobs' = [jobs EXCEPT ![a] = st]
        PROVE  PhaseInv'
    <2>1. \A q \in Requests \ {r} : HandlerFits(q)'
      BY <1>1, <1>3, OthersFit
    <2> QED BY <1>3, <2>1 DEF PhaseInv
  <1>4. RecordsStay => Len(sigs') = Len(sigs)
    BY DEF RecordsStay
  <1>5. CASE Quiet(r)
    <2>1. ProviderEndsStay /\ FailedEnded' /\ ToldKnown' /\ jobs' = jobs
      BY <1>a, <1>1, <1>4, <1>5 DEF Quiet, ProviderEndsStay, FailedEnded, ToldKnown
    <2>2. HandlerFits(r)'
      BY <1>1, <1>5 DEF Quiet, Ends, Goes, HandlerFits, OpenAt, UnrecordedAt
    <2> QED BY <1>3, <2>1, <2>2
  <1>6. CASE WritesState(r)
    <2>1. /\ req[r].pc \in OpenAt /\ a \in Attempts /\ jobs' = [jobs EXCEPT ![a] = req[r].st]
          /\ provider' = provider /\ told' = told /\ Len(sigs') = Len(sigs)
      BY <1>2, <1>4, <1>6 DEF WritesState, OpenAt, UnrecordedAt, RequestRunning
    <2>2. jobs'[a] = req[r].st /\ \A b \in Attempts \ {a} : jobs'[b] = jobs[b]
      BY <1>0, <2>1
    <2>3. req[r].st # "PENDING" => provider[a] = req[r].st
      BY <1>1, <1>6 DEF WritesState, HandlerFits
    <2>4. ProviderEndsStay /\ ToldKnown' /\ FailedEnded'
      BY <1>a, <1>1, <2>1, <2>2, <2>3 DEF ProviderEndsStay, ToldKnown, FailedEnded
    <2>5. HandlerFits(r)'
      BY <1>6, <2>2 DEF WritesState, Ends, Goes, HandlerFits, OpenAt, UnrecordedAt, OpenStates
    <2> QED BY <1>3, <2>1, <2>4, <2>5
  <1>7. CASE Inserts(r)
    <2>1. Len(sigs') = Len(sigs) + 1
      BY <1>7 DEF Inserts, HandlerInv, TypeOK
    <2>2. ProviderEndsStay /\ FailedEnded' /\ ToldKnown' /\ jobs' = jobs
      BY <1>a, <1>0, <1>1, <1>7, <2>1 DEF Inserts, ProviderEndsStay, FailedEnded, ToldKnown
    <2>3. HandlerFits(r)'
      BY <1>1, <1>7 DEF Inserts, Goes, HandlerFits, OpenAt, UnrecordedAt
    <2> QED BY <1>3, <2>2, <2>3
  <1>8. CASE Completes(r)
    <2>1. /\ req[r].pc \in OpenAt /\ a \in Attempts /\ jobs' = [jobs EXCEPT ![a] = "COMPLETED"]
          /\ provider' = provider /\ told' = told /\ Len(sigs') = Len(sigs)
      BY <1>2, <1>4, <1>8 DEF Completes, OpenAt, UnrecordedAt, RequestRunning
    <2>2. jobs'[a] = "COMPLETED" /\ \A b \in Attempts \ {a} : jobs'[b] = jobs[b]
      BY <1>0, <2>1
    <2>3. ProviderEndsStay /\ ToldKnown' /\ FailedEnded'
      BY <1>a, <1>1, <2>1, <2>2 DEF ProviderEndsStay, ToldKnown, FailedEnded
    <2>4. HandlerFits(r)'
      BY <1>8, <2>2 DEF Completes, Goes, afterCompleted, HandlerFits, OpenAt, UnrecordedAt
    <2> QED BY <1>3, <2>1, <2>3, <2>4
  <1>9. CASE UsesLock(r)
    <2>1. ProviderEndsStay /\ FailedEnded' /\ ToldKnown' /\ jobs' = jobs
      BY <1>a, <1>1, <1>4, <1>9 DEF UsesLock, ProviderEndsStay, FailedEnded, ToldKnown
    <2>2. HandlerFits(r)'
      BY <1>1, <1>9 DEF UsesLock, Ends, Goes, HandlerFits, OpenAt, UnrecordedAt
    <2> QED BY <1>3, <2>1, <2>2
  <1>10. CASE Tells(r)
    <2>1. req[r].sig \in 1 .. Len(sigs)
      BY <1>10 DEF Tells, HandlerInv, RequestLinks, SignatureKnown
    <2>2. ProviderEndsStay /\ FailedEnded' /\ ToldKnown' /\ jobs' = jobs
      BY <1>a, <1>1, <1>4, <1>10, <2>1 DEF Tells, ProviderEndsStay, FailedEnded, ToldKnown
    <2>3. HandlerFits(r)'
      BY <1>1, <1>10 DEF Tells, Goes, HandlerFits, OpenAt, UnrecordedAt
    <2> QED BY <1>3, <2>2, <2>3
  <1>11. CASE Submits(r)
    <2>1. /\ a \in Attempts /\ jobs[a] # "none" /\ provider[a] = "PENDING"
          /\ jobs' = jobs /\ told' = told /\ Len(sigs') = Len(sigs)
      BY <1>2, <1>4, <1>11 DEF Submits, RequestRunning
    <2>2. jobs[a] \in OpenStates
      <3>1. ~Recorded(a)
        BY <2>1 DEF SerialInv, RecordLast
      <3>2. jobs[a] # "COMPLETED"
        BY <2>1, <3>1 DEF CompletedRecorded, Recorded
      <3>3. jobs[a] # "FAILED"
        BY <1>1, <2>1 DEF FailedEnded
      <3> QED BY <1>0, <2>1, <3>2, <3>3 DEF JobStates, ProviderStates, OpenStates
    <2>3. \A b \in Attempts \ {a} : provider'[b] = provider[b]
      BY <1>0, <1>11 DEF Submits
    <2>4. ProviderEndsStay /\ ToldKnown' /\ FailedEnded'
      BY <1>a, <1>1, <2>1, <2>2, <2>3 DEF ProviderEndsStay, ToldKnown, FailedEnded, OpenStates
    <2>5. HandlerFits(r)'
      BY <1>0, <1>11, <2>1, <2>2 DEF Submits, Ends, Goes, HandlerFits, OpenAt, UnrecordedAt
    <2> QED BY <1>3, <2>1, <2>4, <2>5
  <1> QED BY <1>1, <1>5, <1>6, <1>7, <1>8, <1>9, <1>10, <1>11

\* Every step keeps it.
LEMMA NextPhaseInv ==
  ASSUME Serialized, HandlerInv, SerialInv, PhaseInv, CompletedRecorded, [Next]_vars
  PROVE  PhaseInv'
  <1>1. ASSUME UNCHANGED <<req, sigs, told>>, ProviderEndsStay, FailedEnded',
               \A b \in Attempts : jobs[b] # "none" => jobs'[b] = jobs[b]
        PROVE  PhaseInv'
    <2>1. FailedEnded' /\ ToldKnown'
      BY <1>1 DEF PhaseInv, ToldKnown
    <2>2. ASSUME NEW q \in Requests
          PROVE  HandlerFits(q)'
      <3>1. OpenAt \cup {"release", "notify"} \subseteq RequestRunning
        BY DEF OpenAt, UnrecordedAt, RequestRunning
      <3>2. req[q].pc \in RequestRunning => req[q].job \in Attempts /\ jobs[req[q].job] # "none"
        BY RunningJob
      <3>3. req[q].st \in {"PENDING", "READY", "FAILED"}
        BY DEF HandlerInv, TypeOK, RequestType, ProviderStates
      <3>4. {"reconcile", "mirror"} \subseteq RequestRunning
        BY DEF RequestRunning
      <3>5. HandlerFits(q) /\ req'[q] = req[q]
        BY <1>1 DEF PhaseInv
      <3> QED BY <1>1, <3>1, <3>2, <3>3, <3>4, <3>5 DEF HandlerFits, ProviderEndsStay
    <2> QED BY <2>1, <2>2 DEF PhaseInv
  <1>2. CASE Lapse \/ UNCHANGED vars
    BY <1>1, <1>2 DEF Lapse, vars, ProviderEndsStay, PhaseInv, FailedEnded
  <1>3. ASSUME NEW a \in Attempts, BeginStep(a) \/ ProviderMoves(a)
        PROVE  PhaseInv'
    <2>1. jobs \in [Attempts -> JobStates \cup {"none"}]
      BY DEF HandlerInv, TypeOK
    <2>2. ProviderEndsStay /\ FailedEnded
      BY <1>3, BeginMoves DEF ProviderEndsStay, PhaseInv
    <2>3. ASSUME NEW b \in Attempts, jobs'[b] = "FAILED"
          PROVE  provider'[b] = "FAILED"
      <3>1. provider[b] = "FAILED"
        BY <1>3, <2>1, <2>2, <2>3, BeginMoves DEF FailedEnded
      <3> QED BY <2>2, <3>1 DEF ProviderEndsStay
    <2>4. ASSUME NEW b \in Attempts, att'[b].pc = "save", att'[b].st = "FAILED"
          PROVE  provider'[b] = "FAILED"
      <3>1. CASE att'[b] = att[b]
        BY <2>2, <2>4, <3>1 DEF FailedEnded, ProviderEndsStay
      <3>2. CASE att'[b] # att[b]
        <4>1. b = a /\ att[a].pc = "prepare" /\ BeginStep(a)
          BY <1>3, <2>4, <3>2, BeginOrder DEF ProviderMoves, HandlerInv
        <4>2. PICK o : Prepare(a, o)
          BY <4>1 DEF BeginStep, BeginChecks, ResolveHead, AcquireLock, SaveJob, ReleaseOnFailure
        <4>3. PICK st \in ProviderStates :
                 /\ provider' = IF Applied(o) THEN [provider EXCEPT ![a] = st] ELSE provider
                 /\ IF o = "ok" THEN BeginWith(a, "save", st) ELSE BeginAt(a, unwind(a))
          BY <4>2 DEF Prepare
        <4>4. o = "ok" /\ st = "FAILED"
          BY <2>4, <4>1, <4>3, BeginGoes DEF BeginAt, unwind, HandlerInv
        <4> QED BY <4>1, <4>3, <4>4 DEF Applied, HandlerInv, TypeOK
      <3> QED BY <3>1, <3>2
    <2>5. FailedEnded'
      BY <2>3, <2>4 DEF FailedEnded
    <2> QED BY <1>1, <1>3, <2>1, <2>2, <2>5, BeginMoves
  <1>4. ASSUME NEW r \in Requests, Arrive(r)
        PROVE  PhaseInv'
    <2>1. /\ UNCHANGED <<input, att, jobs, sigs, provider, told, lock>>
          /\ \A q \in Requests \ {r} : req'[q] = req[q]
          /\ \/ req'[r].pc \in {"done", "submit", "abandon", "report"}
             \/ /\ req'[r].pc = "status" /\ req'[r].job \in Attempts
                /\ jobs[req'[r].job] \in {"PENDING", "READY"}
      BY <1>4, ArriveMoves
    <2>2. HandlerFits(r)'
      BY <2>1 DEF HandlerFits, OpenAt, UnrecordedAt, OpenStates
    <2>3. \A q \in Requests \ {r} : HandlerFits(q)'
      BY <2>1, OthersFit DEF ProviderEndsStay
    <2>4. FailedEnded' /\ ToldKnown'
      BY <2>1 DEF PhaseInv, FailedEnded, ToldKnown
    <2> QED BY <2>2, <2>3, <2>4 DEF PhaseInv
  <1>5. ASSUME NEW a \in Attempts, CrashBegin(a)
        PROVE  FALSE
    BY <1>5, StoreAnswers DEF CrashBegin
  <1>6. ASSUME NEW r \in Requests, CrashRequest(r)
        PROVE  FALSE
    BY <1>6, StoreAnswers DEF CrashRequest
  <1> QED BY <1>2, <1>3, <1>4, <1>5, <1>6, RequestKeepsPhaseInv DEF Next

\* No handler runs at the start.
LEMMA InitPhaseInv == Init => PhaseInv
  BY DEF Init, IdleRequest, PhaseInv, HandlerFits, OpenAt, UnrecordedAt, FailedEnded, ToldKnown

-----------------------------------------------------------------------------
(* A job's life *)

\* The job as module SigningJob sees it.
Phases == [a \in Attempts |->
             CASE jobs[a] = "none"      -> "none"
               [] jobs[a] = "FAILED"    -> "failed"
               [] jobs[a] = "COMPLETED" -> "completed"
               [] OTHER                 -> "open"]
Counts == [a \in Attempts |-> Cardinality({k \in 1 .. Len(sigs) : sigs[k].job = a})]
Heard  == {sigs[k].job : k \in told}

\* A move of job a to another phase.
PhaseMoves(a, from, to) == Phases[a] = from /\ Phases' = [Phases EXCEPT ![a] = to]

\* The steps of SigningJob, spelled in these words.
LEMMA JobSteps ==
  ASSUME \/ UNCHANGED <<Phases, Counts, Heard>>
         \/ \E a \in Attempts :
               \/ /\ \E to \in {"open", "failed"} : PhaseMoves(a, "none", to)
                  /\ UNCHANGED <<Counts, Heard>>
               \/ PhaseMoves(a, "open", "failed") /\ Counts[a] = 0 /\ UNCHANGED <<Counts, Heard>>
               \/ PhaseMoves(a, "open", "completed") /\ Counts[a] = 1 /\ UNCHANGED <<Counts, Heard>>
               \/ /\ Phases[a] = "open" /\ Counts[a] = 0
                  /\ Counts' = [Counts EXCEPT ![a] = 1]
                  /\ UNCHANGED <<Phases, Heard>>
               \/ /\ Phases[a] = "completed" /\ Heard' = Heard \cup {a}
                  /\ UNCHANGED <<Phases, Counts>>
  PROVE  [Job!JobNext]_(Job!jvars)
  BY DEF Phases, Counts, Heard, PhaseMoves, Job!JobNext, Job!jvars, Job!Save, Job!Fail, Job!Record,
         Job!Complete, Job!Hear, Job!Move

\* What the row says is what the phase says.
LEMMA PhaseOfRow ==
  ASSUME NEW a \in Attempts
  PROVE  /\ jobs[a] = "none" => Phases[a] = "none"
         /\ jobs[a] = "FAILED" => Phases[a] = "failed"
         /\ jobs[a] = "COMPLETED" => Phases[a] = "completed"
         /\ jobs[a] \in OpenStates => Phases[a] = "open"
  BY DEF Phases, OpenStates

\* A job with no record has the count 0, and one with a record the count 1.
CountsRight == \A a \in Attempts : Counts[a] = IF Recorded(a) THEN 1 ELSE 0

\* The counts are right where no job has two records.
LEMMA CountOfRecords == OneRecordPerJob => CountsRight
  <1> SUFFICES ASSUME OneRecordPerJob, NEW a \in Attempts
               PROVE  Counts[a] = IF Recorded(a) THEN 1 ELSE 0
    BY DEF CountsRight
  <1> DEFINE K == {k \in 1 .. Len(sigs) : sigs[k].job = a}
  <1>1. Counts[a] = Cardinality(K)
    BY DEF Counts
  <1>2. CASE ~Recorded(a)
    <2>1. K = {}
      BY <1>2 DEF Recorded
    <2> QED BY <1>1, <1>2, <2>1, FS_EmptySet
  <1>3. CASE Recorded(a)
    <2>1. PICK k \in 1 .. Len(sigs) : sigs[k].job = a
      BY <1>3 DEF Recorded
    <2>2. K = {k}
      BY <2>1 DEF OneRecordPerJob
    <2> HIDE DEF K
    <2> QED BY <1>1, <1>3, <2>2, FS_Singleton
  <1> QED BY <1>2, <1>3

\* A step that inserts no record leaves the counts and what was heard.
LEMMA CountsStay ==
  ASSUME HandlerInv, ToldKnown, RecordsStay
  PROVE  Counts' = Counts /\ (told' = told => Heard' = Heard)
  <1>1. \A a \in Attempts : {k \in 1 .. Len(sigs') : sigs'[k].job = a} = {k \in 1 .. Len(sigs) : sigs[k].job = a}
    BY DEF RecordsStay
  <1>2. told' = told => Heard' = Heard
    BY DEF RecordsStay, Heard, ToldKnown
  <1> QED BY <1>1, <1>2 DEF Counts

\* Writing one row moves one phase.
LEMMA PhaseWritten ==
  ASSUME HandlerInv, NEW a \in Attempts, NEW st \in JobStates, jobs' = [jobs EXCEPT ![a] = st]
  PROVE  Phases' = [Phases EXCEPT ![a] = IF st \in OpenStates THEN "open" ELSE
                                           IF st = "FAILED" THEN "failed" ELSE "completed"]
  <1>1. jobs'[a] = st /\ \A b \in Attempts \ {a} : jobs'[b] = jobs[b]
    BY DEF HandlerInv, TypeOK
  <1>2. \A b \in Attempts \ {a} : Phases'[b] = Phases[b]
    BY <1>1 DEF Phases
  <1>3. Phases'[a] = IF st \in OpenStates THEN "open" ELSE IF st = "FAILED" THEN "failed" ELSE "completed"
    BY <1>1 DEF Phases, OpenStates, JobStates, ProviderStates
  <1>4. Phases = [b \in Attempts |-> Phases[b]] /\ Phases' = [b \in Attempts |-> Phases'[b]]
    BY DEF Phases
  <1> HIDE DEF Phases
  <1> QED BY <1>2, <1>3, <1>4

\* Every step of the conductor is a step of the jobs, or none that they see.
LEMMA NextIsJobStep ==
  ASSUME Serialized, HandlerInv, SerialInv, PhaseInv, OneRecordPerJob', [Next]_vars
  PROVE  [Job!JobNext]_(Job!jvars)
  <1>0. /\ jobs \in [Attempts -> JobStates \cup {"none"}]
        /\ ToldKnown /\ OneRecordPerJob
    BY DEF HandlerInv, TypeOK, PhaseInv, SerialInv
  <1>1. ASSUME jobs' = jobs, told' = told, RecordsStay
        PROVE  [Job!JobNext]_(Job!jvars)
    <2>1. Phases' = Phases
      BY <1>1 DEF Phases
    <2> QED BY <1>0, <1>1, <2>1, CountsStay, JobSteps
  <1>2. UNCHANGED sigs => RecordsStay
    BY DEF RecordsStay
  <1>3. ASSUME NEW a \in Attempts, BeginStep(a) \/ ProviderMoves(a)
        PROVE  [Job!JobNext]_(Job!jvars)
    <2>1. RecordsStay /\ told' = told
      BY <1>2, <1>3, BeginMoves
    <2>2. CASE /\ jobs[a] = "none" /\ att[a].st \in ProviderStates
               /\ jobs' = [jobs EXCEPT ![a] = att[a].st]
      <3>1. PICK to \in {"open", "failed"} : Phases' = [Phases EXCEPT ![a] = to]
        <4>1. PICK st \in ProviderStates : jobs' = [jobs EXCEPT ![a] = st]
          BY <2>2
        <4>2. /\ st \in JobStates
              /\ (IF st \in OpenStates THEN "open" ELSE IF st = "FAILED" THEN "failed" ELSE "completed")
                 \in {"open", "failed"}
          BY DEF JobStates, ProviderStates, OpenStates
        <4> QED BY <4>1, <4>2, PhaseWritten
      <3>2. Phases[a] = "none"
        BY <2>2, PhaseOfRow
      <3>3. Counts' = Counts /\ Heard' = Heard
        BY <1>0, <2>1, CountsStay
      <3> QED BY <3>1, <3>2, <3>3, JobSteps DEF PhaseMoves
    <2> QED BY <1>1, <1>3, <2>1, <2>2, BeginMoves
  <1>4. ASSUME NEW r \in Requests, Arrive(r)
        PROVE  [Job!JobNext]_(Job!jvars)
    BY <1>1, <1>2, <1>4, ArriveMoves
  <1>5. ASSUME NEW r \in Requests, RequestStep(r)
        PROVE  [Job!JobNext]_(Job!jvars)
    <2> DEFINE a == req[r].job
    <2>1. /\ HandlerFits(r)
          /\ req[r].pc \in RequestRunning => a \in Attempts
      BY RunningJob DEF PhaseInv
    <2>2. CASE Quiet(r) \/ UsesLock(r) \/ Submits(r)
      BY <1>1, <2>2 DEF Quiet, UsesLock, Submits
    <2>3. CASE WritesState(r)
      <3>1. /\ a \in Attempts /\ jobs[a] \in OpenStates /\ ~Recorded(a)
            /\ jobs' = [jobs EXCEPT ![a] = req[r].st]
        BY <2>1, <2>3
        DEF WritesState, HandlerFits, OpenAt, UnrecordedAt, RequestRunning, SerialInv, Unrecorded
      <3>2. req[r].st \in {"PENDING", "READY", "FAILED"}
        BY DEF HandlerInv, TypeOK, RequestType, ProviderStates
      <3>3. Counts' = Counts /\ Heard' = Heard
        BY <1>0, <2>3, CountsStay DEF WritesState
      <3>4. Phases[a] = "open" /\ Counts[a] = 0
        BY <1>0, <3>1, PhaseOfRow, CountOfRecords DEF CountsRight
      <3>5. Phases' = [Phases EXCEPT ![a] = IF req[r].st \in OpenStates THEN "open" ELSE "failed"]
        BY <3>1, <3>2, PhaseWritten DEF JobStates, ProviderStates, OpenStates
      <3>6. CASE req[r].st \in OpenStates
        <4>1. Phases' = Phases
          BY <3>1, <3>4, <3>5, <3>6 DEF Phases
        <4> QED BY <3>3, <4>1, JobSteps
      <3>7. CASE req[r].st \notin OpenStates
        <4>1. PhaseMoves(a, "open", "failed")
          BY <3>4, <3>5, <3>7 DEF PhaseMoves
        <4> QED BY <3>1, <3>3, <3>4, <4>1, JobSteps
      <3> QED BY <3>6, <3>7
    <2>4. CASE Inserts(r)
      <3>1. /\ a \in Attempts /\ jobs[a] \in OpenStates /\ ~Recorded(a)
            /\ jobs' = jobs /\ told' = told
        BY <2>1, <2>4
        DEF Inserts, HandlerFits, OpenAt, UnrecordedAt, RequestRunning, SerialInv, Unrecorded
      <3>2. sigs \in Seq(RecordType) /\ signatureRecord(r) \in RecordType
        BY <3>1 DEF HandlerInv, TypeOK, RequestType, signatureRecord, RecordType
      <3>3. /\ Len(sigs) \in Nat
            /\ Len(sigs') = Len(sigs) + 1
            /\ \A k \in 1 .. Len(sigs) : sigs'[k] = sigs[k]
            /\ sigs'[Len(sigs) + 1].job = a
            /\ \A k \in 1 .. Len(sigs') : k \in 1 .. Len(sigs) \/ k = Len(sigs) + 1
        BY <2>4, <3>2, AppendProperties DEF Inserts, signatureRecord
      <3> HIDE DEF a
      <3>4. ASSUME NEW b \in Attempts
            PROVE  Recorded(b)' <=> Recorded(b) \/ b = a
        <4>1. Len(sigs) + 1 \in 1 .. Len(sigs') /\ 1 .. Len(sigs) \subseteq 1 .. Len(sigs')
          BY <3>3
        <4> QED BY <3>3, <4>1 DEF Recorded
      <3>5. \A b \in Attempts : Counts'[b] = IF Recorded(b)' THEN 1 ELSE 0
        <4>1. CountsRight'
          BY CountOfRecords, PTL
        <4> QED BY <4>1 DEF CountsRight
      <3>6. \A b \in Attempts : Counts[b] = IF Recorded(b) THEN 1 ELSE 0
        BY <1>0, CountOfRecords DEF CountsRight
      <3>7. /\ Counts = [b \in Attempts |-> Counts[b]]
            /\ Counts' = [b \in Attempts |-> Counts'[b]]
        BY DEF Counts
      <3>8. Counts[a] = 0 /\ Counts' = [Counts EXCEPT ![a] = 1]
        <4>1. \A b \in Attempts : Counts'[b] = IF b = a THEN 1 ELSE Counts[b]
          BY <3>4, <3>5, <3>6
        <4>2. Counts[a] = 0 /\ a \in Attempts
          BY <3>1, <3>6 DEF a
        <4> HIDE DEF Counts
        <4> QED BY <3>7, <4>1, <4>2
      <3>9. Heard' = Heard
        BY <1>0, <3>1, <3>3 DEF Heard, ToldKnown
      <3>10. Phases[a] = "open" /\ Phases' = Phases
        BY <3>1, PhaseOfRow DEF Phases
      <3> QED BY <3>1, <3>8, <3>9, <3>10, JobSteps
    <2>5. CASE Completes(r)
      <3>1. /\ a \in Attempts /\ jobs[a] \in OpenStates
            /\ jobs' = [jobs EXCEPT ![a] = "COMPLETED"]
        BY <2>1, <2>5 DEF Completes, HandlerFits, OpenAt, UnrecordedAt, RequestRunning
      <3>2. Recorded(a)
        BY <2>5 DEF Completes, HandlerInv, RequestLinks, SignatureKnown, Recorded
      <3>3. Counts' = Counts /\ Heard' = Heard
        BY <1>0, <2>5, CountsStay DEF Completes
      <3>4. Phases[a] = "open" /\ Counts[a] = 1
        BY <1>0, <3>1, <3>2, PhaseOfRow, CountOfRecords DEF CountsRight
      <3>5. Phases' = [Phases EXCEPT ![a] = "completed"]
        <4>1. "COMPLETED" \in JobStates /\ "COMPLETED" \notin OpenStates
          BY DEF JobStates, OpenStates
        <4> HIDE DEF a, Phases
        <4> QED BY <3>1, <4>1, PhaseWritten
      <3> QED BY <3>1, <3>3, <3>4, <3>5, JobSteps DEF PhaseMoves
    <2>6. CASE Tells(r)
      <3>1. a \in Attempts /\ jobs[a] = "COMPLETED" /\ jobs' = jobs
        BY <2>1, <2>6 DEF Tells, HandlerFits, RequestRunning
      <3>2. req[r].sig \in 1 .. Len(sigs) /\ sigs[req[r].sig].job = a
        BY <2>6 DEF Tells, HandlerInv, RequestLinks, SignatureKnown
      <3>3. Phases[a] = "completed" /\ Phases' = Phases
        BY <3>1, PhaseOfRow DEF Phases
      <3>4. Counts' = Counts /\ (told' = told => Heard' = Heard)
        BY <1>0, <2>6, CountsStay DEF Tells
      <3>5. told' = told \cup {req[r].sig} => Heard' = Heard \cup {a}
        <4>1. \A k \in told \cup {req[r].sig} : sigs'[k].job = sigs[k].job
          BY <1>0, <2>6, <3>2 DEF Tells, RecordsStay, ToldKnown
        <4> QED BY <3>2, <4>1 DEF Heard
      <3> QED BY <2>6, <3>1, <3>3, <3>4, <3>5, JobSteps DEF Tells
    <2> QED BY <1>5, <2>2, <2>3, <2>4, <2>5, <2>6, RequestMoves
  <1>6. CASE Lapse \/ UNCHANGED vars
    BY <1>1, <1>2, <1>6 DEF Lapse, vars
  <1>7. ASSUME NEW a \in Attempts, CrashBegin(a)
        PROVE  FALSE
    BY <1>7, StoreAnswers DEF CrashBegin
  <1>8. ASSUME NEW r \in Requests, CrashRequest(r)
        PROVE  FALSE
    BY <1>8, StoreAnswers DEF CrashRequest
  <1> QED BY <1>3, <1>4, <1>5, <1>6, <1>7, <1>8 DEF Next

\* No job exists at the start.
LEMMA InitIsJobInit == Init => Job!JobInit
  <1> SUFFICES ASSUME Init
               PROVE  Job!JobInit
    OBVIOUS
  <1>1. /\ \A a \in Attempts : jobs[a] = "none"
        /\ Len(sigs) = 0 /\ told = {}
    BY DEF Init
  <1>2. \A a \in Attempts : {k \in 1 .. Len(sigs) : sigs[k].job = a} = {}
    BY <1>1
  <1>3. \A a \in Attempts : Cardinality({k \in 1 .. Len(sigs) : sigs[k].job = a}) = 0
    BY <1>2, FS_EmptySet
  <1> QED BY <1>1, <1>3 DEF Job!JobInit

\* What is true of the jobs and their handlers throughout.
SerialJobInv == HandlerInv /\ RecordInv /\ SerialInv /\ PhaseInv

\* Every step keeps it.
LEMMA SerialJobsInductive == Serialized => (Spec => []SerialJobInv)
  <1> SUFFICES ASSUME Serialized
               PROVE  Spec => []SerialJobInv
    OBVIOUS
  <1>1. SerialJobInv /\ [Next]_vars => SerialJobInv'
    BY NextHandlerInv, NextRecordInv, NextSerialInv, NextPhaseInv DEF SerialJobInv, RecordInv
  <1>2. Init => SerialJobInv
    BY InitHandlerInv, InitRecordInv, InitSerialInv, InitPhaseInv DEF SerialJobInv
  <1> QED BY <1>1, <1>2, PTL DEF Spec

\* A job gets one signature record, for any number of slots, jobs and requests,
\* with collaborators that fail and locks that run out, if the requests of a slot
\* run one at a time and the record store answers: what finalize's idempotence
\* rests on.
THEOREM RecordedOnce == Serialized => (Spec => []OneRecordPerJob)
  <1> SUFFICES ASSUME Serialized
               PROVE  Spec => []OneRecordPerJob
    OBVIOUS
  <1>1. SerialJobInv => OneRecordPerJob
    BY DEF SerialJobInv, SerialInv
  <1> QED BY <1>1, SerialJobsInductive, PTL

\* Under the same conditions a job lives as SigningJob says: it is saved once, has
\* its record before it is COMPLETED, never leaves FAILED or COMPLETED, and the
\* envelope service hears of COMPLETED jobs only, whatever collaborators do and
\* however the calls of the handlers of different slots interleave.
THEOREM JobsLive == Serialized => (Spec => JobRefined)
  <1> SUFFICES ASSUME Serialized
               PROVE  Spec => JobRefined
    OBVIOUS
  <1>1. SerialJobInv /\ SerialJobInv' /\ [Next]_vars => [Job!JobNext]_(Job!jvars)
    BY NextIsJobStep DEF SerialJobInv, SerialInv
  <1>2. Spec => []SerialJobInv
    BY SerialJobsInductive
  <1> QED BY <1>1, <1>2, InitIsJobInit, PTL DEF Spec, JobRefined, Job!Spec

-----------------------------------------------------------------------------
(* The lock has an attempt that stands for it *)

\* The attempt will release its slot's hold, or its open job keeps it alive.
Accounts(a) ==
    /\ isPAdES(a)
    /\ \/ att[a].pc \in {"prepare", "save", "unlock"}
       \/ jobs[a] \notin {"none", "COMPLETED"}
       \/ \E r \in Requests : req[r].pc = "release" /\ req[r].job = a

\* Only PAdES signers come to the lock.
LockIsPAdES ==
    /\ \A a \in Attempts : att[a].pc = "lock" => isPAdES(a)
    /\ \A r \in Requests : req[r].pc = "keepalive" => isPAdES(req[r].job)

LockInv == LockAccounted /\ LockIsPAdES

\* A step that takes the lock for no slot.
LEMMA AccountStays ==
  ASSUME LockAccounted, UNCHANGED input, lock' \in {lock, None},
         \A a \in Attempts : lock' # None /\ slotOf(a) = lock' /\ Accounts(a) => Accounts(a)'
  PROVE  LockAccounted'
  <1> SUFFICES ASSUME lock' # None
               PROVE  LockAccounted'
    BY DEF LockAccounted
  <1>1. PICK a \in Attempts : slotOf(a) = lock /\ Accounts(a)
    BY DEF LockAccounted, Accounts
  <1>2. slotOf(a)' = lock' /\ Accounts(a)'
    BY <1>1 DEF slotOf
  <1> QED BY <1>2 DEF LockAccounted, Accounts, slotOf, isPAdES

\* A step that takes it for the slot of an attempt that stands for it.
LEMMA AccountTaken ==
  ASSUME NEW a \in Attempts, UNCHANGED input, lock' = slotOf(a), Accounts(a)'
  PROVE  LockAccounted'
  BY DEF LockAccounted, Accounts, slotOf, isPAdES

\* A Begin that has not come to its calls stands for nothing yet.
LEMMA NotYetAccounts ==
  ASSUME HandlerInv, SerialInv, NEW a \in Attempts, att[a].pc \in {"idle", "head", "lock"}
  PROVE  ~Accounts(a)
  <1>1. jobs[a] = "none"
    BY DEF SerialInv, BeginFresh
  <1>2. \A r \in Requests : req[r].pc = "release" => req[r].job # a
    BY <1>1, RunningJob DEF RequestRunning
  <1> QED BY <1>1, <1>2 DEF Accounts

\* Begin takes the lock before its first call and frees it when a call fails, or
\* leaves it to the job it saves.
LEMMA BeginKeepsLockInv ==
  ASSUME Serialized, HandlerInv, SerialInv, LockInv,
         NEW a \in Attempts, BeginStep(a) \/ ProviderMoves(a)
  PROVE  LockInv'
  <1>0. /\ UNCHANGED <<input, req>>
        /\ att \in [Attempts -> BeginType] /\ att[a] \in BeginType
        /\ jobs \in [Attempts -> JobStates \cup {"none"}]
        /\ Outcomes("store") = {"ok"}
    BY StoreAnswers
    DEF BeginStep, ProviderMoves, BeginChecks, ResolveHead, AcquireLock, Prepare, SaveJob,
        ReleaseOnFailure, HandlerInv, TypeOK
  <1>1. /\ \A b \in Attempts \ {a} : att'[b] = att[b] /\ jobs'[b] = jobs[b]
        /\ att'[a].pc = "lock" => att'[a].format = "PAdES" \/ att'[a] = att[a]
    <2>1. \A b \in Attempts \ {a} : jobs'[b] = jobs[b]
      BY <1>0 DEF BeginStep, ProviderMoves, BeginChecks, ResolveHead, AcquireLock, Prepare, SaveJob,
                  ReleaseOnFailure
    <2>2. CASE ProviderMoves(a)
      BY <2>1, <2>2 DEF ProviderMoves
    <2>3. CASE BeginStep(a)
      <3>1. ASSUME att'[a].pc = "lock"
            PROVE  att'[a].format = "PAdES"
        <4>1. att[a].pc = "head"
          BY <2>3, <3>1, BeginOrder DEF HandlerInv
        <4>2. PICK o : ResolveHead(a, o)
          BY <2>3, <4>1 DEF BeginStep, BeginChecks, AcquireLock, Prepare, SaveJob, ReleaseOnFailure
        <4>3. ~BeginAt(a, "failed")
          BY <3>1, BeginGoes DEF BeginAt, HandlerInv
        <4> QED BY <1>0, <3>1, <4>2, <4>3 DEF ResolveHead
      <3> QED BY <2>1, <2>3, <3>1, BeginOrder DEF HandlerInv
    <2> QED BY <2>2, <2>3
  <1>2. \A b \in Attempts \ {a} : Accounts(b) => Accounts(b)'
    BY <1>0, <1>1 DEF Accounts, isPAdES
  <1>3. LockIsPAdES'
    <2>1. \A b \in Attempts : att'[b].pc = "lock" => att'[b].format = "PAdES"
      BY <1>1 DEF LockInv, LockIsPAdES, isPAdES
    <2>2. ASSUME NEW r \in Requests, req[r].pc = "keepalive"
          PROVE  att'[req[r].job].format = "PAdES"
      <3>1. req[r].job \in Attempts /\ jobs[req[r].job] # "none" /\ att[req[r].job].format = "PAdES"
        BY <2>2, RunningJob DEF RequestRunning, LockInv, LockIsPAdES, isPAdES
      <3>2. FormsStay
        <4>1. Next
          BY DEF Next
        <4> QED BY <4>1, FormsSettled
      <3> QED BY <3>1, <3>2 DEF FormsStay
    <2> QED BY <1>0, <2>1, <2>2 DEF LockIsPAdES, isPAdES
  <1>4. ASSUME UNCHANGED lock, Accounts(a) => Accounts(a)'
        PROVE  LockAccounted'
    BY <1>0, <1>2, <1>4, AccountStays DEF LockInv
  <1>5. ASSUME UNCHANGED lock, att[a].pc \in {"idle", "head", "lock"}
        PROVE  LockAccounted'
    BY <1>4, <1>5, NotYetAccounts
  <1>6. ASSUME NEW o, BeginChecks(a) \/ ResolveHead(a, o)
        PROVE  LockAccounted'
    BY <1>5, <1>6 DEF BeginChecks, ResolveHead
  <1>7. ASSUME AcquireLock(a, "ok")
        PROVE  LockAccounted'
    <2>1. CASE Acquirable(a)
      <3>1. lock' = slotOf(a) /\ att'[a].pc = "prepare" /\ att'[a].format = "PAdES"
        BY <1>7, <2>1, BeginGoes
        DEF AcquireLock, BeginAt, HandlerInv, LockInv, LockIsPAdES, isPAdES, Applied
      <3> QED BY <1>0, <3>1, AccountTaken DEF Accounts, isPAdES
    <2>2. CASE ~Acquirable(a)
      BY <1>5, <1>7, <2>2 DEF AcquireLock
    <2> QED BY <2>1, <2>2
  <1>8. ASSUME NEW o, Prepare(a, o)
        PROVE  LockAccounted'
    <2>1. /\ lock' = lock
          /\ att'[a].format = att[a].format
          /\ isPAdES(a) => att'[a].pc \in {"save", "unlock"}
      BY <1>8, BeginGoes DEF Prepare, BeginAt, unwind, HandlerInv
    <2> QED BY <1>4, <2>1 DEF Accounts, isPAdES
  <1>9. ASSUME SaveJob(a, "ok")
        PROVE  LockAccounted'
    <2>1. /\ lock' = lock /\ att'[a].format = att[a].format
          /\ jobs'[a] = att[a].st /\ att[a].st \in ProviderStates
      BY <1>0, <1>9, BeginGoes DEF SaveJob, BeginAt, BeginType, Applied, HandlerInv
    <2> QED BY <1>4, <2>1 DEF Accounts, isPAdES, ProviderStates
  <1>10. ASSUME ReleaseOnFailure(a, "ok")
         PROVE  LockAccounted'
    <2>1. lock' = Released(a)
      BY <1>10 DEF ReleaseOnFailure, Applied
    <2>2. lock' \in {lock, None} /\ (lock' # None => slotOf(a) # lock')
      BY <2>1 DEF Released
    <2> QED BY <1>0, <1>2, <2>2, AccountStays DEF LockInv
  <1>11. ASSUME ProviderMoves(a)
         PROVE  LockAccounted'
    BY <1>0, <1>4, <1>11 DEF ProviderMoves, Accounts, isPAdES
  <1> QED BY <1>0, <1>3, <1>6, <1>7, <1>8, <1>9, <1>10, <1>11 DEF BeginStep, LockInv

\* A request's step: a job that completes leaves the hold to the release that
\* follows, and only an open PAdES job refreshes it.
LEMMA RequestKeepsLockInv ==
  ASSUME Serialized, HandlerInv, PhaseInv, LockInv, NEW r \in Requests, RequestStep(r)
  PROVE  LockInv'
  <1> DEFINE b == req[r].job
  <1>0. /\ UNCHANGED <<input, att>>
        /\ \A q \in Requests \ {r} : req'[q] = req[q]
        /\ \/ Quiet(r) \/ WritesState(r) \/ Inserts(r) \/ Completes(r)
           \/ UsesLock(r) \/ Tells(r) \/ Submits(r)
        /\ jobs \in [Attempts -> JobStates \cup {"none"}]
        /\ HandlerFits(r)
    BY RequestMoves DEF HandlerInv, TypeOK, PhaseInv
  <1>1. req[r].pc \in RequestRunning => b \in Attempts /\ jobs[b] # "none"
    BY RunningJob
  <1>2. LockIsPAdES'
    <2>1. req'[r].pc = "keepalive" => req'[r].job = b /\ isPAdES(b)
      BY <1>0 DEF Quiet, WritesState, Inserts, Completes, afterCompleted, UsesLock, Tells, Submits, Goes, Ends
    <2> HIDE DEF b
    <2> QED BY <1>0, <2>1 DEF LockInv, LockIsPAdES, isPAdES
  <1>3. ASSUME lock' \in {lock, None}, NEW a \in Attempts, Accounts(a),
               jobs[a] \notin {"none", "COMPLETED"} =>
                   \/ jobs'[a] \notin {"none", "COMPLETED"}
                   \/ a = b /\ req'[r].pc = "release" /\ req'[r].job = b,
               req[r].pc # "release" \/ a # b
        PROVE  Accounts(a)'
    <2>1. isPAdES(a)'
      BY <1>0, <1>3 DEF Accounts, isPAdES
    <2>2. ASSUME NEW q \in Requests, req[q].pc = "release", req[q].job = a
          PROVE  req'[q].pc = "release" /\ req'[q].job = a
      <3>1. q # r
        BY <1>3, <2>2
      <3> QED BY <1>0, <2>2, <3>1
    <2> QED BY <1>0, <1>3, <2>1, <2>2 DEF Accounts
  <1>4. CASE UNCHANGED <<jobs, lock>> /\ req[r].pc # "release"
    BY <1>0, <1>2, <1>3, <1>4, AccountStays DEF LockInv
  <1>5. CASE Quiet(r) \/ Inserts(r) \/ Tells(r) \/ Submits(r)
    BY <1>4, <1>5 DEF Quiet, Inserts, Tells, Submits
  <1>6. CASE WritesState(r)
    <2>1. /\ req[r].pc # "release" /\ b \in Attempts /\ lock' = lock
          /\ jobs' = [jobs EXCEPT ![b] = req[r].st]
      BY <1>1, <1>6 DEF WritesState, RequestRunning
    <2>2. req[r].st \in {"PENDING", "READY", "FAILED"}
      BY DEF HandlerInv, TypeOK, RequestType, ProviderStates
    <2>3. \A a \in Attempts : jobs[a] \notin {"none", "COMPLETED"} => jobs'[a] \notin {"none", "COMPLETED"}
      BY <1>0, <2>1, <2>2
    <2>4. \A a \in Attempts : Accounts(a) => Accounts(a)'
      BY <1>3, <2>1, <2>3
    <2> QED BY <1>0, <1>2, <2>1, <2>4, AccountStays DEF LockInv
  <1>7. CASE Completes(r)
    <2>1. /\ req[r].pc # "release" /\ b \in Attempts /\ lock' = lock
          /\ \A a \in Attempts \ {b} : jobs'[a] = jobs[a]
          /\ isPAdES(b) => req'[r].pc = "release" /\ req'[r].job = b
      BY <1>0, <1>1, <1>7 DEF Completes, RequestRunning, Goes, afterCompleted
    <2>2. ASSUME NEW a \in Attempts, Accounts(a)
          PROVE  Accounts(a)'
      <3>1. a = b => isPAdES(b)
        BY <2>2 DEF Accounts
      <3> HIDE DEF b
      <3> QED BY <1>3, <2>1, <2>2, <3>1
    <2> QED BY <1>0, <1>2, <2>1, <2>2, AccountStays DEF LockInv
  <1>8. CASE UsesLock(r)
    <2>0. jobs' = jobs /\ b \in Attempts
      BY <1>1, <1>8 DEF UsesLock, RequestRunning
    <2>1. CASE req[r].pc = "keepalive"
      <3>1. CASE lock' = lock
        BY <1>4, <2>0, <2>1, <3>1
      <3>2. ASSUME NEW a \in Attempts, a = b, lock' = slotOf(b)
            PROVE  LockAccounted'
        <4>1. isPAdES(a) /\ jobs[a] \in OpenStates
          BY <1>0, <2>1, <3>2 DEF LockInv, LockIsPAdES, HandlerFits, OpenAt
        <4>2. Accounts(a)'
          BY <1>0, <2>0, <4>1 DEF Accounts, isPAdES, OpenStates
        <4> QED BY <1>0, <3>2, <4>2, AccountTaken
      <3> QED BY <1>2, <1>8, <2>0, <2>1, <3>1, <3>2 DEF UsesLock, LockInv
    <2>2. CASE req[r].pc # "keepalive"
      <3>1. lock' = Released(b)
        BY <1>8, <2>2 DEF UsesLock
      <3>2. lock' \in {lock, None} /\ (lock' # None => slotOf(b) # lock')
        BY <3>1 DEF Released
      <3>3. ASSUME NEW a \in Attempts, lock' # None, slotOf(a) = lock', Accounts(a)
            PROVE  Accounts(a)'
        <4>1. a # b
          BY <3>2, <3>3
        <4> QED BY <1>3, <2>0, <3>2, <3>3, <4>1
      <3> QED BY <1>0, <1>2, <3>2, <3>3, AccountStays DEF LockInv
    <2> QED BY <2>1, <2>2
  <1> QED BY <1>0, <1>5, <1>6, <1>7, <1>8

\* Every step keeps it.
LEMMA NextLockInv ==
  ASSUME Serialized, HandlerInv, SerialInv, PhaseInv, LockInv, [Next]_vars
  PROVE  LockInv'
  <1>1. ASSUME UNCHANGED <<input, att, jobs, req>>, lock' \in {lock, None}
        PROVE  LockInv'
    <2>1. LockIsPAdES'
      BY <1>1 DEF LockInv, LockIsPAdES, isPAdES
    <2>2. \A a \in Attempts : Accounts(a) => Accounts(a)'
      BY <1>1 DEF Accounts, isPAdES
    <2> QED BY <1>1, <2>1, <2>2, AccountStays DEF LockInv
  <1>2. CASE Lapse \/ UNCHANGED vars
    BY <1>1, <1>2 DEF Lapse, vars
  <1>3. ASSUME NEW r \in Requests, Arrive(r)
        PROVE  LockInv'
    <2>1. /\ UNCHANGED <<input, att, jobs, lock>>
          /\ \A q \in Requests \ {r} : req'[q] = req[q]
          /\ req'[r].pc # "keepalive" /\ req[r].pc = "idle"
      BY <1>3, ArriveMoves
      DEF Arrive, Reconcile, SubmitClientSignature, Abandon, GetJob, Validate
    <2>2. LockIsPAdES'
      BY <2>1 DEF LockInv, LockIsPAdES, isPAdES
    <2>3. \A a \in Attempts : Accounts(a) => Accounts(a)'
      BY <2>1 DEF Accounts, isPAdES
    <2> QED BY <2>1, <2>2, <2>3, AccountStays DEF LockInv
  <1>4. ASSUME NEW a \in Attempts, CrashBegin(a)
        PROVE  FALSE
    BY <1>4, StoreAnswers DEF CrashBegin
  <1>5. ASSUME NEW r \in Requests, CrashRequest(r)
        PROVE  FALSE
    BY <1>5, StoreAnswers DEF CrashRequest
  <1> QED BY <1>2, <1>3, <1>4, <1>5, BeginKeepsLockInv, RequestKeepsLockInv DEF Next

\* No hold without an attempt of the slot that stands for it: a Begin between its
\* gate and its job row, an open or failed job, or a finalize about to release.
\* The time limit is needed for holds of jobs that failed or were left, never for
\* a hold that nobody remembers.
THEOREM HoldsAccounted == Serialized => (Spec => []LockAccounted)
  <1> SUFFICES ASSUME Serialized
               PROVE  Spec => []LockAccounted
    OBVIOUS
  <1>1. SerialJobInv /\ LockInv /\ [Next]_vars => LockInv'
    BY NextLockInv DEF SerialJobInv
  <1>2. Init => LockInv
    BY DEF Init, IdleRequest, LockInv, LockAccounted, LockIsPAdES
  <1>3. LockInv => LockAccounted
    BY DEF LockInv
  <1>4. Spec => []SerialJobInv
    BY SerialJobsInductive
  <1> QED BY <1>1, <1>2, <1>3, <1>4, PTL DEF Spec
=============================================================================
