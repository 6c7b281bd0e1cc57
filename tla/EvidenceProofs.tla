-------------------------- MODULE EvidenceProofs ---------------------------
(***************************************************************************)
(* Proofs that a record is linked to a validation result of its own, and   *)
(* that the assurance events and the validation events tell the truth, for *)
(* any number of attempts and requests and any failures.                   *)
(***************************************************************************)
EXTENDS Evidence, ConductorProofs

-----------------------------------------------------------------------------
(* The result linked to a record *)

\* Result n was produced for record k.
ReportOf(n, k) == n \in 1 .. Len(reports) /\ reports[n] = k

\* A handler that is about to link a result has stored it for its own record.
LinkKnown == \A r \in Requests : req[r].pc = "link" => ReportOf(req[r].rep, req[r].sig)

ReportInv == ReportsMatch /\ LinkKnown

-----------------------------------------------------------------------------
(* How requests get to the link of a result and leave it *)

\* No handler starts again.
DoneStays == \A q \in Requests : req[q].pc = "done" => req'[q].pc = "done"

\* The link is the last call of a handler.
LinkIsLast ==
    \A q \in Requests : req[q].pc = "link" /\ req'[q] # req[q] => req'[q].pc = "done"

\* Nobody comes to the link.
NoneStores == reports' = reports /\ \A q \in Requests : req'[q].pc = "link" => req'[q] = req[q]

\* Request r stores a result for its record and may go on to link it.
Stores(r) ==
    /\ reports' = Append(reports, req[r].sig)
    /\ req[r].sig \in Nat
    /\ \A q \in Requests \ {r} : req'[q] = req[q]
    /\ req'[r].pc = "link" => /\ req'[r].rep = Len(reports) + 1
                              /\ req'[r].sig = req[r].sig
                              /\ req[r].pc \notin {"link", "done"}

LinkMoves == DoneStays /\ LinkIsLast /\ (NoneStores \/ \E r \in Requests : Stores(r))

\* A step of request r, which is not at the link, to another call; or its end.
LEMMA OtherMoves ==
  ASSUME TypeOK, UNCHANGED reports, NEW r \in Requests, req[r].pc # "done",
         \/ End(r)
         \/ /\ req[r].pc # "link"
            /\ \E new \in RequestType : new.pc # "link" /\ req' = [req EXCEPT ![r] = new]
  PROVE  LinkMoves
  <1>1. /\ \A q \in Requests \ {r} : req'[q] = req[q]
        /\ req'[r].pc = "done" \/ (req[r].pc # "link" /\ req'[r].pc # "link")
    <2>1. CASE End(r)
      BY <2>1, EndMoves
    <2>2. ASSUME req[r].pc # "link", NEW new \in RequestType, new.pc # "link",
                 req' = [req EXCEPT ![r] = new]
          PROVE  /\ \A q \in Requests \ {r} : req'[q] = req[q]
                 /\ req'[r].pc = "done" \/ (req[r].pc # "link" /\ req'[r].pc # "link")
      BY <2>2, NewMoves
    <2> QED BY <2>1, <2>2
  <1> QED BY <1>1 DEF LinkMoves, DoneStays, LinkIsLast, NoneStores

\* A step that moves no request.
LEMMA IdleMoves ==
  ASSUME UNCHANGED <<req, reports>>
  PROVE  LinkMoves
  BY DEF LinkMoves, DoneStays, LinkIsLast, NoneStores

\* A request that arrives does not start at the link.
LEMMA ArriveMoves ==
  ASSUME HandlerInv, NEW r \in Requests, Arrive(r)
  PROVE  LinkMoves
  <1>1. UNCHANGED reports /\ req[r].pc = "idle"
    BY DEF Arrive, Reconcile, SubmitClientSignature, Abandon, GetJob, Validate
  <1>2. req \in [Requests -> RequestType]
    BY DEF HandlerInv, TypeOK
  <1>3. ASSUME NEW op, NEW c, NEW a, NEW l, l # "link", GetJob(r, op, c, a, l)
        PROVE  req'[r].pc # "link" /\ \A q \in Requests \ {r} : req'[q] = req[q]
    BY <1>2, <1>3 DEF GetJob, IdleRequest, Ended
  <1>4. ASSUME NEW c, NEW k, Validate(r, c, k)
        PROVE  req'[r].pc # "link" /\ \A q \in Requests \ {r} : req'[q] = req[q]
    BY <1>2, <1>4 DEF Validate, IdleRequest, Ended
  <1>5. req'[r].pc # "link" /\ \A q \in Requests \ {r} : req'[q] = req[q]
    BY <1>3, <1>4 DEF Arrive, Reconcile, SubmitClientSignature, Abandon
  <1> QED BY <1>1, <1>5 DEF LinkMoves, DoneStays, LinkIsLast, NoneStores

\* StoreReport is the step that stores a result.
LEMMA StoreReportMoves ==
  ASSUME HandlerInv, NEW r \in Requests, NEW o, StoreReport(r, o)
  PROVE  LinkMoves
  <1>0. req \in [Requests -> RequestType] /\ req[r].pc = "report" /\ req[r].sig \in Nat
    BY DEF StoreReport, HandlerInv, TypeOK, RequestType
  <1>1. CASE UNCHANGED reports /\ End(r)
    BY <1>0, <1>1, OtherMoves DEF HandlerInv
  <1>2. CASE reports' = Append(reports, req[r].sig)
    <2>1. CASE End(r)
      <3>1. req'[r].pc = "done" /\ \A q \in Requests \ {r} : req'[q] = req[q]
        BY <2>1, EndMoves DEF HandlerInv
      <3> QED BY <1>0, <1>2, <3>1 DEF LinkMoves, DoneStays, LinkIsLast, Stores
    <2>2. CASE req' = [req EXCEPT ![r].pc = "link", ![r].rep = Len(reports) + 1]
      <3>1. /\ req'[r].pc = "link"
            /\ req'[r].rep = Len(reports) + 1
            /\ req'[r].sig = req[r].sig
            /\ \A q \in Requests \ {r} : req'[q] = req[q]
        BY <1>0, <2>2 DEF RequestType
      <3> QED BY <1>0, <1>2, <3>1 DEF LinkMoves, DoneStays, LinkIsLast, Stores
    <2> QED BY <2>1, <2>2 DEF StoreReport
  <1> QED BY <1>1, <1>2 DEF StoreReport, Applied

\* Every other step of a request ends it or leads to another call.
LEMMA RequestMoves ==
  ASSUME HandlerInv, NEW r \in Requests, RequestStep(r) \/ CrashRequest(r)
  PROVE  LinkMoves
  <1>0. req \in [Requests -> RequestType] /\ req[r] \in RequestType
    BY DEF HandlerInv, TypeOK
  <1>1. ASSUME UNCHANGED reports, req[r].pc \notin {"link", "done"},
               \/ End(r)
               \/ \E new \in RequestType : new.pc # "link" /\ req' = [req EXCEPT ![r] = new]
        PROVE  LinkMoves
    BY <1>1, OtherMoves DEF HandlerInv
  <1>2. ASSUME UNCHANGED reports, req[r].pc \notin {"link", "done"},
               End(r) \/ (\E l \in RequestRunning \ {"link"} : At(r, l))
        PROVE  LinkMoves
    <2>1. ASSUME NEW l \in RequestRunning \ {"link"}, At(r, l)
          PROVE  LinkMoves
      <3> DEFINE new == [req[r] EXCEPT !.pc = l]
      <3>1. new \in RequestType /\ new.pc # "link"
        BY <1>0, <2>1 DEF RequestType
      <3>2. req' = [req EXCEPT ![r] = new]
        BY <2>1 DEF At
      <3> QED BY <1>1, <1>2, <3>1, <3>2
    <2> QED BY <1>1, <1>2, <2>1
  <1>3. ASSUME NEW o, \/ KeepAlive(r, o) \/ AbandonRelease(r, o) \/ MirrorState(r, o)
                      \/ RecordValidation(r, o) \/ CrashRequest(r)
        PROVE  LinkMoves
    <2>1. End(r) /\ UNCHANGED reports /\ req[r].pc # "done"
      BY <1>3 DEF KeepAlive, AbandonRelease, MirrorState, RecordValidation, CrashRequest, RequestRunning
    <2> QED BY <2>1, OtherMoves DEF HandlerInv
  <1>4. ASSUME NEW o, ReleaseChainLock(r, o) \/ notifySlotSigned(r, o) \/ ReconcileJob(r, o)
                      \/ MarkCompleted(r, o)
        PROVE  LinkMoves
    BY <1>2, <1>4 DEF ReleaseChainLock, notifySlotSigned, ReconcileJob, MarkCompleted,
                      afterCompleted, RequestRunning
  <1>5. ASSUME NEW o, PollStatus(r, o)
        PROVE  LinkMoves
    <2>1. req[r].job \in Attempts /\ provider[req[r].job] \in ProviderStates
      BY <1>5, RunningJob DEF PollStatus, RequestRunning, HandlerInv, TypeOK, BeginLinks, ProviderKnows
    <2> DEFINE new == [req[r] EXCEPT !.pc = "reconcile", !.st = provider[req[r].job]]
    <2>2. new \in RequestType /\ new.pc # "link"
      BY <1>0, <2>1 DEF RequestType, RequestRunning
    <2>3. End(r) \/ req' = [req EXCEPT ![r] = new]
      BY <1>5 DEF PollStatus
    <2> QED BY <1>1, <1>5, <2>2, <2>3 DEF PollStatus
  <1>6. ASSUME NEW o, Submit(r, o)
        PROVE  LinkMoves
    <2>1. CASE End(r)
      BY <1>1, <1>6, <2>1 DEF Submit
    <2>2. ASSUME NEW st \in ProviderStates, req' = [req EXCEPT ![r].pc = "mirror", ![r].st = st]
          PROVE  LinkMoves
      <3> DEFINE new == [req[r] EXCEPT !.pc = "mirror", !.st = st]
      <3>1. new \in RequestType /\ new.pc # "link"
        BY <1>0, <2>2 DEF RequestType, RequestRunning
      <3>2. req' = [req EXCEPT ![r] = new]
        BY <2>2
      <3> QED BY <1>1, <1>6, <3>1, <3>2 DEF Submit
    <2> QED BY <1>6, <2>1, <2>2 DEF Submit
  <1>7. ASSUME NEW o, StoreSignedDocument(r, o) \/ CompleteContainer(r, o)
        PROVE  LinkMoves
    <2> DEFINE new == [req[r] EXCEPT !.pc = "insert", !.ref = Latest + 1]
    <2>0. Latest + 1 \in Nat
      BY DEF HandlerInv, TypeOK, Latest
    <2>1. new \in RequestType /\ new.pc # "link"
      BY <1>0, <2>0 DEF RequestType, RequestRunning
    <2>2. End(r) \/ req' = [req EXCEPT ![r] = new]
      BY <1>7 DEF StoreSignedDocument, CompleteContainer, Stored
    <2> QED BY <1>1, <1>7, <2>1, <2>2 DEF StoreSignedDocument, CompleteContainer
  <1>8. ASSUME CompleteConflict(r)
        PROVE  LinkMoves
    <2> DEFINE new == [req[r] EXCEPT !.tries = @ + 1]
    <2>1. new \in RequestType /\ new.pc # "link"
      BY <1>0, <1>8 DEF RequestType, CompleteConflict
    <2>2. End(r) \/ req' = [req EXCEPT ![r] = new]
      BY <1>8 DEF CompleteConflict
    <2> QED BY <1>1, <1>8, <2>1, <2>2 DEF CompleteConflict
  <1>9. ASSUME NEW o, InsertSignature(r, o)
        PROVE  LinkMoves
    <2> DEFINE new == [req[r] EXCEPT !.pc = "complete", !.sig = Len(sigs) + 1]
    <2>0. Len(sigs) + 1 \in Nat
      BY DEF HandlerInv, TypeOK
    <2>1. new \in RequestType /\ new.pc # "link"
      BY <1>0, <2>0 DEF RequestType, RequestRunning
    <2>2. End(r) \/ req' = [req EXCEPT ![r] = new]
      BY <1>9 DEF InsertSignature
    <2> QED BY <1>1, <1>9, <2>1, <2>2 DEF InsertSignature
  <1> QED BY <1>3, <1>4, <1>5, <1>6, <1>7, <1>8, <1>9, StoreReportMoves DEF RequestStep

\* So does every step.
LEMMA NextMoves ==
  ASSUME HandlerInv, [Next]_vars
  PROVE  LinkMoves
  <1>1. ASSUME NEW a \in Attempts, BeginStep(a) \/ CrashBegin(a) \/ ProviderMoves(a)
        PROVE  UNCHANGED <<req, reports>>
    BY <1>1 DEF BeginStep, CrashBegin, ProviderMoves, BeginChecks, ResolveHead, AcquireLock,
                Prepare, SaveJob, ReleaseOnFailure
  <1> QED BY <1>1, IdleMoves, ArriveMoves, RequestMoves DEF Next, Lapse, vars

-----------------------------------------------------------------------------
(* The invariant is kept *)

\* A stored result is never changed or removed.
ResultsStay ==
    /\ Len(reports') >= Len(reports)
    /\ \A n \in 1 .. Len(reports) : reports'[n] = reports[n]

\* Results are only appended.
LEMMA ResultsNeverLeave ==
  ASSUME TypeOK, LinkMoves
  PROVE  ResultsStay
  <1>1. CASE reports' = reports
    BY <1>1 DEF ResultsStay, TypeOK
  <1>2. ASSUME NEW r \in Requests, Stores(r)
        PROVE  ResultsStay
    BY <1>2, AppendProperties DEF ResultsStay, TypeOK, Stores
  <1> QED BY <1>1, <1>2 DEF LinkMoves, NoneStores

\* So a result keeps being the record's.
LEMMA ReportStays ==
  ASSUME TypeOK, ResultsStay, NEW n, NEW k, ReportOf(n, k)
  PROVE  ReportOf(n, k)'
  <1>1. Len(reports) \in Nat /\ n \in 1 .. Len(reports)
    BY DEF TypeOK, ReportOf
  <1> QED BY <1>1 DEF ReportOf, ResultsStay

\* A handler gets to the link with the result it has just stored.
LEMMA LinkStaysKnown ==
  ASSUME HandlerInv, ReportInv, LinkMoves
  PROVE  LinkKnown'
  <1>0. ResultsStay
    BY ResultsNeverLeave DEF HandlerInv
  <1>1. ASSUME NEW q \in Requests, req'[q].pc = "link", req'[q] = req[q],
               NEW n, NEW k, n = req[q].rep, k = req[q].sig
        PROVE  ReportOf(n, k)'
    BY <1>0, <1>1, ReportStays DEF HandlerInv, ReportInv, LinkKnown
  <1>2. CASE NoneStores
    BY <1>1, <1>2 DEF NoneStores, LinkKnown, ReportOf
  <1>3. ASSUME NEW r \in Requests, Stores(r)
        PROVE  LinkKnown'
    <2>1. ASSUME NEW n, NEW k, n = Len(reports) + 1, k = req[r].sig
          PROVE  ReportOf(n, k)'
      BY <1>3, <2>1, AppendProperties DEF Stores, ReportOf, HandlerInv, TypeOK
    <2> QED BY <1>1, <1>3, <2>1 DEF Stores, LinkKnown, ReportOf
  <1> QED BY <1>2, <1>3 DEF LinkMoves

\* The results of the records.
LEMMA RecordsKeepResults ==
  ASSUME TypeOK, ReportsMatch, ResultsStay,
         \A k \in 1 .. Len(sigs') :
             \/ sigs'[k].report = 0
             \/ k \in 1 .. Len(sigs) /\ sigs'[k].report = sigs[k].report
  PROVE  ReportsMatch'
  <1> SUFFICES ASSUME NEW k \in 1 .. Len(sigs'), sigs'[k].report # 0, NEW n, n = sigs'[k].report
               PROVE  ReportOf(n, k)'
    BY DEF ReportsMatch, ReportOf
  <1>1. k \in 1 .. Len(sigs) /\ n = sigs[k].report
    OBVIOUS
  <1>2. ReportOf(n, k)
    BY <1>1 DEF ReportsMatch, ReportOf
  <1> QED BY <1>2, ReportStays

\* InsertSignature: the new record has no result yet.
LEMMA InsertKeepsResults ==
  ASSUME HandlerInv, ReportInv, ResultsStay, NEW r \in Requests, NEW o, InsertSignature(r, o)
  PROVE  ReportsMatch'
  <1>1. CASE UNCHANGED sigs
    BY <1>1, RecordsKeepResults DEF HandlerInv, ReportInv
  <1>2. CASE sigs' = Append(sigs, signatureRecord(r))
    <2>1. sigs \in Seq(RecordType) /\ signatureRecord(r) \in RecordType
      BY RunningJob DEF InsertSignature, HandlerInv, TypeOK, RequestType, RequestRunning,
                        signatureRecord, RecordType
    <2>2. /\ Len(sigs) \in Nat
          /\ Len(sigs') = Len(sigs) + 1
          /\ \A k \in 1 .. Len(sigs) : sigs'[k] = sigs[k]
          /\ sigs'[Len(sigs) + 1].report = 0
      BY <1>2, <2>1, AppendProperties DEF signatureRecord
    <2>3. \A k \in 1 .. Len(sigs') : k \in 1 .. Len(sigs) \/ k = Len(sigs) + 1
      BY <2>2
    <2> QED BY <2>2, <2>3, RecordsKeepResults DEF HandlerInv, ReportInv
  <1> QED BY <1>1, <1>2 DEF InsertSignature

\* RecordValidation: the result linked is the request's own.
LEMMA LinkKeepsResults ==
  ASSUME HandlerInv, ReportInv, ResultsStay, NEW r \in Requests, NEW o, RecordValidation(r, o)
  PROVE  ReportsMatch'
  <1> DEFINE s == req[r].sig
  <1>0. req[r].pc = "link" /\ UNCHANGED reports
    BY DEF RecordValidation
  <1>1. CASE UNCHANGED sigs
    BY <1>1, RecordsKeepResults DEF HandlerInv, ReportInv
  <1>2. CASE sigs' = [sigs EXCEPT ![s].report = linkedReport(r)]
    <2>1. s \in 1 .. Len(sigs) /\ sigs \in Seq(RecordType) /\ sigs[s] \in RecordType
      BY <1>0, RecordsTyped DEF HandlerInv, TypeOK, RequestLinks, SignatureKnown
    <2>2. /\ Len(sigs') = Len(sigs)
          /\ sigs'[s].report = req[r].rep
          /\ \A k \in 1 .. Len(sigs) \ {s} : sigs'[k] = sigs[k]
      BY <1>2, <2>1 DEF linkedReport, RecordType
    <2>3. \A k \in 1 .. Len(sigs) \ {s} : sigs[k].report # 0 => ReportOf(sigs[k].report, k)
      BY DEF ReportInv, ReportsMatch, ReportOf
    <2>4. ReportOf(req[r].rep, s)
      BY <1>0 DEF ReportInv, LinkKnown
    <2> QED BY <1>0, <2>1, <2>2, <2>3, <2>4 DEF ReportsMatch, ReportOf
  <1> QED BY <1>1, <1>2 DEF RecordValidation

\* Nothing is linked or about to be linked at the start.
LEMMA InitReportInv == Init => ReportInv
  BY DEF Init, IdleRequest, ReportInv, ReportsMatch, LinkKnown

\* Every step keeps it.
LEMMA NextReportInv ==
  ASSUME HandlerInv, ReportInv, [Next]_vars
  PROVE  ReportInv'
  <1>1. LinkMoves /\ ResultsStay
    BY NextMoves, ResultsNeverLeave DEF HandlerInv
  <1>2. \/ UNCHANGED sigs
        \/ \E r \in Requests : \E o : InsertSignature(r, o) \/ RecordValidation(r, o)
    <2>1. ASSUME NEW a \in Attempts, BeginStep(a) \/ CrashBegin(a) \/ ProviderMoves(a)
          PROVE  UNCHANGED sigs
      BY <2>1 DEF BeginStep, CrashBegin, ProviderMoves, BeginChecks, ResolveHead, AcquireLock,
                  Prepare, SaveJob, ReleaseOnFailure
    <2>2. ASSUME NEW r \in Requests, Arrive(r) \/ CrashRequest(r)
          PROVE  UNCHANGED sigs
      BY <2>2 DEF Arrive, CrashRequest, Reconcile, SubmitClientSignature, Abandon, GetJob, Validate
    <2>3. ASSUME NEW r \in Requests, RequestStep(r)
          PROVE  UNCHANGED sigs \/ \E o : InsertSignature(r, o) \/ RecordValidation(r, o)
      BY <2>3 DEF RequestStep, PollStatus, StoreSignedDocument, CompleteContainer, notifySlotSigned,
                  Submit, ReconcileJob, KeepAlive, MarkCompleted, ReleaseChainLock, MirrorState,
                  AbandonRelease, StoreReport, CompleteConflict
    <2> QED BY <2>1, <2>2, <2>3 DEF Next, Lapse, vars
  <1>3. ReportsMatch'
    <2>1. CASE UNCHANGED sigs
      BY <1>1, <2>1, RecordsKeepResults DEF HandlerInv, ReportInv
    <2> QED BY <1>1, <1>2, <2>1, InsertKeepsResults, LinkKeepsResults
  <1> QED BY <1>1, <1>3, LinkStaysKnown DEF ReportInv

\* A signature record is never linked to the validation result of another
\* record, however many at-signing and on-demand validations overlap, fail
\* halfway or are cut off.
THEOREM ResultsLinked == Spec => []ReportsMatch
  <1>1. HandlerInv /\ ReportInv /\ [Next]_vars => HandlerInv' /\ ReportInv'
    BY NextHandlerInv, NextReportInv
  <1>2. Init => HandlerInv /\ ReportInv
    BY InitHandlerInv, InitReportInv
  <1>3. ReportInv => ReportsMatch
    BY DEF ReportInv
  <1> QED BY <1>1, <1>2, <1>3, PTL DEF Spec

-----------------------------------------------------------------------------
(* The assurance events *)

\* A Begin that succeeded has its job row.
BoundSaved == \A a \in Attempts : att[a].pc = "bound" => jobs[a] # "none"

\* The gate turned away only what it has to.
RejectedRefused == \A a \in Attempts : att[a].pc = "rejected" => ~Accepts(a)

AssuranceTyped == assurance \in [Attempts -> {"none", "bound", "rejected"}]

EvidenceInv ==
    HandlerInv /\ BoundSaved /\ RejectedRefused /\ AssuranceTyped /\ AssuranceTruthful

-----------------------------------------------------------------------------
(* What the conductor's steps do to jobs and gates *)

\* No step removes a job row, and none changes what was asked.
LEMMA JobsNeverLeave ==
  ASSUME HandlerInv, [Next]_vars
  PROVE  JobsStay /\ input' = input
<1>1. CASE UNCHANGED <<jobs, input>>
  BY <1>1 DEF JobsStay
<1>2. ASSUME NEW a \in Attempts, NEW st \in JobStates, jobs' = [jobs EXCEPT ![a] = st]
      PROVE  JobsStay
  BY <1>2 DEF JobsStay, HandlerInv, TypeOK, JobStates, ProviderStates
<1>3. ASSUME NEW a \in Attempts, BeginStep(a) \/ CrashBegin(a) \/ ProviderMoves(a)
      PROVE  JobsStay /\ input' = input
  <2>1. ASSUME NEW o, SaveJob(a, o)
        PROVE  JobsStay /\ input' = input
    <3>1. att[a].st \in JobStates
      BY DEF HandlerInv, TypeOK, BeginType, JobStates
    <3>2. jobs' = jobs \/ jobs' = [jobs EXCEPT ![a] = att[a].st]
      BY <2>1 DEF SaveJob
    <3>3. input' = input
      BY <2>1 DEF SaveJob
    <3> QED
      BY <1>2, <3>1, <3>2, <3>3 DEF JobsStay
  <2> QED
    BY <1>1, <1>3, <2>1
    DEF BeginStep, BeginChecks, ResolveHead, AcquireLock, Prepare, ReleaseOnFailure, CrashBegin,
        ProviderMoves
<1>4. ASSUME NEW r \in Requests, Arrive(r) \/ CrashRequest(r)
      PROVE  JobsStay /\ input' = input
  BY <1>1, <1>4 DEF Arrive, CrashRequest, Reconcile, SubmitClientSignature, Abandon, GetJob, Validate
<1>5. ASSUME NEW r \in Requests, RequestStep(r)
      PROVE  JobsStay /\ input' = input
  <2>1. ASSUME req[r].pc \in RequestRunning
        PROVE  req[r].job \in Attempts /\ req[r].st \in JobStates
    BY <2>1 DEF HandlerInv, RequestLinks, RequestHasJob, TypeOK, RequestType, JobStates
  <2>2. ASSUME NEW o, ReconcileJob(r, o) \/ MirrorState(r, o)
        PROVE  JobsStay /\ input' = input
    <3>1. req[r].job \in Attempts /\ req[r].st \in JobStates
      BY <2>1, <2>2 DEF ReconcileJob, MirrorState, RequestRunning
    <3>2. jobs' = jobs \/ jobs' = [jobs EXCEPT ![req[r].job] = req[r].st]
      BY <2>2 DEF ReconcileJob, MirrorState
    <3>3. input' = input
      BY <2>2 DEF ReconcileJob, MirrorState
    <3> QED
      BY <1>2, <3>1, <3>2, <3>3 DEF JobsStay
  <2>3. ASSUME NEW o, MarkCompleted(r, o)
        PROVE  JobsStay /\ input' = input
    <3>1. req[r].job \in Attempts
      BY <2>1, <2>3 DEF MarkCompleted, RequestRunning
    <3>2. jobs' = jobs \/ jobs' = [jobs EXCEPT ![req[r].job] = "COMPLETED"]
      BY <2>3 DEF MarkCompleted
    <3>3. input' = input
      BY <2>3 DEF MarkCompleted
    <3> QED
      BY <1>2, <3>1, <3>2, <3>3 DEF JobsStay, JobStates
  <2>4. ASSUME ~(\E o : ReconcileJob(r, o) \/ MirrorState(r, o) \/ MarkCompleted(r, o))
        PROVE  UNCHANGED <<jobs, input>>
    BY <1>5, <2>4
    DEF RequestStep, PollStatus, StoreSignedDocument, CompleteContainer, notifySlotSigned, Submit,
        KeepAlive, InsertSignature, ReleaseChainLock, RecordValidation, AbandonRelease, StoreReport,
        CompleteConflict
  <2> QED
    BY <1>1, <2>2, <2>3, <2>4
<1> QED
  BY <1>1, <1>3, <1>4, <1>5 DEF Next, Lapse, vars

\* A Begin succeeds by storing its job.
LEMMA BoundStaysSaved ==
  ASSUME HandlerInv, BoundSaved, [Next]_vars
  PROVE  BoundSaved'
<1>1. JobsStay
  BY JobsNeverLeave
<1>2. CASE att' = att
  BY <1>1, <1>2 DEF BoundSaved, JobsStay
<1>3. ASSUME NEW a \in Attempts, BeginStep(a) \/ CrashBegin(a)
      PROVE  BoundSaved'
  <2>1. ASSUME NEW b \in Attempts \ {a}
        PROVE  att'[b] = att[b]
    BY <1>3, <2>1, BeginOrder DEF HandlerInv
  <2>2. ASSUME att'[a].pc = "bound"
        PROVE  jobs'[a] # "none"
    <3>0. att[a].st # "none" /\ att[a].pc = "save"
      BY <1>3, <2>2, BeginOrder DEF HandlerInv, TypeOK, BeginType, ProviderStates
    <3>1. ASSUME NEW l, BeginAt(a, l)
          PROVE  att'[a].pc = l
      BY <3>1, BeginGoes DEF BeginAt, HandlerInv
    <3>2. PICK o : SaveJob(a, o)
      BY <1>3, <2>2, <3>0, <3>1
      DEF BeginStep, BeginChecks, ResolveHead, AcquireLock, Prepare, ReleaseOnFailure, CrashBegin
    <3>3. o = "ok"
      BY <2>2, <3>1, <3>2 DEF SaveJob, unwind
    <3> QED
      BY <3>0, <3>2, <3>3 DEF SaveJob, Applied, HandlerInv, TypeOK
  <2> QED
    BY <1>1, <2>1, <2>2 DEF BoundSaved, JobsStay
<1>4. ASSUME NEW r \in Requests, Arrive(r) \/ RequestStep(r) \/ CrashRequest(r)
      PROVE  att' = att
  BY <1>4
  DEF Arrive, RequestStep, CrashRequest, Reconcile, SubmitClientSignature, Abandon, GetJob,
      Validate, PollStatus, StoreSignedDocument, CompleteContainer, notifySlotSigned, Submit,
      ReconcileJob, KeepAlive, InsertSignature, MarkCompleted, ReleaseChainLock,
      RecordValidation, MirrorState, AbandonRelease, StoreReport, CompleteConflict
<1> QED
  BY <1>2, <1>3, <1>4 DEF Next, Lapse, ProviderMoves, vars

\* Only the checks reject, and what was asked does not change.
LEMMA RejectedStaysRefused ==
  ASSUME HandlerInv, RejectedRefused, [Next]_vars
  PROVE  RejectedRefused'
<1>1. input' = input
  BY JobsNeverLeave
<1>2. CASE att' = att
  BY <1>1, <1>2 DEF RejectedRefused, Accepts
<1>3. ASSUME NEW a \in Attempts, BeginStep(a) \/ CrashBegin(a)
      PROVE  RejectedRefused'
  <2>1. ASSUME NEW b \in Attempts \ {a}
        PROVE  att'[b] = att[b]
    BY <1>3, <2>1, BeginOrder DEF HandlerInv
  <2>2. ASSUME NEW l, BeginAt(a, l)
        PROVE  att'[a].pc = l
    BY <2>2, BeginGoes DEF BeginAt, HandlerInv
  <2>4. ASSUME ~BeginChecks(a), att'[a].pc = "rejected"
        PROVE  FALSE
    <3>1. att[a].pc = "idle"
      BY <1>3, <2>4, BeginOrder DEF HandlerInv
    <3> QED
      BY <1>3, <2>4, <3>1
      DEF BeginStep, ResolveHead, AcquireLock, Prepare, SaveJob, ReleaseOnFailure, CrashBegin,
          BeginRunning
  <2>5. att'[a].pc = "rejected" => ~Accepts(a)
    BY <2>2, <2>4 DEF BeginChecks
  <2> QED
    BY <1>1, <2>1, <2>5 DEF RejectedRefused, Accepts
<1>4. ASSUME NEW r \in Requests, Arrive(r) \/ RequestStep(r) \/ CrashRequest(r)
      PROVE  att' = att
  BY <1>4
  DEF Arrive, RequestStep, CrashRequest, Reconcile, SubmitClientSignature, Abandon, GetJob,
      Validate, PollStatus, StoreSignedDocument, CompleteContainer, notifySlotSigned, Submit,
      ReconcileJob, KeepAlive, InsertSignature, MarkCompleted, ReleaseChainLock,
      RecordValidation, MirrorState, AbandonRelease, StoreReport, CompleteConflict
<1> QED
  BY <1>2, <1>3, <1>4 DEF Next, Lapse, ProviderMoves, vars

\* A refused login has neither a provider job nor a job row.
LEMMA RefusedHasNothing ==
  ASSUME HandlerInv, NEW a \in Attempts, ~checkBinding(input[a].login, input[a].flow)
  PROVE  provider[a] = "none" /\ jobs[a] = "none"
BY DEF HandlerInv, BeginLinks, BeginGated, ProviderKnows, Accepts

-----------------------------------------------------------------------------
(* The invariant is kept *)

\* The events that are out stay true whatever the conductor does.
LEMMA ConductorKeepsTruth ==
  ASSUME EvidenceInv, [Next]_vars, UNCHANGED assurance
  PROVE  EvidenceInv'
<1>1. HandlerInv' /\ BoundSaved' /\ JobsStay /\ input' = input
  BY NextHandlerInv, BoundStaysSaved, JobsNeverLeave DEF EvidenceInv
<1>4. RejectedRefused'
  BY RejectedStaysRefused DEF EvidenceInv
<1>2. ASSUME NEW a \in Attempts
      PROVE  /\ assurance[a] = "rejected" =>
                   /\ ~checkBinding(input'[a].login, input'[a].flow)
                   /\ provider'[a] = "none" /\ jobs'[a] = "none"
             /\ assurance[a] = "bound" =>
                   checkBinding(input'[a].login, input'[a].flow) /\ jobs'[a] # "none"
  <2>1. CASE assurance[a] = "rejected"
    <3>1. ~checkBinding(input[a].login, input[a].flow)
      BY <2>1 DEF EvidenceInv, AssuranceTruthful
    <3>2. provider'[a] = "none" /\ jobs'[a] = "none"
      BY <1>1, <3>1 DEF HandlerInv, BeginLinks, BeginGated, ProviderKnows, Accepts
    <3> QED
      BY <1>1, <2>1, <3>1, <3>2
  <2>2. CASE assurance[a] = "bound"
    <3>1. checkBinding(input[a].login, input[a].flow) /\ jobs[a] # "none"
      BY <2>2 DEF EvidenceInv, AssuranceTruthful
    <3> QED
      BY <1>1, <2>2, <3>1 DEF JobsStay
  <2> QED
    BY <2>1, <2>2
<1>3. AssuranceTruthful'
  BY <1>2 DEF AssuranceTruthful
<1> QED
  BY <1>1, <1>3, <1>4 DEF EvidenceInv, AssuranceTyped

\* An event that goes out is true.
LEMMA AnswerTellsTruth ==
  ASSUME EvidenceInv, NEW a \in Attempts, AnswerBegin(a)
  PROVE  EvidenceInv'
<1>1. UNCHANGED vars
  BY DEF AnswerBegin
<1>2. HandlerInv' /\ BoundSaved' /\ RejectedRefused'
  BY <1>1, NextHandlerInv, BoundStaysSaved, RejectedStaysRefused DEF EvidenceInv
<1>3. assurance' = assurance \/ assurance' = [assurance EXCEPT ![a] = decision(a)]
  BY DEF AnswerBegin
<1>4. CASE assurance' = assurance
  BY <1>1, <1>4, ConductorKeepsTruth
<1>5. CASE assurance' = [assurance EXCEPT ![a] = decision(a)]
  <2>1. decision(a) \in {"none", "bound", "rejected"}
    BY DEF decision
  <2>2. decision(a) = "bound" => checkBinding(input[a].login, input[a].flow) /\ jobs[a] # "none"
    BY DEF decision, EvidenceInv, BoundSaved, HandlerInv, BeginLinks, BeginGated, Accepts
  <2>3. decision(a) = "rejected" => ~checkBinding(input[a].login, input[a].flow)
    <3> SUFFICES ASSUME decision(a) = "rejected"
                 PROVE  ~checkBinding(input[a].login, input[a].flow)
      OBVIOUS
    <3>1. att[a].pc = "rejected" /\ input[a].format \in Formats
      BY DEF decision
    <3> QED
      BY <3>1 DEF EvidenceInv, RejectedRefused, Accepts
  <2>4. AssuranceTyped'
    BY <1>5, <2>1 DEF EvidenceInv, AssuranceTyped
  <2>5. ASSUME NEW b \in Attempts
        PROVE  /\ assurance'[b] = "rejected" =>
                     /\ ~checkBinding(input[b].login, input[b].flow)
                     /\ provider[b] = "none" /\ jobs[b] = "none"
               /\ assurance'[b] = "bound" =>
                     checkBinding(input[b].login, input[b].flow) /\ jobs[b] # "none"
    <3>1. CASE b # a
      <4>1. assurance'[b] = assurance[b]
        BY <1>5, <3>1 DEF EvidenceInv, AssuranceTyped
      <4> QED
        BY <4>1 DEF EvidenceInv, AssuranceTruthful
    <3>2. CASE b = a
      <4>1. assurance'[a] = decision(a)
        BY <1>5 DEF EvidenceInv, AssuranceTyped
      <4>2. ~checkBinding(input[a].login, input[a].flow) => provider[a] = "none" /\ jobs[a] = "none"
        BY RefusedHasNothing DEF EvidenceInv
      <4> QED
        BY <2>2, <2>3, <3>2, <4>1, <4>2
    <3> QED
      BY <3>1, <3>2
  <2>6. UNCHANGED <<input, provider, jobs>>
    BY <1>1 DEF vars
  <2>7. AssuranceTruthful'
    BY <2>5, <2>6 DEF AssuranceTruthful
  <2> QED
    BY <1>2, <2>4, <2>7 DEF EvidenceInv
<1> QED
  BY <1>3, <1>4, <1>5

\* A document's validation ends its own request and leaves all others going.
LEMMA DocumentKeepsHandlers ==
  ASSUME HandlerInv, NEW r \in Requests, NEW v, ValidateDocument(r, v)
  PROVE  HandlerInv'
<1>1. UNCHANGED <<input, att, jobs, sigs, reports, lock, provider, chain, told, abandoned>>
  BY DEF ValidateDocument
<1>2. TypeOK /\ BeginLinks /\ RequestLinks /\ End(r) /\ JobsStay
  BY <1>1 DEF HandlerInv, ValidateDocument, JobsStay
<1>3. TypeOK'
  <2>1. req' \in [Requests -> RequestType]
    BY <1>2, EndMoves
  <2> QED
    BY <1>1, <1>2, <2>1 DEF TypeOK
<1>4. RequestLinks'
  BY <1>1, <1>2, EndKeepsLinks
<1>5. BeginLinks'
  BY <1>1, <1>2, <1>3, BeginLinksStay DEF TypeOK
<1> QED
  BY <1>3, <1>4, <1>5 DEF HandlerInv

\* It touches nothing that an assurance event tells of.
LEMMA DocumentLeavesTruth ==
  ASSUME EvidenceInv, NEW r \in Requests, NEW v, ValidateDocument(r, v)
  PROVE  EvidenceInv'
<1>1. UNCHANGED <<input, att, jobs, provider, assurance>>
  BY DEF ValidateDocument
<1>2. HandlerInv'
  BY DocumentKeepsHandlers DEF EvidenceInv
<1> QED
  BY <1>1, <1>2
  DEF EvidenceInv, BoundSaved, RejectedRefused, Accepts, AssuranceTyped, AssuranceTruthful

\* Nothing is out at the start.
LEMMA InitTellsTruth ==
  ASSUME EvidenceInit
  PROVE  EvidenceInv
<1>1. HandlerInv
  BY InitHandlerInv DEF EvidenceInit
<1> QED
  BY <1>1
  DEF EvidenceInit, Init, EvidenceInv, BoundSaved, RejectedRefused, AssuranceTyped,
      AssuranceTruthful

\* Every step keeps the events that are out true.
LEMMA StepTellsTruth ==
  ASSUME EvidenceInv, [EvidenceNext]_evars
  PROVE  EvidenceInv'
<1>1. CASE UNCHANGED evars
  BY <1>1, ConductorKeepsTruth DEF evars
<1>2. CASE ConductorStep
  BY <1>2, ConductorKeepsTruth DEF ConductorStep, Returned
<1>3. ASSUME NEW a \in Attempts, AnswerBegin(a)
      PROVE  EvidenceInv'
  BY <1>3, AnswerTellsTruth
<1>4. ASSUME NEW a \in Attempts, LoseAssurance(a)
      PROVE  EvidenceInv'
  BY <1>4, ConductorKeepsTruth DEF LoseAssurance
<1>5. ASSUME NEW r \in Requests, EmitValidation(r) \/ LoseValidation(r)
      PROVE  EvidenceInv'
  BY <1>5, ConductorKeepsTruth DEF EmitValidation, LoseValidation
<1>6. ASSUME NEW r \in Requests, NEW v \in 1 .. Latest, ValidateDocument(r, v)
      PROVE  EvidenceInv'
  BY <1>6, DocumentLeavesTruth
<1> QED
  BY <1>1, <1>2, <1>3, <1>4, <1>5, <1>6 DEF EvidenceNext

-----------------------------------------------------------------------------
\* An emitted assurance event stays true, for any number of attempts and of
\* requests, and whatever fails between the conductor's return and the event
\* (createSigning).
THEOREM AssuranceHolds == EvidenceSpec => []AssuranceTruthful
<1>1. EvidenceInv /\ [EvidenceNext]_evars => EvidenceInv'
  BY StepTellsTruth
<1>2. EvidenceInit => EvidenceInv
  BY InitTellsTruth
<1>3. EvidenceInv => AssuranceTruthful
  BY DEF EvidenceInv
<1> QED
  BY <1>1, <1>2, <1>3, PTL DEF EvidenceSpec

-----------------------------------------------------------------------------
(* Validation events: a result is in the hands of one request at a time *)

\* Request r is about to link result n, or to report it.
Holds(r, n) ==
    \/ req[r].pc = "link" /\ req[r].rep = n
    \/ owed[r] = n /\ n # 0

\* A result in somebody's hands is stored, has not been reported and is in
\* nobody else's hands.
HeldFresh ==
    \A r \in Requests, n \in Nat :
        Holds(r, n) => /\ n \in 1 .. Len(reports)
                       /\ \A j \in 1 .. Len(events) : events[j].report # n
                       /\ \A q \in Requests : Holds(q, n) => q = r

\* A request that owes an event is past its last call.
OwedDone == \A r \in Requests : owed[r] # 0 => req[r].pc = "done"

ResultsTyped ==
    /\ verdict \in Seq(Verdicts) /\ Len(verdict) = Len(reports)
    /\ owed \in [Requests -> Nat]
    /\ events \in Seq(EventType)

ValidationInv == HandlerInv /\ ResultsTyped /\ OwedDone /\ HeldFresh /\ ValidationBacked

\* Stored results and verdicts are only added to.
LEMMA VerdictsStay ==
  ASSUME TypeOK, ResultsTyped, LinkMoves, Returned
  PROVE  /\ verdict' \in Seq(Verdicts) /\ Len(verdict') = Len(reports')
         /\ \A n \in 1 .. Len(reports) : reports'[n] = reports[n] /\ verdict'[n] = verdict[n]
<1>1. CASE reports' = reports
  BY <1>1 DEF Returned, ResultsTyped
<1>2. CASE reports' # reports
  <2>1. PICK r \in Requests : Stores(r)
    BY <1>2 DEF LinkMoves, NoneStores
  <2>2. PICK v \in Verdicts : verdict' = Append(verdict, v)
    BY <1>2 DEF Returned
  <2>3. /\ Len(reports) \in Nat /\ Len(reports') = Len(reports) + 1
        /\ \A n \in 1 .. Len(reports) : reports'[n] = reports[n]
    BY <2>1, AppendProperties DEF Stores, TypeOK
  <2>4. /\ verdict' \in Seq(Verdicts) /\ Len(verdict') = Len(verdict) + 1
        /\ \A n \in 1 .. Len(verdict) : verdict'[n] = verdict[n]
    BY <2>2, AppendProperties DEF ResultsTyped
  <2> QED
    BY <2>3, <2>4 DEF ResultsTyped
<1> QED
  BY <1>1, <1>2

\* What a conductor's step leaves owed.
LEMMA OwedMoves ==
  ASSUME HandlerInv, ResultsTyped, Returned
  PROVE  /\ owed' \in [Requests -> Nat]
         /\ \A r \in Requests :
               \/ owed'[r] = owed[r]
               \/ req[r].pc = "link" /\ req'[r] # req[r] /\ owed'[r] = req[r].rep
<1>1. PICK lost \in BOOLEAN :
        owed' = [r \in Requests |->
                   IF req[r].pc = "link" /\ req'[r] # req[r] /\ sigs' # sigs /\ ~lost
                   THEN resultOf(r)
                   ELSE owed[r]]
  BY DEF Returned
<1>2. \A r \in Requests : req[r].rep \in Nat
  BY DEF HandlerInv, TypeOK, RequestType
<1> QED
  BY <1>1, <1>2 DEF resultOf, ResultsTyped

\* A request comes to hold a result by storing it.
LEMMA HeldBefore ==
  ASSUME HandlerInv, ResultsTyped, LinkMoves, Returned,
         NEW r \in Requests, NEW n \in Nat, Holds(r, n)'
  PROVE  \/ Holds(r, n)
         \/ Stores(r) /\ n = Len(reports) + 1 /\ req'[r] # req[r]
<1>1. CASE req'[r].pc = "link" /\ req'[r].rep = n
  <2>1. CASE req'[r] = req[r]
    BY <1>1, <2>1 DEF Holds
  <2>2. CASE req'[r] # req[r]
    <3>1. Stores(r)
      BY <1>1, <2>2 DEF LinkMoves, NoneStores, Stores
    <3> QED
      BY <1>1, <2>2, <3>1 DEF Stores
  <2> QED
    BY <2>1, <2>2
<1>2. CASE owed'[r] = n /\ n # 0
  BY <1>2, OwedMoves DEF Holds
<1> QED
  BY <1>1, <1>2 DEF Holds

\* Only one request moves when a result is stored.
LEMMA OneStores ==
  ASSUME NEW r \in Requests, NEW q \in Requests, Stores(r), req'[q] # req[q]
  PROVE  q = r
  BY DEF Stores

\* The conductor's steps keep the results in one pair of hands.
LEMMA ConductorKeepsResults ==
  ASSUME ValidationInv, [Next]_vars, Returned
  PROVE  ValidationInv'
<1>1. HandlerInv' /\ LinkMoves /\ TypeOK
  BY NextHandlerInv, NextMoves DEF ValidationInv, HandlerInv
<1>2. /\ verdict' \in Seq(Verdicts) /\ Len(verdict') = Len(reports')
      /\ \A n \in 1 .. Len(reports) : reports'[n] = reports[n] /\ verdict'[n] = verdict[n]
  BY <1>1, VerdictsStay DEF ValidationInv
<1>3. events' = events
  BY DEF Returned
<1>4. Len(reports) \in Nat /\ Len(reports') \in Nat /\ Len(reports') >= Len(reports)
  BY <1>1, ResultsNeverLeave DEF HandlerInv, TypeOK, ResultsStay
<1>5. ResultsTyped'
  BY <1>2, <1>3, OwedMoves DEF ValidationInv, ResultsTyped
<1>6. OwedDone'
  BY <1>1, OwedMoves DEF ValidationInv, OwedDone, LinkMoves, DoneStays, LinkIsLast
<1>7. ASSUME NEW r \in Requests, NEW n \in Nat, Holds(r, n)'
      PROVE  /\ n \in 1 .. Len(reports')
             /\ \A j \in 1 .. Len(events) : events[j].report # n
             /\ \A q \in Requests : Holds(q, n)' => q = r
  <2>1. \A q \in Requests : Holds(q, n)' =>
           \/ Holds(q, n)
           \/ Stores(q) /\ n = Len(reports) + 1 /\ req'[q] # req[q]
    BY <1>1, HeldBefore DEF ValidationInv
  <2>2. \A q \in Requests : Holds(q, n) => n \in 1 .. Len(reports)
    BY DEF ValidationInv, HeldFresh
  <2>3. CASE Holds(r, n)
    <3>1. \A q \in Requests : Holds(q, n)' => Holds(q, n)
      BY <1>4, <2>1, <2>2, <2>3
    <3> QED
      BY <1>4, <2>2, <2>3, <3>1 DEF ValidationInv, HeldFresh
  <2>4. CASE Stores(r) /\ n = Len(reports) + 1 /\ req'[r] # req[r]
    <3>1. Len(reports') = Len(reports) + 1
      BY <1>1, <2>4, AppendProperties DEF Stores, TypeOK
    <3>2. \A j \in 1 .. Len(events) : events[j].report # n
      BY <1>4, <2>4 DEF ValidationInv, ValidationBacked
    <3>3. \A q \in Requests : Holds(q, n)' => q = r
      BY <1>4, <2>1, <2>2, <2>4, OneStores
    <3> QED
      BY <1>4, <2>4, <3>1, <3>2, <3>3
  <2> QED
    BY <1>7, <2>1, <2>3, <2>4
<1>8. HeldFresh'
  BY <1>3, <1>7 DEF HeldFresh
<1>9. ValidationBacked'
  BY <1>2, <1>3, <1>4 DEF ValidationInv, ValidationBacked
<1> QED
  BY <1>1, <1>5, <1>6, <1>8, <1>9 DEF ValidationInv

\* A step that leaves the conductor, the results and the events alone; a
\* request may lose what it owed.
LEMMA ForgettingKeepsResults ==
  ASSUME ValidationInv, UNCHANGED <<vars, verdict, events>>, NEW r \in Requests,
         owed' = owed \/ owed' = [owed EXCEPT ![r] = 0]
  PROVE  ValidationInv'
<1>1. HandlerInv' /\ UNCHANGED <<req, reports>>
  BY NextHandlerInv DEF ValidationInv, vars
<1>2. owed' \in [Requests -> Nat] /\ \A q \in Requests : owed'[q] \in {owed[q], 0}
  BY DEF ValidationInv, ResultsTyped
<1>3. \A q \in Requests, n \in Nat : Holds(q, n)' => Holds(q, n)
  BY <1>1, <1>2 DEF Holds
<1> QED
  BY <1>1, <1>2, <1>3
  DEF ValidationInv, ResultsTyped, OwedDone, HeldFresh, ValidationBacked

\* EmitValidation: the result leaves the request's hands as it is reported.
LEMMA EmissionKeepsResults ==
  ASSUME ValidationInv, NEW r \in Requests, EmitValidation(r)
  PROVE  ValidationInv'
<1>1. UNCHANGED <<vars, verdict>> /\ owed[r] # 0 /\ owed' = [owed EXCEPT ![r] = 0]
  BY DEF EmitValidation
<1>2. CASE events' = events
  BY <1>1, <1>2, ForgettingKeepsResults
<1>3. CASE events' = Append(events, eventOf(r))
  <2> DEFINE n == owed[r]
  <2>1. HandlerInv' /\ UNCHANGED <<req, reports>>
    BY <1>1, NextHandlerInv DEF ValidationInv, vars
  <2>2. n \in Nat /\ Holds(r, n)
    BY <1>1 DEF ValidationInv, ResultsTyped, Holds
  <2>3. n \in 1 .. Len(reports) /\ \A q \in Requests : Holds(q, n) => q = r
    BY <2>2 DEF ValidationInv, HeldFresh
  <2>3a. \A j \in 1 .. Len(events) : events[j].report # n
    BY <2>2 DEF ValidationInv, HeldFresh
  <2>4. reports[n] \in Nat /\ verdict[n] \in Verdicts
    BY <2>3 DEF ValidationInv, HandlerInv, TypeOK, ResultsTyped
  <2>5. eventOf(r) \in EventType
    BY <2>2, <2>4 DEF eventOf, EventType
  <2>6. /\ Len(events) \in Nat /\ Len(events') = Len(events) + 1
        /\ events' \in Seq(EventType)
        /\ \A j \in 1 .. Len(events) : events'[j] = events[j]
        /\ events'[Len(events) + 1] = eventOf(r)
    BY <1>3, <2>5, AppendProperties DEF ValidationInv, ResultsTyped
  <2>7. eventOf(r).report = n /\ eventOf(r).sig = reports[n] /\ eventOf(r).passed = verdict[n]
    BY DEF eventOf
  <2>8. /\ owed' \in [Requests -> Nat] /\ owed'[r] = 0
        /\ \A q \in Requests \ {r} : owed'[q] = owed[q]
    BY <1>1 DEF ValidationInv, ResultsTyped
  <2> HIDE DEF n
  <2>9. \A q \in Requests, m \in Nat : Holds(q, m)' => Holds(q, m) /\ m # n
    <3> SUFFICES ASSUME NEW q \in Requests, NEW m \in Nat, Holds(q, m)'
                 PROVE  Holds(q, m) /\ m # n
      OBVIOUS
    <3>1. Holds(q, m)
      BY <2>1, <2>8 DEF Holds
    <3>2. ~Holds(r, m)'
      BY <1>1, <2>1, <2>8 DEF Holds, ValidationInv, OwedDone
    <3> QED
      BY <2>3, <3>1, <3>2
  <2>10. \A j \in 1 .. Len(events') : j \in 1 .. Len(events) \/ j = Len(events) + 1
    BY <2>6
  <2>11. HeldFresh'
    BY <2>1, <2>6, <2>7, <2>9, <2>10 DEF ValidationInv, HeldFresh
  <2>12. ValidationBacked'
    <3>1. ASSUME NEW j \in 1 .. Len(events'), events'[j].report # 0
          PROVE  /\ events'[j].report \in 1 .. Len(reports)
                 /\ events'[j].sig = reports[events'[j].report]
                 /\ events'[j].passed = verdict[events'[j].report]
      BY <2>3, <2>6, <2>7, <2>10, <3>1 DEF ValidationInv, ValidationBacked
    <3>2. ASSUME NEW j \in 1 .. Len(events'), NEW k \in 1 .. Len(events'),
                 events'[j].report # 0, events'[k].report = events'[j].report
          PROVE  j = k
      BY <2>3a, <2>6, <2>7, <2>10, <3>2 DEF ValidationInv, ValidationBacked
    <3> QED
      BY <1>1, <2>1, <3>1, <3>2 DEF ValidationBacked
  <2> QED
    BY <1>1, <2>1, <2>6, <2>8, <2>11, <2>12 DEF ValidationInv, ResultsTyped, OwedDone
<1> QED
  BY <1>2, <1>3 DEF EmitValidation

\* A document's validation names no result and holds none.
LEMMA DocumentKeepsResults ==
  ASSUME ValidationInv, NEW r \in Requests, NEW v, ValidateDocument(r, v)
  PROVE  ValidationInv'
<1>1. HandlerInv'
  BY DocumentKeepsHandlers DEF ValidationInv
<1>2. UNCHANGED <<reports, verdict, owed>> /\ End(r) /\ req[r].pc = "idle"
  BY DEF ValidateDocument
<1>3. req'[r].pc = "done" /\ \A q \in Requests \ {r} : req'[q] = req[q]
  BY <1>2, EndMoves DEF ValidationInv, HandlerInv
<1>4. \A q \in Requests, n \in Nat : Holds(q, n)' => Holds(q, n)
  BY <1>2, <1>3 DEF Holds
<1>5. OwedDone'
  BY <1>2, <1>3 DEF ValidationInv, OwedDone
<1>6. CASE events' = events
  BY <1>1, <1>2, <1>4, <1>5, <1>6 DEF ValidationInv, ResultsTyped, HeldFresh, ValidationBacked
<1>7. ASSUME NEW e \in EventType, e.report = 0, events' = Append(events, e)
      PROVE  ValidationInv'
  <2>1. /\ Len(events) \in Nat /\ Len(events') = Len(events) + 1
        /\ events' \in Seq(EventType)
        /\ \A j \in 1 .. Len(events) : events'[j] = events[j]
        /\ events'[Len(events) + 1].report = 0
    BY <1>7, AppendProperties DEF ValidationInv, ResultsTyped
  <2>2. \A j \in 1 .. Len(events') : j \in 1 .. Len(events) \/ j = Len(events) + 1
    BY <2>1
  <2>3. HeldFresh'
    BY <1>2, <1>4, <2>1, <2>2 DEF ValidationInv, HeldFresh
  <2>4. ValidationBacked'
    BY <1>2, <2>1, <2>2 DEF ValidationInv, ValidationBacked
  <2> QED
    BY <1>1, <1>2, <1>5, <2>1, <2>3, <2>4 DEF ValidationInv, ResultsTyped
<1>8. ASSUME NEW p \in Verdicts
      PROVE  [sig |-> 0, report |-> 0, passed |-> p] \in EventType
  BY DEF EventType
<1> QED
  BY <1>6, <1>7, <1>8 DEF ValidateDocument

\* No result is held and none reported at the start.
LEMMA InitKeepsResults ==
  ASSUME EvidenceInit
  PROVE  ValidationInv
<1>1. HandlerInv
  BY InitHandlerInv DEF EvidenceInit
<1> QED
  BY <1>1
  DEF EvidenceInit, Init, IdleRequest, ValidationInv, ResultsTyped, OwedDone, HeldFresh, Holds,
      ValidationBacked

\* Every step keeps a result in one pair of hands.
LEMMA StepKeepsResults ==
  ASSUME ValidationInv, [EvidenceNext]_evars
  PROVE  ValidationInv'
<1>1. CASE ConductorStep
  BY <1>1, ConductorKeepsResults DEF ConductorStep
<1>2. CASE UNCHANGED <<vars, verdict, owed, events>>
  <2>1. HandlerInv' /\ UNCHANGED <<req, reports>>
    BY <1>2, NextHandlerInv DEF ValidationInv, vars
  <2> QED
    BY <1>2, <2>1
    DEF ValidationInv, ResultsTyped, OwedDone, HeldFresh, Holds, ValidationBacked
<1>3. ASSUME NEW r \in Requests, LoseValidation(r)
      PROVE  ValidationInv'
  BY <1>3, ForgettingKeepsResults DEF LoseValidation
<1> QED
  BY <1>1, <1>2, <1>3, EmissionKeepsResults, DocumentKeepsResults
  DEF EvidenceNext, AnswerBegin, LoseAssurance, evars

\* A validation event names a stored result of the signature it names, with that
\* result's verdict, and no result is reported twice, for any number of
\* overlapping validations of one signature (signingStatus, validate).
THEOREM ValidationsTruthful == EvidenceSpec => []ValidationBacked
<1>1. ValidationInv /\ [EvidenceNext]_evars => ValidationInv'
  BY StepKeepsResults
<1>2. EvidenceInit => ValidationInv
  BY InitKeepsResults
<1>3. ValidationInv => ValidationBacked
  BY DEF ValidationInv
<1> QED
  BY <1>1, <1>2, <1>3, PTL DEF EvidenceSpec

-----------------------------------------------------------------------------
(* Types *)

\* An answer is given once per attempt, and only to attempts.
LEMMA AnsweredStays ==
  ASSUME answered \subseteq Attempts, [EvidenceNext]_evars
  PROVE  answered' \subseteq Attempts
BY DEF EvidenceNext, ConductorStep, Returned, AnswerBegin, LoseAssurance, EmitValidation,
       LoseValidation, ValidateDocument, evars

\* What a request owes is a result it may report, and so a stored one.
LEMMA EvidenceTyped ==
  ASSUME EvidenceInv, ValidationInv, answered \subseteq Attempts
  PROVE  EvidenceTypeOK
<1>1. ASSUME NEW r \in Requests
      PROVE  owed[r] \in 0 .. Len(reports)
  <2>1. owed[r] \in Nat /\ Len(reports) \in Nat
    BY DEF ValidationInv, ResultsTyped, HandlerInv, TypeOK
  <2>2. owed[r] # 0 => owed[r] \in 1 .. Len(reports)
    BY <2>1 DEF ValidationInv, HeldFresh, Holds
  <2> QED
    BY <2>1, <2>2
<1> QED
  BY <1>1 DEF EvidenceTypeOK, EvidenceInv, AssuranceTyped, ValidationInv, ResultsTyped

\* The evidence keeps its types: every stored result has a verdict, and no
\* request owes an event of a result that is not stored.
THEOREM EvidenceTypeCorrect == EvidenceSpec => []EvidenceTypeOK
<1> DEFINE TInv == EvidenceInv /\ ValidationInv /\ answered \subseteq Attempts
<1>1. TInv /\ [EvidenceNext]_evars => TInv'
  BY StepTellsTruth, StepKeepsResults, AnsweredStays
<1>2. EvidenceInit => TInv
  BY InitTellsTruth, InitKeepsResults DEF EvidenceInit
<1>3. TInv => EvidenceTypeOK
  BY EvidenceTyped
<1> QED
  BY <1>1, <1>2, <1>3, PTL DEF EvidenceSpec
-----------------------------------------------------------------------------
(* What is proved of the conductor holds with document validations beside it *)

ConductorInv == HandlerInv /\ RecordInv /\ ReportInv

\* A document's validation touches no record, no result and no other request.
LEMMA DocumentKeepsRecords ==
  ASSUME ConductorInv, NEW r \in Requests, NEW v, ValidateDocument(r, v)
  PROVE  ConductorInv'
<1>1. UNCHANGED <<input, att, jobs, sigs, reports, lock, provider, chain, told, abandoned>>
  BY DEF ValidateDocument
<1>2. HandlerInv /\ RecordInv /\ ReportInv
  BY DEF ConductorInv
<1>3. TypeOK /\ End(r) /\ req[r].pc = "idle"
  BY <1>2 DEF HandlerInv, ValidateDocument
<1>4. HandlerInv'
  BY <1>2, DocumentKeepsHandlers
<1>5. req'[r].pc = "done" /\ \A q \in Requests \ {r} : req'[q] = req[q]
  BY <1>3, EndMoves
<1>6. RecordInv'
  <2>1. FormsStay /\ VersionsStay
    BY <1>1, <1>3 DEF FormsStay, VersionsStay, TypeOK
  <2>2. \A q \in Requests : req'[q].pc = "insert" => req'[q] = req[q]
    BY <1>5
  <2> QED
    BY <1>1, <1>2, <2>1, <2>2, RecordInvStays
<1>7. ReportInv'
  <2>1. ReportsMatch'
    BY <1>1, <1>2 DEF ReportInv, ReportsMatch
  <2>2. LinkMoves
    BY <1>1, <1>3, OtherMoves
  <2> QED
    BY <1>2, <2>1, <2>2, LinkStaysKnown DEF ReportInv
<1> QED
  BY <1>4, <1>6, <1>7 DEF ConductorInv

\* Nor does any other step of the routes.
LEMMA RoutesKeepRecords ==
  ASSUME ConductorInv, [EvidenceNext]_evars
  PROVE  ConductorInv'
<1>1. ASSUME [Next]_vars
      PROVE  ConductorInv'
  BY <1>1, NextHandlerInv, NextRecordInv, NextReportInv DEF ConductorInv
<1>2. \/ [Next]_vars
      \/ \E r \in Requests, v \in 1 .. Latest : ValidateDocument(r, v)
  BY DEF EvidenceNext, ConductorStep, AnswerBegin, LoseAssurance, EmitValidation, LoseValidation,
         evars
<1> QED
  BY <1>1, <1>2, DocumentKeepsRecords

\* With the routes around the conductor, document validations and lost events
\* included, a record names a stored document that carries its signature, a
\* COMPLETED job has a record, and a linked result belongs to its record.
THEOREM EvidenceKeepsRecords ==
    EvidenceSpec => [](RecordsBacked /\ CompletedRecorded /\ ReportsMatch)
<1>1. ConductorInv /\ [EvidenceNext]_evars => ConductorInv'
  BY RoutesKeepRecords
<1>2. EvidenceInit => ConductorInv
  BY InitHandlerInv, InitRecordInv, InitReportInv DEF EvidenceInit, ConductorInv
<1>3. ConductorInv => RecordsBacked /\ CompletedRecorded /\ ReportsMatch
  BY DEF ConductorInv, RecordInv, ReportInv
<1> QED
  BY <1>1, <1>2, <1>3, PTL DEF EvidenceSpec
=============================================================================
