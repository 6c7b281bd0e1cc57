----------------------------- MODULE Conductor -----------------------------
(***************************************************************************)
(* The signing conductor (src/orchestrator/orchestrator.go) driving the    *)
(* signatures of one envelope's document chain.  Every request is its own  *)
(* handler; a handler's calls to the record store and to the three         *)
(* collaborators (signing provider, document store, envelope service) are  *)
(* one step each, and the steps of all handlers interleave, because        *)
(* nothing in the service or in front of it runs them one after another.   *)
(*                                                                         *)
(* An attempt is one call of Begin together with the provider job it       *)
(* creates.  A document is a version of the chain: its kind and the set of *)
(* attempts whose signatures it carries.                                   *)
(***************************************************************************)
EXTENDS Naturals, Sequences, FiniteSets, Binding

CONSTANTS
    Slots,              \* the envelope's signature slots
    Attempts,           \* signing attempts; also the provider's job ids
    Callers,            \* authenticated subjects
    RequestCallers,     \* subjects of the requests; None is one of them if
                        \* a token may carry no subject
    None,               \* no slot, no attempt, no subject in the token
    Requests,           \* requests other than Begin
    BeginInputs,        \* what an attempt may ask for
    RootKinds,          \* kinds of document an envelope may start from
    Ops,                \* operations the clients use
    SerializedOps,      \* operations a lock in front of the service runs one
                        \* at a time per slot; {} is the code as it is
    Faults,             \* failures that may happen
    LateSubmit,         \* TRUE: the provider answers a signature value for an
                        \* ended job with that job's state; FALSE: it refuses
    MaxCoSignRetries    \* maxCoSignRetries

Formats   == {"XAdES", "PAdES"}
Kinds     == {"source", "container", "pdf"}
AllOps    == {"poll", "submit", "abandon", "validate"}
AllFaults == {"collab",     \* a collaborator's call fails
              "store",      \* a record-store call fails
              "lostReply",  \* ... and it may have taken effect all the same
              "crash",      \* the instance dies: no deferred function runs
              "lapse"}      \* the lock's time runs out before it is refreshed

ASSUME ConductorAssumption ==
    /\ None \notin Slots \cup Attempts \cup Callers
    /\ BeginInputs \subseteq [slot : Slots, caller : Callers, login : STRING,
                              flow : STRING, format : STRING]
    /\ RequestCallers \subseteq Callers \cup {None}
    /\ RootKinds \subseteq Kinds
    /\ Ops \subseteq AllOps
    /\ SerializedOps \subseteq AllOps
    /\ Faults \subseteq AllFaults
    /\ LateSubmit \in BOOLEAN
    /\ MaxCoSignRetries \in Nat

VARIABLES
    input,      \* input[a]: the request body and token claims of attempt a
    att,        \* att[a]: the Begin handler of attempt a
    jobs,       \* jobs[a]: state of the stored job row ("none": no row)
    sigs,       \* the stored signature records, in order of insertion
    reports,    \* the stored validation results, in order of insertion
    lock,       \* the slot that holds the chain's active-signer lock, or None
    req,        \* req[r]: the handler of request r
    provider,   \* provider[a]: the provider's own state of the job
    chain,      \* the versions of the document; the last is the live head
    told,       \* signature records the envelope service was told of
    abandoned   \* attempts whose Abandon has run (history)

vars == <<input, att, jobs, sigs, reports, lock, req, provider, chain, told, abandoned>>

-----------------------------------------------------------------------------
(* State *)

ProviderStates == {"PENDING", "READY", "FAILED"}
JobStates      == ProviderStates \cup {"COMPLETED"}

BeginRunning == {"head", "lock", "prepare", "save", "unlock"}
BeginEnded   == {"bound", "rejected", "refused", "failed"}

RequestRunning == {"status", "reconcile", "keepalive", "store", "insert",
                   "complete", "release", "notify", "report", "link",
                   "submit", "mirror", "abandon"}

BeginType   == [pc     : {"idle"} \cup BeginRunning \cup BeginEnded,
                base   : Nat,               \* version to sign
                format : Formats,
                st     : ProviderStates]    \* the state Prepare was answered with
VersionType == [kind : Kinds, sigs : SUBSET Attempts]
RecordType  == [job : Attempts, ref : Nat, report : Nat]
RequestType == [pc     : {"idle", "done"} \cup RequestRunning,
                op     : AllOps,
                caller : Callers \cup {None},
                job    : Attempts \cup {None},
                st     : ProviderStates,    \* provider state last read
                ref    : Nat,               \* version the signed document got
                sig    : Nat,               \* signature record
                rep    : Nat,               \* validation result
                tries  : Nat]               \* repeated merges

\* Versions, records and results are numbered from 1; 0 stands for none.
TypeOK ==
    /\ input \in [Attempts -> BeginInputs]
    /\ att \in [Attempts -> BeginType]
    /\ jobs \in [Attempts -> JobStates \cup {"none"}]
    /\ sigs \in Seq(RecordType)
    /\ reports \in Seq(Nat)
    /\ lock \in Slots \cup {None}
    /\ req \in [Requests -> RequestType]
    /\ provider \in [Attempts -> ProviderStates \cup {"none"}]
    /\ chain \in Seq(VersionType) \ {<<>>}
    /\ told \subseteq Nat
    /\ abandoned \subseteq Attempts

Latest == Len(chain)

IdleRequest == [pc |-> "idle", op |-> "poll", caller |-> None, job |-> None,
                st |-> "PENDING", ref |-> 0, sig |-> 0, rep |-> 0, tries |-> 0]

Init ==
    /\ input \in [Attempts -> BeginInputs]
    /\ att = [a \in Attempts |-> [pc |-> "idle", base |-> 0, format |-> "XAdES", st |-> "PENDING"]]
    /\ jobs = [a \in Attempts |-> "none"]
    /\ provider = [a \in Attempts |-> "none"]
    /\ \E k \in RootKinds : chain = << [kind |-> k, sigs |-> {}] >>
    /\ sigs = <<>>
    /\ reports = <<>>
    /\ lock = None
    /\ req = [r \in Requests |-> IdleRequest]
    /\ told = {}
    /\ abandoned = {}

-----------------------------------------------------------------------------
(* Calls.  "error": the call failed and changed nothing; "lost": it took     *)
(* effect and its answer did not arrive, so the handler sees an error too.   *)

Outcomes(service) ==
    {"ok"} \cup (IF service \in Faults THEN {"error"} ELSE {})
           \cup (IF {service, "lostReply"} \subseteq Faults THEN {"lost"} ELSE {})

Applied(o) == o # "error"

-----------------------------------------------------------------------------
(* The store's lock, as seen while its time has not run out (module          *)
(* ChainLock shows that the timed row behaves so).                           *)

slotOf(a)  == input[a].slot
isPAdES(a) == att[a].format = "PAdES"

\* Another slot's hold refuses; a free chain and the slot's own hold do not.
Acquirable(a) == lock \in {None, slotOf(a)}

\* Variant: the holder's slot is not compared.
Released_AnySlot(a) == None

\* ReleaseChainLock drops the hold of the attempt's slot and no other.
Released(a) == IF lock = slotOf(a) THEN None ELSE lock

\* The TTL passes without a refresh.
Lapse ==
    /\ "lapse" \in Faults
    /\ lock # None
    /\ lock' = None
    /\ UNCHANGED <<input, att, jobs, sigs, reports, req, provider, chain, told, abandoned>>

-----------------------------------------------------------------------------
(* Begin *)

\* The handler moves to another call with what Prepare answered, or ends.
BeginWith(a, label, st) == att' = [att EXCEPT ![a] = [@ EXCEPT !.pc = label, !.st = st]]
BeginAt(a, label)       == BeginWith(a, label, "PENDING")

\* Variants: one of the two checks is missing.
Accepts_AnyFormat(a) == checkBinding(input[a].login, input[a].flow)
Accepts_AnyFlow(a) == input[a].format \in Formats

Accepts(a) ==
    /\ input[a].format \in Formats
    /\ checkBinding(input[a].login, input[a].flow)

\* Format and binding are checked before anything else happens.
BeginChecks(a) ==
    /\ att[a].pc = "idle"
    /\ BeginAt(a, IF Accepts(a) THEN "head" ELSE "rejected")
    /\ UNCHANGED <<input, jobs, sigs, reports, lock, req, provider, chain, told, abandoned>>

\* A signed chain fixes the form; only a source is signed as the client asks.
formatFor(kind, asked) ==
    CASE kind = "container" -> "XAdES"
      [] kind = "pdf"       -> "PAdES"
      [] OTHER              -> asked

\* CurrentHead and Metadata: the version to sign and, from its kind, the form.
\* A version never changes, so the two reads are one step.
ResolveHead(a, o) ==
    /\ att[a].pc = "head"
    /\ \/ /\ o = "ok"
          /\ LET f == formatFor(chain[Latest].kind, input[a].format)
             IN att' = [att EXCEPT ![a] = [pc     |-> IF f = "PAdES" THEN "lock" ELSE "prepare",
                                           base   |-> Latest,
                                           format |-> f,
                                           st     |-> "PENDING"]]
       \/ /\ o = "error"
          /\ BeginAt(a, "failed")
    /\ UNCHANGED <<input, jobs, sigs, reports, lock, req, provider, chain, told, abandoned>>

\* The co-sign gate.  An error leaves the handler without a deferred release,
\* also when the store did take the lock.
AcquireLock(a, o) ==
    /\ att[a].pc = "lock"
    /\ lock' = IF Applied(o) /\ Acquirable(a) THEN slotOf(a) ELSE lock
    /\ BeginAt(a, IF o # "ok" THEN "failed" ELSE IF Acquirable(a) THEN "prepare" ELSE "refused")
    /\ UNCHANGED <<input, jobs, sigs, reports, req, provider, chain, told, abandoned>>

\* Where a failing Begin goes: through the deferred release if it took the lock.
unwind(a) == IF isPAdES(a) THEN "unlock" ELSE "failed"

\* Content or DataObjects, then Prepare or PrepareWithFile, which answers with the
\* state the new job is in.
Prepare(a, o) ==
    /\ att[a].pc = "prepare"
    /\ \E st \in ProviderStates :
          /\ provider' = IF Applied(o) THEN [provider EXCEPT ![a] = st] ELSE provider
          /\ IF o = "ok" THEN BeginWith(a, "save", st) ELSE BeginAt(a, unwind(a))
    /\ UNCHANGED <<input, jobs, sigs, reports, lock, req, chain, told, abandoned>>

\* The job row is written with that state before Begin returns, whatever state the
\* job is in by now; the lock stays with the job.
SaveJob(a, o) ==
    /\ att[a].pc = "save"
    /\ jobs' = IF Applied(o) THEN [jobs EXCEPT ![a] = att[a].st] ELSE jobs
    /\ BeginAt(a, IF o = "ok" THEN "bound" ELSE unwind(a))
    /\ UNCHANGED <<input, sigs, reports, lock, req, provider, chain, told, abandoned>>

\* The deferred release; its error is ignored.
ReleaseOnFailure(a, o) ==
    /\ att[a].pc = "unlock"
    /\ lock' = IF Applied(o) THEN Released(a) ELSE lock
    /\ BeginAt(a, "failed")
    /\ UNCHANGED <<input, jobs, sigs, reports, req, provider, chain, told, abandoned>>

CrashBegin(a) ==
    /\ "crash" \in Faults
    /\ att[a].pc \in BeginRunning
    /\ BeginAt(a, "failed")
    /\ UNCHANGED <<input, jobs, sigs, reports, lock, req, provider, chain, told, abandoned>>

\* The user approves, or the provider gives the job up.
ProviderMoves(a) ==
    /\ provider[a] = "PENDING"
    /\ \E st \in {"READY", "FAILED"} : provider' = [provider EXCEPT ![a] = st]
    /\ UNCHANGED <<input, att, jobs, sigs, reports, lock, req, chain, told, abandoned>>

-----------------------------------------------------------------------------
(* Requests other than Begin *)

Ended == [IdleRequest EXCEPT !.pc = "done"]

End(r) == req' = [req EXCEPT ![r] = Ended]

\* Request r moves to another call of its handler.
At(r, label) == req' = [req EXCEPT ![r].pc = label]

\* A lock in front of the service lets one of SerializedOps run per slot.
Admitted(op, a) ==
    op \in SerializedOps =>
        \A r \in Requests : ~ /\ req[r].pc \in RequestRunning
                              /\ req[r].op \in SerializedOps
                              /\ slotOf(req[r].job) = slotOf(a)

\* The job's owner, or a token without a subject, passes.
Owns(c, a) == c \in {None, input[a].caller}

\* GetJob and the owner check, the start of every handler.  An unknown job, a
\* failing read and another user's job all end the request here.
GetJob(r, op, c, a, label) ==
    /\ op \in Ops
    /\ req[r].pc = "idle"
    /\ Admitted(op, a)
    /\ req' = [req EXCEPT ![r] =
                 IF jobs[a] # "none" /\ Owns(c, a) /\ label # "done"
                 THEN [IdleRequest EXCEPT !.pc = label, !.op = op, !.caller = c, !.job = a]
                 ELSE Ended]
    /\ UNCHANGED <<input, att, jobs, sigs, reports, lock, provider, chain, told, abandoned>>

-----------------------------------------------------------------------------
(* Reconcile: one status poll *)

\* Variant: every poll drives the provider.
Reconcile_NoTerminalCheck(r, c, a) == GetJob(r, "poll", c, a, "status")

\* A conductor-terminal job is answered from the row.
Reconcile(r, c, a) ==
    GetJob(r, "poll", c, a, IF jobs[a] \in {"COMPLETED", "FAILED"} THEN "done" ELSE "status")

PollStatus(r, o) ==
    /\ req[r].pc = "status"
    /\ \/ o = "ok" /\ req' = [req EXCEPT ![r].pc = "reconcile", ![r].st = provider[req[r].job]]
       \/ o = "error" /\ End(r)
    /\ UNCHANGED <<input, att, jobs, sigs, reports, lock, provider, chain, told, abandoned>>

\* The state read a call ago is written whatever the row holds by now.
ReconcileJob(r, o) ==
    /\ req[r].pc = "reconcile"
    /\ jobs' = IF Applied(o) THEN [jobs EXCEPT ![req[r].job] = req[r].st] ELSE jobs
    /\ CASE o # "ok" \/ req[r].st = "FAILED" -> End(r)
         [] o = "ok" /\ req[r].st = "READY"  -> At(r, "store")
         [] OTHER -> IF isPAdES(req[r].job) THEN At(r, "keepalive") ELSE End(r)
    /\ UNCHANGED <<input, att, sigs, reports, lock, provider, chain, told, abandoned>>

\* A pending PAdES job refreshes its slot's lock, best effort.
KeepAlive(r, o) ==
    /\ req[r].pc = "keepalive"
    /\ lock' = IF Applied(o) /\ Acquirable(req[r].job) THEN slotOf(req[r].job) ELSE lock
    /\ End(r)
    /\ UNCHANGED <<input, att, jobs, sigs, reports, provider, chain, told, abandoned>>

-----------------------------------------------------------------------------
(* finalize *)

\* The document the provider signed: the version the attempt began from.
readyDoc(a) == att[a].base

\* The provider's signed PDF: the bytes it was given plus one signature.
signedPDF(a) == [kind |-> "pdf", sigs |-> chain[readyDoc(a)].sigs \cup {a}]

\* The merged container: every signature of the live head plus one.
mergedContainer(a) == [kind |-> "container", sigs |-> chain[Latest].sigs \cup {a}]

\* Variant: the job is completed before its signature is recorded.
Stored_NotRecorded(r, o, doc) ==
    /\ chain' = Append(chain, doc)
    /\ IF o = "ok" THEN At(r, "complete") ELSE End(r)

\* The new version becomes the head and its id the signature's reference.
Stored(r, o, doc) ==
    /\ chain' = Append(chain, doc)
    /\ IF o = "ok" THEN req' = [req EXCEPT ![r].pc = "insert", ![r].ref = Latest + 1] ELSE End(r)

\* Variant: the head is resolved again, to get past the store's refusal.
parentDoc_Latest(a) == Latest

\* The parent the signed PDF is stored against.
parentDoc(a) == readyDoc(a)

\* PAdES: the store takes the PDF only if its parent is still the head; a
\* refusal is final (ErrChainAdvanced).  The two reads before the call can only
\* fail, which ends the request as an error of the call does.
StoreSignedDocument(r, o) ==
    /\ req[r].pc = "store"
    /\ isPAdES(req[r].job)
    /\ IF Applied(o) /\ parentDoc(req[r].job) = Latest
       THEN Stored(r, o, signedPDF(req[r].job))
       ELSE End(r) /\ UNCHANGED chain
    /\ UNCHANGED <<input, att, jobs, sigs, reports, lock, provider, told, abandoned>>

\* XAdES: the store merges into the live container.
CompleteContainer(r, o) ==
    /\ req[r].pc = "store"
    /\ ~isPAdES(req[r].job)
    /\ IF Applied(o) /\ chain[Latest].kind # "pdf"
       THEN Stored(r, o, mergedContainer(req[r].job))
       ELSE End(r) /\ UNCHANGED chain
    /\ UNCHANGED <<input, att, jobs, sigs, reports, lock, provider, told, abandoned>>

\* Variant: the retries start over instead of giving up.
CompleteConflict_NoEnd(r) ==
    /\ req[r].pc = "store"
    /\ ~isPAdES(req[r].job)
    /\ Latest # att[req[r].job].base
    /\ req' = [req EXCEPT ![r].tries = IF @ < MaxCoSignRetries THEN @ + 1 ELSE 0]
    /\ UNCHANGED <<input, att, jobs, sigs, reports, lock, provider, chain, told, abandoned>>

\* ... or refuses because another signature was merged meanwhile: the same
\* signature is submitted again, a bounded number of times.
CompleteConflict(r) ==
    /\ req[r].pc = "store"
    /\ ~isPAdES(req[r].job)
    /\ Latest # att[req[r].job].base
    /\ IF req[r].tries < MaxCoSignRetries
       THEN req' = [req EXCEPT ![r].tries = @ + 1]
       ELSE End(r)
    /\ UNCHANGED <<input, att, jobs, sigs, reports, lock, provider, chain, told, abandoned>>

\* Variant: the record refers to the document that was signed.
signatureRecord_Source(r) ==
    [job |-> req[r].job, ref |-> readyDoc(req[r].job), report |-> 0]

\* The record refers to the stored result and is not validated yet.
signatureRecord(r) == [job |-> req[r].job, ref |-> req[r].ref, report |-> 0]

InsertSignature(r, o) ==
    /\ req[r].pc = "insert"
    /\ sigs' = IF Applied(o) THEN Append(sigs, signatureRecord(r)) ELSE sigs
    /\ IF o = "ok"
       THEN req' = [req EXCEPT ![r].pc = "complete", ![r].sig = Len(sigs) + 1]
       ELSE End(r)
    /\ UNCHANGED <<input, att, jobs, reports, lock, provider, chain, told, abandoned>>

\* Variants: the lock is left to its time limit; the envelope is not told.
afterCompleted_NoRelease(a) == "notify"
afterCompleted_NoNotify(a) == "report"

afterCompleted(a) == IF isPAdES(a) THEN "release" ELSE "notify"

\* The row turns conductor-terminal after the record and before validation.
MarkCompleted(r, o) ==
    /\ req[r].pc = "complete"
    /\ jobs' = IF Applied(o) THEN [jobs EXCEPT ![req[r].job] = "COMPLETED"] ELSE jobs
    /\ IF o = "ok" THEN At(r, afterCompleted(req[r].job)) ELSE End(r)
    /\ UNCHANGED <<input, att, sigs, reports, lock, provider, chain, told, abandoned>>

ReleaseChainLock(r, o) ==
    /\ req[r].pc = "release"
    /\ lock' = IF Applied(o) THEN Released(req[r].job) ELSE lock
    /\ At(r, "notify")
    /\ UNCHANGED <<input, att, jobs, sigs, reports, provider, chain, told, abandoned>>

\* notifySlotSigned: its attempts repeat one idempotent call, so together they
\* reach the envelope service or they do not; either way the handler goes on.
notifySlotSigned(r, o) ==
    /\ req[r].pc = "notify"
    /\ told' = IF Applied(o) THEN told \cup {req[r].sig} ELSE told
    /\ At(r, "report")
    /\ UNCHANGED <<input, att, jobs, sigs, reports, lock, provider, chain, abandoned>>

-----------------------------------------------------------------------------
(* runValidation, at the end of finalize and on demand *)

\* Validate: re-validation of a recorded signature by the job's owner.
Validate(r, c, k) ==
    /\ req[r].pc = "idle"
    /\ "validate" \in Ops
    /\ req' = [req EXCEPT ![r] =
                 IF Owns(c, sigs[k].job)
                 THEN [IdleRequest EXCEPT !.pc = "report", !.op = "validate", !.caller = c,
                                          !.job = sigs[k].job, !.sig = k]
                 ELSE Ended]
    /\ UNCHANGED <<input, att, jobs, sigs, reports, lock, provider, chain, told, abandoned>>

\* Content, the provider's validation and StoreReport.
StoreReport(r, o) ==
    /\ req[r].pc = "report"
    /\ reports' = IF Applied(o) THEN Append(reports, req[r].sig) ELSE reports
    /\ IF o = "ok"
       THEN req' = [req EXCEPT ![r].pc = "link", ![r].rep = Len(reports) + 1]
       ELSE End(r)
    /\ UNCHANGED <<input, att, jobs, sigs, lock, provider, chain, told, abandoned>>

\* Variant: the newest result is linked.
linkedReport_Newest(r) == Len(reports)

linkedReport(r) == req[r].rep

RecordValidation(r, o) ==
    /\ req[r].pc = "link"
    /\ sigs' = IF Applied(o) THEN [sigs EXCEPT ![req[r].sig].report = linkedReport(r)] ELSE sigs
    /\ End(r)
    /\ UNCHANGED <<input, att, jobs, reports, lock, provider, chain, told, abandoned>>

-----------------------------------------------------------------------------
(* SubmitClientSignature and Abandon *)

SubmitClientSignature(r, c, a) == GetJob(r, "submit", c, a, "submit")

\* The provider takes the signature value and answers with the job's state; a
\* job that has ended keeps its state, and the provider may refuse the value.
Submit(r, o) ==
    /\ req[r].pc = "submit"
    /\ LET a == req[r].job
       IN IF provider[a] = "PENDING" \/ LateSubmit
          THEN \E st \in ProviderStates :
                  /\ provider[a] # "PENDING" => st = provider[a]
                  /\ provider' = IF Applied(o) THEN [provider EXCEPT ![a] = st] ELSE provider
                  /\ IF o = "ok"
                     THEN req' = [req EXCEPT ![r].pc = "mirror", ![r].st = st]
                     ELSE End(r)
          ELSE End(r) /\ UNCHANGED provider
    /\ UNCHANGED <<input, att, jobs, sigs, reports, lock, chain, told, abandoned>>

\* The answer's state is written whatever the row holds by now.
MirrorState(r, o) ==
    /\ req[r].pc = "mirror"
    /\ jobs' = IF Applied(o) THEN [jobs EXCEPT ![req[r].job] = req[r].st] ELSE jobs
    /\ End(r)
    /\ UNCHANGED <<input, att, sigs, reports, lock, provider, chain, told, abandoned>>

\* Only a PAdES job has a hold to release.
Abandon(r, c, a) == GetJob(r, "abandon", c, a, IF isPAdES(a) THEN "abandon" ELSE "done")

AbandonRelease(r, o) ==
    /\ req[r].pc = "abandon"
    /\ lock' = IF Applied(o) THEN Released(req[r].job) ELSE lock
    /\ abandoned' = IF Applied(o) THEN abandoned \cup {req[r].job} ELSE abandoned
    /\ End(r)
    /\ UNCHANGED <<input, att, jobs, sigs, reports, provider, chain, told>>

CrashRequest(r) ==
    /\ "crash" \in Faults
    /\ req[r].pc \in RequestRunning
    /\ End(r)
    /\ UNCHANGED <<input, att, jobs, sigs, reports, lock, provider, chain, told, abandoned>>

-----------------------------------------------------------------------------
BeginStep(a) ==
    \/ BeginChecks(a)
    \/ \E o \in Outcomes("collab") : ResolveHead(a, o) \/ Prepare(a, o)
    \/ \E o \in Outcomes("store") : AcquireLock(a, o) \/ SaveJob(a, o) \/ ReleaseOnFailure(a, o)

Arrive(r) ==
    \/ \E c \in RequestCallers, a \in Attempts :
          Reconcile(r, c, a) \/ SubmitClientSignature(r, c, a) \/ Abandon(r, c, a)
    \/ \E c \in RequestCallers, k \in 1 .. Len(sigs) : Validate(r, c, k)

RequestStep(r) ==
    \/ \E o \in Outcomes("collab") :
          \/ PollStatus(r, o) \/ StoreSignedDocument(r, o) \/ CompleteContainer(r, o)
          \/ notifySlotSigned(r, o) \/ Submit(r, o)
    \/ \E o \in Outcomes("store") :
          \/ ReconcileJob(r, o) \/ KeepAlive(r, o) \/ InsertSignature(r, o)
          \/ MarkCompleted(r, o) \/ ReleaseChainLock(r, o)
          \/ RecordValidation(r, o) \/ MirrorState(r, o) \/ AbandonRelease(r, o)
    \/ \E o \in Outcomes("store") \cup (Outcomes("collab") \ {"lost"}) : StoreReport(r, o)
    \/ CompleteConflict(r)

Next ==
    \/ \E a \in Attempts : BeginStep(a) \/ CrashBegin(a) \/ ProviderMoves(a)
    \/ \E r \in Requests : Arrive(r) \/ RequestStep(r) \/ CrashRequest(r)
    \/ Lapse

Spec == Init /\ [][Next]_vars

-----------------------------------------------------------------------------
(* Properties of the code as it is *)

KindOf(format) == IF format = "PAdES" THEN "pdf" ELSE "container"

\* A signature record refers to a stored version of the document that carries
\* that job's signature, in the job's own form, also when polls of several jobs
\* and re-runs of one job's finalize interleave (finalize: signedRef).
RecordsBacked ==
    \A k \in 1 .. Len(sigs) :
        /\ sigs[k].ref \in 2 .. Latest
        /\ sigs[k].job \in chain[sigs[k].ref].sigs
        /\ chain[sigs[k].ref].kind = KindOf(att[sigs[k].job].format)

\* A job is marked COMPLETED only once its signature is on record, whatever
\* failed or was repeated on the way (finalize: InsertSignature, then
\* ReconcileJob).
CompletedRecorded ==
    \A a \in Attempts :
        jobs[a] = "COMPLETED" => \E k \in 1 .. Len(sigs) : sigs[k].job = a

\* No provider work exists, and so nothing is signed or recorded, for a login
\* method that does not permit the flow (Begin: the gate comes first).
BindingHonoured ==
    \A a \in Attempts :
        provider[a] # "none" => checkBinding(input[a].login, input[a].flow)

\* The validation result linked to a signature record was produced for that
\* record, although at-signing and on-demand validations interleave.
ReportsMatch ==
    \A k \in 1 .. Len(sigs) :
        sigs[k].report # 0 => /\ sigs[k].report \in 1 .. Len(reports)
                              /\ reports[sigs[k].report] = k

\* Storing a signed document never drops a signature of the head it replaces,
\* although a PAdES signer works from the version it read when it began.
ChainKeepsSignatures ==
    [][chain' # chain => chain[Latest].sigs \subseteq chain'[Len(chain')].sigs]_vars

\* A signed PDF gets one signature record, although nothing runs the polls of its
\* job one at a time: polls overlap, and a finalize whose calls failed, whose
\* answers were lost or whose instance died is run again.  The store takes the
\* signed PDF once, because its parent stays the version the job began from.
PDFRecordedOnce ==
    \A j, k \in 1 .. Len(sigs) : sigs[j].job = sigs[k].job /\ isPAdES(sigs[j].job) => j = k

\* A handler frees its own slot's hold only: when a hold ends, the time ran out
\* or a handler of that slot moved.  In particular a signer who lapsed and
\* finalizes or abandons late leaves the hold of the slot that took over.
OnlyOwnSlotFrees ==
    [][lock # None /\ lock' = None =>
         \/ UNCHANGED <<att, req>>
         \/ \E a \in Attempts : att'[a] # att[a] /\ slotOf(a) = lock
         \/ \E r \in Requests : req'[r] # req[r] /\ slotOf(req[r].job) = lock]_vars

\* The calls a request's handler has left to make, at most: a signature that
\* keeps meeting other signers is submitted once more per retry.
callsLeft(q) ==
    IF q.pc = "store" THEN 7 + MaxCoSignRetries - q.tries
    ELSE [status |-> 9 + MaxCoSignRetries, reconcile |-> 8 + MaxCoSignRetries,
          insert |-> 6, complete |-> 5, release |-> 4, notify |-> 3, report |-> 2, link |-> 1,
          keepalive |-> 1, submit |-> 2, mirror |-> 1, abandon |-> 1, done |-> 0][q.pc]

\* ... and those of a Begin.
beginCallsLeft(b) ==
    IF b.pc \in BeginEnded THEN 0
    ELSE [head |-> 5, lock |-> 4, prepare |-> 3, save |-> 2, unlock |-> 1][b.pc]

\* No handler goes back to a call it has behind it, the co-sign retries included:
\* whatever the calls answer and whatever other handlers do in between, each of
\* its steps leaves it fewer calls than it had (finalize: maxCoSignRetries).
CallsBounded ==
    [][/\ \A r \in Requests : req[r].pc \in RequestRunning /\ req'[r] # req[r] =>
             callsLeft(req'[r]) \in 0 .. callsLeft(req[r]) - 1
       /\ \A a \in Attempts : att[a].pc \in BeginRunning /\ att'[a] # att[a] =>
             beginCallsLeft(att'[a]) \in 0 .. beginCallsLeft(att[a]) - 1]_vars

-----------------------------------------------------------------------------
(* Properties that need the requests of a slot to run one at a time *)

\* A job gets one signature record.
OneRecordPerJob ==
    \A j, k \in 1 .. Len(sigs) : sigs[j].job = sigs[k].job => j = k

\* A job lives as module SigningJob says: one signature record, COMPLETED only
\* with that record, FAILED and COMPLETED for good, and the envelope service told
\* of completed jobs only, although every one of these writes is a call of its
\* own (Begin, Reconcile, finalize, SubmitClientSignature).
Job == INSTANCE SigningJob WITH
         phase   <- [a \in Attempts |->
                       CASE jobs[a] = "none"      -> "none"
                         [] jobs[a] = "FAILED"    -> "failed"
                         [] jobs[a] = "COMPLETED" -> "completed"
                         [] OTHER                 -> "open"],
         records <- [a \in Attempts |-> Cardinality({k \in 1 .. Len(sigs) : sigs[k].job = a})],
         heard   <- {sigs[k].job : k \in told}
JobRefined == Job!Spec

\* Once the document store took a signed document and answered, its signature is
\* on record or a handler is about to record it: no signature reaches the head of
\* the chain unnoticed when collaborators fail (finalize, up to InsertSignature).
StoredIsRecorded ==
    \A a \in chain[Latest].sigs :
        \/ \E k \in 1 .. Len(sigs) : sigs[k].job = a
        \/ \E r \in Requests : req[r].pc = "insert" /\ req[r].job = a

\* Some attempt of the slot stands for its hold: a Begin that took the lock, a
\* job that is not completed, or a finalize about to release it.
LockAccounted ==
    lock # None =>
        \E a \in Attempts :
            /\ slotOf(a) = lock
            /\ isPAdES(a)
            /\ \/ att[a].pc \in {"prepare", "save", "unlock"}
               \/ jobs[a] \notin {"none", "COMPLETED"}
               \/ \E r \in Requests : req[r].pc = "release" /\ req[r].job = a

-----------------------------------------------------------------------------
(* Liveness, under the fairness of module Evidence, which adds what the routes *)
(* do once a handler has returned *)

\* Every handler ends, the co-sign retries included.
HandlersEnd ==
    /\ \A a \in Attempts : att[a].pc \in BeginRunning ~> att[a].pc \in BeginEnded
    /\ \A r \in Requests : req[r].pc \in RequestRunning ~> req[r].pc = "done"

\* A completed signing is eventually told to the envelope service when no call
\* fails and no instance dies.
CompletedTold ==
    \A a \in Attempts :
        jobs[a] = "COMPLETED" ~> \E k \in told : sigs[k].job = a

-----------------------------------------------------------------------------
(* What the repository says and the code does not keep *)

\* A slot whose attempts were all abandoned does not hold the chain.
AbandonedHoldsNothing ==
    \A a \in abandoned :
        lock = slotOf(a) => \E b \in Attempts \ abandoned : slotOf(b) = lock
=============================================================================
