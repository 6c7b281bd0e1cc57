# Verification of the signflow signing conductor

signflow drives a signature from a user's request to a signed, recorded and
validated document. It keeps little state of its own and coordinates four
others: a record store, a signing provider, a document store and an envelope
service. Every HTTP request is handled by its own goroutine, on any of several
instances, and each handler is a sequence of remote calls with nothing held
between them. What can go wrong is therefore in the interleavings and in the
calls that fail half way; that is what this project models.

## The system

| Component | State | Operations | Interacts with |
| --- | --- | --- | --- |
| Signing conductor (`orchestrator/orchestrator.go`, `binding.go`) | none of its own between calls | `Begin`, `Reconcile` (with `finalize`), `SubmitClientSignature`, `Abandon`, `Validate`, `ValidateDocument`, `ArchiveDocument`, `WaitChainFree` | calls everything below |
| Record store (`store/`) | job rows, signature records, validation results, chain locks | `SaveJob`, `ReconcileJob`, `GetJob`, `InsertSignature`, `GetSignature`, `StoreReport`, `RecordValidation`, `AcquireChainLock`, `ReleaseChainLock`, `ChainLockStatus` | called by the conductor; each operation is atomic |
| Collaborator clients (`clients/`) | none | `Prepare`, `Status`, `Submit`, `Download`, `Validate`, `Archive`; `CurrentHead`, `Metadata`, `Content`, `StoreSignedDocument`, `Complete`, `StoreArchived`; `GetEnvelope`, `MarkSlotSigned` | one HTTP call each, may fail, time out, or be refused with 409 |
| Routes (`routes/`) | none | one handler per endpoint: scope check, body, conductor call, error mapping, evidence | call the conductor and the recorder |
| Evidence (`audit/`) | outbox on disk | `AuthAssurance`, `ValidationPerformed`, drain task | routes emit, the drain task publishes to the broker |
| Lifecycle and configuration (`app.go`, `config.go`, `secretfile.go`, `cmd/`) | wiring | `New`/`init`, `Start`, `Stop` | everything |

The parts that make it hard, and what correctness means there:

* **Co-signing one PDF.** A PDF signature is embedded and cannot be merged, so
  a per-chain lock with a time limit admits one slot at a time. The head to
  sign is read before the lock is taken, the lock may run out while its signer
  is away, and a late release or keep-alive may meet another slot's hold. A
  hold must not pass from slot to slot, and a late signer must not drop
  another's signature.
* **Co-signing a container.** Signatures merge; a merge is refused when the
  head moved and is submitted again a bounded number of times.
* **Finalizing on a poll.** Any poll that finds the provider READY stores the
  document, inserts the record, marks the job COMPLETED, releases, notifies
  and validates: seven calls, each of which may fail, in a handler that may
  run twice. Records must refer to documents that carry the signature, and a
  COMPLETED job must have a record.
* **Gates.** Login method against flow before any provider work; the job's
  owner before any other operation.
* **Archiving beside signers.** An archive timestamp is written into the live
  document without lock or record, from bytes read earlier.
* **Several envelopes, several chains.** The gate is keyed by envelope, the chains
  by document, and an envelope that cannot be read leaves the client's document
  id. No chain may lose a signature whichever document is signed.
* **Evidence.** Events are emitted after the call they tell of, over a broker
  that may be away. An event must be true, and one that was accepted must survive
  the process.
* **Restarts.** A service that starts without its database address would accept
  jobs into memory and lose them; `Stop` closes the store, the outbox and the
  broker in an order that requests in flight meet half way.
* **Waiting.** A blocked co-signer's long-poll answers; an unattended lock
  frees itself; every handler ends.

## Modules

| Module | What it is |
| --- | --- |
| `LeaseLock` | Abstract specification: one holder, no hand-over without the chain having been free. |
| `SigningJob` | Abstract specification: a job is saved, recorded once, completed or failed for good, and heard of only when completed. |
| `ChainLock` | The store's lock rows with slot and remaining time, and `WaitChainFree` calls. Implements `LeaseLock` for every chain. |
| `Binding` | The gate table of `binding.go` as operators. |
| `Conductor` | All handlers over one envelope's chain, call by call. Uses `Binding`; implements `SigningJob` when requests are serialized. |
| `Archive` | `Conductor` with archive requests and the timestamps in the documents. Implements `Conductor`. |
| `Evidence` | `Conductor` with the events the routes emit around its calls, and `ValidateDocument`. |
| `Resolve` | Which document a `Begin` signs, with several envelopes and chains. |
| `Routes` | One request from its scope check to its status code. Uses `Binding`. |
| `Lifecycle` | One instance from configuration to shutdown, crash and restart, with its stores and its outbox. |
| `MC...` | Instances for the model checker. |
| `...Proofs` | Theorems and proofs of the module named; `SerialProofs` those about `Conductor` that need assumptions on what surrounds it. |

Composition: `Conductor` keeps the lock as the slot that holds the chain (or
none), with `Lapse` for the time limit. `ChainLock` justifies that view: its
timed rows implement `LeaseLock` (`LeaseRefined`), so that a hold that ran out
need not be told from no hold. `Archive` and `Evidence` extend `Conductor`: every step of theirs is a step of the conductor
with something added, or leaves the conductor's variables alone, except that a
document validation (`Evidence`) uses up one of the requests. `Resolve`,
`Routes` and `Lifecycle` each take one aspect that `Conductor` fixes (the document,
the answer, the process) and leave out what `Conductor` models in full.

### How `ChainLock` corresponds to the code

`locks[k]` is the row of `memory.go` (`memLock`), with `left = expires - now`
floored at 0, so `expires.After(now)` is `left > 0`; rows stay after they
expire, as in the code. `waits[w]` is one `WaitChainFree` call and its fixed
deadline. `Tick` is the clock. `AcquireChainLock` appears with its success
guard only: a refused call changes nothing. A wait that is not positive has its
deadline behind it, which is `left = 0`.

### How `Conductor` corresponds to the code

An *attempt* is one `Begin` call and the provider job it creates. `att[a]` is
the handler of `Begin`: `pc` is the next call, `base` the version it signs,
`format` the form that the chain's kind decided, `st` the state that the provider
answered `Prepare` with, which is what `SaveJob` writes although the job may have
moved on since. `req[r]` is the handler of any
other request, with the values it holds in local variables across calls (`st`
the provider state last read, `ref` the stored version, `sig` the record, `rep`
the validation result, `tries` the resubmissions). `jobs`, `sigs`, `reports`
and `lock` are the record store; `provider`, `chain` and `told` are the three
collaborators; `abandoned` is history. A document version is its kind and the
set of attempts whose signatures it carries: that is all the properties need.

Each action is one call and everything the handler does up to its next call,
early returns included. Reads that change nothing and whose failure ends the
handler in the same way are folded into the call that follows them (`Metadata`
into `ResolveHead`, `Content`/`DataObjects` into `Prepare`, `Download` and
`Metadata` into `StoreSignedDocument`, `Content` and the provider's `Validate`
into `StoreReport`). The two notification attempts are one step with one
outcome, because the endpoint is idempotent.

A call's outcome is `ok`, `error` (nothing happened) or `lost` (it took effect,
the handler sees an error). `Faults` selects which failures a run has:
`collab`, `store`, `lostReply`, `crash` (no deferred function runs) and `lapse`.
All of them are things the code meets: the clients return an error on a
timeout, the store on a lost connection.

External behaviour, modelled from how the code uses it: the provider answers
PENDING until the user approves or the job is given up, and keeps that result;
it may answer (`LateSubmit`) or refuse a signature value for an ended job. The
document store accepts a signed PDF only against the current head and merges a
container signature into the live container unless the chain became a PDF, or
refuses with 409 when the head moved since the attempt began. A serializing
lock in front of `Reconcile`, which a comment mentions and the repository does
not contain, is the parameter `SerializedOps`; it is empty for the code as it is.

`RequestCallers` are the subjects of the requests. The owner check is skipped
for a token without a subject (`callerSub != ""`), so `None` may be among them.

### How `SigningJob` corresponds to the code

`phase` is the job row's state without the provider's intermediate ones (a row is
saved as open or, if the provider says so at once, as failed),
`records` counts the job's signature records and `heard` is what the envelope
service was told. `JobRefined` maps `Conductor`'s variables to them. Under it a
job cannot be recorded twice, leave a terminal state, complete without its
record, or be announced before it completed, whichever handler writes.

### How `Archive` corresponds to the code

`ArchiveDocument` reads metadata and bytes and has the provider stamp every
signature in them; `StoreArchived` puts the result under the same id, which the
document store takes only while that id is the head. `stamped[v]` are the
signatures of version `v` that carry a timestamp. `seen[a]` are the stamps in the
bytes that the provider got for attempt `a` (`Prepare`): a signed PDF contains
those and no later ones, while a container is merged into the live one.

### How `Resolve` corresponds to the code

`Begin`'s reads one by one: `GetEnvelope` (which may fail, or name no document:
`Unreadable`), `CurrentHead`, the lock of the envelope, `Prepare`, and the store
of the result. `Wired` are the attempts served where the envelope service is
configured; without it the client's id is signed as it is. For a root id the
store names the live head. What it answers for the id of a later version is not
visible in the repository, so both answers are possible.

### How `Evidence` corresponds to the code

`AnswerBegin` is the tail of `createSigning` once `Begin` has returned: `bound`
or `rejected` is emitted, any other end emits nothing. `owed[r]` is a validation
result that a handler of `signingStatus` or `validate` returned and has yet to
emit. `LoseAssurance` and `LoseValidation` are the death of the instance in
between; `EmitFails` is a broker that refuses the event, or none configured:
errors are only logged. `verdict` is the provider's finding in each stored result.

### How `Lifecycle` corresponds to the code

`Start` is `New` with `init` and `initAudit`: the store, the client, the conductor
and the envelope notifier are each chosen by a predicate of its own. `Stop` closes
the store; `StopTasks`, `FlushEnds` and `CloseConn` are the framework's stop, the
drain task's flush with its five seconds, and the end of the broker connection.
A request is a `createSigning` in brief: save the job, emit one event. The outbox
holds `OutboxCapacity` events (256 or the like in the library) and is on disk. The
last of `MaxStarts` processes stays up. The broker is up, away, or slow (reachable
but slower than the flush); `inTime` says that it has been up since the flush
began, so that the flush can only end with an empty outbox. `full` and `late` are
history, which no guard reads: the events emitted into an outbox that was full at
that moment, and those that requests in flight emitted after the flush. A start that fails is tried again by a supervisor,
which the repository's deployment implies and does not contain.

### How `Routes` corresponds to the code

The checks of every handler in their order, then the call with the errors it can
return, then `mapErr`. What a call changes is in the other modules. The tables of
flows and forms are those of `types.go`, `binding.go` and the conductor. A body
that fails its validation is answered with 422 by the framework, as
`signings_test.go` asserts; the handlers' own checks (the card's certificates, the
envelope of `chainFree`) answer 400. A body that is not JSON at all is left to the
framework.

A call may meet a collaborator's answer with any status (`upstream`), no answer
(`unreached`: a refused connection, a time limit), an answer the client cannot
decode (`undecodable`), a provider state the conductor cannot act on
(`ErrProviderState`), no token to act for the user with (`noToken`), or a failure of
the service or its store (`internal`, `ErrDuplicate`). Only the first is an
`HTTPError`; the others end in `mapErr`'s default as 500, so that 500 does not tell
a caller whether this service failed or a collaborator did. `BlameTruthful` says
what the other statuses do tell.

### Variants

Definitions with a suffix after an underscore (`Released_AnySlot`) are variants
of a definition as a plausible mistake would have it, each next to the original
it deviates from. No specification uses them; substituted for the original they
show that the property named with them in `PROJECT.json` notices the mistake.

## What the runs check

| Run | Instance | Shows |
| --- | --- | --- |
| `chainlock` | 2 chains, 2 slots, 1 waiter, times of 2 ticks | `TypeOK`; `LeaseRefined`; `WaiterAnswered`; `UnattendedChainFrees` |
| `faults` | 2 attempts, 2 requests of all four operations, all failures, accepted and refused inputs of both forms | `TypeOK`, `RecordsBacked`, `CompletedRecorded`, `BindingHonoured`, `ChainKeepsSignatures`, `PDFRecordedOnce`, `OnlyOwnSlotFrees`, `CallsBounded` |
| `serialized` | 2 attempts, 3 requests, one at a time per slot, collaborator failures and lapses, all root kinds | `OneRecordPerJob`, `StoredIsRecorded`, `LockAccounted`, `JobRefined` |
| `validation` | 1 attempt, 3 requests of all four operations and document validations, store and broker failures, crashes, tokens with either subject or none | `EvidenceTypeOK`, `AssuranceTruthful`, `ValidationBacked`, `ReportsMatch` |
| `liveness` | two XAdES attempts, or a PAdES attempt beside a refused one, 2 polls, no failures, fair | `HandlersEnd`, `CompletedTold`, `ValidationReported` |
| `archive` | 2 attempts in either form, 2 polls, 2 archive requests | `ArchiveTypeOK`, `ArchiveOutlived`, `ArchiveInvisible` |
| `resolve` | 3 attempts, 3 envelopes on 2 documents (two share one), unreadable envelopes, one attempt without the envelope service | `TypeOK`, `SignsLiveHead`, `NoSignatureLost` |
| `lifecycle` | 3 requests, outbox of 2, 3 starts, every source of the database address, every set of collaborators, broker away or slow | `TypeOK`, `CreatedKept`, `ConductorComplete`, `EvidenceKept`, `StopDelivers`, `SpoolDelivered` |
| `routes` | every endpoint with all scopes, login methods, flows, forms and outcomes | `TypeOK`, `SuccessMeansDone`, `TablesAgree`, `BlameTruthful` |

Three runs are expected to end in a violation; each states a sentence of the
repository that the code does not keep:

| Run | Sentence | What happens |
| --- | --- | --- |
| `replayed_record` | "Finalization is idempotent" (`README.md`) | the record precedes COMPLETED; a failed write in between lets the next poll record again, even with one request at a time |
| `abandoned_lock` | on abandon "the PAdES co-sign lock frees at once" (`orchestrator.go`) | a poll in flight takes it again as keep-alive, until the TTL |
| `client_root` | "the caller's document id is deliberately not trusted" (`CONTRIBUTING.md`) | when the envelope cannot be read its error is dropped and the client's id is signed; it may name another envelope's document |

`serialized` is the counterpart of the first: with a per-slot lock in front, as
`Reconcile`'s comment assumes, a store whose calls succeed and a provider that
refuses late signature values, the promise holds.

Other divergences met on the way follow from the models directly. They have no
run of their own; for each, the property named is what still holds.

* Nothing in the repository serializes polls (`signingStatus` calls `Reconcile`
  directly), so two overlapping ones record a container signature twice.
  `RecordsBacked` holds for both records, and a signed PDF gets one only
  (`PDFRecordedOnce`).
* A signed PDF that the document store took is never recorded if the handler fails
  before `InsertSignature` succeeds: the next poll's store meets its own result as
  the head and is refused (`PDFRecordedOnce`: never twice; `StoredIsRecorded`: not
  through the collaborators' failures alone).
* `SubmitClientSignature` mirrors an older answer over COMPLETED (`MirrorState`).
  `CompletedRecorded` and `JobRefined` say what is kept without and with
  serialization.
* The head is read before the lock is taken, so a signer who finds the chain free
  may sign a superseded version; its result is refused at the end
  (`ChainKeepsSignatures`).
* A second `Begin` of a slot that fails after the gate releases the first one's
  hold; another slot may then sign (`ChainKeepsSignatures`: the first one's result
  is refused rather than stored over the other's).
* An answered archive loses its timestamps to a PDF signer who had read the bytes
  before, where the comment in `ArchiveDocument` expects the caller to retry.
  `ArchiveOutlived` says that only such a signer does this.
* A `Begin` that passes the binding gate and fails later emits no assurance event,
  where `README.md` says every decision is emitted (`AssuranceTruthful`: what is
  emitted is true).
* Two overlapping polls of one signing emit two validation events, where the
  comment in `signingStatus` says one. `ValidationBacked`: each names a result of
  its own.
* `mapErr` has no case for `ErrDuplicate`, so a duplicate is answered with 500,
  where `store.go` and `README.md` say 409 (`BlameTruthful`: not as the caller's
  failure or a collaborator's).

### Bounds

Two slots and two attempts are what every co-signing conflict needs; two
requests give every pair of overlapping handlers, and three are used where a
property needs a third (an older finalize, a newer one and a validation). Two
attempts of one slot arise as well, since inputs are chosen per attempt. Each
request is used once, so the runs have finitely many states without any further
bound, and behaviours end: that is why the `Conductor` runs do not check
deadlock. `MaxCoSignRetries` is 3 as in the code in `liveness` and 1 in the
larger runs, where only "some" and "no more" retries matter. Times of two ticks
in `chainlock` give a tick before, at and after each expiry. Symmetry is over
attempts, requests and archive requests, in runs that check safety only; slots and
callers are distinguished by the inputs. `liveness` takes two signers of the
container, whose merges collide and are retried, and one signer of the PDF beside a
form that is refused; two PDF signers, whose handlers have no loop, are left to the
safety runs. It lets validations pass (`Verdicts`), while `validation` has both
verdicts.

In `archive`, two archive requests overlap each other and two signers; the
conductor's failures are in `faults` and do not interact with them. In `resolve`,
three attempts put two on one envelope and a third on the envelope that shares its
document, while another document is there for a client to name. In `lifecycle`,
three requests fill an outbox of two, and three starts give a restart after a
restart. `routes` has one of each kind of upstream status, at both ends of 2xx.

### Fairness

`ChainLock`: the clock runs (`Tick`) and a waiter's loop turns
(`CheckChainFree`); the loop sleeps one second between looks. Nothing is assumed
of signers. `Conductor` (stated in `Evidence`): a running handler takes its
next step (`BeginStep`, `RequestStep`): every client call has a time limit and the store
calls carry the request's context, so each call returns. Nothing is assumed of
users, the provider, or of requests arriving. `CompletedTold` holds without
failures only: after a crash or two failed attempts nothing repeats the
notification. The route that called the conductor is the same thread, so one
condition covers the conductor's calls of a request and the emission and the answer
after them; `ValidationReported` is checked with a broker that takes events
and without crashes, since emission is best effort.

`Lifecycle`: the agent writes the secret, the steps of a stop follow each other,
handlers go on, and a broker that is away or slow recovers. `Start` and `Drain`
are strongly fair: the broker, or a crash, may disable them again and again, but
the supervisor and the drainer keep trying and get their turn. The last process
stays up, without which a service that is restarted for ever need never publish.
Nothing is assumed of stops, crashes or requests.

## What is proved

`tlapm` checks every theorem for arbitrary constants that satisfy the named
assumptions (`ChainLockAssumption`, `ConductorAssumption`, `ResolveAssumption`,
`LifecycleAssumption`, `RoutesAssumption`): types of the parameters, `None`/`NoSlot`
being no slot or attempt, a positive default TTL, finitely many requests in
`Lifecycle`, statuses between 200 and 599. Every invariant, action property and
refinement that a passing run checks has a theorem, `StoredIsRecorded` excepted.

* `ChainLockProofs`: `TypeCorrect` and `ImplementsLease` (`LeaseRefined`). The
  invariant is `LockInv`: types, and that a time still running belongs to a
  slot. Without the second part a row without a slot could look like a hold.
  A step is then compared with the lease through `LiveHolder`: acquiring needs
  a positive time, a tick may only turn a hold into none.
* `ConductorProofs`, for any interleaving and any failures:
  * `TypeCorrect`, `GatesHold` (`BindingHonoured`), `OwnHoldFreed`
    (`OnlyOwnSlotFrees`). Types alone are not inductive: a handler uses a job, a record or a version that another
    step produced. `HandlerInv` adds what makes those uses safe. `BeginLinks`:
    only accepted input gets past the checks; a `Begin` past its reads knows its
    version; what is stored exists at the provider; a stored job's form and
    version are settled. `RequestLinks`: a running request has a stored job and
    passed the owner check; past the insertion it names a record of its own job; a
    record belongs to a stored job. There is a lemma for each side that a step
    leaves alone, and one case per action.
  * `RecordsSound` (`RecordsBacked`), `CompletedOnRecord` (`CompletedRecorded`) and
    `SignaturesKept` (`ChainKeepsSignatures`). `RecordInv` adds that a finalize
    about to insert has stored a version that backs its record (`InsertBacked`);
    it is kept because stored versions never change and the form of a stored job
    is settled.
  * `PDFOnce` (`PDFRecordedOnce`), with every failure and nothing that serializes
    polls. The document store's comparison does it: a PDF is taken only while the
    version its job began from is the head, and every version stored since puts the
    head past it for good. `PDFStoredOnce` says this of each record of a PDF and of
    each handler about to insert one, and that there is one such handler per job and
    no record beside it; so a second finalize of the job is refused, whatever became
    of the first.
  * `HandlersProgress` (`CallsBounded`): every step of a handler lowers a natural
    number, for any retry limit. It is the part of `HandlersEnd` that needs no
    fairness: what a handler does is finite, and only whether it moves on is left to
    the calls' time limits.
* `SerialProofs`, under one assumption:
  `Serialized` is a lock per slot in front of polls and submissions, a record
  store that answers, no death in the middle of a handler, and a provider that
  refuses signature values of ended jobs; collaborators may fail, answers may get
  lost and locks may lapse. The `serialized` run is an instance of it, and
  `replayed_record` shows that with a store that fails it does not suffice.
  `RecordedOnce` (`OneRecordPerJob`): `SerialInv` says that a handler on its way to
  the record is the first of its job to get there (`Unrecorded`), and that once
  there is a record the job is COMPLETED or the handler that inserted it is about
  to write that (`RecordLast`), so the next one admitted stops at the row.
  `JobsLive` (`JobRefined`): the conductor implements `SigningJob`. `PhaseInv` adds
  that a handler finds its job as open or completed as it left it
  (`HandlerFits`); then each action is matched with a step of the abstract job or
  none, the number of records being 0 or 1 by `OneRecordPerJob`. `HoldsAccounted`
  (`LockAccounted`) needs that only PAdES signers come to the lock and that a
  handler past the keep-alive finds its job open.
* `EvidenceProofs`:
  * `ResultsLinked` (`ReportsMatch`). `LinkMoves` says how any step brings a request
    to the link of a result or away from it; `LinkKnown` that the result a request
    is about to link is one it stored for its own record.
  * `AssuranceHolds` (`AssuranceTruthful`). `EvidenceInv` is `HandlerInv` with
    `BoundSaved` (a `Begin` that succeeded has its row) and `RejectedRefused` (the
    gate turned away only what it has to).
  * `ValidationsTruthful` (`ValidationBacked`): a stored result is in the hands of one
    request at a time, from the link until it is reported (`HeldFresh`), and a
    request that owes an event makes no further calls (`OwedDone`).
    `EvidenceTypeCorrect` (`EvidenceTypeOK`) follows: what is owed is stored.
  * `EvidenceKeepsRecords`: the conductor's invariants about records and
    linked results hold beside the routes' steps. `Evidence` does not implement
    `Conductor` as it stands, since a document validation ends a request that
    made no call of the conductor's; the lemma is about that one step.
* `ArchiveProofs`:
  * `ArchiveRefinesConductor` (`ArchiveInvisible`): an archive step leaves every
    variable of the conductor unchanged, because what it writes over the head is
    the version it read, whose kind and signatures never change. Hence the
    conductor's theorems hold beside archives; `ArchiveKeepsRecords` draws that
    conclusion for `RecordsBacked` and `CompletedRecorded`.
  * `ArchiveTypeCorrect` (`ArchiveTypeOK`) and `StampsOutlive` (`ArchiveOutlived`).
    The property speaks of the head, and the head is replaced by a version that a
    signer prepared long before. `StampInv` therefore says it of every version from
    the archived one on (`LossExplained`) and of what each signer at the provider
    will store (`PendingExplained`). It rests on `ChainInv`: the version a signer
    read is settled once the provider works on it (`BaseFixed`), every signature
    belongs to such a signer, and each version carries those of the version
    before it.
* `ResolveProofs`: `TypeCorrect`, `HeadIsLive` (`SignsLiveHead`), `SignaturesStay`
  (`NoSignatureLost`). `ResolveInv` adds what a request knows between its reads
  (`RootRead`) and that chains only grow (`ChainsGrow`), without which "no older
  than the head when it asked" is not kept by other signers' steps.
* `LifecycleProofs`: `TypeCorrect`, `JobsSurvive` (`CreatedKept`),
  `EvidenceSurvives` (`EvidenceKept`), `WiringComplete` (`ConductorComplete`). A
  process that is up has the store its environment names (`StoreWired`), because
  no process starts on a secret that is not there; a handler past its save has
  its job in that store (`HandlerAlive`). An event leaves the outbox for the broker
  only (`EventsStay`), and one that was refused met an outbox at its capacity, so
  `EvidenceKept` is kept by every step. `ShutdownDelivers` (`StopDelivers`):
  `FlushLeft` says that after a flush in time the outbox holds events of late
  requests only, since the connection outlives the flush (`StoreWired`); every other event of
  an answered request, by `EvidenceKept`, is published or was refused.
* `RoutesProofs`: `TypeCorrect`, `SuccessIsDone` (`SuccessMeansDone`),
  `NoTableInTheWay` (`TablesAgree`), `BlameRight` (`BlameTruthful`), for any login
  methods, flows and collaborator statuses. `RoutesInv` says what each check leaves
  established for the later ones (`ChecksPassed`) and that an answer is a check's
  refusal, the route's success or what `mapErr` makes of the call's error
  (`Explained`), whose kinds `OutcomeForm` lists; lemmas about the tables (`PermittedInBody`, `SentinelStatus`) do
  the rest.

Model-checked only: `StoredIsRecorded`, and the liveness properties (`WaiterAnswered`,
`UnattendedChainFrees`, `HandlersEnd`, `CompletedTold`, `ValidationReported`,
`SpoolDelivered`), since fairness and `ENABLED` are outside the prover. No
recursive operators are used, and no statement needs induction over data, which
the prover could not do either.

## What is not modelled

* The signing of a single document without an envelope (no lock, no chain).
* Validation levels and the newest-result question when two results of one
  record are linked out of order.
* What an answer carries besides its status: digests, verification codes,
  redirect URLs, the texts of problem documents; audit columns of the rows.
* Report normalization (a library outside the repository), encodings,
  authentication, file names; health probes; the command line.
* The stored procedures behind `postgres.go`, which are not in the repository;
  their contract is taken from the calls and from the in-memory store.
* A form other than PAdES and XAdES beyond the conductor's refusal: the request
  body's list does not let one in, and `Begin` refuses it if it did.

## Plan

1. Proofs: what two container records of one job have in common when nothing
   serializes polls; the consequences of `SigningJob` for a job's whole life.
2. Validation detail: validated flag and level per record, order of links.
3. Single-document signing without an envelope.
