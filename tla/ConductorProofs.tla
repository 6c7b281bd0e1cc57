-------------------------- MODULE ConductorProofs --------------------------
(***************************************************************************)
(* Proofs about Conductor for any number of attempts and requests, any     *)
(* inputs and any combination of failures: its types and gates, its use of *)
(* the chain's lock, its signature records and the head of the chain.      *)
(***************************************************************************)
EXTENDS Conductor, SequenceTheorems, TLAPS

-----------------------------------------------------------------------------
(* The inductive invariant *)

\* A Begin past its reads knows the version it signs.
BaseKnown ==
    \A a \in Attempts :
        att[a].pc \in {"lock", "prepare", "save", "unlock", "bound"} => att[a].base \in 1 .. Latest

\* Only an accepted request gets past the checks, or to the provider.
BeginGated ==
    \A a \in Attempts :
        att[a].pc \notin {"idle", "rejected"} \/ provider[a] # "none" => Accepts(a)

\* What is about to be stored, or is stored, exists at the provider.
ProviderKnows ==
    \A a \in Attempts : att[a].pc = "save" \/ jobs[a] # "none" => provider[a] # "none"

\* A stored job's form and version are settled: no later step of its Begin
\* changes them.
JobSettled ==
    \A a \in Attempts :
        jobs[a] # "none" => att[a].pc \notin {"idle", "head"} /\ att[a].base \in 1 .. Latest

\* A running request works on a stored job and passed the owner check.
RequestHasJob ==
    \A r \in Requests :
        req[r].pc \in RequestRunning =>
            /\ req[r].job \in Attempts
            /\ jobs[req[r].job] # "none"
            /\ req[r].caller \in {None, input[req[r].job].caller}

\* A request past the insertion names a record of its own job.
SignatureKnown ==
    \A r \in Requests :
        req[r].pc \in {"complete", "release", "notify", "report", "link"} =>
            /\ req[r].sig \in 1 .. Len(sigs)
            /\ sigs[req[r].sig].job = req[r].job

\* A record belongs to a stored job.
RecordHasJob == \A k \in 1 .. Len(sigs) : jobs[sigs[k].job] # "none"

\* What the Begin handlers and what the other handlers rely on.
BeginLinks   == BeginGated /\ BaseKnown /\ JobSettled /\ ProviderKnows
RequestLinks == RequestHasJob /\ SignatureKnown /\ RecordHasJob

HandlerInv == TypeOK /\ BeginLinks /\ RequestLinks

-----------------------------------------------------------------------------
(* What a step that leaves the other side's variables alone preserves *)

\* A signature record read from the store has the type of a record.
LEMMA RecordsTyped ==
  ASSUME TypeOK, NEW k \in 1 .. Len(sigs)
  PROVE  sigs[k] \in RecordType /\ sigs[k].job \in Attempts
  <1>1. sigs \in Seq(RecordType)
    BY DEF TypeOK
  <1>2. sigs[k] \in RecordType
    BY <1>1
  <1> QED BY <1>2 DEF RecordType

\* A document of the chain, the head among them, has the type of a version.
LEMMA VersionsTyped ==
  ASSUME TypeOK, NEW i \in 1 .. Len(chain)
  PROVE  chain[i] \in VersionType /\ chain[i].sigs \subseteq Attempts
  <1>1. chain \in Seq(VersionType)
    BY DEF TypeOK
  <1>2. chain[i] \in VersionType
    BY <1>1
  <1> QED BY <1>2 DEF VersionType

\* No step removes a stored job.
JobsStay == \A a \in Attempts : jobs[a] # "none" => jobs'[a] # "none"

\* A step that moves no request keeps what the requests rely on.
LEMMA RequestLinksStay ==
  ASSUME RequestLinks, TypeOK, JobsStay, UNCHANGED <<req, sigs, input>>
  PROVE  RequestLinks'
  <1>1. RequestHasJob'
    BY DEF RequestLinks, RequestHasJob, JobsStay
  <1>2. SignatureKnown'
    BY DEF RequestLinks, SignatureKnown
  <1>3. RecordHasJob'
    <2> SUFFICES ASSUME NEW k \in 1 .. Len(sigs) PROVE jobs'[sigs[k].job] # "none"
      BY DEF RecordHasJob
    <2>1. sigs[k].job \in Attempts
      BY RecordsTyped
    <2> QED BY <2>1 DEF RequestLinks, RecordHasJob, JobsStay
  <1> QED BY <1>1, <1>2, <1>3 DEF RequestLinks

\* A step that moves no Begin keeps what Begin relies on: the chain only grows,
\* and neither a job nor provider work appears.
LEMMA BeginLinksStay ==
  ASSUME BeginLinks, TypeOK, TypeOK', UNCHANGED <<att, input>>, Len(chain') >= Len(chain),
         \A a \in Attempts : jobs'[a] # "none" => jobs[a] # "none",
         \A a \in Attempts : provider'[a] # "none" <=> provider[a] # "none"
  PROVE  BeginLinks'
  <1>1. Len(chain) \in Nat /\ Len(chain') \in Nat
    BY DEF TypeOK
  <1>2. BeginGated' /\ ProviderKnows'
    BY DEF BeginLinks, BeginGated, ProviderKnows, Accepts
  <1>3. BaseKnown' /\ JobSettled'
    BY <1>1 DEF BeginLinks, BaseKnown, JobSettled, ProviderKnows, Latest
  <1> QED BY <1>2, <1>3 DEF BeginLinks

-----------------------------------------------------------------------------

\* The initial state, with no jobs, records or requests, satisfies the invariant.
LEMMA InitHandlerInv == Init => HandlerInv
  <1> SUFFICES ASSUME Init PROVE HandlerInv
    OBVIOUS
  <1> USE DEF Init, IdleRequest
  <1>1. TypeOK
    <2>1. chain \in Seq(VersionType) \ {<<>>}
      BY ConductorAssumption DEF VersionType
    <2> QED BY <2>1, ConductorAssumption
            DEF TypeOK, BeginType, RequestType, Formats, JobStates, ProviderStates, AllOps
  <1>2. BeginLinks /\ RequestLinks
    BY DEF BeginLinks, RequestLinks, BeginGated, BaseKnown, JobSettled, ProviderKnows, RequestHasJob, SignatureKnown,
           RecordHasJob, RequestRunning
  <1> QED BY <1>1, <1>2 DEF HandlerInv

\* A Begin handler that moves stays well typed, and keeps its version and form.
LEMMA BeginAtTyped ==
  ASSUME TypeOK, NEW a \in Attempts, NEW l \in {"idle"} \cup BeginRunning \cup BeginEnded,
         NEW st \in ProviderStates, BeginWith(a, l, st) \/ BeginAt(a, l)
  PROVE  /\ att' \in [Attempts -> BeginType]
         /\ att'[a].pc = l /\ att'[a].base = att[a].base /\ att'[a].format = att[a].format
         /\ \A b \in Attempts \ {a} : att'[b] = att[b]
  <1>1. PICK s \in ProviderStates : BeginWith(a, l, s)
    BY DEF BeginAt, ProviderStates
  <1> DEFINE new == [att[a] EXCEPT !.pc = l, !.st = s]
  <1>2. att[a] \in BeginType /\ att' = [att EXCEPT ![a] = new] /\ att \in [Attempts -> BeginType]
    BY <1>1 DEF BeginWith, TypeOK
  <1>3. new \in BeginType /\ new.pc = l /\ new.base = att[a].base /\ new.format = att[a].format
    BY <1>2 DEF BeginType
  <1> HIDE DEF new
  <1> QED BY <1>2, <1>3

\* ... whatever it moves to.
LEMMA BeginGoes ==
  ASSUME TypeOK, NEW a \in Attempts, NEW l, NEW st, BeginWith(a, l, st)
  PROVE  /\ att'[a].pc = l /\ att'[a].st = st
         /\ att'[a].base = att[a].base /\ att'[a].format = att[a].format
         /\ \A b \in Attempts \ {a} : att'[b] = att[b]
  <1> DEFINE new == [att[a] EXCEPT !.pc = l, !.st = st]
  <1>1. att[a] \in BeginType /\ att' = [att EXCEPT ![a] = new] /\ att \in [Attempts -> BeginType]
    BY DEF BeginWith, TypeOK
  <1>2. new.pc = l /\ new.st = st /\ new.base = att[a].base /\ new.format = att[a].format
    BY <1>1 DEF BeginType
  <1> HIDE DEF new
  <1> QED BY <1>1, <1>2

\* The order of Begin's calls, and what a step of it leaves alone.
LEMMA BeginOrder ==
  ASSUME TypeOK, NEW a \in Attempts, BeginStep(a) \/ CrashBegin(a)
  PROVE  /\ \A b \in Attempts \ {a} : att'[b] = att[b]
         /\ att[a].pc # "head" => att'[a].base = att[a].base /\ att'[a].format = att[a].format
         /\ \/ att[a].pc = "idle" /\ att'[a].pc \in {"head", "rejected"}
            \/ att[a].pc = "head" /\ att'[a].pc \in {"lock", "prepare", "failed"}
            \/ att[a].pc = "lock" /\ att'[a].pc \in {"prepare", "refused", "failed"}
            \/ att[a].pc = "prepare" /\ att'[a].pc \in {"save", "unlock", "failed"}
            \/ att[a].pc = "save" /\ att'[a].pc \in {"bound", "unlock", "failed"}
            \/ att[a].pc = "unlock" /\ att'[a].pc = "failed"
  <1>0. att \in [Attempts -> BeginType]
    BY DEF TypeOK
  <1>1. ASSUME NEW l, BeginAt(a, l)
        PROVE  /\ att'[a].pc = l /\ att'[a].base = att[a].base /\ att'[a].format = att[a].format
               /\ \A b \in Attempts \ {a} : att'[b] = att[b]
    BY <1>1, BeginGoes DEF BeginAt
  <1>2. ASSUME NEW o, ResolveHead(a, o)
        PROVE  /\ att[a].pc = "head" /\ att'[a].pc \in {"lock", "prepare", "failed"}
               /\ \A b \in Attempts \ {a} : att'[b] = att[b]
    BY <1>0, <1>1, <1>2 DEF ResolveHead
  <1>3. ASSUME NEW o, Prepare(a, o)
        PROVE  /\ att[a].pc = "prepare" /\ att'[a].pc \in {"save", "unlock", "failed"}
               /\ att'[a].base = att[a].base /\ att'[a].format = att[a].format
               /\ \A b \in Attempts \ {a} : att'[b] = att[b]
    BY <1>1, <1>3, BeginGoes DEF Prepare, unwind
  <1> QED
    BY <1>1, <1>2, <1>3
    DEF BeginStep, CrashBegin, BeginChecks, AcquireLock, SaveJob, ReleaseOnFailure, unwind, BeginRunning

\* The steps of Begin, its crash and the provider's own step keep it: only a
\* Begin that has no job yet changes the version and the form it signs.
LEMMA BeginKeepsHandlerInv ==
  ASSUME HandlerInv, NEW a \in Attempts, BeginStep(a) \/ CrashBegin(a) \/ ProviderMoves(a)
  PROVE  HandlerInv'
  <1> USE DEF HandlerInv
  <1>0. \A b \in Attempts : Accepts(b)' = Accepts(b)
    BY DEF Accepts, BeginStep, CrashBegin, ProviderMoves, BeginChecks,
           ResolveHead, AcquireLock, Prepare, SaveJob, ReleaseOnFailure
  <1>s. slotOf(a) \in Slots
    BY ConductorAssumption DEF slotOf, TypeOK
  <1>1. CASE BeginChecks(a)
    <2>0. att' \in [Attempts -> BeginType]
      BY <1>1, BeginAtTyped DEF BeginChecks, BeginRunning, BeginEnded, ProviderStates
    <2>1. TypeOK'
      BY <1>1, <2>0 DEF BeginChecks, TypeOK
    <2>2. BeginLinks'
      BY <1>1, <1>0 DEF BeginChecks, BeginAt, BeginWith, TypeOK, BeginType, BeginLinks, BeginGated,
         BaseKnown, JobSettled, ProviderKnows, Latest
    <2>3. RequestLinks'
      BY <1>1, RequestLinksStay DEF BeginChecks, JobsStay
    <2> QED BY <2>1, <2>2, <2>3
  <1>2. ASSUME NEW o, ResolveHead(a, o) PROVE HandlerInv'
    <2>1. RequestLinks'
      BY <1>2, RequestLinksStay DEF ResolveHead, JobsStay
    <2>2. CASE o = "error"
      <3>a. att[a].pc = "head" /\ att' = [att EXCEPT ![a] = [@ EXCEPT !.pc = "failed", !.st = "PENDING"]]
        BY <1>2, <2>2 DEF ResolveHead, BeginAt, BeginWith
      <3>b. UNCHANGED <<input, jobs, provider, chain>>
        BY <1>2 DEF ResolveHead
      <3>0. att' \in [Attempts -> BeginType]
        BY <1>2, <2>2, BeginAtTyped DEF ResolveHead, BeginEnded, ProviderStates
      <3>1. TypeOK'
        BY <1>2, <3>0 DEF ResolveHead, TypeOK
      <3>2. BeginLinks'
        BY <1>0, <3>a, <3>b
        DEF TypeOK, BeginType, BeginLinks, BeginGated, BaseKnown, JobSettled, ProviderKnows, Latest
      <3> QED BY <2>1, <3>1, <3>2
    <2>3. CASE o = "ok"
      <3> DEFINE f == formatFor(chain[Latest].kind, input[a].format)
      <3>1. f \in Formats
        BY <1>2 DEF ResolveHead, formatFor, Formats, Accepts, BeginLinks, BeginGated
      <3>2. Latest \in Nat /\ Latest \in 1 .. Latest
        BY DEF TypeOK, Latest
      <3>3. att' = [att EXCEPT ![a] = [pc     |-> IF f = "PAdES" THEN "lock" ELSE "prepare",
                                       base   |-> Latest,
                                       format |-> f,
                                       st     |-> "PENDING"]]
        BY <1>2, <2>3 DEF ResolveHead
      <3> HIDE DEF f
      <3>4. TypeOK'
        BY <1>2, <3>1, <3>2, <3>3 DEF ResolveHead, TypeOK, BeginType, BeginRunning, ProviderStates
      <3>5. BeginLinks'
        BY <1>0, <1>2, <3>2, <3>3
        DEF ResolveHead, TypeOK, BeginType, BeginLinks, BeginGated, BaseKnown, JobSettled, ProviderKnows, Latest
      <3> QED BY <2>1, <3>4, <3>5
    <2> QED BY <1>2, <2>2, <2>3 DEF ResolveHead
  <1>3. ASSUME NEW o, AcquireLock(a, o) PROVE HandlerInv'
    <2>0. att' \in [Attempts -> BeginType]
      BY <1>3, BeginAtTyped DEF AcquireLock, BeginRunning, BeginEnded, ProviderStates
    <2>1. TypeOK'
      BY <1>3, <2>0, <1>s DEF AcquireLock, TypeOK
    <2>2. BeginLinks'
      BY <1>3, <1>0 DEF AcquireLock, BeginAt, BeginWith, TypeOK, BeginType, BeginLinks, BeginGated,
         BaseKnown, JobSettled, ProviderKnows, Latest
    <2>3. RequestLinks'
      BY <1>3, RequestLinksStay DEF AcquireLock, JobsStay
    <2> QED BY <2>1, <2>2, <2>3
  <1>4. ASSUME NEW o, Prepare(a, o) PROVE HandlerInv'
    <2>1. PICK st \in ProviderStates :
             /\ provider' = IF Applied(o) THEN [provider EXCEPT ![a] = st] ELSE provider
             /\ IF o = "ok" THEN BeginWith(a, "save", st) ELSE BeginAt(a, unwind(a))
      BY <1>4 DEF Prepare
    <2>2. /\ att' \in [Attempts -> BeginType] /\ att'[a].base = att[a].base
          /\ att'[a].pc \in {"save", "unlock", "failed"} /\ (att'[a].pc = "save" => o = "ok")
          /\ \A b \in Attempts \ {a} : att'[b] = att[b]
      <3>1. CASE o = "ok"
        BY <2>1, <3>1, BeginAtTyped DEF BeginRunning
      <3>2. CASE o # "ok"
        BY <2>1, <3>2, BeginAtTyped DEF BeginRunning, BeginEnded, unwind
      <3> QED BY <3>1, <3>2
    <2>3. /\ provider' \in [Attempts -> ProviderStates \cup {"none"}]
          /\ o = "ok" => provider'[a] # "none"
          /\ \A b \in Attempts : provider[b] # "none" => provider'[b] # "none"
          /\ \A b \in Attempts \ {a} : provider'[b] = provider[b]
      BY <2>1 DEF TypeOK, ProviderStates, Applied
    <2>4. TypeOK'
      BY <1>4, <2>2, <2>3 DEF Prepare, TypeOK
    <2>5. att[a].pc = "prepare" /\ UNCHANGED <<jobs, chain>>
      BY <1>4 DEF Prepare
    <2>6. BeginLinks'
      BY <1>0, <2>2, <2>3, <2>5 DEF TypeOK, BeginLinks, BeginGated, BaseKnown, JobSettled,
         ProviderKnows, Latest
    <2>7. RequestLinks'
      BY <1>4, RequestLinksStay DEF Prepare, JobsStay
    <2> QED BY <2>4, <2>6, <2>7
  <1>5. ASSUME NEW o, SaveJob(a, o) PROVE HandlerInv'
    <2>1. /\ att' \in [Attempts -> BeginType] /\ att'[a].base = att[a].base
          /\ att'[a].pc \in {"bound", "unlock", "failed"}
          /\ \A b \in Attempts \ {a} : att'[b] = att[b]
      BY <1>5, BeginAtTyped DEF SaveJob, BeginRunning, BeginEnded, unwind, ProviderStates
    <2>2. /\ jobs' \in [Attempts -> JobStates \cup {"none"}]
          /\ \A b \in Attempts : jobs[b] # "none" => jobs'[b] # "none"
          /\ \A b \in Attempts \ {a} : jobs'[b] = jobs[b]
      <3>1. att[a].st \in JobStates /\ att[a].st # "none"
        BY DEF TypeOK, BeginType, JobStates, ProviderStates
      <3> QED BY <1>5, <3>1 DEF SaveJob, TypeOK
    <2>3. TypeOK'
      BY <1>5, <2>1, <2>2 DEF SaveJob, TypeOK
    <2>4. att[a].pc = "save" /\ UNCHANGED <<provider, chain>>
      BY <1>5 DEF SaveJob
    <2>5. BeginLinks'
      BY <1>0, <2>1, <2>2, <2>4 DEF TypeOK, BeginLinks, BeginGated, BaseKnown, JobSettled,
         ProviderKnows, Latest
    <2>6. RequestLinks'
      BY <1>5, <2>2, RequestLinksStay DEF SaveJob, JobsStay
    <2> QED BY <2>3, <2>5, <2>6
  <1>6. ASSUME NEW o, ReleaseOnFailure(a, o) PROVE HandlerInv'
    <2>0. att' \in [Attempts -> BeginType]
      BY <1>6, BeginAtTyped DEF ReleaseOnFailure, BeginRunning, BeginEnded, ProviderStates
    <2>1. TypeOK'
      BY <1>6, <2>0 DEF ReleaseOnFailure, TypeOK, Released
    <2>2. BeginLinks'
      BY <1>6, <1>0 DEF ReleaseOnFailure, BeginAt, BeginWith, TypeOK, BeginType, BeginLinks, BeginGated,
         BaseKnown, JobSettled, ProviderKnows, Latest
    <2>3. RequestLinks'
      BY <1>6, RequestLinksStay DEF ReleaseOnFailure, JobsStay
    <2> QED BY <2>1, <2>2, <2>3
  <1>7. CASE CrashBegin(a)
    <2>0. att' \in [Attempts -> BeginType]
      BY <1>7, BeginAtTyped DEF CrashBegin, BeginRunning, BeginEnded, ProviderStates
    <2>1. TypeOK'
      BY <1>7, <2>0 DEF CrashBegin, TypeOK
    <2>2. BeginLinks'
      BY <1>7, <1>0 DEF CrashBegin, BeginAt, BeginWith, TypeOK, BeginType, BeginLinks, BeginGated,
         BaseKnown, JobSettled, ProviderKnows, Latest, BeginRunning
    <2>3. RequestLinks'
      BY <1>7, RequestLinksStay DEF CrashBegin, JobsStay
    <2> QED BY <2>1, <2>2, <2>3
  <1>8. CASE ProviderMoves(a)
    <2>1. TypeOK'
      BY <1>8 DEF ProviderMoves, TypeOK, ProviderStates
    <2>2. BeginLinks'
      BY <1>8, <1>0 DEF ProviderMoves, BeginAt, BeginWith, TypeOK, BeginType, BeginLinks, BeginGated,
         BaseKnown, JobSettled, ProviderKnows, Latest
    <2>3. RequestLinks'
      BY <1>8, RequestLinksStay DEF ProviderMoves, JobsStay
    <2> QED BY <2>1, <2>2, <2>3
  <1> QED BY <1>1, <1>2, <1>3, <1>4, <1>5, <1>6, <1>7, <1>8 DEF BeginStep

-----------------------------------------------------------------------------
(* How a request's step changes its handler *)

RecordedAt == {"complete", "release", "notify", "report", "link"}

\* The step belongs to request r alone and inserts no record.
LEMMA RequestLinksMove ==
  ASSUME TypeOK, RequestLinks, JobsStay, UNCHANGED input, NEW r \in Requests,
         \A q \in Requests \ {r} : req'[q] = req[q],
         Len(sigs') = Len(sigs),
         \A k \in 1 .. Len(sigs) : sigs'[k].job = sigs[k].job,
         req'[r].pc \in RequestRunning =>
             /\ req[r].pc \in RequestRunning
             /\ req'[r].job = req[r].job
             /\ req'[r].caller = req[r].caller,
         req'[r].pc \in RecordedAt =>
             /\ req[r].pc \in RecordedAt
             /\ req'[r].job = req[r].job
             /\ req'[r].sig = req[r].sig
  PROVE  RequestLinks'
  <1> USE DEF RequestLinks
  <1>1. RequestHasJob'
    BY DEF RequestHasJob, JobsStay
  <1>2. SignatureKnown'
    <2> SUFFICES ASSUME NEW q \in Requests, req'[q].pc \in RecordedAt
                 PROVE  /\ req'[q].sig \in 1 .. Len(sigs')
                        /\ sigs'[req'[q].sig].job = req'[q].job
      BY DEF SignatureKnown, RecordedAt
    <2>1. req[q].pc \in RecordedAt /\ req'[q].sig = req[q].sig /\ req'[q].job = req[q].job
      OBVIOUS
    <2> QED BY <2>1 DEF SignatureKnown, RecordedAt
  <1>3. RecordHasJob'
    BY RecordsTyped DEF RecordHasJob, JobsStay
  <1> QED BY <1>1, <1>2, <1>3

\* A request that ends.
LEMMA EndMoves ==
  ASSUME TypeOK, NEW r \in Requests, End(r)
  PROVE  /\ req' \in [Requests -> RequestType]
         /\ req'[r].pc = "done"
         /\ \A q \in Requests \ {r} : req'[q] = req[q]
  BY DEF TypeOK, End, Ended, IdleRequest, RequestType, AllOps, ProviderStates

\* A request that ends relies on nothing, so the links of all requests hold.
LEMMA EndKeepsLinks ==
  ASSUME TypeOK, RequestLinks, JobsStay, UNCHANGED <<input, sigs>>,
         NEW r \in Requests, End(r)
  PROVE  RequestLinks'
  BY EndMoves, RequestLinksMove DEF RequestRunning, RecordedAt

\* A request that goes to another call with something it learned.
LEMMA NewMoves ==
  ASSUME TypeOK, NEW r \in Requests, NEW new \in RequestType, req' = [req EXCEPT ![r] = new]
  PROVE  /\ req' \in [Requests -> RequestType]
         /\ req'[r] = new
         /\ \A q \in Requests \ {r} : req'[q] = req[q]
  BY DEF TypeOK

\* A request that goes to another call with what it knows.
LEMMA AtMoves ==
  ASSUME TypeOK, NEW r \in Requests, NEW l \in RequestRunning, At(r, l)
  PROVE  /\ req' \in [Requests -> RequestType]
         /\ req'[r] = [req[r] EXCEPT !.pc = l]
         /\ \A q \in Requests \ {r} : req'[q] = req[q]
  <1> DEFINE new == [req[r] EXCEPT !.pc = l]
  <1>1. req[r] \in RequestType
    BY DEF TypeOK
  <1>2. new \in RequestType
    BY <1>1 DEF RequestType
  <1>3. req' = [req EXCEPT ![r] = new]
    BY DEF At
  <1> HIDE DEF new
  <1>4. /\ req' \in [Requests -> RequestType]
        /\ req'[r] = new
        /\ \A q \in Requests \ {r} : req'[q] = req[q]
    BY <1>2, <1>3, NewMoves
  <1> QED BY <1>4 DEF new

\* A request that moves within its handler keeps the links of the others.
LEMMA AtKeepsLinks ==
  ASSUME TypeOK, RequestLinks, JobsStay, UNCHANGED <<input, sigs>>,
         NEW r \in Requests, NEW l \in RequestRunning, At(r, l),
         req[r].pc \in RequestRunning, l \in RecordedAt => req[r].pc \in RecordedAt
  PROVE  RequestLinks'
  <1>1. /\ req'[r].pc = l
        /\ req'[r].job = req[r].job
        /\ req'[r].caller = req[r].caller
        /\ req'[r].sig = req[r].sig
    <2>1. req[r] \in RequestType
      BY DEF TypeOK
    <2>2. req'[r] = [req[r] EXCEPT !.pc = l]
      BY AtMoves
    <2> QED BY <2>1, <2>2 DEF RequestType
  <1> QED BY <1>1, AtMoves, RequestLinksMove

-----------------------------------------------------------------------------
(* Requests *)

\* The job of a running request.
LEMMA RunningJob ==
  ASSUME HandlerInv, NEW r \in Requests, req[r].pc \in RequestRunning
  PROVE  /\ req[r].job \in Attempts
         /\ jobs[req[r].job] # "none"
         /\ att[req[r].job].base \in 1 .. Latest
         /\ slotOf(req[r].job) \in Slots
  <1>1. req[r].job \in Attempts /\ jobs[req[r].job] # "none"
    BY DEF HandlerInv, RequestLinks, RequestHasJob
  <1>2. att[req[r].job].base \in 1 .. Latest
    BY <1>1 DEF HandlerInv, BeginLinks, JobSettled
  <1>3. slotOf(req[r].job) \in Slots
    BY <1>1, ConductorAssumption DEF HandlerInv, TypeOK, slotOf
  <1> QED BY <1>1, <1>2, <1>3

\* A request that arrives passes the owner check or ends.
LEMMA ArriveKeepsHandlerInv ==
  ASSUME HandlerInv, NEW r \in Requests, Arrive(r)
  PROVE  HandlerInv'
  <1> USE DEF HandlerInv
  <1>0. RequestCallers \subseteq Callers \cup {None}
    BY ConductorAssumption
  <1>1. ASSUME NEW c \in RequestCallers, NEW a \in Attempts, NEW op \in AllOps,
               NEW l \in {"status", "submit", "abandon", "done"}, GetJob(r, op, c, a, l)
        PROVE  HandlerInv'
    <2>1. CASE End(r)
      <3>1. TypeOK'
        BY <1>1, <2>1, EndMoves DEF GetJob, TypeOK
      <3>2. RequestLinks'
        BY <1>1, <2>1, EndKeepsLinks DEF GetJob, JobsStay
      <3>3. BeginLinks'
        BY <1>1, <3>1, BeginLinksStay DEF GetJob, TypeOK
      <3> QED BY <3>1, <3>2, <3>3
    <2>2. CASE ~End(r)
      <3> DEFINE new == [IdleRequest EXCEPT !.pc = l, !.op = op, !.caller = c, !.job = a]
      <3>1. req' = [req EXCEPT ![r] = new] /\ jobs[a] # "none" /\ Owns(c, a) /\ l # "done"
        BY <1>1, <2>2 DEF GetJob, End
      <3>2. new \in RequestType /\ new.pc = l /\ new.job = a /\ new.caller = c
        BY <1>0, <3>1 DEF IdleRequest, RequestType, ProviderStates, RequestRunning
      <3> HIDE DEF new
      <3>3. TypeOK'
        BY <1>1, <3>1, <3>2 DEF GetJob, TypeOK
      <3>4. RequestLinks'
        BY <1>1, <3>1, <3>2
        DEF GetJob, TypeOK, RequestLinks, RequestHasJob, SignatureKnown, RecordHasJob, Owns
      <3>5. BeginLinks'
        BY <1>1, <3>3, BeginLinksStay DEF GetJob, TypeOK
      <3> QED BY <3>3, <3>4, <3>5
    <2> QED BY <2>1, <2>2
  <1>2. ASSUME NEW c \in RequestCallers, NEW k \in 1 .. Len(sigs), Validate(r, c, k)
        PROVE  HandlerInv'
    <2>0. sigs[k].job \in Attempts /\ k \in Nat
      BY RecordsTyped
    <2>1. CASE End(r)
      <3>1. TypeOK'
        BY <1>2, <2>1, EndMoves DEF Validate, TypeOK
      <3>2. RequestLinks'
        BY <1>2, <2>1, EndKeepsLinks DEF Validate, JobsStay
      <3>3. BeginLinks'
        BY <1>2, <3>1, BeginLinksStay DEF Validate, TypeOK
      <3> QED BY <3>1, <3>2, <3>3
    <2>2. CASE ~End(r)
      <3> DEFINE new == [IdleRequest EXCEPT !.pc = "report", !.op = "validate", !.caller = c,
                                            !.job = sigs[k].job, !.sig = k]
      <3>1. req' = [req EXCEPT ![r] = new] /\ Owns(c, sigs[k].job)
        BY <1>2, <2>2 DEF Validate, End
      <3>2. /\ new \in RequestType
            /\ new.pc = "report" /\ new.job = sigs[k].job /\ new.caller = c /\ new.sig = k
        BY <1>0, <2>0 DEF IdleRequest, RequestType, ProviderStates, RequestRunning, AllOps
      <3> HIDE DEF new
      <3>3. TypeOK'
        BY <1>2, <3>1, <3>2 DEF Validate, TypeOK
      <3>4. RequestLinks'
        BY <1>2, <2>0, <3>1, <3>2
        DEF Validate, TypeOK, RequestLinks, RequestHasJob, SignatureKnown, RecordHasJob, Owns
      <3>5. BeginLinks'
        BY <1>2, <3>3, BeginLinksStay DEF Validate, TypeOK
      <3> QED BY <3>3, <3>4, <3>5
    <2> QED BY <2>1, <2>2
  <1> QED BY <1>1, <1>2 DEF Arrive, Reconcile, SubmitClientSignature, Abandon, AllOps

\* The calls of a running request, and its crash: it ends or moves on to the
\* next call of its handler, and the chain and the records only grow.
LEMMA RequestKeepsHandlerInv ==
  ASSUME HandlerInv, NEW r \in Requests, RequestStep(r) \/ CrashRequest(r)
  PROVE  HandlerInv'
  <1> USE DEF HandlerInv
  <1> DEFINE a == req[r].job
  <1>0. req[r] \in RequestType /\ Latest \in Nat
    BY DEF TypeOK, Latest
  <1>1. ASSUME NEW o, KeepAlive(r, o) PROVE HandlerInv'
    <2>1. TypeOK'
      BY <1>1, EndMoves, RunningJob DEF KeepAlive, TypeOK, RequestRunning
    <2>2. RequestLinks'
      BY <1>1, EndKeepsLinks, RunningJob DEF KeepAlive, JobsStay, RequestRunning
    <2>3. BeginLinks'
      BY <1>1, <2>1, BeginLinksStay, RunningJob DEF KeepAlive, TypeOK, RequestRunning
    <2> QED BY <2>1, <2>2, <2>3
  <1>3. ASSUME NEW o, AbandonRelease(r, o) PROVE HandlerInv'
    <2>1. TypeOK'
      BY <1>3, EndMoves, RunningJob DEF AbandonRelease, TypeOK, RequestRunning, Released
    <2>2. RequestLinks'
      BY <1>3, EndKeepsLinks, RunningJob DEF AbandonRelease, JobsStay, RequestRunning
    <2>3. BeginLinks'
      BY <1>3, <2>1, BeginLinksStay, RunningJob DEF AbandonRelease, TypeOK, RequestRunning
    <2> QED BY <2>1, <2>2, <2>3
  <1>4. CASE CrashRequest(r)
    <2>1. TypeOK'
      BY <1>4, EndMoves, RunningJob DEF CrashRequest, TypeOK, RequestRunning
    <2>2. RequestLinks'
      BY <1>4, EndKeepsLinks, RunningJob DEF CrashRequest, JobsStay, RequestRunning
    <2>3. BeginLinks'
      BY <1>4, <2>1, BeginLinksStay, RunningJob DEF CrashRequest, TypeOK, RequestRunning
    <2> QED BY <2>1, <2>2, <2>3
  <1>5. ASSUME NEW o, ReleaseChainLock(r, o) PROVE HandlerInv'
    <2>1. TypeOK'
      BY <1>5, AtMoves, <1>0 DEF ReleaseChainLock, TypeOK, RequestRunning, RequestType, Released
    <2>2. RequestLinks'
      BY <1>5, AtKeepsLinks DEF ReleaseChainLock, JobsStay, RequestRunning, RecordedAt
    <2>3. BeginLinks'
      BY <1>5, <2>1, BeginLinksStay DEF ReleaseChainLock, TypeOK
    <2> QED BY <2>1, <2>2, <2>3
  <1>6. ASSUME NEW o, notifySlotSigned(r, o) PROVE HandlerInv'
    <2>1. TypeOK'
      BY <1>6, AtMoves, <1>0 DEF notifySlotSigned, TypeOK, RequestRunning, RequestType
    <2>2. RequestLinks'
      BY <1>6, AtKeepsLinks DEF notifySlotSigned, JobsStay, RequestRunning, RecordedAt
    <2>3. BeginLinks'
      BY <1>6, <2>1, BeginLinksStay DEF notifySlotSigned, TypeOK
    <2> QED BY <2>1, <2>2, <2>3
  <1>7. ASSUME NEW o, ReconcileJob(r, o) PROVE HandlerInv'
    <2>0. /\ a \in Attempts
          /\ jobs' \in [Attempts -> JobStates \cup {"none"}]
          /\ \A b \in Attempts : jobs'[b] # "none" <=> jobs[b] # "none"
      BY <1>7, <1>0, RunningJob
      DEF ReconcileJob, TypeOK, RequestRunning, RequestType, JobStates, ProviderStates
    <2>1. End(r) \/ \E l \in RequestRunning :
                      At(r, l) /\ (l \in RecordedAt => req[r].pc \in RecordedAt)
      BY <1>7 DEF ReconcileJob, RequestRunning, RecordedAt
    <2>2. TypeOK'
      BY <1>7, <2>0, <2>1, EndMoves, AtMoves DEF ReconcileJob, TypeOK
    <2>3. RequestLinks'
      BY <1>7, <2>0, <2>1, EndKeepsLinks, AtKeepsLinks DEF ReconcileJob, JobsStay, RequestRunning
    <2>4. BeginLinks'
      BY <1>7, <2>0, <2>2, BeginLinksStay DEF ReconcileJob, TypeOK
    <2> QED BY <2>2, <2>3, <2>4
  <1>8. ASSUME NEW o, MarkCompleted(r, o) PROVE HandlerInv'
    <2>0. /\ a \in Attempts
          /\ jobs' \in [Attempts -> JobStates \cup {"none"}]
          /\ \A b \in Attempts : jobs'[b] # "none" <=> jobs[b] # "none"
      BY <1>8, <1>0, RunningJob
      DEF MarkCompleted, TypeOK, RequestRunning, RequestType, JobStates, ProviderStates
    <2>1. End(r) \/ \E l \in RequestRunning :
                      At(r, l) /\ (l \in RecordedAt => req[r].pc \in RecordedAt)
      BY <1>8 DEF MarkCompleted, RequestRunning, RecordedAt, afterCompleted
    <2>2. TypeOK'
      BY <1>8, <2>0, <2>1, EndMoves, AtMoves DEF MarkCompleted, TypeOK
    <2>3. RequestLinks'
      BY <1>8, <2>0, <2>1, EndKeepsLinks, AtKeepsLinks DEF MarkCompleted, JobsStay, RequestRunning
    <2>4. BeginLinks'
      BY <1>8, <2>0, <2>2, BeginLinksStay DEF MarkCompleted, TypeOK
    <2> QED BY <2>2, <2>3, <2>4
  <1>2. ASSUME NEW o, MirrorState(r, o) PROVE HandlerInv'
    <2>0. /\ a \in Attempts
          /\ jobs' \in [Attempts -> JobStates \cup {"none"}]
          /\ \A b \in Attempts : jobs'[b] # "none" <=> jobs[b] # "none"
      BY <1>2, <1>0, RunningJob
      DEF MirrorState, TypeOK, RequestRunning, RequestType, JobStates, ProviderStates
    <2>1. End(r) \/ \E l \in RequestRunning :
                      At(r, l) /\ (l \in RecordedAt => req[r].pc \in RecordedAt)
      BY <1>2 DEF MirrorState, RequestRunning, RecordedAt
    <2>2. TypeOK'
      BY <1>2, <2>0, <2>1, EndMoves, AtMoves DEF MirrorState, TypeOK
    <2>3. RequestLinks'
      BY <1>2, <2>0, <2>1, EndKeepsLinks, AtKeepsLinks DEF MirrorState, JobsStay, RequestRunning
    <2>4. BeginLinks'
      BY <1>2, <2>0, <2>2, BeginLinksStay DEF MirrorState, TypeOK
    <2> QED BY <2>2, <2>3, <2>4
  <1>p. req[r].pc \in RequestRunning => provider[a] \in ProviderStates
    BY RunningJob DEF TypeOK, BeginLinks, ProviderKnows
  <1>9. ASSUME NEW o, PollStatus(r, o) PROVE HandlerInv'
    <2>1. \/ End(r)
          \/ /\ req' \in [Requests -> RequestType]
             /\ \A q \in Requests \ {r} : req'[q] = req[q]
             /\ req'[r].pc = "reconcile"
             /\ req'[r].job = req[r].job /\ req'[r].caller = req[r].caller
             /\ req'[r].sig = req[r].sig
      <3>0. provider[a] \in ProviderStates
        BY <1>9, <1>p DEF PollStatus, RequestRunning
      <3> DEFINE new == [req[r] EXCEPT !.pc = "reconcile", !.st = provider[a]]
      <3>1. End(r) \/ req' = [req EXCEPT ![r] = new]
        BY <1>9, <1>0 DEF PollStatus, TypeOK, RequestType
      <3>2. /\ new \in RequestType
           /\ new.pc = "reconcile" /\ new.job = req[r].job /\ new.caller = req[r].caller
           /\ new.sig = req[r].sig
        BY <1>0, <3>0 DEF RequestType, RequestRunning
      <3> HIDE DEF new
      <3> QED BY <3>1, <3>2, NewMoves
    <2>2. TypeOK'
      BY <1>9, <2>1, EndMoves, RunningJob, <1>p DEF PollStatus, TypeOK, RequestRunning
    <2>3. RequestLinks'
      BY <1>9, <2>1, EndKeepsLinks, RequestLinksMove
      DEF PollStatus, JobsStay, RequestRunning, RecordedAt
    <2>4. BeginLinks'
      BY <1>9, <2>2, BeginLinksStay, RunningJob, <1>p DEF PollStatus, TypeOK, RequestRunning
    <2> QED BY <2>2, <2>3, <2>4
  <1>10. CASE CompleteConflict(r)
    <2>1. \/ End(r)
          \/ /\ req' \in [Requests -> RequestType]
             /\ \A q \in Requests \ {r} : req'[q] = req[q]
             /\ req'[r].pc = "store"
             /\ req'[r].job = req[r].job /\ req'[r].caller = req[r].caller
             /\ req'[r].sig = req[r].sig
      <3> DEFINE n == req[r].tries + 1
      <3>0. n \in Nat
        BY <1>0 DEF RequestType
      <3> DEFINE new == [req[r] EXCEPT !.pc = "store", !.tries = n]
      <3>1. End(r) \/ req' = [req EXCEPT ![r] = new]
        <4>1. req[r].pc = "store"
          BY <1>10 DEF CompleteConflict
        <4>2. End(r) \/ req' = [req EXCEPT ![r].tries = n]
          BY <1>10 DEF CompleteConflict
        <4>3. new = [req[r] EXCEPT !.tries = n]
          <5> HIDE DEF n
          <5> QED BY <4>1, <1>0 DEF RequestType
        <4> HIDE DEF new, n
        <4> QED BY <4>2, <4>3
      <3>2. /\ new \in RequestType
           /\ new.pc = "store" /\ new.job = req[r].job /\ new.caller = req[r].caller
           /\ new.sig = req[r].sig
        <4> HIDE DEF n
        <4> QED BY <1>0, <3>0 DEF RequestType, RequestRunning
      <3> HIDE DEF new
      <3> QED BY <3>1, <3>2, NewMoves
    <2>2. TypeOK'
      BY <1>10, <2>1, EndMoves, RunningJob DEF CompleteConflict, TypeOK, RequestRunning
    <2>3. RequestLinks'
      BY <1>10, <2>1, EndKeepsLinks, RequestLinksMove
      DEF CompleteConflict, JobsStay, RequestRunning, RecordedAt
    <2>4. BeginLinks'
      BY <1>10, <2>2, BeginLinksStay, RunningJob DEF CompleteConflict, TypeOK, RequestRunning
    <2> QED BY <2>2, <2>3, <2>4
  <1>11. ASSUME NEW o, StoreReport(r, o) PROVE HandlerInv'
    <2>0. reports' \in Seq(Nat) /\ Len(reports) + 1 \in Nat
      BY <1>11, <1>0, AppendProperties DEF StoreReport, TypeOK, RequestType
    <2>1. \/ End(r)
          \/ /\ req' \in [Requests -> RequestType]
             /\ \A q \in Requests \ {r} : req'[q] = req[q]
             /\ req'[r].pc = "link"
             /\ req'[r].job = req[r].job /\ req'[r].caller = req[r].caller
             /\ req'[r].sig = req[r].sig
      <3> DEFINE new == [req[r] EXCEPT !.pc = "link", !.rep = Len(reports) + 1]
      <3>1. End(r) \/ req' = [req EXCEPT ![r] = new]
        BY <1>11 DEF StoreReport
      <3>2. /\ new \in RequestType
           /\ new.pc = "link" /\ new.job = req[r].job /\ new.caller = req[r].caller
           /\ new.sig = req[r].sig
        BY <1>0, <2>0 DEF RequestType, RequestRunning
      <3> HIDE DEF new
      <3> QED BY <3>1, <3>2, NewMoves
    <2>2. TypeOK'
      BY <1>11, <2>0, <2>1, EndMoves DEF StoreReport, TypeOK
    <2>3. RequestLinks'
      BY <1>11, <2>1, EndKeepsLinks, RequestLinksMove
      DEF StoreReport, JobsStay, RequestRunning, RecordedAt
    <2>4. BeginLinks'
      BY <1>11, <2>2, BeginLinksStay, RunningJob DEF StoreReport, TypeOK, RequestRunning
    <2> QED BY <2>2, <2>3, <2>4
  <1>12. ASSUME NEW o, Submit(r, o) PROVE HandlerInv'
    <2>0. /\ a \in Attempts
          /\ provider' \in [Attempts -> ProviderStates \cup {"none"}]
          /\ \A b \in Attempts : provider'[b] # "none" <=> provider[b] # "none"
      <3>0. req[r].pc \in RequestRunning
        BY <1>12 DEF Submit, RequestRunning
      <3>1. a \in Attempts /\ provider[a] \in ProviderStates
        BY <3>0, <1>p, RunningJob
      <3>2. \/ provider' = provider
            \/ \E st \in ProviderStates : provider' = [provider EXCEPT ![a] = st]
        BY <1>12 DEF Submit
      <3>3. provider \in [Attempts -> ProviderStates \cup {"none"}]
        BY DEF TypeOK
      <3>4. "none" \notin ProviderStates
        BY DEF ProviderStates
      <3> QED BY <3>1, <3>2, <3>3, <3>4
    <2>1. \/ End(r)
          \/ /\ req' \in [Requests -> RequestType]
             /\ \A q \in Requests \ {r} : req'[q] = req[q]
             /\ req'[r].pc = "mirror"
             /\ req'[r].job = req[r].job /\ req'[r].caller = req[r].caller
             /\ req'[r].sig = req[r].sig
      <3>1. CASE End(r)
        BY <3>1
      <3>2. CASE ~End(r)
        <4>1. PICK st \in ProviderStates : req' = [req EXCEPT ![r].pc = "mirror", ![r].st = st]
          BY <1>12, <3>2 DEF Submit
        <4> DEFINE new == [req[r] EXCEPT !.pc = "mirror", !.st = st]
        <4>2. req' = [req EXCEPT ![r] = new]
          BY <4>1, <1>0 DEF TypeOK, RequestType
        <4>3. /\ new \in RequestType
              /\ new.pc = "mirror" /\ new.job = req[r].job /\ new.caller = req[r].caller
              /\ new.sig = req[r].sig
          BY <1>0 DEF RequestType, RequestRunning
        <4> HIDE DEF new
        <4> QED BY <4>2, <4>3, NewMoves
      <3> QED BY <3>1, <3>2
    <2>2. TypeOK'
      BY <1>12, <2>0, <2>1, EndMoves DEF Submit, TypeOK
    <2>3. RequestLinks'
      BY <1>12, <2>1, EndKeepsLinks, RequestLinksMove
      DEF Submit, JobsStay, RequestRunning, RecordedAt
    <2>4. BeginLinks'
      BY <1>12, <2>0, <2>2, BeginLinksStay DEF Submit, TypeOK
    <2> QED BY <2>2, <2>3, <2>4
  <1>13. ASSUME NEW o, StoreSignedDocument(r, o) \/ CompleteContainer(r, o) PROVE HandlerInv'
    <2>0. a \in Attempts /\ readyDoc(a) \in 1 .. Len(chain) /\ req[r].pc = "store"
      BY <1>13, RunningJob
      DEF StoreSignedDocument, CompleteContainer, RequestRunning, readyDoc, Latest
    <2>a. \A i \in 1 .. Len(chain) : chain[i].sigs \subseteq Attempts
      BY VersionsTyped
    <2>b. signedPDF(a) \in VersionType /\ mergedContainer(a) \in VersionType
      BY <2>0, <2>a, <1>0 DEF signedPDF, mergedContainer, VersionType, Kinds, Latest, TypeOK
    <2>1. /\ chain' \in Seq(VersionType) \ {<<>>}
          /\ Len(chain') >= Len(chain)
      <3>1. ASSUME NEW d \in VersionType, chain' = Append(chain, d)
            PROVE  chain' \in Seq(VersionType) \ {<<>>} /\ Len(chain') >= Len(chain)
        BY <3>1 DEF TypeOK
      <3> QED BY <1>13, <2>b, <3>1
              DEF StoreSignedDocument, CompleteContainer, Stored, TypeOK
    <2>2. \/ End(r)
          \/ /\ req' \in [Requests -> RequestType]
             /\ \A q \in Requests \ {r} : req'[q] = req[q]
             /\ req'[r].pc = "insert"
             /\ req'[r].job = req[r].job /\ req'[r].caller = req[r].caller
             /\ req'[r].sig = req[r].sig
      <3>0. Latest + 1 \in Nat
        BY <1>0
      <3> DEFINE new == [req[r] EXCEPT !.pc = "insert", !.ref = Latest + 1]
      <3>1. End(r) \/ req' = [req EXCEPT ![r] = new]
        BY <1>13, <1>0 DEF StoreSignedDocument, CompleteContainer, Stored, TypeOK, RequestType
      <3>2. /\ new \in RequestType
           /\ new.pc = "insert" /\ new.job = req[r].job /\ new.caller = req[r].caller
           /\ new.sig = req[r].sig
        BY <1>0, <3>0 DEF RequestType, RequestRunning
      <3> HIDE DEF new
      <3> QED BY <3>1, <3>2, NewMoves
    <2>3. TypeOK'
      BY <1>13, <2>1, <2>2, EndMoves DEF StoreSignedDocument, CompleteContainer, TypeOK
    <2>4. RequestLinks'
      BY <1>13, <2>0, <2>2, EndKeepsLinks, RequestLinksMove
      DEF StoreSignedDocument, CompleteContainer, JobsStay, RequestRunning, RecordedAt
    <2>5. BeginLinks'
      BY <1>13, <2>1, <2>3, BeginLinksStay DEF StoreSignedDocument, CompleteContainer, TypeOK
    <2> QED BY <2>3, <2>4, <2>5
  <1>14. ASSUME NEW o, InsertSignature(r, o) PROVE HandlerInv'
    <2>0. a \in Attempts /\ jobs[a] # "none" /\ signatureRecord(r) \in RecordType
      BY <1>14, <1>0, RunningJob
      DEF InsertSignature, RequestRunning, signatureRecord, RecordType, RequestType
    <2>s. Len(sigs) + 1 \in Nat
      BY DEF TypeOK
    <2>1. CASE UNCHANGED sigs
      <3>1. End(r)
        BY <1>14, <2>0, <2>1, AppendProperties DEF InsertSignature, TypeOK, Applied
      <3>2. TypeOK'
        BY <1>14, <2>1, <3>1, EndMoves DEF InsertSignature, TypeOK
      <3>3. RequestLinks'
        BY <1>14, <2>1, <3>1, EndKeepsLinks DEF InsertSignature, JobsStay
      <3>4. BeginLinks'
        BY <1>14, <3>2, BeginLinksStay DEF InsertSignature, TypeOK
      <3> QED BY <3>2, <3>3, <3>4
    <2>2. CASE sigs' = Append(sigs, signatureRecord(r))
      <3>1. /\ sigs' \in Seq(RecordType)
            /\ Len(sigs') = Len(sigs) + 1
            /\ \A k \in 1 .. Len(sigs) : sigs'[k] = sigs[k]
            /\ sigs'[Len(sigs) + 1].job = a
        BY <2>0, <2>2, AppendProperties DEF TypeOK, signatureRecord
      <3>2. \/ End(r)
            \/ /\ req' \in [Requests -> RequestType]
               /\ \A q \in Requests \ {r} : req'[q] = req[q]
               /\ req'[r].pc = "complete"
               /\ req'[r].job = req[r].job /\ req'[r].caller = req[r].caller
               /\ req'[r].sig = Len(sigs) + 1
        <4> DEFINE new == [req[r] EXCEPT !.pc = "complete", !.sig = Len(sigs) + 1]
        <4>1. End(r) \/ req' = [req EXCEPT ![r] = new]
          BY <1>14, <1>0 DEF InsertSignature, TypeOK, RequestType
        <4>2. /\ new \in RequestType
             /\ new.pc = "complete" /\ new.job = req[r].job /\ new.caller = req[r].caller
             /\ new.sig = Len(sigs) + 1
          BY <1>0, <2>s DEF RequestType, RequestRunning
        <4> HIDE DEF new
        <4> QED BY <4>1, <4>2, NewMoves
      <3>3. TypeOK'
        BY <1>14, <3>1, <3>2, EndMoves DEF InsertSignature, TypeOK
      <3>4. RequestLinks'
        <4>0. Len(sigs) \in Nat /\ UNCHANGED <<jobs, input>> /\ req[r].pc = "insert"
          BY <1>14 DEF InsertSignature, TypeOK
        <4>1. RequestHasJob'
          BY <4>0, <3>2, EndMoves DEF RequestLinks, RequestHasJob, RequestRunning
        <4>2. SignatureKnown'
          BY <4>0, <3>1, <3>2, EndMoves DEF RequestLinks, SignatureKnown
        <4>3. RecordHasJob'
          BY <4>0, <2>0, <3>1 DEF RequestLinks, RecordHasJob
        <4> QED BY <4>1, <4>2, <4>3 DEF RequestLinks
      <3>5. BeginLinks'
        BY <1>14, <3>3, BeginLinksStay DEF InsertSignature, TypeOK
      <3> QED BY <3>3, <3>4, <3>5
    <2> QED BY <1>14, <2>1, <2>2 DEF InsertSignature
  <1>15. ASSUME NEW o, RecordValidation(r, o) PROVE HandlerInv'
    <2>0. req[r].sig \in 1 .. Len(sigs) /\ linkedReport(r) \in Nat
      BY <1>15, <1>0
      DEF RecordValidation, RequestLinks, SignatureKnown, linkedReport, RequestType
    <2>1. /\ sigs' \in Seq(RecordType)
          /\ Len(sigs') = Len(sigs)
          /\ \A k \in 1 .. Len(sigs) : sigs'[k].job = sigs[k].job
      <3>1. CASE UNCHANGED sigs
        BY <3>1 DEF TypeOK
      <3>2. CASE sigs' = [sigs EXCEPT ![req[r].sig].report = linkedReport(r)]
        <4>1. sigs \in Seq(RecordType) /\ sigs[req[r].sig] \in RecordType
          BY <2>0, RecordsTyped DEF TypeOK
        <4> DEFINE rec == [sigs[req[r].sig] EXCEPT !.report = linkedReport(r)]
        <4>2. rec \in RecordType /\ rec.job = sigs[req[r].sig].job
          BY <2>0, <4>1 DEF RecordType
        <4>3. sigs' = [sigs EXCEPT ![req[r].sig] = rec]
          BY <3>2
        <4> HIDE DEF rec
        <4> QED BY <2>0, <4>1, <4>2, <4>3, ExceptSeq
      <3> QED BY <1>15, <3>1, <3>2 DEF RecordValidation
    <2>2. TypeOK'
      BY <1>15, <2>1, EndMoves DEF RecordValidation, TypeOK
    <2>3. RequestLinks'
      BY <1>15, <2>1, EndMoves, RequestLinksMove
      DEF RecordValidation, JobsStay, RequestRunning, RecordedAt
    <2>4. BeginLinks'
      BY <1>15, <2>2, BeginLinksStay DEF RecordValidation, TypeOK
    <2> QED BY <2>2, <2>3, <2>4
  <1> QED BY <1>1, <1>2, <1>3, <1>4, <1>5, <1>6, <1>7, <1>8, <1>9, <1>10, <1>11, <1>12,
             <1>13, <1>14, <1>15
          DEF RequestStep

\* Every step of the system preserves the handlers' invariant.
LEMMA NextHandlerInv == HandlerInv /\ [Next]_vars => HandlerInv'
  <1> SUFFICES ASSUME HandlerInv, [Next]_vars PROVE HandlerInv'
    OBVIOUS
  <1>1. CASE Lapse \/ UNCHANGED vars
    <2>1. TypeOK'
      BY <1>1 DEF HandlerInv, Lapse, vars, TypeOK
    <2>2. RequestLinks'
      BY <1>1, RequestLinksStay DEF HandlerInv, Lapse, vars, JobsStay
    <2>3. BeginLinks'
      BY <1>1, <2>1, BeginLinksStay DEF HandlerInv, Lapse, vars, TypeOK
    <2> QED BY <2>1, <2>2, <2>3 DEF HandlerInv
  <1> QED BY <1>1, BeginKeepsHandlerInv, ArriveKeepsHandlerInv, RequestKeepsHandlerInv DEF Next

\* Every variable keeps its type: in particular no handler works with a format
\* the conductor does not drive, a missing provider state or a missing document.
THEOREM TypeCorrect == Spec => []TypeOK
  <1>1. HandlerInv => TypeOK
    BY DEF HandlerInv
  <1> QED BY InitHandlerInv, NextHandlerInv, <1>1, PTL DEF Spec

\* Provider work starts only for a login method that permits the flow.
THEOREM GatesHold == Spec => []BindingHonoured
  <1>1. HandlerInv => BindingHonoured
    BY DEF HandlerInv, BeginLinks, BeginGated, Accepts, BindingHonoured
  <1> QED BY InitHandlerInv, NextHandlerInv, <1>1, PTL DEF Spec

-----------------------------------------------------------------------------
(* The lock *)

\* What a step may do to the lock: leave it, let its time run out, take it for a
\* slot that finds it free or its own, or free the hold of the slot it acts for.
LockStep ==
    \/ UNCHANGED lock
    \/ lock' = None /\ UNCHANGED <<att, req>>
    \/ \E s \in Slots : lock \in {None, s} /\ lock' = s
    \/ \E a \in Attempts : lock = slotOf(a) /\ lock' = None /\ att'[a] # att[a]
    \/ \E r \in Requests : lock = slotOf(req[r].job) /\ lock' = None /\ req'[r] # req[r]

\* AcquireChainLock is called with the handler's own slot and ReleaseChainLock
\* frees that slot's hold only; no other call touches the lock.
LEMMA NextLockStep ==
  ASSUME HandlerInv, [Next]_vars
  PROVE  LockStep
  <1>1. ASSUME NEW a \in Attempts, NEW o, AcquireLock(a, o)
        PROVE  LockStep
    <2>1. slotOf(a) \in Slots
      BY ConductorAssumption DEF HandlerInv, TypeOK, slotOf
    <2> QED BY <1>1, <2>1 DEF AcquireLock, Acquirable, LockStep
  <1>2. ASSUME NEW a \in Attempts, NEW o, ReleaseOnFailure(a, o)
        PROVE  LockStep
    <2>1. att'[a].pc = "failed" /\ att[a].pc = "unlock"
      BY <1>2 DEF ReleaseOnFailure, BeginAt, BeginWith, HandlerInv, TypeOK, BeginType
    <2>2. att'[a] # att[a]
      BY <2>1
    <2> QED BY <1>2, <2>2 DEF ReleaseOnFailure, Released, LockStep
  <1>3. ASSUME NEW a \in Attempts, BeginStep(a) \/ CrashBegin(a) \/ ProviderMoves(a)
        PROVE  LockStep
    <2>1. CASE UNCHANGED lock
      BY <2>1 DEF LockStep
    <2> QED BY <1>1, <1>2, <1>3, <2>1
            DEF BeginStep, CrashBegin, ProviderMoves, BeginChecks, ResolveHead, Prepare, SaveJob
  <1>4. ASSUME NEW r \in Requests, NEW o, KeepAlive(r, o)
        PROVE  LockStep
    <2>1. slotOf(req[r].job) \in Slots
      BY <1>4, RunningJob DEF KeepAlive, RequestRunning
    <2> QED BY <1>4, <2>1 DEF KeepAlive, Acquirable, LockStep
  <1>5. ASSUME NEW r \in Requests, NEW o, ReleaseChainLock(r, o) \/ AbandonRelease(r, o)
        PROVE  LockStep
    <2>1. req[r] \in RequestType /\ req[r].pc \in {"release", "abandon"}
      BY <1>5 DEF ReleaseChainLock, AbandonRelease, HandlerInv, TypeOK
    <2>2. req'[r].pc \in {"notify", "done"}
      <3>1. CASE End(r)
        BY <3>1, EndMoves DEF HandlerInv
      <3>2. CASE At(r, "notify")
        <4>1. req'[r] = [req[r] EXCEPT !.pc = "notify"]
          BY <3>2, AtMoves DEF HandlerInv, RequestRunning
        <4> QED BY <2>1, <4>1 DEF RequestType
      <3> QED BY <1>5, <3>1, <3>2 DEF ReleaseChainLock, AbandonRelease
    <2>3. req'[r] # req[r]
      BY <2>1, <2>2
    <2> QED BY <1>5, <2>3 DEF ReleaseChainLock, AbandonRelease, Released, LockStep
  <1>6. ASSUME NEW r \in Requests, Arrive(r) \/ RequestStep(r) \/ CrashRequest(r)
        PROVE  LockStep
    <2>1. CASE UNCHANGED lock
      BY <2>1 DEF LockStep
    <2> QED BY <1>4, <1>5, <1>6, <2>1
            DEF Arrive, Reconcile, SubmitClientSignature, Abandon, GetJob, Validate, RequestStep,
                CrashRequest, PollStatus, StoreSignedDocument, CompleteContainer,
                notifySlotSigned, Submit, ReconcileJob, InsertSignature, MarkCompleted,
                RecordValidation, MirrorState, StoreReport, CompleteConflict
  <1>7. CASE Lapse \/ UNCHANGED vars
    BY <1>7 DEF Lapse, vars, LockStep
  <1> QED BY <1>3, <1>6, <1>7 DEF Next

\* A hold ends by its time limit or by a handler of its own slot.
THEOREM OwnHoldFreed == Spec => OnlyOwnSlotFrees
  <1>1. HandlerInv /\ [Next]_vars =>
          [lock # None /\ lock' = None =>
             \/ UNCHANGED <<att, req>>
             \/ \E a \in Attempts : att'[a] # att[a] /\ slotOf(a) = lock
             \/ \E r \in Requests : req'[r] # req[r] /\ slotOf(req[r].job) = lock]_vars
    <2> SUFFICES ASSUME HandlerInv, [Next]_vars, lock # None, lock' = None
                 PROVE  \/ UNCHANGED <<att, req>>
                        \/ \E a \in Attempts : att'[a] # att[a] /\ slotOf(a) = lock
                        \/ \E r \in Requests : req'[r] # req[r] /\ slotOf(req[r].job) = lock
      OBVIOUS
    <2>1. LockStep
      BY NextLockStep
    <2> QED BY <2>1, ConductorAssumption DEF LockStep
  <1> QED BY InitHandlerInv, NextHandlerInv, <1>1, PTL DEF Spec, OnlyOwnSlotFrees

-----------------------------------------------------------------------------
(* The signature records *)

\* Version k of the document carries job j's signature, in the job's form.
Backed(j, k) ==
    /\ k \in 2 .. Latest
    /\ j \in chain[k].sigs
    /\ chain[k].kind = KindOf(att[j].format)

\* A finalize that is about to insert its record has stored the document.
InsertBacked ==
    \A r \in Requests : req[r].pc = "insert" => Backed(req[r].job, req[r].ref)

Recorded(a) == \E k \in 1 .. Len(sigs) : sigs[k].job = a

\* A signed PDF was stored by the one handler that is about to record it, or that
\* did: the head has passed the version its job began from, so the store takes it
\* from no other.
PDFInserts(r) == req[r].pc = "insert" /\ isPAdES(req[r].job)
PDFStoredOnce ==
    /\ \A r \in Requests : PDFInserts(r) => /\ att[req[r].job].base < Latest
                                            /\ ~Recorded(req[r].job)
    /\ \A q, r \in Requests : PDFInserts(q) /\ PDFInserts(r) /\ req[q].job = req[r].job => q = r
    /\ \A k \in 1 .. Len(sigs) : isPAdES(sigs[k].job) => att[sigs[k].job].base < Latest

PDFInv == PDFStoredOnce /\ PDFRecordedOnce

RecordInv == RecordsBacked /\ CompletedRecorded /\ InsertBacked /\ PDFInv

-----------------------------------------------------------------------------
(* What every step preserves *)

\* A stored version of the document is never changed or removed.
VersionsStay ==
    /\ Len(chain') \in Nat /\ Len(chain') >= Len(chain)
    /\ \A k \in 1 .. Len(chain) : chain'[k] = chain[k]

\* The form of a stored job and the version it began from never change.
FormsStay ==
    \A a \in Attempts :
        jobs[a] # "none" => att'[a].format = att[a].format /\ att'[a].base = att[a].base

\* Both are chosen by the Begin that has not stored its job yet.
LEMMA FormsSettled ==
  ASSUME HandlerInv, [Next]_vars
  PROVE  FormsStay
  <1>1. CASE UNCHANGED att
    BY <1>1 DEF FormsStay
  <1>2. ASSUME NEW b \in Attempts, BeginStep(b) \/ CrashBegin(b)
        PROVE  FormsStay
    <2>1. jobs[b] # "none" => att[b].pc # "head"
      BY DEF HandlerInv, BeginLinks, JobSettled
    <2> QED BY <1>2, <2>1, BeginOrder DEF FormsStay, HandlerInv
  <1>3. ASSUME NEW r \in Requests, Arrive(r) \/ RequestStep(r) \/ CrashRequest(r)
        PROVE  UNCHANGED att
    BY <1>3
    DEF Arrive, RequestStep, CrashRequest, Reconcile, SubmitClientSignature, Abandon, GetJob,
        Validate, PollStatus, StoreSignedDocument, CompleteContainer, notifySlotSigned, Submit,
        ReconcileJob, KeepAlive, InsertSignature, MarkCompleted, ReleaseChainLock,
        RecordValidation, MirrorState, AbandonRelease, StoreReport, CompleteConflict
  <1> QED BY <1>1, <1>2, <1>3 DEF Next, ProviderMoves, Lapse, vars

\* A stored document keeps carrying the signature.
LEMMA BackedStays ==
  ASSUME HandlerInv, VersionsStay, FormsStay, NEW j \in Attempts, NEW k,
         jobs[j] # "none", Backed(j, k)
  PROVE  Backed(j, k)'
  <1>1. Len(chain) \in Nat /\ k \in 2 .. Len(chain)
    BY DEF HandlerInv, TypeOK, Backed, Latest
  <1>2. Len(chain') >= Len(chain) /\ chain'[k] = chain[k]
    BY <1>1 DEF VersionsStay
  <1>3. Len(chain') \in Nat \/ k \in 2 .. Len(chain')
    BY <1>1, <1>2
  <1> QED BY <1>1, <1>2, <1>3 DEF Backed, Latest, FormsStay, KindOf

\* Records that exist stay backed.
LEMMA RecordsStayBacked ==
  ASSUME HandlerInv, RecordInv, FormsStay, VersionsStay, NEW k \in 1 .. Len(sigs), NEW j, NEW n,
         j = sigs[k].job, n = sigs[k].ref
  PROVE  Backed(j, n)'
  <1>1. j \in Attempts /\ jobs[j] # "none"
    BY RecordsTyped DEF HandlerInv, RequestLinks, RecordHasJob
  <1>2. Backed(j, n)
    BY DEF RecordInv, RecordsBacked, Backed
  <1> QED BY <1>1, <1>2, BackedStays

\* So do the documents of requests that do not move.
LEMMA InsertsStayBacked ==
  ASSUME HandlerInv, RecordInv, FormsStay, VersionsStay, NEW q \in Requests, NEW j, NEW n,
         req[q].pc = "insert", j = req[q].job, n = req[q].ref
  PROVE  Backed(j, n)'
  <1>1. req[q].pc \in RequestRunning
    BY DEF RequestRunning
  <1>2. j \in Attempts /\ jobs[j] # "none" /\ Backed(j, n)
    BY <1>1, RunningJob DEF RecordInv, InsertBacked
  <1> QED BY <1>2, BackedStays

\* A step that records nothing, and after which no other handler is to record.
LEMMA PDFInvStays ==
  ASSUME HandlerInv, PDFInv, FormsStay, VersionsStay,
         Len(sigs') = Len(sigs),
         \A k \in 1 .. Len(sigs) : sigs'[k].job = sigs[k].job,
         \A q \in Requests : req'[q].pc = "insert" => req'[q] = req[q]
  PROVE  PDFInv'
  <1>1. Len(chain) \in Nat /\ Len(chain') \in Nat /\ Len(chain') >= Len(chain)
    BY DEF HandlerInv, TypeOK, VersionsStay
  <1>2. ASSUME NEW r \in Requests, req[r].pc = "insert"
        PROVE  LET a == req[r].job
               IN  /\ a \in Attempts /\ att[a].base \in Nat
                   /\ att'[a].format = att[a].format /\ att'[a].base = att[a].base
    BY <1>2, RunningJob DEF RequestRunning, FormsStay, HandlerInv, TypeOK, BeginType
  <1>3. ASSUME NEW k \in 1 .. Len(sigs)
        PROVE  LET a == sigs[k].job
               IN  /\ a \in Attempts /\ att[a].base \in Nat
                   /\ att'[a].format = att[a].format /\ att'[a].base = att[a].base
    BY RecordsTyped DEF HandlerInv, RequestLinks, RecordHasJob, FormsStay, TypeOK, BeginType
  <1>4. \A q \in Requests : PDFInserts(q)' => PDFInserts(q) /\ req'[q] = req[q]
    BY <1>2 DEF PDFInserts, isPAdES
  <1>5. ASSUME NEW r \in Requests, PDFInserts(r)'
        PROVE  /\ att'[req'[r].job].base < Len(chain')
               /\ \A k \in 1 .. Len(sigs') : sigs'[k].job # req'[r].job
    <2>1. PDFInserts(r) /\ req'[r] = req[r] /\ req[r].pc = "insert"
      BY <1>4, <1>5 DEF PDFInserts
    <2>2. att[req[r].job].base < Len(chain) /\ ~Recorded(req[r].job)
      BY <2>1 DEF PDFInv, PDFStoredOnce, Latest
    <2> QED BY <1>1, <1>2, <2>1, <2>2 DEF Recorded
  <1>6. ASSUME NEW k \in 1 .. Len(sigs'), att'[sigs'[k].job].format = "PAdES"
        PROVE  att'[sigs'[k].job].base < Len(chain')
    <2>1. k \in 1 .. Len(sigs) /\ sigs'[k].job = sigs[k].job
      OBVIOUS
    <2>2. att[sigs[k].job].format = "PAdES"
      BY <1>3, <1>6, <2>1
    <2>3. att[sigs[k].job].base < Len(chain)
      BY <2>1, <2>2 DEF PDFInv, PDFStoredOnce, isPAdES, Latest
    <2> QED BY <1>1, <1>3, <2>1, <2>3
  <1>7. PDFStoredOnce'
    <2>1. \A q, r \in Requests : PDFInserts(q)' /\ PDFInserts(r)' /\ req'[q].job = req'[r].job => q = r
      BY <1>4 DEF PDFInv, PDFStoredOnce
    <2> QED BY <1>5, <1>6, <2>1 DEF PDFStoredOnce, Recorded, isPAdES, Latest
  <1>8. PDFRecordedOnce'
    BY <1>3 DEF PDFInv, PDFRecordedOnce, isPAdES
  <1> QED BY <1>7, <1>8 DEF PDFInv

\* A step that stores nothing, records nothing and completes nothing.
LEMMA RecordInvStays ==
  ASSUME HandlerInv, RecordInv, FormsStay, VersionsStay,
         Len(sigs') = Len(sigs),
         \A k \in 1 .. Len(sigs) : sigs'[k].job = sigs[k].job /\ sigs'[k].ref = sigs[k].ref,
         \A q \in Requests : req'[q].pc = "insert" => req'[q] = req[q],
         \A a \in Attempts : jobs'[a] = "COMPLETED" => jobs[a] = "COMPLETED"
  PROVE  RecordInv'
  <1>1. RecordsBacked'
    BY RecordsStayBacked DEF RecordsBacked, Backed
  <1>2. CompletedRecorded'
    BY DEF RecordInv, CompletedRecorded
  <1>3. InsertBacked'
    BY InsertsStayBacked DEF InsertBacked, Backed
  <1>4. PDFInv'
    BY PDFInvStays DEF RecordInv
  <1> QED BY <1>1, <1>2, <1>3, <1>4 DEF RecordInv

-----------------------------------------------------------------------------
(* The steps *)

\* Nothing is recorded, completed or about to be recorded at the start.
LEMMA InitRecordInv == Init => RecordInv
  BY DEF Init, IdleRequest, RecordInv, RecordsBacked, CompletedRecorded, InsertBacked,
         PDFInv, PDFStoredOnce, PDFInserts, PDFRecordedOnce

\* Begin, its crash and the provider touch neither documents nor records.
LEMMA BeginKeepsRecordInv ==
  ASSUME HandlerInv, RecordInv, FormsStay,
         NEW a \in Attempts, BeginStep(a) \/ CrashBegin(a) \/ ProviderMoves(a)
  PROVE  RecordInv'
  <1>1. UNCHANGED <<chain, sigs, req>>
    BY DEF BeginStep, CrashBegin, ProviderMoves, BeginChecks,
           ResolveHead, AcquireLock, Prepare, SaveJob, ReleaseOnFailure
  <1>2. \A b \in Attempts : jobs'[b] = "COMPLETED" => jobs[b] = "COMPLETED"
    <2>1. att[a].st # "COMPLETED"
      BY DEF HandlerInv, TypeOK, BeginType, ProviderStates
    <2>2. ASSUME NEW o, SaveJob(a, o)
          PROVE  \A b \in Attempts : jobs'[b] = "COMPLETED" => jobs[b] = "COMPLETED"
      BY <2>1, <2>2 DEF SaveJob, HandlerInv, TypeOK
    <2> QED BY <2>2
            DEF BeginStep, CrashBegin, ProviderMoves, BeginChecks, ResolveHead, AcquireLock,
                Prepare, ReleaseOnFailure
  <1>3. VersionsStay
    BY <1>1 DEF VersionsStay, HandlerInv, TypeOK
  <1> QED BY <1>1, <1>2, <1>3, RecordInvStays

\* A request that arrives does not start at the insertion.
LEMMA ArriveKeepsRecordInv ==
  ASSUME HandlerInv, RecordInv, FormsStay, NEW r \in Requests, Arrive(r)
  PROVE  RecordInv'
  <1>1. UNCHANGED <<chain, sigs, jobs>>
    BY DEF Arrive, Reconcile, SubmitClientSignature, Abandon, GetJob, Validate
  <1>2. \A q \in Requests \ {r} : req'[q] = req[q]
    BY DEF Arrive, Reconcile, SubmitClientSignature, Abandon, GetJob, Validate, HandlerInv, TypeOK
  <1>3. req'[r].pc # "insert"
    <2>0. req \in [Requests -> RequestType]
      BY DEF HandlerInv, TypeOK
    <2>1. ASSUME NEW op, NEW c, NEW a, NEW l, l # "insert", GetJob(r, op, c, a, l)
          PROVE  req'[r].pc # "insert"
      BY <2>0, <2>1 DEF GetJob, IdleRequest, Ended
    <2>2. ASSUME NEW c, NEW k, Validate(r, c, k)
          PROVE  req'[r].pc # "insert"
      BY <2>0, <2>2 DEF Validate, IdleRequest, Ended
    <2>3. ASSUME NEW c \in RequestCallers, NEW a \in Attempts,
                 Reconcile(r, c, a) \/ SubmitClientSignature(r, c, a) \/ Abandon(r, c, a)
          PROVE  req'[r].pc # "insert"
      BY <2>1, <2>3 DEF Reconcile, SubmitClientSignature, Abandon
    <2> QED BY <2>2, <2>3 DEF Arrive
  <1>4. VersionsStay
    BY <1>1 DEF VersionsStay, HandlerInv, TypeOK
  <1> QED BY <1>1, <1>2, <1>3, <1>4, RecordInvStays

\* A request's step other than the three of finalize that matter here.
LEMMA OtherStepsKeepRecordInv ==
  ASSUME HandlerInv, RecordInv, FormsStay, NEW r \in Requests,
         UNCHANGED <<chain, sigs>>,
         End(r) \/ (\E l \in RequestRunning \ {"insert"} : At(r, l)),
         \A a \in Attempts : jobs'[a] = "COMPLETED" => jobs[a] = "COMPLETED"
  PROVE  RecordInv'
  <1>1. /\ req'[r].pc # "insert"
        /\ \A q \in Requests \ {r} : req'[q] = req[q]
    <2>1. CASE End(r)
      BY <2>1, EndMoves DEF HandlerInv
    <2>2. ASSUME NEW l \in RequestRunning \ {"insert"}, At(r, l)
          PROVE  /\ req'[r].pc # "insert"
                 /\ \A q \in Requests \ {r} : req'[q] = req[q]
      <3>1. req[r] \in RequestType
        BY DEF HandlerInv, TypeOK
      <3>2. /\ req'[r] = [req[r] EXCEPT !.pc = l]
            /\ \A q \in Requests \ {r} : req'[q] = req[q]
        BY <2>2, AtMoves DEF HandlerInv
      <3> QED BY <2>2, <3>1, <3>2 DEF RequestType
    <2> QED BY <2>1, <2>2
  <1>2. VersionsStay
    BY DEF VersionsStay, HandlerInv, TypeOK
  <1> QED BY <1>1, <1>2, RecordInvStays

\* A request that has its document stored is the first of its job, if that is a PDF.
LEMMA PDFStoredBy ==
  ASSUME HandlerInv, PDFInv, NEW r \in Requests, req[r].pc = "store",
         UNCHANGED <<sigs, att>>, Len(chain') = Len(chain) + 1,
         isPAdES(req[r].job) => att[req[r].job].base = Latest,
         req' = [req EXCEPT ![r].pc = "insert", ![r].ref = Latest + 1]
  PROVE  PDFInv'
  <1> DEFINE a == req[r].job
  <1>1. /\ \A q \in Requests \ {r} : req'[q] = req[q]
        /\ req'[r].pc = "insert" /\ req'[r].job = a
    BY DEF HandlerInv, TypeOK, RequestType
  <1>2. /\ Len(chain) \in Nat /\ Len(chain') \in Nat
        /\ \A b \in Attempts : att[b].base \in Nat
        /\ \A k \in 1 .. Len(sigs) : sigs[k].job \in Attempts
        /\ \A q \in Requests : req[q].pc \in {"insert", "store"} => req[q].job \in Attempts
    BY RunningJob, RecordsTyped DEF RequestRunning, HandlerInv, TypeOK, BeginType
  <1>3. ASSUME isPAdES(a)
        PROVE  ~Recorded(a) /\ \A q \in Requests : PDFInserts(q) => req[q].job # a
    <2>1. att[a].base = Len(chain) /\ Len(chain) \in Nat
      BY <1>2, <1>3 DEF Latest
    <2> QED BY <1>3, <2>1 DEF PDFInv, PDFStoredOnce, PDFInserts, Recorded, Latest
  <1>4. \A q \in Requests : PDFInserts(q)' =>
            \/ q # r /\ PDFInserts(q) /\ req'[q] = req[q]
            \/ q = r /\ isPAdES(a) /\ req'[q].job = a
    BY <1>1 DEF PDFInserts, isPAdES
  <1> HIDE DEF a
  <1>5. \A q \in Requests : PDFInserts(q)' => att[req'[q].job].base < Len(chain') /\ ~Recorded(req'[q].job)
    <2> SUFFICES ASSUME NEW q \in Requests, PDFInserts(q)'
                 PROVE  att[req'[q].job].base < Len(chain') /\ ~Recorded(req'[q].job)
      OBVIOUS
    <2>1. CASE q # r
      <3>1. /\ PDFInserts(q) /\ req'[q] = req[q] /\ req[q].pc = "insert"
            /\ att[req[q].job].base < Len(chain) /\ ~Recorded(req[q].job)
        BY <1>4, <2>1 DEF PDFInv, PDFStoredOnce, PDFInserts, Latest
      <3> QED BY <1>2, <3>1
    <2>2. CASE q = r
      <3>1. isPAdES(a) /\ req'[q].job = a
        BY <1>4, <2>2
      <3>2. att[a].base = Len(chain)
        BY <3>1 DEF Latest, a
      <3> QED BY <1>2, <1>3, <3>1, <3>2
    <2> QED BY <2>1, <2>2
  <1>6. \A p, q \in Requests : PDFInserts(p)' /\ PDFInserts(q)' /\ req'[p].job = req'[q].job => p = q
    BY <1>3, <1>4 DEF PDFInv, PDFStoredOnce
  <1>7. \A k \in 1 .. Len(sigs) : isPAdES(sigs[k].job) => att[sigs[k].job].base < Len(chain')
    BY <1>2 DEF PDFInv, PDFStoredOnce, Latest
  <1>8. PDFStoredOnce'
    BY <1>5, <1>6, <1>7 DEF PDFStoredOnce, Recorded, isPAdES, Latest
  <1>9. PDFRecordedOnce'
    BY DEF PDFInv, PDFRecordedOnce, isPAdES
  <1> QED BY <1>8, <1>9 DEF PDFInv

\* StoreSignedDocument and Complete: the version the request goes on with is
\* the one just stored, with the job's signature and in the job's form.
LEMMA StoreKeepsRecordInv ==
  ASSUME HandlerInv, RecordInv, FormsStay, NEW r \in Requests, NEW o,
         StoreSignedDocument(r, o) \/ CompleteContainer(r, o)
  PROVE  RecordInv'
  <1> DEFINE a == req[r].job
  <1>0. req[r].pc = "store" /\ UNCHANGED <<jobs, sigs, att>>
    BY DEF StoreSignedDocument, CompleteContainer
  <1>1. req[r] \in RequestType /\ a \in Attempts /\ jobs[a] # "none"
    BY <1>0, RunningJob DEF RequestRunning, HandlerInv, TypeOK
  <1>2. CASE End(r) /\ UNCHANGED chain
    BY <1>0, <1>2, OtherStepsKeepRecordInv
  <1>3. ASSUME NEW d, chain' = Append(chain, d), a \in d.sigs, d.kind = KindOf(att[a].format),
               isPAdES(a) => att[a].base = Latest,
               \/ End(r)
               \/ req' = [req EXCEPT ![r].pc = "insert", ![r].ref = Latest + 1]
        PROVE  RecordInv'
    <2>1. /\ Len(chain) \in Nat \ {0}
          /\ Len(chain') = Len(chain) + 1
          /\ chain'[Len(chain) + 1] = d
          /\ \A k \in 1 .. Len(chain) : chain'[k] = chain[k]
      BY <1>3 DEF HandlerInv, TypeOK
    <2>2. VersionsStay
      BY <2>1 DEF VersionsStay
    <2>3. RecordsBacked'
      BY <1>0, <2>2, RecordsStayBacked DEF RecordsBacked, Backed
    <2>4. CompletedRecorded'
      BY <1>0 DEF RecordInv, CompletedRecorded
    <2>5. InsertBacked'
      <3>1. \A q \in Requests \ {r} : req'[q] = req[q]
        BY <1>3 DEF End, HandlerInv, TypeOK
      <3>2. req'[r].pc = "insert" => req'[r].job = a /\ req'[r].ref = Latest + 1
        BY <1>1, <1>3, EndMoves DEF HandlerInv, TypeOK, RequestType
      <3>3. ASSUME NEW q \in Requests \ {r}, req'[q].pc = "insert", NEW j, NEW n,
                   j = req[q].job, n = req[q].ref
            PROVE  Backed(j, n)'
        BY <2>2, <3>1, <3>3, InsertsStayBacked
      <3>4. ASSUME NEW j, NEW n, j = a, n = Len(chain) + 1
            PROVE  Backed(j, n)'
        BY <1>0, <1>3, <2>1, <3>4 DEF Backed, Latest
      <3> QED BY <3>1, <3>2, <3>3, <3>4 DEF InsertBacked, Backed, Latest
    <2>6. PDFInv'
      <3>1. CASE End(r)
        BY <1>0, <2>2, <3>1, EndMoves, PDFInvStays DEF HandlerInv, RecordInv
      <3>2. CASE req' = [req EXCEPT ![r].pc = "insert", ![r].ref = Latest + 1]
        BY <1>0, <1>3, <2>1, <3>2, PDFStoredBy DEF RecordInv
      <3> QED BY <1>3, <3>1, <3>2
    <2> QED BY <2>3, <2>4, <2>5, <2>6 DEF RecordInv
  <1>4. CASE StoreSignedDocument(r, o)
    <2>1. a \in signedPDF(a).sigs /\ signedPDF(a).kind = KindOf(att[a].format)
      BY <1>4 DEF StoreSignedDocument, signedPDF, isPAdES, KindOf
    <2>2. (End(r) /\ UNCHANGED chain) \/ att[a].base = Latest
      BY <1>4 DEF StoreSignedDocument, parentDoc, readyDoc
    <2> HIDE DEF a
    <2> QED BY <1>2, <1>3, <1>4, <2>1, <2>2 DEF StoreSignedDocument, Stored, a
  <1>5. CASE CompleteContainer(r, o)
    <2>1. /\ a \in mergedContainer(a).sigs /\ mergedContainer(a).kind = KindOf(att[a].format)
          /\ ~isPAdES(a)
      BY <1>5 DEF CompleteContainer, mergedContainer, isPAdES, KindOf
    <2> QED BY <1>2, <1>3, <1>5, <2>1 DEF CompleteContainer, Stored
  <1> QED BY <1>4, <1>5

\* InsertSignature: the new record names the document its request stored.
LEMMA InsertKeepsRecordInv ==
  ASSUME HandlerInv, RecordInv, FormsStay, NEW r \in Requests, NEW o, InsertSignature(r, o)
  PROVE  RecordInv'
  <1>0. req[r].pc = "insert" /\ UNCHANGED <<jobs, chain, att>>
    BY DEF InsertSignature
  <1>1. VersionsStay
    BY <1>0 DEF VersionsStay, HandlerInv, TypeOK
  <1>2. /\ req'[r].pc # "insert"
        /\ \A q \in Requests \ {r} : req'[q] = req[q]
    BY EndMoves DEF InsertSignature, HandlerInv, TypeOK, RequestType
  <1>3. CASE UNCHANGED sigs
    BY <1>0, <1>1, <1>2, <1>3, RecordInvStays
  <1>4. CASE sigs' = Append(sigs, signatureRecord(r))
    <2>1. sigs \in Seq(RecordType) /\ signatureRecord(r) \in RecordType
      BY <1>0, RunningJob DEF HandlerInv, TypeOK, RequestType, RequestRunning, signatureRecord, RecordType
    <2>2. /\ Len(sigs) \in Nat
          /\ Len(sigs') = Len(sigs) + 1
          /\ \A k \in 1 .. Len(sigs) : sigs'[k] = sigs[k]
          /\ sigs'[Len(sigs) + 1].job = req[r].job
          /\ sigs'[Len(sigs) + 1].ref = req[r].ref
      BY <1>4, <2>1, AppendProperties DEF signatureRecord
    <2>3. RecordsBacked'
      <3>1. ASSUME NEW k \in 1 .. Len(sigs), NEW j, NEW n, j = sigs[k].job, n = sigs[k].ref
            PROVE  Backed(j, n)'
        BY <1>1, <3>1, RecordsStayBacked
      <3>2. ASSUME NEW j, NEW n, j = req[r].job, n = req[r].ref
            PROVE  Backed(j, n)'
        BY <1>0, <1>1, <3>2, InsertsStayBacked
      <3>3. ASSUME NEW k \in 1 .. Len(sigs'), NEW j, NEW n, j = sigs'[k].job, n = sigs'[k].ref
            PROVE  Backed(j, n)'
        <4>1. k \in 1 .. Len(sigs) \/ k = Len(sigs) + 1
          BY <2>2
        <4> QED BY <2>2, <3>1, <3>2, <3>3, <4>1
      <3> QED BY <3>3 DEF RecordsBacked, Backed
    <2>4. CompletedRecorded'
      BY <1>0, <2>2 DEF RecordInv, CompletedRecorded
    <2>5. InsertBacked'
      BY <1>1, <1>2, InsertsStayBacked DEF InsertBacked, Backed
    <2>6. PDFInv'
      <3> DEFINE a == req[r].job
      <3>1. \A k \in 1 .. Len(sigs') : k \in 1 .. Len(sigs) \/ (k = Len(sigs) + 1 /\ sigs'[k].job = a)
        BY <2>2
      <3>2. isPAdES(a) => /\ PDFInserts(r) /\ att[a].base < Latest /\ ~Recorded(a)
                          /\ \A q \in Requests \ {r} : PDFInserts(q) => req[q].job # a
        BY <1>0 DEF RecordInv, PDFInv, PDFStoredOnce, PDFInserts
      <3>3. \A q \in Requests : PDFInserts(q)' => q # r /\ PDFInserts(q) /\ req'[q] = req[q]
        BY <1>0, <1>2 DEF PDFInserts, isPAdES
      <3> HIDE DEF a
      <3>4. \A q \in Requests : PDFInserts(q)' =>
                \A k \in 1 .. Len(sigs') : sigs'[k].job # req'[q].job
        <4> SUFFICES ASSUME NEW q \in Requests, PDFInserts(q)'
                     PROVE  \A k \in 1 .. Len(sigs') : sigs'[k].job # req'[q].job
          OBVIOUS
        <4>1. q # r /\ PDFInserts(q) /\ req'[q] = req[q] /\ isPAdES(req[q].job)
          BY <3>3 DEF PDFInserts
        <4>2. ~Recorded(req[q].job) /\ req[q].job # a
          BY <3>2, <4>1 DEF RecordInv, PDFInv, PDFStoredOnce
        <4> QED BY <2>2, <3>1, <4>1, <4>2 DEF Recorded
      <3>5. PDFStoredOnce'
        BY <1>0, <2>2, <3>1, <3>2, <3>3, <3>4
        DEF RecordInv, PDFInv, PDFStoredOnce, Recorded, isPAdES, Latest
      <3>6. PDFRecordedOnce'
        BY <1>0, <2>2, <3>1, <3>2 DEF RecordInv, PDFInv, PDFRecordedOnce, isPAdES, Recorded
      <3> QED BY <3>5, <3>6 DEF PDFInv
    <2> QED BY <2>3, <2>4, <2>5, <2>6 DEF RecordInv
  <1> QED BY <1>3, <1>4 DEF InsertSignature

\* MarkCompleted: the record the request inserted is its job's.
LEMMA CompleteKeepsRecordInv ==
  ASSUME HandlerInv, RecordInv, FormsStay, NEW r \in Requests, NEW o, MarkCompleted(r, o)
  PROVE  RecordInv'
  <1> DEFINE a == req[r].job
  <1>0. req[r].pc = "complete" /\ UNCHANGED <<sigs, chain, att>>
    BY DEF MarkCompleted
  <1>1. VersionsStay
    BY <1>0 DEF VersionsStay, HandlerInv, TypeOK
  <1>2. /\ req'[r].pc # "insert"
        /\ \A q \in Requests \ {r} : req'[q] = req[q]
    <2>1. End(r) \/ At(r, "release") \/ At(r, "notify")
      BY DEF MarkCompleted, afterCompleted
    <2>2. req[r] \in RequestType
      BY DEF HandlerInv, TypeOK
    <2> QED BY <2>1, <2>2, EndMoves, AtMoves DEF HandlerInv, RequestRunning, RequestType
  <1>3. RecordsBacked'
    BY <1>0, <1>1, RecordsStayBacked DEF RecordsBacked, Backed
  <1>4. CompletedRecorded'
    <2>1. \E k \in 1 .. Len(sigs) : sigs[k].job = a
      BY <1>0 DEF HandlerInv, RequestLinks, SignatureKnown
    <2>2. \A b \in Attempts \ {a} : jobs'[b] = jobs[b]
      BY DEF MarkCompleted, HandlerInv, TypeOK
    <2> QED BY <1>0, <2>1, <2>2 DEF RecordInv, CompletedRecorded
  <1>5. InsertBacked'
    BY <1>1, <1>2, InsertsStayBacked DEF InsertBacked, Backed
  <1>6. PDFInv'
    BY <1>0, <1>1, <1>2, PDFInvStays DEF RecordInv
  <1> QED BY <1>3, <1>4, <1>5, <1>6 DEF RecordInv

\* Linking a result changes neither a record's job nor its document.
LEMMA LinkKeepsRecords ==
  ASSUME HandlerInv, NEW r \in Requests, NEW o, RecordValidation(r, o)
  PROVE  /\ Len(sigs') = Len(sigs)
         /\ \A k \in 1 .. Len(sigs) : sigs'[k].job = sigs[k].job /\ sigs'[k].ref = sigs[k].ref
  <1> DEFINE s == req[r].sig
  <1>1. s \in 1 .. Len(sigs) /\ sigs \in Seq(RecordType) /\ sigs[s] \in RecordType
    BY RecordsTyped DEF RecordValidation, HandlerInv, TypeOK, RequestLinks, SignatureKnown
  <1>2. PICK n : sigs' = sigs \/ sigs' = [sigs EXCEPT ![s].report = n]
    BY DEF RecordValidation
  <1> HIDE DEF s
  <1>3. Len(sigs') = Len(sigs) /\ \A k \in 1 .. Len(sigs) \ {s} : sigs'[k] = sigs[k]
    BY <1>1, <1>2
  <1>4. sigs'[s].job = sigs[s].job /\ sigs'[s].ref = sigs[s].ref
    BY <1>1, <1>2 DEF RecordType
  <1> QED BY <1>3, <1>4

\* Every step of a request keeps it.
LEMMA RequestKeepsRecordInv ==
  ASSUME HandlerInv, RecordInv, FormsStay, NEW r \in Requests, RequestStep(r) \/ CrashRequest(r)
  PROVE  RecordInv'
  <1>0. /\ req \in [Requests -> RequestType]
        /\ jobs \in [Attempts -> JobStates \cup {"none"}]
        /\ VersionsStay \/ chain' # chain
    BY DEF HandlerInv, TypeOK, VersionsStay
  <1>1. ASSUME NEW o, KeepAlive(r, o) \/ AbandonRelease(r, o) \/ CrashRequest(r)
        PROVE  RecordInv'
    BY <1>1, OtherStepsKeepRecordInv DEF KeepAlive, AbandonRelease, CrashRequest
  <1>2. ASSUME NEW o, ReleaseChainLock(r, o) \/ notifySlotSigned(r, o)
        PROVE  RecordInv'
    BY <1>2, OtherStepsKeepRecordInv DEF ReleaseChainLock, notifySlotSigned, RequestRunning
  <1>3. ASSUME NEW o, ReconcileJob(r, o) \/ MirrorState(r, o)
        PROVE  RecordInv'
    <2>1. req[r].st # "COMPLETED"
      BY <1>0 DEF RequestType, ProviderStates
    <2>2. \A a \in Attempts : jobs'[a] = "COMPLETED" => jobs[a] = "COMPLETED"
      BY <1>0, <1>3, <2>1 DEF ReconcileJob, MirrorState
    <2> QED BY <1>3, <2>2, OtherStepsKeepRecordInv DEF ReconcileJob, MirrorState, RequestRunning
  <1>4. ASSUME NEW o, PollStatus(r, o) \/ StoreReport(r, o) \/ Submit(r, o) \/ CompleteConflict(r)
        PROVE  RecordInv'
    <2>1. UNCHANGED <<chain, sigs, jobs>>
      BY <1>4 DEF PollStatus, StoreReport, Submit, CompleteConflict
    <2>2. \A q \in Requests \ {r} : req'[q] = req[q]
      BY <1>0, <1>4 DEF PollStatus, StoreReport, Submit, CompleteConflict, End
    <2>3. req'[r].pc # "insert"
      <3>1. CASE End(r)
        BY <3>1, EndMoves DEF HandlerInv
      <3>2. CASE PollStatus(r, o) /\ ~End(r)
        BY <1>0, <3>2 DEF PollStatus, RequestType
      <3>3. CASE StoreReport(r, o) /\ ~End(r)
        BY <1>0, <3>3 DEF StoreReport, RequestType
      <3>4. CASE Submit(r, o) /\ ~End(r)
        <4>1. PICK st : req' = [req EXCEPT ![r].pc = "mirror", ![r].st = st]
          BY <3>4 DEF Submit
        <4> QED BY <1>0, <4>1 DEF RequestType
      <3>5. CASE CompleteConflict(r) /\ ~End(r)
        BY <1>0, <3>5 DEF CompleteConflict, RequestType
      <3> QED BY <1>4, <3>1, <3>2, <3>3, <3>4, <3>5
    <2> QED BY <1>0, <2>1, <2>2, <2>3, RecordInvStays
  <1>5. ASSUME NEW o, RecordValidation(r, o)
        PROVE  RecordInv'
    <2>1. End(r) /\ UNCHANGED <<chain, jobs>>
      BY <1>5 DEF RecordValidation
    <2>2. /\ Len(sigs') = Len(sigs)
          /\ \A k \in 1 .. Len(sigs) : sigs'[k].job = sigs[k].job /\ sigs'[k].ref = sigs[k].ref
      BY <1>5, LinkKeepsRecords
    <2> QED BY <1>0, <2>1, <2>2, EndMoves, RecordInvStays DEF HandlerInv
  <1> QED BY <1>1, <1>2, <1>3, <1>4, <1>5, StoreKeepsRecordInv, InsertKeepsRecordInv,
             CompleteKeepsRecordInv
          DEF RequestStep

\* Every step keeps it.
LEMMA NextRecordInv ==
  ASSUME HandlerInv, RecordInv, [Next]_vars
  PROVE  RecordInv'
  <1>1. FormsStay
    BY FormsSettled
  <1>2. CASE Lapse \/ UNCHANGED vars
    <2>1. UNCHANGED <<chain, sigs, req, jobs>> /\ VersionsStay
      BY <1>2 DEF Lapse, vars, VersionsStay, HandlerInv, TypeOK
    <2> QED BY <1>1, <2>1, RecordInvStays
  <1> QED BY <1>1, <1>2, BeginKeepsRecordInv, ArriveKeepsRecordInv, RequestKeepsRecordInv DEF Next

\* Every step keeps the records sound beside what the handlers rely on.
LEMMA RecordsInductive == Spec => [](HandlerInv /\ RecordInv)
  <1>1. HandlerInv /\ RecordInv /\ [Next]_vars => HandlerInv' /\ RecordInv'
    BY NextHandlerInv, NextRecordInv
  <1>2. Init => HandlerInv /\ RecordInv
    BY InitHandlerInv, InitRecordInv
  <1> QED BY <1>1, <1>2, PTL DEF Spec

\* A signature record refers to a stored version of the document that carries
\* that job's signature in the job's form: for any number of slots, jobs and
\* overlapping requests, with calls that fail, answers that get lost, instances
\* that die and locks that run out.
THEOREM RecordsSound == Spec => []RecordsBacked
  <1>1. RecordInv => RecordsBacked
    BY DEF RecordInv
  <1> QED BY <1>1, RecordsInductive, PTL

\* A signed PDF is recorded at most once under the same failures, with no lock
\* around the polls of its job.
THEOREM PDFOnce == Spec => []PDFRecordedOnce
  <1>1. RecordInv => PDFRecordedOnce
    BY DEF RecordInv, PDFInv
  <1> QED BY <1>1, RecordsInductive, PTL

\* A job is COMPLETED only with its signature on record, under the same failures.
THEOREM CompletedOnRecord == Spec => []CompletedRecorded
  <1>1. RecordInv => CompletedRecorded
    BY DEF RecordInv
  <1> QED BY <1>1, RecordsInductive, PTL

-----------------------------------------------------------------------------
(* The head of the chain *)

\* Only StoreSignedDocument and CompleteContainer add to the chain.
LEMMA ChainStored ==
  ASSUME [Next]_vars, chain' # chain
  PROVE  \E r \in Requests : \E o : StoreSignedDocument(r, o) \/ CompleteContainer(r, o)
  <1>1. ASSUME NEW b \in Attempts, BeginStep(b) \/ CrashBegin(b) \/ ProviderMoves(b)
        PROVE  UNCHANGED chain
    BY <1>1 DEF BeginStep, CrashBegin, ProviderMoves, BeginChecks, ResolveHead, AcquireLock,
                Prepare, SaveJob, ReleaseOnFailure
  <1>2. ASSUME NEW r \in Requests, Arrive(r)
        PROVE  UNCHANGED chain
    BY <1>2 DEF Arrive, Reconcile, SubmitClientSignature, Abandon, GetJob, Validate
  <1>3. ASSUME NEW r \in Requests, RequestStep(r) \/ CrashRequest(r)
        PROVE  \/ UNCHANGED chain
               \/ \E o : StoreSignedDocument(r, o) \/ CompleteContainer(r, o)
    BY <1>3 DEF RequestStep, CrashRequest, PollStatus, notifySlotSigned, Submit, ReconcileJob,
                KeepAlive, InsertSignature, MarkCompleted, ReleaseChainLock, RecordValidation,
                MirrorState, AbandonRelease, StoreReport, CompleteConflict
  <1>4. PICK r \in Requests : RequestStep(r) \/ CrashRequest(r)
    BY <1>1, <1>2 DEF Next, vars, Lapse
  <1> QED BY <1>3, <1>4

\* A signed PDF is stored only against the version it was signed from, and a
\* container is merged into the head, so a new version has the head's signatures.
LEMMA ChainAppends ==
  ASSUME HandlerInv, [Next]_vars, chain' # chain
  PROVE  \E d : chain' = Append(chain, d) /\ chain[Latest].sigs \subseteq d.sigs
  <1>1. PICK r \in Requests : \E o : StoreSignedDocument(r, o) \/ CompleteContainer(r, o)
    BY ChainStored
  <1>o. PICK o : StoreSignedDocument(r, o) \/ CompleteContainer(r, o)
    BY <1>1
  <1> DEFINE a == req[r].job
  <1>2. CASE StoreSignedDocument(r, o)
    <2>1. chain' = Append(chain, signedPDF(a)) /\ readyDoc(a) = Latest
      BY <1>2 DEF StoreSignedDocument, Stored, parentDoc
    <2>2. chain[Latest].sigs \subseteq signedPDF(a).sigs
      BY <2>1 DEF signedPDF
    <2> QED BY <2>1, <2>2
  <1>3. CASE CompleteContainer(r, o)
    <2>1. chain' = Append(chain, mergedContainer(a))
      BY <1>3 DEF CompleteContainer, Stored
    <2>2. chain[Latest].sigs \subseteq mergedContainer(a).sigs
      BY DEF mergedContainer
    <2> QED BY <2>1, <2>2
  <1> QED BY <1>o, <1>2, <1>3

\* The new head carries the signatures of the old one.
LEMMA HeadKeepsSignatures ==
  ASSUME HandlerInv, [Next]_vars, chain' # chain
  PROVE  chain[Latest].sigs \subseteq chain'[Len(chain')].sigs
  <1>1. PICK d : chain' = Append(chain, d) /\ chain[Latest].sigs \subseteq d.sigs
    BY ChainAppends
  <1>2. chain'[Len(chain')] = d
    BY <1>1 DEF HandlerInv, TypeOK
  <1> QED BY <1>1, <1>2

\* No stored document drops a signature of the head it replaces.
THEOREM SignaturesKept == Spec => ChainKeepsSignatures
  <1>1. HandlerInv /\ [Next]_vars =>
          [chain' # chain => chain[Latest].sigs \subseteq chain'[Len(chain')].sigs]_vars
    BY HeadKeepsSignatures
  <1> QED BY InitHandlerInv, NextHandlerInv, <1>1, PTL DEF Spec, ChainKeepsSignatures

-----------------------------------------------------------------------------
(* Every handler makes boundedly many calls *)

\* No merge is repeated more often than maxCoSignRetries.
TriesBounded == \A r \in Requests : req[r].tries <= MaxCoSignRetries

\* Handler q has fewer calls left than handler p, and has not used up its retries.
Fewer(q, p) == callsLeft(q) \in 0 .. callsLeft(p) - 1 /\ q.tries <= MaxCoSignRetries

\* A handler that runs has a call to make.
LEMMA CallsLeft ==
  ASSUME NEW p \in RequestType, p.pc \in RequestRunning, p.tries <= MaxCoSignRetries
  PROVE  callsLeft(p) \in Nat \ {0}
  <1>1. p.tries \in Nat /\ MaxCoSignRetries \in Nat
    BY ConductorAssumption DEF RequestType
  <1>2. CASE p.pc = "store"
    BY <1>1, <1>2 DEF callsLeft
  <1>3. CASE p.pc \in {"status", "reconcile"}
    BY <1>1, <1>3 DEF callsLeft
  <1>4. CASE p.pc \in {"insert", "complete", "release", "notify", "report", "link", "keepalive",
                       "submit", "mirror", "abandon"}
    BY <1>4 DEF callsLeft
  <1> QED BY <1>2, <1>3, <1>4 DEF RequestRunning

\* A handler that ends has none left.
LEMMA EndedFewer ==
  ASSUME NEW p \in RequestType, p.pc \in RequestRunning, p.tries <= MaxCoSignRetries
  PROVE  Fewer(Ended, p)
  <1>1. callsLeft(Ended) = 0 /\ Ended.tries = 0 /\ MaxCoSignRetries \in Nat
    BY ConductorAssumption DEF callsLeft, Ended, IdleRequest
  <1> QED BY <1>1, CallsLeft DEF Fewer

\* The order of a handler's calls, apart from the repeated merges.
LEMMA NextFewer ==
  ASSUME NEW p \in RequestType, NEW q, p.tries <= MaxCoSignRetries, q.tries = p.tries,
         <<p.pc, q.pc>> \in
           {<<"status", "reconcile">>, <<"reconcile", "store">>, <<"reconcile", "keepalive">>,
            <<"store", "insert">>, <<"insert", "complete">>, <<"complete", "release">>,
            <<"complete", "notify">>, <<"release", "notify">>, <<"notify", "report">>,
            <<"report", "link">>, <<"submit", "mirror">>}
  PROVE  Fewer(q, p)
  <1>1. p.tries \in Nat /\ MaxCoSignRetries \in Nat
    BY ConductorAssumption DEF RequestType
  <1>2. CASE p.pc \in {"status", "reconcile"}
    BY <1>1, <1>2 DEF callsLeft, Fewer
  <1>3. CASE p.pc = "store"
    BY <1>1, <1>3 DEF callsLeft, Fewer
  <1>4. CASE p.pc \in {"insert", "complete", "release", "notify", "report", "submit"}
    BY <1>1, <1>4 DEF callsLeft, Fewer
  <1> QED BY <1>2, <1>3, <1>4

\* Every step of a handler leaves it fewer calls, and the others theirs.
LEMMA StepsFewer ==
  ASSUME HandlerInv, TriesBounded, NEW r \in Requests, RequestStep(r) \/ CrashRequest(r)
  PROVE  Fewer(req'[r], req[r]) /\ \A q \in Requests \ {r} : req'[q] = req[q]
  <1>0. /\ req \in [Requests -> RequestType] /\ req[r] \in RequestType
        /\ req[r].tries \in Nat /\ req[r].tries <= MaxCoSignRetries /\ MaxCoSignRetries \in Nat
    BY ConductorAssumption DEF HandlerInv, TypeOK, TriesBounded, RequestType
  <1>1. ASSUME End(r), req[r].pc \in RequestRunning
        PROVE  Fewer(req'[r], req[r]) /\ \A q \in Requests \ {r} : req'[q] = req[q]
    BY <1>0, <1>1, EndedFewer DEF End
  <1>2. ASSUME NEW l, At(r, l)
        PROVE  /\ req'[r].pc = l /\ req'[r].tries = req[r].tries
               /\ \A q \in Requests \ {r} : req'[q] = req[q]
    BY <1>0, <1>2 DEF At, RequestType
  <1>3. ASSUME NEW o, PollStatus(r, o)
        PROVE  Fewer(req'[r], req[r]) /\ \A q \in Requests \ {r} : req'[q] = req[q]
    <2>1. CASE req' = [req EXCEPT ![r].pc = "reconcile", ![r].st = provider[req[r].job]]
      <3>1. /\ req'[r].pc = "reconcile" /\ req'[r].tries = req[r].tries
            /\ \A q \in Requests \ {r} : req'[q] = req[q]
        BY <1>0, <2>1 DEF RequestType
      <3> QED BY <1>0, <1>3, <3>1, NextFewer DEF PollStatus
    <2> QED BY <1>1, <1>3, <2>1 DEF PollStatus, RequestRunning
  <1>4. ASSUME NEW o, StoreSignedDocument(r, o) \/ CompleteContainer(r, o)
        PROVE  Fewer(req'[r], req[r]) /\ \A q \in Requests \ {r} : req'[q] = req[q]
    <2>0. req[r].pc = "store"
      BY <1>4 DEF StoreSignedDocument, CompleteContainer
    <2>1. CASE req' = [req EXCEPT ![r].pc = "insert", ![r].ref = Latest + 1]
      <3>1. /\ req'[r].pc = "insert" /\ req'[r].tries = req[r].tries
            /\ \A q \in Requests \ {r} : req'[q] = req[q]
        BY <1>0, <2>1 DEF RequestType
      <3> QED BY <1>0, <2>0, <3>1, NextFewer
    <2>2. CASE End(r)
      BY <1>1, <2>0, <2>2 DEF RequestRunning
    <2> QED BY <1>4, <2>1, <2>2 DEF StoreSignedDocument, CompleteContainer, Stored
  <1>5. ASSUME CompleteConflict(r)
        PROVE  Fewer(req'[r], req[r]) /\ \A q \in Requests \ {r} : req'[q] = req[q]
    <2>0. req[r].pc = "store"
      BY <1>5 DEF CompleteConflict
    <2>1. CASE req[r].tries < MaxCoSignRetries /\ req' = [req EXCEPT ![r].tries = @ + 1]
      <3>1. /\ req'[r].pc = "store" /\ req'[r].tries = req[r].tries + 1
            /\ \A q \in Requests \ {r} : req'[q] = req[q]
        BY <1>0, <2>0, <2>1 DEF RequestType
      <3> QED BY <1>0, <2>0, <2>1, <3>1 DEF Fewer, callsLeft
    <2> QED BY <1>1, <1>5, <2>0, <2>1 DEF CompleteConflict, RequestRunning
  <1>6. ASSUME NEW o, InsertSignature(r, o)
        PROVE  Fewer(req'[r], req[r]) /\ \A q \in Requests \ {r} : req'[q] = req[q]
    <2>1. CASE req' = [req EXCEPT ![r].pc = "complete", ![r].sig = Len(sigs) + 1]
      <3>1. /\ req'[r].pc = "complete" /\ req'[r].tries = req[r].tries
            /\ \A q \in Requests \ {r} : req'[q] = req[q]
        BY <1>0, <2>1 DEF RequestType
      <3> QED BY <1>0, <1>6, <3>1, NextFewer DEF InsertSignature
    <2> QED BY <1>1, <1>6, <2>1 DEF InsertSignature, RequestRunning
  <1>7. ASSUME NEW o, StoreReport(r, o)
        PROVE  Fewer(req'[r], req[r]) /\ \A q \in Requests \ {r} : req'[q] = req[q]
    <2>1. CASE req' = [req EXCEPT ![r].pc = "link", ![r].rep = Len(reports) + 1]
      <3>1. /\ req'[r].pc = "link" /\ req'[r].tries = req[r].tries
            /\ \A q \in Requests \ {r} : req'[q] = req[q]
        BY <1>0, <2>1 DEF RequestType
      <3> QED BY <1>0, <1>7, <3>1, NextFewer DEF StoreReport
    <2> QED BY <1>1, <1>7, <2>1 DEF StoreReport, RequestRunning
  <1>8. ASSUME NEW o, Submit(r, o)
        PROVE  Fewer(req'[r], req[r]) /\ \A q \in Requests \ {r} : req'[q] = req[q]
    <2>1. ASSUME NEW st, req' = [req EXCEPT ![r].pc = "mirror", ![r].st = st]
          PROVE  Fewer(req'[r], req[r]) /\ \A q \in Requests \ {r} : req'[q] = req[q]
      <3>1. /\ req'[r].pc = "mirror" /\ req'[r].tries = req[r].tries
            /\ \A q \in Requests \ {r} : req'[q] = req[q]
        BY <1>0, <2>1 DEF RequestType
      <3> QED BY <1>0, <1>8, <3>1, NextFewer DEF Submit
    <2> QED BY <1>1, <1>8, <2>1 DEF Submit, RequestRunning
  <1>9. ASSUME NEW o, \/ notifySlotSigned(r, o) \/ ReconcileJob(r, o) \/ MarkCompleted(r, o)
                      \/ ReleaseChainLock(r, o)
        PROVE  Fewer(req'[r], req[r]) /\ \A q \in Requests \ {r} : req'[q] = req[q]
    <2>1. CASE End(r)
      BY <1>1, <1>9, <2>1
      DEF notifySlotSigned, ReconcileJob, MarkCompleted, ReleaseChainLock, RequestRunning
    <2>2. ASSUME NEW l, At(r, l),
                 <<req[r].pc, l>> \in
                   {<<"notify", "report">>, <<"reconcile", "store">>, <<"reconcile", "keepalive">>,
                    <<"complete", "release">>, <<"complete", "notify">>, <<"release", "notify">>}
          PROVE  Fewer(req'[r], req[r]) /\ \A q \in Requests \ {r} : req'[q] = req[q]
      <3>1. <<req[r].pc, req'[r].pc>> \in
              {<<"notify", "report">>, <<"reconcile", "store">>, <<"reconcile", "keepalive">>,
               <<"complete", "release">>, <<"complete", "notify">>, <<"release", "notify">>}
        BY <1>2, <2>2
      <3>2. req'[r].tries = req[r].tries /\ \A q \in Requests \ {r} : req'[q] = req[q]
        BY <1>2, <2>2
      <3> QED BY <1>0, <3>1, <3>2, NextFewer
    <2> QED BY <1>9, <2>1, <2>2
            DEF notifySlotSigned, ReconcileJob, MarkCompleted, ReleaseChainLock, afterCompleted
  <1>10. ASSUME NEW o, \/ KeepAlive(r, o) \/ RecordValidation(r, o) \/ MirrorState(r, o)
                       \/ AbandonRelease(r, o) \/ CrashRequest(r)
         PROVE  Fewer(req'[r], req[r]) /\ \A q \in Requests \ {r} : req'[q] = req[q]
    BY <1>1, <1>10 DEF KeepAlive, RecordValidation, MirrorState, AbandonRelease, CrashRequest,
                       RequestRunning
  <1> QED BY <1>3, <1>4, <1>5, <1>6, <1>7, <1>8, <1>9, <1>10 DEF RequestStep

\* A request that comes in starts without a retry, at its first call or at none.
LEMMA ArriveFresh ==
  ASSUME HandlerInv, NEW r \in Requests, Arrive(r)
  PROVE  /\ req[r].pc = "idle" /\ req'[r].tries = 0
         /\ \A q \in Requests \ {r} : req'[q] = req[q]
  <1>0. req \in [Requests -> RequestType]
    BY DEF HandlerInv, TypeOK
  <1>1. ASSUME NEW new, new.tries = 0, req' = [req EXCEPT ![r] = new]
        PROVE  req'[r].tries = 0 /\ \A q \in Requests \ {r} : req'[q] = req[q]
    BY <1>0, <1>1
  <1>2. Ended.tries = 0
    BY DEF Ended, IdleRequest
  <1>3. ASSUME NEW op, NEW c, NEW a, NEW label, GetJob(r, op, c, a, label)
        PROVE  /\ req[r].pc = "idle" /\ req'[r].tries = 0
               /\ \A q \in Requests \ {r} : req'[q] = req[q]
    <2>1. [IdleRequest EXCEPT !.pc = label, !.op = op, !.caller = c, !.job = a].tries = 0
      BY DEF IdleRequest
    <2>2. \E new : new.tries = 0 /\ req' = [req EXCEPT ![r] = new]
      BY <1>2, <1>3, <2>1 DEF GetJob
    <2> QED BY <1>1, <1>3, <2>2 DEF GetJob
  <1>4. ASSUME NEW c, NEW k, Validate(r, c, k)
        PROVE  /\ req[r].pc = "idle" /\ req'[r].tries = 0
               /\ \A q \in Requests \ {r} : req'[q] = req[q]
    <2>1. [IdleRequest EXCEPT !.pc = "report", !.op = "validate", !.caller = c,
                              !.job = sigs[k].job, !.sig = k].tries = 0
      BY DEF IdleRequest
    <2>2. \E new : new.tries = 0 /\ req' = [req EXCEPT ![r] = new]
      BY <1>2, <1>4, <2>1 DEF Validate
    <2> QED BY <1>1, <1>4, <2>2 DEF Validate
  <1> QED BY <1>3, <1>4 DEF Arrive, Reconcile, SubmitClientSignature, Abandon

\* Begin's steps leave it fewer calls as well, and the others theirs.
LEMMA BeginFewer ==
  ASSUME HandlerInv, NEW b \in Attempts, BeginStep(b) \/ CrashBegin(b)
  PROVE  /\ att[b].pc \in BeginRunning =>
              beginCallsLeft(att'[b]) \in 0 .. beginCallsLeft(att[b]) - 1
         /\ \A a \in Attempts \ {b} : att'[a] = att[a]
         /\ UNCHANGED req
  <1>1. UNCHANGED req
    BY DEF BeginStep, CrashBegin, BeginChecks, ResolveHead, AcquireLock, Prepare, SaveJob,
           ReleaseOnFailure
  <1>2. att[b].pc \in BeginRunning => beginCallsLeft(att'[b]) \in 0 .. beginCallsLeft(att[b]) - 1
    BY BeginOrder DEF HandlerInv, beginCallsLeft, BeginRunning, BeginEnded
  <1> QED BY <1>1, <1>2, BeginOrder DEF HandlerInv

\* No retry is left uncounted, and no step gives a handler a call back.
LEMMA NextFewerCalls ==
  ASSUME HandlerInv, TriesBounded, [Next]_vars
  PROVE  /\ TriesBounded'
         /\ \A r \in Requests : req[r].pc \in RequestRunning /\ req'[r] # req[r] =>
               callsLeft(req'[r]) \in 0 .. callsLeft(req[r]) - 1
         /\ \A a \in Attempts : att[a].pc \in BeginRunning /\ att'[a] # att[a] =>
               beginCallsLeft(att'[a]) \in 0 .. beginCallsLeft(att[a]) - 1
  <1>0. MaxCoSignRetries \in Nat
    BY ConductorAssumption
  <1>1. ASSUME NEW r \in Requests, Arrive(r) \/ RequestStep(r) \/ CrashRequest(r)
        PROVE  UNCHANGED att
    BY <1>1
    DEF Arrive, RequestStep, CrashRequest, Reconcile, SubmitClientSignature, Abandon, GetJob,
        Validate, PollStatus, StoreSignedDocument, CompleteContainer, notifySlotSigned, Submit,
        ReconcileJob, KeepAlive, InsertSignature, MarkCompleted, ReleaseChainLock,
        RecordValidation, MirrorState, AbandonRelease, StoreReport, CompleteConflict
  <1>2. CASE UNCHANGED <<att, req>>
    BY <1>2 DEF TriesBounded
  <1>3. ASSUME NEW r \in Requests, Arrive(r)
        PROVE  /\ TriesBounded'
               /\ \A q \in Requests : req[q].pc \in RequestRunning => req'[q] = req[q]
    BY <1>0, <1>3, ArriveFresh DEF TriesBounded, RequestRunning
  <1>4. ASSUME NEW r \in Requests, RequestStep(r) \/ CrashRequest(r)
        PROVE  /\ TriesBounded'
               /\ \A q \in Requests : req'[q] # req[q] => Fewer(req'[q], req[q])
    BY <1>4, StepsFewer DEF TriesBounded, Fewer
  <1>5. ASSUME NEW a \in Attempts, BeginStep(a) \/ CrashBegin(a)
        PROVE  /\ UNCHANGED req
               /\ \A b \in Attempts : att[b].pc \in BeginRunning /\ att'[b] # att[b] =>
                     beginCallsLeft(att'[b]) \in 0 .. beginCallsLeft(att[b]) - 1
    BY <1>5, BeginFewer
  <1>6. CASE \E a \in Attempts : BeginStep(a) \/ CrashBegin(a)
    BY <1>5, <1>6 DEF TriesBounded
  <1>7. CASE \E r \in Requests : Arrive(r)
    BY <1>1, <1>3, <1>7
  <1>8. CASE \E r \in Requests : RequestStep(r) \/ CrashRequest(r)
    BY <1>1, <1>4, <1>8 DEF Fewer
  <1> QED BY <1>2, <1>6, <1>7, <1>8 DEF Next, Lapse, ProviderMoves, vars

\* Every handler makes boundedly many calls, for any number of retries and of
\* handlers in between: the measure by which it ends once its calls are answered.
THEOREM HandlersProgress == Spec => CallsBounded
  <1>1. HandlerInv /\ TriesBounded /\ [Next]_vars =>
          /\ TriesBounded'
          /\ [/\ \A r \in Requests : req[r].pc \in RequestRunning /\ req'[r] # req[r] =>
                    callsLeft(req'[r]) \in 0 .. callsLeft(req[r]) - 1
              /\ \A a \in Attempts : att[a].pc \in BeginRunning /\ att'[a] # att[a] =>
                    beginCallsLeft(att'[a]) \in 0 .. beginCallsLeft(att[a]) - 1]_vars
    BY NextFewerCalls
  <1>2. Init => TriesBounded
    BY ConductorAssumption DEF Init, IdleRequest, TriesBounded
  <1> QED BY InitHandlerInv, NextHandlerInv, <1>1, <1>2, PTL DEF Spec, CallsBounded
=============================================================================
