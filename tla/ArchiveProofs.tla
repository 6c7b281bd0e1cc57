--------------------------- MODULE ArchiveProofs ---------------------------
(***************************************************************************)
(* Proof that archive timestamps do not disturb the signers: the system    *)
(* with any number of archive requests implements the conductor without    *)
(* them, so every theorem about Conductor holds of it as well.  Then what  *)
(* the signers do to the timestamps.                                       *)
(***************************************************************************)
EXTENDS Archive, ConductorProofs

\* A request that is about to store has read the signed version it stores
\* against, and that version is still what it read, also when it was answered.
FileCurrent ==
    /\ ar \in [Archivers -> ArchiverType]
    /\ \A x \in Archivers :
          ar[x].pc \in {"store", "done"} => /\ ar[x].doc \in 1 .. Latest
                                           /\ ar[x].file = chain[ar[x].doc]
                                           /\ ar[x].file.kind # "source"

ArchiveInv == HandlerInv /\ FileCurrent

-----------------------------------------------------------------------------

\* The conductor's own steps append to the chain and change no version of it.
LEMMA SignersKeepFile ==
  ASSUME HandlerInv, FileCurrent, [Next]_vars, UNCHANGED ar
  PROVE  FileCurrent'
<1>1. chain \in Seq(VersionType) /\ Len(chain) \in Nat
  BY DEF HandlerInv, TypeOK
<1>2. CASE chain' = chain
  BY <1>2 DEF FileCurrent, Latest
<1>3. CASE chain' # chain
  <2>1. PICK d : chain' = Append(chain, d)
    BY <1>3, ChainAppends
  <2>2. Len(chain') = Len(chain) + 1 /\ \A v \in 1 .. Len(chain) : chain'[v] = chain[v]
    BY <1>1, <2>1
  <2> QED
    BY <1>1, <2>2 DEF FileCurrent, Latest
<1> QED
  BY <1>2, <1>3

\* A request that reads a version holds that version.
LEMMA ReadsCurrent ==
  ASSUME HandlerInv, FileCurrent, NEW x \in Archivers, NEW v \in 1 .. Latest, NEW o,
         ArchiveDocument(x, v, o)
  PROVE  UNCHANGED vars /\ FileCurrent'
<1>1. UNCHANGED vars /\ UNCHANGED chain
  BY DEF ArchiveDocument, vars
<1>2. chain[v] \in VersionType /\ Latest \in Nat
  BY DEF HandlerInv, TypeOK, Latest
<1>3. /\ ar' \in [Archivers -> ArchiverType]
      /\ ar'[x].doc = v /\ ar'[x].file = chain[v]
      /\ ar'[x].pc \in {"store", "done"} => archivable(v)
      /\ \A y \in Archivers \ {x} : ar'[y] = ar[y]
  <2> DEFINE l == IF ~archivable(v) THEN "refused" ELSE IF o = "ok" THEN "store" ELSE "failed"
  <2>1. l \in {"refused", "store", "failed"} /\ (l \in {"store", "done"} => archivable(v))
    OBVIOUS
  <2>2. ar' = [ar EXCEPT ![x] = [pc |-> l, doc |-> v, file |-> chain[v]]]
    BY DEF ArchiveDocument
  <2> HIDE DEF l
  <2>3. [pc |-> l, doc |-> v, file |-> chain[v]] \in ArchiverType
    BY <1>2, <2>1 DEF ArchiverType
  <2> QED
    BY <2>1, <2>2, <2>3 DEF FileCurrent
<1>4. ASSUME NEW y \in Archivers, ar'[y].pc \in {"store", "done"}
      PROVE  /\ ar'[y].doc \in 1 .. Latest
             /\ ar'[y].file = chain[ar'[y].doc]
             /\ ar'[y].file.kind # "source"
  <2>1. CASE y = x
    BY <1>3, <1>4, <2>1 DEF archivable
  <2>2. CASE y # x
    BY <1>3, <1>4, <2>2 DEF FileCurrent
  <2> QED
    BY <2>1, <2>2
<1> QED
  BY <1>1, <1>3, <1>4 DEF FileCurrent, Latest

\* Storing writes a version's own bytes back: the store takes them only while
\* that version is the head.
LEMMA StoresInPlace ==
  ASSUME HandlerInv, FileCurrent, NEW x \in Archivers, NEW o, StoreArchived(x, o)
  PROVE  UNCHANGED vars /\ FileCurrent'
<1>1. ar[x].doc \in 1 .. Latest /\ ar[x].file = chain[ar[x].doc]
  BY DEF FileCurrent, StoreArchived
<1>2. chain \in Seq(VersionType)
  BY DEF HandlerInv, TypeOK
<1>3. [chain EXCEPT ![ar[x].doc] = ar[x].file] = chain
  BY <1>1, <1>2
<1>4. chain' = chain
  BY <1>3 DEF StoreArchived, archiveTarget
<1>5. UNCHANGED vars
  BY <1>4 DEF StoreArchived, vars
<1>6. PICK l \in {"done", "failed"} : ar' = [ar EXCEPT ![x].pc = l]
  BY DEF StoreArchived
<1>7. /\ ar' \in [Archivers -> ArchiverType]
      /\ ar'[x].pc = l /\ ar'[x].doc = ar[x].doc /\ ar'[x].file = ar[x].file
      /\ \A y \in Archivers \ {x} : ar'[y] = ar[y]
  BY <1>6 DEF FileCurrent, ArchiverType
<1>8. ar[x].file.kind # "source"
  BY DEF FileCurrent, StoreArchived
<1> QED
  BY <1>1, <1>4, <1>5, <1>7, <1>8 DEF FileCurrent, Latest

\* Every step is a step of the conductor or none, and keeps the invariant.
LEMMA ArchiveStep ==
  ASSUME ArchiveInv, [ArchiveNext]_avars
  PROVE  [Next]_vars /\ ArchiveInv'
<1>1. CASE SignerStep
  BY <1>1, NextHandlerInv, SignersKeepFile DEF SignerStep, ArchiveInv
<1>2. CASE UNCHANGED avars
  <2>1. UNCHANGED vars /\ UNCHANGED ar
    BY <1>2 DEF avars
  <2> QED
    BY <2>1, NextHandlerInv, SignersKeepFile DEF ArchiveInv
<1>3. ASSUME NEW x \in Archivers, ArchiverStep(x)
      PROVE  [Next]_vars /\ ArchiveInv'
  <2>1. UNCHANGED vars /\ FileCurrent'
    BY <1>3, ReadsCurrent, StoresInPlace DEF ArchiverStep, ArchiveInv
  <2> QED
    BY <2>1, NextHandlerInv DEF ArchiveInv
<1> QED
  BY <1>1, <1>2, <1>3 DEF ArchiveNext

\* No archive request has come in.
LEMMA ArchiveStart == ArchiveInit => Init /\ ArchiveInv
<1> SUFFICES ASSUME ArchiveInit PROVE Init /\ ArchiveInv
  OBVIOUS
<1>1. Init /\ HandlerInv
  BY InitHandlerInv DEF ArchiveInit
<1>2. Len(chain) = 1 /\ chain[1] \in VersionType
  BY <1>1 DEF Init, HandlerInv, TypeOK
<1>3. ar \in [Archivers -> ArchiverType]
  BY <1>2 DEF ArchiveInit, ArchiverType
<1>4. FileCurrent
  BY <1>3 DEF ArchiveInit, FileCurrent
<1> QED
  BY <1>1, <1>4 DEF ArchiveInv

\* To the signers archive requests are invisible, for any number of either and
\* any failures.
THEOREM ArchiveRefinesConductor == ArchiveSpec => ArchiveInvisible
BY ArchiveStart, ArchiveStep, PTL DEF ArchiveSpec, ArchiveInvisible, Spec

\* So what is proved of the conductor holds beside archive requests: records
\* stay backed by documents that carry their signatures.
THEOREM ArchiveKeepsRecords == ArchiveSpec => [](RecordsBacked /\ CompletedRecorded)
BY ArchiveRefinesConductor, RecordsSound, CompletedOnRecord, PTL DEF ArchiveInvisible

-----------------------------------------------------------------------------
(* What a signer gave the provider does not change *)

\* Once the provider works on an attempt, the version it was given is settled.
BaseFixed ==
    \A a \in Attempts :
        provider[a] # "none" => /\ att[a].pc \notin {"idle", "head", "lock", "prepare"}
                                /\ att[a].base \in 1 .. Latest

\* A step leaves such attempts as they are, and the provider takes on a further
\* one only as the version it read is still there to be stamped.
BasesStay ==
    \A a \in Attempts :
        /\ provider[a] # "none" =>
              provider'[a] # "none" /\ att'[a].base = att[a].base /\ att'[a].format = att[a].format
        /\ provider[a] = "none" /\ provider'[a] # "none" =>
              att[a].base \in 1 .. Latest /\ UNCHANGED <<att[a].base, att[a].format, chain>>

\* A step of Begin goes to the provider once, and settles the version before.
LEMMA BeginKeepsBases ==
  ASSUME HandlerInv, BaseFixed, NEW b \in Attempts, BeginStep(b) \/ CrashBegin(b)
  PROVE  BaseFixed' /\ BasesStay
<1>1. /\ att \in [Attempts -> BeginType] /\ provider \in [Attempts -> ProviderStates \cup {"none"}]
      /\ att[b] \in BeginType /\ Latest \in Nat
  BY DEF HandlerInv, TypeOK, Latest
<1>2. UNCHANGED chain
  BY DEF BeginStep, CrashBegin, BeginChecks, ResolveHead, AcquireLock, Prepare, SaveJob,
         ReleaseOnFailure
<1>3. \A a \in Attempts \ {b} : att'[a] = att[a] /\ provider'[a] = provider[a]
  <2>1. \A a \in Attempts \ {b} : provider'[a] = provider[a]
    BY <1>1 DEF BeginStep, CrashBegin, BeginChecks, ResolveHead, AcquireLock, Prepare, SaveJob,
                ReleaseOnFailure
  <2> QED
    BY <2>1, BeginOrder DEF HandlerInv
<1>5. CASE provider[b] = "none"
  <2>1. CASE provider'[b] = "none"
    BY <1>2, <1>3, <1>5, <2>1 DEF BaseFixed, BasesStay, Latest
  <2>2. CASE provider'[b] # "none"
    <3>1. PICK o : Prepare(b, o)
      BY <1>5, <2>2 DEF BeginStep, CrashBegin, BeginChecks, ResolveHead, AcquireLock, SaveJob,
                        ReleaseOnFailure
    <3>2. att[b].pc = "prepare" /\ att[b].base \in 1 .. Latest
      BY <3>1 DEF Prepare, HandlerInv, BeginLinks, BaseKnown
    <3>3. att'[b].pc \in {"save", "unlock", "failed"} /\ att'[b].base = att[b].base
          /\ att'[b].format = att[b].format
      BY <3>2, BeginOrder DEF HandlerInv
    <3> QED
      BY <1>2, <1>3, <1>5, <3>2, <3>3 DEF BaseFixed, BasesStay, Latest
  <2> QED
    BY <2>1, <2>2
<1>6. CASE provider[b] # "none"
  <2>1. att[b].pc \notin {"idle", "head", "lock", "prepare"} /\ att[b].base \in 1 .. Latest
    BY <1>6 DEF BaseFixed
  <2>2. provider' = provider
    BY <2>1 DEF BeginStep, CrashBegin, BeginChecks, ResolveHead, AcquireLock, Prepare, SaveJob,
                ReleaseOnFailure
  <2>3. /\ att'[b].pc \in {"bound", "unlock", "failed"}
        /\ att'[b].base = att[b].base /\ att'[b].format = att[b].format
    BY <2>1, BeginOrder DEF HandlerInv
  <2> QED
    BY <1>2, <1>3, <1>6, <2>1, <2>2, <2>3 DEF BaseFixed, BasesStay, Latest
<1> QED
  BY <1>5, <1>6

\* The other steps of the conductor leave the versions that were given alone.
LEMMA NextKeepsBases ==
  ASSUME HandlerInv, BaseFixed, [Next]_vars
  PROVE  BaseFixed' /\ BasesStay
<1>1. Len(chain) \in Nat /\ Len(chain') \in Nat /\ Len(chain') >= Len(chain)
  <2>1. CASE chain' = chain
    BY <2>1 DEF HandlerInv, TypeOK
  <2>2. CASE chain' # chain
    BY <2>2, ChainAppends DEF HandlerInv, TypeOK
  <2> QED
    BY <2>1, <2>2
<1>2. ASSUME UNCHANGED att,
             \A a \in Attempts : provider[a] = "none" <=> provider'[a] = "none"
      PROVE  BaseFixed' /\ BasesStay
  BY <1>1, <1>2 DEF BaseFixed, BasesStay, Latest
<1>3. ASSUME NEW a \in Attempts, ProviderMoves(a)
      PROVE  BaseFixed' /\ BasesStay
  BY <1>2, <1>3 DEF ProviderMoves, HandlerInv, TypeOK
<1>4. ASSUME NEW r \in Requests, NEW o, Submit(r, o)
      PROVE  BaseFixed' /\ BasesStay
  <2>1. provider[req[r].job] # "none"
    BY <1>4, RunningJob DEF Submit, RequestRunning, HandlerInv, BeginLinks, ProviderKnows
  <2>2. UNCHANGED provider
        \/ \E st \in ProviderStates : provider' = [provider EXCEPT ![req[r].job] = st]
    BY <1>4 DEF Submit
  <2> QED
    BY <1>2, <1>4, <2>1, <2>2 DEF Submit, HandlerInv, TypeOK, ProviderStates
<1>5. ASSUME NEW r \in Requests, Arrive(r) \/ RequestStep(r) \/ CrashRequest(r),
             ~(\E o : Submit(r, o))
      PROVE  UNCHANGED <<att, provider>>
  BY <1>5
  DEF Arrive, RequestStep, CrashRequest, Reconcile, SubmitClientSignature, Abandon, GetJob,
      Validate, PollStatus, StoreSignedDocument, CompleteContainer, notifySlotSigned,
      ReconcileJob, KeepAlive, InsertSignature, MarkCompleted, ReleaseChainLock,
      RecordValidation, MirrorState, AbandonRelease, StoreReport, CompleteConflict
<1> QED
  BY <1>2, <1>3, <1>4, <1>5, BeginKeepsBases DEF Next, Lapse, vars

\* What a step that stores a document does: the handler that stores is the only
\* one that moves, its document is the head with one more signature, and a PDF
\* was signed from that head.
Signs(r, d) ==
    /\ chain' = Append(chain, d)
    /\ req'[r] # req[r] /\ \A q \in Requests \ {r} : req'[q] = req[q]
    /\ req[r].job \in Attempts
    /\ d.sigs = chain[Latest].sigs \cup {req[r].job} /\ d \in VersionType
    /\ isPAdES(req[r].job) => att[req[r].job].base = Latest
    /\ provider[req[r].job] # "none"
    /\ UNCHANGED <<att, provider>>

\* StoreSignedDocument and CompleteContainer are the only steps that store.
LEMMA ChainSigned ==
  ASSUME HandlerInv, [Next]_vars, chain' # chain
  PROVE  \E r \in Requests : \E d : Signs(r, d)
<1>0. PICK r \in Requests : \E o : StoreSignedDocument(r, o) \/ CompleteContainer(r, o)
  BY ChainStored
<1>1. PICK o : StoreSignedDocument(r, o) \/ CompleteContainer(r, o)
  BY <1>0
<1>2. req[r].pc = "store" /\ UNCHANGED <<att, provider>> /\ TypeOK
  BY <1>1 DEF StoreSignedDocument, CompleteContainer, HandlerInv
<1>3. req[r].job \in Attempts /\ provider[req[r].job] # "none"
  BY <1>2, RunningJob DEF RequestRunning, HandlerInv, BeginLinks, ProviderKnows
<1>4. ASSUME NEW d, Stored(r, o, d)
      PROVE  req'[r] # req[r] /\ \A q \in Requests \ {r} : req'[q] = req[q]
  <2>1. CASE End(r)
    BY <1>2, <2>1, EndMoves
  <2>2. CASE req' = [req EXCEPT ![r].pc = "insert", ![r].ref = Latest + 1]
    <3>1. req'[r].pc = "insert"
      BY <1>2, <2>2 DEF TypeOK, RequestType
    <3> QED
      BY <1>2, <2>2, <3>1 DEF TypeOK
  <2> QED
    BY <1>4, <2>1, <2>2 DEF Stored
<1>5. chain[Latest].sigs \subseteq Attempts
  <2>1. chain[Latest] \in VersionType
    BY <1>2 DEF TypeOK, Latest
  <2> QED
    BY <2>1 DEF VersionType
<1>6. CASE StoreSignedDocument(r, o)
  <2>1. Stored(r, o, signedPDF(req[r].job)) /\ readyDoc(req[r].job) = Latest /\ isPAdES(req[r].job)
    BY <1>6 DEF StoreSignedDocument, parentDoc
  <2>2. /\ signedPDF(req[r].job).sigs = chain[Latest].sigs \cup {req[r].job}
        /\ signedPDF(req[r].job) \in VersionType
    BY <1>3, <1>5, <2>1 DEF signedPDF, VersionType, Kinds
  <2> QED
    BY <1>2, <1>3, <1>4, <2>1, <2>2 DEF Signs, Stored, readyDoc
<1>7. CASE CompleteContainer(r, o)
  <2>1. Stored(r, o, mergedContainer(req[r].job)) /\ ~isPAdES(req[r].job)
    BY <1>7 DEF CompleteContainer
  <2>2. /\ mergedContainer(req[r].job).sigs = chain[Latest].sigs \cup {req[r].job}
        /\ mergedContainer(req[r].job) \in VersionType
    BY <1>3, <1>5 DEF mergedContainer, VersionType, Kinds
  <2> QED
    BY <1>2, <1>3, <1>4, <2>1, <2>2 DEF Signs, Stored
<1> QED
  BY <1>1, <1>6, <1>7

-----------------------------------------------------------------------------
(* The versions and their signers *)

\* The provider works for every signer of a version.
SignersKnown == \A v \in 1 .. Latest : \A a \in chain[v].sigs : provider[a] # "none"

\* Later versions carry the signatures of the earlier ones.
SignaturesAdd == \A v \in 1 .. Latest : \A u \in 1 .. v : chain[u].sigs \subseteq chain[v].sigs

ChainInv == BaseFixed /\ SignersKnown /\ SignaturesAdd

\* The conductor's steps change no version.
LEMMA NextVersionsStay ==
  ASSUME HandlerInv, [Next]_vars
  PROVE  VersionsStay /\ Len(chain) \in Nat \ {0} /\ Len(chain') \in Nat
<1>1. chain \in Seq(VersionType) /\ Len(chain) \in Nat \ {0}
  BY DEF HandlerInv, TypeOK
<1>2. CASE chain' = chain
  BY <1>1, <1>2 DEF VersionsStay
<1>3. CASE chain' # chain
  <2>1. PICK d : chain' = Append(chain, d)
    BY <1>3, ChainAppends
  <2> QED
    BY <1>1, <2>1 DEF VersionsStay
<1> QED
  BY <1>1, <1>2, <1>3

\* What a signature adds to the chain.
LEMMA SignedVersion ==
  ASSUME HandlerInv, NEW r \in Requests, NEW d, Signs(r, d)
  PROVE  /\ Latest \in Nat \ {0} /\ Latest' = Latest + 1
         /\ \A v \in 1 .. Latest : chain'[v] = chain[v]
         /\ chain'[Latest + 1] = d
         /\ \A v \in 1 .. Latest' : v \in 1 .. Latest \/ v = Latest + 1
<1>1. chain \in Seq(VersionType) /\ Len(chain) \in Nat \ {0} /\ chain' = Append(chain, d)
  BY DEF HandlerInv, TypeOK, Signs
<1> QED
  BY <1>1 DEF Latest

\* Every step of the conductor keeps what is known of the signers.
LEMMA NextChainInv ==
  ASSUME HandlerInv, ChainInv, [Next]_vars
  PROVE  ChainInv'
<1>1. BaseFixed' /\ BasesStay
  BY NextKeepsBases DEF ChainInv
<1>2. CASE chain' = chain
  <2>1. \A v \in 1 .. Latest : \A a \in chain[v].sigs : a \in Attempts
    BY VersionsTyped DEF HandlerInv, Latest
  <2> QED
    BY <1>1, <1>2, <2>1 DEF ChainInv, SignersKnown, SignaturesAdd, BasesStay, Latest
<1>3. CASE chain' # chain
  <2>1. PICK r \in Requests : \E d : Signs(r, d)
    BY <1>3, ChainSigned
  <2>d. PICK d : Signs(r, d)
    BY <2>1
  <2>2. /\ Latest \in Nat \ {0} /\ Latest' = Latest + 1
        /\ \A v \in 1 .. Latest : chain'[v] = chain[v]
        /\ chain'[Latest + 1] = d
        /\ \A v \in 1 .. Latest' : v \in 1 .. Latest \/ v = Latest + 1
    BY <2>d, SignedVersion
  <2>3. d.sigs = chain[Latest].sigs \cup {req[r].job} /\ provider[req[r].job] # "none"
        /\ provider' = provider
    BY <2>d DEF Signs
  <2>4. SignersKnown'
    BY <2>2, <2>3 DEF ChainInv, SignersKnown
  <2>5. ASSUME NEW v \in 1 .. Latest', NEW u \in 1 .. v
        PROVE  chain'[u].sigs \subseteq chain'[v].sigs
    <3>1. CASE v \in 1 .. Latest
      BY <2>2, <3>1 DEF ChainInv, SignaturesAdd
    <3>2. CASE v = Latest + 1 /\ u = v
      BY <3>2
    <3>3. CASE v = Latest + 1 /\ u \in 1 .. Latest
      <4>1. chain[u].sigs \subseteq chain[Latest].sigs
        BY <2>2, <3>3 DEF ChainInv, SignaturesAdd
      <4> QED
        BY <2>2, <2>3, <3>3, <4>1
    <3> QED
      BY <2>2, <2>5, <3>1, <3>2, <3>3
  <2>6. SignaturesAdd'
    BY <2>5 DEF SignaturesAdd
  <2> QED
    BY <1>1, <2>4, <2>6 DEF ChainInv
<1> QED
  BY <1>2, <1>3

-----------------------------------------------------------------------------
(* The stamps *)

\* Only signatures of a version are stamped in it, and what a signer was given
\* carries stamps of its signatures.
StampsFit ==
    /\ stamped \in Seq(SUBSET Attempts) /\ Len(stamped) = Latest
    /\ seen \in [Attempts -> SUBSET Attempts]
    /\ \A v \in 1 .. Latest : stamped[v] \subseteq chain[v].sigs
    /\ \A a \in Attempts : provider[a] # "none" => seen[a] \subseteq chain[att[a].base].sigs

\* The stamps in the bytes of an attempt are those of the version it read, at
\* the moment the provider took it on.
SeenMoves ==
    /\ seen' \in [Attempts -> SUBSET Attempts]
    /\ \A a \in Attempts :
          /\ provider[a] # "none" \/ provider'[a] = "none" => seen'[a] = seen[a]
          /\ provider[a] = "none" /\ provider'[a] # "none" => seen'[a] = stamped[att[a].base]

\* A signature adds a version with the stamps it carries over, and no other step
\* of a signer touches a version's stamps.
StampsMove ==
    \/ UNCHANGED <<chain, stamped>>
    \/ \E r \in Requests : \E d : Signs(r, d) /\ stamped' = Append(stamped, carried(req[r].job))

\* What a signer's step does to the stamps.
LEMMA SignerMoves ==
  ASSUME HandlerInv, ChainInv, StampsFit, SignerStep
  PROVE  BasesStay /\ SeenMoves /\ StampsMove
<1>1. BasesStay
  BY NextKeepsBases DEF ChainInv, SignerStep
<1>2. SeenMoves
  <2>1. seen' = [a \in Attempts |-> IF provider[a] = "none" /\ provider'[a] # "none"
                                    THEN stamped[att[a].base]
                                    ELSE seen[a]]
    BY DEF SignerStep
  <2>2. \A a \in Attempts : provider[a] = "none" /\ provider'[a] # "none" =>
           stamped[att[a].base] \in SUBSET Attempts
    BY <1>1 DEF BasesStay, StampsFit
  <2> QED
    BY <2>1, <2>2 DEF SeenMoves, StampsFit
<1>3. CASE chain' = chain
  BY <1>1, <1>2, <1>3 DEF StampsMove, SignerStep
<1>4. CASE chain' # chain
  <2>1. PICK r \in Requests : \E d : Signs(r, d)
    BY <1>4, ChainSigned DEF SignerStep
  <2>d. PICK d : Signs(r, d)
    BY <2>1
  <2>2. \A q \in Requests : req'[q] # req[q] <=> q = r
    BY <2>d DEF Signs
  <2>3. (CHOOSE q \in Requests : req'[q] # req[q]) = r
    BY <2>2
  <2>4. stamped' = Append(stamped, carried(req[r].job))
    BY <1>4, <2>3 DEF SignerStep
  <2> QED
    BY <1>1, <1>2, <2>d, <2>4 DEF StampsMove
<1> QED
  BY <1>3, <1>4

\* What a signature does to the chain and its stamps.
LEMMA StampedVersion ==
  ASSUME HandlerInv, StampsFit, NEW r \in Requests, NEW d, Signs(r, d), SeenMoves,
         stamped' = Append(stamped, carried(req[r].job))
  PROVE  /\ carried(req[r].job) \subseteq Attempts
         /\ stamped' \in Seq(SUBSET Attempts) /\ Len(stamped') = Latest'
         /\ \A v \in 1 .. Latest : stamped'[v] = stamped[v]
         /\ stamped'[Latest + 1] = carried(req[r].job)
         /\ seen' = seen
<1>1. Latest \in Nat \ {0} /\ Latest' = Latest + 1
  BY SignedVersion
<1>2. req[r].job \in Attempts /\ provider' = provider
  BY DEF Signs
<1>3. carried(req[r].job) \subseteq Attempts
  BY <1>1, <1>2 DEF carried, StampsFit
<1>4. /\ stamped' \in Seq(SUBSET Attempts) /\ Len(stamped') = Latest + 1
      /\ \A v \in 1 .. Latest : stamped'[v] = stamped[v]
      /\ stamped'[Latest + 1] = carried(req[r].job)
  <2>1. PICK c \in SUBSET Attempts : c = carried(req[r].job) /\ stamped' = Append(stamped, c)
    BY <1>3
  <2>2. stamped \in Seq(SUBSET Attempts) /\ Len(stamped) = Latest
    BY DEF StampsFit
  <2>3. /\ stamped' \in Seq(SUBSET Attempts) /\ Len(stamped') = Len(stamped) + 1
        /\ \A v \in 1 .. Len(stamped) : stamped'[v] = stamped[v]
        /\ stamped'[Len(stamped) + 1] = c
    BY <2>1, <2>2, AppendProperties
  <2> QED
    BY <2>1, <2>2, <2>3
<1>5. \A a \in Attempts : seen'[a] = seen[a]
  BY <1>2 DEF SeenMoves
<1>6. seen' = seen
  BY <1>5 DEF SeenMoves, StampsFit
<1> QED
  BY <1>1, <1>3, <1>4, <1>6

\* A signer carries over stamps of signatures its document has.
LEMMA SignersKeepStamps ==
  ASSUME HandlerInv, ChainInv, StampsFit, VersionsStay, BasesStay, SeenMoves, StampsMove
  PROVE  StampsFit'
<1>1. CASE UNCHANGED <<chain, stamped>>
  <2>1. ASSUME NEW a \in Attempts, provider'[a] # "none"
        PROVE  seen'[a] \subseteq chain[att'[a].base].sigs
    <3>1. CASE provider[a] # "none"
      BY <2>1, <3>1 DEF StampsFit, BasesStay, SeenMoves
    <3>2. CASE provider[a] = "none"
      BY <2>1, <3>2 DEF StampsFit, BasesStay, SeenMoves
    <3> QED
      BY <3>1, <3>2
  <2> QED
    BY <1>1, <2>1 DEF StampsFit, SeenMoves, Latest
<1>2. ASSUME NEW r \in Requests, NEW d, Signs(r, d), stamped' = Append(stamped, carried(req[r].job))
      PROVE  StampsFit'
  <2>1. /\ Latest \in Nat \ {0} /\ Latest' = Latest + 1
        /\ \A v \in 1 .. Latest : chain'[v] = chain[v]
        /\ chain'[Latest + 1] = d
        /\ \A v \in 1 .. Latest' : v \in 1 .. Latest \/ v = Latest + 1
    BY <1>2, SignedVersion
  <2>2. /\ stamped' \in Seq(SUBSET Attempts) /\ Len(stamped') = Latest'
        /\ \A v \in 1 .. Latest : stamped'[v] = stamped[v]
        /\ stamped'[Latest + 1] = carried(req[r].job)
        /\ seen' = seen
    BY <1>2, StampedVersion
  <2>3. /\ req[r].job \in Attempts /\ chain[Latest].sigs \subseteq d.sigs
        /\ isPAdES(req[r].job) => att[req[r].job].base = Latest
        /\ provider[req[r].job] # "none" /\ UNCHANGED <<att, provider>>
    BY <1>2 DEF Signs
  <2>4. carried(req[r].job) \subseteq d.sigs
    BY <2>1, <2>3 DEF carried, StampsFit
  <2>5. \A a \in Attempts : provider[a] # "none" => att[a].base \in 1 .. Latest
    BY DEF ChainInv, BaseFixed
  <2>6. \A v \in 1 .. Latest' : stamped'[v] \subseteq chain'[v].sigs
    BY <2>1, <2>2, <2>4 DEF StampsFit
  <2>7. \A a \in Attempts : provider'[a] # "none" => seen'[a] \subseteq chain'[att'[a].base].sigs
    BY <2>1, <2>2, <2>3, <2>5 DEF StampsFit
  <2>8. seen' \in [Attempts -> SUBSET Attempts]
    BY DEF SeenMoves
  <2> QED
    BY <2>2, <2>6, <2>7, <2>8 DEF StampsFit
<1> QED
  BY <1>1, <1>2 DEF StampsMove

\* What a stored archive does to the stamps: all signatures of the head get one.
Archives(x) ==
    /\ ar[x].pc = "store" /\ ar[x].doc = Latest
    /\ stamped' = [stamped EXCEPT ![Latest] = chain[Latest].sigs]

\* An archive request's step leaves the signers alone; it is answered "done" only
\* as it stamps the head.
ArchiverMoves ==
    /\ UNCHANGED <<vars, seen>>
    /\ UNCHANGED stamped \/ \E x \in Archivers : Archives(x)
    /\ \A x \in Archivers : ar'[x].pc = "done" =>
          \/ ar'[x] = ar[x]
          \/ Archives(x) /\ ar'[x].doc = ar[x].doc /\ ar'[x].file = ar[x].file

\* The archive requests' steps are such steps.
LEMMA ArchiverStepMoves ==
  ASSUME HandlerInv, FileCurrent, NEW x \in Archivers, ArchiverStep(x)
  PROVE  ArchiverMoves
<1>1. ASSUME NEW v \in 1 .. Latest, NEW o, ArchiveDocument(x, v, o)
      PROVE  ArchiverMoves
  <2>2. /\ ar'[x].pc # "done"
        /\ \A y \in Archivers \ {x} : ar'[y] = ar[y]
        /\ UNCHANGED <<vars, seen, stamped>>
    BY <1>1 DEF ArchiveDocument, FileCurrent
  <2> QED
    BY <2>2 DEF ArchiverMoves
<1>2. ASSUME NEW o, StoreArchived(x, o)
      PROVE  ArchiverMoves
  <2>2. UNCHANGED vars
    BY <1>2, StoresInPlace
  <2>3. ar[x].pc = "store" /\ ar[x].file = chain[ar[x].doc] /\ UNCHANGED seen
    BY <1>2 DEF StoreArchived, FileCurrent
  <2>4. PICK l \in {"done", "failed"} :
           /\ ar' = [ar EXCEPT ![x].pc = l]
           /\ l = "done" => Archives(x)
           /\ UNCHANGED stamped \/ Archives(x)
    BY <1>2, <2>3 DEF StoreArchived, archiveTarget, Archives
  <2>5. /\ ar'[x].pc = l /\ ar'[x].doc = ar[x].doc /\ ar'[x].file = ar[x].file
        /\ \A y \in Archivers \ {x} : ar'[y] = ar[y]
    BY <2>4 DEF FileCurrent, ArchiverType
  <2> QED
    BY <2>2, <2>3, <2>4, <2>5 DEF ArchiverMoves
<1> QED
  BY <1>1, <1>2 DEF ArchiverStep

\* An archive stamps signatures of the version it writes.
LEMMA ArchiversKeepStamps ==
  ASSUME HandlerInv, StampsFit, ArchiverMoves
  PROVE  /\ StampsFit'
         /\ \A v \in 1 .. Latest : stamped'[v] = stamped[v] \/ stamped'[v] = chain[v].sigs
<1>1. UNCHANGED <<chain, att, provider, seen>> /\ Latest \in Nat \ {0}
  BY DEF ArchiverMoves, vars, HandlerInv, TypeOK, Latest
<1>2. CASE UNCHANGED stamped
  BY <1>1, <1>2 DEF StampsFit, Latest
<1>3. CASE stamped' = [stamped EXCEPT ![Latest] = chain[Latest].sigs]
  <2>1. PICK c \in SUBSET Attempts : c = chain[Latest].sigs /\ stamped' = [stamped EXCEPT ![Latest] = c]
    <3>1. Latest \in 1 .. Len(chain)
      BY <1>1 DEF Latest
    <3> QED
      BY <1>3, <3>1, VersionsTyped DEF HandlerInv
  <2>2. /\ stamped' \in Seq(SUBSET Attempts) /\ Len(stamped') = Latest
        /\ stamped'[Latest] = c
        /\ \A v \in 1 .. Latest : v # Latest => stamped'[v] = stamped[v]
    BY <1>1, <2>1 DEF StampsFit
  <2> QED
    BY <1>1, <2>1, <2>2 DEF StampsFit, Latest
<1> QED
  BY <1>2, <1>3 DEF ArchiverMoves, Archives

-----------------------------------------------------------------------------
(* Stamps that are gone *)

\* A signer of version v of a PDF had read version d before s was stamped in it.
ReadEarlier(d, v, s) ==
    \E b \in chain[v].sigs : isPAdES(b) /\ att[b].base = d /\ s \notin seen[b]

\* A stamp of an answered archive that a version does not have, was lost to a
\* signer of that version who had read the archived one earlier ...
LossExplained ==
    \A x \in Archivers : ar[x].pc = "done" =>
        \A v \in ar[x].doc .. Latest : \A s \in ar[x].file.sigs \ stamped[v] :
            ReadEarlier(ar[x].doc, v, s)

\* ... and so it is with what a later signer still has to store.
PendingExplained ==
    \A x \in Archivers : ar[x].pc = "done" =>
        \A a \in Attempts : provider[a] # "none" /\ isPAdES(a) /\ att[a].base > ar[x].doc =>
            \A s \in ar[x].file.sigs \ seen[a] : ReadEarlier(ar[x].doc, att[a].base, s)

StampInv == ArchiveInv /\ ChainInv /\ StampsFit /\ LossExplained /\ PendingExplained

\* Who had read a version earlier, had.
LEMMA ReadEarlierStays ==
  ASSUME HandlerInv, ChainInv, VersionsStay, BasesStay, SeenMoves,
         NEW d, NEW v \in 1 .. Latest, NEW s, ReadEarlier(d, v, s)
  PROVE  ReadEarlier(d, v, s)'
<1>1. PICK b \in chain[v].sigs : isPAdES(b) /\ att[b].base = d /\ s \notin seen[b]
  BY DEF ReadEarlier
<1>2. b \in Attempts /\ provider[b] # "none" /\ chain'[v] = chain[v]
  BY VersionsTyped DEF HandlerInv, ChainInv, SignersKnown, VersionsStay, Latest
<1>3. att'[b].base = d /\ att'[b].format = att[b].format /\ seen'[b] = seen[b]
  BY <1>1, <1>2 DEF BasesStay, SeenMoves
<1> QED
  BY <1>1, <1>2, <1>3 DEF ReadEarlier, isPAdES

\* A new version comes with the signers of the head.
LEMMA ReadEarlierPassesOn ==
  ASSUME HandlerInv, StampsFit, SeenMoves, NEW r \in Requests, NEW e, Signs(r, e),
         stamped' = Append(stamped, carried(req[r].job)),
         NEW d, NEW s, ReadEarlier(d, Latest, s), NEW n, n = Latest + 1
  PROVE  ReadEarlier(d, n, s)'
<1>1. chain'[n] = e /\ chain[Latest].sigs \subseteq e.sigs /\ seen' = seen /\ att' = att
  BY SignedVersion, StampedVersion DEF Signs
<1>2. PICK b \in chain[Latest].sigs : isPAdES(b) /\ att[b].base = d /\ s \notin seen[b]
  BY DEF ReadEarlier
<1> QED
  BY <1>1, <1>2 DEF ReadEarlier, isPAdES

\* A signature on top of an archived version passes its stamps on, unless the
\* signer, or one before it, had read the version earlier.
LEMMA SignersExplainLoss ==
  ASSUME StampInv, VersionsStay, BasesStay, SeenMoves, StampsMove, UNCHANGED ar
  PROVE  LossExplained'
<1> SUFFICES ASSUME NEW x \in Archivers, ar[x].pc = "done",
                    NEW d, d = ar[x].doc, NEW v \in d .. Latest',
                    NEW s \in ar[x].file.sigs \ stamped'[v]
             PROVE  ReadEarlier(d, v, s)'
  BY DEF LossExplained
<1>0. HandlerInv /\ ChainInv /\ StampsFit /\ FileCurrent
  BY DEF StampInv, ArchiveInv
<1>1. d \in 1 .. Latest
  BY <1>0 DEF FileCurrent
<1>2. ASSUME v \in 1 .. Latest, stamped'[v] = stamped[v]
      PROVE  ReadEarlier(d, v, s)'
  <2>1. ReadEarlier(d, v, s)
    BY <1>1, <1>2 DEF StampInv, LossExplained
  <2> QED
    BY <1>0, <1>2, <2>1, ReadEarlierStays
<1>3. CASE UNCHANGED <<chain, stamped>>
  BY <1>1, <1>2, <1>3 DEF Latest
<1>4. ASSUME NEW r \in Requests, NEW e, Signs(r, e), stamped' = Append(stamped, carried(req[r].job))
      PROVE  ReadEarlier(d, v, s)'
  <2>1. /\ Latest \in Nat \ {0} /\ Latest' = Latest + 1
        /\ chain'[Latest + 1] = e
        /\ \A u \in 1 .. Latest' : u \in 1 .. Latest \/ u = Latest + 1
    BY <1>0, <1>4, SignedVersion
  <2>2. /\ \A u \in 1 .. Latest : stamped'[u] = stamped[u]
        /\ stamped'[Latest + 1] = carried(req[r].job)
        /\ seen' = seen
    BY <1>0, <1>4, StampedVersion
  <2>3. CASE v \in 1 .. Latest
    BY <1>2, <2>2, <2>3
  <2>4. CASE v = Latest + 1 /\ isPAdES(req[r].job)
    <3>0. PICK a \in Attempts : a = req[r].job
      BY <1>4 DEF Signs
    <3>1. a \in e.sigs /\ isPAdES(a) /\ att[a].base = Latest /\ provider[a] # "none" /\ att' = att
      BY <1>4, <2>4, <3>0 DEF Signs
    <3>2. s \in ar[x].file.sigs \ seen[a]
      BY <2>2, <2>4, <3>0 DEF carried
    <3>3. CASE d = Latest
      BY <2>1, <2>2, <2>4, <3>1, <3>2, <3>3 DEF ReadEarlier, isPAdES
    <3>4. CASE d # Latest
      <4>1. ReadEarlier(d, Latest, s)
        BY <1>1, <2>1, <3>1, <3>2, <3>4 DEF StampInv, PendingExplained
      <4> QED
        BY <1>0, <1>4, <2>4, <4>1, ReadEarlierPassesOn
    <3> QED
      BY <3>3, <3>4
  <2>5. CASE v = Latest + 1 /\ ~isPAdES(req[r].job)
    <3>1. s \in ar[x].file.sigs \ stamped[Latest]
      BY <2>2, <2>5 DEF carried
    <3>2. ReadEarlier(d, Latest, s)
      BY <1>1, <2>1, <3>1 DEF StampInv, LossExplained
    <3> QED
      BY <1>0, <1>4, <2>5, <3>2, ReadEarlierPassesOn
  <2> QED
    BY <1>1, <2>1, <2>3, <2>4, <2>5
<1> QED
  BY <1>3, <1>4 DEF StampsMove

\* A signer that reads a version after the archived one has the stamps that
\* version has.
LEMMA SignersExplainPending ==
  ASSUME StampInv, VersionsStay, BasesStay, SeenMoves, UNCHANGED ar
  PROVE  PendingExplained'
<1> SUFFICES ASSUME NEW x \in Archivers, ar[x].pc = "done", NEW a \in Attempts,
                    provider'[a] # "none", isPAdES(a)', att'[a].base > ar[x].doc,
                    NEW d, d = ar[x].doc, NEW n, n = att'[a].base,
                    NEW s \in ar[x].file.sigs \ seen'[a]
             PROVE  ReadEarlier(d, n, s)'
  BY DEF PendingExplained
<1>0. HandlerInv /\ ChainInv /\ StampsFit /\ FileCurrent
  BY DEF StampInv, ArchiveInv
<1>1. d \in 1 .. Latest
  BY <1>0 DEF FileCurrent
<1>2. CASE provider[a] # "none"
  <2>1. n = att[a].base /\ isPAdES(a) /\ seen'[a] = seen[a] /\ n \in 1 .. Latest
    BY <1>0, <1>2 DEF BasesStay, SeenMoves, isPAdES, ChainInv, BaseFixed
  <2>2. ReadEarlier(d, n, s)
    BY <1>2, <2>1 DEF StampInv, PendingExplained
  <2> QED
    BY <1>0, <2>1, <2>2, ReadEarlierStays
<1>3. CASE provider[a] = "none"
  <2>1. n = att[a].base /\ seen'[a] = stamped[n] /\ n \in 1 .. Latest
    BY <1>3 DEF BasesStay, SeenMoves
  <2>2. ReadEarlier(d, n, s)
    BY <1>1, <2>1 DEF StampInv, LossExplained
  <2> QED
    BY <1>0, <2>1, <2>2, ReadEarlierStays
<1> QED
  BY <1>2, <1>3

\* An archive that is answered stamps the head, so it has nothing to explain, and
\* another's stamps are only added to.
LEMMA ArchiversExplainLoss ==
  ASSUME StampInv, ArchiverMoves
  PROVE  LossExplained' /\ PendingExplained'
<1>0. HandlerInv /\ ChainInv /\ StampsFit /\ FileCurrent
  BY DEF StampInv, ArchiveInv
<1>1. UNCHANGED <<chain, att, provider, seen>> /\ Latest \in Nat /\ Latest' = Latest
  BY <1>0 DEF ArchiverMoves, vars, HandlerInv, TypeOK, Latest
<1>2. \A v \in 1 .. Latest : stamped'[v] = stamped[v] \/ stamped'[v] = chain[v].sigs
  BY <1>0, ArchiversKeepStamps
<1>3. \A d, v, s : ReadEarlier(d, v, s) => ReadEarlier(d, v, s)'
  BY <1>1 DEF ReadEarlier, isPAdES
<1>4. ASSUME NEW x \in Archivers, ar'[x].pc = "done"
      PROVE  /\ ar'[x].doc \in 1 .. Latest /\ ar'[x].file = chain[ar'[x].doc]
             /\ \/ ar'[x] = ar[x]
                \/ ar'[x].doc = Latest /\ stamped'[Latest] = chain[Latest].sigs
  <2>1. CASE ar'[x] = ar[x]
    BY <1>0, <1>4, <2>1 DEF FileCurrent
  <2>2. CASE Archives(x) /\ ar'[x].doc = ar[x].doc /\ ar'[x].file = ar[x].file
    <3>1. Latest \in 1 .. Latest /\ ar'[x].file = chain[ar'[x].doc] /\ ar'[x].doc = Latest
      BY <1>0, <2>2 DEF FileCurrent, Archives
    <3>2. stamped'[Latest] = chain[Latest].sigs
      BY <1>0, <2>2, <3>1 DEF Archives, StampsFit
    <3> QED
      BY <3>1, <3>2
  <2> QED
    BY <1>4, <2>1, <2>2 DEF ArchiverMoves
<1>5. ASSUME NEW x \in Archivers, ar'[x].pc = "done", NEW d, d = ar'[x].doc,
             NEW v \in d .. Latest, NEW s \in ar'[x].file.sigs \ stamped'[v]
      PROVE  ReadEarlier(d, v, s)'
  <2>1. d \in 1 .. Latest /\ v \in 1 .. Latest /\ s \in chain[d].sigs
    BY <1>1, <1>4, <1>5
  <2>2. stamped'[v] # chain[v].sigs
    BY <1>0, <2>1 DEF ChainInv, SignaturesAdd
  <2>3. stamped'[v] = stamped[v]
    BY <1>2, <2>1, <2>2
  <2>4. ar'[x] = ar[x]
    BY <1>1, <1>4, <1>5, <2>1, <2>2
  <2>5. ReadEarlier(d, v, s)
    BY <1>5, <2>3, <2>4 DEF StampInv, LossExplained
  <2> QED
    BY <1>3, <2>5
<1>6. ASSUME NEW x \in Archivers, ar'[x].pc = "done", NEW a \in Attempts, provider[a] # "none",
             isPAdES(a), NEW d, d = ar'[x].doc, NEW n, n = att[a].base, n > d,
             NEW s \in ar'[x].file.sigs \ seen[a]
      PROVE  ReadEarlier(d, n, s)'
  <2>1. n \in 1 .. Latest
    BY <1>0, <1>6 DEF ChainInv, BaseFixed
  <2>2. ar'[x] = ar[x]
    BY <1>1, <1>4, <1>6, <2>1
  <2>3. ReadEarlier(d, n, s)
    BY <1>6, <2>2 DEF StampInv, PendingExplained
  <2> QED
    BY <1>3, <2>3
<1>7. LossExplained'
  BY <1>1, <1>5 DEF LossExplained
<1>8. PendingExplained'
  BY <1>1, <1>6 DEF PendingExplained, isPAdES
<1> QED
  BY <1>7, <1>8

\* Every step keeps the stamps explained.
LEMMA StampStep ==
  ASSUME StampInv, [ArchiveNext]_avars
  PROVE  StampInv'
<1>0. HandlerInv /\ ChainInv /\ StampsFit /\ FileCurrent
  BY DEF StampInv, ArchiveInv
<1>1. [Next]_vars /\ ArchiveInv' /\ ChainInv' /\ VersionsStay
  BY <1>0, ArchiveStep, NextChainInv, NextVersionsStay DEF StampInv
<1>2. CASE SignerStep
  <2>1. BasesStay /\ SeenMoves /\ StampsMove /\ UNCHANGED ar
    BY <1>0, <1>2, SignerMoves DEF SignerStep
  <2> QED
    BY <1>0, <1>1, <2>1, SignersKeepStamps, SignersExplainLoss, SignersExplainPending DEF StampInv
<1>3. ASSUME ArchiverMoves
      PROVE  StampInv'
  BY <1>0, <1>1, <1>3, ArchiversKeepStamps, ArchiversExplainLoss DEF StampInv
<1>4. CASE UNCHANGED avars
  BY <1>3, <1>4 DEF avars, ArchiverMoves
<1> QED
  BY <1>0, <1>2, <1>3, <1>4, ArchiverStepMoves DEF ArchiveNext

\* Nothing is signed, stamped or archived at the start.
LEMMA StampStart == ArchiveInit => StampInv
<1> SUFFICES ASSUME ArchiveInit PROVE StampInv
  OBVIOUS
<1>1. Init /\ ArchiveInv
  BY ArchiveStart
<1>2. PICK k \in RootKinds : chain = << [kind |-> k, sigs |-> {}] >>
  BY <1>1 DEF Init
<1>3. Latest = 1 /\ chain[1].sigs = {} /\ stamped = << {} >> /\ Len(stamped) = 1
      /\ seen = [a \in Attempts |-> {}] /\ stamped[1] = {}
  BY <1>2 DEF ArchiveInit, Latest
<1>4. \A a \in Attempts : provider[a] = "none"
  BY <1>1 DEF Init
<1>5. \A x \in Archivers : ar[x].pc = "idle"
  BY DEF ArchiveInit
<1>6. stamped \in Seq(SUBSET Attempts)
  <2>1. {} \in SUBSET Attempts
    OBVIOUS
  <2> QED
    BY <1>3, <2>1
<1>7. ChainInv
  BY <1>3, <1>4 DEF ChainInv, BaseFixed, SignersKnown, SignaturesAdd
<1>8. StampsFit
  BY <1>3, <1>4, <1>6 DEF StampsFit
<1> QED
  BY <1>1, <1>5, <1>7, <1>8 DEF StampInv, LossExplained, PendingExplained

\* The stamps keep their types: a version's stamps are of its own signatures,
\* and nothing but a signed form is ever about to be stored.
THEOREM ArchiveTypeCorrect == ArchiveSpec => []ArchiveTypeOK
<1>1. StampInv /\ [ArchiveNext]_avars => StampInv'
  BY StampStep
<1>2. StampInv => ArchiveTypeOK
  BY DEF StampInv, ArchiveInv, FileCurrent, StampsFit, ArchiveTypeOK
<1> QED
  BY StampStart, <1>1, <1>2, PTL DEF ArchiveSpec

\* The only way the timestamps of an answered archive get lost is a PDF signer
\* who had read the archived version before, for any number of archive requests
\* and of signers, in either form, on any version (ArchiveDocument).
THEOREM StampsOutlive == ArchiveSpec => []ArchiveOutlived
<1>1. StampInv /\ [ArchiveNext]_avars => StampInv'
  BY StampStep
<1>2. StampInv => ArchiveOutlived
  <2> SUFFICES ASSUME StampInv, NEW x \in Archivers, ar[x].pc = "done",
                      NEW s \in ar[x].file.sigs \ stamped[Latest]
               PROVE  ReadEarlier(ar[x].doc, Latest, s)
    BY DEF ArchiveOutlived, ReadEarlier
  <2>1. ar[x].doc \in 1 .. Latest
    BY DEF StampInv, ArchiveInv, FileCurrent
  <2>2. Latest \in ar[x].doc .. Latest
    BY <2>1 DEF StampInv, ArchiveInv, HandlerInv, TypeOK, Latest
  <2> QED
    BY <2>2 DEF StampInv, LossExplained
<1> QED
  BY StampStart, <1>1, <1>2, PTL DEF ArchiveSpec
=============================================================================
