--------------------------- MODULE ResolveProofs ---------------------------
(***************************************************************************)
(* Proofs about Resolve for any numbers of envelopes, documents and        *)
(* attempts, and any assignment of documents to envelopes.                 *)
(***************************************************************************)
EXTENDS Resolve, TLAPS

-----------------------------------------------------------------------------
(* The inductive invariant *)

\* What a request has read of its envelope, before it asks for the head.
RootRead ==
    \A a \in Attempts :
        /\ at[a].pc = "envelope" => ~at[a].read
        /\ at[a].pc = "head" /\ at[a].read => at[a].root = <<RootOf[EnvelopeOf[a]], 1>>

\* Chains only grow, so none is shorter than when a request came in.
ChainsGrow == \A a \in Attempts, c \in Roots : length[a][c] <= Live(c)

ResolveInv == TypeOK /\ RootRead /\ ChainsGrow /\ SignsLiveHead

-----------------------------------------------------------------------------
(* What a step of one attempt does to the others *)

\* A chain is a non-empty sequence.
LEMMA ChainLength ==
  ASSUME TypeOK, NEW c \in Roots
  PROVE  chain[c] \in Seq(SUBSET Attempts) /\ Live(c) \in Nat \ {0}
<1>1. chain[c] \in Seq(SUBSET Attempts) /\ chain[c] # <<>>
  BY DEF TypeOK
<1> QED
  BY <1>1 DEF Live

\* An attempt that moves on to a label keeps what it knows.
LEMMA MovesOn ==
  ASSUME ResolveInv, NEW a \in Attempts, NEW l \in Pcs \ {"head", "envelope"},
         l \in {"lock", "prepare", "flight", "stored"} => InFlight(a),
         at' = [at EXCEPT ![a].pc = l], chain' = chain, length' = length,
         lock' \in [Envelopes -> Attempts \cup {None}]
  PROVE  ResolveInv'
<1>1. /\ at' \in [Attempts -> AttemptType]
      /\ \A b \in Attempts : at'[b].root = at[b].root /\ at'[b].doc = at[b].doc
                             /\ at'[b].read = at[b].read
      /\ \A b \in Attempts \ {a} : at'[b] = at[b]
      /\ at'[a].pc = l
  BY DEF ResolveInv, TypeOK, AttemptType
<1>2. TypeOK'
  BY <1>1 DEF ResolveInv, TypeOK, Exists
<1>3. RootRead'
  BY <1>1 DEF ResolveInv, RootRead
<1>4. ChainsGrow'
  BY DEF ResolveInv, ChainsGrow, Live
<1>5. SignsLiveHead'
  BY <1>1 DEF ResolveInv, SignsLiveHead, InFlight
<1> QED
  BY <1>2, <1>3, <1>4, <1>5 DEF ResolveInv

\* An attempt drops at most its own hold.
LEMMA ReleaseTyped ==
  ASSUME TypeOK, NEW a \in Attempts, Release(a)
  PROVE  lock' \in [Envelopes -> Attempts \cup {None}]
BY ResolveAssumption DEF TypeOK, Release

-----------------------------------------------------------------------------
(* The invariant is kept *)

\* A request comes in.
LEMMA BeginKeeps ==
  ASSUME ResolveInv, NEW a \in Attempts, NEW c \in Roots, NEW n \in 1 .. Live(c),
         Begin(a, <<c, n>>)
  PROVE  ResolveInv'
<1> DEFINE d == <<c, n>>
<1>1. Live(c) \in Nat /\ d \in Document
  BY ChainLength DEF ResolveInv, Document
<1>2. /\ at' \in [Attempts -> AttemptType]
      /\ \A b \in Attempts \ {a} : at'[b] = at[b]
      /\ at'[a].pc \in {"envelope", "lock"} /\ ~at'[a].read /\ at'[a].root = d /\ at'[a].doc = d
  BY <1>1 DEF Begin, ResolveInv, TypeOK, AttemptType, Pcs
<1>3. /\ length' \in [Attempts -> [Roots -> Nat]]
      /\ \A b \in Attempts \ {a} : length'[b] = length[b]
      /\ \A k \in Roots : length'[a][k] = Live(k)
  BY ChainLength DEF Begin, ResolveInv, TypeOK
<1>4. UNCHANGED <<chain, lock>> /\ Exists(d)
  BY DEF Begin
<1>5. TypeOK'
  BY <1>2, <1>3, <1>4 DEF ResolveInv, TypeOK, Exists
<1>6. RootRead'
  BY <1>2 DEF ResolveInv, RootRead
<1>7. ChainsGrow'
  <2>1. \A k \in Roots : Live(k)' = Live(k) /\ Live(k) \in Nat
    BY <1>4, ChainLength DEF Live, ResolveInv
  <2> QED
    BY <1>3, <2>1 DEF ResolveInv, ChainsGrow
<1>8. SignsLiveHead'
  BY <1>2, <1>3 DEF ResolveInv, SignsLiveHead, InFlight
<1> QED
  BY <1>5, <1>6, <1>7, <1>8 DEF ResolveInv

\* The envelope is read, or is not.
LEMMA EnvelopeKeeps ==
  ASSUME ResolveInv, NEW a \in Attempts, GetEnvelope(a)
  PROVE  ResolveInv'
<1> DEFINE d == <<RootOf[EnvelopeOf[a]], 1>>
<1>1. RootOf[EnvelopeOf[a]] \in Roots /\ d \in Document
  BY ResolveAssumption DEF Document
<1>2. /\ at' \in [Attempts -> AttemptType]
      /\ \A b \in Attempts \ {a} : at'[b] = at[b]
      /\ at'[a].pc = "head" /\ at'[a].doc = at[a].doc
      /\ \/ at'[a].root = d
         \/ at'[a].root = at[a].root /\ ~at'[a].read
  <2>1. at \in [Attempts -> AttemptType] /\ at[a].pc = "envelope" /\ ~at[a].read
    BY DEF GetEnvelope, ResolveInv, RootRead, TypeOK
  <2>2. CASE at' = [at EXCEPT ![a].pc = "head", ![a].root = d, ![a].read = TRUE]
    BY <1>1, <2>1, <2>2 DEF AttemptType, Pcs
  <2>3. CASE at' = [at EXCEPT ![a].pc = "head"]
    <3>1. /\ at' \in [Attempts -> AttemptType]
          /\ \A b \in Attempts \ {a} : at'[b] = at[b]
          /\ at'[a].pc = "head" /\ at'[a].doc = at[a].doc /\ at'[a].root = at[a].root
      BY <2>1, <2>3 DEF AttemptType, Pcs
    <3>2. at'[a].read = at[a].read
      BY <2>1, <2>3 DEF AttemptType
    <3> QED
      BY <2>1, <3>1, <3>2
  <2> QED
    BY <2>2, <2>3 DEF GetEnvelope
<1>3. UNCHANGED <<chain, lock, length>>
  BY DEF GetEnvelope
<1>4. TypeOK'
  <2>1. Exists(d)
    BY <1>1, ChainLength DEF ResolveInv, Exists, Live
  <2> QED
    BY <1>2, <1>3, <2>1 DEF ResolveInv, TypeOK, Exists
<1>5. RootRead'
  BY <1>2 DEF ResolveInv, RootRead
<1>6. ChainsGrow'
  BY <1>3 DEF ResolveInv, ChainsGrow, Live
<1>7. SignsLiveHead'
  BY <1>2, <1>3 DEF ResolveInv, SignsLiveHead, InFlight
<1> QED
  BY <1>4, <1>5, <1>6, <1>7 DEF ResolveInv

\* The store names the live head of the root, or the request ends.
LEMMA HeadKeeps ==
  ASSUME ResolveInv, NEW a \in Attempts, CurrentHead(a)
  PROVE  ResolveInv'
<1>1. CASE at' = [at EXCEPT ![a].pc = unresolved]
  BY <1>1, MovesOn DEF CurrentHead, unresolved, Pcs, ResolveInv, TypeOK
<1>2. ASSUME NEW d \in headDoc(at[a].root), at' = [at EXCEPT ![a].pc = "lock", ![a].doc = d]
      PROVE  ResolveInv'
  <2> DEFINE c == at[a].root[1]
  <2>1. c \in Roots /\ at[a].root \in Document /\ Exists(at[a].root)
    BY DEF ResolveInv, TypeOK, AttemptType, Document
  <2>2. Live(c) \in Nat \ {0}
    BY <2>1, ChainLength DEF ResolveInv
  <2>3. d \in Document /\ Exists(d)
    BY <1>2, <2>1, <2>2 DEF headDoc, Document, Exists, Live
  <2>4. /\ at' \in [Attempts -> AttemptType]
        /\ \A b \in Attempts \ {a} : at'[b] = at[b]
        /\ at'[a].pc = "lock" /\ at'[a].doc = d
        /\ at'[a].root = at[a].root /\ at'[a].read = at[a].read
    BY <1>2, <2>3 DEF ResolveInv, TypeOK, AttemptType, Pcs
  <2>5. UNCHANGED <<chain, lock, length>> /\ at[a].pc = "head"
    BY DEF CurrentHead
  <2>6. TypeOK'
    BY <2>3, <2>4, <2>5 DEF ResolveInv, TypeOK, Exists
  <2>7. RootRead'
    BY <2>4 DEF ResolveInv, RootRead
  <2>8. ChainsGrow'
    BY <2>5 DEF ResolveInv, ChainsGrow, Live
  <2>9. at[a].read => d[1] = RootOf[EnvelopeOf[a]] /\ d[2] >= length[a][d[1]]
    <3> SUFFICES ASSUME at[a].read
                 PROVE  d[1] = RootOf[EnvelopeOf[a]] /\ d[2] >= length[a][d[1]]
      OBVIOUS
    <3>1. at[a].root = <<RootOf[EnvelopeOf[a]], 1>>
      BY <2>5 DEF ResolveInv, RootRead
    <3>2. d = <<c, Live(c)>> /\ c = RootOf[EnvelopeOf[a]]
      BY <1>2, <3>1 DEF headDoc
    <3>3. length[a][c] <= Live(c) /\ length[a][c] \in Nat
      BY <2>1 DEF ResolveInv, ChainsGrow, TypeOK
    <3> QED
      BY <2>2, <3>2, <3>3
  <2>10. SignsLiveHead'
    BY <2>4, <2>5, <2>9 DEF ResolveInv, SignsLiveHead, InFlight
  <2> QED
    BY <2>6, <2>7, <2>8, <2>10 DEF ResolveInv
<1> QED
  BY <1>1, <1>2 DEF CurrentHead

\* The gate lets the request in or refuses it.
LEMMA LockKeeps ==
  ASSUME ResolveInv, NEW a \in Attempts, AcquireLock(a)
  PROVE  ResolveInv'
<1>1. lock' \in [Envelopes -> Attempts \cup {None}]
  BY ResolveAssumption DEF AcquireLock, ResolveInv, TypeOK
<1>2. InFlight(a) /\ chain' = chain /\ length' = length
  BY DEF AcquireLock, InFlight
<1>3. CASE at' = [at EXCEPT ![a].pc = "prepare"]
  BY <1>1, <1>2, <1>3, MovesOn DEF Pcs
<1>4. CASE at' = [at EXCEPT ![a].pc = "refused"]
  BY <1>1, <1>2, <1>4, MovesOn DEF Pcs
<1> QED
  BY <1>3, <1>4 DEF AcquireLock

\* The provider's job starts, or the request ends without its hold.
LEMMA PrepareKeeps ==
  ASSUME ResolveInv, NEW a \in Attempts, Prepare(a)
  PROVE  ResolveInv'
<1>1. lock' \in [Envelopes -> Attempts \cup {None}]
  BY ReleaseTyped DEF Prepare, ResolveInv, TypeOK
<1>2. InFlight(a) /\ chain' = chain /\ length' = length
  BY DEF Prepare, InFlight
<1>3. CASE at' = [at EXCEPT ![a].pc = "flight"]
  BY <1>1, <1>2, <1>3, MovesOn DEF Pcs
<1>4. CASE at' = [at EXCEPT ![a].pc = "failed"]
  BY <1>1, <1>2, <1>4, MovesOn DEF Pcs
<1> QED
  BY <1>3, <1>4 DEF Prepare

\* What a successful store does to the chains.
LEMMA StoredChain ==
  ASSUME TypeOK, NEW a \in Attempts, StoreSignedDocument(a), chain' # chain
  PROVE  /\ chain' \in [Roots -> Seq(SUBSET Attempts) \ {<<>>}]
         /\ \A c \in Roots : Live(c)' \in Nat /\ Live(c) <= Live(c)'
         /\ \A c \in Roots :
               chain'[c] # chain[c] => chain[c][Len(chain[c])] \subseteq chain'[c][Len(chain'[c])]
<1> DEFINE c == at[a].doc[1]
           n == at[a].doc[2]
<1>1. c \in Roots /\ n \in 1 .. Len(chain[c])
  BY DEF TypeOK, AttemptType, Document, Exists
<1>2. n = Live(c) /\ chain' = [chain EXCEPT ![c] = Append(chain[c], chain[c][n] \cup {a})]
  BY DEF StoreSignedDocument, parentOf
<1>3. /\ chain[c] \in Seq(SUBSET Attempts) /\ Live(c) \in Nat \ {0}
      /\ chain \in [Roots -> Seq(SUBSET Attempts) \ {<<>>}]
  BY <1>1, ChainLength DEF TypeOK
<1>4. chain[c][n] \cup {a} \in SUBSET Attempts
  BY <1>1, <1>3
<1> DEFINE s == Append(chain[c], chain[c][n] \cup {a})
<1>5. /\ s \in Seq(SUBSET Attempts) /\ s # <<>>
      /\ Len(s) = Live(c) + 1 /\ s[Len(s)] = chain[c][n] \cup {a}
  <2>1. \A q \in Seq(SUBSET Attempts), v \in SUBSET Attempts :
           /\ Append(q, v) \in Seq(SUBSET Attempts) /\ Append(q, v) # <<>>
           /\ Len(Append(q, v)) = Len(q) + 1 /\ Append(q, v)[Len(q) + 1] = v
    OBVIOUS
  <2> QED
    BY <1>3, <1>4, <2>1 DEF Live
<1>6. chain'[c] = s /\ \A k \in Roots \ {c} : chain'[k] = chain[k]
  BY <1>1, <1>2, <1>3
<1>7. chain' \in [Roots -> Seq(SUBSET Attempts) \ {<<>>}]
  BY <1>1, <1>2, <1>3, <1>5
<1>8. \A k \in Roots : Live(k)' \in Nat /\ Live(k) <= Live(k)'
  <2>1. \A k \in Roots : Live(k) \in Nat
    BY ChainLength
  <2>2. \A k \in Roots \ {c} : Live(k)' = Live(k)
    BY <1>6 DEF Live
  <2>3. \A k \in Roots : k = c => Live(k)' = Live(k) + 1
    BY <1>5, <1>6 DEF Live
  <2> QED
    BY <1>1, <2>1, <2>2, <2>3
<1>9. \A k \in Roots :
         chain'[k] # chain[k] => chain[k][Len(chain[k])] \subseteq chain'[k][Len(chain'[k])]
  BY <1>2, <1>5, <1>6 DEF Live
<1> QED
  BY <1>7, <1>8, <1>9

\* The signed document is stored on the live head, or refused.
LEMMA StoreKeeps ==
  ASSUME ResolveInv, NEW a \in Attempts, StoreSignedDocument(a)
  PROVE  ResolveInv'
<1>1. InFlight(a) /\ length' = length
  BY DEF StoreSignedDocument, InFlight
<1>2. CASE chain' = chain
  <2>1. chain \in [Roots -> Seq(SUBSET Attempts)] /\ at[a].doc[1] \in Roots /\ Exists(at[a].doc)
    BY DEF ResolveInv, TypeOK, AttemptType, Document
  <2>2. lock' \in [Envelopes -> Attempts \cup {None}]
    BY ReleaseTyped DEF StoreSignedDocument, ResolveInv, TypeOK
  <2>3. at' = [at EXCEPT ![a].pc = "stored"] \/ at' = [at EXCEPT ![a].pc = "refused"]
    BY DEF StoreSignedDocument
  <2> QED
    BY <1>1, <1>2, <2>2, <2>3, MovesOn DEF Pcs
<1>3. CASE chain' # chain
  <2>1. /\ at' = [at EXCEPT ![a].pc = "stored"]
        /\ lock' \in [Envelopes -> Attempts \cup {None}]
    BY <1>3, ReleaseTyped DEF StoreSignedDocument, ResolveInv
  <2>2. /\ chain' \in [Roots -> Seq(SUBSET Attempts) \ {<<>>}]
        /\ \A c \in Roots : Live(c)' \in Nat /\ Live(c) <= Live(c)'
    BY <1>3, StoredChain DEF ResolveInv
  <2>3. \A c \in Roots : Live(c) \in Nat
    BY ChainLength DEF ResolveInv
  <2>4. /\ at' \in [Attempts -> AttemptType]
        /\ \A b \in Attempts : at'[b].root = at[b].root /\ at'[b].doc = at[b].doc
                               /\ at'[b].read = at[b].read
        /\ \A b \in Attempts \ {a} : at'[b] = at[b]
        /\ at'[a].pc = "stored"
    BY <2>1 DEF ResolveInv, TypeOK, AttemptType, Pcs
  <2>5. ASSUME NEW d \in Document, Exists(d)
        PROVE  Exists(d)'
    <3>1. d[1] \in Roots /\ d[2] \in Nat \ {0} /\ d[2] <= Live(d[1])
      BY <2>3, <2>5 DEF Document, Exists, Live
    <3>2. d[2] <= Live(d[1])' /\ Live(d[1])' \in Nat
      BY <2>2, <2>3, <3>1
    <3> QED
      BY <3>1, <3>2 DEF Exists, Live
  <2>6. \A b \in Attempts : at[b].root \in Document /\ at[b].doc \in Document
    BY DEF ResolveInv, TypeOK, AttemptType
  <2>7. \A b \in Attempts : Exists(at[b].root)' /\ Exists(at[b].doc)'
    BY <2>4, <2>5, <2>6 DEF ResolveInv, TypeOK, Exists
  <2>8. TypeOK'
    BY <1>1, <2>1, <2>2, <2>4, <2>7 DEF ResolveInv, TypeOK
  <2>9. RootRead'
    BY <2>4 DEF ResolveInv, RootRead
  <2>10. ChainsGrow'
    <3>1. \A b \in Attempts, c \in Roots : length[b][c] \in Nat /\ length[b][c] <= Live(c)
      BY DEF ResolveInv, TypeOK, ChainsGrow
    <3> QED
      BY <1>1, <2>2, <2>3, <3>1 DEF ChainsGrow
  <2>11. SignsLiveHead'
    BY <1>1, <2>4 DEF ResolveInv, SignsLiveHead, InFlight
  <2> QED
    BY <2>8, <2>9, <2>10, <2>11 DEF ResolveInv
<1> QED
  BY <1>2, <1>3

\* Every step keeps the invariant.
LEMMA NextKeeps ==
  ASSUME ResolveInv, [Next]_rvars
  PROVE  ResolveInv'
<1>1. ASSUME NEW a \in Attempts, Step(a)
      PROVE  ResolveInv'
  BY <1>1, BeginKeeps, EnvelopeKeeps, HeadKeeps, LockKeeps, PrepareKeeps, StoreKeeps DEF Step
<1>2. ASSUME NEW e \in Envelopes, LockEnds(e)
      PROVE  ResolveInv'
  BY <1>2 DEF LockEnds, ResolveInv, TypeOK, Exists, RootRead, ChainsGrow, Live, SignsLiveHead, InFlight
<1>3. CASE UNCHANGED rvars
  BY <1>3 DEF rvars, ResolveInv, TypeOK, Exists, RootRead, ChainsGrow, Live, SignsLiveHead, InFlight
<1> QED
  BY <1>1, <1>2, <1>3 DEF Next

\* No request has come in, and every chain consists of its root.
LEMMA InitInv == Init => ResolveInv
<1> SUFFICES ASSUME Init PROVE ResolveInv
  OBVIOUS
<1>1. PICK d \in Roots \X {1} :
         at = [a \in Attempts |-> [pc |-> "idle", root |-> d, doc |-> d, read |-> FALSE]]
  BY DEF Init
<1>2. \A c \in Roots : chain[c] = << {} >> /\ Len(chain[c]) = 1
  BY DEF Init
<1>3. chain \in [Roots -> Seq(SUBSET Attempts) \ {<<>>}]
  <2>1. << {} >> \in Seq(SUBSET Attempts) \ {<<>>}
    OBVIOUS
  <2> QED
    BY <2>1 DEF Init
<1>4. d \in Document /\ Exists(d)
  BY <1>2 DEF Document, Exists
<1>5. TypeOK
  BY <1>1, <1>3, <1>4 DEF Init, TypeOK, AttemptType, Pcs
<1>6. RootRead /\ SignsLiveHead
  BY <1>1 DEF RootRead, SignsLiveHead, InFlight
<1>7. ChainsGrow
  BY <1>2 DEF Init, ChainsGrow, Live
<1> QED
  BY <1>5, <1>6, <1>7 DEF ResolveInv

-----------------------------------------------------------------------------
(* The theorems *)

\* The invariant holds in every reachable state.
THEOREM InvHolds == Spec => []ResolveInv
BY InitInv, NextKeeps, PTL DEF Spec

\* Every document a request works on exists, besides the types.
THEOREM TypeCorrect == Spec => []TypeOK
<1>1. ResolveInv => TypeOK
  BY DEF ResolveInv
<1> QED
  BY <1>1, InvHolds, PTL

\* A signer whose envelope was read signs its envelope's chain, and no version
\* older than the head at the time the request came in.
THEOREM HeadIsLive == Spec => []SignsLiveHead
<1>1. ResolveInv => SignsLiveHead
  BY DEF ResolveInv
<1> QED
  BY <1>1, InvHolds, PTL

\* No chain loses a signature, also where the gate does not keep its signers
\* apart.
THEOREM SignaturesStay == Spec => NoSignatureLost
<1> DEFINE Grows ==
      \A c \in Roots :
         chain'[c] # chain[c] => chain[c][Len(chain[c])] \subseteq chain'[c][Len(chain'[c])]
<1>1. ASSUME TypeOK, [Next]_rvars
      PROVE  Grows
  <2>1. CASE chain' = chain
    BY <2>1
  <2>2. ASSUME NEW a \in Attempts, Step(a), chain' # chain
        PROVE  Grows
    <3>1. StoreSignedDocument(a)
      BY <2>2 DEF Step, Begin, GetEnvelope, CurrentHead, AcquireLock, Prepare
    <3> QED
      BY <1>1, <2>2, <3>1, StoredChain
  <2> QED
    BY <1>1, <2>1, <2>2 DEF Next, LockEnds, rvars
<1>2. TypeOK /\ [Next]_rvars => [Grows]_rvars
  BY <1>1
<1> QED
  BY <1>2, TypeCorrect, PTL DEF Spec, NoSignatureLost
=============================================================================
