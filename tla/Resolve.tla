------------------------------ MODULE Resolve ------------------------------
(***************************************************************************)
(* Which document a Begin signs.  The envelope names the root of a chain,  *)
(* the document store names that chain's live head, and the id the client  *)
(* sent is what is left when the envelope cannot be read or the envelope   *)
(* service is not wired.  The gate that keeps PDF signers apart is keyed   *)
(* by envelope, the chains are keyed by root: here there are several of    *)
(* both, and envelopes may share a document.                               *)
(*                                                                         *)
(* All signers sign PDFs, the form that cannot be merged.  Provider job,   *)
(* job row and time limit of the lock are in Conductor and ChainLock; here *)
(* an attempt is in flight from its Prepare to its finalize.               *)
(***************************************************************************)
EXTENDS Naturals, Sequences

CONSTANTS
    Envelopes,
    Roots,          \* root documents; each starts a chain
    RootOf,         \* RootOf[e]: the document attached to envelope e
    Attempts,       \* Begin calls, each of a slot of its own
    EnvelopeOf,     \* EnvelopeOf[a]: the envelope attempt a names
    None,           \* no holder
    Wired,          \* attempts served where the envelope service is configured
    Unreadable      \* TRUE: reading an envelope may fail or name no document

ASSUME ResolveAssumption ==
    /\ RootOf \in [Envelopes -> Roots]
    /\ EnvelopeOf \in [Attempts -> Envelopes]
    /\ None \notin Attempts
    /\ Wired \subseteq Attempts
    /\ Unreadable \in BOOLEAN

VARIABLES
    chain,      \* chain[c]: the versions of chain c, each the set of attempts
                \* whose signatures it carries; the last is the live head
    lock,       \* lock[e]: the attempt that holds the lock of envelope e
    at,         \* at[a]: the handler of attempt a
    length      \* length[a]: the lengths of the chains when a began (history)

rvars == <<chain, lock, at, length>>

\* A document is a place in a chain: <<root, version>>; <<root, 1>> is the root.
\* No version has the number 0.
Document == Roots \X (Nat \ {0})
Exists(d) == d[2] \in 1 .. Len(chain[d[1]])

Live(c) == Len(chain[c])

Pcs == {"idle", "envelope", "head", "lock", "prepare", "flight", "stored", "refused", "failed"}

AttemptType == [pc   : Pcs,
                root : Document,        \* rootDocID
                doc  : Document,        \* signDocID
                read : BOOLEAN]         \* the envelope named the root

TypeOK ==
    /\ chain \in [Roots -> Seq(SUBSET Attempts) \ {<<>>}]
    /\ lock \in [Envelopes -> Attempts \cup {None}]
    /\ at \in [Attempts -> AttemptType]
    /\ \A a \in Attempts : Exists(at[a].root) /\ Exists(at[a].doc)
    /\ length \in [Attempts -> [Roots -> Nat]]

Init ==
    /\ chain = [c \in Roots |-> << {} >>]
    /\ lock = [e \in Envelopes |-> None]
    /\ \E d \in Roots \X {1} :
          at = [a \in Attempts |-> [pc |-> "idle", root |-> d, doc |-> d, read |-> FALSE]]
    /\ length = [a \in Attempts |-> [c \in Roots |-> 1]]

-----------------------------------------------------------------------------
(* Begin *)

\* The request names a document, current or not.
Begin(a, d) ==
    /\ at[a].pc = "idle"
    /\ Exists(d)
    /\ at' = [at EXCEPT ![a] = [pc   |-> IF a \in Wired THEN "envelope" ELSE "lock",
                                root |-> d, doc |-> d, read |-> FALSE]]
    /\ length' = [length EXCEPT ![a] = [c \in Roots |-> Live(c)]]
    /\ UNCHANGED <<chain, lock>>

\* GetEnvelope and RootDocument: an envelope that cannot be read, or names no
\* document, leaves the client's id as the root.
GetEnvelope(a) ==
    /\ at[a].pc = "envelope"
    /\ \/ at' = [at EXCEPT ![a].pc = "head", ![a].root = <<RootOf[EnvelopeOf[a]], 1>>,
                           ![a].read = TRUE]
       \/ Unreadable /\ at' = [at EXCEPT ![a].pc = "head"]
    /\ UNCHANGED <<chain, lock, length>>

\* Variant: a head that cannot be resolved leaves the client's document.
unresolved_Guess == "lock"

\* Where a Begin goes whose head could not be resolved.
unresolved == "failed"

\* Variant: a chain without a signed head is not told from one with a head.
headDoc_Unsigned(root) == {<<root[1], Live(root[1]) - 1>>}

\* What CurrentHead may lead to.  The store resolves heads by root id; for the
\* id of a later version it may name the head or none, and none makes the
\* conductor sign the document it asked about.
headDoc(root) ==
    {<<root[1], Live(root[1])>>} \cup (IF root[2] = 1 THEN {} ELSE {root})

CurrentHead(a) ==
    /\ at[a].pc = "head"
    /\ \/ \E d \in headDoc(at[a].root) : at' = [at EXCEPT ![a].pc = "lock", ![a].doc = d]
       \/ at' = [at EXCEPT ![a].pc = unresolved]
    /\ UNCHANGED <<chain, lock, length>>

\* The gate is the envelope's, whatever chain the document belongs to.
AcquireLock(a) ==
    /\ at[a].pc = "lock"
    /\ LET e == EnvelopeOf[a]
       IN IF lock[e] = None
          THEN /\ lock' = [lock EXCEPT ![e] = a]
               /\ at' = [at EXCEPT ![a].pc = "prepare"]
          ELSE /\ at' = [at EXCEPT ![a].pc = "refused"]
               /\ UNCHANGED lock
    /\ UNCHANGED <<chain, length>>

\* An attempt drops its own hold.
Release(a) == lock' = [lock EXCEPT ![EnvelopeOf[a]] = IF @ = a THEN None ELSE @]

\* Content, Prepare and SaveJob succeed, or the deferred release runs.
Prepare(a) ==
    /\ at[a].pc = "prepare"
    /\ \/ at' = [at EXCEPT ![a].pc = "flight"] /\ UNCHANGED lock
       \/ at' = [at EXCEPT ![a].pc = "failed"] /\ Release(a)
    /\ UNCHANGED <<chain, length>>

-----------------------------------------------------------------------------
(* finalize, abandon and the lock's time limit *)

\* Variant: the document's chain is asked for its head once more.
parentOf_Live(a) == <<at[a].doc[1], Live(at[a].doc[1])>>

\* The signed PDF is stored against the document that was signed.
parentOf(a) == at[a].doc

\* The store takes it only if that document is the live head.
StoreSignedDocument(a) ==
    /\ at[a].pc = "flight"
    /\ LET c == at[a].doc[1]
       IN IF parentOf(a)[2] = Live(c)
          THEN /\ chain' = [chain EXCEPT ![c] = Append(@, @[at[a].doc[2]] \cup {a})]
               /\ at' = [at EXCEPT ![a].pc = "stored"]
               /\ Release(a)
          ELSE at' = [at EXCEPT ![a].pc = "refused"] /\ UNCHANGED <<chain, lock>>
    /\ UNCHANGED length

\* The hold of an envelope ends early: abandoned, or its time ran out.
LockEnds(e) ==
    /\ lock[e] # None
    /\ lock' = [lock EXCEPT ![e] = None]
    /\ UNCHANGED <<chain, at, length>>

-----------------------------------------------------------------------------
Step(a) ==
    \/ \E c \in Roots : \E n \in 1 .. Live(c) : Begin(a, <<c, n>>)
    \/ GetEnvelope(a) \/ CurrentHead(a) \/ AcquireLock(a) \/ Prepare(a)
    \/ StoreSignedDocument(a)

Next == (\E a \in Attempts : Step(a)) \/ \E e \in Envelopes : LockEnds(e)

Spec == Init /\ [][Next]_rvars

-----------------------------------------------------------------------------
(* Properties *)

\* No chain ever loses a signature, also where the lock does not keep its
\* signers apart: two envelopes over one document, a client's id in place of an
\* unreadable envelope, a lock that ended early (the document store's
\* "correctness floor" beneath the gate).
NoSignatureLost ==
    [][\A c \in Roots :
         chain'[c] # chain[c] => chain[c][Len(chain[c])] \subseteq chain'[c][Len(chain'[c])]]_rvars

InFlight(a) == at[a].pc \in {"lock", "prepare", "flight", "stored"}

\* With the envelope read, a signer gets its envelope's chain and a version at
\* least as new as the head at the time the request came in, whatever document
\* id its client holds.
SignsLiveHead ==
    \A a \in Attempts :
        InFlight(a) /\ at[a].read =>
            /\ at[a].doc[1] = RootOf[EnvelopeOf[a]]
            /\ at[a].doc[2] >= length[a][at[a].doc[1]]

\* What CONTRIBUTING.md and README.md say: the chain comes from the envelope and
\* never from the document id the client sent.
ClientNotTrusted ==
    \A a \in Attempts :
        a \in Wired /\ at[a].pc = "stored" => at[a].doc[1] = RootOf[EnvelopeOf[a]]
=============================================================================
