------------------------------ MODULE Archive ------------------------------
(***************************************************************************)
(* Archive timestamps (Conductor.ArchiveDocument) beside the signers of    *)
(* the chain.  An archive takes no lock and keeps no record: it reads a    *)
(* version's bytes, has the provider stamp every signature in them and     *)
(* stores the result in place, under the same document id.  The document   *)
(* store takes it only while that id is the live head.                     *)
(*                                                                         *)
(* A signer of a PDF hands the provider the bytes it read when it began,   *)
(* so the stamps its result carries are those of that moment; a container  *)
(* is merged into the live one.                                            *)
(***************************************************************************)
EXTENDS Conductor

CONSTANT Archivers      \* archive requests

VARIABLES
    stamped,    \* stamped[v]: signatures of version v that carry a timestamp
    seen,       \* seen[a]: stamps in the bytes the provider got for attempt a
    ar          \* ar[x]: the handler of archive request x

avars == <<vars, stamped, seen, ar>>

ArchiverType == [pc   : {"idle", "store", "done", "refused", "failed"},
                 doc  : Nat,            \* the document id asked for
                 file : VersionType]    \* the archived bytes

\* Only signed forms are ever sent to be stored.
ArchiveTypeOK ==
    /\ stamped \in Seq(SUBSET Attempts)
    /\ Len(stamped) = Latest
    /\ \A v \in 1 .. Latest : stamped[v] \subseteq chain[v].sigs
    /\ seen \in [Attempts -> SUBSET Attempts]
    /\ ar \in [Archivers -> ArchiverType]
    /\ \A x \in Archivers : ar[x].pc \in {"store", "done"} => ar[x].file.kind # "source"

ArchiveInit ==
    /\ Init
    /\ stamped = << {} >>
    /\ seen = [a \in Attempts |-> {}]
    /\ ar = [x \in Archivers |-> [pc |-> "idle", doc |-> 0, file |-> chain[1]]]

-----------------------------------------------------------------------------
(* ArchiveDocument *)

\* Variant: an unsigned source is sent on to the provider as well.
archivable_Any(v) == TRUE

archivable(v) == chain[v].kind # "source"

\* Metadata, Content and the provider's Archive: the kind of a version never
\* changes and the provider keeps nothing, so the bytes read are what matters.
ArchiveDocument(x, v, o) ==
    /\ ar[x].pc = "idle"
    /\ ar' = [ar EXCEPT ![x] =
                [pc   |-> IF ~archivable(v) THEN "refused" ELSE IF o = "ok" THEN "store" ELSE "failed",
                 doc  |-> v,
                 file |-> chain[v]]]
    /\ UNCHANGED <<vars, stamped, seen>>

\* Variant: the result is stored against the head of the moment.
archiveTarget_Latest(x) == Latest

\* The document the archived form is stored against.
archiveTarget(x) == ar[x].doc

\* The store replaces the bytes of the head in place; another id is refused
\* (chain advanced) and the caller starts over on the new head.
StoreArchived(x, o) ==
    /\ ar[x].pc = "store"
    /\ LET taken == Applied(o) /\ archiveTarget(x) = Latest
       IN /\ chain' = IF taken THEN [chain EXCEPT ![archiveTarget(x)] = ar[x].file] ELSE chain
          /\ stamped' = IF taken THEN [stamped EXCEPT ![archiveTarget(x)] = ar[x].file.sigs]
                                 ELSE stamped
          /\ ar' = [ar EXCEPT ![x].pc = IF taken /\ o = "ok" THEN "done" ELSE "failed"]
    /\ UNCHANGED <<input, att, jobs, sigs, reports, lock, req, provider, told, abandoned, seen>>

-----------------------------------------------------------------------------
(* The signers' steps, with what becomes of the stamps *)

\* Variant: a co-signer's container replaces the live one.
carried_Container(a) == {}

\* Stamps in the document attempt a stores.
carried(a) == IF isPAdES(a) THEN seen[a] ELSE stamped[Latest]

SignerStep ==
    /\ Next
    /\ stamped' = IF chain' = chain
                  THEN stamped
                  ELSE LET r == CHOOSE q \in Requests : req'[q] # req[q]
                       IN Append(stamped, carried(req[r].job))
    /\ seen' = [a \in Attempts |-> IF provider[a] = "none" /\ provider'[a] # "none"
                                   THEN stamped[att[a].base]
                                   ELSE seen[a]]
    /\ UNCHANGED ar

ArchiverStep(x) ==
    \E o \in Outcomes("collab") :
        \/ \E v \in 1 .. Latest : ArchiveDocument(x, v, o)
        \/ StoreArchived(x, o)

ArchiveNext == SignerStep \/ \E x \in Archivers : ArchiverStep(x)

ArchiveSpec == ArchiveInit /\ [][ArchiveNext]_avars

-----------------------------------------------------------------------------
(* Properties *)

\* To the signers an archive is invisible: although it takes no lock and writes
\* bytes read earlier over a live document, no step of it changes what a version
\* is or which signatures it carries, so all that is shown of the conductor holds
\* beside it (ArchiveDocument: "a concurrent co-sign wins the CAS swap").
ArchiveInvisible == Spec

\* The timestamps of an answered archive are gone from the head only if a PDF
\* signer had read the archived version's bytes before they were replaced;
\* merged containers and later signers keep them.
ArchiveOutlived ==
    \A x \in Archivers :
        ar[x].pc = "done" =>
            \A s \in ar[x].file.sigs \ stamped[Latest] :
                \E a \in chain[Latest].sigs :
                    isPAdES(a) /\ att[a].base = ar[x].doc /\ s \notin seen[a]
=============================================================================
