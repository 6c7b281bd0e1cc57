---------------------------- MODULE SigningJob -----------------------------
(***************************************************************************)
(* What the conductor promises of a signing job, without its handlers,     *)
(* calls and documents: a job is saved once, gets at most one signature    *)
(* record, ends failed or completed and stays so, is completed only once   *)
(* its signature is on record, and the envelope service hears of completed *)
(* jobs only.  README.md of the service calls this idempotent finalization *)
(* and conductor-terminal states.                                          *)
(***************************************************************************)
EXTENDS Naturals

CONSTANT Attempts

VARIABLES
    phase,      \* phase[a]: "none", "open", or a terminal state
    records,    \* records[a]: number of signature records of the job
    heard       \* jobs the envelope service was told of

jvars == <<phase, records, heard>>

JobInit ==
    /\ phase = [a \in Attempts |-> "none"]
    /\ records = [a \in Attempts |-> 0]
    /\ heard = {}

Move(a, from, to) ==
    /\ phase[a] = from
    /\ phase' = [phase EXCEPT ![a] = to]

Save(a) ==
    /\ \E st \in {"open", "failed"} : Move(a, "none", st)
    /\ UNCHANGED <<records, heard>>

Fail(a)     == Move(a, "open", "failed") /\ records[a] = 0 /\ UNCHANGED <<records, heard>>
Complete(a) == Move(a, "open", "completed") /\ records[a] = 1 /\ UNCHANGED <<records, heard>>

Record(a) ==
    /\ phase[a] = "open"
    /\ records[a] = 0
    /\ records' = [records EXCEPT ![a] = 1]
    /\ UNCHANGED <<phase, heard>>

Hear(a) ==
    /\ phase[a] = "completed"
    /\ heard' = heard \cup {a}
    /\ UNCHANGED <<phase, records>>

JobNext == \E a \in Attempts : Save(a) \/ Fail(a) \/ Record(a) \/ Complete(a) \/ Hear(a)

Spec == JobInit /\ [][JobNext]_jvars
=============================================================================
