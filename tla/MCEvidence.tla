----------------------------- MODULE MCEvidence ----------------------------
(***************************************************************************)
(* Instances of Evidence: a signer of a PDF, one of a container, a session *)
(* whose login does not permit the flow it asks for, and a form that the   *)
(* conductor does not drive.                                               *)
(***************************************************************************)
EXTENDS Evidence, TLC

CONSTANTS s1, s2, c1, c2, a1, a2

MCSlots    == {s1, s2}
MCCallers  == {c1, c2}
AnyCallers == {c1, c2, None}

Ask(s, c, flow, format) ==
    [slot |-> s, caller |-> c, login |-> "webEid", flow |-> flow, format |-> format]

\* One slot signs in each form.
OneOfEachForm == {Ask(s1, c1, "webEid", "PAdES"), Ask(s2, c2, "webEid", "XAdES")}
Mixed == OneOfEachForm \cup {Ask(s2, c2, "eidScan", "XAdES"), Ask(s1, c1, "webEid", "CAdES")}

\* Two signers of the container, or one of the PDF and one who is refused.
CoSigners == {i \in [Attempts -> Mixed] :
                 <<i[a1].format, i[a2].format>> \in {<<"XAdES", "XAdES">>, <<"PAdES", "CAdES">>}}

CoSignersInit == EvidenceInit /\ input \in CoSigners
FairCoSigners == CoSignersInit /\ [][EvidenceNext]_evars /\ EvidenceFairness

Symmetry == Permutations(Attempts) \cup Permutations(Requests)
=============================================================================
