---------------------------- MODULE MCConductor ----------------------------
(***************************************************************************)
(* Instances of Conductor: two slots, each with its own subject.           *)
(***************************************************************************)
EXTENDS Conductor, TLC

CONSTANTS s1, s2, c1, c2

MCSlots   == {s1, s2}
MCCallers == {c1, c2}

Ask(s, c, login, flow, format) ==
    [slot |-> s, caller |-> c, login |-> login, flow |-> flow, format |-> format]

\* Both slots sign, in both forms; one session asks for a flow its login does
\* not permit, and one for a form the conductor does not drive.
MixedInputs ==
    { Ask(s1, c1, "webEid", "webEid", "PAdES"),
      Ask(s2, c2, "eidScan", "cscEidScan", "PAdES"),
      Ask(s2, c2, "eidScan", "cscEidScan", "XAdES"),
      Ask(s1, c1, "webEid", "eidScan", "XAdES"),
      Ask(s1, c1, "webEid", "webEid", "CAdES") }

\* The two slots' well-formed requests, in both forms.
SigningInputs == {i \in MixedInputs : i.format \in Formats /\ checkBinding(i.login, i.flow)}
                 \cup {Ask(s1, c1, "webEid", "webEid", "XAdES")}

PAdESInputs == {i \in SigningInputs : i.format = "PAdES"}
XAdESInputs == {i \in SigningInputs : i.format = "XAdES"}

Symmetry == Permutations(Attempts) \cup Permutations(Requests)
=============================================================================
