----------------------------- MODULE MCArchive -----------------------------
(***************************************************************************)
(* Instances of Archive: two co-signers of one chain, in both forms.       *)
(***************************************************************************)
EXTENDS Archive, TLC

CONSTANTS s1, s2, c1, c2

MCSlots   == {s1, s2}
MCCallers == {c1, c2}

Ask(s, c, format) ==
    [slot |-> s, caller |-> c, login |-> "webEid", flow |-> "webEid", format |-> format]

CoSigners == {Ask(s1, c1, "PAdES"), Ask(s2, c2, "PAdES"), Ask(s2, c2, "XAdES")}

Symmetry == Permutations(Attempts) \cup Permutations(Requests) \cup Permutations(Archivers)
=============================================================================
