----------------------------- MODULE MCResolve -----------------------------
(***************************************************************************)
(* Instances of Resolve: three envelopes over two documents, two of the    *)
(* envelopes sharing one.                                                  *)
(***************************************************************************)
EXTENDS Resolve

CONSTANTS e1, e2, e3, d1, d2, a1, a2, a3

MCEnvelopes  == {e1, e2, e3}
MCRoots      == {d1, d2}
MCAttempts   == {a1, a2, a3}
SharedRoot   == [e \in MCEnvelopes |-> IF e = e3 THEN d2 ELSE d1]

\* One attempt for each envelope, and two for the same envelope.
OneEach      == [a \in MCAttempts |-> IF a = a1 THEN e1 ELSE IF a = a2 THEN e2 ELSE e3]
TwoOfOne     == [a \in MCAttempts |-> IF a = a3 THEN e2 ELSE e1]
=============================================================================
