---------------------------- MODULE MCChainLock ----------------------------
(***************************************************************************)
(* ChainLock on two chains, two slots and one long-poll.                   *)
(***************************************************************************)
EXTENDS ChainLock
=============================================================================
