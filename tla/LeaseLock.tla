----------------------------- MODULE LeaseLock -----------------------------
(***************************************************************************)
(* What the store promises about one chain's active-signer lock: at most   *)
(* one slot holds the chain, a hold never passes from one slot to another  *)
(* without the chain having been free in between, and a free chain may be  *)
(* taken by any slot.  Why a hold ended (a release, the time limit) is not *)
(* visible here.                                                           *)
(***************************************************************************)
CONSTANTS
    Slots,      \* the envelope's signature slots
    NoSlot      \* holder of a free chain

VARIABLE
    holder      \* the slot that holds the chain, or NoSlot

Init == holder = NoSlot

\* A slot takes a free chain, or keeps the one it has.
Acquire(s) ==
    /\ holder \in {NoSlot, s}
    /\ holder' = s

\* The hold ends.
Free ==
    /\ holder # NoSlot
    /\ holder' = NoSlot

Next == Free \/ \E s \in Slots : Acquire(s)

Spec == Init /\ [][Next]_holder
=============================================================================
