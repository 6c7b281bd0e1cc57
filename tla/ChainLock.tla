----------------------------- MODULE ChainLock -----------------------------
(***************************************************************************)
(* The record store's co-sign lock (src/store/memory.go, the contract that *)
(* src/store/postgres.go calls) and the long-poll that watches it          *)
(* (WaitChainFree).  The lock of a chain is a row with the holding slot    *)
(* and an expiry; nothing removes an expired row, every reader compares    *)
(* the expiry with the clock.  Time is kept relative: left = expires - now *)
(* in ticks, floored at 0, so that expires.After(now) is left > 0.         *)
(***************************************************************************)
EXTENDS Naturals

CONSTANTS
    Chains,             \* chain keys (envelope ids)
    Slots,              \* signature slots
    NoSlot,             \* "no such slot"
    Waiters,            \* blocked co-signers' long-polls
    SigningLockTTL,     \* signingLockTTLSeconds, in ticks
    DefaultTTL,         \* the store's default for a TTL that is not positive
    MaxChainFreeWait    \* maxChainFreeWait, in ticks

ASSUME ChainLockAssumption ==
    /\ NoSlot \notin Slots
    /\ SigningLockTTL \in Nat
    /\ DefaultTTL \in Nat \ {0}
    /\ MaxChainFreeWait \in Nat

VARIABLES
    locks,      \* locks[k]: the row of chain k (slot = NoSlot: no row)
    waits       \* waits[w]: one WaitChainFree call

vars == <<locks, waits>>

NoRow == [slot |-> NoSlot, left |-> 0]

TTLUsed(ttl) == IF ttl = 0 THEN DefaultTTL ELSE ttl

\* Longest hold one acquisition can give.
MaxHold == TTLUsed(SigningLockTTL)

TypeOK ==
    /\ locks \in [Chains -> [slot : Slots \cup {NoSlot}, left : 0 .. MaxHold]]
    /\ waits \in [Waiters -> [pc    : {"idle", "waiting", "free", "busy", "failed"},
                              chain : Chains,
                              left  : 0 .. MaxChainFreeWait]]

Init ==
    /\ locks = [k \in Chains |-> NoRow]
    /\ waits \in [Waiters -> [pc : {"idle"}, chain : Chains, left : {0}]]

-----------------------------------------------------------------------------
(* The store's three operations *)

\* Variant: a row counts as held although its time is up.
Unexpired_RowExists(k) == locks[k].slot # NoSlot

\* cur.expires.After(now)
Unexpired(k) == locks[k].left > 0

\* Variant: the holder is not compared, any slot overwrites an unexpired row.
AcquireChainLock_AnySlot(k, s, ttl) ==
    /\ locks' = [locks EXCEPT ![k] = [slot |-> s, left |-> TTLUsed(ttl)]]
    /\ UNCHANGED waits

\* Refused exactly when another slot's row has not expired; the holder's own
\* slot re-acquires, which restarts its time.
AcquireChainLock(k, s, ttl) ==
    /\ ~(Unexpired(k) /\ locks[k].slot # s)
    /\ locks' = [locks EXCEPT ![k] = [slot |-> s, left |-> TTLUsed(ttl)]]
    /\ UNCHANGED waits

\* Drops the caller's own row only.
ReleaseChainLock(k, s) ==
    /\ locks[k].slot = s
    /\ locks' = [locks EXCEPT ![k] = NoRow]
    /\ UNCHANGED waits

ChainLockStatus(k) == IF Unexpired(k) THEN locks[k].slot ELSE NoSlot

-----------------------------------------------------------------------------
(* WaitChainFree *)

\* The route caps the requested wait, then the deadline is fixed once.
WaitChainFree(w, k, wait) ==
    /\ waits[w].pc = "idle"
    /\ waits' = [waits EXCEPT ![w] = [pc |-> "waiting", chain |-> k, left |-> wait]]
    /\ UNCHANGED locks

\* Variant: the loop without its deadline test.
CheckChainFree_NoDeadline(w) ==
    /\ waits[w].pc = "waiting"
    /\ ChainLockStatus(waits[w].chain) = NoSlot
    /\ waits' = [waits EXCEPT ![w].pc = "free"]
    /\ UNCHANGED locks

\* One turn of the loop: free answers at once, a held chain answers only when
\* the deadline has passed, otherwise the loop sleeps and looks again.
CheckChainFree(w) ==
    /\ waits[w].pc = "waiting"
    /\ \/ /\ ChainLockStatus(waits[w].chain) = NoSlot
          /\ waits' = [waits EXCEPT ![w].pc = "free"]
       \/ /\ ChainLockStatus(waits[w].chain) # NoSlot
          /\ waits[w].left = 0
          /\ waits' = [waits EXCEPT ![w].pc = "busy"]
    /\ UNCHANGED locks

\* The lock cannot be read, or the caller is gone.
FailWait(w) ==
    /\ waits[w].pc = "waiting"
    /\ waits' = [waits EXCEPT ![w].pc = "failed"]
    /\ UNCHANGED locks

\* The answer is sent; the caller may call again to keep waiting.
AnswerWaiter(w) ==
    /\ waits[w].pc \in {"free", "busy", "failed"}
    /\ waits' = [waits EXCEPT ![w].pc = "idle", ![w].left = 0]
    /\ UNCHANGED locks

\* Variant: the difference is not floored.
Elapse_NoFloor(n) == n - 1

\* One tick of the clock: every expiry and every deadline comes closer.
Elapse(n) == IF n = 0 THEN 0 ELSE n - 1

Tick ==
    /\ locks' = [k \in Chains |-> [locks[k] EXCEPT !.left = Elapse(@)]]
    /\ waits' = [w \in Waiters |-> [waits[w] EXCEPT !.left = Elapse(@)]]

-----------------------------------------------------------------------------
Next ==
    \/ \E k \in Chains, s \in Slots :
          \/ AcquireChainLock(k, s, SigningLockTTL)
          \/ ReleaseChainLock(k, s)
    \/ \E w \in Waiters :
          \/ \E k \in Chains, n \in 0 .. MaxChainFreeWait : WaitChainFree(w, k, n)
          \/ CheckChainFree(w)
          \/ FailWait(w)
          \/ AnswerWaiter(w)
    \/ Tick

Spec == Init /\ [][Next]_vars

\* The clock runs, and a waiter's loop keeps turning.
Fairness ==
    /\ WF_vars(Tick)
    /\ \A w \in Waiters : WF_vars(CheckChainFree(w))

FairSpec == Spec /\ Fairness

-----------------------------------------------------------------------------
(* Properties *)

\* The slot whose hold on chain k is in force.
LiveHolder(k) == IF Unexpired(k) THEN locks[k].slot ELSE NoSlot

Lease(k) == INSTANCE LeaseLock WITH holder <- LiveHolder(k)

\* Every chain's row with its expiry implements the lease: although expired
\* rows stay in the table and are overwritten or released late, the hold in
\* force never moves from one slot to another without the chain having been
\* free (AcquireChainLock's refusal, ReleaseChainLock's slot check, expiry).
LeaseRefined ==
    /\ \A k \in Chains : Lease(k)!Init
    /\ [][\A k \in Chains : [Lease(k)!Next]_(LiveHolder(k))]_vars

\* A WaitChainFree call always answers, however often the chain is taken again
\* while it waits (the deadline is fixed once, before the loop).
WaiterAnswered ==
    \A w \in Waiters : waits[w].pc = "waiting" ~> waits[w].pc # "waiting"

\* A chain that nobody re-acquires frees by itself: either it is free again and
\* again, or some slot takes or refreshes it again and again (the TTL is the
\* backstop against a crashed signing wedging the chain).
UnattendedChainFrees ==
    \A k \in Chains :
        \/ []<>(LiveHolder(k) = NoSlot)
        \/ []<><<\E s \in Slots : AcquireChainLock(k, s, SigningLockTTL)>>_vars
=============================================================================
