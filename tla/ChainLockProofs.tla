-------------------------- MODULE ChainLockProofs --------------------------
(***************************************************************************)
(* ChainLock's type invariant, and that every chain's timed row implements *)
(* the lease of module LeaseLock, for any number of chains, slots, waiters *)
(* and any time limit.                                                     *)
(***************************************************************************)
EXTENDS ChainLock, TLAPS

\* A time that is still running belongs to a slot: what LiveHolder shows is
\* NoSlot only when the row has expired or is absent.
RunningIsHeld == \A k \in Chains : Unexpired(k) => locks[k].slot \in Slots

\* TypeOK and RunningIsHeld are inductive together.
LockInv == TypeOK /\ RunningIsHeld

\* The time an acquisition gives is a positive number of ticks (TTLUsed
\* replaces a time limit that is not positive by the default).
LEMMA HoldIsPositive == MaxHold \in Nat /\ MaxHold > 0
  BY ChainLockAssumption DEF MaxHold, TTLUsed

\* A tick brings a time within bounds closer to its end and not below it.
LEMMA ElapseBounds ==
  ASSUME NEW m \in Nat, NEW n \in 0 .. m
  PROVE  /\ Elapse(n) \in 0 .. m
         /\ Elapse(n) > 0 => n > 0
  BY DEF Elapse

\* There are no rows and no waiters at the start.
LEMMA InitLockInv == Init => LockInv
  <1> SUFFICES ASSUME Init PROVE LockInv
    OBVIOUS
  <1>1. TypeOK
    BY HoldIsPositive, ChainLockAssumption DEF Init, TypeOK, NoRow
  <1>2. RunningIsHeld
    BY DEF Init, RunningIsHeld, Unexpired, NoRow
  <1> QED BY <1>1, <1>2 DEF LockInv

\* Every operation of the store and of the waiters, and every tick, keeps the
\* invariant.
LEMMA NextLockInv == LockInv /\ [Next]_vars => LockInv'
  <1> SUFFICES ASSUME LockInv, [Next]_vars PROVE LockInv'
    OBVIOUS
  <1> USE DEF LockInv
  <1>1. ASSUME NEW k \in Chains, NEW s \in Slots, AcquireChainLock(k, s, SigningLockTTL)
        PROVE  LockInv'
    <2>1. TypeOK'
      BY <1>1, HoldIsPositive DEF AcquireChainLock, TypeOK, MaxHold
    <2>2. RunningIsHeld'
      BY <1>1 DEF AcquireChainLock, TypeOK, RunningIsHeld, Unexpired
    <2> QED BY <2>1, <2>2
  <1>2. ASSUME NEW k \in Chains, NEW s \in Slots, ReleaseChainLock(k, s)
        PROVE  LockInv'
    BY <1>2, HoldIsPositive
    DEF ReleaseChainLock, TypeOK, RunningIsHeld, Unexpired, NoRow
  <1>3. ASSUME NEW w \in Waiters, NEW k \in Chains, NEW n \in 0 .. MaxChainFreeWait,
               WaitChainFree(w, k, n)
        PROVE  LockInv'
    BY <1>3 DEF WaitChainFree, TypeOK, RunningIsHeld, Unexpired
  <1>4. ASSUME NEW w \in Waiters, CheckChainFree(w) \/ FailWait(w) \/ AnswerWaiter(w)
        PROVE  LockInv'
    <2>1. TypeOK'
      <3>1. CASE CheckChainFree(w)
        BY <3>1 DEF CheckChainFree, TypeOK
      <3>2. CASE FailWait(w)
        BY <3>2 DEF FailWait, TypeOK
      <3>3. CASE AnswerWaiter(w)
        <4> DEFINE answered == [waits[w] EXCEPT !.pc = "idle", !.left = 0]
        <4>1. 0 \in 0 .. MaxChainFreeWait
          BY ChainLockAssumption
        <4>2. answered \in [pc    : {"idle", "waiting", "free", "busy", "failed"},
                            chain : Chains,
                            left  : 0 .. MaxChainFreeWait]
          BY <4>1 DEF TypeOK
        <4>3. waits' = [waits EXCEPT ![w] = answered] /\ UNCHANGED locks
          BY <3>3 DEF AnswerWaiter, TypeOK
        <4> HIDE DEF answered
        <4> QED BY <4>2, <4>3 DEF TypeOK
      <3> QED BY <1>4, <3>1, <3>2, <3>3
    <2>2. RunningIsHeld'
      BY <1>4 DEF CheckChainFree, FailWait, AnswerWaiter, RunningIsHeld, Unexpired
    <2> QED BY <2>1, <2>2
  <1>5. CASE Tick
    <2>1. TypeOK'
      <3>1. ASSUME NEW k \in Chains
            PROVE  [locks[k] EXCEPT !.left = Elapse(@)]
                     \in [slot : Slots \cup {NoSlot}, left : 0 .. MaxHold]
        <4>1. Elapse(locks[k].left) \in 0 .. MaxHold
          BY ElapseBounds, HoldIsPositive DEF TypeOK
        <4> QED BY <4>1 DEF TypeOK
      <3>2. ASSUME NEW w \in Waiters
            PROVE  [waits[w] EXCEPT !.left = Elapse(@)]
                     \in [pc    : {"idle", "waiting", "free", "busy", "failed"},
                         chain : Chains,
                         left  : 0 .. MaxChainFreeWait]
        <4>1. Elapse(waits[w].left) \in 0 .. MaxChainFreeWait
          BY ElapseBounds, ChainLockAssumption DEF TypeOK
        <4> QED BY <4>1 DEF TypeOK
      <3> QED BY <1>5, <3>1, <3>2 DEF Tick, TypeOK
    <2>2. RunningIsHeld'
      BY <1>5, ElapseBounds, HoldIsPositive DEF Tick, TypeOK, RunningIsHeld, Unexpired
    <2> QED BY <2>1, <2>2
  <1>6. CASE UNCHANGED vars
    BY <1>6 DEF vars, TypeOK, RunningIsHeld, Unexpired
  <1> QED BY <1>1, <1>2, <1>3, <1>4, <1>5, <1>6 DEF Next

\* The rows and the waiters stay well formed: no time runs below zero or above
\* what an acquisition gives.
THEOREM TypeCorrect == Spec => []TypeOK
  <1>1. LockInv => TypeOK
    BY DEF LockInv
  <1> QED BY InitLockInv, NextLockInv, <1>1, PTL DEF Spec

\* Seen through LiveHolder, a step takes or frees a chain as the lease allows.
LEMMA LeaseStep ==
  ASSUME LockInv, LockInv', [Next]_vars, NEW k \in Chains
  PROVE  [Lease(k)!Next]_(LiveHolder(k))
  <1> USE DEF LockInv, Lease!Next, Lease!Acquire, Lease!Free
  <1>1. ASSUME NEW c \in Chains, NEW s \in Slots, AcquireChainLock(c, s, SigningLockTTL)
        PROVE  [Lease(k)!Next]_(LiveHolder(k))
    <2>1. CASE c = k
      <3>1. locks'[k] = [slot |-> s, left |-> MaxHold]
        BY <1>1, <2>1 DEF AcquireChainLock, TypeOK, MaxHold
      <3>2. LiveHolder(k)' = s
        BY <3>1, HoldIsPositive DEF LiveHolder, Unexpired
      <3>3. LiveHolder(k) \in {NoSlot, s}
        BY <1>1, <2>1 DEF AcquireChainLock, LiveHolder
      <3> QED BY <3>2, <3>3
    <2>2. CASE c # k
      BY <1>1, <2>2 DEF AcquireChainLock, TypeOK, LiveHolder, Unexpired
    <2> QED BY <2>1, <2>2
  <1>2. ASSUME NEW c \in Chains, NEW s \in Slots, ReleaseChainLock(c, s)
        PROVE  [Lease(k)!Next]_(LiveHolder(k))
    BY <1>2 DEF ReleaseChainLock, TypeOK, LiveHolder, Unexpired, NoRow
  <1>3. ASSUME UNCHANGED locks
        PROVE  [Lease(k)!Next]_(LiveHolder(k))
    BY <1>3 DEF LiveHolder, Unexpired
  <1>4. CASE Tick
    <2>1. /\ locks'[k].slot = locks[k].slot
          /\ locks'[k].left > 0 => locks[k].left > 0
      BY <1>4, ElapseBounds, HoldIsPositive DEF Tick, TypeOK
    <2> QED BY <2>1 DEF LiveHolder, Unexpired
  <1> QED BY <1>1, <1>2, <1>3, <1>4
          DEF Next, vars, WaitChainFree, CheckChainFree, FailWait, AnswerWaiter

\* The timed row of every chain implements the lease: the hold in force never
\* passes from slot to slot without the chain having been free.
THEOREM ImplementsLease == Spec => LeaseRefined
  <1>1. Init => \A k \in Chains : Lease(k)!Init
    <2> SUFFICES ASSUME Init, NEW k \in Chains PROVE Lease(k)!Init
      OBVIOUS
    <2>1. locks[k].left = 0
      BY DEF Init, NoRow
    <2> QED BY <2>1 DEF Lease!Init, LiveHolder, Unexpired
  <1>2. LockInv /\ LockInv' /\ [Next]_vars
        => [\A k \in Chains : [Lease(k)!Next]_(LiveHolder(k))]_vars
    BY LeaseStep
  <1> QED BY InitLockInv, NextLockInv, <1>1, <1>2, PTL DEF Spec, LeaseRefined
=============================================================================
