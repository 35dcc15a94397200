---------------------------- MODULE SynchProofs -----------------------------
(***************************************************************************)
(* The invariant holds initially and every step preserves it, and the      *)
(* theorems that follow from it for every number of threads, locks,        *)
(* semaphores and priorities.                                              *)
(***************************************************************************)
EXTENDS SynchLockProofs, SynchThreadProofs, FiniteSetTheorems

\* allocate_tid() releases tid_lock.
LEMMA CreateReleaseStep == ASSUME IInv, CreateRelease PROVE IInv'
<1>1. /\ pc[running] = "create_release" /\ TidLock \in Lock
      /\ CallLockRelease(TidLock, "create_unblock") /\ UNCHANGED createvars
  BY SynchAssumption DEF CreateRelease, At
<1>2. QED
  BY <1>1, CallLockReleaseStep

\* A sequence of the elements of a finite set is a list of them without repetition.
LEMMA BootReady ==
  ASSUME NEW S \in SUBSET Thread, IsFiniteSet(S), NEW q \in Orders(S)
  PROVE  q \in Seq(Thread) /\ IsInjective(q) /\ Range(q) = S
<1>1. Cardinality(S) \in Nat
  BY FS_CardinalityType
<1>2. PICK n \in Nat : n = Cardinality(S)
  BY <1>1
<1>3. q \in [1..n -> S] /\ IsInjective(q) /\ \A x \in S : \E i \in 1..n : q[i] = x
  BY <1>2 DEF Orders, Bijection, Injection, Surjection
<1>4. Range(q) = S
  BY <1>3 DEF Range
<1>5. q \in Seq(Thread)
  BY <1>3
<1>6. QED
  BY <1>3, <1>4, <1>5

\* The state main() reaches after thread_start() satisfies the invariant.
LEMMA InitIInv == Init => IInv
<1> SUFFICES ASSUME Init PROVE IInv
  OBVIOUS
<1>1. /\ Idle \in Thread /\ Main \in Thread /\ Idle # Main
      /\ TIME_SLICE \in Nat \ {0} /\ MaxSleep \in Nat /\ PRI_MAX \in Nat
      /\ Booted \subseteq Thread /\ IsFiniteSet(Booted) /\ Idle \in Booted /\ Main \in Booted
      /\ BootPri \in [Thread -> Priorities]
      /\ NULL \notin Thread
  BY ThreadAssumption, SynchAssumption
<1>2. Cardinality(Booted) \in Nat
  BY <1>1, FS_CardinalityType
<1>3. /\ ready \in Seq(Thread) /\ IsInjective(ready) /\ Range(ready) = Booted \ {Main, Idle}
  <2>1. IsFiniteSet(Booted \ {Main, Idle}) /\ Booted \ {Main, Idle} \in SUBSET Thread
    BY <1>1, FS_Subset
  <2>2. ready \in Orders(Booted \ {Main, Idle})
    BY DEF Init
  <2>3. QED BY <2>1, <2>2, BootReady
<1>4. /\ running = Main
      /\ status = [t \in Thread |-> IF t = Main THEN "RUNNING"
                                    ELSE IF t \in Booted THEN "READY" ELSE "FREE"]
      /\ priority = BootPri /\ base_priority = BootPri
      /\ blocked_ticks = [t \in Thread |-> 0] /\ thread_ticks = 0
      /\ in_external_intr = FALSE /\ yield_on_return = FALSE /\ unvisited = {}
      /\ pc = [t \in Thread |-> IF t = Idle THEN "idle_loop" ELSE "run"]
      /\ arg = [t \in Thread |-> NULL] /\ ret = [t \in Thread |-> NULL]
      /\ walk = [t \in Thread |-> NULL] /\ new = [t \in Thread |-> NoNew]
      /\ value = [s \in Lock \cup Sema |-> IF s \in Lock THEN 1 ELSE 0]
      /\ waiters = [s \in Lock \cup Sema |-> <<>>]
      /\ holder = [l \in Lock |-> NULL] /\ max_priority = [l \in Lock |-> 0]
      /\ locks = [t \in Thread |-> {}] /\ locks_wait = [t \in Thread |-> NULL]
      /\ tid = [t \in Thread |-> IF t \in Booted THEN BootTid[t] ELSE 0]
      /\ next_tid = Cardinality(Booted) + 1
  BY DEF Init
<1>5. TypeOK
  <2>1. NoNew \in [thread : Thread \cup {NULL}, priority : Priorities, tid : Nat]
    BY <1>1 DEF NoNew, Priorities
  <2>2. new \in [Thread -> [thread : Thread \cup {NULL}, priority : Priorities, tid : Nat]]
    BY <1>4, <2>1
  <2>3. tid \in [Thread -> Nat]
    <3>1. BootTid \in [Booted -> 1..Cardinality(Booted)]
      BY SynchAssumption
    <3>2. \A t \in Booted : BootTid[t] \in Nat
      BY <1>2, <3>1
    <3>3. QED BY <1>4, <3>2
  <2>4. ThreadTypeOK
    <3>1. /\ blocked_ticks \in [Thread -> 0..MaxSleep]
          /\ thread_ticks \in 0..TIME_SLICE
      BY <1>1, <1>4
    <3>2. status \in [Thread -> Statuses]
      BY <1>4 DEF Statuses
    <3>3. QED BY <1>1, <1>3, <1>4, <3>1, <3>2, Zenon DEF ThreadTypeOK
  <2>5. /\ max_priority \in [Lock -> Priorities]
        /\ next_tid \in Nat
    BY <1>1, <1>2, <1>4 DEF Priorities
  <2>6. /\ pc \in [Thread -> Labels]
        /\ arg \in [Thread -> Lock \cup Sema \cup {NULL}]
        /\ ret \in [Thread -> {"run", "create_read", "create_unblock", NULL}]
        /\ walk \in [Thread -> Lock \cup {NULL}]
        /\ value \in [Lock \cup Sema -> Nat]
        /\ waiters \in [Lock \cup Sema -> Seq(Thread)]
        /\ holder \in [Lock -> Thread \cup {NULL}]
        /\ locks \in [Thread -> SUBSET Lock]
        /\ locks_wait \in [Thread -> Lock \cup {NULL}]
    BY <1>4 DEF Labels
  <2>7. QED BY <2>2, <2>3, <2>4, <2>5, <2>6 DEF TypeOK
<1>6. ControlOK
  BY <1>1, <1>4 DEF ControlOK, InLock
<1>7. IntrOK
  BY <1>1, <1>4 DEF IntrOK
<1>8. ElemOnOneList
  <2>1. {t \in Thread \ {Idle} : status[t] = "READY"} = Booted \ {Main, Idle}
    BY <1>1, <1>4
  <2>2. \A t \in Thread : status[t] = "RUNNING" <=> t = running
    BY <1>1, <1>4
  <2>3. ASSUME NEW s \in Lock \cup Sema
        PROVE  IsInjective(waiters[s]) /\ Range(waiters[s]) = {t \in Thread : WaitsIn(t, s)}
    <3>1. waiters[s] = <<>> /\ DOMAIN waiters[s] = {}
      BY <1>4
    <3>2. {t \in Thread : WaitsIn(t, s)} = {}
      BY <1>4 DEF WaitsIn
    <3>3. IsInjective(waiters[s])
      BY <3>1 DEF IsInjective
    <3>4. Range(waiters[s]) = {}
      BY <3>1 DEF Range
    <3>5. QED BY <3>2, <3>3, <3>4
  <2>4. \A t \in Thread : ~(blocked_ticks[t] > 0)
    BY <1>4
  <2>5. QED BY <1>3, <2>1, <2>2, <2>3, <2>4, Zenon DEF ElemOnOneList
<1>9. NewOK
  <2>1. \A t \in Thread : ~InCreate(t)
    BY <1>4, SynchAssumption DEF InCreate, Labels
  <2>2. QED BY <2>1 DEF NewOK
<1>10. LockOK
  BY <1>4 DEF LockOK
<1>11. MutualExclusion
  <2>1. \A l \in Lock : Owners(l) = {}
    BY <1>1, <1>4 DEF Owners
  <2>2. \A l \in Lock : value[l] = 1
    BY <1>4
  <2>3. QED BY <2>1, <2>2 DEF MutualExclusion
<1>12. QED
  BY <1>5, <1>6, <1>7, <1>8, <1>9, <1>10, <1>11 DEF IInv

\* A step that changes nothing preserves the invariant.
LEMMA StutterStep == ASSUME IInv, UNCHANGED vars PROVE IInv'
<1>1. UNCHANGED <<running, ready, status, priority, base_priority, blocked_ticks, thread_ticks,
                  in_external_intr, yield_on_return, unvisited, pc, arg, ret, walk, new, value,
                  waiters, holder, max_priority, locks, locks_wait, tid, next_tid>>
  BY DEF vars, tvars, svars
<1>2. TypeOK'
  BY <1>1 DEF IInv, TypeOK, ThreadTypeOK
<1>3. ControlOK' /\ IntrOK' /\ LockOK'
  BY <1>1, Zenon DEF IInv, ControlOK, IntrOK, LockOK
<1>4. ElemOnOneList'
  BY <1>1, QuietLists, Zenon
<1>5. NewOK'
  BY <1>1, QuietNew DEF InCreate
<1>6. MutualExclusion'
  BY <1>1, QuietMutex DEF IInv
<1>7. QED
  BY <1>2, <1>3, <1>4, <1>5, <1>6 DEF IInv

\* Every call a client thread makes preserves the invariant.
LEMMA ClientStepIInv == ASSUME IInv, ClientStep PROVE IInv'
<1>1. CASE ClientLock
  <2>1. PICK l \in Lock \ {TidLock} : CallLockAcquire(l, "run") \/ CallLockRelease(l, "run")
    BY <1>1 DEF ClientLock
  <2>2. At("run") /\ pc[running] = "run" /\ UNCHANGED createvars
    BY <1>1 DEF ClientLock, At
  <2>3. QED
    BY <2>1, <2>2, CallLockAcquireStep, CallLockReleaseStep
<1>2. CASE ClientSema
  BY <1>2, CallSemaDownStep, CallSemaTryDownStep, CallSemaUpStep DEF ClientSema
<1>3. CASE ClientSleep
  BY <1>3, CallTimerSleepStep DEF ClientSleep
<1>4. CASE ClientYield
  BY <1>4, CallThreadYieldStep DEF ClientYield
<1>5. CASE ClientSetPriority
  BY <1>5, CallSetPriorityStep DEF ClientSetPriority
<1>6. CASE ClientCreate
  BY <1>6, CallThreadCreateStep DEF ClientCreate
<1>7. CASE ClientExit
  BY <1>7, CallThreadExitStep DEF ClientExit
<1>8. QED
  BY <1>1, <1>2, <1>3, <1>4, <1>5, <1>6, <1>7 DEF ClientStep

\* Every step preserves the invariant.
LEMMA NextIInv == IInv /\ [Next]_vars => IInv'
<1> SUFFICES ASSUME IInv, [Next]_vars PROVE IInv'
  OBVIOUS
<1>1. CASE KernelStep
  BY <1>1, AcquireWaitStep, AcquireTestStep, AcquireMaxStep, AcquireDonateStep, AcquireNextStep,
     AcquireDownStep, AcquireOwnStep, DownLoopStep, ReleaseHolderStep, ReleaseUpStep, IdleLoopStep
     DEF KernelStep
<1>2. CASE CreateStep
  BY <1>2, CreateReadStep, CreateWriteStep, CreateReleaseStep, CreateUnblockStep, CreateCheckStep
     DEF CreateStep
<1>3. CASE ClientStep
  BY <1>3, ClientStepIInv
<1>4. CASE Interrupt
  BY <1>4, TimerStep, DeviceInterruptStep, VisitBlockedStep, ReturnFromIntrStep DEF Interrupt
<1>5. CASE Halted
  BY <1>5, StutterStep DEF Halted
<1>6. CASE UNCHANGED vars
  BY <1>6, StutterStep
<1>7. QED
  BY <1>1, <1>2, <1>3, <1>4, <1>5, <1>6 DEF Next

\* The invariant holds in every reachable state, whatever calls the threads make and
\* wherever the interrupts fall.
THEOREM Invariance == Spec => []IInv
<1>1. QED
  BY InitIInv, NextIInv, PTL DEF Spec

\* No variable of the scheduler or of a lock ever leaves its type.
THEOREM TypeCorrect == Spec => []TypeOK
<1>1. IInv => TypeOK
  BY DEF IInv
<1>2. QED
  BY <1>1, Invariance, PTL

\* Every thread is on exactly the list its status calls for, once: the single list
\* element of a struct thread never corrupts the ready list or a list of waiters.
THEOREM ListsIntact == Spec => []ElemOnOneList
<1>1. IInv => ElemOnOneList
  BY DEF IInv
<1>2. QED
  BY <1>1, Invariance, PTL

\* lock_acquire() and lock_release() give mutual exclusion: at most one thread is
\* between sema_down() and sema_up() of a lock, and the value of its semaphore says
\* whether there is one.
THEOREM LockExcludes == Spec => []MutualExclusion
<1>1. IInv => MutualExclusion
  BY DEF IInv
<1>2. QED
  BY <1>1, Invariance, PTL
=============================================================================
