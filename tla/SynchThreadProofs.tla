-------------------------- MODULE SynchThreadProofs -------------------------
(***************************************************************************)
(* The steps of the thread layer preserve the invariant: thread_create(),  *)
(* thread_yield(), thread_set_priority(), thread_exit(), the idle thread,  *)
(* timer_sleep() and the timer interrupt.                                  *)
(***************************************************************************)
EXTENDS SynchInvariant

\* allocate_tid() reads next_tid.
LEMMA CreateReadStep == ASSUME IInv, CreateRead PROVE IInv'
<1>1. running \in Thread /\ pc[running] = "create_read"
  BY DEF IInv, TypeOK, ThreadTypeOK, CreateRead, At
<1>2. /\ pc' = [pc EXCEPT ![running] = "create_write"]
      /\ new' = [new EXCEPT ![running].tid = next_tid]
      /\ UNCHANGED <<running, ready, status, priority, base_priority, blocked_ticks,
                     thread_ticks, in_external_intr, yield_on_return, unvisited, arg,
                     ret, walk, value, waiters, holder, max_priority, locks,
                     locks_wait, tid, next_tid>>
  BY DEF CreateRead, Goto, tvars, semavars, lockvars, createvars
<1>3. TypeOK'
  <2>1. new' \in [Thread -> [thread : Thread \cup {NULL}, priority : Priorities, tid : Nat]]
    BY <1>1, <1>2, Zenon DEF IInv, TypeOK
  <2>2. QED BY <1>1, <1>2, <2>1 DEF IInv, TypeOK, ThreadTypeOK, Labels
<1>4. ControlOK'
  BY <1>1, <1>2, SynchAssumption DEF IInv, ControlOK, InLock, TypeOK
<1>5. IntrOK'
  BY <1>2 DEF IInv, IntrOK
<1>6. ElemOnOneList'
  BY <1>1, <1>2, QuietLists DEF IInv, TypeOK
<1>7. NewOK'
  BY <1>1, <1>2, QuietNew DEF IInv, TypeOK, InCreate
<1>8. LockOK'
  BY <1>1, <1>2, SynchAssumption DEF IInv, LockOK, ControlOK, InLock, TypeOK
<1>9. MutualExclusion'
  BY <1>1, <1>2, QuietMutex DEF IInv, TypeOK
<1>10. QED
  BY <1>3, <1>4, <1>5, <1>6, <1>7, <1>8, <1>9 DEF IInv

\* allocate_tid() stores next_tid.
LEMMA CreateWriteStep == ASSUME IInv, CreateWrite PROVE IInv'
<1>1. running \in Thread /\ pc[running] = "create_write"
  BY DEF IInv, TypeOK, ThreadTypeOK, CreateWrite, At
<1>2. /\ pc' = [pc EXCEPT ![running] = "create_release"]
      /\ next_tid' = new[running].tid + 1
      /\ UNCHANGED <<running, ready, status, priority, base_priority, blocked_ticks,
                     thread_ticks, in_external_intr, yield_on_return, unvisited, arg,
                     ret, walk, new, value, waiters, holder, max_priority, locks,
                     locks_wait, tid>>
  BY DEF CreateWrite, Goto, tvars, semavars, lockvars, createvars
<1>3. TypeOK'
  <2>1. next_tid' \in Nat
    BY <1>1, <1>2 DEF IInv, TypeOK
  <2>2. QED BY <1>1, <1>2, <2>1 DEF IInv, TypeOK, ThreadTypeOK, Labels
<1>4. ControlOK'
  BY <1>1, <1>2, SynchAssumption DEF IInv, ControlOK, InLock, TypeOK
<1>5. IntrOK'
  BY <1>2 DEF IInv, IntrOK
<1>6. ElemOnOneList'
  BY <1>1, <1>2, QuietLists DEF IInv, TypeOK
<1>7. NewOK'
  BY <1>1, <1>2, QuietNew DEF IInv, TypeOK, InCreate
<1>8. LockOK'
  BY <1>1, <1>2, SynchAssumption DEF IInv, LockOK, ControlOK, InLock, TypeOK
<1>9. MutualExclusion'
  BY <1>1, <1>2, QuietMutex DEF IInv, TypeOK
<1>10. QED
  BY <1>3, <1>4, <1>5, <1>6, <1>7, <1>8, <1>9 DEF IInv

\* thread_yield() called by a client.
LEMMA CallThreadYieldStep == ASSUME IInv, At("run"), CallThreadYield PROVE IInv'
<1>1. /\ priority \in [Thread -> Int] /\ priority \in [Thread -> Priorities]
      /\ base_priority \in [Thread -> Priorities] /\ yield_on_return \in BOOLEAN
      /\ in_external_intr = FALSE /\ unvisited = {}
  BY DEF IInv, TypeOK, ThreadTypeOK, Priorities, At, IntrOK
<1>2. /\ ThreadYield(status, ready, priority)
      /\ UNCHANGED <<priority, base_priority, blocked_ticks, in_external_intr, yield_on_return,
                     unvisited, pc, arg, ret, walk, new, value, waiters, holder, max_priority,
                     locks, locks_wait, tid, next_tid>>
  BY DEF CallThreadYield, intrvars, svars
<1>3. QED
  BY <1>1, <1>2, YieldStep, Zenon

\* thread_set_priority().
LEMMA CallSetPriorityStep ==
  ASSUME IInv, At("run"), NEW p \in Priorities, CallSetPriority(p) PROVE IInv'
<1>1. /\ running \in Thread /\ priority \in [Thread -> Priorities]
      /\ base_priority \in [Thread -> Priorities] /\ yield_on_return \in BOOLEAN
      /\ in_external_intr = FALSE /\ unvisited = {} /\ thread_ticks # TIME_SLICE
  BY DEF IInv, TypeOK, ThreadTypeOK, At, IntrOK
<1>2. /\ base_priority' \in [Thread -> Priorities]
      /\ UNCHANGED <<blocked_ticks, in_external_intr, yield_on_return,
                     unvisited, pc, arg, ret, walk, new, value, waiters, holder, max_priority,
                     locks, locks_wait, tid, next_tid>>
  BY <1>1 DEF CallSetPriority, intrvars, svars
<1>3. CASE locks[running] = {} \/ p > priority[running]
  <2>1. PICK pri : pri = [priority EXCEPT ![running] = p]
    BY Zenon
  <2>2. priority' = pri /\ ThreadYield(status, ready, pri)
    BY <1>3, <2>1 DEF CallSetPriority
  <2>3. pri \in [Thread -> Priorities] /\ pri \in [Thread -> Int]
    BY <1>1, <2>1 DEF Priorities
  <2>4. QED
    BY <1>1, <1>2, <2>2, <2>3, YieldStep, Zenon
<1>4. CASE ~(locks[running] = {} \/ p > priority[running])
  <2>1. UNCHANGED <<priority, running, ready, status, thread_ticks>>
    BY <1>4 DEF CallSetPriority, schedvars
  <2>2. QED
    BY <1>1, <1>2, <2>1, QuietStep, Zenon
<1>5. QED
  BY <1>3, <1>4

\* The end of intr_handler(), with or without thread_yield().
LEMMA ReturnFromIntrStep == ASSUME IInv, ReturnFromIntr PROVE IInv'
<1>1. /\ priority \in [Thread -> Int] /\ priority \in [Thread -> Priorities]
      /\ base_priority \in [Thread -> Priorities] /\ unvisited = {}
      /\ thread_ticks = TIME_SLICE => yield_on_return
  BY DEF IInv, TypeOK, ThreadTypeOK, Priorities, IntrOK, ReturnFromIntr, IntrReturn
<1>2. /\ in_external_intr' = FALSE /\ yield_on_return' = FALSE
      /\ UNCHANGED <<priority, base_priority, blocked_ticks,
                     unvisited, pc, arg, ret, walk, new, value, waiters, holder, max_priority,
                     locks, locks_wait, tid, next_tid>>
  BY DEF ReturnFromIntr, IntrReturn, svars
<1>3. CASE yield_on_return
  <2>1. ThreadYield(status, ready, priority)
    BY <1>3 DEF ReturnFromIntr, IntrReturn
  <2>2. QED
    BY <1>1, <1>2, <2>1, YieldStep, Zenon
<1>4. CASE ~yield_on_return
  <2>1. UNCHANGED <<running, ready, status, thread_ticks>>
    BY <1>4 DEF ReturnFromIntr, IntrReturn
  <2>2. QED
    BY <1>1, <1>2, <1>4, <2>1, QuietStep, Zenon
<1>5. QED
  BY <1>3, <1>4

\* thread_create() puts the new thread on the ready list: no other creator has it.
LEMMA CreateUnblockStep == ASSUME IInv, CreateUnblock PROVE IInv'
<1> DEFINE n == new[running].thread
<1>1. /\ running \in Thread /\ running # Idle /\ ~in_external_intr
      /\ pc[running] = "create_unblock" /\ ret[running] = NULL
      /\ status[running] = "RUNNING"
      /\ pc \in [Thread -> Labels]
  BY Zenon DEF IInv, TypeOK, ThreadTypeOK, ControlOK, InLock, ElemOnOneList, CreateUnblock, At
<1>2. /\ n \in Thread \ {Idle} /\ status[n] = "BLOCKED" /\ pc[n] = "run" /\ blocked_ticks[n] = 0
      /\ \A u \in Thread : InCreate(u) /\ new[u].thread = n => u = running
  BY <1>1 DEF IInv, NewOK, InCreate
<1>3. tid' \in [Thread -> Nat]
  <2>1. new[running].tid \in Nat /\ tid \in [Thread -> Nat]
    BY <1>1 DEF IInv, TypeOK
  <2>2. QED
    BY <1>2, <2>1 DEF CreateUnblock
<1>4. /\ status' = UnblockedStatus(n)
      /\ ready' = UnblockedReady(n)
      /\ pc' = [pc EXCEPT ![running] = "create_check"]
      /\ UNCHANGED <<running, priority, base_priority, blocked_ticks, thread_ticks,
                     in_external_intr, yield_on_return, unvisited, arg, ret, walk, new, value,
                     waiters, holder, max_priority, locks, locks_wait, next_tid>>
  BY DEF CreateUnblock, Goto, intrvars, semavars, lockvars
<1> HIDE DEF n
<1>5. /\ pc' \in [Thread -> Labels]
      /\ pc'[running] = "create_check"
      /\ \A t \in Thread \ {running} : pc'[t] = pc[t]
  BY <1>1, <1>4 DEF Labels
<1>6. /\ ready' \in Seq(Thread)
      /\ status' \in [Thread -> Statuses]
      /\ status'[n] = "READY"
      /\ \A u \in Thread \ {n} : status'[u] = status[u]
      /\ ElemOnOneList'
  <2>1. \A u \in Thread : blocked_ticks'[u] > 0 => blocked_ticks[u] > 0 /\ u # n
    BY <1>2, <1>4
  <2>2. QED
    BY <1>2, <1>4, <1>5, <2>1, UnblockLists
<1>7. TypeOK'
  BY <1>3, <1>4, <1>5, <1>6 DEF IInv, TypeOK, ThreadTypeOK
<1>8. ControlOK'
  BY <1>1, <1>2, <1>4, <1>5, <1>6, ControlKept DEF InLock
<1>9. IntrOK'
  BY <1>1, <1>4 DEF IInv, IntrOK
<1>10. NewOK'
  <2>1. \A u \in Thread : InCreate(u)' => InCreate(u) /\ u # running
    BY <1>1, <1>4, <1>5, SynchAssumption DEF InCreate, Labels
  <2>2. SUFFICES ASSUME NEW u \in Thread, InCreate(u)'
        PROVE  /\ new[u].thread \in Thread \ {Idle}
               /\ status'[new[u].thread] = "BLOCKED"
               /\ pc'[new[u].thread] = "run"
               /\ blocked_ticks[new[u].thread] = 0
               /\ \A v \in Thread : InCreate(v)' /\ new[v].thread = new[u].thread => v = u
    BY <1>4 DEF NewOK
  <2>3. InCreate(u) /\ new[u].thread # n
    BY <1>2, <2>1, <2>2
  <2>4. /\ new[u].thread \in Thread \ {Idle}
        /\ status[new[u].thread] = "BLOCKED"
        /\ pc[new[u].thread] = "run"
        /\ blocked_ticks[new[u].thread] = 0
        /\ \A v \in Thread : InCreate(v) /\ new[v].thread = new[u].thread => v = u
    BY <2>3 DEF IInv, NewOK
  <2>5. QED
    BY <1>1, <1>5, <1>6, <2>1, <2>3, <2>4
<1>11. LockOK'
  BY <1>4, <1>5, LockKept
<1>12. MutualExclusion'
  BY <1>1, <1>4, <1>5, QuietMutex DEF IInv
<1>13. QED
  BY <1>6, <1>7, <1>8, <1>9, <1>10, <1>11, <1>12 DEF IInv

\* check_blocked() of one thread.
LEMMA VisitBlockedStep == ASSUME IInv, VisitBlocked PROVE IInv'
<1>1. PICK t \in unvisited : CheckBlocked(t) /\ UNCHANGED svars
  BY DEF VisitBlocked
<1>2. /\ t \in Thread \ {Idle} /\ status[t] = "BLOCKED" /\ blocked_ticks[t] > 0
      /\ pc[t] # "down_loop"
      /\ blocked_ticks \in [Thread -> 0..MaxSleep] /\ MaxSleep \in Nat
      /\ running \in Thread /\ status[running] = "RUNNING"
  BY <1>1, ThreadAssumption DEF IInv, TypeOK, ThreadTypeOK, IntrOK, ElemOnOneList
<1>3. /\ in_external_intr
      /\ unvisited' = unvisited \ {t}
      /\ blocked_ticks' = [blocked_ticks EXCEPT ![t] = @ - 1]
      /\ UNCHANGED <<running, priority, base_priority, thread_ticks, in_external_intr,
                     yield_on_return, pc, arg, ret, walk, new, value, waiters, holder,
                     max_priority, locks, locks_wait, tid, next_tid>>
  BY <1>1 DEF CheckBlocked, svars
<1>4. /\ blocked_ticks' \in [Thread -> 0..MaxSleep]
      /\ blocked_ticks'[t] = blocked_ticks[t] - 1
      /\ \A u \in Thread \ {t} : blocked_ticks'[u] = blocked_ticks[u]
  BY <1>2, <1>3
<1>5. /\ ready' \in Seq(Thread)
      /\ status' \in [Thread -> Statuses]
      /\ \A u \in Thread \ {t} : status'[u] = status[u]
      /\ status'[t] \in {"READY", "BLOCKED"}
      /\ ElemOnOneList'
  <2>1. CASE blocked_ticks[t] = 1
    <3>1. status' = UnblockedStatus(t) /\ ready' = UnblockedReady(t)
      BY <1>1, <2>1 DEF CheckBlocked
    <3>2. \A u \in Thread : blocked_ticks'[u] > 0 => blocked_ticks[u] > 0 /\ u # t
      BY <1>2, <1>4, <2>1
    <3>3. QED
      BY <1>2, <1>3, <3>1, <3>2, UnblockLists
  <2>2. CASE blocked_ticks[t] # 1
    <3>1. UNCHANGED <<status, ready>>
      BY <1>1, <2>2 DEF CheckBlocked
    <3>2. \A u \in Thread, s \in Lock \cup Sema : WaitsIn(u, s)' <=> WaitsIn(u, s)
      BY <1>3, <3>1 DEF WaitsIn
    <3>3. \A s \in Lock \cup Sema : {u \in Thread : WaitsIn(u, s)}' = {u \in Thread : WaitsIn(u, s)}
      BY <3>2
    <3>4. \A u \in Thread : blocked_ticks'[u] > 0 => status'[u] = "BLOCKED" /\ pc'[u] # "down_loop"
      BY <1>2, <1>3, <1>4, <3>1 DEF IInv, ElemOnOneList
    <3>5. ElemOnOneList'
      BY <1>3, <3>1, <3>3, <3>4 DEF IInv, ElemOnOneList
    <3>6. QED
      BY <1>2, <3>1, <3>5 DEF IInv, TypeOK, ThreadTypeOK
  <2>3. QED BY <2>1, <2>2
<1>6. TypeOK'
  BY <1>3, <1>4, <1>5, Zenon DEF IInv, TypeOK, ThreadTypeOK
<1>7. ControlOK'
  BY <1>2, <1>3, <1>5, ControlSame, Zenon
<1>8. IntrOK'
  BY <1>2, <1>3, <1>4, <1>5, ThreadAssumption DEF IInv, IntrOK, TypeOK, ThreadTypeOK
<1>9. NewOK'
  <2>1. \A u \in Thread : InCreate(u)' => InCreate(u)
    BY <1>3 DEF InCreate
  <2>2. QED
    <3>1. \A u \in Thread \ {Idle} :
            status[u] = "BLOCKED" /\ pc[u] = "run" /\ blocked_ticks[u] = 0
              => status'[u] = "BLOCKED" /\ pc'[u] = "run" /\ blocked_ticks'[u] = 0
      BY <1>2, <1>3, <1>4, <1>5
    <3>2. QED BY <1>3, <2>1, <3>1, NewKept, Zenon
<1>10. LockOK'
  BY <1>3, LockKept
<1>11. MutualExclusion'
  BY <1>3, QuietMutex DEF IInv
<1>12. QED
  BY <1>5, <1>6, <1>7, <1>8, <1>9, <1>10, <1>11 DEF IInv

\* The idle thread blocks and halts.
LEMMA IdleLoopStep == ASSUME IInv, IdleLoop PROVE IInv'
<1>1. /\ running \in Thread /\ running = Idle /\ ~in_external_intr /\ pc[running] = "idle_loop"
      /\ status[running] = "RUNNING" /\ ret[running] = NULL
      /\ pc \in [Thread -> Labels]
      /\ blocked_ticks[Idle] = 0
  BY Zenon DEF IInv, TypeOK, ThreadTypeOK, ControlOK, InLock, ElemOnOneList, IntrOK, IdleLoop, At
<1>2. /\ ThreadBlock
      /\ pc' = [pc EXCEPT ![running] = "idle_hlt"]
      /\ UNCHANGED <<priority, base_priority, blocked_ticks, in_external_intr, yield_on_return,
                     unvisited, arg, ret, walk, new, value, waiters, holder, max_priority, locks,
                     locks_wait, tid, next_tid>>
  BY DEF IdleLoop, Goto, intrvars, semavars, lockvars, createvars
<1>3. /\ pc' \in [Thread -> Labels]
      /\ pc'[running] = "idle_hlt"
      /\ \A t \in Thread \ {running} : pc'[t] = pc[t]
  BY <1>1, <1>2 DEF Labels
<1>4. \A u \in Thread : blocked_ticks'[u] > 0 => u # running /\ blocked_ticks[u] > 0
  BY <1>1, <1>2
<1>5. /\ running' \in Thread
      /\ ready' \in Seq(Thread)
      /\ status' \in [Thread -> Statuses]
      /\ thread_ticks' = 0
      /\ \A u \in Thread \ {Idle, running} : status[u] = "BLOCKED" => status'[u] = "BLOCKED"
      /\ \A u \in Thread \ {running} :
           status'[u] \in {"FREE", "DYING"} => status[u] \in {"FREE", "DYING"}
      /\ status'[running] \in {"BLOCKED", "RUNNING"}
      /\ ElemOnOneList'
  BY <1>2, <1>3, <1>4, ScheduleLists DEF ThreadBlock
<1>6. TypeOK'
  <2>1. 0 \in 0..TIME_SLICE
    BY SliceBound
  <2>2. ThreadTypeOK'
    BY <1>2, <1>5, <2>1, Zenon DEF IInv, TypeOK, ThreadTypeOK
  <2>3. QED
    BY <1>2, <1>3, <2>2 DEF IInv, TypeOK
<1>7. ControlOK'
  BY <1>1, <1>2, <1>3, <1>5 DEF IInv, ControlOK, InLock
<1>8. IntrOK'
  BY <1>1, <1>2, <1>5, SliceBound DEF IInv, IntrOK
<1>9. NewOK'
  <2>1. \A t \in Thread : InCreate(t)' => InCreate(t)
    BY <1>1, <1>2, <1>3, Zenon DEF InCreate
  <2>2. QED
    BY <1>1, <1>2, <1>3, <1>5, <2>1, NewKept, Zenon
<1>10. LockOK'
  BY <1>2, <1>3, LockKept
<1>11. MutualExclusion'
  BY <1>1, <1>2, <1>3, QuietMutex DEF IInv
<1>12. QED
  BY <1>5, <1>6, <1>7, <1>8, <1>9, <1>10, <1>11 DEF IInv

\* timer_sleep().
LEMMA CallTimerSleepStep ==
  ASSUME IInv, At("run"), NEW n \in 1..MaxSleep, CallTimerSleep(n) PROVE IInv'
<1>1. /\ running \in Thread /\ running # Idle /\ ~in_external_intr /\ pc[running] = "run"
      /\ status[running] = "RUNNING" /\ ret[running] = NULL
      /\ blocked_ticks \in [Thread -> 0..MaxSleep] /\ MaxSleep \in Nat
  BY ThreadAssumption, Zenon
     DEF IInv, TypeOK, ThreadTypeOK, ControlOK, InLock, ElemOnOneList, At
<1>2. /\ ThreadBlock
      /\ blocked_ticks' = [blocked_ticks EXCEPT ![running] = n]
      /\ UNCHANGED <<priority, base_priority, in_external_intr, yield_on_return, unvisited, pc,
                     arg, ret, walk, new, value, waiters, holder, max_priority, locks,
                     locks_wait, tid, next_tid>>
  BY DEF CallTimerSleep, TimerSleep, svars
<1>3. /\ blocked_ticks' \in [Thread -> 0..MaxSleep]
      /\ \A t \in Thread \ {running} : blocked_ticks'[t] = blocked_ticks[t]
  BY <1>1, <1>2
<1>4. /\ running' \in Thread
      /\ ready' \in Seq(Thread)
      /\ status' \in [Thread -> Statuses]
      /\ thread_ticks' = 0
      /\ \A u \in Thread \ {Idle, running} : status[u] = "BLOCKED" => status'[u] = "BLOCKED"
      /\ \A u \in Thread \ {running} :
           status'[u] \in {"FREE", "DYING"} => status[u] \in {"FREE", "DYING"}
      /\ status'[running] \in {"BLOCKED", "RUNNING"}
      /\ ElemOnOneList'
  BY <1>1, <1>2, <1>3, ScheduleLists DEF ThreadBlock
<1>5. TypeOK'
  <2>1. 0 \in 0..TIME_SLICE
    BY SliceBound
  <2>2. ThreadTypeOK'
    BY <1>2, <1>3, <1>4, <2>1 DEF IInv, TypeOK, ThreadTypeOK
  <2>3. QED
    BY <1>2, <2>2 DEF IInv, TypeOK
<1>6. ControlOK'
  BY <1>1, <1>2, <1>4, ControlSame
<1>7. IntrOK'
  BY <1>1, <1>2, <1>3, <1>4, SliceBound DEF IInv, IntrOK
<1>8. NewOK'
  <2>1. \A t \in Thread : InCreate(t)' => InCreate(t)
    BY <1>2 DEF InCreate
  <2>2. QED
    BY <1>1, <1>2, <1>3, <1>4, <2>1, NewKept
<1>9. LockOK'
  BY <1>2, LockKept
<1>10. MutualExclusion'
  BY <1>2, QuietMutex DEF IInv
<1>11. QED
  BY <1>4, <1>5, <1>6, <1>7, <1>8, <1>9, <1>10 DEF IInv

\* thread_exit(): the page of the thread is free and on no list.
LEMMA CallThreadExitStep == ASSUME IInv, At("run"), CallThreadExit PROVE IInv'
<1> DEFINE x == IF running = Main THEN "DYING" ELSE "FREE"
<1>1. /\ running \in Thread /\ running # Idle /\ ~in_external_intr /\ pc[running] = "run"
      /\ status[running] = "RUNNING" /\ ret[running] = NULL
      /\ ~(blocked_ticks[running] > 0)
  BY Zenon DEF IInv, TypeOK, ThreadTypeOK, ControlOK, InLock, ElemOnOneList, At
<1>2. /\ Schedule([status EXCEPT ![running] = x], ready)
      /\ tid' = [tid EXCEPT ![running] = 0]
      /\ UNCHANGED <<priority, base_priority, blocked_ticks, in_external_intr, yield_on_return,
                     unvisited, pc, arg, ret, walk, new, value, waiters, holder, max_priority,
                     locks, locks_wait, next_tid>>
  BY Zenon DEF CallThreadExit, ThreadExit, semavars, lockvars
<1>3. x \in {"BLOCKED", "DYING", "FREE"}
  OBVIOUS
<1>4. x # "BLOCKED"
  OBVIOUS
<1> HIDE DEF x
<1>5. \A u \in Thread : blocked_ticks'[u] > 0 => u # running /\ blocked_ticks[u] > 0
  BY <1>1, <1>2
<1>6. /\ running' \in Thread
      /\ ready' \in Seq(Thread)
      /\ status' \in [Thread -> Statuses]
      /\ thread_ticks' = 0
      /\ \A u \in Thread \ {Idle, running} : status[u] = "BLOCKED" => status'[u] = "BLOCKED"
      /\ \A u \in Thread \ {running} :
           status'[u] \in {"FREE", "DYING"} => status[u] \in {"FREE", "DYING"}
      /\ ElemOnOneList'
  BY <1>1, <1>2, <1>3, <1>5, ScheduleLists, Zenon
<1>7. TypeOK'
  <2>1. 0 \in 0..TIME_SLICE
    BY SliceBound
  <2>2. ThreadTypeOK'
    BY <1>2, <1>6, <2>1, Zenon DEF IInv, TypeOK, ThreadTypeOK
  <2>3. tid' \in [Thread -> Nat]
    BY <1>1, <1>2 DEF IInv, TypeOK
  <2>4. QED
    BY <1>2, <2>2, <2>3 DEF IInv, TypeOK
<1>8. ControlOK'
  BY <1>1, <1>2, <1>6, ControlKept DEF InLock
<1>9. IntrOK'
  BY <1>1, <1>2, <1>6, SliceBound DEF IInv, IntrOK
<1>10. NewOK'
  <2>1. \A t \in Thread : InCreate(t)' => InCreate(t)
    BY <1>2, Zenon DEF InCreate
  <2>2. QED
    BY <1>1, <1>2, <1>6, <2>1, NewKept, Zenon
<1>11. LockOK'
  BY <1>2, LockKept
<1>12. MutualExclusion'
  BY <1>2, QuietMutex DEF IInv
<1>13. QED
  BY <1>6, <1>7, <1>8, <1>9, <1>10, <1>11, <1>12 DEF IInv

\* thread_create() yields to a more urgent new thread.
LEMMA CreateCheckStep == ASSUME IInv, CreateCheck PROVE IInv'
<1>1. /\ running \in Thread /\ running # Idle /\ ~in_external_intr
      /\ pc[running] = "create_check" /\ ret[running] = NULL /\ status[running] = "RUNNING"
      /\ pc \in [Thread -> Labels]
  BY Zenon DEF IInv, TypeOK, ThreadTypeOK, ControlOK, InLock, ElemOnOneList, CreateCheck, At
<1>2. /\ new' = [new EXCEPT ![running] = NoNew]
      /\ pc' = [pc EXCEPT ![running] = "run"]
      /\ UNCHANGED <<priority, base_priority, blocked_ticks, in_external_intr, yield_on_return,
                     unvisited, arg, ret, walk, value, waiters, holder, max_priority, locks,
                     locks_wait, tid, next_tid>>
  BY DEF CreateCheck, Goto, intrvars, semavars, lockvars
<1>3. /\ pc' \in [Thread -> Labels]
      /\ pc'[running] = "run"
      /\ \A t \in Thread \ {running} : pc'[t] = pc[t]
  BY <1>1, <1>2 DEF Labels
<1>4. /\ running' \in Thread
      /\ ready' \in Seq(Thread)
      /\ status' \in [Thread -> Statuses]
      /\ thread_ticks' \in 0..TIME_SLICE /\ thread_ticks' # TIME_SLICE
      /\ \A t \in Thread \ {Idle} : status[t] = "BLOCKED" => status'[t] = "BLOCKED"
      /\ \A t \in Thread :
           status'[t] \in {"FREE", "DYING"} => status[t] = status'[t] /\ t # running
      /\ ElemOnOneList'
  <2>1. CASE priority[running] < new[running].priority
    <3>1. ThreadYield(status, ready, priority)
      BY <2>1 DEF CreateCheck
    <3>2. 0 \in 0..TIME_SLICE /\ 0 # TIME_SLICE
      BY SliceBound
    <3>3. priority \in [Thread -> Int]
      BY DEF IInv, TypeOK, ThreadTypeOK, Priorities
    <3>4. QED BY <1>1, <1>2, <1>3, <3>1, <3>2, <3>3, YieldPlain
  <2>2. CASE ~(priority[running] < new[running].priority)
    <3>1. UNCHANGED <<running, ready, status, thread_ticks>>
      BY <2>2 DEF CreateCheck, schedvars
    <3>2. ElemOnOneList'
      BY <1>2, <1>3, <3>1, QuietLists
    <3>3. QED BY <1>1, <3>1, <3>2 DEF IInv, TypeOK, ThreadTypeOK, IntrOK
  <2>3. QED BY <2>1, <2>2
<1>5. TypeOK'
  <2>1. NoNew \in [thread : Thread \cup {NULL}, priority : Priorities, tid : Nat]
    BY ThreadAssumption DEF NoNew, Priorities
  <2>2. new' \in [Thread -> [thread : Thread \cup {NULL}, priority : Priorities, tid : Nat]]
    BY <1>2, <2>1, Zenon DEF IInv, TypeOK
  <2>3. ThreadTypeOK'
    BY <1>2, <1>4, Zenon DEF IInv, TypeOK, ThreadTypeOK
  <2>4. QED
    BY <1>2, <1>3, <2>2, <2>3 DEF IInv, TypeOK
<1>6. ControlOK'
  BY <1>1, <1>2, <1>3, <1>4, ControlKept DEF InLock
<1>7. IntrOK'
  BY <1>1, <1>2, <1>4 DEF IInv, IntrOK
<1>8. NewOK'
  <2>1. \A t \in Thread : InCreate(t)' => InCreate(t) /\ t # running
    BY <1>1, <1>2, <1>3, SynchAssumption DEF InCreate, Labels
  <2>2. \A t \in Thread \ {running} : new'[t] = new[t]
    BY <1>2 DEF IInv, TypeOK
  <2>3. QED
    BY <1>1, <1>2, <1>3, <1>4, <2>1, <2>2, NewKept
<1>9. LockOK'
  BY <1>2, <1>3, LockKept
<1>10. MutualExclusion'
  BY <1>1, <1>2, <1>3, QuietMutex DEF IInv
<1>11. QED
  BY <1>4, <1>5, <1>6, <1>7, <1>8, <1>9, <1>10 DEF IInv

\* timer_interrupt() up to its loop over the threads.
LEMMA TimerStep == ASSUME IInv, Timer PROVE IInv'
<1>1. /\ running \in Thread /\ ~in_external_intr
      /\ thread_ticks \in 0..TIME_SLICE /\ thread_ticks # TIME_SLICE /\ TIME_SLICE \in Nat
      /\ pc[Idle] \in {"idle_loop", "idle_hlt"} /\ Idle \in Thread
  BY ThreadAssumption
     DEF IInv, TypeOK, ThreadTypeOK, ControlOK, IntrOK, Timer, InterruptsOn
<1>2. /\ in_external_intr' = TRUE
      /\ thread_ticks' = thread_ticks + 1
      /\ yield_on_return' = (thread_ticks + 1 >= TIME_SLICE)
      /\ unvisited' = {t \in Thread : status[t] = "BLOCKED" /\ blocked_ticks[t] > 0}
      /\ running = Idle => pc' = [pc EXCEPT ![running] = "idle_loop"]
      /\ running # Idle => pc' = pc
      /\ UNCHANGED <<running, ready, status, priority, base_priority, blocked_ticks, arg, ret,
                     walk, new, value, waiters, holder, max_priority, locks, locks_wait, tid,
                     next_tid>>
  BY DEF Timer, TimerInterrupt, Sleepers, Goto, semavars, lockvars, createvars
<1>3. /\ pc' \in [Thread -> Labels]
      /\ \A t \in Thread : pc'[t] = pc[t] \/ (t = Idle /\ pc'[t] = "idle_loop")
  BY <1>2, IdlePc
<1>4. pc'[Idle] \in {"idle_loop", "idle_hlt"} /\ \A t \in Thread \ {Idle} : pc'[t] = pc[t]
  BY <1>1, <1>3
<1>5. TypeOK'
  <2>1. thread_ticks' \in 0..TIME_SLICE
    <3>1. thread_ticks' = thread_ticks + 1
      BY <1>2, Zenon
    <3>2. QED BY <1>1, <3>1
  <2>2. unvisited' \subseteq Thread /\ yield_on_return' \in BOOLEAN /\ in_external_intr' \in BOOLEAN
    <3>1. unvisited' = {t \in Thread : status[t] = "BLOCKED" /\ blocked_ticks[t] > 0}
      BY <1>2, Zenon
    <3>2. yield_on_return' = (thread_ticks + 1 >= TIME_SLICE)
      BY <1>2, Zenon
    <3>3. (thread_ticks + 1 >= TIME_SLICE) \in BOOLEAN
      BY <1>1
    <3>4. yield_on_return' \in BOOLEAN
      BY <3>2, <3>3, Zenon
    <3>5. in_external_intr' \in BOOLEAN
      BY <1>2, Zenon
    <3>6. QED BY <3>1, <3>4, <3>5, Zenon
  <2>3. ThreadTypeOK'
    BY <1>2, <2>1, <2>2 DEF IInv, TypeOK, ThreadTypeOK
  <2>4. QED
    BY <1>2, <1>3, <2>3 DEF IInv, TypeOK
<1>6. ControlOK'
  BY <1>1, <1>2, <1>3 DEF IInv, ControlOK, InLock
<1>7. IntrOK'
  <2>1. thread_ticks' = TIME_SLICE => yield_on_return'
    <3>1. thread_ticks' = TIME_SLICE => thread_ticks + 1 >= TIME_SLICE
      <4>1. thread_ticks' = thread_ticks + 1
        BY <1>2
      <4>2. QED BY <1>1, <4>1
    <3>2. yield_on_return' = (thread_ticks + 1 >= TIME_SLICE)
      BY <1>2
    <3>3. QED BY <3>1, <3>2, Zenon
  <2>2. QED BY <1>2, <2>1 DEF IInv, IntrOK
<1>8. ElemOnOneList'
  BY <1>1, <1>2, <1>3, <1>4, QuietLists
<1>9. NewOK'
  <2>1. \A t \in Thread : InCreate(t)' => InCreate(t)
    BY <1>2, <1>3 DEF InCreate
  <2>2. QED
    BY <1>2, <1>4, <2>1, NewKept
<1>10. LockOK'
  BY <1>2, <1>3, LockKept
<1>11. MutualExclusion'
  BY <1>1, <1>2, <1>3, QuietMutex DEF IInv
<1>12. QED
  BY <1>5, <1>6, <1>7, <1>8, <1>9, <1>10, <1>11 DEF IInv

\* The first part of thread_create(): a free page becomes a blocked thread that only
\* its creator knows.
LEMMA CallThreadCreateStep ==
  ASSUME IInv, At("run"), NEW t \in Thread, NEW p \in Priorities, CallThreadCreate(t, p)
  PROVE  IInv'
<1>1. /\ running \in Thread /\ running # Idle /\ pc[running] = "run" /\ ret[running] = NULL
      /\ ~in_external_intr /\ unvisited = {}
      /\ pc \in [Thread -> Labels] /\ status[running] = "RUNNING"
      /\ arg \in [Thread -> Lock \cup Sema \cup {NULL}]
      /\ ret \in [Thread -> {"run", "create_read", "create_unblock", NULL}]
      /\ "create_read" # NULL /\ TidLock \in Lock
  BY SynchAssumption, Zenon
     DEF IInv, TypeOK, ThreadTypeOK, ControlOK, InLock, ElemOnOneList, IntrOK, At, Labels
<1>2. /\ status[t] = "FREE" /\ pc[t] = "run" /\ t # Idle /\ t # running
      /\ status \in [Thread -> Statuses]
      /\ new \in [Thread -> [thread : Thread \cup {NULL}, priority : Priorities, tid : Nat]]
  BY <1>1, Zenon DEF CallThreadCreate, IInv, TypeOK, ThreadTypeOK, ControlOK
<1>3. PICK lbl \in {"acq_wait", "acq_down"} : pc' = [pc EXCEPT ![running] = lbl]
  BY Zenon DEF CallThreadCreate, Goto
<1>4. /\ status' = [status EXCEPT ![t] = "BLOCKED"]
      /\ priority' = [priority EXCEPT ![t] = p]
      /\ base_priority' = [base_priority EXCEPT ![t] = p]
      /\ locks' = [locks EXCEPT ![t] = {}]
      /\ locks_wait' = [locks_wait EXCEPT ![t] = NULL]
      /\ blocked_ticks' = [blocked_ticks EXCEPT ![t] = 0]
      /\ new' = [new EXCEPT ![running] = [thread |-> t, priority |-> p, tid |-> 0]]
      /\ arg' = [arg EXCEPT ![running] = TidLock]
      /\ ret' = [ret EXCEPT ![running] = "create_read"]
      /\ UNCHANGED <<running, ready, thread_ticks, in_external_intr, yield_on_return, unvisited,
                     walk, value, waiters, holder, max_priority, tid, next_tid>>
  BY DEF CallThreadCreate, semavars
<1>5. /\ pc' \in [Thread -> Labels] /\ pc'[running] = lbl
      /\ arg' \in [Thread -> Lock \cup Sema \cup {NULL}] /\ arg'[running] = TidLock
      /\ ret' \in [Thread -> {"run", "create_read", "create_unblock", NULL}]
      /\ ret'[running] = "create_read"
      /\ \A u \in Thread \ {running} : pc'[u] = pc[u] /\ arg'[u] = arg[u] /\ ret'[u] = ret[u]
  BY <1>1, <1>3, <1>4 DEF Labels
<1>6. /\ status' \in [Thread -> Statuses] /\ status'[t] = "BLOCKED"
      /\ \A u \in Thread \ {t} : status'[u] = status[u]
  BY <1>2, <1>4 DEF Statuses
<1>7. /\ blocked_ticks' \in [Thread -> 0..MaxSleep] /\ blocked_ticks'[t] = 0
      /\ \A u \in Thread \ {t} : blocked_ticks'[u] = blocked_ticks[u]
  BY <1>4, ThreadAssumption DEF IInv, TypeOK, ThreadTypeOK
<1>8. /\ new' \in [Thread -> [thread : Thread \cup {NULL}, priority : Priorities, tid : Nat]]
      /\ new'[running].thread = t
      /\ \A u \in Thread \ {running} : new'[u] = new[u]
  <2>1. [thread |-> t, priority |-> p, tid |-> 0]
          \in [thread : Thread \cup {NULL}, priority : Priorities, tid : Nat]
    OBVIOUS
  <2>2. QED BY <1>1, <1>2, <1>4, <2>1
<1>9. TypeOK'
  <2>1. /\ priority' \in [Thread -> Priorities] /\ base_priority' \in [Thread -> Priorities]
        /\ locks' \in [Thread -> SUBSET Lock] /\ locks_wait' \in [Thread -> Lock \cup {NULL}]
    BY <1>4 DEF IInv, TypeOK, ThreadTypeOK
  <2>2. ThreadTypeOK'
    BY <1>4, <1>6, <1>7, <2>1, Zenon DEF IInv, TypeOK, ThreadTypeOK
  <2>3. QED BY <1>4, <1>5, <1>8, <2>1, <2>2, Zenon DEF IInv, TypeOK
<1>10. ControlOK'
  BY <1>1, <1>2, <1>3, <1>4, <1>5, <1>6, ControlKept, Zenon DEF InLock
<1>11. IntrOK'
  BY <1>1, <1>2, <1>4, <1>7, SliceBound DEF IInv, IntrOK
<1>12. ElemOnOneList'
  <2>1. \A u \in Thread, s \in Lock \cup Sema : WaitsIn(u, s)' <=> WaitsIn(u, s)
    BY <1>1, <1>2, <1>5, <1>6 DEF WaitsIn
  <2>2. \A s \in Lock \cup Sema : {u \in Thread : WaitsIn(u, s)}' = {u \in Thread : WaitsIn(u, s)}
    BY <2>1
  <2>3. \A u \in Thread : blocked_ticks'[u] > 0 => status'[u] = "BLOCKED" /\ pc'[u] # "down_loop"
    <3>1. \A u \in Thread : blocked_ticks'[u] > 0 => u # t /\ blocked_ticks[u] > 0
      BY <1>7
    <3>2. \A u \in Thread : blocked_ticks[u] > 0 => status[u] = "BLOCKED" /\ pc[u] # "down_loop"
      BY DEF IInv, ElemOnOneList
    <3>3. pc'[running] # "down_loop"
      BY <1>3, <1>5
    <3>4. QED BY <1>5, <1>6, <3>1, <3>2, <3>3
  <2>4. {u \in Thread \ {Idle} : status'[u] = "READY"} = {u \in Thread \ {Idle} : status[u] = "READY"}
    BY <1>2, <1>6
  <2>5. \A u \in Thread : status'[u] = "RUNNING" <=> u = running
    BY <1>2, <1>6, Zenon DEF IInv, ElemOnOneList
  <2>6. QED
    BY <1>4, <2>2, <2>3, <2>4, <2>5, Zenon DEF IInv, ElemOnOneList
<1>13. NewOK'
  <2>1. \A u \in Thread : InCreate(u)' => u = running \/ InCreate(u)
    BY <1>5, Zenon DEF InCreate
  <2>2. ASSUME NEW u \in Thread, InCreate(u)', u # running
        PROVE  /\ new'[u].thread \in Thread \ {Idle} /\ new'[u].thread # t
               /\ status'[new'[u].thread] = "BLOCKED"
               /\ pc'[new'[u].thread] = "run"
               /\ blocked_ticks'[new'[u].thread] = 0
               /\ \A v \in Thread \ {running} :
                    InCreate(v)' /\ new'[v].thread = new'[u].thread => v = u
    <3>1. InCreate(u) /\ new'[u] = new[u]
      BY <1>8, <2>1, <2>2
    <3>2. /\ new[u].thread \in Thread \ {Idle}
          /\ status[new[u].thread] = "BLOCKED"
          /\ pc[new[u].thread] = "run"
          /\ blocked_ticks[new[u].thread] = 0
          /\ \A v \in Thread : InCreate(v) /\ new[v].thread = new[u].thread => v = u
      BY <3>1, Zenon DEF IInv, NewOK
    <3>3. new[u].thread # t /\ new[u].thread # running
      BY <1>1, <1>2, <3>2
    <3>4. /\ status'[new[u].thread] = "BLOCKED"
          /\ pc'[new[u].thread] = "run"
          /\ blocked_ticks'[new[u].thread] = 0
      BY <1>5, <1>6, <1>7, <3>2, <3>3
    <3>5. \A v \in Thread \ {running} :
            InCreate(v)' /\ new'[v].thread = new'[u].thread => v = u
      BY <1>8, <2>1, <3>1, <3>2
    <3>6. QED
      BY <3>1, <3>2, <3>3, <3>4, <3>5
  <2>3. ASSUME NEW u \in Thread, u = running
        PROVE  /\ new'[u].thread \in Thread \ {Idle}
               /\ status'[new'[u].thread] = "BLOCKED"
               /\ pc'[new'[u].thread] = "run"
               /\ blocked_ticks'[new'[u].thread] = 0
               /\ \A v \in Thread : InCreate(v)' /\ new'[v].thread = new'[u].thread => v = u
    BY <1>2, <1>5, <1>6, <1>7, <1>8, <2>2, <2>3
  <2>4. ASSUME NEW u \in Thread, InCreate(u)', u # running
        PROVE  \A v \in Thread : InCreate(v)' /\ new'[v].thread = new'[u].thread => v = u
    BY <1>8, <2>2, <2>4, Zenon
  <2>5. QED
    BY <2>2, <2>3, <2>4, Zenon DEF NewOK
<1>14. LockOK'
  BY <1>3, <1>4, <1>5, LockKept
<1>15. MutualExclusion'
  BY <1>1, <1>3, <1>4, <1>5, QuietMutex, Zenon DEF IInv
<1>16. QED
  BY <1>9, <1>10, <1>11, <1>12, <1>13, <1>14, <1>15 DEF IInv

=============================================================================
