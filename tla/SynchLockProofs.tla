-------------------------- MODULE SynchLockProofs ---------------------------
(***************************************************************************)
(* The steps of semaphores and locks (synch.c) preserve the invariant: one *)
(* lemma per action.                                                       *)
(***************************************************************************)
EXTENDS SynchInvariant

\* The panic on a NULL holder stops the kernel with its data as they are.
LEMMA FaultStep ==
  ASSUME IInv, Fault, pc[running] \in {"acq_donate", "acq_next"} PROVE IInv'
<1>1. /\ running \in Thread /\ running # Idle
      /\ pc \in [Thread -> Labels] /\ status[running] = "RUNNING"
  BY Zenon DEF IInv, TypeOK, ThreadTypeOK, ControlOK, ElemOnOneList
<1>2. /\ pc' = [pc EXCEPT ![running] = "fault"]
      /\ UNCHANGED <<running, ready, status, priority, base_priority, blocked_ticks, thread_ticks,
                     in_external_intr, yield_on_return, unvisited, arg, ret, walk, new, value,
                     waiters, holder, max_priority, locks, locks_wait, tid, next_tid>>
  BY DEF Fault, Goto, tvars, semavars, lockvars, createvars
<1>3. /\ pc' \in [Thread -> Labels]
      /\ pc'[running] = "fault"
      /\ \A t \in Thread \ {running} : pc'[t] = pc[t]
  BY <1>1, <1>2 DEF Labels
<1>4. TypeOK'
  BY <1>2, <1>3 DEF IInv, TypeOK, ThreadTypeOK
<1>5. ControlOK'
  BY <1>1, <1>2, <1>3, ControlKept DEF InLock
<1>6. IntrOK'
  BY <1>2 DEF IInv, IntrOK
<1>7. ElemOnOneList'
  BY <1>1, <1>2, <1>3, QuietLists
<1>8. NewOK'
  BY <1>1, <1>2, <1>3, QuietNew DEF InCreate
<1>9. LockOK'
  BY <1>2, <1>3, LockKept
<1>10. MutualExclusion'
  BY <1>1, <1>2, <1>3, QuietMutex DEF IInv
<1>11. QED
  BY <1>4, <1>5, <1>6, <1>7, <1>8, <1>9, <1>10 DEF IInv

\* lock_acquire(): t->locks_wait = lock.
LEMMA AcquireWaitStep == ASSUME IInv, AcquireWait PROVE IInv'
<1>1. running \in Thread /\ pc[running] = "acq_wait"
  BY DEF IInv, TypeOK, ThreadTypeOK, AcquireWait, At
<1>2. /\ pc' = [pc EXCEPT ![running] = "acq_test"]
      /\ locks_wait' = [locks_wait EXCEPT ![running] = arg[running]]
      /\ walk' = [walk EXCEPT ![running] = arg[running]]
      /\ UNCHANGED <<running, ready, status, priority, base_priority, blocked_ticks,
                     thread_ticks, in_external_intr, yield_on_return, unvisited, arg,
                     ret, new, value, waiters, holder, max_priority, locks, tid,
                     next_tid>>
  BY DEF AcquireWait, Goto, tvars, semavars, lockvars, createvars
<1>3. TypeOK'
  BY <1>1, <1>2, SynchAssumption, Zenon DEF IInv, TypeOK, ThreadTypeOK, ControlOK, InLock, Labels
<1>4. ControlOK'
  BY <1>1, <1>2, SynchAssumption DEF IInv, ControlOK, InLock, TypeOK
<1>5. IntrOK'
  BY <1>2 DEF IInv, IntrOK
<1>6. ElemOnOneList'
  BY <1>1, <1>2, QuietLists DEF IInv, TypeOK
<1>7. NewOK'
  BY <1>1, <1>2, QuietNew DEF IInv, TypeOK, InCreate
<1>8. LockOK'
  BY <1>1, <1>2, SynchAssumption DEF IInv, LockOK, ControlOK, InLock, TypeOK
<1>9. MutualExclusion'
  BY <1>1, <1>2, QuietMutex DEF IInv, TypeOK
<1>10. QED
  BY <1>3, <1>4, <1>5, <1>6, <1>7, <1>8, <1>9 DEF IInv

\* lock_acquire(): the condition of the donation loop.
LEMMA AcquireTestStep == ASSUME IInv, AcquireTest PROVE IInv'
<1>1. running \in Thread /\ pc[running] = "acq_test"
  BY DEF IInv, TypeOK, ThreadTypeOK, AcquireTest, At
<1>2. /\ pc' = [pc EXCEPT ![running] = IF walk[running] = NULL THEN "acq_down"
                             ELSE IF priority[running] > max_priority[walk[running]]
                             THEN "acq_max" ELSE "acq_down"]
      /\ UNCHANGED <<running, ready, status, priority, base_priority, blocked_ticks,
                     thread_ticks, in_external_intr, yield_on_return, unvisited, arg,
                     ret, walk, new, value, waiters, holder, max_priority, locks,
                     locks_wait, tid, next_tid>>
  BY Zenon DEF AcquireTest, Goto, tvars, semavars, lockvars, createvars
<1>3. TypeOK'
  BY <1>1, <1>2, SynchAssumption, Zenon DEF IInv, TypeOK, ThreadTypeOK, ControlOK, InLock, Labels
<1>4. ControlOK'
  BY <1>1, <1>2, SynchAssumption DEF IInv, ControlOK, InLock, TypeOK
<1>5. IntrOK'
  BY <1>2 DEF IInv, IntrOK
<1>6. ElemOnOneList'
  BY <1>1, <1>2, QuietLists DEF IInv, TypeOK
<1>7. NewOK'
  BY <1>1, <1>2, QuietNew DEF IInv, TypeOK, InCreate
<1>8. LockOK'
  BY <1>1, <1>2, SynchAssumption DEF IInv, LockOK, ControlOK, InLock, TypeOK
<1>9. MutualExclusion'
  BY <1>1, <1>2, QuietMutex DEF IInv, TypeOK
<1>10. QED
  BY <1>3, <1>4, <1>5, <1>6, <1>7, <1>8, <1>9 DEF IInv

\* lock_acquire(): l->max_priority = t->priority.
LEMMA AcquireMaxStep == ASSUME IInv, AcquireMax PROVE IInv'
<1>1. running \in Thread /\ pc[running] = "acq_max"
  BY DEF IInv, TypeOK, ThreadTypeOK, AcquireMax, At
<1>2. /\ pc' = [pc EXCEPT ![running] = "acq_donate"]
      /\ max_priority' = [max_priority EXCEPT ![walk[running]] = priority[running]]
      /\ UNCHANGED <<running, ready, status, priority, base_priority, blocked_ticks,
                     thread_ticks, in_external_intr, yield_on_return, unvisited, arg,
                     ret, walk, new, value, waiters, holder, locks, locks_wait, tid,
                     next_tid>>
  BY DEF AcquireMax, Goto, tvars, semavars, lockvars, createvars
<1>3. TypeOK'
  BY <1>1, <1>2, SynchAssumption, Zenon DEF IInv, TypeOK, ThreadTypeOK, ControlOK, InLock, Labels
<1>4. ControlOK'
  BY <1>1, <1>2, SynchAssumption DEF IInv, ControlOK, InLock, TypeOK
<1>5. IntrOK'
  BY <1>2 DEF IInv, IntrOK
<1>6. ElemOnOneList'
  BY <1>1, <1>2, QuietLists DEF IInv, TypeOK
<1>7. NewOK'
  BY <1>1, <1>2, QuietNew DEF IInv, TypeOK, InCreate
<1>8. LockOK'
  BY <1>1, <1>2, SynchAssumption DEF IInv, LockOK, ControlOK, InLock, TypeOK
<1>9. MutualExclusion'
  BY <1>1, <1>2, QuietMutex DEF IInv, TypeOK
<1>10. QED
  BY <1>3, <1>4, <1>5, <1>6, <1>7, <1>8, <1>9 DEF IInv

\* lock_acquire(): thread_donate_priority(l->holder), which may move the holder on the
\* ready list.
LEMMA AcquireDonateStep == ASSUME IInv, AcquireDonate PROVE IInv'
<1>1. /\ running \in Thread /\ running # Idle /\ pc[running] = "acq_donate"
      /\ walk[running] \in Lock /\ arg[running] \in Lock /\ ret[running] # NULL
      /\ pc \in [Thread -> Labels] /\ status[running] = "RUNNING"
      /\ holder[walk[running]] \in (Thread \ {Idle}) \cup {NULL}
  BY Zenon DEF IInv, TypeOK, ThreadTypeOK, ControlOK, InLock, ElemOnOneList, AcquireDonate, At
<1>2. CASE holder[walk[running]] = NULL
  <2>1. Fault
    BY <1>2 DEF AcquireDonate
  <2>2. QED
    BY <1>1, <2>1, FaultStep
<1>3. CASE holder[walk[running]] # NULL
  <2>1. PICK h \in Thread \ {Idle} : h = holder[walk[running]]
    BY <1>1, <1>3
  <2>2. PICK pri : pri = [priority EXCEPT ![h] = UpdatedPriority(h, locks[h], max_priority)]
    BY Zenon
  <2>3. /\ priority' = pri
        /\ ready' = Requeued(h, pri)
        /\ pc' = [pc EXCEPT ![running] = "acq_next"]
        /\ UNCHANGED <<running, status, base_priority, blocked_ticks, thread_ticks,
                       in_external_intr, yield_on_return, unvisited, arg, ret, walk, new, value,
                       waiters, holder, max_priority, locks, locks_wait, tid, next_tid>>
    BY <1>3, <2>1, <2>2 DEF AcquireDonate, Goto, intrvars, semavars, lockvars, createvars
  <2>4. /\ priority \in [Thread -> Priorities] /\ base_priority \in [Thread -> Priorities]
        /\ status \in [Thread -> Statuses] /\ ReadyOK(status, ready)
        /\ locks[h] \in SUBSET Lock /\ max_priority \in [Lock -> Priorities]
    BY DEF IInv, TypeOK, ThreadTypeOK, ElemOnOneList, ReadyOK
  <2>5. UpdatedPriority(h, locks[h], max_priority) \in Priorities
    BY <2>4, UpdatedPriorityType
  <2>6. pri \in [Thread -> Priorities] /\ \A u \in Thread \ {h} : pri[u] = priority[u]
    BY <2>2, <2>4, <2>5
  <2>7. ReadyOK(status, ready')
    <3>1. pri \in [Thread -> Int] /\ priority \in [Thread -> Int]
      BY <2>4, <2>6 DEF Priorities
    <3>2. QED BY <2>3, <2>4, <2>6, <3>1, RequeuedProperties
  <2>8. /\ pc' \in [Thread -> Labels]
        /\ pc'[running] = "acq_next"
        /\ \A t \in Thread \ {running} : pc'[t] = pc[t]
    BY <1>1, <2>3 DEF Labels
  <2>9. TypeOK'
    BY <2>3, <2>6, <2>7, <2>8 DEF IInv, TypeOK, ThreadTypeOK, ReadyOK
  <2>10. ControlOK'
    BY <1>1, <2>3, <2>8, ControlKept DEF InLock
  <2>11. IntrOK'
    BY <2>3 DEF IInv, IntrOK
  <2>12. ElemOnOneList'
    <3>1. \A u \in Thread, s \in Lock \cup Sema : WaitsIn(u, s)' <=> WaitsIn(u, s)
      BY <1>1, <2>3, <2>8 DEF WaitsIn
    <3>2. \A s \in Lock \cup Sema : {u \in Thread : WaitsIn(u, s)}' = {u \in Thread : WaitsIn(u, s)}
      BY <3>1
    <3>3. \A u \in Thread : blocked_ticks'[u] > 0 => status'[u] = "BLOCKED" /\ pc'[u] # "down_loop"
      BY <1>1, <2>3, <2>8 DEF IInv, ElemOnOneList
    <3>4. QED
      BY <2>3, <2>7, <3>2, <3>3 DEF IInv, ElemOnOneList, ReadyOK
  <2>13. NewOK'
    BY <1>1, <2>3, <2>8, QuietNew DEF InCreate
  <2>14. LockOK'
    BY <2>3, <2>8, LockKept
  <2>15. MutualExclusion'
    BY <1>1, <2>3, <2>8, QuietMutex DEF IInv
  <2>16. QED
    BY <2>9, <2>10, <2>11, <2>12, <2>13, <2>14, <2>15 DEF IInv
<1>4. QED
  BY <1>2, <1>3

\* lock_acquire(): l = l->holder->locks_wait.
LEMMA AcquireNextStep == ASSUME IInv, AcquireNext PROVE IInv'
<1>1. /\ running \in Thread /\ running # Idle /\ pc[running] = "acq_next"
      /\ walk[running] \in Lock /\ arg[running] \in Lock /\ ret[running] # NULL
      /\ pc \in [Thread -> Labels] /\ status[running] = "RUNNING"
      /\ holder[walk[running]] \in Thread \cup {NULL}
      /\ walk \in [Thread -> Lock \cup {NULL}]
  BY Zenon DEF IInv, TypeOK, ThreadTypeOK, ControlOK, InLock, ElemOnOneList, AcquireNext, At
<1>2. CASE holder[walk[running]] = NULL
  <2>1. Fault
    BY <1>2 DEF AcquireNext
  <2>2. QED
    BY <1>1, <2>1, FaultStep
<1>3. CASE holder[walk[running]] # NULL
  <2>1. /\ pc' = [pc EXCEPT ![running] = "acq_test"]
        /\ walk' = [walk EXCEPT ![running] = locks_wait[holder[walk[running]]]]
        /\ UNCHANGED <<running, ready, status, priority, base_priority, blocked_ticks,
                       thread_ticks, in_external_intr, yield_on_return, unvisited, arg, ret, new,
                       value, waiters, holder, max_priority, locks, locks_wait, tid, next_tid>>
    BY <1>3, Zenon DEF AcquireNext, Goto, tvars, semavars, lockvars, createvars
  <2>2. locks_wait[holder[walk[running]]] \in Lock \cup {NULL}
    BY <1>1, <1>3 DEF IInv, TypeOK
  <2>3. /\ pc' \in [Thread -> Labels]
        /\ pc'[running] = "acq_test"
        /\ walk' \in [Thread -> Lock \cup {NULL}]
        /\ \A t \in Thread \ {running} : pc'[t] = pc[t] /\ walk'[t] = walk[t]
    BY <1>1, <2>1, <2>2 DEF Labels
  <2>4. TypeOK'
    BY <2>1, <2>3 DEF IInv, TypeOK, ThreadTypeOK
  <2>5. ControlOK'
    BY <1>1, <2>1, <2>3, ControlKept, Zenon DEF InLock
  <2>6. IntrOK'
    BY <2>1, Zenon DEF IInv, IntrOK
  <2>7. ElemOnOneList'
    BY <1>1, <2>1, <2>3, QuietLists
  <2>8. NewOK'
    BY <1>1, <2>1, <2>3, QuietNew DEF InCreate
  <2>9. LockOK'
    BY <2>1, <2>3, LockKept
  <2>10. MutualExclusion'
    BY <1>1, <2>1, <2>3, QuietMutex DEF IInv
  <2>11. QED
    BY <2>4, <2>5, <2>6, <2>7, <2>8, <2>9, <2>10 DEF IInv
<1>4. QED
  BY <1>2, <1>3

\* lock_acquire(): the call of sema_down().
LEMMA AcquireDownStep == ASSUME IInv, AcquireDown PROVE IInv'
<1>1. /\ running \in Thread /\ ~in_external_intr /\ pc[running] = "acq_down"
      /\ arg[running] \in Lock
      /\ ret[running] # NULL
      /\ walk' \in [Thread -> Lock \cup {NULL}]
      /\ \A t \in Thread \ {running} : walk'[t] = walk[t]
      /\ arg \in [Thread -> Lock \cup Sema \cup {NULL}]
      /\ ret \in [Thread -> {"run", "create_read", "create_unblock", NULL}]
  BY DEF IInv, TypeOK, ThreadTypeOK, ControlOK, InLock, AcquireDown, At
<1>2. CASE value[arg[running]] = 0
  <2>1. /\ waiters' = [waiters EXCEPT ![arg[running]] = InsertOrdered(@, running, priority)]
        /\ ThreadBlock
        /\ pc' = [pc EXCEPT ![running] = "down_loop"]
        /\ UNCHANGED <<value, arg, ret, priority, base_priority, blocked_ticks, in_external_intr,
                       yield_on_return, unvisited, holder, max_priority, locks, locks_wait,
                       new, tid, next_tid>>
    BY <1>2 DEF AcquireDown, SemaDown, Goto, intrvars, lockvars, createvars
  <2>2. QED
    BY <1>1, <2>1, DownBlocks, Zenon
<1>3. CASE value[arg[running]] > 0
  <2>1. /\ value' = [value EXCEPT ![arg[running]] = @ - 1]
        /\ pc' = [pc EXCEPT ![running] = "acq_own"]
        /\ UNCHANGED <<running, ready, status, priority, base_priority, blocked_ticks,
                     thread_ticks, in_external_intr, yield_on_return, unvisited, arg, ret, new,
                     waiters, holder, max_priority, locks, locks_wait, tid, next_tid>>
    BY <1>3 DEF AcquireDown, SemaDown, Goto, schedvars, intrvars, lockvars, createvars
  <2>2. QED
    BY <1>1, <1>3, <2>1, DownTakesLock, Zenon
<1>4. QED
  BY <1>2, <1>3 DEF AcquireDown, SemaDown

\* A thread woken in sema_down() looks at the value again.
LEMMA DownLoopStep == ASSUME IInv, DownLoop PROVE IInv'
<1>1. /\ running \in Thread /\ ~in_external_intr /\ pc[running] = "down_loop"
      /\ arg[running] \in Lock \cup Sema
      /\ ret[running] \in {"run", "create_read", "create_unblock"} /\ ret[running] # NULL
      /\ walk \in [Thread -> Lock \cup {NULL}]
      /\ arg \in [Thread -> Lock \cup Sema \cup {NULL}]
      /\ ret \in [Thread -> {"run", "create_read", "create_unblock", NULL}]
  BY DEF IInv, TypeOK, ThreadTypeOK, ControlOK, DownLoop, At
<1>2. /\ value[arg[running]] \in Nat
      /\ UNCHANGED <<priority, base_priority, blocked_ticks, in_external_intr, yield_on_return,
                     unvisited, walk, holder, max_priority, locks, locks_wait, new, tid, next_tid>>
  BY <1>1 DEF IInv, TypeOK, DownLoop, intrvars, lockvars, createvars
<1>3. CASE value[arg[running]] = 0
  <2>1. /\ waiters' = [waiters EXCEPT ![arg[running]] = InsertOrdered(@, running, priority)]
        /\ ThreadBlock
        /\ pc' = [pc EXCEPT ![running] = "down_loop"]
        /\ UNCHANGED <<value, arg, ret>>
    BY <1>3 DEF DownLoop, SemaDown, Goto
  <2>2. QED
    BY <1>1, <1>2, <2>1, DownBlocks, Zenon
<1>4. CASE value[arg[running]] > 0 /\ arg[running] \in Lock
  <2>1. /\ value' = [value EXCEPT ![arg[running]] = @ - 1]
        /\ pc' = [pc EXCEPT ![running] = "acq_own"]
        /\ UNCHANGED <<running, ready, status, thread_ticks, arg, ret, waiters>>
    BY <1>4 DEF DownLoop, SemaDown, Goto, schedvars
  <2>2. QED
    BY <1>1, <1>2, <1>4, <2>1, DownTakesLock, Zenon
<1>5. CASE value[arg[running]] > 0 /\ arg[running] \notin Lock
  <2>1. /\ value' = [value EXCEPT ![arg[running]] = @ - 1]
        /\ pc' = [pc EXCEPT ![running] = ret[running]]
        /\ arg' = [arg EXCEPT ![running] = NULL]
        /\ ret' = [ret EXCEPT ![running] = NULL]
        /\ UNCHANGED <<running, ready, status, thread_ticks, waiters>>
    BY <1>5 DEF DownLoop, SemaDown, Goto, schedvars
  <2>2. /\ arg' \in [Thread -> Lock \cup Sema \cup {NULL}]
        /\ \A t \in Thread \ {running} : arg'[t] = arg[t]
        /\ arg[running] \in Sema
    BY <1>1, <1>5, <2>1
  <2>3. QED
    BY <1>1, <1>2, <1>5, <2>1, <2>2, DownTakesSema, Zenon
<1>6. QED
  BY <1>2, <1>3, <1>4, <1>5

\* lock_acquire(): the critical section that makes the caller the holder.
LEMMA AcquireOwnStep == ASSUME IInv, AcquireOwn PROVE IInv'
<1> DEFINE l == arg[running]
<1>1. /\ running \in Thread /\ pc[running] = "acq_own" /\ l \in Lock
      /\ ret[running] \in {"run", "create_read", "create_unblock"}
      /\ holder[l] = NULL
      /\ running # Idle
  BY Zenon DEF IInv, TypeOK, ThreadTypeOK, ControlOK, LockOK, InLock, AcquireOwn, At
<1>2. \A t \in Thread : pc[t] \in {"acq_own", "rel_up"} /\ arg[t] = l => t = running
  BY <1>1 DEF IInv, MutualExclusion, Owners
<1>3. /\ pc' = [pc EXCEPT ![running] = ret[running]]
      /\ arg' = [arg EXCEPT ![running] = NULL]
      /\ ret' = [ret EXCEPT ![running] = NULL]
      /\ walk' = [walk EXCEPT ![running] = NULL]
      /\ locks_wait' = [locks_wait EXCEPT ![running] = NULL]
      /\ max_priority' = [max_priority EXCEPT ![l] = priority[running]]
      /\ locks' = [locks EXCEPT ![running] = @ \cup {l}]
      /\ holder' = [holder EXCEPT ![l] = running]
      /\ UNCHANGED <<running, ready, status, priority, base_priority, blocked_ticks,
                     thread_ticks, in_external_intr, yield_on_return, unvisited, new,
                     value, waiters, tid, next_tid>>
  BY DEF AcquireOwn, Goto, Return, tvars, semavars, createvars
<1> HIDE DEF l
<1>4. TypeOK'
  BY <1>1, <1>3, SynchAssumption, Zenon DEF IInv, TypeOK, ThreadTypeOK, Labels
<1>5. ControlOK'
  <2>1. \A k \in Lock : holder'[k] # Idle
    BY <1>1, <1>3 DEF IInv, TypeOK, ControlOK
  <2>2. ASSUME NEW t \in Thread, t # running
        PROVE  pc'[t] = pc[t] /\ arg'[t] = arg[t] /\ ret'[t] = ret[t] /\ walk'[t] = walk[t]
    BY <1>3, <2>2 DEF IInv, TypeOK
  <2>3. /\ pc'[running] \in {"run", "create_read", "create_unblock"}
        /\ ret'[running] = NULL /\ status[running] = "RUNNING"
    BY <1>1, <1>3 DEF IInv, TypeOK, ElemOnOneList
  <2>4. QED
    BY <1>1, <1>3, <2>1, <2>2, <2>3 DEF IInv, ControlOK, InLock
<1>6. IntrOK'
  BY <1>3 DEF IInv, IntrOK
<1>7. ElemOnOneList'
  BY <1>1, <1>3, QuietLists DEF IInv, TypeOK
<1>8. NewOK'
  <2>1. InCreate(running)' => InCreate(running)
    BY <1>1, <1>3, SynchAssumption DEF IInv, TypeOK, InCreate, Labels
  <2>2. QED BY <1>3, <2>1, QuietNew DEF IInv, TypeOK
<1>9. LockOK'
  <2>1. SUFFICES ASSUME NEW t \in Thread
        PROVE  /\ pc'[t] = "rel_holder" => holder'[arg'[t]] = t
               /\ pc'[t] \in {"acq_own", "rel_up"} => holder'[arg'[t]] = NULL
    BY DEF LockOK
  <2>2. CASE t = running
    BY <1>1, <1>3, <2>2 DEF IInv, TypeOK
  <2>3. CASE t # running
    <3>1. pc'[t] = pc[t] /\ arg'[t] = arg[t]
      BY <1>3, <2>3 DEF IInv, TypeOK
    <3>2. pc[t] \in {"rel_holder", "acq_own", "rel_up"} => arg[t] \in Lock /\ arg[t] # l
      BY <1>1, <1>2, <2>3, SynchAssumption DEF IInv, LockOK, ControlOK, InLock
    <3>3. QED BY <1>3, <3>1, <3>2 DEF IInv, TypeOK, LockOK
  <2>4. QED BY <2>2, <2>3
<1>10. MutualExclusion'
  <2>1. ASSUME NEW k \in Lock PROVE Owners(k)' = Owners(k)
    BY <1>1, <1>3, SynchAssumption DEF Owners, IInv, TypeOK, LockOK, l
  <2>2. QED
    BY <1>3, <2>1, Zenon DEF IInv, MutualExclusion
<1>11. QED
  BY <1>4, <1>5, <1>6, <1>7, <1>8, <1>9, <1>10 DEF IInv

\* The entry of lock_acquire().
LEMMA CallLockAcquireStep ==
  ASSUME IInv, At("run"), NEW l \in Lock, CallLockAcquire(l, "run"), UNCHANGED createvars
  PROVE  IInv'
<1>1. /\ running \in Thread /\ running # Idle /\ pc[running] = "run" /\ ret[running] = NULL
      /\ pc \in [Thread -> Labels] /\ status[running] = "RUNNING"
      /\ arg \in [Thread -> Lock \cup Sema \cup {NULL}]
      /\ ret \in [Thread -> {"run", "create_read", "create_unblock", NULL}]
      /\ "run" # NULL
  BY SynchAssumption, Zenon DEF IInv, TypeOK, ThreadTypeOK, ControlOK, InLock, ElemOnOneList, At, Labels
<1>2. PICK p \in {"acq_wait", "acq_down"} : pc' = [pc EXCEPT ![running] = p]
  BY Zenon DEF CallLockAcquire, Goto
<1>3. /\ arg' = [arg EXCEPT ![running] = l]
      /\ ret' = [ret EXCEPT ![running] = "run"]
      /\ UNCHANGED <<running, ready, status, priority, base_priority, blocked_ticks, thread_ticks,
                     in_external_intr, yield_on_return, unvisited, walk, new, value,
                     waiters, holder, max_priority, locks, locks_wait, tid, next_tid>>
  BY DEF CallLockAcquire, tvars, semavars, lockvars, createvars
<1>4. /\ pc' \in [Thread -> Labels] /\ pc'[running] = p
      /\ arg' \in [Thread -> Lock \cup Sema \cup {NULL}] /\ arg'[running] = l
      /\ ret' \in [Thread -> {"run", "create_read", "create_unblock", NULL}] /\ ret'[running] = "run"
      /\ \A t \in Thread \ {running} : pc'[t] = pc[t] /\ arg'[t] = arg[t] /\ ret'[t] = ret[t]
  BY <1>1, <1>2, <1>3 DEF Labels
<1>5. TypeOK'
  BY <1>3, <1>4 DEF IInv, TypeOK, ThreadTypeOK
<1>6. ControlOK'
  BY <1>1, <1>2, <1>3, <1>4, ControlKept, Zenon DEF InLock
<1>7. IntrOK'
  BY <1>3 DEF IInv, IntrOK
<1>8. ElemOnOneList'
  BY <1>1, <1>3, <1>4, QuietLists
<1>9. NewOK'
  <2>1. InCreate(running)' => InCreate(running)
    BY <1>2, <1>3, <1>4 DEF InCreate
  <2>2. QED BY <1>1, <1>3, <1>4, <2>1, QuietNew
<1>10. LockOK'
  BY <1>2, <1>3, <1>4, LockKept
<1>11. MutualExclusion'
  BY <1>1, <1>2, <1>3, <1>4, QuietMutex DEF IInv
<1>12. QED
  BY <1>5, <1>6, <1>7, <1>8, <1>9, <1>10, <1>11 DEF IInv

\* lock_release(): the critical section that drops the lock and its donation.
LEMMA CallLockReleaseStep ==
  ASSUME IInv, NEW l \in Lock, NEW k \in {"run", "create_unblock"},
         \/ pc[running] = "run" /\ k = "run"
         \/ pc[running] = "create_release" /\ k = "create_unblock",
         CallLockRelease(l, k), UNCHANGED createvars
  PROVE  IInv'
<1>1. /\ running \in Thread /\ running # Idle /\ ret[running] = NULL
      /\ pc \in [Thread -> Labels] /\ status[running] = "RUNNING"
      /\ arg \in [Thread -> Lock \cup Sema \cup {NULL}]
      /\ ret \in [Thread -> {"run", "create_read", "create_unblock", NULL}]
      /\ k # NULL
  BY SynchAssumption, Zenon DEF IInv, TypeOK, ThreadTypeOK, ControlOK, InLock, ElemOnOneList, Labels
<1>2. /\ holder[l] = running
      /\ pc' = [pc EXCEPT ![running] = "rel_holder"]
      /\ arg' = [arg EXCEPT ![running] = l]
      /\ ret' = [ret EXCEPT ![running] = k]
      /\ locks' = [locks EXCEPT ![running] = @ \ {l}]
      /\ priority' = [priority EXCEPT ![running] =
                        UpdatedPriority(running, locks[running] \ {l}, max_priority)]
      /\ UNCHANGED <<running, ready, status, base_priority, blocked_ticks, thread_ticks,
                     in_external_intr, yield_on_return, unvisited, walk, new, value,
                     waiters, holder, max_priority, locks_wait, tid, next_tid>>
  BY Zenon DEF CallLockRelease, Goto, intrvars, semavars, createvars
<1>3. /\ pc' \in [Thread -> Labels] /\ pc'[running] = "rel_holder"
      /\ arg' \in [Thread -> Lock \cup Sema \cup {NULL}] /\ arg'[running] = l
      /\ ret' \in [Thread -> {"run", "create_read", "create_unblock", NULL}] /\ ret'[running] = k
      /\ \A t \in Thread \ {running} : pc'[t] = pc[t] /\ arg'[t] = arg[t] /\ ret'[t] = ret[t]
  BY <1>1, <1>2 DEF Labels
<1>4. locks' \in [Thread -> SUBSET Lock] /\ priority' \in [Thread -> Priorities]
  <2>1. /\ locks \in [Thread -> SUBSET Lock] /\ priority \in [Thread -> Priorities]
        /\ base_priority \in [Thread -> Priorities] /\ max_priority \in [Lock -> Priorities]
    BY DEF IInv, TypeOK, ThreadTypeOK
  <2>2. locks[running] \ {l} \in SUBSET Lock
    BY <1>1, <2>1
  <2>3. UpdatedPriority(running, locks[running] \ {l}, max_priority) \in Priorities
    BY <1>1, <2>1, <2>2, UpdatedPriorityType
  <2>4. QED BY <1>1, <1>2, <2>1, <2>2, <2>3
<1>5. TypeOK'
  BY <1>2, <1>3, <1>4, Zenon DEF IInv, TypeOK, ThreadTypeOK
<1>6. ControlOK'
  BY <1>1, <1>2, <1>3, ControlKept, Zenon DEF InLock
<1>7. IntrOK'
  BY <1>2 DEF IInv, IntrOK
<1>8. ElemOnOneList'
  BY <1>1, <1>2, <1>3, QuietLists
<1>9. NewOK'
  <2>1. InCreate(running)' => InCreate(running)
    BY <1>2, <1>3 DEF InCreate
  <2>2. QED BY <1>1, <1>2, <1>3, <2>1, QuietNew, Zenon
<1>10. LockOK'
  BY <1>2, <1>3, LockKept
<1>11. MutualExclusion'
  BY <1>1, <1>2, <1>3, QuietMutex DEF IInv
<1>12. QED
  BY <1>5, <1>6, <1>7, <1>8, <1>9, <1>10, <1>11 DEF IInv

\* lock_release(): lock->holder = NULL.
LEMMA ReleaseHolderStep == ASSUME IInv, ReleaseHolder PROVE IInv'
<1>1. running \in Thread /\ pc[running] = "rel_holder"
  BY DEF IInv, TypeOK, ThreadTypeOK, ReleaseHolder, At
<1>2. /\ pc' = [pc EXCEPT ![running] = "rel_up"]
      /\ holder' = [holder EXCEPT ![arg[running]] = NULL]
      /\ UNCHANGED <<running, ready, status, priority, base_priority, blocked_ticks,
                     thread_ticks, in_external_intr, yield_on_return, unvisited, arg,
                     ret, walk, new, value, waiters, max_priority, locks, locks_wait,
                     tid, next_tid>>
  BY DEF ReleaseHolder, Goto, tvars, semavars, lockvars, createvars
<1>3. TypeOK'
  BY <1>1, <1>2, SynchAssumption, Zenon DEF IInv, TypeOK, ThreadTypeOK, ControlOK, InLock, Labels
<1>4. ControlOK'
  BY <1>1, <1>2, SynchAssumption DEF IInv, ControlOK, InLock, TypeOK
<1>5. IntrOK'
  BY <1>2, Zenon DEF IInv, IntrOK
<1>6. ElemOnOneList'
  BY <1>1, <1>2, QuietLists DEF IInv, TypeOK
<1>7. NewOK'
  BY <1>1, <1>2, QuietNew DEF IInv, TypeOK, InCreate
<1>8. LockOK'
  BY <1>1, <1>2, SynchAssumption DEF IInv, LockOK, ControlOK, InLock, TypeOK
<1>9. MutualExclusion'
  <2>1. arg[running] \in Lock /\ holder[arg[running]] = running
    BY <1>1 DEF IInv, ControlOK, InLock, LockOK
  <2>2. ASSUME NEW l \in Lock PROVE Owners(l)' = Owners(l)
    BY <1>1, <1>2, <2>1, SynchAssumption DEF Owners, IInv, TypeOK
  <2>3. QED
    BY <1>2, <2>2 DEF IInv, MutualExclusion
<1>10. QED
  BY <1>3, <1>4, <1>5, <1>6, <1>7, <1>8, <1>9 DEF IInv

\* lock_release(): sema_up(), after which the lock has no owner.
LEMMA ReleaseUpStep == ASSUME IInv, ReleaseUp PROVE IInv'
<1>1. /\ running \in Thread /\ running # Idle /\ ~in_external_intr /\ pc[running] = "rel_up"
      /\ arg[running] \in Lock /\ holder[arg[running]] = NULL
      /\ ret[running] \in {"run", "create_read", "create_unblock"}
      /\ pc \in [Thread -> Labels]
      /\ arg \in [Thread -> Lock \cup Sema \cup {NULL}]
      /\ ret \in [Thread -> {"run", "create_read", "create_unblock", NULL}]
      /\ walk \in [Thread -> Lock \cup {NULL}]
  BY Zenon DEF IInv, TypeOK, ThreadTypeOK, ControlOK, InLock, LockOK, ReleaseUp, At
<1>2. /\ SemaUp(arg[running])
      /\ pc' = [pc EXCEPT ![running] = ret[running]]
      /\ arg' = [arg EXCEPT ![running] = NULL]
      /\ ret' = [ret EXCEPT ![running] = NULL]
      /\ walk' = [walk EXCEPT ![running] = NULL]
      /\ UNCHANGED <<priority, base_priority, blocked_ticks, in_external_intr, yield_on_return,
                     unvisited, holder, max_priority, locks, locks_wait, new, tid, next_tid>>
  BY DEF ReleaseUp, Return, Goto, intrvars, lockvars, createvars
<1>3. /\ pc' \in [Thread -> Labels]
      /\ arg' \in [Thread -> Lock \cup Sema \cup {NULL}]
      /\ ret' \in [Thread -> {"run", "create_read", "create_unblock", NULL}]
      /\ walk' \in [Thread -> Lock \cup {NULL}]
      /\ pc'[running] = ret[running] /\ ret'[running] = NULL
      /\ \A t \in Thread \ {running} :
           pc'[t] = pc[t] /\ arg'[t] = arg[t] /\ ret'[t] = ret[t] /\ walk'[t] = walk[t]
  BY <1>1, <1>2 DEF Labels
<1>4. /\ running' \in Thread
      /\ ready' \in Seq(Thread)
      /\ status' \in [Thread -> Statuses]
      /\ thread_ticks' = 0
      /\ value' \in [Lock \cup Sema -> Nat]
      /\ value'[arg[running]] = value[arg[running]] + 1
      /\ \A r \in (Lock \cup Sema) \ {arg[running]} : value'[r] = value[r]
      /\ waiters' \in [Lock \cup Sema -> Seq(Thread)]
      /\ \A t \in Thread \ {Idle} :
           status[t] = "BLOCKED" /\ pc[t] # "down_loop" => status'[t] = "BLOCKED"
      /\ \A t \in Thread :
           status'[t] \in {"FREE", "DYING"} => status[t] = status'[t] /\ t # running
      /\ ElemOnOneList'
  BY <1>1, <1>2, <1>3, SemaUpLists, Zenon
<1>5. TypeOK'
  <2>1. 0 \in 0..TIME_SLICE
    BY SliceBound
  <2>2. ThreadTypeOK'
    BY <1>2, <1>4, <2>1, Zenon DEF IInv, TypeOK, ThreadTypeOK
  <2>3. QED
    BY <1>2, <1>3, <1>4, <2>2, Zenon DEF IInv, TypeOK
<1>6. ControlOK'
  BY <1>1, <1>2, <1>3, <1>4, ControlKept, Zenon DEF InLock
<1>7. IntrOK'
  BY <1>1, <1>2, <1>4, SliceBound, Zenon DEF IInv, IntrOK
<1>8. NewOK'
  <2>1. \A t \in Thread : InCreate(t)' => InCreate(t)
    BY <1>1, <1>3, SynchAssumption DEF InCreate, Labels
  <2>2. \A t \in Thread : pc[t] = "run" => t # running
    BY <1>1
  <2>3. QED
    BY <1>2, <1>3, <1>4, <2>1, <2>2, NewKept, Zenon
<1>9. LockOK'
  BY <1>1, <1>2, <1>3, LockKept
<1>10. MutualExclusion'
  <2>1. running \in Owners(arg[running])
    BY <1>1 DEF Owners
  <2>2. Owners(arg[running]) = {running} /\ value[arg[running]] = 0
    BY <1>1, <2>1 DEF IInv, MutualExclusion
  <2>3. PICK l \in Lock : l = arg[running]
    BY <1>1
  <2>4. Owners(l)' = {}
    BY <1>1, <1>2, <1>3, <2>2, <2>3, SynchAssumption, Zenon DEF Owners
  <2>5. ASSUME NEW k \in Lock \ {l} PROVE Owners(k)' = Owners(k)
    BY <1>1, <1>2, <1>3, <2>3, Zenon DEF Owners
  <2>6. value'[l] = 0 + 1 /\ \A k \in Lock \ {l} : value'[k] = value[k]
    BY <1>4, <2>2, <2>3, Zenon
  <2>7. value'[l] = 1
    <3>1. 0 + 1 = 1 OBVIOUS
    <3>2. QED BY <2>6, <3>1, Zenon
  <2>8. QED
    BY <2>4, <2>5, <2>6, <2>7 DEF IInv, MutualExclusion
<1>11. QED
  BY <1>4, <1>5, <1>6, <1>7, <1>8, <1>9, <1>10, Zenon DEF IInv

\* sema_down() called by a client.
LEMMA CallSemaDownStep ==
  ASSUME IInv, At("run"), NEW s \in Sema, CallSemaDown(s) PROVE IInv'
<1>1. /\ running \in Thread /\ ~in_external_intr /\ pc[running] = "run"
      /\ ret[running] = NULL
      /\ walk \in [Thread -> Lock \cup {NULL}]
      /\ arg \in [Thread -> Lock \cup Sema \cup {NULL}]
      /\ ret \in [Thread -> {"run", "create_read", "create_unblock", NULL}]
      /\ value[s] \in Nat
  BY Zenon DEF IInv, TypeOK, ThreadTypeOK, ControlOK, At, InLock
<1>2. UNCHANGED <<priority, base_priority, blocked_ticks, in_external_intr, yield_on_return,
                  unvisited, walk, holder, max_priority, locks, locks_wait, new, tid, next_tid>>
  BY <1>1, Zenon DEF CallSemaDown, intrvars, lockvars, createvars
<1>3. CASE value[s] = 0
  <2>1. /\ waiters' = [waiters EXCEPT ![s] = InsertOrdered(@, running, priority)]
        /\ ThreadBlock
        /\ pc' = [pc EXCEPT ![running] = "down_loop"]
        /\ arg' = [arg EXCEPT ![running] = s]
        /\ ret' = [ret EXCEPT ![running] = "run"]
        /\ UNCHANGED value
    BY <1>3 DEF CallSemaDown, SemaDown, Goto
  <2>2. /\ arg' \in [Thread -> Lock \cup Sema \cup {NULL}]
        /\ ret' \in [Thread -> {"run", "create_read", "create_unblock", NULL}]
        /\ \A t \in Thread \ {running} : arg'[t] = arg[t] /\ ret'[t] = ret[t]
        /\ arg'[running] = s /\ ret'[running] = "run"
    BY <1>1, <2>1
  <2>3. "run" # NULL
    BY SynchAssumption DEF Labels
  <2>4. QED
    BY <1>1, <1>2, <2>1, <2>2, <2>3, DownBlocks, Zenon
<1>4. CASE value[s] > 0
  <2>1. /\ value' = [value EXCEPT ![s] = @ - 1]
        /\ pc' = [pc EXCEPT ![running] = "run"]
        /\ UNCHANGED <<running, ready, status, thread_ticks, waiters, arg, ret>>
    BY <1>4 DEF CallSemaDown, SemaDown, Goto, schedvars
  <2>2. ret' = [ret EXCEPT ![running] = NULL]
    BY <1>1, <2>1
  <2>3. QED
    BY <1>1, <1>2, <1>4, <2>1, <2>2, DownTakesSema, Zenon
<1>5. QED
  BY <1>1, <1>3, <1>4

\* sema_try_down() called by a client.
LEMMA CallSemaTryDownStep ==
  ASSUME IInv, At("run"), NEW s \in Sema, CallSemaTryDown(s) PROVE IInv'
<1>1. /\ running \in Thread /\ ~in_external_intr /\ pc[running] = "run"
      /\ ret[running] = NULL
      /\ pc \in [Thread -> Labels]
      /\ arg \in [Thread -> Lock \cup Sema \cup {NULL}]
      /\ ret \in [Thread -> {"run", "create_read", "create_unblock", NULL}]
  BY Zenon DEF IInv, TypeOK, ThreadTypeOK, ControlOK, At, InLock
<1>2. /\ value[s] > 0
      /\ value' = [value EXCEPT ![s] = @ - 1]
      /\ UNCHANGED <<running, ready, status, priority, base_priority, blocked_ticks,
                     thread_ticks, in_external_intr, yield_on_return, unvisited, pc, arg, ret,
                     walk, new, waiters, holder, max_priority, locks, locks_wait, tid, next_tid>>
  BY DEF CallSemaTryDown, tvars, lockvars, createvars
<1>3. /\ pc' = [pc EXCEPT ![running] = "run"]
      /\ ret' = [ret EXCEPT ![running] = NULL]
  BY <1>1, <1>2
<1>4. QED
  BY <1>1, <1>2, <1>3, DownTakesSema

\* sema_up() called by a client.
LEMMA CallSemaUpStep == ASSUME IInv, At("run"), NEW s \in Sema, CallSemaUp(s) PROVE IInv'
<1>1. /\ SemaUp(s)
      /\ ~in_external_intr
      /\ UNCHANGED <<priority, base_priority, blocked_ticks, in_external_intr, yield_on_return,
                     unvisited, pc, arg, ret, walk, holder, max_priority, locks, locks_wait, new,
                     tid, next_tid>>
  BY DEF CallSemaUp, At, intrvars, lockvars, createvars
<1>2. /\ running' \in Thread
      /\ ready' \in Seq(Thread)
      /\ status' \in [Thread -> Statuses]
      /\ thread_ticks' = 0
      /\ value' \in [Lock \cup Sema -> Nat]
      /\ \A r \in (Lock \cup Sema) \ {s} : value'[r] = value[r]
      /\ waiters' \in [Lock \cup Sema -> Seq(Thread)]
      /\ \A t \in Thread \ {Idle} :
           status[t] = "BLOCKED" /\ pc[t] # "down_loop" => status'[t] = "BLOCKED"
      /\ \A t \in Thread :
           status'[t] \in {"FREE", "DYING"} => status[t] = status'[t] /\ t # running
      /\ ElemOnOneList'
  BY <1>1, SemaUpLists, Zenon
<1>3. TypeOK'
  <2>1. 0 \in 0..TIME_SLICE
    BY SliceBound
  <2>2. ThreadTypeOK'
    BY <1>1, <1>2, <2>1 DEF IInv, TypeOK, ThreadTypeOK
  <2>3. QED
    BY <1>1, <1>2, <2>2 DEF IInv, TypeOK
<1>4. ControlOK'
  BY <1>1, <1>2, ControlSame
<1>5. IntrOK'
  BY <1>1, <1>2, SliceBound DEF IInv, IntrOK
<1>6. NewOK'
  <2>1. \A t \in Thread : InCreate(t)' => InCreate(t)
    BY <1>1 DEF InCreate
  <2>2. QED
    BY <1>1, <1>2, <2>1, NewKept
<1>7. LockOK'
  BY <1>1, LockKept
<1>8. MutualExclusion'
  BY <1>1, <1>2, SynchAssumption, QuietMutex, Zenon DEF IInv
<1>9. QED
  BY <1>2, <1>3, <1>4, <1>5, <1>6, <1>7, <1>8 DEF IInv

\* sema_up() called by the handler of a device interrupt.
LEMMA DeviceInterruptStep ==
  ASSUME IInv, NEW s \in Sema, DeviceInterrupt(s) PROVE IInv'
<1>1. /\ running \in Thread /\ ~in_external_intr /\ unvisited = {}
      /\ thread_ticks # TIME_SLICE /\ status[running] = "RUNNING"
      /\ pc[Idle] \in {"idle_loop", "idle_hlt"} /\ Idle \in Thread
  BY ThreadAssumption, Zenon
     DEF IInv, TypeOK, ThreadTypeOK, ControlOK, IntrOK, ElemOnOneList, DeviceInterrupt, InterruptsOn
<1>2. /\ in_external_intr' = TRUE
      /\ yield_on_return' = TRUE
      /\ running = Idle => pc' = [pc EXCEPT ![running] = "idle_loop"]
      /\ running # Idle => pc' = pc
      /\ UNCHANGED <<running, priority, base_priority, blocked_ticks, thread_ticks, unvisited,
                     arg, ret, walk, new, holder, max_priority, locks, locks_wait, tid, next_tid>>
  BY Zenon DEF DeviceInterrupt, Goto, lockvars, createvars
<1>3. /\ pc' \in [Thread -> Labels]
      /\ \A t \in Thread : pc'[t] = pc[t] \/ (t = Idle /\ pc'[t] = "idle_loop")
  BY <1>2, IdlePc
<1>4. PICK q \in ListSorts(waiters[s], priority) :
        SemaPost(s, q) /\ status' = WokenStatus(q) /\ ready' = WokenReady(q)
  BY Zenon DEF DeviceInterrupt
<1>5. /\ status' \in [Thread -> Statuses]
      /\ OnlyRunning(status', running)
      /\ ReadyOK(status', ready')
      /\ value' \in [Lock \cup Sema -> Nat]
      /\ \A r \in (Lock \cup Sema) \ {s} : value'[r] = value[r]
      /\ waiters' \in [Lock \cup Sema -> Seq(Thread)]
  BY <1>4, WakeProperties, Zenon
<1>6. WokenBy(status')
  BY <1>4, WakeProperties, Zenon
<1>7. \A t \in Thread : status'[t] # status[t] =>
        t # Idle /\ status[t] = "BLOCKED" /\ pc[t] = "down_loop" /\ status'[t] = "READY"
  BY <1>6 DEF WokenBy
<1>8. ElemOnOneList'
  <2>1. ASSUME NEW r \in Lock \cup Sema
        PROVE  (IsInjective(waiters[r]) /\ Range(waiters[r]) = {t \in Thread : WaitsIn(t, r)})'
    <3>1. ASSUME NEW t \in Thread
          PROVE  WaitsIn(t, r)' <=> status'[t] = "BLOCKED" /\ pc[t] = "down_loop" /\ arg[t] = r
      BY <1>1, <1>2, <1>3 DEF WaitsIn
    <3>2. {t \in Thread : WaitsIn(t, r)}' = WaitersIn(status', r)
      BY <3>1 DEF WaitersIn
    <3>3. QED BY <1>6, <3>2, Zenon DEF WokenBy
  <2>2. ASSUME NEW t \in Thread, blocked_ticks'[t] > 0
        PROVE  status'[t] = "BLOCKED" /\ pc'[t] # "down_loop"
    BY <1>2, <1>3, <1>7, <2>2, Zenon DEF IInv, ElemOnOneList
  <2>3. QED
    BY <1>2, <1>5, <2>1, <2>2, Zenon DEF ElemOnOneList, OnlyRunning, ReadyOK
<1>9. TypeOK'
  BY <1>2, <1>3, <1>5 DEF IInv, TypeOK, ThreadTypeOK, ReadyOK
<1>10. ControlOK'
  BY <1>1, <1>2, <1>3, <1>7, Zenon DEF IInv, ControlOK, InLock
<1>11. IntrOK'
  BY <1>1, <1>2 DEF IInv, IntrOK
<1>12. NewOK'
  <2>1. \A t \in Thread : InCreate(t)' => InCreate(t)
    BY <1>2, <1>3 DEF InCreate
  <2>2. \A t \in Thread \ {Idle} : pc'[t] = pc[t]
    BY <1>3
  <2>3. QED
    BY <1>1, <1>2, <1>7, <2>1, <2>2, NewKept
<1>13. LockOK'
  BY <1>2, <1>3, LockKept
<1>14. MutualExclusion'
  BY <1>1, <1>2, <1>3, <1>5, SynchAssumption, QuietMutex, Zenon DEF IInv
<1>15. QED
  BY <1>8, <1>9, <1>10, <1>11, <1>12, <1>13, <1>14 DEF IInv
=============================================================================
