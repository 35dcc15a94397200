--------------------------- MODULE SynchInvariant ---------------------------
(***************************************************************************)
(* The inductive invariant of module Synch, and lemmas that each carry one *)
(* of its parts over a kind of step: steps that leave the lists alone, that *)
(* block, wake, unblock or yield.                                          *)
(***************************************************************************)
EXTENDS Synch, ThreadsProofs

\* The places inside lock_acquire() and lock_release().
InLock == {"acq_wait", "acq_test", "acq_max", "acq_donate", "acq_next", "acq_down",
           "acq_own", "rel_holder", "rel_up"}

\* t is in thread_create() and its new thread is not on the ready list yet.
InCreate(t) ==
  \/ pc[t] \in {"create_read", "create_write", "create_release", "create_unblock"}
  \/ ret[t] \in {"create_read", "create_unblock"}

\* What the place of a thread says about the locals of the call it is in; only the
\* idle thread is in idle(), it takes no lock, and a page with no live thread is
\* in no call.
ControlOK ==
  /\ \A t \in Thread :
       /\ pc[t] \in InLock => arg[t] \in Lock /\ ret[t] # NULL
       /\ pc[t] = "down_loop" => arg[t] # NULL /\ ret[t] # NULL
       /\ pc[t] \in {"acq_max", "acq_donate", "acq_next"} => walk[t] \in Lock
       /\ t = Idle <=> pc[t] \in {"idle_loop", "idle_hlt"}
       /\ ret[t] # NULL => pc[t] \in InLock \cup {"down_loop", "fault"}
       /\ status[t] \in {"FREE", "DYING"} => pc[t] = "run"
  /\ \A l \in Lock : holder[l] # Idle

\* The timer handler visits sleepers only, and does so before it returns; a time
\* slice that is used up is pending as a yield; the idle thread never sleeps.
IntrOK ==
  /\ blocked_ticks[Idle] = 0
  /\ ~in_external_intr => unvisited = {}
  /\ \A t \in unvisited : status[t] = "BLOCKED" /\ blocked_ticks[t] > 0
  /\ thread_ticks = TIME_SLICE => in_external_intr /\ yield_on_return

\* The thread a creator has initialised stays blocked, in no call and asleep
\* nowhere until that creator unblocks it, and belongs to that creator alone.
NewOK ==
  \A t \in Thread : InCreate(t) =>
    /\ new[t].thread \in Thread \ {Idle}
    /\ status[new[t].thread] = "BLOCKED"
    /\ pc[new[t].thread] = "run"
    /\ blocked_ticks[new[t].thread] = 0
    /\ \A u \in Thread : InCreate(u) /\ new[u].thread = new[t].thread => u = t

\* lock->holder at the places between sema_down() and sema_up() of a lock.
LockOK ==
  \A t \in Thread :
    /\ pc[t] = "rel_holder" => holder[arg[t]] = t
    /\ pc[t] \in {"acq_own", "rel_up"} => holder[arg[t]] = NULL

IInv == TypeOK /\ ControlOK /\ IntrOK /\ ElemOnOneList /\ NewOK /\ LockOK /\ MutualExclusion

-----------------------------------------------------------------------------

\* A thread that has just been switched in is inside its time slice (thread_ticks = 0).
LEMMA SliceBound == 0 \in 0..TIME_SLICE /\ 0 # TIME_SLICE
BY ThreadAssumption

\* A step that changes no list, status or sleep, and moves only the running thread,
\* keeps every thread on its one list.
LEMMA QuietLists ==
  ASSUME IInv, UNCHANGED <<running, ready, status, blocked_ticks, waiters>>,
         \A t \in Thread \ {running} : pc'[t] = pc[t] /\ arg'[t] = arg[t]
  PROVE  ElemOnOneList'
<1>1. running \in Thread /\ status[running] = "RUNNING" /\ blocked_ticks[running] \in Nat
  BY ThreadAssumption DEF IInv, TypeOK, ThreadTypeOK, ElemOnOneList
<1>2. \A t \in Thread, s \in Lock \cup Sema : WaitsIn(t, s)' <=> WaitsIn(t, s)
  BY <1>1 DEF WaitsIn
<1>3. \A s \in Lock \cup Sema : {t \in Thread : WaitsIn(t, s)}' = {t \in Thread : WaitsIn(t, s)}
  BY <1>2
<1>4. \A t \in Thread : blocked_ticks'[t] > 0 => status'[t] = "BLOCKED" /\ pc'[t] # "down_loop"
  BY <1>1 DEF IInv, ElemOnOneList
<1>5. QED
  BY <1>3, <1>4 DEF IInv, ElemOnOneList

\* Such a step also keeps the threads under construction as they are.
LEMMA QuietNew ==
  ASSUME IInv, UNCHANGED <<running, status, blocked_ticks>>,
         \A t \in Thread \ {running} : pc'[t] = pc[t] /\ ret'[t] = ret[t],
         InCreate(running)' => InCreate(running),
         \A t \in Thread : new'[t].thread = new[t].thread
  PROVE  NewOK'
<1>1. running \in Thread /\ status[running] = "RUNNING"
  BY DEF IInv, TypeOK, ThreadTypeOK, ElemOnOneList
<1>2. \A t \in Thread : InCreate(t)' => InCreate(t)
  BY <1>1 DEF InCreate
<1>3. QED
  BY <1>1, <1>2 DEF IInv, NewOK

\* A step that changes no holder, no value of a lock, and lets no thread in or out
\* of the owners of a lock, preserves mutual exclusion.
LEMMA QuietMutex ==
  ASSUME MutualExclusion,
         \A l \in Lock : value'[l] = value[l] /\ holder'[l] = holder[l],
         \A t \in Thread, l \in Lock :
           (pc'[t] \in {"acq_own", "rel_up"} /\ arg'[t] = l)
             <=> (pc[t] \in {"acq_own", "rel_up"} /\ arg[t] = l)
  PROVE  MutualExclusion'
<1>1. ASSUME NEW l \in Lock PROVE Owners(l)' = Owners(l)
  BY DEF Owners
<1>2. QED
  BY <1>1 DEF MutualExclusion

\* A step that leaves the blocked threads outside any call alone preserves NewOK.
LEMMA NewKept ==
  ASSUME IInv,
         \A t \in Thread \ {Idle} :
           status[t] = "BLOCKED" /\ pc[t] = "run" /\ blocked_ticks[t] = 0
             => status'[t] = "BLOCKED" /\ pc'[t] = "run" /\ blocked_ticks'[t] = 0,
         \A t \in Thread : InCreate(t)' => InCreate(t) /\ new'[t].thread = new[t].thread
  PROVE  NewOK'
BY DEF IInv, NewOK

\* A step of the running thread, which is not idle, preserves ControlOK when its new
\* place and locals satisfy it.
LEMMA ControlKept ==
  ASSUME IInv, running # Idle,
         \A t \in Thread \ {running} :
           /\ pc'[t] = pc[t] /\ arg'[t] = arg[t] /\ ret'[t] = ret[t] /\ walk'[t] = walk[t]
           /\ status'[t] \in {"FREE", "DYING"} => status[t] \in {"FREE", "DYING"},
         pc'[running] \in InLock => arg'[running] \in Lock /\ ret'[running] # NULL,
         pc'[running] = "down_loop" => arg'[running] # NULL /\ ret'[running] # NULL,
         pc'[running] \in {"acq_max", "acq_donate", "acq_next"} => walk'[running] \in Lock,
         pc'[running] \notin {"idle_loop", "idle_hlt"},
         ret'[running] # NULL => pc'[running] \in InLock \cup {"down_loop", "fault"},
         status'[running] \in {"FREE", "DYING"} => pc'[running] = "run",
         UNCHANGED holder
  PROVE  ControlOK'
<1>1. running \in Thread
  BY DEF IInv, TypeOK, ThreadTypeOK
<1>2. \A l \in Lock : holder'[l] # Idle
  BY DEF IInv, ControlOK
<1>3. QED
  BY <1>1, <1>2 DEF IInv, ControlOK

\* A step that moves no thread and frees none preserves ControlOK.
LEMMA ControlSame ==
  ASSUME IInv, UNCHANGED <<pc, arg, ret, walk, holder>>,
         \A t \in Thread : status'[t] \in {"FREE", "DYING"} => status[t] \in {"FREE", "DYING"}
  PROVE  ControlOK'
BY DEF IInv, ControlOK

\* A step that leaves the holders alone preserves LockOK when the threads that enter
\* the places it speaks of satisfy it.
LEMMA LockKept ==
  ASSUME IInv, UNCHANGED holder,
         \A t \in Thread :
           /\ pc'[t] = "rel_holder" => \/ pc[t] = "rel_holder" /\ arg'[t] = arg[t]
                                      \/ holder[arg'[t]] = t
           /\ pc'[t] \in {"acq_own", "rel_up"} =>
                \/ pc[t] \in {"acq_own", "rel_up"} /\ arg'[t] = arg[t]
                \/ holder[arg'[t]] = NULL
  PROVE  LockOK'
BY DEF IInv, LockOK

\* thread_update_priority() yields a legal priority, the highest of the base priority
\* and of the locks held, and the base priority when no lock is held.
LEMMA UpdatedPriorityType ==
  ASSUME NEW t \in Thread, NEW held \in SUBSET Lock, NEW maxp \in [Lock -> Priorities],
         base_priority \in [Thread -> Priorities]
  PROVE  /\ UpdatedPriority(t, held, maxp) \in Priorities
         /\ UpdatedPriority(t, held, maxp) >= base_priority[t]
         /\ \A l \in held : UpdatedPriority(t, held, maxp) >= maxp[l]
         /\ held = {} => UpdatedPriority(t, held, maxp) = base_priority[t]
<1> DEFINE donated == {maxp[l] : l \in held} \cup {base_priority[t]}
<1>1. donated \in SUBSET (0..PRI_MAX) /\ donated # {} /\ PRI_MAX \in Nat
  BY ThreadAssumption DEF Priorities
<1>2. base_priority[t] \in donated /\ \A l \in held : maxp[l] \in donated
  OBVIOUS
<1>3. held = {} => donated = {base_priority[t]}
  OBVIOUS
<1>4. UpdatedPriority(t, held, maxp) = CHOOSE p \in donated : \A d \in donated : p >= d
  BY DEF UpdatedPriority
<1> HIDE DEF donated
<1>5. \E p \in donated : \A d \in donated : p >= d
  BY <1>1, GreatestNat, Zenon
<1>6. /\ UpdatedPriority(t, held, maxp) \in donated
      /\ \A d \in donated : UpdatedPriority(t, held, maxp) >= d
  BY <1>4, <1>5
<1>7. UpdatedPriority(t, held, maxp) \in Priorities
  BY <1>1, <1>6, Zenon DEF Priorities
<1>8. held = {} => UpdatedPriority(t, held, maxp) = base_priority[t]
  BY <1>3, <1>6
<1>9. QED
  BY <1>2, <1>6, <1>7, <1>8

\* thread_donate_priority() keeps the ready list intact, and ordered by the new
\* priorities.
LEMMA RequeuedProperties ==
  ASSUME status \in [Thread -> Statuses], ReadyOK(status, ready), NEW h \in Thread \ {Idle},
         priority \in [Thread -> Int],
         NEW pri \in [Thread -> Int], \A u \in Thread \ {h} : pri[u] = priority[u]
  PROVE  /\ ReadyOK(status, Requeued(h, pri))
         /\ SortedByPriority(ready, priority) => SortedByPriority(Requeued(h, pri), pri)
<1>1. /\ ready \in Seq(Thread) /\ IsInjective(ready)
      /\ Range(ready) = {t \in Thread \ {Idle} : status[t] = "READY"}
  BY DEF ReadyOK
<1>2. CASE status[h] = "READY"
  <2>1. PICK r : r = ListRemove(ready, h)
    OBVIOUS
  <2>2. h \in Range(ready)
    BY <1>1, <1>2
  <2>3. /\ r \in Seq(Thread) /\ Range(r) = Range(ready) \ {h} /\ IsInjective(r)
        /\ SortedByPriority(ready, priority) => SortedByPriority(r, pri)
    <3>1. \A u \in Range(ready) \ {h} : pri[u] = priority[u]
      BY <1>1
    <3>2. QED BY <1>1, <2>1, <2>2, <3>1, ListRemoveProperties
  <2>4. /\ InsertOrdered(r, h, pri) \in Seq(Thread)
        /\ Range(InsertOrdered(r, h, pri)) = Range(r) \cup {h}
        /\ IsInjective(InsertOrdered(r, h, pri))
        /\ SortedByPriority(r, pri) => SortedByPriority(InsertOrdered(r, h, pri), pri)
    BY <2>3, InsertOrderedProperties
  <2>5. Requeued(h, pri) = InsertOrdered(r, h, pri)
    BY <1>2, <2>1 DEF Requeued
  <2>6. Range(InsertOrdered(r, h, pri)) = Range(ready)
    BY <2>2, <2>3, <2>4
  <2>7. QED
    BY <1>1, <2>3, <2>4, <2>5, <2>6 DEF ReadyOK
<1>3. CASE status[h] # "READY"
  <2>1. Requeued(h, pri) = ready
    BY <1>3 DEF Requeued
  <2>2. ASSUME SortedByPriority(ready, priority) PROVE SortedByPriority(ready, pri)
    <3>1. \A i \in DOMAIN ready : ready[i] \in Range(ready)
      BY <1>1 DEF Range
    <3>2. \A i \in DOMAIN ready : pri[ready[i]] = priority[ready[i]]
      BY <1>1, <1>3, <3>1
    <3>3. QED BY <2>2, <3>2 DEF SortedByPriority
  <2>3. QED BY <2>1, <2>2
<1>4. QED
  BY <1>2, <1>3

\* The running thread blocks in sema_down(s): it leaves the CPU and is on the list of
\* waiters of s, and no other thread changes lists except the one switched to.
LEMMA BlockInSema ==
  ASSUME IInv, NEW s \in Lock \cup Sema, running # Idle,
         waiters' = [waiters EXCEPT ![s] = InsertOrdered(@, running, priority)],
         ThreadBlock,
         pc' = [pc EXCEPT ![running] = "down_loop"],
         arg'[running] = s,
         \A t \in Thread \ {running} : arg'[t] = arg[t],
         UNCHANGED blocked_ticks
  PROVE  /\ running' \in Thread
         /\ ready' \in Seq(Thread)
         /\ status' \in [Thread -> Statuses]
         /\ thread_ticks' = 0
         /\ waiters' \in [Lock \cup Sema -> Seq(Thread)]
         /\ \A t \in Thread \ {Idle} : status[t] \notin {"RUNNING", "READY"} => status'[t] = status[t]
         /\ \A t \in Thread : status'[t] \in {"FREE", "DYING"} => status[t] = status'[t]
         /\ ElemOnOneList'
<1>1. /\ running \in Thread /\ Idle \in Thread
      /\ status \in [Thread -> Statuses]
      /\ OnlyRunning(status, running)
      /\ ReadyOK(status, ready)
      /\ status[running] = "RUNNING"
      /\ blocked_ticks \in [Thread -> 0..MaxSleep]
  BY ThreadAssumption DEF IInv, TypeOK, ThreadTypeOK, ElemOnOneList, OnlyRunning, ReadyOK
<1>2. /\ running' \in Thread
      /\ status' \in [Thread -> Statuses]
      /\ status' = [[status EXCEPT ![running] = "BLOCKED"] EXCEPT ![running'] = "RUNNING"]
      /\ thread_ticks' = 0
      /\ running' = Idle \/ status[running'] = "READY"
      /\ OnlyRunning(status', running')
      /\ ReadyOK(status', ready')
  BY <1>1, ThreadBlockProperties
<1>3. /\ running' # running
      /\ status'[running] = "BLOCKED"
      /\ \A t \in Thread \ {running, running'} : status'[t] = status[t]
  BY <1>1, <1>2
<1>4. /\ waiters[s] \in Seq(Thread) /\ IsInjective(waiters[s])
      /\ Range(waiters[s]) = {t \in Thread : WaitsIn(t, s)}
      /\ priority \in [Thread -> Int]
      /\ running \notin Range(waiters[s])
  BY <1>1 DEF IInv, TypeOK, ThreadTypeOK, ElemOnOneList, WaitsIn, Priorities
<1>5. /\ InsertOrdered(waiters[s], running, priority) \in Seq(Thread)
      /\ Range(InsertOrdered(waiters[s], running, priority)) = Range(waiters[s]) \cup {running}
      /\ IsInjective(InsertOrdered(waiters[s], running, priority))
  BY <1>1, <1>4, InsertOrderedProperties
<1>6. /\ waiters' \in [Lock \cup Sema -> Seq(Thread)]
      /\ waiters'[s] = InsertOrdered(waiters[s], running, priority)
      /\ \A r \in (Lock \cup Sema) \ {s} : waiters'[r] = waiters[r]
  BY <1>5 DEF IInv, TypeOK
<1>7. ASSUME NEW t \in Thread, t # running, NEW r \in Lock \cup Sema
      PROVE  WaitsIn(t, r)' <=> WaitsIn(t, r)
  <2>1. pc'[t] = pc[t] /\ arg'[t] = arg[t]
    BY <1>7 DEF IInv, TypeOK
  <2>2. CASE t = running'
    <3>1. ~WaitsIn(t, r)'
      BY <1>2, <2>2 DEF WaitsIn, OnlyRunning
    <3>2. ~WaitsIn(t, r)
      BY <1>1, <1>2, <2>2 DEF WaitsIn, IInv, ControlOK
    <3>3. QED BY <3>1, <3>2
  <2>3. CASE t # running'
    BY <1>3, <1>7, <2>1, <2>3 DEF WaitsIn
  <2>4. QED BY <2>2, <2>3
<1>8. ASSUME NEW t \in Thread, t = running, NEW r \in Lock \cup Sema
      PROVE  (WaitsIn(t, r)' <=> r = s) /\ ~WaitsIn(t, r)
  <2>1. pc'[t] = "down_loop" /\ arg'[t] = s /\ status'[t] = "BLOCKED"
    BY <1>1, <1>3, <1>8 DEF IInv, TypeOK
  <2>2. QED BY <1>1, <1>8, <2>1 DEF WaitsIn
<1>9. ASSUME NEW r \in Lock \cup Sema
      PROVE  IsInjective(waiters[r])' /\ Range(waiters[r])' = {t \in Thread : WaitsIn(t, r)}'
  <2>1. CASE r = s
    <3>1. {t \in Thread : WaitsIn(t, s)}' = {t \in Thread : WaitsIn(t, s)} \cup {running}
      <4>1. \A t \in Thread : WaitsIn(t, s)' <=> WaitsIn(t, s) \/ t = running
        BY <1>7, <1>8
      <4>2. QED BY <1>1, <4>1
    <3>2. QED BY <1>4, <1>5, <1>6, <2>1, <3>1
  <2>2. CASE r # s
    <3>1. {t \in Thread : WaitsIn(t, r)}' = {t \in Thread : WaitsIn(t, r)}
      <4>1. \A t \in Thread : WaitsIn(t, r)' <=> WaitsIn(t, r)
        BY <1>7, <1>8, <2>2
      <4>2. QED BY <4>1
    <3>2. QED BY <1>6, <2>2, <3>1 DEF IInv, ElemOnOneList
  <2>3. QED BY <2>1, <2>2
<1>10. ASSUME NEW t \in Thread, blocked_ticks'[t] > 0
       PROVE  status'[t] = "BLOCKED" /\ pc'[t] # "down_loop"
  <2>1. status[t] = "BLOCKED" /\ pc[t] # "down_loop" /\ t # Idle
    BY <1>1, <1>10 DEF IInv, ElemOnOneList, IntrOK
  <2>2. QED BY <1>1, <1>2, <1>3, <2>1 DEF IInv, TypeOK
<1>11. ElemOnOneList'
  BY <1>2, <1>9, <1>10 DEF ElemOnOneList, OnlyRunning, ReadyOK
<1>12. \A t \in Thread : status'[t] \in {"FREE", "DYING"} => status[t] = status'[t]
  BY <1>2, <1>3 DEF OnlyRunning
<1>13. \A t \in Thread \ {Idle} : status[t] \notin {"RUNNING", "READY"} => status'[t] = status[t]
  BY <1>1, <1>2, <1>3
<1>14. ready' \in Seq(Thread)
  BY <1>2 DEF ReadyOK
<1>15. QED
  BY <1>2, <1>6, <1>11, <1>12, <1>13, <1>14

\* A round of sema_down() that blocks preserves the invariant.
LEMMA DownBlocks ==
  ASSUME IInv, NEW s \in Lock \cup Sema, ~in_external_intr,
         pc[running] \in {"run", "acq_down", "down_loop"},
         waiters' = [waiters EXCEPT ![s] = InsertOrdered(@, running, priority)],
         ThreadBlock,
         pc' = [pc EXCEPT ![running] = "down_loop"],
         arg' \in [Thread -> Lock \cup Sema \cup {NULL}],
         ret' \in [Thread -> {"run", "create_read", "create_unblock", NULL}],
         walk' \in [Thread -> Lock \cup {NULL}],
         \A t \in Thread \ {running} :
           arg'[t] = arg[t] /\ ret'[t] = ret[t] /\ walk'[t] = walk[t],
         arg'[running] = s,
         ret'[running] # NULL,
         ret'[running] \in {"run", ret[running]},
         UNCHANGED <<value, priority, base_priority, blocked_ticks, in_external_intr,
                     yield_on_return, unvisited, holder, max_priority, locks, locks_wait,
                     new, tid, next_tid>>
  PROVE  IInv'
<1>1. running \in Thread /\ running # Idle /\ pc \in [Thread -> Labels]
  BY Zenon DEF IInv, TypeOK, ThreadTypeOK, ControlOK
<1>2. /\ running' \in Thread
      /\ ready' \in Seq(Thread)
      /\ status' \in [Thread -> Statuses]
      /\ thread_ticks' = 0
      /\ waiters' \in [Lock \cup Sema -> Seq(Thread)]
      /\ \A t \in Thread \ {Idle} : status[t] \notin {"RUNNING", "READY"} => status'[t] = status[t]
      /\ \A t \in Thread : status'[t] \in {"FREE", "DYING"} => status[t] = status'[t]
      /\ ElemOnOneList'
  BY <1>1, BlockInSema, Zenon
<1>3. /\ pc' \in [Thread -> Labels]
      /\ pc'[running] = "down_loop"
      /\ \A t \in Thread \ {running} : pc'[t] = pc[t]
  BY <1>1, Zenon DEF Labels
<1>4. TypeOK'
  <2>1. 0 \in 0..TIME_SLICE
    BY SliceBound, Zenon
  <2>2. ThreadTypeOK'
    BY <1>2, <2>1, Zenon DEF IInv, TypeOK, ThreadTypeOK
  <2>3. QED
    BY <1>2, <1>3, <2>2 DEF IInv, TypeOK
<1>5. status[running] = "RUNNING"
  BY <1>1 DEF IInv, ElemOnOneList
<1>6. ControlOK'
  <2>1. s # NULL
    BY SynchAssumption
  <2>2. status'[running] \notin {"FREE", "DYING"}
    BY <1>1, <1>2, <1>5
  <2>3. QED
    BY <1>1, <1>2, <1>3, <2>1, <2>2, ControlKept DEF InLock
<1>7. IntrOK'
  BY <1>2, SliceBound DEF IInv, IntrOK
<1>8. NewOK'
  <2>1. \A t \in Thread : InCreate(t)' => InCreate(t)
    BY <1>1, <1>3 DEF InCreate
  <2>2. \A t \in Thread \ {Idle} : status[t] = "BLOCKED" => t # running /\ status'[t] = "BLOCKED"
    BY <1>2, <1>5
  <2>3. QED
    BY <1>3, <2>1, <2>2, NewKept
<1>9. LockOK'
  BY <1>1, <1>3, LockKept
<1>10. MutualExclusion'
  BY <1>1, <1>3, QuietMutex DEF IInv
<1>11. QED
  BY <1>2, <1>4, <1>6, <1>7, <1>8, <1>9, <1>10 DEF IInv

\* A round of sema_down() that takes the semaphore of a lock preserves the invariant:
\* the lock had no owner.
LEMMA DownTakesLock ==
  ASSUME IInv, NEW l \in Lock, ~in_external_intr,
         pc[running] \in {"acq_down", "down_loop"},
         arg[running] = l,
         value[l] > 0,
         value' = [value EXCEPT ![l] = @ - 1],
         pc' = [pc EXCEPT ![running] = "acq_own"],
         walk' \in [Thread -> Lock \cup {NULL}],
         \A t \in Thread \ {running} : walk'[t] = walk[t],
         UNCHANGED <<running, ready, status, priority, base_priority, blocked_ticks,
                     thread_ticks, in_external_intr, yield_on_return, unvisited, arg, ret, new,
                     waiters, holder, max_priority, locks, locks_wait, tid, next_tid>>
  PROVE  IInv'
<1>1. running \in Thread /\ running # Idle /\ pc \in [Thread -> Labels]
      /\ status[running] = "RUNNING" /\ ret[running] # NULL
  BY Zenon DEF IInv, TypeOK, ThreadTypeOK, ControlOK, ElemOnOneList, InLock
<1>2. /\ pc' \in [Thread -> Labels]
      /\ pc'[running] = "acq_own"
      /\ \A t \in Thread \ {running} : pc'[t] = pc[t]
  BY <1>1, Zenon DEF Labels
<1>3. /\ value[l] = 1 /\ Owners(l) = {} /\ holder[l] = NULL
      /\ value' \in [Lock \cup Sema -> Nat]
      /\ value'[l] = 0
      /\ \A k \in Lock \ {l} : value'[k] = value[k]
  <2>1. value[l] = 1 /\ Owners(l) = {}
    BY DEF IInv, MutualExclusion
  <2>2. holder[l] = NULL
    BY <2>1 DEF IInv, TypeOK, Owners
  <2>3. QED
    BY <2>1, <2>2 DEF IInv, TypeOK
<1>4. TypeOK'
  BY <1>2, <1>3 DEF IInv, TypeOK, ThreadTypeOK
<1>5. ControlOK'
  BY <1>1, <1>2, ControlKept DEF InLock
<1>6. IntrOK'
  BY DEF IInv, IntrOK
<1>7. ElemOnOneList'
  BY <1>1, <1>2, QuietLists
<1>8. NewOK'
  BY <1>1, <1>2, QuietNew DEF InCreate
<1>9. LockOK'
  BY <1>1, <1>2, <1>3, LockKept
<1>10. MutualExclusion'
  <2>1. Owners(l)' = {running}
    BY <1>1, <1>2, <1>3, SynchAssumption DEF Owners
  <2>2. ASSUME NEW k \in Lock \ {l} PROVE Owners(k)' = Owners(k)
    BY <1>1, <1>2, Zenon DEF Owners
  <2>3. QED
    BY <1>3, <2>1, <2>2 DEF IInv, MutualExclusion
<1>11. QED
  BY <1>4, <1>5, <1>6, <1>7, <1>8, <1>9, <1>10 DEF IInv

\* A round of sema_down() or sema_try_down() that takes another semaphore preserves
\* the invariant.
LEMMA DownTakesSema ==
  ASSUME IInv, NEW s \in Sema, ~in_external_intr,
         pc[running] \in {"run", "down_loop"},
         value[s] > 0,
         value' = [value EXCEPT ![s] = @ - 1],
         NEW k \in {"run", "create_read", "create_unblock"}, k \in {"run", ret[running]},
         pc' = [pc EXCEPT ![running] = k],
         arg' \in [Thread -> Lock \cup Sema \cup {NULL}],
         ret' = [ret EXCEPT ![running] = NULL],
         \A t \in Thread \ {running} : arg'[t] = arg[t],
         UNCHANGED <<running, ready, status, priority, base_priority, blocked_ticks,
                     thread_ticks, in_external_intr, yield_on_return, unvisited, walk, new,
                     waiters, holder, max_priority, locks, locks_wait, tid, next_tid>>
  PROVE  IInv'
<1>1. running \in Thread /\ running # Idle /\ pc \in [Thread -> Labels]
      /\ status[running] = "RUNNING"
      /\ ret \in [Thread -> {"run", "create_read", "create_unblock", NULL}]
  BY Zenon DEF IInv, TypeOK, ThreadTypeOK, ControlOK, ElemOnOneList
<1>2. /\ pc' \in [Thread -> Labels]
      /\ pc'[running] = k
      /\ ret' \in [Thread -> {"run", "create_read", "create_unblock", NULL}]
      /\ ret'[running] = NULL
      /\ \A t \in Thread \ {running} : pc'[t] = pc[t] /\ ret'[t] = ret[t]
  BY <1>1, Zenon DEF Labels
<1>3. /\ value' \in [Lock \cup Sema -> Nat]
      /\ \A l \in Lock : value'[l] = value[l]
  BY SynchAssumption DEF IInv, TypeOK
<1>4. TypeOK'
  BY <1>2, <1>3 DEF IInv, TypeOK, ThreadTypeOK
<1>5. ControlOK'
  BY <1>1, <1>2, ControlKept DEF InLock
<1>6. IntrOK'
  BY DEF IInv, IntrOK
<1>7. ElemOnOneList'
  BY <1>1, <1>2, QuietLists
<1>8. NewOK'
  <2>1. InCreate(running)' => InCreate(running)
    BY <1>1, <1>2, SynchAssumption DEF InCreate, Labels
  <2>2. QED BY <1>1, <1>2, <2>1, QuietNew
<1>9. LockOK'
  BY <1>1, <1>2, LockKept
<1>10. MutualExclusion'
  BY <1>1, <1>2, <1>3, QuietMutex DEF IInv
<1>11. QED
  BY <1>4, <1>5, <1>6, <1>7, <1>8, <1>9, <1>10 DEF IInv

\* The threads blocked in sema_down(s) by the status map st.
WaitersIn(st, s) ==
  {t \in Thread : st[t] = "BLOCKED" /\ pc[t] = "down_loop" /\ arg[t] = s}

\* The threads the lists of waiters hold after a sema_up() that leaves the status map
\* st, and the thread it woke.
WokenBy(st) ==
  /\ \A r \in Lock \cup Sema :
       IsInjective(waiters'[r]) /\ Range(waiters'[r]) = WaitersIn(st, r)
  /\ \A t \in Thread : st[t] # status[t] =>
       t # Idle /\ status[t] = "BLOCKED" /\ pc[t] = "down_loop" /\ st[t] = "READY"

\* sema_up() sorts the waiters, takes the front and unblocks it: it moves from the list
\* of waiters to the ready list.
LEMMA WakeProperties ==
  ASSUME IInv, NEW s \in Lock \cup Sema, NEW q \in ListSorts(waiters[s], priority),
         SemaPost(s, q)
  PROVE  /\ WokenStatus(q) \in [Thread -> Statuses]
         /\ OnlyRunning(WokenStatus(q), running)
         /\ ReadyOK(WokenStatus(q), WokenReady(q))
         /\ SortedByPriority(ready, priority) => SortedByPriority(WokenReady(q), priority)
         /\ value' \in [Lock \cup Sema -> Nat]
         /\ value'[s] = value[s] + 1
         /\ \A r \in (Lock \cup Sema) \ {s} : value'[r] = value[r]
         /\ waiters' \in [Lock \cup Sema -> Seq(Thread)]
         /\ WokenBy(WokenStatus(q))
<1> DEFINE st == WokenStatus(q)
           rdy == WokenReady(q)
<1>1. /\ status \in [Thread -> Statuses]
      /\ OnlyRunning(status, running)
      /\ ReadyOK(status, ready)
      /\ priority \in [Thread -> Int]
      /\ waiters \in [Lock \cup Sema -> Seq(Thread)]
      /\ value \in [Lock \cup Sema -> Nat]
  BY DEF IInv, TypeOK, ThreadTypeOK, ElemOnOneList, OnlyRunning, ReadyOK, Priorities
<1>2. /\ q \in Seq(Thread)
      /\ IsInjective(q)
      /\ Range(q) = {t \in Thread : WaitsIn(t, s)}
  BY <1>1, ListSortsProperties DEF IInv, ElemOnOneList
<1>3. \A r \in (Lock \cup Sema) :
        IsInjective(waiters[r]) /\ Range(waiters[r]) = {t \in Thread : WaitsIn(t, r)}
  BY DEF IInv, ElemOnOneList
<1>4. /\ value' \in [Lock \cup Sema -> Nat]
      /\ value'[s] = value[s] + 1
      /\ \A r \in (Lock \cup Sema) \ {s} : value'[r] = value[r]
      /\ \A r \in (Lock \cup Sema) \ {s} : waiters'[r] = waiters[r]
      /\ waiters'[s] = IF q = <<>> THEN q ELSE Tail(q)
      /\ waiters' = [waiters EXCEPT ![s] = IF q = <<>> THEN q ELSE Tail(q)]
  BY <1>1 DEF SemaPost
<1>5. CASE q = <<>>
  <2>1. st = status /\ rdy = ready /\ waiters'[s] = q
    BY <1>4, <1>5 DEF WokenStatus, WokenReady
  <2>2. waiters' \in [Lock \cup Sema -> Seq(Thread)]
    BY <1>1, <1>2, <1>4, <1>5
  <2>3. ASSUME NEW r \in Lock \cup Sema
        PROVE  IsInjective(waiters'[r]) /\ Range(waiters'[r]) = {t \in Thread : WaitsIn(t, r)}
    BY <1>2, <1>3, <1>4, <2>1
  <2>4. QED
    BY <1>1, <1>4, <2>1, <2>2, <2>3 DEF WaitsIn, WaitersIn, WokenBy
<1>6. CASE q # <<>>
  <2> DEFINE h == Head(q)
  <2>1. /\ h \in Range(q) /\ h \in Thread
        /\ Tail(q) \in Seq(Thread)
        /\ Range(Tail(q)) = Range(q) \ {h}
        /\ IsInjective(Tail(q))
    BY <1>2, <1>6, PopFrontProperties
  <2>2. /\ status[h] = "BLOCKED" /\ pc[h] = "down_loop" /\ arg[h] = s /\ h # Idle
    BY <1>2, <2>1 DEF WaitsIn, IInv, ControlOK
  <2>3. st = UnblockedStatus(h) /\ rdy = UnblockedReady(h) /\ waiters'[s] = Tail(q)
    BY <1>4, <1>6 DEF WokenStatus, WokenReady
  <2> HIDE DEF h, st, rdy
  <2>4. /\ st \in [Thread -> Statuses]
        /\ ReadyOK(st, rdy)
        /\ SortedByPriority(ready, priority) => SortedByPriority(rdy, priority)
    BY <1>1, <2>1, <2>2, <2>3, UnblockProperties
  <2>5. st[h] = "READY" /\ \A t \in Thread \ {h} : st[t] = status[t]
    BY <1>1, <2>1, <2>3 DEF UnblockedStatus
  <2>6. OnlyRunning(st, running)
    BY <1>1, <2>1, <2>2, <2>5 DEF OnlyRunning
  <2>7. waiters' \in [Lock \cup Sema -> Seq(Thread)]
    BY <1>1, <1>4, <1>6, <2>1
  <2>8. ASSUME NEW r \in Lock \cup Sema
        PROVE  /\ IsInjective(waiters'[r])
               /\ Range(waiters'[r]) = WaitersIn(st, r)
    <3>1. CASE r = s
      <4>1. WaitersIn(st, s) =
              {t \in Thread : WaitsIn(t, s)} \ {h}
        BY <2>5 DEF WaitsIn, WaitersIn
      <4>2. QED BY <1>2, <2>1, <2>3, <3>1, <4>1, Zenon
    <3>2. CASE r # s
      <4>1. WaitersIn(st, r) =
              {t \in Thread : WaitsIn(t, r)}
        BY <2>2, <2>5, <3>2 DEF WaitsIn, WaitersIn
      <4>2. QED BY <1>3, <1>4, <3>2, <4>1
    <3>3. QED BY <3>1, <3>2
  <2>9. \A t \in Thread : st[t] # status[t] =>
          t # Idle /\ status[t] = "BLOCKED" /\ pc[t] = "down_loop" /\ st[t] = "READY"
    BY <2>2, <2>5
  <2>10. WokenBy(st)
    BY <2>8, <2>9 DEF WokenBy
  <2>11. QED
    BY <1>4, <2>4, <2>6, <2>7, <2>10 DEF st, rdy
<1>7. QED
  BY <1>5, <1>6

\* thread_yield() keeps the lists intact, from the status map and ready list its caller
\* leaves.
LEMMA YieldLists ==
  ASSUME IInv, NEW st \in [Thread -> Statuses], OnlyRunning(st, running),
         NEW rdy, ReadyOK(st, rdy), NEW pri \in [Thread -> Int], ThreadYield(st, rdy, pri),
         \A r \in Lock \cup Sema :
           /\ IsInjective(waiters'[r])
           /\ Range(waiters'[r]) = WaitersIn(st, r),
         \A t \in Thread \ {running} : pc'[t] = pc[t] /\ arg'[t] = arg[t],
         \A t \in Thread : blocked_ticks[t] > 0 => st[t] = "BLOCKED",
         UNCHANGED blocked_ticks
  PROVE  /\ running' \in Thread
         /\ ready' \in Seq(Thread)
         /\ status' \in [Thread -> Statuses]
         /\ thread_ticks' = 0
         /\ \A t \in Thread \ {Idle} : st[t] = "BLOCKED" => status'[t] = "BLOCKED"
         /\ \A t \in Thread : status'[t] \in {"FREE", "DYING"} => st[t] = status'[t] /\ t # running
         /\ ElemOnOneList'
<1>1. running \in Thread /\ st[running] = "RUNNING" /\ Idle \in Thread
  BY ThreadAssumption DEF IInv, TypeOK, ThreadTypeOK, OnlyRunning
<1>2. /\ running' \in Thread
      /\ status' \in [Thread -> Statuses]
      /\ status' = [[st EXCEPT ![running] = "READY"] EXCEPT ![running'] = "RUNNING"]
      /\ thread_ticks' = 0
      /\ running' \in {Idle, running} \/ st[running'] = "READY"
      /\ OnlyRunning(status', running')
      /\ ReadyOK(status', ready')
  BY <1>1, ThreadYieldProperties
<1>3. /\ status'[running] \in {"READY", "RUNNING"}
      /\ \A t \in Thread \ {running, running'} : status'[t] = st[t]
      /\ status'[running'] = "RUNNING"
  BY <1>1, <1>2
<1>4. \A t \in Thread \ {Idle} : st[t] = "BLOCKED" <=> status'[t] = "BLOCKED"
  BY <1>1, <1>2, <1>3
<1>5. \A t \in Thread : status'[t] \in {"FREE", "DYING"} => st[t] = status'[t] /\ t # running
  BY <1>1, <1>2, <1>3
<1>6. ASSUME NEW r \in Lock \cup Sema, NEW t \in Thread
      PROVE  WaitsIn(t, r)' <=> st[t] = "BLOCKED" /\ pc[t] = "down_loop" /\ arg[t] = r
  <2>1. CASE t = running
    <3>1. ~WaitsIn(t, r)'
      BY <1>1, <1>3, <2>1, Zenon DEF WaitsIn
    <3>2. QED BY <1>1, <2>1, <3>1
  <2>2. CASE t # running /\ t = Idle
    BY <2>2, Zenon DEF WaitsIn, IInv, ControlOK
  <2>3. CASE t # running /\ t # Idle
    BY <1>4, <2>3 DEF WaitsIn
  <2>4. QED BY <2>1, <2>2, <2>3
<1>7. ASSUME NEW r \in Lock \cup Sema
      PROVE  (IsInjective(waiters[r]) /\ Range(waiters[r]) = {t \in Thread : WaitsIn(t, r)})'
  <2>1. {t \in Thread : WaitsIn(t, r)}' = WaitersIn(st, r)
    BY <1>6 DEF WaitersIn
  <2>2. QED BY <2>1
<1>8. ASSUME NEW t \in Thread, blocked_ticks'[t] > 0
      PROVE  status'[t] = "BLOCKED" /\ pc'[t] # "down_loop"
  <2>1. blocked_ticks[t] > 0 /\ st[t] = "BLOCKED" /\ t # running
    BY <1>1, <1>8
  <2>2. pc[t] # "down_loop"
    BY <2>1 DEF IInv, ElemOnOneList
  <2>3. blocked_ticks[Idle] = 0
    BY Zenon DEF IInv, IntrOK
  <2>4. t # Idle
    BY <2>1, <2>3, ZeroNotPositive, Zenon
  <2>5. QED BY <1>4, <2>1, <2>2, <2>4
<1>9. ElemOnOneList'
  BY <1>2, <1>7, <1>8, Zenon DEF ElemOnOneList, OnlyRunning, ReadyOK
<1>10. QED
  BY <1>2, <1>4, <1>5, <1>9 DEF ReadyOK

\* sema_up(), with the yield at its end, keeps the lists intact and adds one to the
\* value.
LEMMA SemaUpLists ==
  ASSUME IInv, NEW s \in Lock \cup Sema, SemaUp(s),
         \A t \in Thread \ {running} : pc'[t] = pc[t] /\ arg'[t] = arg[t],
         UNCHANGED blocked_ticks
  PROVE  /\ running' \in Thread
         /\ ready' \in Seq(Thread)
         /\ status' \in [Thread -> Statuses]
         /\ thread_ticks' = 0
         /\ value' \in [Lock \cup Sema -> Nat]
         /\ value'[s] = value[s] + 1
         /\ \A r \in (Lock \cup Sema) \ {s} : value'[r] = value[r]
         /\ waiters' \in [Lock \cup Sema -> Seq(Thread)]
         /\ \A t \in Thread \ {Idle} :
              status[t] = "BLOCKED" /\ pc[t] # "down_loop" => status'[t] = "BLOCKED"
         /\ \A t \in Thread :
              status'[t] \in {"FREE", "DYING"} => status[t] = status'[t] /\ t # running
         /\ ElemOnOneList'
<1>1. PICK q \in ListSorts(waiters[s], priority) :
        SemaPost(s, q) /\ ThreadYield(WokenStatus(q), WokenReady(q), priority)
  BY DEF SemaUp
<1>2. PICK st, rdy : st = WokenStatus(q) /\ rdy = WokenReady(q)
  OBVIOUS
<1>3. /\ st \in [Thread -> Statuses]
      /\ OnlyRunning(st, running)
      /\ ReadyOK(st, rdy)
  BY <1>1, <1>2, WakeProperties, Zenon
<1>4. /\ value' \in [Lock \cup Sema -> Nat]
      /\ value'[s] = value[s] + 1
      /\ \A r \in (Lock \cup Sema) \ {s} : value'[r] = value[r]
      /\ waiters' \in [Lock \cup Sema -> Seq(Thread)]
  BY <1>1, WakeProperties, Zenon
<1>5. WokenBy(st)
  BY <1>1, <1>2, WakeProperties, Zenon
<1>6. \A t \in Thread : st[t] # status[t] =>
        t # Idle /\ status[t] = "BLOCKED" /\ pc[t] = "down_loop" /\ st[t] = "READY"
  BY <1>5, Zenon DEF WokenBy
<1>7. ThreadYield(st, rdy, priority) /\ priority \in [Thread -> Int]
  BY <1>1, <1>2 DEF IInv, TypeOK, ThreadTypeOK, Priorities
<1>8. \A t \in Thread : blocked_ticks[t] > 0 => st[t] = "BLOCKED"
  BY <1>6 DEF IInv, ElemOnOneList
<1>9. /\ running' \in Thread
      /\ ready' \in Seq(Thread)
      /\ status' \in [Thread -> Statuses]
      /\ thread_ticks' = 0
      /\ \A t \in Thread \ {Idle} : st[t] = "BLOCKED" => status'[t] = "BLOCKED"
      /\ \A t \in Thread : status'[t] \in {"FREE", "DYING"} => st[t] = status'[t] /\ t # running
      /\ ElemOnOneList'
  BY <1>3, <1>5, <1>7, <1>8, YieldLists, Zenon DEF WokenBy
<1>10. QED
  BY <1>4, <1>6, <1>9, Zenon

\* thread_yield() called on its own keeps the lists intact.
LEMMA YieldPlain ==
  ASSUME IInv, NEW pri \in [Thread -> Int], ThreadYield(status, ready, pri),
         \A t \in Thread \ {running} : pc'[t] = pc[t] /\ arg'[t] = arg[t],
         UNCHANGED <<waiters, blocked_ticks>>
  PROVE  /\ running' \in Thread
         /\ ready' \in Seq(Thread)
         /\ status' \in [Thread -> Statuses]
         /\ thread_ticks' = 0
         /\ \A t \in Thread \ {Idle} : status[t] = "BLOCKED" => status'[t] = "BLOCKED"
         /\ \A t \in Thread :
              status'[t] \in {"FREE", "DYING"} => status[t] = status'[t] /\ t # running
         /\ ElemOnOneList'
<1>1. /\ status \in [Thread -> Statuses]
      /\ OnlyRunning(status, running)
      /\ ReadyOK(status, ready)
      /\ \A t \in Thread : blocked_ticks[t] > 0 => status[t] = "BLOCKED"
  BY DEF IInv, TypeOK, ThreadTypeOK, ElemOnOneList, OnlyRunning, ReadyOK
<1>2. ASSUME NEW r \in Lock \cup Sema
      PROVE  IsInjective(waiters'[r]) /\ Range(waiters'[r]) = WaitersIn(status, r)
  <2>1. {t \in Thread : WaitsIn(t, r)} = WaitersIn(status, r)
    BY DEF WaitsIn, WaitersIn
  <2>2. QED BY <2>1, Zenon DEF IInv, ElemOnOneList
<1>3. PICK st : st = status
  OBVIOUS
<1>4. QED
  BY <1>1, <1>2, <1>3, YieldLists, Zenon

\* A step that only yields, and perhaps changes priorities, preserves the invariant.
LEMMA YieldStep ==
  ASSUME IInv, NEW pri \in [Thread -> Int], ThreadYield(status, ready, pri),
         priority' \in [Thread -> Priorities], base_priority' \in [Thread -> Priorities],
         unvisited = {}, in_external_intr' = FALSE, yield_on_return' \in BOOLEAN,
         UNCHANGED <<blocked_ticks, unvisited, pc, arg, ret, walk, new, value, waiters, holder,
                     max_priority, locks, locks_wait, tid, next_tid>>
  PROVE  IInv'
<1>1. /\ running' \in Thread
      /\ ready' \in Seq(Thread)
      /\ status' \in [Thread -> Statuses]
      /\ thread_ticks' = 0
      /\ \A t \in Thread \ {Idle} : status[t] = "BLOCKED" => status'[t] = "BLOCKED"
      /\ \A t \in Thread :
           status'[t] \in {"FREE", "DYING"} => status[t] = status'[t] /\ t # running
      /\ ElemOnOneList'
  BY YieldPlain
<1>2. TypeOK'
  <2>1. 0 \in 0..TIME_SLICE
    BY SliceBound
  <2>2. ThreadTypeOK'
    BY <1>1, <2>1, Zenon DEF IInv, TypeOK, ThreadTypeOK
  <2>3. QED
    BY <2>2 DEF IInv, TypeOK
<1>3. ControlOK'
  BY <1>1, ControlSame
<1>4. IntrOK'
  BY <1>1, SliceBound DEF IInv, IntrOK
<1>5. NewOK'
  <2>1. \A t \in Thread : InCreate(t)' => InCreate(t)
    BY Zenon DEF InCreate
  <2>2. QED
    BY <1>1, <2>1, NewKept, Zenon
<1>6. LockOK'
  BY DEF IInv, LockOK
<1>7. MutualExclusion'
  BY QuietMutex DEF IInv
<1>8. QED
  BY <1>1, <1>2, <1>3, <1>4, <1>5, <1>6, <1>7 DEF IInv

\* A step that only changes priorities or the interrupt flags preserves the invariant.
LEMMA QuietStep ==
  ASSUME IInv,
         priority' \in [Thread -> Priorities], base_priority' \in [Thread -> Priorities],
         unvisited = {}, thread_ticks # TIME_SLICE,
         in_external_intr' \in BOOLEAN, yield_on_return' \in BOOLEAN,
         UNCHANGED <<running, ready, status, thread_ticks, blocked_ticks, unvisited, pc, arg, ret,
                     walk, new, value, waiters, holder, max_priority, locks, locks_wait, tid,
                     next_tid>>
  PROVE  IInv'
<1>1. TypeOK'
  BY DEF IInv, TypeOK, ThreadTypeOK
<1>2. ControlOK' /\ IntrOK'
  BY Zenon DEF IInv, ControlOK, IntrOK
<1>3. ElemOnOneList'
  BY QuietLists, Zenon
<1>4. NewOK'
  BY QuietNew DEF InCreate
<1>5. LockOK'
  BY DEF IInv, LockOK
<1>6. MutualExclusion'
  BY QuietMutex DEF IInv
<1>7. QED
  BY <1>1, <1>2, <1>3, <1>4, <1>5, <1>6 DEF IInv

\* thread_unblock() of a thread that is in no sema_down() keeps the lists intact.
LEMMA UnblockLists ==
  ASSUME IInv, NEW t \in Thread \ {Idle}, status[t] = "BLOCKED", pc[t] # "down_loop",
         status' = UnblockedStatus(t), ready' = UnblockedReady(t), UNCHANGED <<running, waiters>>,
         \A u \in Thread \ {running} : pc'[u] = pc[u] /\ arg'[u] = arg[u],
         \A u \in Thread : blocked_ticks'[u] > 0 => blocked_ticks[u] > 0 /\ u # t
  PROVE  /\ ready' \in Seq(Thread)
         /\ status' \in [Thread -> Statuses]
         /\ status'[t] = "READY"
         /\ \A u \in Thread \ {t} : status'[u] = status[u]
         /\ ElemOnOneList'
<1>1. /\ status \in [Thread -> Statuses] /\ running \in Thread /\ status[running] = "RUNNING"
      /\ OnlyRunning(status, running)
      /\ ReadyOK(status, ready)
      /\ priority \in [Thread -> Int]
  BY DEF IInv, TypeOK, ThreadTypeOK, ElemOnOneList, OnlyRunning, ReadyOK, Priorities
<1>2. status' \in [Thread -> Statuses] /\ ReadyOK(status', ready')
  BY <1>1, UnblockProperties, Zenon
<1>3. status'[t] = "READY" /\ \A u \in Thread \ {t} : status'[u] = status[u]
  BY <1>1, Zenon DEF UnblockedStatus
<1>4. \A u \in Thread : status'[u] = "RUNNING" <=> u = running'
  BY <1>1, <1>3, Zenon DEF OnlyRunning
<1>5. ASSUME NEW u \in Thread, NEW r \in Lock \cup Sema PROVE WaitsIn(u, r)' <=> WaitsIn(u, r)
  <2>1. CASE u = running
    BY <1>1, <1>3, <2>1 DEF WaitsIn
  <2>2. CASE u # running
    BY <1>3, <2>2, Zenon DEF WaitsIn
  <2>3. QED BY <2>1, <2>2, Zenon
<1>6. ASSUME NEW r \in Lock \cup Sema
      PROVE  (IsInjective(waiters[r]) /\ Range(waiters[r]) = {u \in Thread : WaitsIn(u, r)})'
  <2>1. {u \in Thread : WaitsIn(u, r)}' = {u \in Thread : WaitsIn(u, r)}
    BY <1>5, Zenon
  <2>2. QED BY <2>1, Zenon DEF IInv, ElemOnOneList
<1>7. ASSUME NEW u \in Thread, blocked_ticks'[u] > 0
      PROVE  status'[u] = "BLOCKED" /\ pc'[u] # "down_loop"
  <2>1. status[u] = "BLOCKED" /\ pc[u] # "down_loop" /\ u # t
    BY <1>7, Zenon DEF IInv, ElemOnOneList
  <2>2. QED BY <1>1, <1>3, <2>1
<1>8. ElemOnOneList'
  BY <1>2, <1>4, <1>6, <1>7, Zenon DEF ElemOnOneList, ReadyOK
<1>9. QED
  BY <1>2, <1>3, <1>8 DEF ReadyOK

\* A switch away from a running thread that blocks outside sema_down(), or dies, keeps
\* the lists intact.
LEMMA ScheduleLists ==
  ASSUME IInv, NEW x \in {"BLOCKED", "DYING", "FREE"},
         Schedule([status EXCEPT ![running] = x], ready), UNCHANGED waiters,
         \A u \in Thread \ {running} : pc'[u] = pc[u] /\ arg'[u] = arg[u],
         pc'[running] # "down_loop",
         \A u \in Thread : blocked_ticks'[u] > 0 =>
           \/ u # running /\ blocked_ticks[u] > 0
           \/ u = running /\ u # Idle /\ x = "BLOCKED"
  PROVE  /\ running' \in Thread
         /\ ready' \in Seq(Thread)
         /\ status' \in [Thread -> Statuses]
         /\ thread_ticks' = 0
         /\ \A u \in Thread \ {Idle, running} : status[u] = "BLOCKED" => status'[u] = "BLOCKED"
         /\ \A u \in Thread \ {running} :
              status'[u] \in {"FREE", "DYING"} => status[u] \in {"FREE", "DYING"}
         /\ status'[running] \in {x, "RUNNING"}
         /\ ElemOnOneList'
<1> DEFINE st == [status EXCEPT ![running] = x]
<1>1. /\ status \in [Thread -> Statuses] /\ running \in Thread /\ Idle \in Thread
      /\ status[running] = "RUNNING"
      /\ OnlyRunning(status, running)
      /\ ReadyOK(status, ready)
  BY ThreadAssumption DEF IInv, TypeOK, ThreadTypeOK, ElemOnOneList, OnlyRunning, ReadyOK
<1>2. /\ st \in [Thread -> Statuses] /\ st[running] = x
      /\ \A u \in Thread \ {running} : st[u] = status[u]
      /\ \A u \in Thread : st[u] # "RUNNING"
      /\ Schedule(st, ready)
  BY <1>1 DEF OnlyRunning, Statuses
<1> HIDE DEF st
<1>3. ReadyOK(st, ready)
  <2>1. {u \in Thread \ {Idle} : st[u] = "READY"} = {u \in Thread \ {Idle} : status[u] = "READY"}
    BY <1>1, <1>2
  <2>2. QED BY <1>1, <2>1 DEF ReadyOK
<1>4. /\ running' \in Thread
      /\ status' = [st EXCEPT ![running'] = "RUNNING"]
      /\ status' \in [Thread -> Statuses]
      /\ thread_ticks' = 0
      /\ running' = Idle \/ st[running'] = "READY"
      /\ OnlyRunning(status', running')
      /\ ReadyOK(status', ready')
  BY <1>2, <1>3, ScheduleProperties
<1>5. /\ status'[running'] = "RUNNING"
      /\ \A u \in Thread \ {running'} : status'[u] = st[u]
  BY <1>2, <1>4
<1>6. ASSUME NEW u \in Thread, NEW r \in Lock \cup Sema PROVE WaitsIn(u, r)' <=> WaitsIn(u, r)
  <2>1. CASE u = running
    BY <1>1, <2>1 DEF WaitsIn
  <2>2. CASE u = Idle /\ u # running
    BY <2>2 DEF WaitsIn, IInv, ControlOK
  <2>3. CASE u # running /\ u # Idle
    BY <1>2, <1>4, <1>5, <2>3 DEF WaitsIn
  <2>4. QED BY <2>1, <2>2, <2>3
<1>7. ASSUME NEW r \in Lock \cup Sema
      PROVE  (IsInjective(waiters[r]) /\ Range(waiters[r]) = {u \in Thread : WaitsIn(u, r)})'
  <2>1. {u \in Thread : WaitsIn(u, r)}' = {u \in Thread : WaitsIn(u, r)}
    BY <1>6
  <2>2. QED BY <2>1 DEF IInv, ElemOnOneList
<1>8. ASSUME NEW u \in Thread, blocked_ticks'[u] > 0
      PROVE  status'[u] = "BLOCKED" /\ pc'[u] # "down_loop"
  <2>1. CASE u # running /\ blocked_ticks[u] > 0
    <3>1. status[u] = "BLOCKED" /\ pc[u] # "down_loop" /\ u # Idle
      BY <1>8, <2>1 DEF IInv, ElemOnOneList, IntrOK
    <3>2. QED BY <1>2, <1>4, <1>5, <2>1, <3>1
  <2>2. CASE u = running /\ u # Idle /\ x = "BLOCKED"
    BY <1>2, <1>4, <1>5, <2>2, Zenon
  <2>3. QED BY <1>8, <2>1, <2>2
<1>9. ElemOnOneList'
  BY <1>4, <1>7, <1>8 DEF ElemOnOneList, OnlyRunning, ReadyOK
<1>10. \A u \in Thread \ {Idle, running} : status[u] = "BLOCKED" => status'[u] = "BLOCKED"
  BY <1>2, <1>4, <1>5
<1>11. /\ \A u \in Thread \ {running} :
            status'[u] \in {"FREE", "DYING"} => status[u] \in {"FREE", "DYING"}
       /\ status'[running] \in {x, "RUNNING"}
  BY <1>1, <1>2, <1>4, <1>5
<1>12. QED
  BY <1>4, <1>9, <1>10, <1>11 DEF ReadyOK

\* An interrupt takes the idle thread out of its halt and leaves every other thread
\* where it is.
LEMMA IdlePc ==
  ASSUME IInv, running = Idle => pc' = [pc EXCEPT ![running] = "idle_loop"],
         running # Idle => pc' = pc
  PROVE  /\ pc' \in [Thread -> Labels]
         /\ \A t \in Thread : pc'[t] = pc[t] \/ (t = Idle /\ pc'[t] = "idle_loop")
<1>1. running \in Thread /\ pc \in [Thread -> Labels]
  BY DEF IInv, TypeOK, ThreadTypeOK
<1>2. CASE running = Idle
  BY <1>1, <1>2 DEF Labels
<1>3. CASE running # Idle
  BY <1>1, <1>3
<1>4. QED
  BY <1>2, <1>3
=============================================================================
