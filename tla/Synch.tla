-------------------------------- MODULE Synch --------------------------------
(***************************************************************************)
(* Semaphores and locks with priority donation (threads/synch.c) on top of *)
(* the thread layer, and the kernel threads that call them.                *)
(*                                                                         *)
(* A step is what the CPU does between two points at which it can be       *)
(* interrupted: the body of a critical section (interrupts off), a switch  *)
(* to another thread included, or one C statement outside of one.  pc[t]   *)
(* is the place of thread t in the kernel; "run" is outside any call.      *)
(* Only the running thread takes steps; the timer and the devices          *)
(* interrupt it wherever interrupts are on.                                *)
(***************************************************************************)
EXTENDS Threads

CONSTANTS
  Lock,      \* the locks
  Sema,      \* the semaphores that are not part of a lock
  TidLock,   \* tid_lock of thread.c
  NULL,
  Booted,    \* the threads that exist initially (main, idle and those main created)
  BootPri,   \* their priorities
  BootTid,   \* their tids
  Calls,     \* the kinds of calls the client threads make
  MaxValue,  \* bound: a client or a device ups a semaphore only below this value
  MaxTid     \* bound: threads are created only while next_tid is below this

\* The places a thread can be at.
Labels ==
  {"run", "fault", "acq_wait", "acq_test", "acq_max", "acq_donate", "acq_next",
   "acq_down", "acq_own", "down_loop", "rel_holder", "rel_up", "idle_loop", "idle_hlt",
   "create_read", "create_write", "create_release", "create_unblock", "create_check"}

CallKinds == {"lock", "sema", "device", "sleep", "yield", "set_priority", "create", "exit"}

ASSUME SynchAssumption ==
  /\ TidLock \in Lock
  /\ Lock \cap Sema = {}
  /\ NULL \notin Thread \cup Lock \cup Sema \cup Labels
  /\ {Idle, Main} \subseteq Booted /\ Booted \subseteq Thread
  /\ IsFiniteSet(Booted)
  /\ BootPri \in [Thread -> Priorities]
  /\ BootTid \in [Booted -> 1..Cardinality(Booted)] /\ IsInjective(BootTid)
  /\ Calls \subseteq CallKinds
  /\ MaxValue \in Nat /\ MaxTid \in Nat

VARIABLES
  pc,           \* where each thread is
  arg,          \* the lock or semaphore of the call t is in
  ret,          \* where t continues when the call returns
  walk,         \* the variable l of lock_acquire()
  new,          \* locals of thread_create(): the new thread, its priority, its tid
  value,        \* sema->value, for a lock that of its semaphore
  waiters,      \* sema->waiters
  holder,       \* lock->holder
  max_priority, \* lock->max_priority
  locks,        \* t->locks (always used through its maximum: a set)
  locks_wait,   \* t->locks_wait
  tid,          \* t->tid
  next_tid      \* next_tid of allocate_tid()

svars == <<pc, arg, ret, walk, new, value, waiters, holder, max_priority, locks,
           locks_wait, tid, next_tid>>
vars == <<tvars, svars>>

\* Groups of variables for UNCHANGED.
intrvars == <<blocked_ticks, in_external_intr, yield_on_return, unvisited>>
schedvars == <<running, ready, status, thread_ticks>>
semavars == <<value, waiters>>
lockvars == <<holder, max_priority, locks, locks_wait>>
createvars == <<new, tid, next_tid>>

NoNew == [thread |-> NULL, priority |-> 0, tid |-> 0]

Goto(label) == pc' = [pc EXCEPT ![running] = label]

\* Leave the call the running thread is in: its locals are gone.
Return ==
  /\ Goto(ret[running])
  /\ arg' = [arg EXCEPT ![running] = NULL]
  /\ ret' = [ret EXCEPT ![running] = NULL]
  /\ walk' = [walk EXCEPT ![running] = NULL]

\* A NULL pointer is dereferenced in the kernel: the page fault handler panics
\* and nothing runs any more.
Fault == Goto("fault") /\ UNCHANGED <<tvars, arg, ret, walk, semavars, lockvars, createvars>>

Faulted == \E t \in Thread : pc[t] = "fault"

\* Interrupts are on at every pc except where a thread resumes inside a critical
\* section (the loop of sema_down()).
InterruptsOn == ~in_external_intr /\ pc[running] \notin {"down_loop", "fault"}

At(label) == ~in_external_intr /\ pc[running] = label
-----------------------------------------------------------------------------
(* Semaphores. *)

\* A mutant: the value is not tested.
SemaDownUnchecked(s, k) ==
  value' = [value EXCEPT ![s] = @ - 1] /\ Goto(k) /\ UNCHANGED <<waiters, schedvars>>

\* One round of the loop of sema_down(s); k is where a successful down continues.
SemaDown(s, k) ==
  \/ /\ value[s] = 0
     /\ waiters' = [waiters EXCEPT ![s] = InsertOrdered(@, running, priority)]
     /\ ThreadBlock
     /\ Goto("down_loop")
     /\ UNCHANGED <<value>>
  \/ /\ value[s] > 0
     /\ value' = [value EXCEPT ![s] = @ - 1]
     /\ Goto(k)
     /\ UNCHANGED <<waiters, schedvars>>

\* sema_up(s): q is the sorted list of waiters.  Its front is unblocked.
WokenStatus(q) == IF q = <<>> THEN status ELSE UnblockedStatus(Head(q))
WokenReady(q) == IF q = <<>> THEN ready ELSE UnblockedReady(Head(q))

SemaPost(s, q) ==
  /\ value' = [value EXCEPT ![s] = @ + 1]
  /\ waiters' = [waiters EXCEPT ![s] = IF q = <<>> THEN q ELSE Tail(q)]

\* A mutant: only a waiter more urgent than the caller is woken.
SemaUpIfUrgent(s) ==
  \E q \in ListSorts(waiters[s], priority) :
    IF q # <<>> /\ priority[q[1]] > priority[running]
    THEN SemaPost(s, q) /\ ThreadYield(WokenStatus(q), WokenReady(q), priority)
    ELSE /\ value' = [value EXCEPT ![s] = @ + 1]
         /\ ThreadYield(status, ready, priority)
         /\ UNCHANGED waiters

\* Called by a thread, sema_up() always yields.
SemaUp(s) ==
  \E q \in ListSorts(waiters[s], priority) :
    /\ SemaPost(s, q)
    /\ ThreadYield(WokenStatus(q), WokenReady(q), priority)

\* Called by the handler of an external interrupt, it asks for a yield at its end.
DeviceInterrupt(s) ==
  /\ "device" \in Calls
  /\ InterruptsOn
  /\ value[s] < MaxValue
  /\ \E q \in ListSorts(waiters[s], priority) :
       /\ SemaPost(s, q)
       /\ status' = WokenStatus(q)
       /\ ready' = WokenReady(q)
  /\ in_external_intr' = TRUE
  /\ yield_on_return' = TRUE
  /\ IF running = Idle THEN Goto("idle_loop") ELSE UNCHANGED pc
  /\ UNCHANGED <<running, priority, base_priority, blocked_ticks, thread_ticks, unvisited,
                 arg, ret, walk, lockvars, createvars>>

-----------------------------------------------------------------------------
(* lock_acquire(), which is interruptible up to sema_down(). *)

CallLockAcquire(l, k) ==
  /\ holder[l] # running
  /\ Goto(IF holder[l] # NULL THEN "acq_wait" ELSE "acq_down")
  /\ arg' = [arg EXCEPT ![running] = l]
  /\ ret' = [ret EXCEPT ![running] = k]
  /\ UNCHANGED <<tvars, walk, semavars, lockvars>>

AcquireWait ==
  /\ At("acq_wait")
  /\ locks_wait' = [locks_wait EXCEPT ![running] = arg[running]]
  /\ walk' = [walk EXCEPT ![running] = arg[running]]
  /\ Goto("acq_test")
  /\ UNCHANGED <<tvars, arg, ret, semavars, holder, max_priority, locks, createvars>>

\* The condition of the donation loop.
AcquireTest ==
  /\ At("acq_test")
  /\ LET l == walk[running]
         donate == IF l = NULL THEN FALSE ELSE priority[running] > max_priority[l]
     IN  Goto(IF donate THEN "acq_max" ELSE "acq_down")
  /\ UNCHANGED <<tvars, arg, ret, walk, semavars, lockvars, createvars>>

AcquireMax ==
  /\ At("acq_max")
  /\ max_priority' = [max_priority EXCEPT ![walk[running]] = priority[running]]
  /\ Goto("acq_donate")
  /\ UNCHANGED <<tvars, arg, ret, walk, semavars, holder, locks, locks_wait, createvars>>

\* A mutant: the maximum starts from the present priority.
UpdatedOnlyUp(t, held, maxp) ==
  LET donated == {maxp[l] : l \in held} \cup {base_priority[t], priority[t]}
  IN  CHOOSE p \in donated : \A d \in donated : p >= d

\* thread_update_priority(): the base priority or the highest of the locks held.
UpdatedPriority(t, held, maxp) ==
  LET donated == {maxp[l] : l \in held} \cup {base_priority[t]}
  IN  CHOOSE p \in donated : \A d \in donated : p >= d

\* The ready list after thread_donate_priority(h), with the new priorities pri.
NotRequeued(h, pri) == ready  \* a mutant
Requeued(h, pri) ==
  IF status[h] = "READY" THEN InsertOrdered(ListRemove(ready, h), h, pri) ELSE ready

\* thread_donate_priority(l->holder)
AcquireDonate ==
  /\ At("acq_donate")
  /\ LET h == holder[walk[running]]
     IN  IF h = NULL THEN Fault
         ELSE LET pri == [priority EXCEPT ![h] = UpdatedPriority(h, locks[h], max_priority)]
              IN  /\ priority' = pri
                  /\ ready' = Requeued(h, pri)
                  /\ Goto("acq_next")
                  /\ UNCHANGED <<running, status, base_priority, thread_ticks, intrvars,
                                 arg, ret, walk, semavars, lockvars, createvars>>

\* l = l->holder->locks_wait
AcquireNext ==
  /\ At("acq_next")
  /\ LET h == holder[walk[running]]
     IN  IF h = NULL THEN Fault
         ELSE /\ walk' = [walk EXCEPT ![running] = locks_wait[h]]
              /\ Goto("acq_test")
              /\ UNCHANGED <<tvars, arg, ret, semavars, lockvars, createvars>>

AcquireDown ==
  /\ At("acq_down")
  /\ SemaDown(arg[running], "acq_own")
  /\ walk' = [walk EXCEPT ![running] = NULL]
  /\ UNCHANGED <<priority, base_priority, intrvars, arg, ret, lockvars, createvars>>

\* The tail of lock_acquire().  thread_hold_lock() has nothing to raise: the
\* lock's max_priority has just become the priority of the caller.
AcquireOwn ==
  /\ At("acq_own")
  /\ LET l == arg[running]
     IN  /\ locks_wait' = [locks_wait EXCEPT ![running] = NULL]
         /\ max_priority' = [max_priority EXCEPT ![l] = priority[running]]
         /\ locks' = [locks EXCEPT ![running] = @ \cup {l}]
         /\ holder' = [holder EXCEPT ![l] = running]
  /\ Return
  /\ UNCHANGED <<tvars, semavars, createvars>>

\* A mutant: a woken thread does not look at the value again.
DownLoopOnce ==
  /\ At("down_loop")
  /\ SemaDownUnchecked(arg[running], IF arg[running] \in Lock THEN "acq_own" ELSE ret[running])
  /\ UNCHANGED <<priority, base_priority, intrvars, arg, ret, walk, lockvars, createvars>>

\* A thread woken inside sema_down() looks at the value again.
DownLoop ==
  /\ At("down_loop")
  /\ LET s == arg[running] IN
       IF s \in Lock
       THEN SemaDown(s, "acq_own") /\ UNCHANGED <<arg, ret>>
       ELSE /\ SemaDown(s, ret[running])
            /\ IF value[s] > 0
               THEN /\ arg' = [arg EXCEPT ![running] = NULL]
                    /\ ret' = [ret EXCEPT ![running] = NULL]
               ELSE UNCHANGED <<arg, ret>>
  /\ UNCHANGED <<priority, base_priority, intrvars, walk, lockvars, createvars>>

-----------------------------------------------------------------------------
(* lock_release(): drop the lock and its donation, clear the holder, up. *)

CallLockRelease(l, k) ==
  /\ holder[l] = running
  /\ locks' = [locks EXCEPT ![running] = @ \ {l}]
  /\ priority' = [priority EXCEPT ![running] =
                    UpdatedPriority(running, locks[running] \ {l}, max_priority)]
  /\ Goto("rel_holder")
  /\ arg' = [arg EXCEPT ![running] = l]
  /\ ret' = [ret EXCEPT ![running] = k]
  /\ UNCHANGED <<running, ready, status, base_priority, thread_ticks, intrvars, walk,
                 semavars, holder, max_priority, locks_wait>>

ReleaseHolder ==
  /\ At("rel_holder")
  /\ holder' = [holder EXCEPT ![arg[running]] = NULL]
  /\ Goto("rel_up")
  /\ UNCHANGED <<tvars, arg, ret, walk, semavars, max_priority, locks, locks_wait, createvars>>

ReleaseUp ==
  /\ At("rel_up")
  /\ SemaUp(arg[running])
  /\ Return
  /\ UNCHANGED <<priority, base_priority, intrvars, lockvars, createvars>>

-----------------------------------------------------------------------------
(* thread_create(): take a page, initialise the thread in it, allocate a tid *)
(* under tid_lock, put the thread on the ready list, yield if it is more     *)
(* urgent.  (It returns TID_ERROR, and changes nothing, if there is no page.) *)

CallThreadCreate(t, p) ==
  /\ status[t] = "FREE"
  /\ next_tid < MaxTid
  /\ holder[TidLock] # running
  /\ status' = [status EXCEPT ![t] = "BLOCKED"]
  /\ priority' = [priority EXCEPT ![t] = p]
  /\ base_priority' = [base_priority EXCEPT ![t] = p]
  /\ locks' = [locks EXCEPT ![t] = {}]
  /\ locks_wait' = [locks_wait EXCEPT ![t] = NULL]
  /\ blocked_ticks' = [blocked_ticks EXCEPT ![t] = 0]
  /\ new' = [new EXCEPT ![running] = [thread |-> t, priority |-> p, tid |-> 0]]
  /\ Goto(IF holder[TidLock] # NULL THEN "acq_wait" ELSE "acq_down")
  /\ arg' = [arg EXCEPT ![running] = TidLock]
  /\ ret' = [ret EXCEPT ![running] = "create_read"]
  /\ UNCHANGED <<running, ready, thread_ticks, in_external_intr, yield_on_return, unvisited,
                 walk, semavars, holder, max_priority, tid, next_tid>>

\* tid = next_tid++ reads the counter and later stores it.
CreateRead ==
  /\ At("create_read")
  /\ new' = [new EXCEPT ![running].tid = next_tid]
  /\ Goto("create_write")
  /\ UNCHANGED <<tvars, arg, ret, walk, semavars, lockvars, tid, next_tid>>

CreateWrite ==
  /\ At("create_write")
  /\ next_tid' = new[running].tid + 1
  /\ Goto("create_release")
  /\ UNCHANGED <<tvars, arg, ret, walk, semavars, lockvars, new, tid>>

CreateRelease ==
  /\ At("create_release")
  /\ CallLockRelease(TidLock, "create_unblock")
  /\ UNCHANGED createvars

CreateUnblock ==
  /\ At("create_unblock")
  /\ LET t == new[running].thread
     IN  /\ tid' = [tid EXCEPT ![t] = new[running].tid]
         /\ status' = UnblockedStatus(t)
         /\ ready' = UnblockedReady(t)
  /\ Goto("create_check")
  /\ UNCHANGED <<running, priority, base_priority, thread_ticks, intrvars, arg, ret, walk,
                 semavars, lockvars, new, next_tid>>

CreateCheck ==
  /\ At("create_check")
  /\ IF priority[running] < new[running].priority
     THEN ThreadYield(status, ready, priority)
     ELSE UNCHANGED schedvars
  /\ new' = [new EXCEPT ![running] = NoNew]
  /\ Goto("run")
  /\ UNCHANGED <<priority, base_priority, intrvars, arg, ret, walk, semavars, lockvars,
                 tid, next_tid>>
-----------------------------------------------------------------------------
(* The other calls of a client thread. *)

CallSemaDown(s) ==
  /\ SemaDown(s, "run")
  /\ IF value[s] = 0
     THEN /\ arg' = [arg EXCEPT ![running] = s]
          /\ ret' = [ret EXCEPT ![running] = "run"]
     ELSE UNCHANGED <<arg, ret>>
  /\ UNCHANGED <<priority, base_priority, intrvars, walk, lockvars, createvars>>

CallSemaTryDown(s) ==
  /\ value[s] > 0
  /\ value' = [value EXCEPT ![s] = @ - 1]
  /\ UNCHANGED <<tvars, pc, arg, ret, walk, waiters, lockvars, createvars>>

CallSemaUp(s) ==
  /\ value[s] < MaxValue
  /\ SemaUp(s)
  /\ UNCHANGED <<priority, base_priority, intrvars, pc, arg, ret, walk, lockvars, createvars>>

CallTimerSleep(n) == TimerSleep(n) /\ UNCHANGED svars

CallThreadYield ==
  /\ ThreadYield(status, ready, priority)
  /\ UNCHANGED <<priority, base_priority, intrvars, svars>>

\* thread_set_priority(p): a thread that holds locks is not lowered.
CallSetPriority(p) ==
  /\ base_priority' = [base_priority EXCEPT ![running] = p]
  /\ IF locks[running] = {} \/ p > priority[running]
     THEN LET pri == [priority EXCEPT ![running] = p]
          IN  priority' = pri /\ ThreadYield(status, ready, pri)
     ELSE UNCHANGED <<priority, schedvars>>
  /\ UNCHANGED <<intrvars, svars>>

\* A client thread returns from its function with no lock held.
CallThreadExit ==
  /\ locks[running] = {}
  /\ ThreadExit
  /\ tid' = [tid EXCEPT ![running] = 0]
  /\ UNCHANGED <<pc, arg, ret, walk, new, semavars, lockvars, next_tid>>

ClientLock ==
  /\ "lock" \in Calls
  /\ At("run")
  /\ \E l \in Lock \ {TidLock} : CallLockAcquire(l, "run") \/ CallLockRelease(l, "run")
  /\ UNCHANGED createvars

ClientSema ==
  /\ "sema" \in Calls
  /\ At("run")
  /\ \E s \in Sema : CallSemaDown(s) \/ CallSemaTryDown(s) \/ CallSemaUp(s)

ClientSleep == "sleep" \in Calls /\ At("run") /\ \E n \in 1..MaxSleep : CallTimerSleep(n)

ClientYield == "yield" \in Calls /\ At("run") /\ CallThreadYield

ClientSetPriority ==
  "set_priority" \in Calls /\ At("run") /\ \E p \in Priorities : CallSetPriority(p)

ClientCreate ==
  /\ "create" \in Calls
  /\ At("run")
  /\ \E t \in Thread, p \in Priorities : CallThreadCreate(t, p)

ClientExit == "exit" \in Calls /\ At("run") /\ CallThreadExit

\* idle(): block again after every interrupt; schedule() comes back here when the
\* ready list is empty, and the CPU then halts until the next interrupt.
IdleLoop ==
  /\ At("idle_loop")
  /\ ThreadBlock
  /\ Goto("idle_hlt")
  /\ UNCHANGED <<priority, base_priority, intrvars, arg, ret, walk, semavars, lockvars,
                 createvars>>

Timer ==
  /\ InterruptsOn
  /\ TimerInterrupt
  /\ IF running = Idle THEN Goto("idle_loop") ELSE UNCHANGED pc
  /\ UNCHANGED <<arg, ret, walk, semavars, lockvars, createvars>>

VisitBlocked == \E t \in unvisited : CheckBlocked(t) /\ UNCHANGED svars

ReturnFromIntr == IntrReturn /\ UNCHANGED svars

Halted == Faulted /\ UNCHANGED vars
-----------------------------------------------------------------------------
(* The initial state is one that main() reaches after thread_start(): the idle *)
(* thread has announced itself and yielded (it is READY but on no list), main  *)
(* is running, the threads it has created so far are ready, all locks are      *)
(* free.                                                                       *)

\* The lists that hold each thread of S once.
Orders(S) == Bijection(1..Cardinality(S), S)

Init ==
  /\ running = Main
  /\ ready \in {q \in Orders(Booted \ {Main, Idle}) : SortedByPriority(q, BootPri)}
  /\ status = [t \in Thread |-> IF t = Main THEN "RUNNING"
                                ELSE IF t \in Booted THEN "READY" ELSE "FREE"]
  /\ priority = BootPri
  /\ base_priority = BootPri
  /\ blocked_ticks = [t \in Thread |-> 0]
  /\ thread_ticks = 0
  /\ in_external_intr = FALSE
  /\ yield_on_return = FALSE
  /\ unvisited = {}
  /\ pc = [t \in Thread |-> IF t = Idle THEN "idle_loop" ELSE "run"]
  /\ arg = [t \in Thread |-> NULL]
  /\ ret = [t \in Thread |-> NULL]
  /\ walk = [t \in Thread |-> NULL]
  /\ new = [t \in Thread |-> NoNew]
  /\ value = [s \in Lock \cup Sema |-> IF s \in Lock THEN 1 ELSE 0]
  /\ waiters = [s \in Lock \cup Sema |-> <<>>]
  /\ holder = [l \in Lock |-> NULL]
  /\ max_priority = [l \in Lock |-> 0]
  /\ locks = [t \in Thread |-> {}]
  /\ locks_wait = [t \in Thread |-> NULL]
  /\ tid = [t \in Thread |-> IF t \in Booted THEN BootTid[t] ELSE 0]
  /\ next_tid = Cardinality(Booted) + 1

\* The steps inside calls, common to every client of this module.
KernelStep ==
  \/ AcquireWait \/ AcquireTest \/ AcquireMax \/ AcquireDonate \/ AcquireNext
  \/ AcquireDown \/ AcquireOwn \/ DownLoop
  \/ ReleaseHolder \/ ReleaseUp
  \/ IdleLoop

CreateStep == CreateRead \/ CreateWrite \/ CreateRelease \/ CreateUnblock \/ CreateCheck

ClientStep ==
  \/ ClientLock \/ ClientSema \/ ClientSleep \/ ClientYield \/ ClientSetPriority
  \/ ClientCreate \/ ClientExit

Interrupt ==
  \/ Timer \/ (\E s \in Sema : DeviceInterrupt(s)) \/ VisitBlocked \/ ReturnFromIntr

Next == KernelStep \/ CreateStep \/ ClientStep \/ Interrupt \/ Halted

Spec == Init /\ [][Next]_vars

\* The CPU executes the code it is in; the timer's request stays pending until
\* interrupts are on, and is then served.
FairSpec ==
  /\ Spec
  /\ WF_vars(KernelStep \/ CreateStep) /\ WF_vars(VisitBlocked) /\ WF_vars(ReturnFromIntr)
  /\ SF_vars(Timer)

-----------------------------------------------------------------------------
(* Properties. *)

\* Every variable has its type.
TypeOK ==
  /\ ThreadTypeOK
  /\ pc \in [Thread -> Labels]
  /\ arg \in [Thread -> Lock \cup Sema \cup {NULL}]
  /\ ret \in [Thread -> {"run", "create_read", "create_unblock", NULL}]
  /\ walk \in [Thread -> Lock \cup {NULL}]
  /\ new \in [Thread -> [thread : Thread \cup {NULL}, priority : Priorities, tid : Nat]]
  /\ value \in [Lock \cup Sema -> Nat]
  /\ waiters \in [Lock \cup Sema -> Seq(Thread)]
  /\ holder \in [Lock -> Thread \cup {NULL}]
  /\ max_priority \in [Lock -> Priorities]
  /\ locks \in [Thread -> SUBSET Lock]
  /\ locks_wait \in [Thread -> Lock \cup {NULL}]
  /\ tid \in [Thread -> Nat]
  /\ next_tid \in Nat

\* t is blocked in sema_down(s); t has been woken in it and has not run yet.
WaitsIn(t, s) == status[t] = "BLOCKED" /\ pc[t] = "down_loop" /\ arg[t] = s
WokenIn(t, s) == status[t] \in {"READY", "RUNNING"} /\ pc[t] = "down_loop" /\ arg[t] = s

\* A thread has one list element (t->elem) for the ready list and for every list of
\* waiters: it is on the one list its status calls for and on it once, and a thread
\* asleep in timer_sleep() is on none.  Any other state corrupts a list.
ElemOnOneList ==
  /\ \A t \in Thread : status[t] = "RUNNING" <=> t = running
  /\ IsInjective(ready)
  /\ Range(ready) = {t \in Thread \ {Idle} : status[t] = "READY"}
  /\ \A s \in Lock \cup Sema :
       IsInjective(waiters[s]) /\ Range(waiters[s]) = {t \in Thread : WaitsIn(t, s)}
  /\ \A t \in Thread :
       blocked_ticks[t] > 0 => status[t] = "BLOCKED" /\ pc[t] # "down_loop"

\* The threads that have passed sema_down() in lock_acquire(l) and have not yet
\* passed sema_up() in lock_release(l).
Owners(l) ==
  {t \in Thread : \/ holder[l] = t
                  \/ pc[t] \in {"acq_own", "rel_up"} /\ arg[t] = l}

\* lock_acquire() lets in one thread at a time, whatever threads barge in between
\* the wake-up of a waiter and the moment it runs, and the semaphore of a lock
\* counts exactly that ("A lock can be held by at most a single thread").
MutualExclusion ==
  \A l \in Lock :
    /\ \A t, u \in Owners(l) : t = u
    /\ value[l] = IF Owners(l) = {} THEN 1 ELSE 0

\* sema_up() wakes one waiter and a thread that barges in may take its unit, but no
\* waiter is left behind with the semaphore up and nobody on the way to take it.
NoLostWakeup ==
  \A s \in Lock \cup Sema :
    (value[s] > 0 /\ waiters[s] # <<>>) => \E t \in Thread : WokenIn(t, s)

\* The ready list stays ordered by priority through donations, which change the
\* priority of threads that are on it.
ReadySorted == SortedByPriority(ready, priority)

\* schedule() switches to a thread at least as urgent as every thread that is ready.
SchedulesMostUrgent ==
  [][running' # running =>
       \A t \in Range(ready') : priority'[t] <= priority'[running']]_vars

\* sema_up() wakes the most urgent waiter, donations received while waiting included.
WakesMostUrgent ==
  [][\A s \in Lock \cup Sema : \A t \in Range(waiters[s]) \ Range(waiters'[s]) :
       \A u \in Range(waiters[s]) : priority[u] <= priority[t]]_vars

\* A thread that has given up its last lock is back at its base priority, even if a
\* donor is still in the donation loop of lock_acquire() for that lock.
DonationDropped ==
  \A t \in Thread : locks[t] = {} => priority[t] = base_priority[t]

\* No two live threads have the same tid, though allocate_tid() is preemptible
\* between reading and storing next_tid.
UniqueTids ==
  \A t, u \in Thread : (t # u /\ tid[t] # 0) => tid[t] # tid[u]

\* A thread in timer_sleep() becomes ready again (unless the kernel panics first).
SleepersWake ==
  \A t \in Thread : (blocked_ticks[t] > 0) ~> (status[t] = "READY" \/ Faulted)

\* The scheduler is "strict-priority [...] with round-robin tiebreaking" (thread.h): a
\* ready thread of the highest priority gets the CPU, whatever its equals do.
RoundRobin ==
  \A t \in Thread :
    (status[t] = "READY" /\ priority[t] = PRI_MAX)
      ~> (running = t \/ priority[t] < PRI_MAX \/ Faulted)

\* lock_acquire() "sleep[s] until it becomes available" and never dereferences a
\* NULL holder in its donation loop.
NoFault == ~Faulted

\* "The main thread releases the locks in turn and relinquishes its donated
\* priorities" (tests/threads/priority-donate-multiple.c): a thread whose priority is
\* above its base priority holds a lock that a thread of that priority waits for.
RelinquishesDonations ==
  \A t \in Thread :
    priority[t] > base_priority[t] =>
      \E u \in Thread : locks_wait[u] \in locks[t] /\ priority[u] >= priority[t]
=============================================================================
