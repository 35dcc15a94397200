------------------------------- MODULE Threads -------------------------------
(***************************************************************************)
(* The thread layer of the kernel (threads/thread.c, the external          *)
(* interrupt path of threads/interrupt.c and the alarm clock of            *)
(* devices/timer.c): one CPU, the priority-ordered ready list, the state   *)
(* of every thread, and the timer interrupt.                               *)
(*                                                                         *)
(* The operators below are the bodies of the functions of thread.c.  They  *)
(* run with interrupts off, so a caller uses them inside one step.  Some   *)
(* take the status map, the ready list or the priorities as parameters:    *)
(* a kernel function often changes them just before it calls the           *)
(* scheduler, inside the same critical section.                            *)
(***************************************************************************)
EXTENDS Integers, Sequences, FiniteSets, Functions

CONSTANTS
  Thread,     \* the pages a struct thread can live in, idle and main included
  Idle,       \* idle_thread
  Main,       \* initial_thread
  PRI_MAX,    \* priorities are PRI_MIN = 0 .. PRI_MAX
  TIME_SLICE, \* timer ticks a thread may run before it is made to yield
  MaxSleep    \* bound: the longest timer_sleep() a client asks for

ASSUME ThreadAssumption ==
  /\ Idle \in Thread /\ Main \in Thread /\ Idle # Main
  /\ PRI_MAX \in Nat
  /\ TIME_SLICE \in Nat \ {0}
  /\ MaxSleep \in Nat

VARIABLES
  running,          \* the thread whose stack the CPU is on
  ready,            \* fifo_ready_list
  status,           \* t->status; "FREE" is a page that holds no thread
  priority,         \* t->priority, donations included
  base_priority,    \* t->base_priority
  blocked_ticks,    \* t->blocked_ticks, ticks left of a timer_sleep()
  thread_ticks,     \* timer ticks since the running thread was switched in
  in_external_intr, \* TRUE while an external interrupt is being handled
  yield_on_return,  \* TRUE if the handler asked for a yield at its end
  unvisited         \* threads thread_foreach(check_blocked) has still to visit

tvars == <<running, ready, status, priority, base_priority, blocked_ticks,
           thread_ticks, in_external_intr, yield_on_return, unvisited>>

Priorities == 0..PRI_MAX
Statuses == {"RUNNING", "READY", "BLOCKED", "DYING", "FREE"}

-----------------------------------------------------------------------------
(* Lists of threads ordered by thread_cmp_priority. *)

\* A mutant: the insertion stops at the first element that is not more urgent.
InsertIndexBeforeEquals(q, t, pri) ==
  CHOOSE i \in 1..(Len(q) + 1) :
    /\ \A j \in 1..(i - 1) : pri[q[j]] > pri[t]
    /\ i <= Len(q) => pri[q[i]] <= pri[t]

\* Where list_insert_ordered() puts t: before the first element of lower priority.
InsertIndex(q, t, pri) ==
  CHOOSE i \in 1..(Len(q) + 1) :
    /\ \A j \in 1..(i - 1) : pri[q[j]] >= pri[t]
    /\ i <= Len(q) => pri[q[i]] < pri[t]

\* list_insert() before the element at position i.
ListInsert(q, i, t) == SubSeq(q, 1, i - 1) \o <<t>> \o SubSeq(q, i, Len(q))

InsertOrdered(q, t, pri) == ListInsert(q, InsertIndex(q, t, pri), t)

\* list_remove() of an element that is on the list.
ListRemoveAt(q, i) == SubSeq(q, 1, i - 1) \o SubSeq(q, i + 1, Len(q))
ListRemove(q, t) == ListRemoveAt(q, CHOOSE i \in DOMAIN q : q[i] = t)

SortedByPriority(q, pri) ==
  \A i, j \in DOMAIN q : i < j => pri[q[i]] >= pri[q[j]]

\* A mutant: the list is not sorted again.
ListUnsorted(q, pri) == {q}

\* What list_sort(.., thread_cmp_priority) may make of the list q: the same
\* elements by falling priority, equals in their old order (the merge is stable).
ListSorts(q, pri) ==
  {r \in [DOMAIN q -> Range(q)] :
     /\ Range(r) = Range(q)
     /\ SortedByPriority(r, pri)
     /\ \A i, j, m, n \in DOMAIN q :
          (i < j /\ r[i] = q[m] /\ r[j] = q[n] /\ pri[r[i]] = pri[r[j]]) => m < n}

-----------------------------------------------------------------------------
(* Scheduling. *)

NextThreadToRun(rdy) == IF rdy = <<>> THEN Idle ELSE Head(rdy)

\* schedule() and thread_switch_tail(), entered with the status map st (the
\* running thread is no longer RUNNING in it) and the ready list rdy.
Schedule(st, rdy) ==
  /\ running' = NextThreadToRun(rdy)
  /\ ready' = IF rdy = <<>> THEN rdy ELSE Tail(rdy)
  /\ status' = [st EXCEPT ![NextThreadToRun(rdy)] = "RUNNING"]
  /\ thread_ticks' = 0

ThreadBlock == Schedule([status EXCEPT ![running] = "BLOCKED"], ready)

\* A mutant: the idle thread goes on the ready list like any other.
ThreadYieldIdle(st, rdy, pri) ==
  Schedule([st EXCEPT ![running] = "READY"], InsertOrdered(rdy, running, pri))

\* The idle thread is never put on the ready list.
ThreadYield(st, rdy, pri) ==
  Schedule([st EXCEPT ![running] = "READY"],
           IF running = Idle THEN rdy ELSE InsertOrdered(rdy, running, pri))

\* The status map and the ready list that thread_unblock(t) leaves.
UnblockedStatus(t) == [status EXCEPT ![t] = "READY"]
UnblockedBack(t) == Append(ready, t)  \* a mutant: list_push_back()
UnblockedReady(t) == InsertOrdered(ready, t, priority)

\* thread_exit(): the next thread frees the page of the one that died, except
\* the initial thread's.
ThreadExit ==
  /\ Schedule([status EXCEPT ![running] = IF running = Main THEN "DYING" ELSE "FREE"],
              ready)
  /\ UNCHANGED <<priority, base_priority, blocked_ticks, in_external_intr,
                 yield_on_return, unvisited>>

\* timer_sleep(n), n > 0 (it returns at once for n <= 0).
TimerSleep(n) ==
  /\ blocked_ticks' = [blocked_ticks EXCEPT ![running] = n]
  /\ ThreadBlock
  /\ UNCHANGED <<priority, base_priority, in_external_intr, yield_on_return, unvisited>>

-----------------------------------------------------------------------------
(* The timer interrupt.  The handler runs with interrupts off; its loop over *)
(* all_list is one step per thread.  all_list is kept by the order of bytes  *)
(* of the thread names (init_thread compares allelem with a function written *)
(* for elem), so the threads are visited in any order.                       *)

SleepersLate == {t \in Thread : status[t] = "BLOCKED" /\ blocked_ticks[t] > 1}  \* a mutant
Sleepers == {t \in Thread : status[t] = "BLOCKED" /\ blocked_ticks[t] > 0}

TimerInterrupt ==
  /\ in_external_intr' = TRUE
  /\ thread_ticks' = thread_ticks + 1
  /\ yield_on_return' = (thread_ticks + 1 >= TIME_SLICE)
  /\ unvisited' = Sleepers
  /\ UNCHANGED <<running, ready, status, priority, base_priority, blocked_ticks>>

CheckBlocked(t) ==
  /\ in_external_intr
  /\ t \in unvisited
  /\ unvisited' = unvisited \ {t}
  /\ blocked_ticks' = [blocked_ticks EXCEPT ![t] = @ - 1]
  /\ IF blocked_ticks[t] = 1
     THEN status' = UnblockedStatus(t) /\ ready' = UnblockedReady(t)
     ELSE UNCHANGED <<status, ready>>
  /\ UNCHANGED <<running, priority, base_priority, thread_ticks, in_external_intr,
                 yield_on_return>>

\* The end of intr_handler(): back to the interrupted thread, or thread_yield().
IntrReturn ==
  /\ in_external_intr
  /\ unvisited = {}
  /\ in_external_intr' = FALSE
  /\ yield_on_return' = FALSE
  /\ IF yield_on_return
     THEN ThreadYield(status, ready, priority)
     ELSE UNCHANGED <<running, ready, status, thread_ticks>>
  /\ UNCHANGED <<priority, base_priority, blocked_ticks, unvisited>>

-----------------------------------------------------------------------------

ThreadTypeOK ==
  /\ running \in Thread
  /\ ready \in Seq(Thread)
  /\ status \in [Thread -> Statuses]
  /\ priority \in [Thread -> Priorities]
  /\ base_priority \in [Thread -> Priorities]
  /\ blocked_ticks \in [Thread -> 0..MaxSleep]
  /\ thread_ticks \in 0..TIME_SLICE
  /\ in_external_intr \in BOOLEAN
  /\ yield_on_return \in BOOLEAN
  /\ unvisited \subseteq Thread
=============================================================================
