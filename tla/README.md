# A TLA+ verification of the Pintos kernel in this repository

The repository holds a Pintos kernel for the 80x86 (`src/pintos/src`): threads, a
priority scheduler with donation, an alarm clock, user processes and user threads, a
small file system and the drivers below it; and a small shell (`src/hw-shell`).  This
directory models the kernel in TLA+, checks small instances with TLC and proves the main
safety properties with TLAPS for instances of any size.

The present state: the thread layer, the timer interrupt, semaphores and locks with
priority donation are modelled, checked and, for the properties below, proved.  The
sections *Inventory* and *Plan* say what the rest of the system is and how it will be
modelled.

## Inventory

| Part | State | Operations | Interacts with |
|---|---|---|---|
| threads (`threads/thread.c`) | status, priority, base priority of each thread; ready list; all list; time slice; next tid | create, block, unblock, yield, exit, set priority, donate, tick | every part |
| semaphores, locks (`threads/synch.c`) | value, waiters; holder, max_priority; locks held and waited for by a thread | down, try down, up; acquire, release | threads, interrupt handlers |
| condition variables, rw locks (`threads/synch.c`) | list of waiting semaphores; AR, WR, AW, WW | wait, signal, broadcast; acquire, release | locks, semaphores |
| interrupts (`threads/interrupt.c`) | interrupt flag, in_external_intr, yield_on_return | deliver, yield on return | threads |
| alarm clock (`devices/timer.c`) | ticks, blocked_ticks | sleep, interrupt | threads, interrupts |
| fair scheduler (`thread.c`, `fixed-point.h`) | recent_cpu, load_avg, nice | update on ticks | threads, timer |
| page and block allocators (`palloc.c`, `malloc.c`, `bitmap.c`) | bitmaps of pages; descriptors, arenas, free lists | get, free; malloc, realloc, free | threads, processes |
| processes, user threads (`userprog/process.c`) | list of thread_blocks; process control blocks; list of threads of a process | execute, start, wait, exit; pthread execute, join, exit | semaphores, file system, page directories |
| system calls, descriptors (`userprog/syscall.c`) | table of open files, next_fd | open, close, read, write, ... | processes, file system |
| file system (`filesys/`) | free map, inodes and their open counts, root directory | create, open, remove, read, write, close | disk driver, locks |
| disk driver (`devices/ide.c`) | channel lock, expecting_interrupt, completion semaphore | read, write, interrupt | semaphores, interrupts |
| interrupt queues, input, serial (`devices/intq.c`, ...) | ring buffer, one waiting reader and writer | getc, putc, interrupt | threads, interrupts |
| partitions, lists, hash tables, bitmaps, C library | - | sequential algorithms | - |
| shell (`hw-shell/`) | - | tokenise, run, redirect | the host system |

What makes this system hard:

* there is one CPU, but a timer interrupt can switch threads between any two
  instructions that run with interrupts on; `lock_acquire()` walks the chain of holders
  that way, `allocate_tid()` increments a counter that way, and most of `process.c` and
  `filesys/` does;
* `sema_up()` always yields, so functions that look atomic (a release, a signal, a
  walk with interrupts off) hand the CPU to other threads in the middle;
* a woken thread is only ready; others may barge in before it runs;
* priorities change while threads are on sorted lists;
* one list element per thread serves all lists;
* memory of a thread, a process or a thread_block is freed by another thread than its
  user.

`PROJECT.json` lists these places line by line under `hazards`, with the property that
covers each or the reason why none does yet.

## Modules

**`Threads`** (`thread.c`, the external interrupts of `interrupt.c`, `timer_sleep()` and
`timer_interrupt()`): the state of the scheduler and the bodies of the functions that run
with interrupts off, as operators.  `Schedule(st, rdy)` is `schedule()` with
`thread_switch_tail()`, entered with a status map and a ready list, because a function
changes both and calls the scheduler inside one critical section.  Lists are sequences.
`InsertIndex` is the position `list_insert_ordered()` finds; `ListSorts(q, pri)` is the
set of results `list_sort()` may have (one: the stable sort), so the model does not
contain the merge sort.

**`Synch`** (`synch.c` up to `lock_release()`, `thread_create()` and its relatives): the
kernel threads.  `pc[t]` is the place of thread `t` in the kernel.  A step is what
happens between two points at which the CPU can be interrupted:

* a critical section, with the context switch it ends in, is one step: `sema_down()`
  tests, queues and blocks in one step and continues at `down_loop` when the thread is
  switched in again; `sema_up()` sorts, unblocks, increments and yields in one step;
* where interrupts are on, each C statement that reads or writes shared state is one
  step.  `lock_acquire()` has eight: the test of the holder, setting `locks_wait`, the loop
  condition, the store to `max_priority`, the donation, `l = l->holder->locks_wait`, the
  down and the tail; `lock_release()` has three; `tid = next_tid++` is a read and a write;
* `Timer` interrupts the running thread wherever interrupts are on; the handler visits the
  sleeping threads one by one (`VisitBlocked`), and `ReturnFromIntr` yields if the slice
  is over.  `DeviceInterrupt(s)` is any driver that ups a semaphore from its handler.

The clients of these functions are arbitrary: a running thread at `"run"` may make any call
of the kinds in `Calls`, respecting the functions' assertions (it does not acquire a lock
it holds, it releases only locks it holds) and returning from its thread function with no
lock held.  A dereferenced NULL pointer leads to `"fault"`, where the page fault handler
panics and the system stops.

**`MCSynch`** gives the constants their values for TLC.

**`ThreadsProofs`, `SynchInvariant`, `SynchThreadProofs`, `SynchLockProofs`,
`SynchProofs`** hold the proofs.

Abstractions.  Names, stacks and page contents are left out; a page that holds no thread
has the status `FREE`.  A thread's list `locks` is always sorted before its front is used, so
it is a set.  `all_list` is ordered by `thread_cmp_priority` applied to the wrong list
element, that is by the bytes of thread names, so the timer visits the threads in
any order.  `thread_hold_lock()` never raises the caller, since `max_priority` has just been set
to the caller's priority.  `lock_init()` leaves `max_priority` unset; it is written before
the first read (a holder is set only after it), so its initial value is irrelevant.
`timer_sleep()` replaces very long sleeps by a fixed one; sleeps here are bounded by
`MaxSleep`.  An interrupt between loading `l->holder` and entering
`thread_donate_priority()` is not modelled.  `active_sched_policy` is not `SCHED_FAIR`; the
other policies behave alike in this code (all of them use the sorted list).
Parts that play no role here: statistics, the PIC, debugging output.

Definitions marked as mutants are wrong on purpose: each replaces a definition of the model
with a plausible bug, to show that a property would notice.

## Properties and runs

| Run | Instance | Checks |
|---|---|---|
| `synch_locks` | main, idle and two threads with priorities 0, 0, 1, 2; two client locks and a semaphore (value up to 1) that a device also ups; a slice of one tick, so every tick preempts | `TypeOK`, `ElemOnOneList`, `MutualExclusion`, `NoLostWakeup`, `ReadySorted`, `DonationDropped`, `SchedulesMostUrgent`, `WakesMostUrgent` |
| `synch_calls` | main, idle and one thread, two free pages that are used, freed and used again; threads create (up to tid 5), sleep, yield, change priorities (0, 1) and exit | `ElemOnOneList`, `NoLostWakeup`, `DonationDropped`, `UniqueTids` |
| `synch_live` | main, idle and two threads of priority 1; one client lock; sleeps of up to two ticks, a slice of two ticks | `SleepersWake`, `RoundRobin` |
| `synch_fault` | as `synch_locks`, locks only | `NoFault` is violated |
| `synch_stale` | as `synch_locks`, locks only | `RelinquishesDonations` is violated |

The two locks and three priorities of `synch_locks` are what chains of donations need: a
thread that waits for one lock while it holds the other, a donor above both, and a third
thread in between that barges in.  One tick per slice makes every interruptible point a
preemption point.  In `synch_calls` two free pages allow two threads to be under creation at
once, which is what contention for `tid_lock` needs; the pages without threads are
symmetric.  (`set_priority` and client locks are not combined in one run, for its size.)
`synch_live` needs a slice of two ticks to have ticks that do not end one.

* `ElemOnOneList`: status, ready list and lists of waiters agree.  A violation means a
  corrupted linked list.
* `MutualExclusion`: a lock has at most one owner, and the semaphore counts it.
* `NoLostWakeup`: nobody sleeps on a semaphore that is up unless a woken thread is on its way.
* `ReadySorted`, `SchedulesMostUrgent`, `WakesMostUrgent`: donations change
  priorities of threads that are already on lists, and still the most urgent thread is picked.
* `DonationDropped`: no donation outlasts the last lock.
* `UniqueTids`: live threads have different tids.
* `SleepersWake`, `RoundRobin`: liveness of the alarm clock and of the scheduler.

Fairness.  The CPU executes the code it is in: weak fairness of the steps inside kernel
functions and of the interrupt handler.  The timer's request is latched in the interrupt
controller until interrupts are on, so `Timer` is strongly fair.  Nothing is assumed of the clients:
a thread may compute for ever without making a call, and `RoundRobin` holds all the same.

Two runs show disagreements between the code and what its comments or tests say:

* `synch_fault`: `lock_acquire()` runs the donation loop with interrupts on.  If the
  holder releases the lock between the loop's test and `l->holder->locks_wait`, the
  holder is NULL and the kernel panics.
* `synch_stale`: a thread that gets a donation through lock A while it is
  acquiring lock B records the donated priority as `max_priority` of B, and keeps it after it
  has released A.

## Proofs

`SynchProofs` proves, for any set of threads, locks and semaphores, any number of priorities
and any length of the slice, with the assumptions `ThreadAssumption` and `SynchAssumption`
of the modules (constants have their types, locks and semaphores are different, a finite
number of threads is booted with different tids):

* `TypeCorrect`: `Spec => []TypeOK`;
* `ListsIntact`: `Spec => []ElemOnOneList`;
* `LockExcludes`: `Spec => []MutualExclusion`;
* `Invariance`: `Spec => []IInv`, from which these follow.

None of the three is inductive.  `IInv` (in `SynchInvariant`) is their conjunction with

* `ControlOK`: what `pc`, `arg`, `ret`, `walk` and `status` of a thread say together: inside
  a call it has an argument and a place to return to, in the donation loop it has a lock
  at hand, the idle thread is in its loop and holds no lock, a dead thread is in no call;
* `IntrOK`: outside of a handler nobody is left to visit; those still to visit are
  asleep; a slice that is over is about to end; the idle thread never sleeps;
* `NewOK`: a thread under construction is blocked, on no list, and known to one creator only.
  Without it `thread_unblock()` in `thread_create()` could queue a thread twice;
* `LockOK`: who `lock->holder` is at the places between the down and the up of a lock.
  Exclusion needs it because `holder` is set after the down and cleared before the up.

`ThreadsProofs` proves what the operators on lists do (ordered insertion, removal and sorting
keep the elements, keep them distinct, keep the order by priority) and what the
scheduler does to status and ready list.  `SynchInvariant` has what several actions
share: an action that leaves the lists alone, one that blocks in `sema_down()`, one that
ups, one that yields.  `SynchThreadProofs` and `SynchLockProofs` have a lemma per action.
The sorting lemma is about the set `ListSorts`; that this set is never empty is
checked by TLC (a step would be disabled) and not needed by the safety theorems.

Only model-checked: `NoLostWakeup`, `ReadySorted`, `DonationDropped`, `UniqueTids`, the action
properties, and liveness, which is out of the prover's reach.

## Plan

In this order:

1. `Monitor` (on `Synch`): `cond_wait`, `cond_signal`, `cond_broadcast`, the
   readers-writers lock.  No lost signal, writers exclude, writers are preferred; the sort of
   waiters that are not asleep yet (`synch.c:387`) as a violation run.
2. `Process`: `process_execute`, `start_process`, `process_wait`, `process_exit`, user
   threads, `kill_thread`, on semaphores and locks taken as atomic (justified by
   `LockExcludes` and a refinement of `Synch` to an abstract lock).  A wait returns the
   child's exit code once; nobody waits for ever; no use of a freed block.
3. `Descriptors` and `FileSys`: descriptor tables, inodes with open and deny-write counts,
   the free map and the root directory, calls interleaved at the driver's semaphore, a
   crash between two sector writes.  Every sector has one owner; a removed file lives until its
   last close.
4. `Memory`: page bitmap and arenas.  No block is handed out twice.
5. `IntQueue` and `Disk`: ring buffer with one waiting reader and writer, channel and
   completion interrupt.  Bytes come out in order; a command gets its own completion.
6. `Algorithms`: `list_sort`, `list_unique`, `bitmap_scan`, the fixed-point arithmetic of the
   fair scheduler with its 32-bit width, `validate_segment`, the partition
   reader, the tokenizer, each checked against a definition of its result.
7. Proofs: `ReadySorted` and `SchedulesMostUrgent` (the list lemmas already keep
   the order), `DonationDropped`, `NoLostWakeup`, `UniqueTids`; that `Synch` implements an
   abstract lock; the invariants of `IntQueue`, `Memory` and `FileSys`.

Runs planned: one passing run per module above and violation runs for `Monitor` and `Process`.

## Not modelled

Boot code, port I/O (disk identification, PIC, PIT, VGA, keyboard codes), page tables and
descriptor tables the hardware reads, the C library's formatting and string functions, the
archive utilities, and calibrated delays: they run alone or have no state that
several actors share.  `PROJECT.json` gives the reason for each component.
