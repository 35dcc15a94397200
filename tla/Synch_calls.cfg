CONSTANTS
  main = main
  idle = idle
  t1 = t1
  t2 = t2
  t3 = t3
  Thread = {main, idle, t1, t2, t3}
  Idle = idle
  Main = main
  PRI_MAX = 1
  TIME_SLICE = 1
  MaxSleep = 1
  Lock = {tid_lock, A}
  Sema = {s}
  TidLock = tid_lock
  NULL = NULL
  Booted = {main, idle, t1}
  BootPri <- MCCreatePri
  BootTid <- MCBootTid
  Calls = {"sleep", "yield", "set_priority", "create", "exit"}
  MaxValue = 1
  MaxTid = 6
SYMMETRY FreePages
SPECIFICATION Spec
INVARIANT ElemOnOneList
INVARIANT NoLostWakeup
INVARIANT DonationDropped
INVARIANT UniqueTids
