CONSTANTS
  main = main
  idle = idle
  t1 = t1
  t2 = t2
  t3 = t3
  Thread = {main, idle, t1, t2}
  Idle = idle
  Main = main
  PRI_MAX = 2
  TIME_SLICE = 1
  MaxSleep = 1
  Lock = {tid_lock, A, B}
  Sema = {s}
  TidLock = tid_lock
  NULL = NULL
  Booted = {main, idle, t1, t2}
  BootPri <- MCBootPri
  BootTid <- MCBootTid
  Calls = {"lock"}
  MaxValue = 1
  MaxTid = 5
SPECIFICATION Spec
INVARIANT NoFault
