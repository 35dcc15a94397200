CONSTANTS
  main = main
  idle = idle
  t1 = t1
  t2 = t2
  t3 = t3
  Thread = {main, idle, t1, t2}
  Idle = idle
  Main = main
  PRI_MAX = 1
  TIME_SLICE = 2
  MaxSleep = 2
  Lock = {tid_lock, A}
  Sema = {s}
  TidLock = tid_lock
  NULL = NULL
  Booted = {main, idle, t1, t2}
  BootPri <- MCBootPri
  BootTid <- MCBootTid
  Calls = {"lock", "sleep"}
  MaxValue = 1
  MaxTid = 6
SPECIFICATION FairSpec
PROPERTY SleepersWake
PROPERTY RoundRobin
