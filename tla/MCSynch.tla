------------------------------- MODULE MCSynch -------------------------------
(* Small instances of Synch for TLC. *)
EXTENDS Synch, TLC

CONSTANTS main, idle, t1, t2, t3

MCBootPri == [t \in Thread |-> IF t = t2 THEN PRI_MAX ELSE IF t = t1 THEN 1 ELSE 0]
MCBootTid == [t \in Booted |-> CASE t = main -> 1 [] t = idle -> 2 [] t = t1 -> 3
                                 [] t = t2 -> 4]

\* For instances that create threads: the priority of a page without a thread is
\* never used, and one free page is as good as another.
MCCreatePri == [t \in Thread |-> IF t = t1 THEN 1 ELSE 0]
FreePages == Permutations(Thread \ Booted)
=============================================================================
