-------------------------- MODULE MCCronScheduler --------------------------
(* The small instance of CronScheduler that TLC checks.  Clients, functions, *)
(* triggers and valid expressions are interchangeable.                       *)
EXTENDS CronScheduler, TLC

MCSymmetry == Permutations(Clients) \cup Permutations(Functions)
                \cup Permutations(Triggers) \cup Permutations(Exprs)
=============================================================================
