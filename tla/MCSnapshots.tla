---------------------------- MODULE MCSnapshots ----------------------------
(* The small instance of Snapshots that TLC checks.  Requests and names are  *)
(* interchangeable; a run of a liveness property does not use the symmetry.  *)
EXTENDS Snapshots, TLC

MCSymmetry == Permutations(Requests) \cup Permutations(Names)
=============================================================================
