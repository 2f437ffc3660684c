----------------------------- MODULE MCVmExpiry -----------------------------
(* The small instance of VmExpiry that TLC checks: the days of the code in   *)
(* the same order but shorter, and half a day as the unit of time, so that   *)
(* rounding down to whole days shows.  The VMs are interchangeable.          *)
EXTENDS VmExpiry, TLC

MCSymmetry == Permutations(Vms)
=============================================================================
