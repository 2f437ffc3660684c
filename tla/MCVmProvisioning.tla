-------------------------- MODULE MCVmProvisioning --------------------------
(* The small instances of VmProvisioning that TLC checks: two jobs of a USER *)
(* account and one of an account without quota.                              *)
EXTENDS VmProvisioning

CONSTANTS j1, j2, j3, user, admin

MCUsers   == {user, admin}
MCJobUser == [j \in Jobs |-> IF j = j3 THEN admin ELSE user]
=============================================================================
