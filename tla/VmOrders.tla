------------------------------ MODULE VmOrders ------------------------------
(***************************************************************************)
(* What the creation service promises to its users, without queue, worker, *)
(* database or Proxmox: every accepted order is served with exactly one VM *)
(* or refused without one, a decision is final, and an account under quota *)
(* never holds more VMs than the quota, undecided orders included.         *)
(***************************************************************************)
EXTENDS Integers, FiniteSets

CONSTANTS Jobs, Users, JobUser, Limited, MaxVms

VARIABLES
  order,   \* the order's state as its owner sees it
  vm       \* its VM: "none" yet, "live", or "gone" after its deletion

vars == <<order, vm>>

Init ==
  /\ order = [j \in Jobs |-> "none"]
  /\ vm = [j \in Jobs |-> "none"]

\* What counts against the quota: orders that may still produce a VM and
\* VMs that exist.
Held(u) ==
  {j \in Jobs : /\ JobUser[j] = u
                /\ \/ order[j] = "pending" /\ vm[j] = "none"
                   \/ vm[j] = "live"}

Place(j) ==
  /\ order[j] = "none"
  /\ JobUser[j] \in Limited => Cardinality(Held(JobUser[j])) < MaxVms
  /\ order' = [order EXCEPT ![j] = "pending"]
  /\ UNCHANGED vm

Deliver(j) ==
  /\ order[j] = "pending" /\ vm[j] = "none"
  /\ vm' = [vm EXCEPT ![j] = "live"]
  /\ UNCHANGED order

Serve(j) ==
  /\ order[j] = "pending" /\ vm[j] # "none"
  /\ order' = [order EXCEPT ![j] = "served"]
  /\ UNCHANGED vm

Refuse(j) ==
  /\ order[j] = "pending" /\ vm[j] = "none"
  /\ order' = [order EXCEPT ![j] = "refused"]
  /\ UNCHANGED vm

Remove(j) ==
  /\ vm[j] = "live"
  /\ vm' = [vm EXCEPT ![j] = "gone"]
  /\ UNCHANGED order

Decide(j) == Deliver(j) \/ Serve(j) \/ Refuse(j)

Next == \E j \in Jobs : Place(j) \/ Decide(j) \/ Remove(j)

\* Every accepted order is decided.
Spec == Init /\ [][Next]_vars /\ \A j \in Jobs : WF_vars(Decide(j))
=============================================================================
