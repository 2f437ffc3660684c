--------------------------- MODULE ClonePlacement ---------------------------
(***************************************************************************)
(* Where a new VM's disk goes: the checks of create_vm on the chosen node  *)
(* and select_clone_storage, its loop over the storages configured for the *)
(* node.  The node is asked twice: when the first question fails its check *)
(* is skipped, when the second fails the creation is refused.              *)
(*                                                                         *)
(* One candidate a step, so that the loop has an invariant; nothing comes  *)
(* between the steps.                                                      *)
(***************************************************************************)
EXTENDS Integers, Sequences, FiniteSets

CONSTANTS
  Storages,
  Totals, Useds, Avails,  \* sizes a node may report
  Disks,                  \* sizes a VM may ask for
  Threshold,              \* 80 (%) in the code
  MaxCandidates           \* bound of the configured candidates

Unreported == -1
None == "none"

\* What the theorems assume of the constants.
PlacementAssumption ==
  /\ Totals \subseteq Nat /\ Useds \subseteq Nat /\ Avails \subseteq Nat
  /\ Disks \subseteq Nat /\ Threshold \in Nat
  /\ MaxCandidates \in Nat /\ None \notin Storages

VARIABLES
  pc,
  candidates,  \* get_clone_storages of the node
  disk,        \* specs["disk"]
  reports,     \* what the node says of the storages it has
  i,           \* the candidate the loop is at
  best,        \* selected, selected_avail
  outcome

vars == <<pc, candidates, disk, reports, i, best, outcome>>
request == <<candidates, disk>>

\* fit: active, enabled and for disk images.
Report == [fit: BOOLEAN, total: Totals, used: Useds, avail: Avails \cup {Unreported}]

\* The configured names, without repetition.
Candidates ==
  {c \in UNION {[1..n -> Storages] : n \in 0..MaxCandidates} :
     \A m, n \in DOMAIN c : c[m] = c[n] => m = n}

Nothing == [name |-> None, avail |-> -1]

TypeOK ==
  /\ pc \in {"node", "query", "visit", "done"}
  /\ candidates \in Candidates /\ disk \in Disks
  /\ reports \in [DOMAIN reports -> Report] /\ DOMAIN reports \subseteq Storages
  /\ i \in 1..(Len(candidates) + 1)
  /\ best \in {Nothing} \cup [name: Storages, avail: Nat]
  /\ outcome \in {"none", "overloaded", "unavailable", "full", "accepted"}

Init ==
  /\ pc = "node"
  /\ candidates \in Candidates /\ disk \in Disks
  /\ reports = << >>
  /\ i = 1 /\ best = Nothing /\ outcome = "none"

Return(o) == pc' = "done" /\ outcome' = o

\* What the node says of itself: RAM or CPU, its thin volumes together, and
\* whether the RAM asked for is free.
NodeReport == [busy: BOOLEAN, full: BOOLEAN, roomy: BOOLEAN]

Overloaded(n) == n.busy \/ (candidates = <<>> /\ n.full) \/ ~n.roomy

Continue ==
  IF candidates = <<>> THEN Return("accepted") ELSE pc' = "query" /\ UNCHANGED outcome

CheckNode ==
  /\ pc = "node"
  /\ \/ \E n \in NodeReport : IF Overloaded(n) THEN Return("overloaded") ELSE Continue
     \/ Continue  \* the node could not be asked
  /\ UNCHANGED <<request, reports, i, best>>

-----------------------------------------------------------------------------
(* select_clone_storage.                                                    *)

AskStorages ==
  /\ pc = "query"
  /\ \/ /\ pc' = "visit"
        /\ reports' \in UNION {[S -> Report] : S \in SUBSET Storages}
        /\ UNCHANGED outcome
     \/ Return("unavailable") /\ UNCHANGED reports
  /\ UNCHANGED <<request, i, best>>

Avail(r) == IF r.avail = Unreported THEN r.total - r.used ELSE r.avail

Excluded(r) ==
  ~r.fit \/ r.total <= 0 \/ r.used * 100 >= Threshold * r.total \/ Avail(r) < disk

Better(r) == Avail(r) > best.avail

Chosen(s) == [name |-> s, avail |-> Avail(reports[s])]

Visit ==
  /\ pc = "visit" /\ i <= Len(candidates)
  /\ LET s == candidates[i] IN
     best' = IF s \in DOMAIN reports /\ ~Excluded(reports[s]) /\ Better(reports[s])
             THEN Chosen(s) ELSE best
  /\ i' = i + 1
  /\ UNCHANGED <<pc, request, reports, outcome>>

Decide ==
  /\ pc = "visit" /\ i > Len(candidates)
  /\ Return(IF best.name = None THEN "full" ELSE "accepted")
  /\ UNCHANGED <<request, reports, i, best>>

Next == CheckNode \/ AskStorages \/ Visit \/ Decide

Spec == Init /\ [][Next]_vars

-----------------------------------------------------------------------------
(* Properties.                                                              *)

\* The space a storage has left, and whether it takes the disk: what the
\* docstring of select_clone_storage promises of the choice.
Room(s) == IF reports[s].avail = Unreported THEN reports[s].total - reports[s].used
           ELSE reports[s].avail
Suits(s) ==
  /\ s \in DOMAIN reports /\ reports[s].fit /\ reports[s].total > 0
  /\ 100 * reports[s].used < Threshold * reports[s].total
  /\ disk <= Room(s)

\* A VM whose node has candidates is accepted on one that suits it, also when
\* the node's own check was skipped; no candidate that suits it has more room, and
\* none before it has as much.
PlacedWhereRoomiest ==
  outcome = "accepted" /\ candidates # <<>> =>
    \E n \in DOMAIN candidates :
      /\ best.name = candidates[n] /\ Suits(candidates[n])
      /\ \A m \in DOMAIN candidates : Suits(candidates[m]) =>
           /\ Room(candidates[m]) <= Room(candidates[n])
           /\ m < n => Room(candidates[m]) < Room(candidates[n])

\* A creation is refused for lack of space only if no candidate suits it.
RefusedOnlyWhenFull ==
  outcome = "full" => \A m \in DOMAIN candidates : ~Suits(candidates[m])
=============================================================================
