---------------------------- MODULE HttpsRoutes ----------------------------
(***************************************************************************)
(* The HTTPS gateway: the rows of table https_routes and the routes Caddy  *)
(* has for each subdomain, changed one after the other by handlers that    *)
(* never give way, so that nothing comes between the two but a failure or  *)
(* the end of the process.  Nothing compares the two afterwards.           *)
(*                                                                         *)
(* Caddy takes the first route that matches a host; routes for different   *)
(* subdomains do not meet.                                                 *)
(***************************************************************************)
EXTENDS Integers, Sequences, FiniteSets, SequencesExt

CONSTANTS
  Vms,        \* VM records; one that was deleted is not used again
  Ips,        \* internal addresses, given again after a deletion
  Subdomains,
  Ports,
  MaxRoutes,  \* 2 in the code
  MaxStale,   \* bound of the routes Caddy has for one subdomain
  Faults      \* "call": a call to Caddy may fail, with or without effect;
              \* "db": a COMMIT may fail, or the process end before it

ASSUME HttpsAssumption ==
  /\ MaxRoutes \in Nat \ {0} /\ MaxStale \in Nat \ {0} /\ Faults \subseteq {"call", "db"}
  /\ {"none", "gone"} \cap Ips = {}

VARIABLES
  ip,     \* internal_ip of each VM
  rows,   \* table https_routes
  caddy,  \* the routes for each subdomain, the first one first
  undone  \* subdomains whose deletion was rolled back (history)

vars == <<ip, rows, caddy, undone>>

HttpsRoute == [subdomain: Subdomains, vm: Vms, port: Ports, caddy_synced: BOOLEAN]
Upstream == [ip: Ips, port: Ports]

Alive(v) == ip[v] \in Ips
RowsOf(v) == {r \in rows : r.vm = v}
Names(R) == {r.subdomain : r \in R}
UpstreamOf(r) == [ip |-> ip[r.vm], port |-> r.port]

TypeOK ==
  /\ ip \in [Vms -> Ips \cup {"none", "gone"}]
  /\ \A v, w \in Vms : v # w /\ Alive(v) => ip[v] # ip[w]
  /\ rows \subseteq HttpsRoute
  /\ \A r, q \in rows : r.subdomain = q.subdomain => r = q
  /\ \A r \in rows : Alive(r.vm)
  /\ \A v \in Vms : Cardinality(RowsOf(v)) <= MaxRoutes
  /\ caddy \in [Subdomains -> Seq(Upstream)]
  /\ \A s \in Subdomains : Len(caddy[s]) <= MaxStale
  /\ undone \subseteq Names(rows)

Init ==
  /\ ip = [v \in Vms |-> "none"]
  /\ rows = {}
  /\ caddy = [s \in Subdomains |-> <<>>]
  /\ undone = {}

CreateVm(v, i) ==
  /\ ip[v] = "none" /\ \A w \in Vms : ip[w] # i
  /\ ip' = [ip EXCEPT ![v] = i]
  /\ UNCHANGED <<rows, caddy, undone>>

-----------------------------------------------------------------------------
(* caddy_service: what may become of the routes q of one subdomain.         *)

\* The id is the same for all of them: any one goes.
DeleteRoute(q) ==
  (IF q = <<>> THEN {q} ELSE {RemoveAt(q, n) : n \in DOMAIN q})
    \cup (IF "call" \in Faults THEN {q} ELSE {})

\* add_route first deletes what an earlier row may have left; then it reads
\* all routes, puts the new one before them and writes them back.
Inserted_Last(u, q) == Append(q, u)
Inserted(u, q) == <<u>> \o q

AddRoute(u, q) ==
  UNION {{[routes |-> Inserted(u, d), ok |-> TRUE]} \cup
         (IF "call" \in Faults
          THEN {[routes |-> d, ok |-> FALSE], [routes |-> Inserted(u, d), ok |-> FALSE]}
          ELSE {}) : d \in DeleteRoute(q)}

-----------------------------------------------------------------------------
(* The handlers.                                                            *)

\* add_https_route: the row is committed before Caddy is called, with
\* caddy_synced = FALSE; the flag takes another COMMIT.
BelowLimit_OneMore(v) == Cardinality(RowsOf(v)) <= MaxRoutes
BelowLimit(v) == Cardinality(RowsOf(v)) < MaxRoutes

NewRow(v, s, p, synced) ==
  [subdomain |-> s, vm |-> v, port |-> p, caddy_synced |-> synced]

AddHttpsRoute(v, s, p) ==
  LET committed == rows \cup {NewRow(v, s, p, FALSE)} IN
  /\ Alive(v) /\ BelowLimit(v) /\ s \notin Names(rows)
  /\ \/ \E a \in AddRoute([ip |-> ip[v], port |-> p], caddy[s]) :
          /\ Len(a.routes) <= MaxStale
          /\ caddy' = [caddy EXCEPT ![s] = a.routes]
          /\ \/ rows' = rows \cup {NewRow(v, s, p, a.ok)}
             \/ "db" \in Faults /\ rows' = committed
     \/ /\ "db" \in Faults
        /\ rows' = committed
        /\ UNCHANGED caddy
  /\ UNCHANGED <<ip, undone>>

\* The routes of the rows R are deleted, failures are only logged.
RemoveFromCaddy(R) ==
  \E f \in [Names(R) -> UNION {DeleteRoute(caddy[s]) : s \in Names(R)}] :
    /\ \A s \in Names(R) : f[s] \in DeleteRoute(caddy[s])
    /\ caddy' = [s \in Subdomains |-> IF s \in Names(R) THEN f[s] ELSE caddy[s]]

\* Then the rows go ...
DeleteRows(R) ==
  /\ RemoveFromCaddy(R)
  /\ rows' = rows \ R
  /\ undone' = undone \ Names(R)

\* ... unless the COMMIT fails: Caddy is not told.
DeleteUndone(R) ==
  /\ "db" \in Faults
  /\ RemoveFromCaddy(R)
  /\ undone' = undone \cup Names(R)
  /\ UNCHANGED <<ip, rows>>

DeleteHttpsRoute(r) ==
  \/ DeleteRows({r}) /\ UNCHANGED ip
  \/ DeleteUndone({r})

\* delete_vm: all routes of the VM; its rows go with the VM.
DeleteVm(v) ==
  /\ Alive(v)
  /\ \/ DeleteRows(RowsOf(v)) /\ ip' = [ip EXCEPT ![v] = "gone"]
     \/ DeleteUndone(RowsOf(v))

Next ==
  \/ \E v \in Vms :
       \/ \E i \in Ips : CreateVm(v, i)
       \/ \E s \in Subdomains, p \in Ports : AddHttpsRoute(v, s, p)
       \/ DeleteVm(v)
  \/ \E r \in rows : DeleteHttpsRoute(r)

Spec == Init /\ [][Next]_vars

-----------------------------------------------------------------------------
(* Properties.                                                              *)

\* A route shown as registered leads to the VM that has it, whatever failed
\* calls left in Caddy for the same subdomain, other VMs' routes included; only
\* a deletion that was rolled back leaves the flag set for a route that is gone.
SyncedIsServed ==
  \A r \in rows :
    r.caddy_synced /\ r.subdomain \notin undone
      => /\ caddy[r.subdomain] # <<>>
         /\ Head(caddy[r.subdomain]) = UpstreamOf(r)
=============================================================================
