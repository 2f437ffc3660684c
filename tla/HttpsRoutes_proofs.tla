------------------------- MODULE HttpsRoutes_proofs -------------------------
(* Proofs about HttpsRoutes: its types, and that a route shown as registered *)
(* leads to its VM, whatever is left in Caddy.                               *)
EXTENDS HttpsRoutes, FiniteSetTheorems, SequenceTheorems, TLAPS

-----------------------------------------------------------------------------
(* What Caddy may have for a subdomain after a call.                        *)

\* Taking one element out of a sequence.
LEMMA RemoveAtType ==
  ASSUME NEW q \in Seq(Upstream), NEW n \in DOMAIN q
  PROVE  RemoveAt(q, n) \in Seq(Upstream) /\ Len(RemoveAt(q, n)) <= Len(q)
<1>1. Len(q) \in Nat /\ n \in 1..Len(q)
  OBVIOUS
<1>2. /\ SubSeq(q, 1, n - 1) \in Seq(Upstream)
      /\ Len(SubSeq(q, 1, n - 1)) = n - 1
  BY <1>1, SubSeqProperties
<1>3. /\ SubSeq(q, n + 1, Len(q)) \in Seq(Upstream)
      /\ Len(SubSeq(q, n + 1, Len(q))) = Len(q) - n
  BY <1>1, SubSeqProperties
<1> QED
  BY <1>1, <1>2, <1>3, ConcatProperties DEF RemoveAt

LEMMA DeleteRouteType ==
  ASSUME NEW q \in Seq(Upstream), NEW d \in DeleteRoute(q)
  PROVE  d \in Seq(Upstream) /\ Len(d) <= Len(q)
<1>1. CASE d = q
  BY <1>1
<1>2. CASE d # q
  <2>1. PICK n \in DOMAIN q : d = RemoveAt(q, n)
    BY <1>2 DEF DeleteRoute
  <2> QED BY <2>1, RemoveAtType
<1> QED
  BY <1>1, <1>2

\* add_route returns True only if the new route is the first one.
LEMMA AddRouteFirst ==
  ASSUME NEW q \in Seq(Upstream), NEW u \in Upstream, NEW a \in AddRoute(u, q)
  PROVE  /\ a.routes \in Seq(Upstream) /\ a.ok \in BOOLEAN
         /\ a.ok => a.routes # <<>> /\ Head(a.routes) = u
<1>1. PICK d \in DeleteRoute(q) :
        \/ a = [routes |-> Inserted(u, d), ok |-> TRUE]
        \/ a = [routes |-> d, ok |-> FALSE]
        \/ a = [routes |-> Inserted(u, d), ok |-> FALSE]
  BY DEF AddRoute
<1>2. d \in Seq(Upstream)
  BY DeleteRouteType
<1>3. <<u>> \in Seq(Upstream) /\ Len(<<u>>) = 1
  OBVIOUS
<1>4. /\ Inserted(u, d) \in Seq(Upstream) /\ Inserted(u, d) # <<>>
      /\ Head(Inserted(u, d)) = u
  BY <1>2, <1>3 DEF Inserted
<1>5. CASE a = [routes |-> d, ok |-> FALSE]
  BY <1>2, <1>5
<1>6. CASE \E b \in BOOLEAN : a = [routes |-> Inserted(u, d), ok |-> b]
  BY <1>4, <1>6
<1> QED
  BY <1>1, <1>5, <1>6

-----------------------------------------------------------------------------
(* Type correctness, with the finiteness of the rows that counting needs.   *)

TypeInv == TypeOK /\ IsFiniteSet(rows)

\* The route a VM's new row asks for, and what add_route makes of it.
LEMMA NewUpstream ==
  ASSUME TypeOK, NEW v \in Vms, NEW s \in Subdomains, NEW p \in Ports, Alive(v),
         NEW a \in AddRoute([ip |-> ip[v], port |-> p], caddy[s])
  PROVE  /\ a.routes \in Seq(Upstream) /\ a.ok \in BOOLEAN
         /\ a.ok => a.routes # <<>> /\ Head(a.routes) = [ip |-> ip[v], port |-> p]
<1>1. [ip |-> ip[v], port |-> p] \in Upstream /\ caddy[s] \in Seq(Upstream)
  BY DEF TypeOK, Upstream, Alive
<1> QED
  BY <1>1, AddRouteFirst

\* What the deletion of the rows R leaves in Caddy.
LEMMA RemoveFromCaddyType ==
  ASSUME TypeOK, NEW R, R \subseteq rows, RemoveFromCaddy(R)
  PROVE  /\ caddy' \in [Subdomains -> Seq(Upstream)]
         /\ \A s \in Subdomains : Len(caddy'[s]) <= MaxStale
         /\ \A s \in Subdomains : s \notin Names(R) => caddy'[s] = caddy[s]
<1>1. PICK f : /\ \A s \in Names(R) : f[s] \in DeleteRoute(caddy[s])
               /\ caddy' = [s \in Subdomains |-> IF s \in Names(R) THEN f[s] ELSE caddy[s]]
  BY DEF RemoveFromCaddy
<1>2. /\ caddy \in [Subdomains -> Seq(Upstream)]
      /\ \A s \in Subdomains : Len(caddy[s]) <= MaxStale
      /\ MaxStale \in Nat
  BY HttpsAssumption DEF TypeOK
<1>3. ASSUME NEW s \in Subdomains
      PROVE  caddy'[s] \in Seq(Upstream) /\ Len(caddy'[s]) <= MaxStale
  <2>1. CASE s \in Names(R)
    <3>1. caddy'[s] \in DeleteRoute(caddy[s])
      BY <1>1, <2>1
    <3>2. caddy[s] \in Seq(Upstream) /\ Len(caddy[s]) <= MaxStale
      BY <1>2
    <3>3. caddy'[s] \in Seq(Upstream) /\ Len(caddy'[s]) <= Len(caddy[s])
      BY <3>1, <3>2, DeleteRouteType
    <3> QED BY <1>2, <3>2, <3>3
  <2>2. CASE s \notin Names(R)
    <3>1. caddy'[s] = caddy[s]
      BY <1>1, <2>2
    <3> QED BY <1>2, <3>1
  <2> QED BY <2>1, <2>2
<1> QED
  BY <1>1, <1>3

\* Fewer rows of a VM that are all there were.
LEMMA FewerRows ==
  ASSUME IsFiniteSet(rows), NEW S, S \subseteq rows, NEW v,
         Cardinality(RowsOf(v)) <= MaxRoutes
  PROVE  Cardinality({r \in S : r.vm = v}) <= MaxRoutes
<1>1. RowsOf(v) \subseteq rows /\ {r \in S : r.vm = v} \subseteq RowsOf(v)
  BY DEF RowsOf
<1>2. IsFiniteSet(RowsOf(v))
  BY <1>1, FS_Subset
<1>3. /\ Cardinality({r \in S : r.vm = v}) <= Cardinality(RowsOf(v))
      /\ IsFiniteSet({r \in S : r.vm = v})
  BY <1>1, <1>2, FS_Subset
<1> QED
  BY <1>2, <1>3, FS_CardinalityType, HttpsAssumption

LEMMA AddRow ==
  ASSUME IsFiniteSet(rows), NEW v, NEW r, r.vm = v, BelowLimit(v)
  PROVE  Cardinality({q \in rows \cup {r} : q.vm = v}) <= MaxRoutes
<1>1. {q \in rows \cup {r} : q.vm = v} = RowsOf(v) \cup {r}
  BY DEF RowsOf
<1>2. IsFiniteSet(RowsOf(v))
  <2>1. RowsOf(v) \subseteq rows
    BY DEF RowsOf
  <2> QED BY <2>1, FS_Subset
<1> DEFINE R == RowsOf(v)
<1>3. Cardinality(R) \in Nat /\ Cardinality(R \cup {r}) \in Nat
  <2>1. IsFiniteSet(R) /\ IsFiniteSet(R \cup {r})
    BY <1>2, FS_AddElement
  <2> QED BY <2>1, FS_CardinalityType
<1>4. Cardinality(R \cup {r}) \in {Cardinality(R), Cardinality(R) + 1}
  <2> HIDE DEF R
  <2>1. IsFiniteSet(R)
    BY <1>2 DEF R
  <2> QED BY <2>1, FS_AddElement
<1>5. Cardinality(R) < MaxRoutes
  BY DEF BelowLimit
<1> HIDE DEF R
<1> QED
  BY <1>1, <1>3, <1>4, <1>5, HttpsAssumption DEF R

LEMMA InitType == Init => TypeInv
<1> SUFFICES ASSUME Init PROVE TypeInv
  OBVIOUS
<1>1. \A v \in Vms : RowsOf(v) = {}
  BY DEF Init, RowsOf
<1>2. Cardinality({}) = 0 /\ IsFiniteSet({})
  BY FS_EmptySet
<1>3. \A v \in Vms : ~Alive(v)
  BY HttpsAssumption DEF Init, Alive
<1>4. \A v \in Vms : Cardinality(RowsOf(v)) <= MaxRoutes
  BY <1>1, <1>2, HttpsAssumption
<1>5. \A s \in Subdomains : caddy[s] = <<>> /\ Len(caddy[s]) = 0
  BY DEF Init
<1>6. caddy \in [Subdomains -> Seq(Upstream)]
  BY DEF Init
<1>7. IsFiniteSet(rows) /\ rows = {} /\ undone = {} /\ ip = [v \in Vms |-> "none"]
  BY <1>2 DEF Init
<1> QED
  BY <1>3, <1>4, <1>5, <1>6, <1>7, HttpsAssumption DEF TypeInv, TypeOK

LEMMA AddType ==
  ASSUME TypeInv, NEW v \in Vms, NEW s \in Subdomains, NEW p \in Ports,
         AddHttpsRoute(v, s, p)
  PROVE  TypeInv'
<1>1. PICK b \in BOOLEAN : rows' = rows \cup {NewRow(v, s, p, b)}
  <2>1. \A a \in AddRoute([ip |-> ip[v], port |-> p], caddy[s]) : a.ok \in BOOLEAN
    BY NewUpstream DEF AddHttpsRoute, TypeInv
  <2> QED BY <2>1 DEF AddHttpsRoute
<1> DEFINE r == NewRow(v, s, p, b)
<1>2. /\ r \in HttpsRoute /\ r.subdomain = s /\ r.vm = v
  BY DEF HttpsRoute, NewRow
<1>3. /\ Alive(v) /\ BelowLimit(v) /\ s \notin Names(rows) /\ ip' = ip /\ undone' = undone
  BY DEF AddHttpsRoute
<1>4. /\ rows' = rows \cup {r} /\ IsFiniteSet(rows') /\ rows' \subseteq HttpsRoute
      /\ Names(rows') = Names(rows) \cup {s}
  <2>1. rows' = rows \cup {r}
    BY <1>1
  <2> HIDE DEF r
  <2> QED BY <2>1, <1>2, FS_AddElement DEF TypeInv, TypeOK, Names
<1> HIDE DEF r
<1>5. \A q, t \in rows' : q.subdomain = t.subdomain => q = t
  BY <1>2, <1>3, <1>4 DEF TypeInv, TypeOK, Names
<1>6. \A q \in rows' : Alive(q.vm)'
  BY <1>2, <1>3, <1>4 DEF TypeInv, TypeOK, Alive
<1>7. ASSUME NEW w \in Vms PROVE Cardinality(RowsOf(w)') <= MaxRoutes
  <2>1. CASE w = v
    BY <2>1, <1>2, <1>3, <1>4, AddRow DEF TypeInv, RowsOf
  <2>2. CASE w # v
    <3>1. RowsOf(w)' = RowsOf(w)
      BY <2>2, <1>2, <1>4 DEF RowsOf
    <3> QED BY <3>1 DEF TypeInv, TypeOK
  <2> QED BY <2>1, <2>2
<1>8. /\ caddy' \in [Subdomains -> Seq(Upstream)]
      /\ \A t \in Subdomains : Len(caddy'[t]) <= MaxStale
  <2>1. CASE UNCHANGED caddy
    BY <2>1 DEF TypeInv, TypeOK
  <2>2. CASE ~UNCHANGED caddy
    <3>1. PICK a \in AddRoute([ip |-> ip[v], port |-> p], caddy[s]) :
               /\ Len(a.routes) <= MaxStale
               /\ caddy' = [caddy EXCEPT ![s] = a.routes]
      BY <2>2 DEF AddHttpsRoute
    <3>2. a.routes \in Seq(Upstream)
      BY <1>3, NewUpstream DEF TypeInv
    <3> QED BY <3>1, <3>2 DEF TypeInv, TypeOK
  <2> QED BY <2>1, <2>2
<1> QED
  BY <1>3, <1>4, <1>5, <1>6, <1>7, <1>8 DEF TypeInv, TypeOK, Alive

LEMMA CreateVmType ==
  ASSUME TypeInv, NEW v \in Vms, NEW i \in Ips, CreateVm(v, i)
  PROVE  TypeInv'
<1>1. ip' \in [Vms -> Ips \cup {"none", "gone"}]
  BY DEF CreateVm, TypeInv, TypeOK
<1>2. \A w, x \in Vms : w # x /\ Alive(w)' => ip'[w] # ip'[x]
  BY DEF CreateVm, TypeInv, TypeOK, Alive
<1>3. \A r \in rows' : Alive(r.vm)'
  BY DEF CreateVm, TypeInv, TypeOK, Alive, HttpsRoute
<1> QED
  BY <1>1, <1>2, <1>3 DEF CreateVm, TypeInv, TypeOK, RowsOf, Names

\* Rows R go, from Caddy too, with or without effect; no row of a VM that
\* goes with them is left.
LEMMA DeleteType ==
  ASSUME TypeInv, NEW R, R \subseteq rows, RemoveFromCaddy(R),
         ip' \in [Vms -> Ips \cup {"none", "gone"}],
         \A v \in Vms : ip'[v] # ip[v] => ip'[v] = "gone" /\ RowsOf(v) \subseteq R,
         \/ rows' = rows \ R /\ undone' = undone \ Names(R)
         \/ ip' = ip /\ rows' = rows /\ undone' = undone \cup Names(R)
  PROVE  TypeInv'
<1>1. /\ rows' \subseteq rows /\ IsFiniteSet(rows')
  BY FS_Subset DEF TypeInv
<1>2. ASSUME NEW v \in Vms PROVE Cardinality(RowsOf(v)') <= MaxRoutes
  <2>1. RowsOf(v)' = {r \in rows' : r.vm = v}
    BY DEF RowsOf
  <2>2. IsFiniteSet(rows) /\ Cardinality(RowsOf(v)) <= MaxRoutes
    BY DEF TypeInv, TypeOK
  <2> QED BY <1>1, <2>1, <2>2, FewerRows
<1>3. \A r \in rows' : Alive(r.vm)'
  BY <1>1 DEF TypeInv, TypeOK, Alive, HttpsRoute, RowsOf
<1>4. \A v, w \in Vms : v # w /\ Alive(v)' => ip'[v] # ip'[w]
  <2> SUFFICES ASSUME NEW v \in Vms, NEW w \in Vms, v # w, ip'[v] \in Ips
               PROVE  ip'[v] # ip'[w]
    BY DEF Alive
  <2>1. ip'[v] = ip[v]
    BY HttpsAssumption
  <2> QED BY <2>1, HttpsAssumption DEF TypeInv, TypeOK, Alive
<1>5. undone' \subseteq Names(rows')
  BY DEF TypeInv, TypeOK, Names
<1>6. /\ caddy' \in [Subdomains -> Seq(Upstream)]
      /\ \A s \in Subdomains : Len(caddy'[s]) <= MaxStale
  BY RemoveFromCaddyType DEF TypeInv
<1> QED
  BY <1>1, <1>2, <1>3, <1>4, <1>5, <1>6 DEF TypeInv, TypeOK

\* What every deletion comes to: the rows R are gone, or the COMMIT failed.
Deleted(R) ==
  /\ R \subseteq rows /\ RemoveFromCaddy(R)
  /\ ip' \in [Vms -> Ips \cup {"none", "gone"}]
  /\ \A v \in Vms : ip'[v] # ip[v] => ip'[v] = "gone" /\ RowsOf(v) \subseteq R
  /\ \/ rows' = rows \ R /\ undone' = undone \ Names(R)
     \/ ip' = ip /\ rows' = rows /\ undone' = undone \cup Names(R)

LEMMA DeletionSteps ==
  ASSUME TypeInv
  PROVE  /\ \A r \in rows : DeleteHttpsRoute(r) => Deleted({r})
         /\ \A v \in Vms : DeleteVm(v) => Deleted(RowsOf(v))
<1>1. ASSUME NEW r \in rows, DeleteHttpsRoute(r) PROVE Deleted({r})
  BY <1>1 DEF DeleteHttpsRoute, DeleteRows, DeleteUndone, Deleted, TypeInv, TypeOK
<1>2. ASSUME NEW v \in Vms, DeleteVm(v) PROVE Deleted(RowsOf(v))
  <2>1. RowsOf(v) \subseteq rows /\ ip \in [Vms -> Ips \cup {"none", "gone"}]
    BY DEF RowsOf, TypeInv, TypeOK
  <2>2. CASE DeleteRows(RowsOf(v)) /\ ip' = [ip EXCEPT ![v] = "gone"]
    BY <2>1, <2>2 DEF DeleteRows, Deleted
  <2>3. CASE DeleteUndone(RowsOf(v))
    BY <2>1, <2>3 DEF DeleteUndone, Deleted
  <2> QED BY <1>2, <2>2, <2>3 DEF DeleteVm
<1> QED
  BY <1>1, <1>2

LEMMA TypeStep == TypeInv /\ [Next]_vars => TypeInv'
<1> SUFFICES ASSUME TypeInv, [Next]_vars PROVE TypeInv'
  OBVIOUS
<1>1. ASSUME NEW v \in Vms, NEW i \in Ips, CreateVm(v, i) PROVE TypeInv'
  BY <1>1, CreateVmType
<1>2. ASSUME NEW v \in Vms, NEW s \in Subdomains, NEW p \in Ports, AddHttpsRoute(v, s, p)
      PROVE  TypeInv'
  BY <1>2, AddType
<1>3. ASSUME NEW R, Deleted(R) PROVE TypeInv'
  BY <1>3, DeleteType DEF Deleted
<1>4. CASE UNCHANGED vars
  BY <1>4 DEF vars, TypeInv, TypeOK, Alive, RowsOf, Names
<1> QED
  BY <1>1, <1>2, <1>3, <1>4, DeletionSteps DEF Next

-----------------------------------------------------------------------------
(* What Caddy answers.                                                      *)

\* A step that changes no row of another subdomain, and neither the VM's
\* address nor what Caddy has for it, leaves a served route served.
LEMMA SyncedStep == TypeInv /\ SyncedIsServed /\ [Next]_vars => SyncedIsServed'
<1> SUFFICES ASSUME TypeInv, SyncedIsServed, [Next]_vars,
                    NEW r \in rows', r.caddy_synced, r.subdomain \notin undone'
             PROVE  /\ caddy'[r.subdomain] # <<>>
                    /\ Head(caddy'[r.subdomain]) = UpstreamOf(r)'
  BY DEF SyncedIsServed
<1> DEFINE Served == /\ r \in rows /\ r.subdomain \notin undone
                     /\ caddy'[r.subdomain] = caddy[r.subdomain]
                     /\ ip'[r.vm] = ip[r.vm]
<1>1. r \in rows => r.vm \in Vms /\ Alive(r.vm) /\ r.subdomain \in Subdomains
  BY DEF TypeInv, TypeOK, HttpsRoute
<1>2. ASSUME Served PROVE /\ caddy'[r.subdomain] # <<>>
                          /\ Head(caddy'[r.subdomain]) = UpstreamOf(r)'
  BY <1>2 DEF SyncedIsServed, UpstreamOf
<1>3. ASSUME NEW v \in Vms, NEW i \in Ips, CreateVm(v, i) PROVE Served
  BY <1>1, <1>3, HttpsAssumption DEF CreateVm, Alive, TypeInv, TypeOK
<1>4. ASSUME NEW R, Deleted(R) PROVE Served
  <2>1. r \in rows /\ r.subdomain \notin Names(R) /\ r \notin R
    BY <1>4 DEF Deleted, Names, TypeInv, TypeOK
  <2>2. r.subdomain \notin undone
    BY <1>4, <2>1 DEF Deleted
  <2>3. caddy'[r.subdomain] = caddy[r.subdomain]
    BY <1>1, <1>4, <2>1, RemoveFromCaddyType DEF Deleted, TypeInv
  <2>4. ip'[r.vm] = ip[r.vm]
    BY <1>1, <1>4, <2>1 DEF Deleted, RowsOf
  <2> QED BY <2>1, <2>2, <2>3, <2>4
<1>5. ASSUME NEW v \in Vms, NEW s \in Subdomains, NEW p \in Ports, AddHttpsRoute(v, s, p)
      PROVE  /\ caddy'[r.subdomain] # <<>>
             /\ Head(caddy'[r.subdomain]) = UpstreamOf(r)'
  <2>1. s \notin Names(rows) /\ ip' = ip /\ undone' = undone /\ Alive(v)
    BY <1>5 DEF AddHttpsRoute
  <2>2. CASE r \in rows
    <3>1. r.subdomain # s
      BY <2>1, <2>2 DEF Names
    <3>2. caddy'[r.subdomain] = caddy[r.subdomain]
      BY <1>1, <1>5, <2>2, <3>1 DEF AddHttpsRoute, TypeInv, TypeOK
    <3> QED BY <1>2, <2>1, <2>2, <3>2
  <2>3. CASE r \notin rows
    <3>1. r # NewRow(v, s, p, FALSE)
      BY DEF NewRow
    <3>2. PICK a \in AddRoute([ip |-> ip[v], port |-> p], caddy[s]) :
            /\ caddy' = [caddy EXCEPT ![s] = a.routes]
            /\ rows' = rows \cup {NewRow(v, s, p, a.ok)}
      BY <1>5, <2>3, <3>1 DEF AddHttpsRoute
    <3>3. r = NewRow(v, s, p, a.ok)
      BY <2>3, <3>2
    <3>4. a.ok /\ r.subdomain = s /\ r.vm = v /\ r.port = p
      BY <3>3 DEF NewRow
    <3>5. UpstreamOf(r)' = [ip |-> ip[v], port |-> p]
      BY <2>1, <3>4 DEF UpstreamOf
    <3>6. a.routes # <<>> /\ Head(a.routes) = [ip |-> ip[v], port |-> p]
      BY <2>1, <3>4, NewUpstream DEF TypeInv
    <3>7. caddy'[s] = a.routes
      BY <3>2 DEF TypeInv, TypeOK
    <3> QED BY <3>4, <3>5, <3>6, <3>7
  <2> QED BY <2>2, <2>3
<1>6. CASE UNCHANGED vars
  BY <1>6, <1>2 DEF vars
<1> QED
  BY <1>2, <1>3, <1>4, <1>5, <1>6, DeletionSteps DEF Next

-----------------------------------------------------------------------------
(* Theorems.                                                                *)

\* Types hold, no VM has more routes than MAX_HTTPS_ROUTES_PER_VM and no name
\* has two rows, for any number of VMs and any failing call or COMMIT of
\* add_https_route, delete_https_route and delete_vm.
THEOREM TypeCorrect == Spec => []TypeOK
<1>1. TypeInv => TypeOK
  BY DEF TypeInv
<1> QED
  BY <1>1, InitType, TypeStep, PTL DEF Spec

\* A route with caddy_synced is the first one Caddy has for its name and leads
\* to its VM, whatever failed calls of add_route and delete_route left behind.
THEOREM RoutesServed == Spec => []SyncedIsServed
<1>1. Init => SyncedIsServed
  BY DEF Init, SyncedIsServed
<1> QED
  BY <1>1, InitType, TypeStep, SyncedStep, PTL DEF Spec
=============================================================================
