--------------------------- MODULE PortForwarding ---------------------------
(***************************************************************************)
(* Port forwarding: the rules on the gateway and the records of table      *)
(* vm_ports.                                                               *)
(*                                                                         *)
(* Two actors open SSH sessions to the gateway and run iptables commands   *)
(* one after the other: the worker thread (create_vm) and the event loop   *)
(* (the port endpoints of firewall.py and delete_vm), which runs one       *)
(* operation at a time.  Each command is one step; every other command may *)
(* come between it and the next.                                           *)
(*                                                                         *)
(* A port reaches a VM through a DNAT rule and a FORWARD rule.  The DNAT   *)
(* rule belongs to one external port; the FORWARD rule is the same for all *)
(* ports that lead to the same internal port with the same source.         *)
(***************************************************************************)
EXTENDS Integers, Sequences, FiniteSets, Bags, SequencesExt

CONSTANTS
  Vmids,       \* VMIDs Proxmox can hand out
  Ips,         \* internal IPs
  Defaults,    \* the default ports, in order: [internal, protocols, offset]
  CustomExts,  \* external ports of allocate_random_port, 30000..39999
  Internals,   \* internal ports users ask for
  Subnets,     \* source networks users ask for, beside "anywhere"
  MaxCustom,   \* custom ports per VM, 30 in the code
  Faults,      \* the kinds of failure that may occur in this instance
  Early        \* users act on a VM whose creation is still running, too

FaultKinds ==
  { "check",     \* the connection or an iptables -C fails
    "refuse",    \* an iptables -A exits non-zero, or is never executed
    "lost",      \* an iptables -A is executed, but the call raises
    "rollback",  \* a command of the rollback fails
    "remove",    \* the connection or a command of a DELETE fails
    "create" }   \* creation fails after its ports were forwarded

Protocols == {"tcp", "udp"}
Anywhere  == "0.0.0.0/0"
NoSource  == "none"
Sources   == Subnets \cup {Anywhere, NoSource}

ASSUME PortAssumption ==
  /\ IsFiniteSet(Vmids) /\ Vmids \subseteq Nat
  /\ IsFiniteSet(Ips)
  /\ CustomExts \subseteq Nat /\ Internals \subseteq Nat
  /\ Subnets \cap {Anywhere, NoSource} = {}
  /\ Defaults \in Seq([internal: Nat, protocols: Seq(Protocols), offset: Nat])
  /\ Defaults # <<>> /\ \A d \in ToSet(Defaults) : d.protocols # <<>>
  /\ \A i, j \in DOMAIN Defaults : Defaults[i].offset = Defaults[j].offset => i = j
  /\ MaxCustom \in Nat
  /\ Faults \subseteq FaultKinds
  /\ Early \in BOOLEAN

VARIABLES
  vms,    \* the rows of table vms
  ports,  \* the rows of table vm_ports
  rules,  \* the bag of rules on the gateway
  act     \* what the worker and the event loop are doing

vars == <<vms, ports, rules, act>>
Actors == {"worker", "loop"}

Vm   == [id: Nat, vmid: Vmids, ip: Ips, ready: BOOLEAN]
Port == [vm: Nat, internal: Nat, external: Nat, protocols: Seq(Protocols),
         source: Sources, is_default: BOOLEAN]
Rule == [chain: {"PREROUTING", "FORWARD"}, source: Sources \ {Anywhere},
         protocol: Protocols, dport: Nat, ip: Ips, to: Nat]

Adding   == {"create", "add", "restore"}
Deleting == {"undo", "delete", "delete_vm"}
NoVm     == [id |-> 0, ready |-> FALSE]

\* op: the operation; vm, ports: the rows it works on; calls: the calls of
\* manage_iptables or manage_custom_iptables still to be made, each a
\* sequence of rules; todo, pending, attempted: the loops of
\* _run_iptables_commands; ok: the last call's result; before: the copies
\* of the call's rules when it began (history).
Idle == [op |-> "idle", vm |-> NoVm, ports |-> {}, calls |-> <<>>,
         phase |-> "idle", todo |-> <<>>, pending |-> <<>>,
         attempted |-> <<>>, ok |-> TRUE, before |-> EmptyBag]

TypeOK ==
  /\ vms \subseteq Vm
  /\ ports \subseteq Port
  /\ \A p \in ports : p.external \in CustomExts \/ p.is_default
  /\ IsABag(rules) /\ BagToSet(rules) \subseteq Rule
  /\ DOMAIN act = Actors
  /\ \A a \in Actors :
       LET c == act[a] IN
         /\ c.op \in {"idle"} \cup Adding \cup Deleting
         /\ c.phase \in {"idle", "check", "add", "rollback", "remove", "end"}
         /\ c.op = "idle" <=> c.phase = "idle"
         /\ c.op # "idle" => c.vm \in Vm
         /\ c.ports \subseteq Port
         /\ c.calls \in Seq(Seq(Rule))
         /\ \A q \in {c.todo, c.pending, c.attempted} : q \in Seq(Rule)
         /\ c.ok \in BOOLEAN

Init == /\ vms = {} /\ ports = {}
        /\ rules = EmptyBag
        /\ act = [a \in Actors |-> Idle]

-----------------------------------------------------------------------------
(* The rules of a port.                                                     *)

\* _normalize_source_ip
Normalize(s) == IF s = Anywhere THEN NoSource ELSE s

Dnat(s, pr, ext, ip, int) ==
  [chain |-> "PREROUTING", source |-> s, protocol |-> pr, dport |-> ext,
   ip |-> ip, to |-> int]
Forward(s, pr, ip, int) ==
  [chain |-> "FORWARD", source |-> s, protocol |-> pr, dport |-> int,
   ip |-> ip, to |-> int]

\* manage_custom_iptables for one protocol of a port.
CustomRules(p, pr, ip) ==
  LET s == Normalize(p.source) IN
    << Dnat(s, pr, p.external, ip, p.internal), Forward(s, pr, ip, p.internal) >>

\* One call for each protocol of a port; "tcp/udp" makes two.
CallsFor(p, ip) ==
  [n \in 1..Len(p.protocols) |-> CustomRules(p, p.protocols[n], ip)]

CallsForAll(ps, ip) == FlattenSeq([n \in 1..Len(ps) |-> CallsFor(ps[n], ip)])

\* calculate_ports, and the records create_vm and restore_default_ports make.
DefaultPort(d, v) ==
  [vm |-> v.id, internal |-> d.internal, external |-> d.offset + v.vmid,
   protocols |-> d.protocols, source |-> Anywhere, is_default |-> TRUE]
DefaultPorts(v) == [n \in 1..Len(Defaults) |-> DefaultPort(Defaults[n], v)]

\* manage_iptables: all default ports in one call.
DefaultCall(v) == FlattenSeq(CallsForAll(DefaultPorts(v), v.ip))

PortsOf(v)  == {p \in ports : p.vm = v.id}
Externals   == {p.external : p \in ports}
-----------------------------------------------------------------------------
(* _run_iptables_commands.                                                  *)
Fault(k) == k \in Faults
SetAct(a, c) == act' = [act EXCEPT ![a] = c]

Copies(r, bag) == IF BagIn(r, bag) THEN bag[r] ELSE 0

\* The next call of an operation begins, or the operation ends; found: the
\* rules the call finds on the gateway.
Opened(c, found) ==
  IF c.calls = <<>> THEN [c EXCEPT !.phase = "end", !.before = EmptyBag]
  ELSE [c EXCEPT !.phase = IF c.op \in Adding THEN "check" ELSE "remove",
                 !.todo = Head(c.calls), !.calls = Tail(c.calls), !.ok = TRUE,
                 !.before = [r \in ToSet(Head(c.calls)) |-> Copies(r, found)]]

Returned(c, res, found) ==
  Opened([c EXCEPT !.ok = res, !.todo = <<>>, !.pending = <<>>, !.attempted = <<>>],
         found)

Begin(op, v, ps, calls) ==
  Opened([Idle EXCEPT !.op = op, !.vm = v, !.ports = ps, !.calls = calls], rules)

\* First every rule is inspected; the absent ones are to be added.
IsPending_Any(r) == TRUE
IsPending(r) == ~BagIn(r, rules)

Checked(c) ==
  LET r == Head(c.todo)
      pend == IF IsPending(r) THEN Append(c.pending, r) ELSE c.pending
      rest == [c EXCEPT !.todo = Tail(c.todo), !.pending = pend]
  IN IF Tail(c.todo) # <<>> THEN rest
     ELSE IF pend = <<>> THEN Returned(c, TRUE, rules)
     ELSE [rest EXCEPT !.phase = "add"]

CheckRule(a) ==
  /\ act[a].phase = "check"
  /\ \/ SetAct(a, Checked(act[a]))
     \/ Fault("check") /\ SetAct(a, Returned(act[a], FALSE, rules))
  /\ UNCHANGED <<vms, ports, rules>>

AddRule_EnlistAfter(a) ==
  LET c == act[a]
      r == Head(c.pending)
      tried == [c EXCEPT !.pending = Tail(@), !.attempted = Append(@, r)]
      added == rules (+) SetToBag({r})
  IN
  /\ c.phase = "add"
  /\ \/ /\ rules' = added
        /\ SetAct(a, IF tried.pending = <<>> THEN Returned(c, TRUE, added) ELSE tried)
     \/ /\ \/ Fault("refuse") /\ rules' = rules
           \/ Fault("lost") /\ rules' = added
        /\ SetAct(a, IF c.attempted = <<>> THEN Returned(c, FALSE, rules')
                     ELSE [c EXCEPT !.phase = "rollback"])
  /\ UNCHANGED <<vms, ports>>

\* A rule is enlisted for rollback before its -A is executed.
AddRule(a) ==
  LET c == act[a]
      r == Head(c.pending)
      tried == [c EXCEPT !.pending = Tail(@), !.attempted = Append(@, r)]
      added == rules (+) SetToBag({r})
  IN
  /\ c.phase = "add"
  /\ \/ /\ rules' = added
        /\ SetAct(a, IF tried.pending = <<>> THEN Returned(c, TRUE, added) ELSE tried)
     \/ /\ \/ Fault("refuse") /\ rules' = rules
           \/ Fault("lost") /\ rules' = added
        /\ SetAct(a, [tried EXCEPT !.phase = "rollback"])
  /\ UNCHANGED <<vms, ports>>

\* One guarded -D for every attempted rule, the last one first.
RollbackRule(a) ==
  LET c == act[a]
      left == Front(c.attempted)
  IN
  /\ c.phase = "rollback"
  /\ \/ rules' = rules (-) SetToBag({Last(c.attempted)})
     \/ Fault("rollback") /\ UNCHANGED rules
  /\ SetAct(a, IF left = <<>> THEN Returned(c, FALSE, rules')
               ELSE [c EXCEPT !.attempted = left])
  /\ UNCHANGED <<vms, ports>>

\* DELETE removes every copy of a rule.  A non-zero exit does not stop the
\* loop, an exception does.
RemoveCopies(a) ==
  LET c == act[a]
      After(ok, rest) == SetAct(a, IF rest = <<>> THEN Returned(c, ok, rules')
                                   ELSE [c EXCEPT !.todo = rest, !.ok = ok])
  IN
  /\ c.phase = "remove"
  /\ \/ /\ rules' = [r \in DOMAIN rules \ {Head(c.todo)} |-> rules[r]]
        /\ After(c.ok, Tail(c.todo))
     \/ /\ Fault("remove")
        /\ UNCHANGED rules
        /\ After(FALSE, Tail(c.todo)) \/ After(FALSE, <<>>)
  /\ UNCHANGED <<vms, ports>>

-----------------------------------------------------------------------------
(* The worker: create_vm reserves VMID, IP and default ports, forwards the  *)
(* ports, and marks the VM ready or cleans up.                              *)

\* A row's id, as far as it matters: not the id of a row anyone still uses.
Fresh(n) == /\ \A v \in vms : v.id # n
            /\ \A a \in Actors : act[a].vm.id # n
NewId == CHOOSE n \in 1..(Cardinality(vms) + 3) : Fresh(n)

ReserveVm(vmid, ip) ==
  LET v == [id |-> NewId, vmid |-> vmid, ip |-> ip, ready |-> FALSE] IN
  /\ act["worker"] = Idle
  /\ \A x \in vms : x.vmid # vmid /\ x.ip # ip
  /\ \A p \in ToSet(DefaultPorts(v)) : p.external \notin Externals
  /\ vms' = vms \cup {v}
  /\ ports' = ports \cup ToSet(DefaultPorts(v))
  /\ SetAct("worker", Begin("create", v, {}, <<DefaultCall(v)>>))
  /\ UNCHANGED rules

\* status.start raises for a VM that delete_vm has deleted from Proxmox.
Startable(v) ==
  v \in vms /\ ~(act["loop"].op = "delete_vm" /\ act["loop"].vm.id = v.id)

CreateEnd ==
  LET c == act["worker"] IN
  /\ c.op = "create" /\ c.phase = "end"
  /\ \/ /\ c.ok /\ Startable(c.vm)
        /\ vms' = (vms \ {c.vm}) \cup {[c.vm EXCEPT !.ready = TRUE]}
        /\ SetAct("worker", Idle)
     \/ /\ c.ok => Fault("create") \/ ~Startable(c.vm)
        /\ SetAct("worker", Begin("undo", c.vm, {},
                                  IF c.ok THEN <<DefaultCall(c.vm)>> ELSE <<>>))
        /\ UNCHANGED vms
  /\ UNCHANGED <<ports, rules>>

\* _cleanup_vm_db_record
UndoEnd ==
  LET c == act["worker"] IN
  /\ c.op = "undo" /\ c.phase = "end"
  /\ vms' = vms \ {c.vm}
  /\ ports' = ports \ PortsOf(c.vm)
  /\ SetAct("worker", Idle)
  /\ UNCHANGED rules

-----------------------------------------------------------------------------
(* The event loop.  The endpoints ask for the owner of the VM, not whether  *)
(* it is ready.                                                             *)
LoopFree(v) == act["loop"] = Idle /\ (v.ready \/ Early)
LoopAt(op)  == act["loop"].op = op /\ act["loop"].phase = "end"

\* add_custom_port commits the record first, so that nobody takes its port.
FreeExts_PastEnd == (CustomExts \cup {e + 1 : e \in CustomExts}) \ Externals
FreeExts == CustomExts \ Externals

AddPort(v, internal, protocol, source) ==
  /\ LoopFree(v)
  /\ Cardinality({p \in PortsOf(v) : ~p.is_default}) < MaxCustom
  /\ \E ext \in FreeExts :
       LET p == [vm |-> v.id, internal |-> internal, external |-> ext,
                 protocols |-> <<protocol>>, source |-> source,
                 is_default |-> FALSE]
       IN /\ ports' = ports \cup {p}
          /\ SetAct("loop", Begin("add", v, {p}, CallsFor(p, v.ip)))
  /\ UNCHANGED <<vms, rules>>

AddPortEnd_RowKept ==
  /\ LoopAt("add")
  /\ SetAct("loop", Idle)
  /\ UNCHANGED <<vms, ports, rules>>

AddPortEnd ==
  /\ LoopAt("add")
  /\ ports' = IF act["loop"].ok THEN ports ELSE ports \ act["loop"].ports
  /\ SetAct("loop", Idle)
  /\ UNCHANGED <<vms, rules>>

DeletePort(v, p) ==
  /\ LoopFree(v)
  /\ SetAct("loop", Begin("delete", v, {p}, CallsFor(p, v.ip)))
  /\ UNCHANGED <<vms, ports, rules>>

\* The record goes whether its rules could be removed or not.
DeletePortEnd ==
  /\ LoopAt("delete")
  /\ ports' = ports \ act["loop"].ports
  /\ SetAct("loop", Idle)
  /\ UNCHANGED <<vms, rules>>

\* restore_default_ports adds the records to its session and commits them
\* after all calls, whose results it only logs.
Missing(v) ==
  {d \in ToSet(DefaultPorts(v)) :
     \A p \in PortsOf(v) : p.is_default => p.internal # d.internal}

RestoreCalls(v) ==
  FlattenSeq([n \in 1..Len(Defaults) |->
                IF DefaultPorts(v)[n] \in Missing(v)
                THEN CallsFor(DefaultPorts(v)[n], v.ip) ELSE <<>>])

RestoreDefaults(v) ==
  /\ LoopFree(v)
  /\ Missing(v) # {}
  /\ \A p \in Missing(v) : p.external \notin Externals
  /\ SetAct("loop", Begin("restore", v, Missing(v), RestoreCalls(v)))
  /\ UNCHANGED <<vms, ports, rules>>

\* The COMMIT fails if the VM is gone or one of the ports was taken.
RestoreEnd ==
  LET c == act["loop"] IN
  /\ LoopAt("restore")
  /\ ports' = IF /\ \E v \in vms : v.id = c.vm.id
                 /\ \A p \in c.ports : p.external \notin Externals
              THEN ports \cup c.ports ELSE ports
  /\ SetAct("loop", Idle)
  /\ UNCHANGED <<vms, rules>>

\* delete_vm once Proxmox has deleted the VM: a call for each protocol of
\* each record, and the calculated default ports if no default record is left.
DeleteVmCalls(v) ==
  CallsForAll(SetToSeq(PortsOf(v)), v.ip)
    \o (IF \E p \in PortsOf(v) : p.is_default THEN <<>> ELSE <<DefaultCall(v)>>)

DeleteVm_RowsFirst(v) ==
  /\ LoopFree(v)
  /\ vms' = vms \ {v} /\ ports' = ports \ PortsOf(v)
  /\ SetAct("loop", Begin("delete_vm", v, {}, DeleteVmCalls(v)))
  /\ UNCHANGED rules

DeleteVm(v) ==
  /\ LoopFree(v)
  /\ SetAct("loop", Begin("delete_vm", v, {}, DeleteVmCalls(v)))
  /\ UNCHANGED <<vms, ports, rules>>

DeleteVmEnd ==
  LET v == act["loop"].vm IN
  /\ LoopAt("delete_vm")
  /\ vms' = {x \in vms : x.id # v.id}
  /\ ports' = ports \ PortsOf(v)
  /\ SetAct("loop", Idle)
  /\ UNCHANGED rules

Command(a) == CheckRule(a) \/ AddRule(a) \/ RollbackRule(a) \/ RemoveCopies(a)

WorkerStep ==
  \/ \E vmid \in Vmids, ip \in Ips : ReserveVm(vmid, ip)
  \/ CreateEnd \/ UndoEnd

LoopStep ==
  \/ \E v \in vms :
       \/ \E i \in Internals, pr \in Protocols, s \in Sources :
            AddPort(v, i, pr, s)
       \/ \E p \in PortsOf(v) : DeletePort(v, p)
       \/ RestoreDefaults(v)
       \/ DeleteVm(v)
  \/ AddPortEnd \/ DeletePortEnd \/ RestoreEnd \/ DeleteVmEnd

Next == WorkerStep \/ LoopStep \/ \E a \in Actors : Command(a)

Spec == Init /\ [][Next]_vars
-----------------------------------------------------------------------------
(* Properties.                                                              *)

\* Every rule on the gateway belongs to a port record of a VM that exists,
\* or to a record restore_default_ports is about to commit: whatever fails
\* and whichever ports share a rule, nothing stays open that no record shows.
RulesBacked ==
  \A r \in BagToSet(rules) : \E v \in vms :
    \E p \in ports \cup act["loop"].ports :
      p.vm = v.id /\ r \in ToSet(FlattenSeq(CallsFor(p, v.ip)))

\* An external port never leads to two VMs: external ports and internal IPs
\* are given away again, and the rules of their former owner are removed by
\* one actor while the other adds those of the next.
OneTarget ==
  \A r, s \in BagToSet(rules) :
    /\ r.chain = "PREROUTING" /\ s.chain = "PREROUTING"
    /\ r.dport = s.dport /\ r.protocol = s.protocol
    => r.ip = s.ip /\ r.to = s.to

\* The rollback of a failed call puts its rules back as the call found them,
\* also when a -A was executed although the call raised, and when a rule
\* was there before, for another port (_run_iptables_commands' docstring).
RollbackRestores ==
  [][\A a \in Actors :
       act[a].phase = "rollback" /\ act'[a].phase # "rollback" =>
         \A r \in DOMAIN act[a].before : Copies(r, rules') = act[a].before[r]]_vars

\* A custom port the event loop is not working on has its DNAT rules, for as
\* long as its VM is not being deleted: a record whose rules could not be
\* added is gone, and no other call takes its rules away.
CustomPortServed ==
  \A v \in vms : \A p \in PortsOf(v) \ act["loop"].ports :
    ~p.is_default /\ ~(act["loop"].op = "delete_vm" /\ act["loop"].vm.id = v.id) =>
      \A n \in DOMAIN p.protocols :
        BagIn(CustomRules(p, p.protocols[n], v.ip)[1], rules)
=============================================================================
