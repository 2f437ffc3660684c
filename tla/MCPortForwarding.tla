-------------------------- MODULE MCPortForwarding --------------------------
(* The small instance of PortForwarding that TLC checks: two VMs, a default  *)
(* port of one protocol and one of both, custom ports that may share the     *)
(* FORWARD rule of a default port.                                           *)
EXTENDS PortForwarding

MCDefaults == << [internal |-> 22, protocols |-> <<"tcp">>, offset |-> 1000],
                 [internal |-> 10000, protocols |-> <<"tcp", "udp">>, offset |-> 2000] >>
MCTcpDefault == << [internal |-> 22, protocols |-> <<"tcp">>, offset |-> 1000] >>
MCOneDefault == << [internal |-> 22, protocols |-> <<"tcp", "udp">>, offset |-> 1000] >>
=============================================================================
