--------------------------- MODULE MCConnections ----------------------------
(* Small instances of Connections for TLC. *)
EXTENDS Connections

\* Two hosts that listen on the same port, as the groups of a configuration do.
HostA == [ip |-> "a", port |-> 8080]
HostB == [ip |-> "b", port |-> 8080]
MCPeers == {HostA, HostB}

\* 36895 is 8080 with its bytes exchanged, so that the connection from HostA is stored
\* under the port that a lookup asks for; 40000 is like most ports.
MCSources == {[peer |-> HostA, port |-> 36895], [peer |-> HostB, port |-> 40000]}
=============================================================================
