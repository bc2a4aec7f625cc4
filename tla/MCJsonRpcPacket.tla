-------------------------- MODULE MCJsonRpcPacket ---------------------------
(* Small instances of JsonRpcPacket for TLC. *)
EXTENDS JsonRpcPacket

\* A short value, and a structure with room for two pointers.
MCValues == {<<1>>, [i \in 1 .. 17 |-> 2]}
MCNoteValues == {<<3, 4>>}
MCSpare == {-1, 0}
=============================================================================
