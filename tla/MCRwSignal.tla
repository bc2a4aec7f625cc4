----------------------------- MODULE MCRwSignal -----------------------------
(* Instances of RwSignal for TLC. *)
EXTENDS RwSignal, TLC

CONSTANTS a, b, c

MCThreads2 == {a, b}
MCThreads3 == {a, b, c}

\* Senders on the write_singal_ptr of one connection.
MCAllWriters == [t \in {a, b, c} |-> {Writer}]
\* A lookup thread and the event thread that accepts connections.
MCReaderWriter == (a :> {Reader}) @@ (b :> {Writer})
MCSymmetry3 == Permutations(MCThreads3)
=============================================================================
