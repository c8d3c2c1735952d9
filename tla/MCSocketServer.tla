--------------------------- MODULE MCSocketServer ---------------------------
(***************************************************************************)
(* Small instances of SocketServer for TLC.                                *)
(***************************************************************************)
EXTENDS SocketServer, TLC

(* Connections, threads and samples are interchangeable in safety runs.    *)
Symmetry == Permutations(Conns) \cup Permutations(Threads)
              \cup Permutations(Values)
=============================================================================
