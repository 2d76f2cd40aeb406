--------------------------- MODULE MCConnections ---------------------------
(* Instances of Connections for TLC. *)
EXTENDS Connections, TLC

\* Connection objects and maintenance threads are interchangeable; for runs
\* without liveness.
Interchangeable == Permutations(Conns) \union Permutations(Maints)
=============================================================================
