--------------------------- MODULE MCConnections ---------------------------
(* Connections for TLC. *)
EXTENDS Connections, TLC

\* Peers' addresses are interchangeable.
SocketSymmetry == Permutations(Sockets)
=============================================================================
