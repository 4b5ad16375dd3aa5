-------------------------- MODULE MCStateBroadcast --------------------------
(* StateBroadcast for TLC.  Setters are interchangeable, clients as well.  *)
EXTENDS StateBroadcast, TLC

Symmetry == Permutations(Setters) \cup Permutations(Clients)

=============================================================================
