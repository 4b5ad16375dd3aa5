----------------------------- MODULE MCModuleProp -----------------------------
(* ModuleProp for TLC.  Callers are interchangeable, and so are tunnels.    *)
EXTENDS ModuleProp, TLC

Symmetry == Permutations(Callers) \cup Permutations(Tunnels)

=============================================================================
