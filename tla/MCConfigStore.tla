---------------------------- MODULE MCConfigStore ----------------------------
(* ConfigStore for TLC.  Requests, inodes and values are interchangeable.   *)
EXTENDS ConfigStore, TLC

Symmetry ==
    Permutations(Handlers) \cup Permutations(Inodes) \cup Permutations(Values)

=============================================================================
