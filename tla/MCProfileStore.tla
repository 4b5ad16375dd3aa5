--------------------------- MODULE MCProfileStore ---------------------------
(* ProfileStore for TLC.  Requests, starters and ids are interchangeable.   *)
EXTENDS ProfileStore

Symmetry ==
    Permutations(Handlers) \cup Permutations(Starters) \cup Permutations(Ids)

=============================================================================
