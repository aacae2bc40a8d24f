-------------------------- MODULE MCBacklogServices --------------------------
(* Instances of BacklogServices for TLC.  Entities, names, nonces and update *)
(* ids are only ever compared with each other, so each is a symmetry set.    *)
EXTENDS BacklogServices, TLC

Symmetry ==
    Permutations(ProjectIds) \union Permutations(ItemIds) \union Permutations(Names)
        \union Permutations(Nonces) \union Permutations(Updates)
=============================================================================
