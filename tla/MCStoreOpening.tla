--------------------------- MODULE MCStoreOpening ---------------------------
(***************************************************************************)
(* No catalog, one of this build, one of a build with the same version and *)
(* another schema, and two of a newer build.                               *)
(***************************************************************************)
EXTENDS StoreOpeningProofs, TLC

CONSTANTS sum, otherSum

MCCatalogs ==
    {{<<1, sum>>}, {<<1, otherSum>>}, {<<2, otherSum>>},
     {<<1, sum>>, <<2, otherSum>>}}

Symmetry == Permutations(Procs) \union Permutations(Files)
=============================================================================
