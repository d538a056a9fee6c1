-------------------------- MODULE MCCatalogTopology --------------------------
(***************************************************************************)
(* Three migrations over three vshards and three shards: nested splits,    *)
(* moves of a moved range and moves back are all reachable.                *)
(***************************************************************************)
EXTENDS CatalogTopology, TLC

CONSTANTS s0, s1, s2, g1, g2, g3

\* Migration ids and the shards that own nothing at first are alike.
Alike == Permutations({g1, g2, g3}) \cup Permutations({s1, s2})
=============================================================================
