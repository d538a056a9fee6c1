---------------------------- MODULE MCStartIntent ----------------------------
(***************************************************************************)
(* Small instances of split starts and cancellations for TLC.              *)
(***************************************************************************)
EXTENDS StartIntent, TLC

CONSTANTS g1, g2, g3

\* Migration ids are interchangeable.
Alike == Permutations(Migs)
=============================================================================
