---------------------------- MODULE MCLiveQuery ----------------------------
(***************************************************************************)
(* Small instances of a live query for TLC.  A run takes the union of      *)
(* several mixes of changes and failures, each small where another is not. *)
(***************************************************************************)
EXTENDS LiveQuery

Quiet == [gens |-> 2, rows |-> 1, epochs |-> 0, faults |-> 0, moves |-> FALSE, slow |-> FALSE]

\* A change with a fault, two changes, two faults, a slow call with a fault,
\* a movement, one with a fault, two epochs, an epoch with a fault, an epoch during a movement.
MCSafety == {[Quiet EXCEPT !.rows = 2, !.faults = 1],
             [Quiet EXCEPT !.rows = 3],
             [Quiet EXCEPT !.faults = 2],
             [Quiet EXCEPT !.faults = 1, !.slow = TRUE],
             [Quiet EXCEPT !.moves = TRUE],
             [Quiet EXCEPT !.gens = 1, !.faults = 1, !.moves = TRUE],
             [Quiet EXCEPT !.gens = 1, !.epochs = 2],
             [Quiet EXCEPT !.gens = 1, !.epochs = 1, !.faults = 1],
             [Quiet EXCEPT !.gens = 1, !.epochs = 1, !.moves = TRUE]}
\* A fault, a change during a movement, a change with an epoch.
MCEnds == {[Quiet EXCEPT !.faults = 1],
           [Quiet EXCEPT !.rows = 2, !.moves = TRUE],
           [Quiet EXCEPT !.rows = 2, !.epochs = 1]}
MCSlow == {[Quiet EXCEPT !.slow = TRUE]}
=============================================================================
