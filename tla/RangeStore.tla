----------------------------- MODULE RangeStore ------------------------------
(***************************************************************************)
(* What clients of a moved vshard range are promised, whatever Cdb holds   *)
(* it: one store that runs every mutation id at most once and never loses  *)
(* the effect of one it ran.  The store may be closed for a while (the     *)
(* routing fence) and opened again.                                        *)
(***************************************************************************)
EXTENDS ReshardData

VARIABLES
    store,  \* the rows of the range
    done,   \* the mutation ids whose outcome is recorded
    open    \* some Cdb admits mutations of the range

Init ==
    /\ store = NoRows
    /\ done = {}
    /\ open = TRUE

\* A mutation id runs only once; a repeated one is answered from its outcome.
Execute(m) ==
    /\ open
    /\ m \notin done
    /\ store' = Write(store, m)
    /\ done' = done \cup {m}
    /\ UNCHANGED open

Fence ==
    /\ open
    /\ open' = FALSE
    /\ UNCHANGED <<store, done>>

Reopen ==
    /\ ~open
    /\ open' = TRUE
    /\ UNCHANGED <<store, done>>

Next ==
    \/ \E m \in Muts : Execute(m)
    \/ Fence
    \/ Reopen

Spec == Init /\ [][Next]_<<store, done, open>>

=============================================================================
