---------------------------- MODULE MCResharder ------------------------------
(***************************************************************************)
(* Small instances of the range movement for TLC: up to three mutations of *)
(* the same row, upserts and a delete.  A run is the union of several      *)
(* mixes, each a restriction of the environment: which mutations clients   *)
(* submit, whether someone aborts, how many failures there are, and which  *)
(* requests may still execute after their caller is gone.                  *)
(***************************************************************************)
EXTENDS Resharder, TLC

CONSTANTS m1, m2, m3, Mixes

VARIABLE mix

\* All mutations are of the last row: of the second of two pages, or of the only one.
MCMutKey == [m \in Muts |-> NKeys]

\* Every RPC that changes its callee.
MCAllRpcs == Rpcs \ {"readTailBatch", "bulkCopyBatch", "readStagedTailBatch"}
\* Those for which a lost answer is not repaired by repeating the call.
MCUnrepeatable == {"stageTailBatch", "applySplitOpLogBatch", "closeTailStaging"}
\* Those after the preparation of both sides.
MCMovingRpcs == MCAllRpcs \ {"prepareReshardDestOwnership", "provisionFreshReshardDestination",
                             "beginReshardDest", "beginReshardSource"}
\* Those of the abort.
MCUndoRpcs == {RpcAt[w] : w \in Undoing}

Mix(muts, aborts, flts, lossy) ==
    [muts |-> muts, aborts |-> aborts, faults |-> flts, lossy |-> lossy]

\* A failure anywhere after the preparation, two with one mutation or of the calls that
\* cannot be repeated; more mutations than the inbox and the log hold; an abort in every
\* phase, with a failure of a call that undoes or that cannot be repeated.
MCSafety == {Mix({m2, m3}, FALSE, 1, MCMovingRpcs),
             Mix({m3}, FALSE, 2, MCMovingRpcs),
             Mix({m2, m3}, FALSE, 2, MCUnrepeatable),
             Mix({m1, m2, m3}, FALSE, 0, {}),
             Mix({m1}, TRUE, 1, MCUndoRpcs \cup MCUnrepeatable)}
\* A split and an abort, with a failure each.
MCEnds == {Mix({m1, m2}, FALSE, 1, MCAllRpcs \ MCUnrepeatable),
           Mix({}, TRUE, 1, MCUndoRpcs)}

\* An answer is lost for good.
MCLost == {Mix({m1, m2}, FALSE, 1, MCUnrepeatable)}

Allowed ==
    /\ faults' <= mix.faults
    /\ {r.rpc : r \in late'} \subseteq mix.lossy
    /\ faults' > faults => \/ run' = NoRun /\ abt' = "idle" /\ ensured' = {}
                           \/ \A p \in Procs : At(p) # At(p)' => RpcAt[At(p)] \in mix.lossy
    /\ phase' = ABORTING => phase = ABORTING \/ mix.aborts
    /\ {srcOps'[i] : i \in DOMAIN srcOps'} \cup dstOps' \subseteq mix.muts

MCVars == <<mix, vars>>
MCInit == Init /\ mix \in Mixes
MCSpec == MCInit /\ [][Next /\ Allowed /\ UNCHANGED mix]_MCVars
MCFairSpec == MCSpec /\ WF_vars(RunStep) /\ WF_vars(AbortStep)
=============================================================================
