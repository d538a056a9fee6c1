------------------------------- MODULE CdbDest -------------------------------
(***************************************************************************)
(* The destination Cdb of a range movement: the rows and op-log outcomes   *)
(* it receives, the cursors that make every apply repeatable, the staged   *)
(* tail inbox, and the ownership flag that lets it serve the moved range   *)
(* (cdb-reshard-runtime.ts, cdb-split-oplog-store.ts).                     *)
(*                                                                         *)
(* Every RPC runs in one transactionSync, so each is one atomic action.    *)
(* XOk is the conjunction of the checks after which handler X no longer    *)
(* throws; X is its whole effect on the destination.                       *)
(***************************************************************************)
EXTENDS ReshardData

CONSTANTS
    StagedBatch,  \* entries one readStagedTailBatch returns (500 in the code)
    InboxMax      \* entries the staged tail inbox may hold

ASSUME DestAssumption ==
    /\ StagedBatch \in Nat \ {0}
    /\ InboxMax \in Nat \ {0}

VARIABLES
    dst,          \* _chardb_split_state of the destination role
    prov,         \* the migration's schema is provisioned
    serving,      \* destination_serving
    bulkDone,     \* bulk_done
    inboxClosed,  \* inbox_closed
    staged,       \* staged_lsn
    applied,      \* applied_lsn
    inbox,        \* _chardb_split_tail_inbox: the last entries up to staged
    dstRows,      \* domain rows of the range
    dstOps,       \* _chardb_op_log of the range
    opApplied,    \* applied_lsn of _chardb_split_oplog_cursor
    opMine,       \* _chardb_split_oplog_applied rows with inserted = 1
    abortPos      \* after_rowid of the abort's _chardb_split_drop_cursor

dstCopy == <<bulkDone, inboxClosed, staged, applied, inbox, opApplied, opMine>>
dstVars == <<dst, prov, serving, dstCopy, dstRows, dstOps, abortPos>>

\* "prepared": ownership row without a bound identity; "live": begun;
\* "aborting": abort_started = 1; "aborted": also drained, or a tombstone;
\* "done": drained after success.
DstStates == {"none", "prepared", "live", "aborting", "aborted", "done"}

DstTypeOK ==
    /\ dst \in DstStates
    /\ prov \in BOOLEAN
    /\ serving \in BOOLEAN
    /\ bulkDone \in BOOLEAN
    /\ inboxClosed \in BOOLEAN
    /\ staged \in Nat
    /\ applied \in Nat
    /\ inbox \in Seq(Muts)
    /\ dstRows \in Rows
    /\ dstOps \in SUBSET Muts
    /\ opApplied \in Nat
    /\ opMine \in SUBSET Muts
    /\ abortPos \in 0..NKeys

DstInit ==
    /\ dst = "none"
    /\ prov = FALSE
    /\ serving = FALSE
    /\ bulkDone = FALSE
    /\ inboxClosed = FALSE
    /\ staged = 0
    /\ applied = 0
    /\ inbox = <<>>
    /\ dstRows = NoRows
    /\ dstOps = {}
    /\ opApplied = 0
    /\ opMine = {}
    /\ abortPos = 0

-----------------------------------------------------------------------------
(* Ownership.                                                              *)

\* assertRoutingAdmission for a request routed at the cutover generation.
DestAdmits == serving

\* Run mutation m for the first time on the serving destination.
DestMutate(m) ==
    /\ DestAdmits
    /\ m \notin dstOps
    /\ dstRows' = Write(dstRows, m)
    /\ dstOps' = dstOps \cup {m}
    /\ UNCHANGED <<dst, prov, serving, dstCopy, abortPos>>

PrepareReshardDestOwnershipOk == dst \notin {"aborting", "aborted"}

PrepareReshardDestOwnership ==
    /\ dst' = IF dst = "none" THEN "prepared" ELSE dst
    /\ UNCHANGED <<prov, serving, dstCopy, dstRows, dstOps, abortPos>>

ProvisionFreshReshardDestinationOk ==
    /\ dst \in {"prepared", "live"}
    /\ ~serving

ProvisionFreshReshardDestination ==
    /\ prov' = TRUE
    /\ UNCHANGED <<dst, serving, dstCopy, dstRows, dstOps, abortPos>>

\* The range must still be empty, also when the begin is repeated.
BeginReshardDestOk ==
    /\ prov
    /\ dst \in {"none", "prepared", "live"}
    /\ ~serving
    /\ dstRows = NoRows

BeginReshardDest ==
    /\ dst' = "live"
    /\ UNCHANGED <<prov, serving, dstCopy, dstRows, dstOps, abortPos>>

ActivateReshardDestServingOk == dst \in {"live", "done"}

ActivateReshardDestServing ==
    /\ serving' = TRUE
    /\ UNCHANGED <<dst, prov, dstCopy, dstRows, dstOps, abortPos>>

-----------------------------------------------------------------------------
(* Bulk copy and tail.                                                     *)

\* Mutant: an aborted movement still accepts copied data.
DestMovingAborted == dst \in {"live", "aborting", "aborted"}

\* assertReshardMovement for the destination role.
DestMoving == dst = "live"

\* Mutant: bulk_done is not checked.
ApplyBulkBatchOkLate == DestMoving

ApplyBulkBatchOk == DestMoving /\ ~bulkDone

\* One copied row image is upserted; a page without rows is never sent.
ApplyBulkBatch(k, v) ==
    /\ dstRows' = [dstRows EXCEPT ![k] = v]
    /\ UNCHANGED <<dst, prov, serving, dstCopy, dstOps, abortPos>>

CloseReshardBulkDest ==
    /\ bulkDone' = TRUE
    /\ UNCHANGED <<dst, prov, serving, inboxClosed, staged, applied, inbox,
                   opApplied, opMine, dstRows, dstOps, abortPos>>

\* A batch at or below staged_lsn repeats a staged one.
StagedAlready(b) == BatchLast(b) <= staged

StagingOpen == DestMoving /\ ~inboxClosed

\* CDB_RATE_LIMITED, the one error the driver survives.
StageRateLimited(b) ==
    /\ StagingOpen
    /\ ~StagedAlready(b)
    /\ staged <= b.lo
    /\ Len(inbox) + Len(b.ents) > InboxMax

StageTailBatchOk(b) ==
    /\ StagingOpen
    /\ \/ StagedAlready(b)
       \/ /\ staged <= b.lo
          /\ Len(inbox) + Len(b.ents) <= InboxMax

StageTailBatch(b) ==
    /\ IF StagedAlready(b)
         THEN UNCHANGED <<staged, inbox>>
         ELSE /\ staged' = BatchLast(b)
              /\ inbox' = inbox \o b.ents
    /\ UNCHANGED <<dst, prov, serving, bulkDone, inboxClosed, applied,
                   opApplied, opMine, dstRows, dstOps, abortPos>>

ReadStagedTailBatch ==
    Batch(staged - Len(inbox),
          SubSeq(inbox, 1, IF Len(inbox) < StagedBatch THEN Len(inbox)
                                                       ELSE StagedBatch))

AckStagedTailOk(through) == DestMoving /\ through <= applied

\* The inbox rows with an LSN at or below through are removed.
AckStagedTail(through) ==
    /\ LET gone == through - (staged - Len(inbox)) IN
       inbox' = IF gone <= 0 THEN inbox ELSE SubSeq(inbox, gone + 1, Len(inbox))
    /\ UNCHANGED <<dst, prov, serving, bulkDone, inboxClosed, staged, applied,
                   opApplied, opMine, dstRows, dstOps, abortPos>>

CloseTailStagingOk == DestMoving /\ inbox = <<>>

CloseTailStaging ==
    /\ inboxClosed' = TRUE
    /\ UNCHANGED <<dst, prov, serving, bulkDone, staged, applied, inbox,
                   opApplied, opMine, dstRows, dstOps, abortPos>>

\* Mutant: applied_lsn follows the last request, not the highest.
ApplyTailBatchBack(b) ==
    /\ dstRows' = Replay(dstRows, BatchAbove(b, applied))
    /\ applied' = BatchLast(b)
    /\ UNCHANGED <<dst, prov, serving, bulkDone, inboxClosed, staged, inbox,
                   opApplied, opMine, dstOps, abortPos>>

\* Entries at or below applied_lsn are skipped, the others are replayed.
ApplyTailBatch(b) ==
    /\ dstRows' = Replay(dstRows, BatchAbove(b, applied))
    /\ applied' = IF BatchLast(b) > applied THEN BatchLast(b) ELSE applied
    /\ UNCHANGED <<dst, prov, serving, bulkDone, inboxClosed, staged, inbox,
                   opApplied, opMine, dstOps, abortPos>>

-----------------------------------------------------------------------------
(* Op-log outcomes.                                                        *)

\* A batch is all replayed or all new; one that crosses the cursor throws.
ApplySplitOpLogBatchOk(b) ==
    /\ DestMoving
    /\ BatchLast(b) <= opApplied \/ opApplied <= b.lo

ApplySplitOpLogBatch(b) ==
    /\ LET ops == {b.ents[i] : i \in DOMAIN b.ents} IN
       /\ opMine' = opMine \cup (ops \ dstOps)
       /\ dstOps' = dstOps \cup ops
    /\ opApplied' = IF BatchLast(b) > opApplied THEN BatchLast(b) ELSE opApplied
    /\ UNCHANGED <<dst, prov, serving, bulkDone, inboxClosed, staged, applied,
                   inbox, dstRows, abortPos>>

-----------------------------------------------------------------------------
(* Abort and finish.                                                       *)

BeginReshardDestAbortOk == ~serving

\* Without a bound identity the abort is complete at once: a prepared row
\* becomes drained, a missing one a drained tombstone.
BeginReshardDestAbort ==
    /\ dst' = CASE dst \in {"none", "prepared"} -> "aborted"
                [] dst = "live" -> "aborting"
                [] OTHER -> dst
    /\ bulkDone' = (bulkDone \/ dst \in {"prepared", "live"})
    /\ UNCHANGED <<prov, serving, inboxClosed, staged, applied, inbox, opApplied,
                   opMine, dstRows, dstOps, abortPos>>

\* Mutant: a completed abort is not answered again.
AbortReshardDestBatchOnce == dst = "aborting"

AbortReshardDestBatchOk == dst \in {"aborting", "aborted", "done"}

\* Mutant: a repeated last batch answers that there is more to delete.
AbortReshardDestNever == dst = "aborting" /\ abortPos = NKeys

\* The reply of abortReshardDestBatch.
AbortReshardDestDone == dst # "aborting" \/ abortPos = NKeys

\* finishReshardDest and the last abort batch release the transfer state.
ReleaseTransferState ==
    /\ inboxClosed' = TRUE
    /\ inbox' = <<>>
    /\ opApplied' = 0
    /\ opMine' = {}
    /\ abortPos' = 0

\* One page of copied rows is deleted; after the last page the op-log rows
\* this migration inserted are.
AbortReshardDestBatch ==
    /\ IF dst # "aborting" THEN UNCHANGED dstVars
       ELSE IF abortPos < NKeys
         THEN /\ dstRows' = [dstRows EXCEPT ![abortPos + 1] = NoRow]
              /\ abortPos' = abortPos + 1
              /\ UNCHANGED <<dst, dstCopy, dstOps>>
         ELSE /\ dst' = "aborted"
              /\ dstOps' = dstOps \ opMine
              /\ ReleaseTransferState
              /\ UNCHANGED <<bulkDone, staged, applied, dstRows>>
    /\ UNCHANGED <<prov, serving>>

FinishReshardDestOk == serving /\ dst \in {"live", "done"}

FinishReshardDest ==
    /\ dst' = "done"
    /\ ReleaseTransferState
    /\ UNCHANGED <<prov, serving, bulkDone, staged, applied, dstRows, dstOps>>

-----------------------------------------------------------------------------
(* The RPC surface: a request names its handler and carries a batch b, a    *)
(* cursor or row number n and a row image v where the handler takes one.   *)

DestRpcs ==
    {"prepareReshardDestOwnership", "provisionFreshReshardDestination",
     "beginReshardDest", "applyBulkBatch", "closeReshardBulkDest",
     "stageTailBatch", "readStagedTailBatch", "ackStagedTail",
     "closeTailStaging", "applyTailBatch", "applySplitOpLogBatch",
     "activateReshardDestServing", "beginReshardDestAbort",
     "abortReshardDestBatch", "finishReshardDest"}

DestAccepts(r) ==
    \/ r.rpc \in {"closeReshardBulkDest", "readStagedTailBatch",
                  "applyTailBatch"} /\ DestMoving
    \/ r.rpc = "prepareReshardDestOwnership" /\ PrepareReshardDestOwnershipOk
    \/ r.rpc = "provisionFreshReshardDestination" /\ ProvisionFreshReshardDestinationOk
    \/ r.rpc = "beginReshardDest" /\ BeginReshardDestOk
    \/ r.rpc = "applyBulkBatch" /\ ApplyBulkBatchOk
    \/ r.rpc = "stageTailBatch" /\ StageTailBatchOk(r.b)
    \/ r.rpc = "ackStagedTail" /\ AckStagedTailOk(r.n)
    \/ r.rpc = "closeTailStaging" /\ CloseTailStagingOk
    \/ r.rpc = "applySplitOpLogBatch" /\ ApplySplitOpLogBatchOk(r.b)
    \/ r.rpc = "activateReshardDestServing" /\ ActivateReshardDestServingOk
    \/ r.rpc = "beginReshardDestAbort" /\ BeginReshardDestAbortOk
    \/ r.rpc = "abortReshardDestBatch" /\ AbortReshardDestBatchOk
    \/ r.rpc = "finishReshardDest" /\ FinishReshardDestOk

DestServes(r) ==
    \/ r.rpc = "prepareReshardDestOwnership" /\ PrepareReshardDestOwnership
    \/ r.rpc = "provisionFreshReshardDestination" /\ ProvisionFreshReshardDestination
    \/ r.rpc = "beginReshardDest" /\ BeginReshardDest
    \/ r.rpc = "applyBulkBatch" /\ ApplyBulkBatch(r.n, r.v)
    \/ r.rpc = "closeReshardBulkDest" /\ CloseReshardBulkDest
    \/ r.rpc = "stageTailBatch" /\ StageTailBatch(r.b)
    \/ r.rpc = "readStagedTailBatch" /\ UNCHANGED dstVars
    \/ r.rpc = "ackStagedTail" /\ AckStagedTail(r.n)
    \/ r.rpc = "closeTailStaging" /\ CloseTailStaging
    \/ r.rpc = "applyTailBatch" /\ ApplyTailBatch(r.b)
    \/ r.rpc = "applySplitOpLogBatch" /\ ApplySplitOpLogBatch(r.b)
    \/ r.rpc = "activateReshardDestServing" /\ ActivateReshardDestServing
    \/ r.rpc = "beginReshardDestAbort" /\ BeginReshardDestAbort
    \/ r.rpc = "abortReshardDestBatch" /\ AbortReshardDestBatch
    \/ r.rpc = "finishReshardDest" /\ FinishReshardDest

=============================================================================
