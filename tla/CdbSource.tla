------------------------------ MODULE CdbSource ------------------------------
(***************************************************************************)
(* The source Cdb of a range movement: its rows and op-log, the routing    *)
(* fence that stops writes to the moved range, and the capture state the   *)
(* Resharder's RPCs read and advance (cdb-reshard-runtime.ts,              *)
(* cdb-routing-fence-store.ts, cdb-split-oplog-store.ts).                  *)
(*                                                                         *)
(* Every RPC runs in one transactionSync, so each is one atomic action.    *)
(* XOk is the conjunction of the checks after which handler X no longer    *)
(* throws; X is its whole effect on the source.                            *)
(***************************************************************************)
EXTENDS ReshardData

CONSTANTS
    TailBatch,    \* rows one tail or op-log read returns (500 and 64 in the code)
    SplitLogMax   \* retained capture rows before writes are refused

ASSUME SourceAssumption ==
    /\ TailBatch \in Nat \ {0}
    /\ SplitLogMax \in Nat \ {0}

VARIABLES
    src,        \* _chardb_split_state of the source role
    fence,      \* status of this migration's _chardb_routing_fences row
    srcRows,    \* domain rows of the range
    srcOps,     \* _chardb_op_log of the range, in event_id order
    watermark,  \* rows whose rowid is at most _chardb_split_bulk_watermark
    tailLog,    \* every entry captured into _chardb_split_log, by LSN
    tailAcked,  \* acked_lsn: the entries up to it are pruned
    opLog,      \* every outcome captured into _chardb_split_oplog, by LSN
    opAcked,    \* acked_lsn of _chardb_split_oplog_accounting
    seedAfter,  \* seed_after_event_id
    seedMax,    \* seed_max_event_id
    dropPos     \* after_rowid of _chardb_split_drop_cursor

srcCopy == <<watermark, tailLog, tailAcked, opLog, opAcked, seedAfter, seedMax>>
srcVars == <<src, fence, srcRows, srcOps, srcCopy, dropPos>>

\* "none": no split_state row; "capturing": capture = 1; "draining":
\* drain_started = 1; "drained": finished, aborted or an abort tombstone.
SrcStates   == {"none", "capturing", "draining", "drained"}
FenceStates == {"none", "prepared", "active", "cleaned", "superseded"}

SrcTypeOK ==
    /\ src \in SrcStates
    /\ fence \in FenceStates
    /\ srcRows \in Rows
    /\ srcOps \in Seq(Muts)
    /\ watermark \in SUBSET Keys
    /\ tailLog \in Seq(Muts)
    /\ tailAcked \in Nat
    /\ opLog \in Seq(Muts)
    /\ opAcked \in Nat
    /\ seedAfter \in Nat
    /\ seedMax \in Nat
    /\ dropPos \in 0..NKeys

SrcInit ==
    /\ src = "none"
    /\ fence = "none"
    /\ srcRows = NoRows
    /\ srcOps = <<>>
    /\ watermark = {}
    /\ tailLog = <<>>
    /\ tailAcked = 0
    /\ opLog = <<>>
    /\ opAcked = 0
    /\ seedAfter = 0
    /\ seedMax = 0
    /\ dropPos = 0

Ran(ops, m) == \E i \in DOMAIN ops : ops[i] = m

-----------------------------------------------------------------------------
(* Mutations.                                                              *)

\* Mutant: a fence whose cleanup completed no longer rejects.
SourceAdmitsAfterCleanup == fence # "active"

\* assertMutationAdmission for a request routed at the source generation.
SourceAdmits == fence \notin {"active", "cleaned"}

Capturing == src = "capturing"

\* The capture trigger aborts the write when _chardb_split_log is full, and
\* captureEncodedForMigration when _chardb_split_oplog is.
CaptureHasRoom ==
    Capturing => /\ Len(tailLog) - tailAcked < SplitLogMax
                 /\ Len(opLog) - opAcked < SplitLogMax

\* Run mutation m for the first time: op-log row, domain write and both
\* captures commit together.  A row that is inserted again may reuse a rowid
\* under the bulk watermark or take a new one above it.
SourceMutate(m) ==
    /\ SourceAdmits
    /\ ~Ran(srcOps, m)
    /\ CaptureHasRoom
    /\ srcRows' = Write(srcRows, m)
    /\ srcOps' = Append(srcOps, m)
    /\ \E low \in BOOLEAN :
          LET k == MutKey[m] IN
          watermark' = IF ~Capturing THEN watermark
                       ELSE IF m \in Deletes THEN watermark \ {k}
                       ELSE IF srcRows[k] # NoRow THEN watermark
                       ELSE IF low THEN watermark \cup {k} ELSE watermark
    /\ tailLog' = IF Capturing THEN Append(tailLog, m) ELSE tailLog
    /\ opLog'   = IF Capturing THEN Append(opLog, m) ELSE opLog
    /\ UNCHANGED <<src, fence, tailAcked, opAcked, seedAfter, seedMax, dropPos>>

-----------------------------------------------------------------------------
(* Capture.                                                                *)

\* assertReshardMovement for the source role.
SourceMoving == src \in {"capturing", "draining"}

BeginReshardSourceOk == src # "drained"

\* The bulk watermark and the op-log seed are taken by the first begin only;
\* a repeated begin after the drain started changes nothing.
BeginReshardSource ==
    /\ src' = IF src = "none" THEN "capturing" ELSE src
    /\ IF src = "none"
         THEN /\ watermark' = {k \in Keys : srcRows[k] # NoRow}
              /\ seedMax' = Len(srcOps)
         ELSE UNCHANGED <<watermark, seedMax>>
    /\ UNCHANGED <<fence, srcRows, srcOps, tailLog, tailAcked, opLog, opAcked,
                   seedAfter, dropPos>>

\* The page of one row at bulk position pos + 1: its image, NoRow when the
\* row is gone or was inserted above the watermark.
BulkCopyPage(pos) ==
    IF pos + 1 \in watermark THEN srcRows[pos + 1] ELSE NoRow

\* The retained entries above after, at most TailBatch of them.
Page(log, acked, after) ==
    LET from == IF after < acked THEN acked ELSE after
        to   == IF from + TailBatch < Len(log) THEN from + TailBatch ELSE Len(log)
    IN  Batch(from, SubSeq(log, from + 1, to))

ReadTailBatch(after) == Page(tailLog, tailAcked, after)

AckTailOk(through) ==
    /\ SourceMoving
    /\ through <= Len(tailLog)

AckTail(through) ==
    /\ tailAcked' = IF through > tailAcked THEN through ELSE tailAcked
    /\ UNCHANGED <<src, fence, srcRows, srcOps, watermark, tailLog, opLog,
                   opAcked, seedAfter, seedMax, dropPos>>

AckSplitOpLogOk(through) ==
    /\ SourceMoving
    /\ opAcked <= through
    /\ through <= Len(opLog)

AckSplitOpLog(through) ==
    /\ opAcked' = through
    /\ UNCHANGED <<src, fence, srcRows, srcOps, watermark, tailLog, tailAcked,
                   opLog, seedAfter, seedMax, dropPos>>

\* seedSplitOpLogPage: one page of the begin-time op-log joins the capture
\* unless the retained rows are at their limit.
SeededOpLog ==
    IF seedAfter < seedMax /\ Len(opLog) - opAcked < SplitLogMax
      THEN Append(opLog, srcOps[seedAfter + 1])
      ELSE opLog

\* readSplitOpLogBatch seeds a page first and then reads.
ReadSplitOpLogBatch(after) == Page(SeededOpLog, opAcked, after)

SeedSplitOpLogPage ==
    /\ opLog' = SeededOpLog
    /\ seedAfter' = seedAfter + Len(SeededOpLog) - Len(opLog)
    /\ UNCHANGED <<src, fence, srcRows, srcOps, watermark, tailLog, tailAcked,
                   opAcked, seedMax, dropPos>>

-----------------------------------------------------------------------------
(* Fence.                                                                  *)

PrepareRoutingFence ==
    /\ fence' = IF fence = "none" THEN "prepared" ELSE fence
    /\ UNCHANGED <<src, srcRows, srcOps, srcCopy, dropPos>>

ActivateRoutingFenceOk == fence # "none"

ActivateRoutingFence ==
    /\ fence' = IF fence = "prepared" THEN "active" ELSE fence
    /\ UNCHANGED <<src, srcRows, srcOps, srcCopy, dropPos>>

CompleteRoutingFenceCleanupOk == fence \in {"active", "cleaned", "superseded"}

CompleteRoutingFenceCleanup ==
    /\ fence' = IF fence = "active" THEN "cleaned" ELSE fence
    /\ UNCHANGED <<src, srcRows, srcOps, srcCopy, dropPos>>

CancelRoutingFenceOk == fence # "cleaned"

CancelRoutingFenceBeforeCutover ==
    /\ fence' = IF fence \in {"prepared", "active"} THEN "superseded" ELSE fence
    /\ UNCHANGED <<src, srcRows, srcOps, srcCopy, dropPos>>

-----------------------------------------------------------------------------
(* Drain, finish and abort.                                                *)

StopReshardCapture ==
    /\ src' = "draining"
    /\ UNCHANGED <<fence, srcRows, srcOps, srcCopy, dropPos>>

DropMigratedRangeOk == src = "draining"

\* Mutant: a repeated call moves the drop cursor past the last page.
DropMigratedRangePast ==
    /\ IF dropPos <= NKeys
         THEN /\ dropPos' = dropPos + 1
              /\ srcRows' = [srcRows EXCEPT ![dropPos + 1] = NoRow]
         ELSE UNCHANGED <<dropPos, srcRows>>
    /\ UNCHANGED <<src, fence, srcOps, srcCopy>>

\* One page of the range is deleted; the last page closes the drop cursor.
DropMigratedRange ==
    /\ IF dropPos < NKeys
         THEN /\ dropPos' = dropPos + 1
              /\ srcRows' = [srcRows EXCEPT ![dropPos + 1] = NoRow]
         ELSE UNCHANGED <<dropPos, srcRows>>
    /\ UNCHANGED <<src, fence, srcOps, srcCopy>>

\* finishReshardSource and abortReshardSource delete the capture logs.
ClearCapture ==
    /\ src' = "drained"
    /\ watermark' = {}
    /\ tailLog' = <<>>
    /\ tailAcked' = 0
    /\ opLog' = <<>>
    /\ opAcked' = 0
    /\ seedAfter' = 0
    /\ seedMax' = 0
    /\ dropPos' = 0
    /\ UNCHANGED <<fence, srcRows, srcOps>>

FinishReshardSourceOk == src # "none"

FinishReshardSource ==
    IF src = "drained" THEN UNCHANGED srcVars ELSE ClearCapture

\* Without split state the abort leaves a drained tombstone, so a delayed
\* begin cannot start a canceled capture.
AbortReshardSource ==
    IF src = "drained" THEN UNCHANGED srcVars ELSE ClearCapture

-----------------------------------------------------------------------------
(* The RPC surface: a request names its handler and carries a batch b, a    *)
(* cursor n and a row image v where the handler takes one.                 *)

SourceReads == {"readTailBatch", "bulkCopyBatch"}

SourceRpcs == SourceReads \cup
    {"beginReshardSource", "ackTail", "ackSplitOpLog", "readSplitOpLogBatch",
     "prepareRoutingFence", "activateRoutingFence",
     "completeRoutingFenceCleanup", "cancelRoutingFenceBeforeCutover",
     "stopReshardCapture", "dropMigratedRange", "finishReshardSource",
     "abortReshardSource"}

SourceAccepts(r) ==
    \/ r.rpc \in {"readTailBatch", "bulkCopyBatch", "readSplitOpLogBatch",
                  "stopReshardCapture"} /\ SourceMoving
    \/ r.rpc = "beginReshardSource" /\ BeginReshardSourceOk
    \/ r.rpc = "ackTail" /\ AckTailOk(r.n)
    \/ r.rpc = "ackSplitOpLog" /\ AckSplitOpLogOk(r.n)
    \/ r.rpc \in {"prepareRoutingFence", "abortReshardSource"}
    \/ r.rpc = "activateRoutingFence" /\ ActivateRoutingFenceOk
    \/ r.rpc = "completeRoutingFenceCleanup" /\ CompleteRoutingFenceCleanupOk
    \/ r.rpc = "cancelRoutingFenceBeforeCutover" /\ CancelRoutingFenceOk
    \/ r.rpc = "dropMigratedRange" /\ DropMigratedRangeOk
    \/ r.rpc = "finishReshardSource" /\ FinishReshardSourceOk

SourceServes(r) ==
    \/ r.rpc \in SourceReads /\ UNCHANGED srcVars
    \/ r.rpc = "beginReshardSource" /\ BeginReshardSource
    \/ r.rpc = "ackTail" /\ AckTail(r.n)
    \/ r.rpc = "ackSplitOpLog" /\ AckSplitOpLog(r.n)
    \/ r.rpc = "readSplitOpLogBatch" /\ SeedSplitOpLogPage
    \/ r.rpc = "prepareRoutingFence" /\ PrepareRoutingFence
    \/ r.rpc = "activateRoutingFence" /\ ActivateRoutingFence
    \/ r.rpc = "completeRoutingFenceCleanup" /\ CompleteRoutingFenceCleanup
    \/ r.rpc = "cancelRoutingFenceBeforeCutover" /\ CancelRoutingFenceBeforeCutover
    \/ r.rpc = "stopReshardCapture" /\ StopReshardCapture
    \/ r.rpc = "dropMigratedRange" /\ DropMigratedRange
    \/ r.rpc = "finishReshardSource" /\ FinishReshardSource
    \/ r.rpc = "abortReshardSource" /\ AbortReshardSource

=============================================================================
