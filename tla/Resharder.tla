------------------------------ MODULE Resharder ------------------------------
(***************************************************************************)
(* The Resharder Durable Object that moves one vshard range from a source  *)
(* Cdb to a destination Cdb (resharder.ts), composed with both Cdbs and    *)
(* with the Catalog's lease and cutover for this movement.                 *)
(*                                                                         *)
(* The durable state is one migration: its phase and its cursors.  Two     *)
(* processes of the object work on it: runSplit ("run"), one call of which *)
(* performs one bounded step of the phase it read first, and abort         *)
(* ("abort"), which may start while a run is waiting for an RPC.           *)
(*                                                                         *)
(* run.at and abt name the await a process is suspended at.  An action     *)
(* executes the awaited handler at the callee and continues the caller up  *)
(* to its next await.                                                      *)
(* What happens when the two come apart is modelled by Fail and Crash: the *)
(* caller sees an error, and the request may be lost or be executed at any *)
(* later time (Deliver).                                                   *)
(***************************************************************************)
EXTENDS CdbSource, CdbDest

CONSTANTS
    AbortFrom,   \* the phases in which someone calls abort
    MaxFaults,   \* bound on failed calls and restarts in a behaviour
    LossyRpcs    \* the RPCs whose request or response may get lost

ASSUME EnvironmentAssumption == MaxFaults \in Nat /\ AbortFrom \subseteq 0..6

VARIABLES
    phase,      \* migration_state.phase
    tailCur,    \* migration_state.tail_cursor
    opCur,      \* migration_oplog_cursor.source_lsn
    bulkPos,    \* migration_state.bulk_cursor
    turn,       \* migration_work_cursor.turn
    tableIdx,   \* migration_work_cursor.bulk_table_index: 0, or 1 past the table
    op,         \* Catalog: status of the topology operation
    cut,        \* Catalog: cutover:<migId> is recorded and the range moved
    run,        \* the active runSplit and its local variables
    abt,        \* the RPC the active abort waits for
    ensured,    \* ensuredSourcePhases
    late,       \* requests whose caller is gone and that may still execute
    faults

durVars == <<phase, tailCur, opCur, bulkPos, turn, tableIdx>>
catVars == <<op, cut>>
runVars == <<run, abt, ensured>>
netVars == <<late, faults>>
vars    == <<srcVars, dstVars, durVars, catVars, runVars, netVars>>

-----------------------------------------------------------------------------
(* Phases and requests.                                                    *)

ABORTED     == -1   \* RESHARDER_PHASE
INIT        == 0
CAPTURE     == 1    \* TAIL_CAPTURE_ENABLED
BULK_DONE   == 2    \* BULK_COPY_DONE
CAUGHT_UP   == 3    \* TAIL_CAUGHT_UP
DUAL_WRITE  == 4    \* DUAL_WRITE_OPEN
CUT_OVER    == 5    \* CATALOG_CUT_OVER
DRAINED     == 6    \* SOURCE_DRAINED
ABORTING    == 7
Phases      == -1..7
Movable     == INIT..CUT_OVER

Procs == {"run", "abort"}

\* The await process p is suspended at, "idle" when it is not active.
At(p) == IF p = "run" THEN run.at ELSE abt

\* The RPC sent at each point where a process waits.
RpcAt ==
    [own           |-> "prepareReshardDestOwnership",
     ensure        |-> "beginReshardSource",
     provision     |-> "provisionFreshReshardDestination",
     begin_dest    |-> "beginReshardDest",
     begin_source  |-> "beginReshardSource",
     stage_ack     |-> "ackTail",
     stage_read    |-> "readTailBatch",
     stage_send    |-> "stageTailBatch",
     bulk_ack      |-> "ackTail",
     bulk_op_ack   |-> "ackSplitOpLog",
     bulk_read     |-> "bulkCopyBatch",
     bulk_apply    |-> "applyBulkBatch",
     bulk_close    |-> "closeReshardBulkDest",
     inbox_read    |-> "readStagedTailBatch",
     inbox_apply   |-> "applyTailBatch",
     inbox_ack     |-> "ackStagedTail",
     inbox_close   |-> "closeTailStaging",
     tail_ack      |-> "ackTail",
     tail_read     |-> "readTailBatch",
     tail_apply    |-> "applyTailBatch",
     op_ack        |-> "ackSplitOpLog",
     op_read       |-> "readSplitOpLogBatch",
     op_apply      |-> "applySplitOpLogBatch",
     fence_prepare |-> "prepareRoutingFence",
     fence_set     |-> "activateRoutingFence",
     cutover       |-> "cutover",
     activate      |-> "activateReshardDestServing",
     stop          |-> "stopReshardCapture",
     drop          |-> "dropMigratedRange",
     finish_source |-> "finishReshardSource",
     fence_clean   |-> "completeRoutingFenceCleanup",
     finish_dest   |-> "finishReshardDest",
     complete      |-> "completeTopologyOperation",
     undo_lease    |-> "abortTopologyOperation",
     undo_fence    |-> "cancelRoutingFenceBeforeCutover",
     undo_source   |-> "abortReshardSource",
     undo_begin    |-> "beginReshardDestAbort",
     undo_batch    |-> "abortReshardDestBatch"]

Waits   == DOMAIN RpcAt
Undoing == {"undo_lease", "undo_fence", "undo_source", "undo_begin", "undo_batch"}

CatalogRpcs == {"cutover", "completeTopologyOperation", "abortTopologyOperation"}
Rpcs        == SourceRpcs \cup DestRpcs \cup CatalogRpcs
ASSUME LossyAssumption == LossyRpcs \subseteq Rpcs

NoBatch  == Batch(0, <<>>)
Requests == [rpc : Rpcs, n : Nat, b : Batches, v : Images]

CarriesBatch == {"stageTailBatch", "applyTailBatch", "applySplitOpLogBatch"}

\* The request process p waits for, with the arguments its handler takes.
Request(p) ==
    LET rpc == RpcAt[At(p)] IN
    [rpc |-> rpc,
     n   |-> CASE rpc = "ackTail"        -> run.tail
               [] rpc = "ackSplitOpLog"  -> opCur
               [] rpc = "ackStagedTail"  -> BatchLast(run.buf)
               [] rpc = "applyBulkBatch" -> run.pos + 1
               [] OTHER                  -> 0,
     b   |-> IF rpc \in CarriesBatch THEN run.buf ELSE NoBatch,
     v   |-> IF rpc = "applyBulkBatch" THEN run.image ELSE NoRow]

-----------------------------------------------------------------------------
(* The Catalog's part: the topology operation of this movement and the     *)
(* cutover of its range (see CatalogTopology for many movements).          *)

CatalogAccepts(r) ==
    \/ r.rpc = "cutover" /\ op # "aborted"
    \/ r.rpc = "completeTopologyOperation" /\ (op = "completed" \/ (op = "active" /\ cut))
    \/ r.rpc = "abortTopologyOperation" /\ (op = "aborted" \/ (op = "active" /\ ~cut))

CatalogServes(r) ==
    \/ r.rpc = "cutover" /\ cut' = TRUE /\ UNCHANGED op
    \/ r.rpc = "completeTopologyOperation" /\ op' = "completed" /\ UNCHANGED cut
    \/ r.rpc = "abortTopologyOperation" /\ op' = "aborted" /\ UNCHANGED cut

\* The callee's checks pass, and its transaction.
Accepts(r) == SourceAccepts(r) \/ DestAccepts(r) \/ CatalogAccepts(r)

Serves(r) ==
    \/ SourceServes(r) /\ UNCHANGED <<dstVars, catVars>>
    \/ DestServes(r) /\ UNCHANGED <<srcVars, catVars>>
    \/ CatalogServes(r) /\ UNCHANGED <<srcVars, dstVars>>

-----------------------------------------------------------------------------
(* The local variables of runSplitDriver: the migration as it was read at  *)
(* the start (phase, tail, pos, turn, idx), the last batch and row image   *)
(* read, and the iteration of the staging or replay loop.                  *)

Runs == [at : Waits \cup {"idle"}, phase : Phases, tail : Nat, pos : 0..NKeys,
         turn : 0..3, idx : 0..1, buf : Batches, image : Images, round : 1..2]

NoRun == [at |-> "idle", phase |-> INIT, tail |-> 0, pos |-> 0, turn |-> 0,
          idx |-> 0, buf |-> NoBatch, image |-> NoRow, round |-> 1]

Init ==
    /\ SrcInit
    /\ DstInit
    /\ phase = INIT
    /\ tailCur = 0
    /\ opCur = 0
    /\ bulkPos = 0
    /\ turn = 0
    /\ tableIdx = 0
    /\ op = "active"
    /\ cut = FALSE
    /\ run = NoRun
    /\ abt = "idle"
    /\ ensured = {}
    /\ late = {}
    /\ faults = 0

TypeOK ==
    /\ SrcTypeOK
    /\ DstTypeOK
    /\ phase \in Phases
    /\ tailCur \in Nat
    /\ opCur \in Nat
    /\ bulkPos \in 0..NKeys
    /\ turn \in 0..3
    /\ tableIdx \in 0..1
    /\ op \in {"active", "completed", "aborted"}
    /\ cut \in BOOLEAN
    /\ run \in Runs
    /\ abt \in Undoing \cup {"idle"}
    /\ ensured \subseteq Phases
    /\ late \subseteq Requests
    /\ faults \in 0..MaxFaults

-----------------------------------------------------------------------------
(* How a step ends.                                                        *)

\* Process p, suspended at w, has its request executed.
Call(p, w) ==
    /\ At(p) = w
    /\ Accepts(Request(p))
    /\ Serves(Request(p))

\* The run suspends at w, or returns.
RunGoes(w) ==
    /\ run' = IF w = "idle" THEN NoRun ELSE [run EXCEPT !.at = w]
    /\ UNCHANGED <<abt, ensured, netVars>>

\* A loop of the run begins at w.
RunLoops(w, round) ==
    /\ run' = [run EXCEPT !.at = w, !.round = round]
    /\ UNCHANGED <<abt, ensured, netVars>>

\* The run has read batch b and sends it on at w.
RunHas(b, w) ==
    /\ run' = [run EXCEPT !.at = w, !.buf = b]
    /\ UNCHANGED <<abt, ensured, netVars>>

\* Every persist* and advance is guarded by the phase the run started from;
\* when abort has changed it, the update throws and the run ends.
Current == phase = run.phase

\* advance: the next phase starts with a fresh work cursor.
Advance ==
    /\ phase' = IF Current THEN phase + 1 ELSE phase
    /\ turn' = IF Current THEN 0 ELSE turn
    /\ tableIdx' = IF Current THEN 0 ELSE tableIdx
    /\ UNCHANGED <<tailCur, opCur, bulkPos>>
    /\ RunGoes("idle")

\* persistWorkCursor ends the step.
SetWork(t, i) ==
    /\ turn' = IF Current THEN t ELSE turn
    /\ tableIdx' = IF Current THEN i ELSE tableIdx
    /\ UNCHANGED <<phase, tailCur, opCur, bulkPos>>
    /\ RunGoes("idle")

-----------------------------------------------------------------------------
(* The start of a run.                                                     *)

TailStart  == IF run.tail > 0 THEN "tail_ack" ELSE "tail_read"
OpStart    == IF opCur > 0 THEN "op_ack" ELSE "op_read"
StageStart == IF run.tail > 0 THEN "stage_ack" ELSE "stage_read"

PhaseStart ==
    CASE run.phase = INIT       -> "provision"
      [] run.phase = CAPTURE    -> StageStart
      [] run.phase = BULK_DONE  -> TailStart
      [] run.phase = CAUGHT_UP  -> "fence_prepare"
      [] run.phase = DUAL_WRITE -> TailStart
      [] run.phase = CUT_OVER   -> "finish_source"

\* One call of runSplit at a time, and none while an abort is active.
RunStart ==
    /\ run.at = "idle" /\ abt = "idle"
    /\ phase \in Movable \cup {ABORTING}
    /\ run' = [NoRun EXCEPT !.at = IF phase = ABORTING THEN "undo_lease" ELSE "own",
                            !.phase = phase, !.tail = tailCur, !.pos = bulkPos,
                            !.turn = turn, !.idx = tableIdx]
    /\ UNCHANGED <<srcVars, dstVars, durVars, catVars, abt, ensured, netVars>>

\* runSplit of a finished migration answers its phase.
RunReturns ==
    /\ run.at = "idle" /\ abt = "idle"
    /\ phase \in {DRAINED, ABORTED}
    /\ UNCHANGED vars

\* A full inbox is the one error runSplitDriver and runBulkCopyStep survive.
Limited == run.at = "stage_send" /\ StageRateLimited(run.buf)

\* Any other rejected request ends the run with the callee's error.
RunRefused ==
    /\ run.at # "idle"
    /\ ~Accepts(Request("run"))
    /\ ~Limited
    /\ RunGoes("idle")
    /\ UNCHANGED <<srcVars, dstVars, durVars, catVars>>

RunPrepareOwnership ==
    /\ Call("run", "own")
    /\ RunGoes(IF ~Current THEN "idle"
               ELSE IF run.phase \in (CAPTURE..BULK_DONE) \ ensured THEN "ensure"
               ELSE PhaseStart)
    /\ UNCHANGED durVars

RunEnsureSource ==
    /\ Call("run", "ensure")
    /\ run' = [run EXCEPT !.at = PhaseStart]
    /\ ensured' = ensured \cup {run.phase}
    /\ UNCHANGED <<durVars, abt, netVars>>

-----------------------------------------------------------------------------
(* INIT.                                                                   *)

RunProvision ==
    /\ Call("run", "provision")
    /\ RunGoes(IF Current THEN "begin_dest" ELSE "idle")
    /\ UNCHANGED durVars

RunBeginDest ==
    /\ Call("run", "begin_dest")
    /\ RunGoes("begin_source")
    /\ UNCHANGED durVars

RunBeginSource ==
    /\ Call("run", "begin_source")
    /\ Advance

-----------------------------------------------------------------------------
(* TAIL_CAPTURE_ENABLED: runTailStage, then runBulkCopyStep, which at work *)
(* turn 0 calls runTailStage again with the migration it was given.        *)

\* runBulkCopyStep after its acks, by work turn and table index.
BulkWork ==
    \/ run.turn = 0 /\ RunLoops(StageStart, 2)
    \/ run.turn = 1 /\ RunLoops(OpStart, 1)
    \/ run.turn > 1 /\ run.idx = 0 /\ RunGoes("bulk_read")
    \/ run.turn = 2 /\ run.idx = 1 /\ RunGoes("bulk_close")
    \/ run.turn = 3 /\ run.idx = 1 /\ RunGoes("inbox_read")

BulkAfterTailAck == IF opCur > 0 THEN RunGoes("bulk_op_ack") ELSE BulkWork

\* runTailStage returns: to runBulkCopyStep, or (its second call) to the end
\* of the step, which leaves work turn 1.
StageReturns ==
    IF run.round = 1
      THEN /\ IF run.tail > 0 THEN RunGoes("bulk_ack") ELSE BulkAfterTailAck
           /\ UNCHANGED turn
      ELSE /\ turn' = IF Current THEN 1 ELSE turn
           /\ RunGoes("idle")

RunStageAck ==
    /\ Call("run", "stage_ack")
    /\ RunGoes("stage_read")
    /\ UNCHANGED durVars

RunStageRead ==
    /\ Call("run", "stage_read")
    /\ LET b == ReadTailBatch(run.tail) IN
       IF b.ents = <<>> THEN StageReturns
                        ELSE RunHas(b, "stage_send") /\ UNCHANGED turn
    /\ UNCHANGED <<phase, tailCur, opCur, bulkPos, tableIdx>>

\* persistTailCursor follows the staging.
RunStageSend ==
    /\ Call("run", "stage_send")
    /\ IF Current /\ tailCur <= BatchLast(run.buf)
         THEN tailCur' = BatchLast(run.buf) /\ StageReturns
         ELSE RunGoes("idle") /\ UNCHANGED <<tailCur, turn>>
    /\ UNCHANGED <<phase, opCur, bulkPos, tableIdx>>

\* Mutant: the tail cursor is persisted although nothing was staged.
RunStageLimitedPersists ==
    /\ Limited
    /\ tailCur' = BatchLast(run.buf)
    /\ StageReturns
    /\ UNCHANGED <<srcVars, dstVars, catVars, phase, opCur, bulkPos, tableIdx>>

RunStageLimited ==
    /\ Limited
    /\ StageReturns
    /\ UNCHANGED <<srcVars, dstVars, catVars, phase, tailCur, opCur, bulkPos, tableIdx>>

RunBulkAck ==
    /\ Call("run", "bulk_ack")
    /\ BulkAfterTailAck
    /\ UNCHANGED durVars

RunBulkOpAck ==
    /\ Call("run", "bulk_op_ack")
    /\ BulkWork
    /\ UNCHANGED durVars

\* Mutant: the bulk cursor of a copied page is not persisted.
PageCopiedLost ==
    /\ turn' = IF Current THEN 0 ELSE turn
    /\ UNCHANGED <<phase, tailCur, opCur, bulkPos, tableIdx>>
    /\ RunGoes("idle")

\* persistBulkCursor and persistWorkCursor at the end of a copied page.
PageCopied ==
    /\ bulkPos' = IF Current THEN run.pos + 1 ELSE bulkPos
    /\ turn' = IF Current THEN 0 ELSE turn
    /\ tableIdx' = IF Current /\ run.pos + 1 = NKeys THEN 1 ELSE tableIdx
    /\ UNCHANGED <<phase, tailCur, opCur>>
    /\ RunGoes("idle")

RunBulkRead ==
    /\ Call("run", "bulk_read")
    /\ LET v == BulkCopyPage(run.pos) IN
       IF v = NoRow THEN PageCopied
       ELSE /\ run' = [run EXCEPT !.at = "bulk_apply", !.image = v]
            /\ UNCHANGED <<durVars, abt, ensured, netVars>>

RunBulkApply ==
    /\ Call("run", "bulk_apply")
    /\ PageCopied

RunBulkClose ==
    /\ Call("run", "bulk_close")
    /\ SetWork(3, tableIdx)

RunInboxRead ==
    /\ Call("run", "inbox_read")
    /\ RunHas(ReadStagedTailBatch, IF inbox = <<>> THEN "inbox_close" ELSE "inbox_apply")
    /\ UNCHANGED durVars

RunInboxApply ==
    /\ Call("run", "inbox_apply")
    /\ RunGoes("inbox_ack")
    /\ UNCHANGED durVars

RunInboxAck ==
    /\ Call("run", "inbox_ack")
    /\ RunGoes("idle")
    /\ UNCHANGED durVars

RunInboxClose ==
    /\ Call("run", "inbox_close")
    /\ Advance

-----------------------------------------------------------------------------
(* runTailReplay and runOpLogReplay.                                       *)

RunTailAck ==
    /\ Call("run", "tail_ack")
    /\ RunGoes("tail_read")
    /\ UNCHANGED durVars

\* Two empty reads in a row converge; a batch ends the step after its apply.
RunTailRead ==
    /\ Call("run", "tail_read")
    /\ LET b == ReadTailBatch(run.tail) IN
       \/ b.ents # <<>> /\ RunHas(b, "tail_apply")
       \/ b.ents = <<>> /\ run.round = 1 /\ RunLoops("tail_read", 2)
       \/ b.ents = <<>> /\ run.round = 2 /\ RunLoops(OpStart, 1)
    /\ UNCHANGED durVars

\* persistTailCursor follows the apply.
RunTailApply ==
    /\ Call("run", "tail_apply")
    /\ tailCur' = IF Current /\ tailCur <= BatchLast(run.buf)
                    THEN BatchLast(run.buf) ELSE tailCur
    /\ RunGoes("idle")
    /\ UNCHANGED <<phase, opCur, bulkPos, turn, tableIdx>>

RunOpAck ==
    /\ Call("run", "op_ack")
    /\ RunGoes("op_read")
    /\ UNCHANGED durVars

\* runOpLogReplay converged: what the phase does next.
OpConverged ==
    \/ run.phase = CAPTURE /\ SetWork(2, tableIdx)
    \/ run.phase = BULK_DONE /\ Advance
    \/ run.phase = CAUGHT_UP /\ RunGoes("cutover") /\ UNCHANGED durVars
    \/ run.phase = DUAL_WRITE /\ RunGoes("stop") /\ UNCHANGED durVars

RunOpRead ==
    /\ Call("run", "op_read")
    /\ LET b == ReadSplitOpLogBatch(opCur) IN
       \/ b.ents # <<>> /\ RunHas(b, "op_apply") /\ UNCHANGED durVars
       \/ b.ents = <<>> /\ run.round = 1 /\ RunLoops("op_read", 2) /\ UNCHANGED durVars
       \/ b.ents = <<>> /\ run.round = 2 /\ OpConverged

\* persistOpLogCursor; in TAIL_CAPTURE_ENABLED the work turn follows.
RunOpApply ==
    /\ Call("run", "op_apply")
    /\ opCur' = IF Current /\ opCur <= BatchLast(run.buf)
                  THEN BatchLast(run.buf) ELSE opCur
    /\ turn' = IF Current /\ run.phase = CAPTURE THEN 2 ELSE turn
    /\ RunGoes("idle")
    /\ UNCHANGED <<phase, tailCur, bulkPos, tableIdx>>

-----------------------------------------------------------------------------
(* TAIL_CAUGHT_UP: fence, converge, cut over, serve.                       *)

RunFencePrepare ==
    /\ Call("run", "fence_prepare")
    /\ RunGoes("fence_set")
    /\ UNCHANGED durVars

RunFenceSet ==
    /\ Call("run", "fence_set")
    /\ RunGoes(TailStart)
    /\ UNCHANGED durVars

\* Mutant: the phase advances before the destination serves.
RunCutoverAdvances ==
    /\ Call("run", "cutover")
    /\ Advance

RunCutover ==
    /\ Call("run", "cutover")
    /\ RunGoes("activate")
    /\ UNCHANGED durVars

RunActivate ==
    /\ Call("run", "activate")
    /\ Advance

-----------------------------------------------------------------------------
(* DUAL_WRITE_OPEN and CATALOG_CUT_OVER: drain and finish.                 *)

RunStop ==
    /\ Call("run", "stop")
    /\ \/ run.idx >= 1 /\ Advance
       \/ run.idx = 0 /\ RunGoes("drop") /\ UNCHANGED durVars

\* Mutant: the first page of the range is taken for the last.
RunDropOnce ==
    /\ Call("run", "drop")
    /\ SetWork(turn, 1)

RunDrop ==
    /\ Call("run", "drop")
    /\ SetWork(turn, IF dropPos' = NKeys THEN 1 ELSE tableIdx)

RunFinishSource ==
    /\ Call("run", "finish_source")
    /\ RunGoes("fence_clean")
    /\ UNCHANGED durVars

RunFenceClean ==
    /\ Call("run", "fence_clean")
    /\ RunGoes("finish_dest")
    /\ UNCHANGED durVars

RunFinishDest ==
    /\ Call("run", "finish_dest")
    /\ RunGoes("complete")
    /\ UNCHANGED durVars

RunComplete ==
    /\ Call("run", "complete")
    /\ Advance

-----------------------------------------------------------------------------
(* Abort: the phase is switched once, then runAbortCleanup runs, from the  *)
(* abort call or from a later runSplit, until the destination is empty.    *)

\* Process p suspends at w, or returns.
Goes(p, w) ==
    IF p = "run" THEN RunGoes(w)
                 ELSE abt' = w /\ UNCHANGED <<run, ensured, netVars>>

\* Mutant: abort is still accepted at the source-fence boundary.
AbortStartLate ==
    /\ abt = "idle"
    /\ phase \in ((INIT..CAUGHT_UP) \cap AbortFrom) \cup {ABORTING}
    /\ phase' = ABORTING
    /\ Goes("abort", "undo_lease")
    /\ UNCHANGED <<srcVars, dstVars, tailCur, opCur, bulkPos, turn, tableIdx, catVars>>

AbortStart ==
    /\ abt = "idle"
    /\ phase \in ((INIT..BULK_DONE) \cap AbortFrom) \cup {ABORTING}
    /\ phase' = ABORTING
    /\ Goes("abort", "undo_lease")
    /\ UNCHANGED <<srcVars, dstVars, tailCur, opCur, bulkPos, turn, tableIdx, catVars>>

\* The Catalog refuses cutover before the source is reopened, and the source
\* stops capturing before copied rows are removed.
UndoStep(p, w, next) ==
    /\ Call(p, w)
    /\ Goes(p, next)
    /\ UNCHANGED durVars

UndoLease(p)  == UndoStep(p, "undo_lease", "undo_fence")
UndoFence(p)  == UndoStep(p, "undo_fence", "undo_source")
UndoSource(p) == UndoStep(p, "undo_source", "undo_begin")
UndoBegin(p)  == UndoStep(p, "undo_begin", "undo_batch")

UndoBatch(p) ==
    /\ Call(p, "undo_batch")
    /\ Goes(p, "idle")
    /\ phase' = IF AbortReshardDestDone /\ phase = ABORTING THEN ABORTED ELSE phase
    /\ UNCHANGED <<tailCur, opCur, bulkPos, turn, tableIdx>>

Undo(p) ==
    UndoLease(p) \/ UndoFence(p) \/ UndoSource(p) \/ UndoBegin(p) \/ UndoBatch(p)

-----------------------------------------------------------------------------
(* Failures.                                                               *)

\* The requests that are on their way and may get lost or delayed.
InFlight(p) == IF At(p) # "idle" /\ RpcAt[At(p)] \in LossyRpcs THEN {Request(p)} ELSE {}

\* The call of process p fails at the caller: the request is lost, or it is
\* still on its way and its response will be lost.
Fail(p) ==
    /\ faults < MaxFaults
    /\ InFlight(p) # {}
    /\ faults' = faults + 1
    /\ late' \in {late, late \cup InFlight(p)}
    /\ IF p = "run" THEN run' = NoRun /\ UNCHANGED abt
                    ELSE abt' = "idle" /\ UNCHANGED run
    /\ UNCHANGED <<srcVars, dstVars, durVars, catVars, ensured>>

\* The Resharder restarts: both processes and ensuredSourcePhases are gone.
Crash ==
    /\ faults < MaxFaults
    /\ run.at # "idle" \/ abt # "idle"
    /\ faults' = faults + 1
    /\ \E sent \in SUBSET (InFlight("run") \cup InFlight("abort")) :
          late' = late \cup sent
    /\ run' = NoRun
    /\ abt' = "idle"
    /\ ensured' = {}
    /\ UNCHANGED <<srcVars, dstVars, durVars, catVars>>

\* A late request executes, or its handler throws and nothing changes.
Deliver(r) ==
    /\ late' = late \ {r}
    /\ \/ Accepts(r) /\ Serves(r)
       \/ ~Accepts(r) /\ UNCHANGED <<srcVars, dstVars, catVars>>
    /\ UNCHANGED <<durVars, runVars, faults>>

-----------------------------------------------------------------------------
(* Clients.                                                                *)

MutateAtSource(m) ==
    /\ SourceMutate(m)
    /\ UNCHANGED <<dstVars, durVars, catVars, runVars, netVars>>

MutateAtDest(m) ==
    /\ DestMutate(m)
    /\ UNCHANGED <<srcVars, durVars, catVars, runVars, netVars>>

-----------------------------------------------------------------------------
RunStep ==
    \/ RunStart \/ RunReturns \/ RunRefused \/ RunPrepareOwnership \/ RunEnsureSource
    \/ RunProvision \/ RunBeginDest \/ RunBeginSource
    \/ RunStageAck \/ RunStageRead \/ RunStageSend \/ RunStageLimited
    \/ RunBulkAck \/ RunBulkOpAck \/ RunBulkRead \/ RunBulkApply \/ RunBulkClose
    \/ RunInboxRead \/ RunInboxApply \/ RunInboxAck \/ RunInboxClose
    \/ RunTailAck \/ RunTailRead \/ RunTailApply
    \/ RunOpAck \/ RunOpRead \/ RunOpApply
    \/ RunFencePrepare \/ RunFenceSet \/ RunCutover \/ RunActivate
    \/ RunStop \/ RunDrop
    \/ RunFinishSource \/ RunFenceClean \/ RunFinishDest \/ RunComplete
    \/ Undo("run")

\* No callee ever refuses an abort's request (AbortNeverRefused), so the
\* error path of abort has no action.
AbortStep == Undo("abort")

Next ==
    \/ RunStep
    \/ AbortStart
    \/ AbortStep
    \/ \E p \in Procs : Fail(p)
    \/ Crash
    \/ \E r \in late : Deliver(r)
    \/ \E m \in Muts : MutateAtSource(m) \/ MutateAtDest(m)

Spec == Init /\ [][Next]_vars

\* The owner of a split resumes it until it is terminal (driveAutoSplit, or
\* the operator), and an admitted call is executed by the runtime.  Nothing
\* is assumed of clients, faults, late requests or new aborts.
FairSpec == Spec /\ WF_vars(RunStep) /\ WF_vars(AbortStep)

-----------------------------------------------------------------------------
(* Correctness.                                                            *)

\* The range as clients see it, whichever Cdb serves it.
Range == INSTANCE RangeStore
    WITH store <- IF serving THEN dstRows ELSE srcRows,
         done  <- IF serving THEN dstOps ELSE {srcOps[i] : i \in DOMAIN srcOps},
         open  <- SourceAdmits \/ DestAdmits

\* The movement is invisible: no row image or mutation outcome is lost,
\* brought back or run twice on the way from the source to the destination,
\* whatever calls fail, repeat or arrive late.
RangePreserved == Range!Spec

\* Never do both Cdbs admit writes to the range: the source is fenced before
\* activateReshardDestServing and stays so.
SingleWriter == ~(SourceAdmits /\ DestAdmits)

\* Catalog publishes the destination only behind an active source fence, and
\* a movement that was cut over is never aborted: cutover, fence and lease
\* live in three objects and agree at every moment.
CutoverIsFinal ==
    cut => /\ fence \in {"active", "cleaned"}
           /\ op # "aborted"
           /\ phase \in CAUGHT_UP..DRAINED

\* What the source prunes after ackTail and ackSplitOpLog is durable at the
\* destination, staged or applied, as long as the movement is on.
PrunedIsDurable ==
    (SourceMoving /\ DestMoving) =>
        /\ tailAcked <= staged \/ tailAcked <= applied
        /\ opAcked <= opApplied

\* stopReshardCapture and dropMigratedRange happen only once the destination
\* serves; an unserved source is never drained.
DrainedOnlyWhenServing ==
    /\ (src = "draining" \/ dropPos > 0) => serving
    /\ src = "drained" => (serving \/ op = "aborted")

\* A completed abort leaves no trace: the source serves and captures nothing,
\* the destination keeps no copied row and no copied outcome, and late calls
\* of the aborted run cannot bring any of it back.
AbortRestores ==
    phase = ABORTED =>
        /\ SourceAdmits /\ src = "drained" /\ tailLog = <<>> /\ opLog = <<>>
        /\ ~serving /\ dst = "aborted" /\ dstRows = NoRows /\ dstOps = {}
        /\ op = "aborted" /\ ~cut

\* Once an abort is decided, no callee refuses a request of its cleanup,
\* whatever the interrupted run, earlier cleanups and late requests left
\* behind: an abort can only fail by losing a call.
AbortNeverRefused ==
    \A p \in Procs : At(p) \in Undoing => Accepts(Request(p))

\* A finished split leaves the source empty of the range, fenced for good,
\* and the destination its only owner.
DrainedIsComplete ==
    phase = DRAINED =>
        /\ serving /\ dst = "done" /\ op = "completed" /\ cut
        /\ src = "drained" /\ fence = "cleaned" /\ srcRows = NoRows

\* However it ends, the range has one owner and the other side keeps nothing.
OutcomeIsClean == TypeOK /\ DrainedIsComplete /\ AbortRestores

\* No step, late delivery or restart takes back a durable decision: cursors
\* only grow while a movement lives, serving and cutover are permanent, a
\* closed bulk copy or inbox stays closed, and the phase moves one step
\* forward or into abort before the fence boundary.
Progress ==
    /\ tailCur' >= tailCur /\ opCur' >= opCur /\ bulkPos' >= bulkPos
    /\ staged' >= staged /\ applied' >= applied
    /\ serving => serving'
    /\ cut => cut'
    /\ bulkDone => bulkDone'
    /\ inboxClosed => inboxClosed'
    /\ phase' # phase => \/ phase' = phase + 1 /\ phase < DRAINED
                         \/ phase' = ABORTING /\ phase < CAUGHT_UP
                         \/ phase = ABORTING /\ phase' = ABORTED

NothingUndone == [][Progress]_vars

\* A split that is resumed ends: in SOURCE_DRAINED or, once abort was asked
\* for in time, in ABORTED.
Terminal       == phase \in {DRAINED, ABORTED}
SplitTerminates == <>[]Terminal

\* A durable abort request is carried through.
AbortCompletes == (phase = ABORTING) ~> (phase = ABORTED)

\* Every movement ends, as the one or the other.
MovementEnds == SplitTerminates /\ AbortCompletes

=============================================================================
