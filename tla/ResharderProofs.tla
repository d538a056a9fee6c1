--------------------------- MODULE ResharderProofs ---------------------------
(***************************************************************************)
(* A movement, from its control to the data it copies.  Phase, fence,      *)
(* lease, cutover, serving flag and drain live in four objects and are     *)
(* changed by requests that may be repeated or arrive late; rows and       *)
(* outcomes go from one object to another by such requests.  Proved for    *)
(* every number of rows, mutations and faults, every batch size and limit, *)
(* and every set of lossy RPCs.                                            *)
(*                                                                         *)
(* In order: the control (ControlInv), the ends of a movement (EndInv),    *)
(* the types (TypeInv), the cursors (Progress, PrunedInv), the copy        *)
(* (DataInv), and the refinement of RangeStore.                            *)
(***************************************************************************)
EXTENDS Resharder, WellFoundedInduction, TLAPS

Fenced  == fence \in {"active", "cleaned"}
Passed  == phase \in {CAUGHT_UP, DUAL_WRITE, CUT_OVER, DRAINED}
Undone  == phase \in {ABORTING, ABORTED}

\* What the four objects agree on.
StateOK ==
    /\ phase \in Phases
    /\ cut => Fenced /\ op # "aborted" /\ Passed
    /\ serving => cut
    /\ op = "aborted" => Undone
    /\ fence \in {"none", "prepared", "active", "cleaned"}
    /\ fence # "none" => Passed
    /\ phase \in {DUAL_WRITE, CUT_OVER, DRAINED} => serving
    /\ src = "draining" => serving
    /\ src = "drained" => serving \/ op = "aborted"
    /\ dropPos # 0 => serving

\* What makes a request safe to execute at any later time.
SentOK(rpc) ==
    /\ rpc \in {"prepareRoutingFence", "activateRoutingFence", "cutover"} => Passed
    /\ rpc = "cutover" => Fenced
    /\ rpc = "activateReshardDestServing" => cut
    /\ rpc \in {"stopReshardCapture", "finishReshardSource",
                "completeRoutingFenceCleanup", "completeTopologyOperation"} => serving
    /\ rpc \in {"abortTopologyOperation", "cancelRoutingFenceBeforeCutover",
                "abortReshardSource", "beginReshardDestAbort",
                "abortReshardDestBatch"} => Undone
    /\ rpc \in {"cancelRoutingFenceBeforeCutover", "abortReshardSource",
                "beginReshardDestAbort", "abortReshardDestBatch"} => op = "aborted"

\* The same for a process that waits at w.
WaitOK(w) ==
    /\ w \in {"fence_prepare", "fence_set", "cutover"} => Passed
    /\ w = "cutover" => Fenced
    /\ w = "activate" => cut
    /\ w \in {"stop", "finish_source", "fence_clean", "complete"} => serving
    /\ w \in Undoing => Undone
    /\ w \in Undoing \ {"undo_lease"} => op = "aborted"

\* Where a run can be suspended that started from phase ph.
PlaceOK(w, ph) ==
    /\ w \in {"provision", "begin_dest", "begin_source"} => ph = INIT
    /\ w \in {"stage_ack", "stage_read", "stage_send", "bulk_ack", "bulk_op_ack",
              "bulk_read", "bulk_apply", "bulk_close", "inbox_read", "inbox_apply",
              "inbox_ack", "inbox_close"} => ph = CAPTURE
    /\ w \in {"tail_ack", "tail_read", "tail_apply"} =>
           ph \in {BULK_DONE, CAUGHT_UP, DUAL_WRITE}
    /\ w \in {"op_ack", "op_read", "op_apply"} =>
           ph \in {CAPTURE, BULK_DONE, CAUGHT_UP, DUAL_WRITE}
    /\ w \in {"fence_prepare", "fence_set", "cutover", "activate"} => ph = CAUGHT_UP
    /\ w \in {"stop", "drop"} => ph = DUAL_WRITE
    /\ w \in {"finish_source", "fence_clean", "finish_dest", "complete"} => ph = CUT_OVER
    /\ w \in {"tail_ack", "tail_read", "tail_apply", "op_ack", "op_read", "op_apply"}
         /\ ph = CAUGHT_UP => Fenced

\* A run works on the phase ph it read, unless an abort overtook it.
RunPhaseOK(w, ph) ==
    w \notin Undoing \cup {"idle"} =>
        \/ phase = ph /\ ph \in Movable
        \/ Undone /\ ph \in {INIT, CAPTURE, BULK_DONE}

\* The fields of run; its data is left open.
RunShape ==
    /\ run = [at |-> run.at, phase |-> run.phase, tail |-> run.tail, pos |-> run.pos,
              turn |-> run.turn, idx |-> run.idx, buf |-> run.buf, image |-> run.image,
              round |-> run.round]
    /\ run.at \in Waits \cup {"idle"}

LocalOK ==
    /\ RunShape
    /\ PlaceOK(run.at, run.phase)
    /\ RunPhaseOK(run.at, run.phase)
    /\ WaitOK(run.at)
    /\ abt \in Undoing \cup {"idle"}
    /\ WaitOK(abt)

LateOK == \A r \in late : SentOK(r.rpc)

ControlInv == StateOK /\ LocalOK /\ LateOK

-----------------------------------------------------------------------------
(* Requests.                                                               *)

\* The points at which a process waits for an RPC.
LEMMA WaitNames ==
    Waits = {"own", "ensure", "provision", "begin_dest", "begin_source",
             "stage_ack", "stage_read", "stage_send", "bulk_ack", "bulk_op_ack",
             "bulk_read", "bulk_apply", "bulk_close", "inbox_read", "inbox_apply",
             "inbox_ack", "inbox_close", "tail_ack", "tail_read", "tail_apply",
             "op_ack", "op_read", "op_apply", "fence_prepare", "fence_set",
             "cutover", "activate", "stop", "drop", "finish_source", "fence_clean",
             "finish_dest", "complete", "undo_lease", "undo_fence", "undo_source",
             "undo_begin", "undo_batch"}
BY DEF Waits, RpcAt

\* A process only waits where its request is safe to execute later.
LEMMA WaitSends ==
    ASSUME NEW w \in Waits, WaitOK(w)
    PROVE  SentOK(RpcAt[w])
BY WaitNames DEF RpcAt, WaitOK, SentOK, Undoing

\* What serving a request does to the control state.
Effect(rpc) ==
    /\ \/ fence' = fence /\ (rpc = "activateRoutingFence" => fence \notin {"none", "prepared"})
       \/ rpc = "prepareRoutingFence" /\ fence = "none" /\ fence' = "prepared"
       \/ rpc = "activateRoutingFence" /\ fence = "prepared" /\ fence' = "active"
       \/ rpc = "completeRoutingFenceCleanup" /\ fence = "active" /\ fence' = "cleaned"
       \/ rpc = "cancelRoutingFenceBeforeCutover" /\ fence # "none"
    /\ \/ src' = src
       \/ rpc = "beginReshardSource" /\ src' = "capturing"
       \/ rpc = "stopReshardCapture" /\ src' = "draining"
       \/ rpc \in {"finishReshardSource", "abortReshardSource"} /\ src' = "drained"
    /\ dropPos' = dropPos \/ dropPos' = 0 \/ src = "draining"
    /\ IF rpc = "activateReshardDestServing" THEN serving' = TRUE ELSE serving' = serving
    /\ IF rpc = "cutover" THEN cut' = TRUE /\ op # "aborted" ELSE cut' = cut
    /\ \/ rpc = "completeTopologyOperation" /\ op' = "completed" /\ op # "aborted"
       \/ rpc = "abortTopologyOperation" /\ op' = "aborted" /\ (op = "aborted" \/ ~cut)
       \/ rpc \notin {"completeTopologyOperation", "abortTopologyOperation"} /\ op' = op

\* What the source's handlers do to the control state.
LEMMA SourceEffect ==
    ASSUME NEW r, SourceAccepts(r), SourceServes(r), UNCHANGED <<dstVars, catVars>>
    PROVE  Effect(r.rpc)
BY DEF SourceAccepts, SourceServes, Effect, dstVars, catVars, srcVars, SourceReads,
       BeginReshardSource, AckTail, AckSplitOpLog, SeedSplitOpLogPage,
       PrepareRoutingFence, ActivateRoutingFence, ActivateRoutingFenceOk,
       CompleteRoutingFenceCleanup, CancelRoutingFenceBeforeCutover,
       StopReshardCapture, DropMigratedRange, DropMigratedRangeOk,
       FinishReshardSource, AbortReshardSource, ClearCapture

\* What the destination's handlers do to the control state.
LEMMA DestEffect ==
    ASSUME NEW r, DestServes(r), UNCHANGED <<srcVars, catVars>>
    PROVE  Effect(r.rpc)
BY DEF DestServes, Effect, dstVars, catVars, srcVars,
       PrepareReshardDestOwnership, ProvisionFreshReshardDestination, BeginReshardDest,
       ApplyBulkBatch, CloseReshardBulkDest, StageTailBatch, AckStagedTail,
       CloseTailStaging, ApplyTailBatch, ApplySplitOpLogBatch,
       ActivateReshardDestServing, BeginReshardDestAbort, AbortReshardDestBatch,
       FinishReshardDest

\* What the Catalog's handlers do to the control state.
LEMMA CatalogEffect ==
    ASSUME NEW r, CatalogAccepts(r), CatalogServes(r), UNCHANGED <<srcVars, dstVars>>
    PROVE  Effect(r.rpc)
BY DEF CatalogAccepts, CatalogServes, Effect, dstVars, srcVars

\* Only one of the three callees knows a request.
LEMMA ServedEffect ==
    ASSUME NEW r, Accepts(r), Serves(r)
    PROVE  Effect(r.rpc)
<1>1. CASE SourceServes(r) /\ UNCHANGED <<dstVars, catVars>>
  <2>1. SourceAccepts(r)
    BY <1>1 DEF Accepts, SourceServes, SourceReads, DestAccepts, CatalogAccepts
  <2> QED
    BY <1>1, <2>1, SourceEffect
<1>2. CASE DestServes(r) /\ UNCHANGED <<srcVars, catVars>>
  BY <1>2, DestEffect
<1>3. CASE CatalogServes(r) /\ UNCHANGED <<srcVars, dstVars>>
  <2>1. CatalogAccepts(r)
    BY <1>3 DEF Accepts, CatalogServes, SourceAccepts, DestAccepts
  <2> QED
    BY <1>3, <2>1, CatalogEffect
<1> QED
  BY <1>1, <1>2, <1>3 DEF Serves

-----------------------------------------------------------------------------
(* What stays true.                                                        *)

\* Facts that once established are never taken back.
Kept ==
    /\ Passed => Passed'
    /\ Fenced => Fenced'
    /\ cut => cut'
    /\ serving => serving'
    /\ Undone => Undone'
    /\ op = "aborted" => op' = "aborted"

\* The phase stays, or moves forward after activateReshardDestServing where
\* it must, or from ABORTING to ABORTED.
PhaseStep ==
    \/ phase' = phase
    \/ phase \in Movable /\ phase' = phase + 1 /\ (phase = CAUGHT_UP => serving')
    \/ phase = ABORTING /\ phase' = ABORTED

\* A request stays safe while the facts it rests on are kept.
LEMMA KeptSent ==
    ASSUME Kept, NEW rpc, SentOK(rpc)
    PROVE  SentOK(rpc)'
BY DEF Kept, SentOK, Passed, Fenced, Undone

\* So does the place of a waiting process.
LEMMA KeptWait ==
    ASSUME Kept, NEW w, WaitOK(w)
    PROVE  WaitOK(w)'
BY DEF Kept, WaitOK, Passed, Fenced, Undone

\* And all requests of callers that are gone.
LEMMA KeptLate ==
    ASSUME Kept, LateOK, late' \subseteq late
    PROVE  LateOK'
<1> SUFFICES ASSUME NEW r \in late' PROVE SentOK(r.rpc)'
  BY DEF LateOK
<1> QED
  BY KeptSent DEF LateOK

\* A served request whose precondition holds keeps the four objects in
\* agreement, also when it arrives late or a second time.
LEMMA ServedState ==
    ASSUME StateOK, NEW rpc, SentOK(rpc), Effect(rpc), PhaseStep
    PROVE  StateOK' /\ Kept
<1> USE DEF StateOK, Passed, Fenced, Undone, INIT, CAPTURE, BULK_DONE, CAUGHT_UP,
            DUAL_WRITE, CUT_OVER, DRAINED, ABORTING, ABORTED, Phases, Movable
<1>1. phase' \in Phases /\ (Passed => Passed') /\ (Undone => Undone')
  BY DEF PhaseStep
<1>2. /\ Fenced => Fenced'
      /\ fence' \in {"none", "prepared", "active", "cleaned"}
      /\ fence' # "none" => Passed'
  BY <1>1 DEF Effect, SentOK
<1>3. (cut => cut') /\ (serving => serving') /\ (op = "aborted" => op' = "aborted")
  BY DEF Effect
<1>4. op' = "aborted" => Undone'
  BY <1>1 DEF Effect, SentOK
<1>5. (cut => Fenced /\ op # "aborted" /\ Passed)'
  BY <1>1, <1>2 DEF Effect, SentOK
<1>6. (serving => cut)'
  BY <1>3 DEF Effect, SentOK
<1>7. (phase \in {DUAL_WRITE, CUT_OVER, DRAINED} => serving)'
  BY <1>3 DEF PhaseStep
<1>8. (src = "draining" => serving)' /\ (src = "drained" => serving \/ op = "aborted")'
  BY <1>3 DEF Effect, SentOK
<1>9. (dropPos # 0 => serving)'
  BY <1>3 DEF Effect
<1> QED
  BY <1>1, <1>2, <1>3, <1>4, <1>5, <1>6, <1>7, <1>8, <1>9 DEF Kept

\* A step that serves no request.
LEMMA QuietState ==
    ASSUME StateOK, UNCHANGED <<fence, src, dropPos, serving, op, cut>>,
           PhaseStep \/ (phase \in INIT..BULK_DONE \cup {ABORTING} /\ phase' = ABORTING)
    PROVE  StateOK' /\ Kept
BY DEF StateOK, Kept, PhaseStep, Passed, Fenced, Undone, INIT, CAPTURE, BULK_DONE,
       CAUGHT_UP, DUAL_WRITE, CUT_OVER, DRAINED, ABORTING, ABORTED, Phases, Movable

\* A process sends the RPC of the point it waits at.
LEMMA RequestRpc ==
    ASSUME NEW p
    PROVE  Request(p).rpc = RpcAt[At(p)]
BY DEF Request

\* Both processes are at a place that the invariant allows.
LEMMA AtOK ==
    ASSUME LocalOK, NEW p \in Procs
    PROVE  At(p) \in Waits \cup {"idle"} /\ WaitOK(At(p))
BY WaitNames DEF LocalOK, RunShape, At, Undoing

\* A process has its request served.
LEMMA Called ==
    ASSUME LocalOK, NEW p \in Procs, NEW w \in Waits, Call(p, w)
    PROVE  SentOK(RpcAt[w]) /\ Effect(RpcAt[w])
<1>1. Request(p).rpc = RpcAt[w]
  BY RequestRpc DEF Call
<1>2. WaitOK(w)
  BY AtOK DEF Call
<1> QED
  BY <1>1, <1>2, WaitSends, ServedEffect DEF Call

-----------------------------------------------------------------------------
(* How a run goes on.                                                      *)

\* The run suspends at one of S and keeps the phase it read.
Suspends(S) ==
    /\ run'.at \in S
    /\ run'.phase = run.phase
    /\ RunShape'
    /\ abt' = abt
    /\ late' = late

Ends == run' = NoRun /\ abt' = abt /\ late' = late

\* RunGoes to a wait changes nothing else of the run.
LEMMA GoesSuspends ==
    ASSUME RunShape, NEW w \in Waits, RunGoes(w)
    PROVE  Suspends({w})
<1>1. w # "idle"
  BY WaitNames
<1> QED
  BY <1>1 DEF RunShape, RunGoes, Suspends, netVars

\* RunGoes to "idle" ends the run.
LEMMA GoesIdle == RunGoes("idle") => Ends
BY DEF RunGoes, Ends, netVars

\* RunLoops suspends the run with a new round.
LEMMA LoopsSuspends ==
    ASSUME RunShape, NEW w \in Waits, NEW n, RunLoops(w, n)
    PROVE  Suspends({w})
BY DEF RunShape, RunLoops, Suspends, netVars

\* RunHas suspends the run with a new batch.
LEMMA HasSuspends ==
    ASSUME RunShape, NEW w \in Waits, NEW b, RunHas(b, w)
    PROVE  Suspends({w})
BY DEF RunShape, RunHas, Suspends, netVars

\* A run that returned has nothing to be wrong about.
LEMMA EndsOK ==
    ASSUME LocalOK, LateOK, Kept, Ends
    PROVE  LocalOK' /\ LateOK'
<1>1. WaitOK(abt)'
  BY KeptWait DEF LocalOK, Ends, WaitOK
<1>2. RunShape' /\ run'.at = "idle"
  BY DEF Ends, NoRun, RunShape
<1>3. PlaceOK(run.at, run.phase)' /\ RunPhaseOK(run.at, run.phase)' /\ WaitOK(run.at)'
  BY <1>2 DEF PlaceOK, RunPhaseOK, WaitOK, Undoing
<1> QED
  BY <1>1, <1>2, <1>3, KeptLate DEF LocalOK, Ends

\* A run that suspends outside abort needs only what its new place asks for.
LEMMA SuspendsOK ==
    ASSUME LocalOK, LateOK, Kept, NEW S, Suspends(S), phase' = phase,
           run.at \notin Undoing \cup {"idle"},
           \A w \in S : w \notin Undoing \cup {"idle"} /\ PlaceOK(w, run.phase)' /\ WaitOK(w)'
    PROVE  LocalOK' /\ LateOK'
<1>1. WaitOK(abt)'
  BY KeptWait DEF LocalOK, Suspends, WaitOK
<1>2. PlaceOK(run.at, run.phase)' /\ WaitOK(run.at)'
  BY DEF Suspends, PlaceOK, WaitOK
<1>3. RunPhaseOK(run.at, run.phase)'
  BY DEF Suspends, LocalOK, RunPhaseOK, Undone
<1> QED
  BY <1>1, <1>2, <1>3, KeptLate DEF LocalOK, Suspends

\* The three ways a run goes on after its request was served.
LEMMA RunEndsOK ==
    ASSUME ControlInv, NEW w \in Waits, Call("run", w), phase' = phase, Ends
    PROVE  ControlInv'
<1>1. StateOK' /\ Kept
  BY Called, ServedState DEF ControlInv, PhaseStep, Procs
<1> QED
  BY <1>1, EndsOK DEF ControlInv

\* advance moves the phase, out of TAIL_CAUGHT_UP only once the destination
\* serves.
LEMMA RunAdvancesOK ==
    ASSUME ControlInv, NEW w \in Waits \ Undoing, Call("run", w), Advance,
           run.phase = CAUGHT_UP => serving'
    PROVE  ControlInv'
<1>1. run.at = w /\ w # "idle"
  BY WaitNames DEF Call, At
<1>2. Current => phase \in Movable
  BY <1>1 DEF ControlInv, LocalOK, RunPhaseOK, Current, Undone, INIT, CAPTURE, BULK_DONE,
              ABORTING, ABORTED, Movable, CUT_OVER
<1>3. PhaseStep
  BY <1>2 DEF Advance, PhaseStep, Current
<1>4. StateOK' /\ Kept
  BY <1>3, Called, ServedState DEF ControlInv, Procs
<1> QED
  BY <1>4, EndsOK, GoesIdle DEF ControlInv, Advance

\* The run waits for its next RPC.
LEMMA RunSuspendsOK ==
    ASSUME ControlInv, NEW w \in Waits \ Undoing, Call("run", w), phase' = phase,
           NEW S, Suspends(S), S \subseteq Waits \ Undoing,
           Kept => \A v \in S : PlaceOK(v, run.phase)' /\ WaitOK(v)'
    PROVE  ControlInv'
<1>1. run.at = w /\ "idle" \notin Waits
  BY WaitNames DEF Call, At
<1>2. StateOK' /\ Kept
  BY Called, ServedState DEF ControlInv, PhaseStep, Procs
<1> QED
  BY <1>1, <1>2, SuspendsOK DEF ControlInv

-----------------------------------------------------------------------------
(* The steps of a run, phase by phase.                                     *)

\* The waits of TAIL_CAPTURE_ENABLED.
CaptureWaits ==
    {"stage_ack", "stage_read", "stage_send", "bulk_ack", "bulk_op_ack", "bulk_read",
     "bulk_apply", "bulk_close", "inbox_read", "inbox_apply", "inbox_ack", "inbox_close"}
OpWaits   == {"op_ack", "op_read", "op_apply"}
TailWaits == {"tail_ack", "tail_read", "tail_apply"}

\* A run in TAIL_CAPTURE_ENABLED goes on within its phase.
LEMMA CaptureSuspendsOK ==
    ASSUME ControlInv, NEW w \in CaptureWaits, Call("run", w), phase' = phase,
           Suspends(CaptureWaits \cup OpWaits)
    PROVE  ControlInv'
<1>1. run.phase = CAPTURE /\ run'.phase = CAPTURE
  BY DEF ControlInv, LocalOK, PlaceOK, CaptureWaits, Call, At, Suspends
<1>2. \A v \in CaptureWaits \cup OpWaits : PlaceOK(v, run.phase)' /\ WaitOK(v)'
  BY <1>1 DEF PlaceOK, WaitOK, CaptureWaits, OpWaits, Undoing, INIT, CAPTURE,
              BULK_DONE, CAUGHT_UP, DUAL_WRITE, CUT_OVER
<1>3. w \in Waits \ Undoing /\ CaptureWaits \cup OpWaits \subseteq Waits \ Undoing
  BY WaitNames DEF CaptureWaits, OpWaits, Undoing
<1> QED
  BY <1>2, <1>3, RunSuspendsOK

\* A replay goes on: from the tail to the op-log, never back, and behind the
\* fence where it started behind it.
LEMMA ReplaySuspendsOK ==
    ASSUME ControlInv, NEW w \in TailWaits \cup OpWaits, Call("run", w), phase' = phase,
           NEW S, Suspends(S), S \subseteq TailWaits \cup OpWaits,
           w \in OpWaits => S \subseteq OpWaits
    PROVE  ControlInv'
<1>1. ASSUME Kept, NEW v \in S PROVE PlaceOK(v, run.phase)' /\ WaitOK(v)'
  <2>1. run.at = w /\ run'.phase = run.phase /\ v \in TailWaits \cup OpWaits
    BY DEF Call, At, Suspends
  <2>2. WaitOK(v)'
    BY <2>1 DEF WaitOK, TailWaits, OpWaits, Undoing
  <2>3. PlaceOK(v, run.phase)
    BY <2>1 DEF ControlInv, LocalOK, PlaceOK, TailWaits, OpWaits, Undoing, INIT, CAPTURE,
              BULK_DONE, CAUGHT_UP, DUAL_WRITE, CUT_OVER
  <2>4. PlaceOK(v, run.phase)'
    BY <1>1, <2>1, <2>3 DEF Kept, PlaceOK
  <2> QED
    BY <2>2, <2>4
<1>2. w \in Waits \ Undoing /\ S \subseteq Waits \ Undoing
  BY WaitNames DEF TailWaits, OpWaits, Undoing
<1> QED
  BY <1>1, <1>2, RunSuspendsOK

\* runSplit reads the migration and starts.
LEMMA RunStartOK ==
    ASSUME ControlInv, RunStart
    PROVE  ControlInv'
<1>1. StateOK' /\ Kept
  BY QuietState DEF RunStart, ControlInv, srcVars, dstVars, durVars, catVars, PhaseStep
<1>2. /\ RunShape' /\ run'.phase = phase
      /\ run'.at = IF phase = ABORTING THEN "undo_lease" ELSE "own"
  BY WaitNames DEF RunStart, NoRun, RunShape
<1>3. PlaceOK(run.at, run.phase)' /\ RunPhaseOK(run.at, run.phase)' /\ WaitOK(run.at)'
  BY <1>2 DEF PlaceOK, RunPhaseOK, WaitOK, Undoing, RunStart, Undone, ABORTING, durVars
<1>4. WaitOK(abt)' /\ abt' \in Undoing \cup {"idle"}
  BY <1>1, KeptWait DEF RunStart, ControlInv, LocalOK, WaitOK
<1>5. LateOK'
  BY <1>1, KeptLate DEF RunStart, ControlInv, netVars
<1> QED
  BY <1>1, <1>2, <1>3, <1>4, <1>5 DEF ControlInv, LocalOK

\* The first wait of each phase.
LEMMA PhaseStartIs ==
    /\ run.phase = INIT => PhaseStart = "provision"
    /\ run.phase = CAPTURE => PhaseStart \in {"stage_ack", "stage_read"}
    /\ run.phase \in {BULK_DONE, DUAL_WRITE} => PhaseStart \in {"tail_ack", "tail_read"}
    /\ run.phase = CAUGHT_UP => PhaseStart = "fence_prepare"
    /\ run.phase = CUT_OVER => PhaseStart = "finish_source"
BY DEF PhaseStart, StageStart, TailStart, INIT, CAPTURE, BULK_DONE, CAUGHT_UP,
       DUAL_WRITE, CUT_OVER

\* runSplit before the code of its phase, and INIT.
LEMMA RunOpensOK ==
    ASSUME ControlInv,
           \/ RunReturns \/ RunRefused \/ RunPrepareOwnership \/ RunEnsureSource
           \/ RunProvision \/ RunBeginDest \/ RunBeginSource
    PROVE  ControlInv'
<1> USE DEF INIT, CAPTURE, BULK_DONE, CAUGHT_UP, DUAL_WRITE, CUT_OVER
<1>1. CASE RunReturns
  BY <1>1 DEF RunReturns, ControlInv, vars, srcVars, dstVars, durVars, catVars, runVars,
              netVars, StateOK, LocalOK, LateOK, RunShape, PlaceOK, RunPhaseOK, WaitOK,
              SentOK, Passed, Fenced, Undone
<1>2. CASE RunRefused
  <2>1. StateOK' /\ Kept
    BY <1>2, QuietState DEF RunRefused, ControlInv, srcVars, dstVars, durVars, catVars,
                            PhaseStep
  <2> QED
    BY <1>2, <2>1, EndsOK, GoesIdle DEF RunRefused, ControlInv
<1>3. ASSUME NEW w \in {"own", "ensure"}, Call("run", w), phase' = phase,
             NEW v, v = PhaseStart \/ (v = "ensure" /\ run.phase \in CAPTURE..BULK_DONE),
             Suspends({v})
      PROVE  ControlInv'
  <2>1. /\ run.at = w /\ run'.phase = run.phase /\ run.phase \in Movable
        /\ run.phase \in {CAUGHT_UP, CUT_OVER} => phase = run.phase
    BY <1>3 DEF Call, At, Suspends, ControlInv, LocalOK, RunPhaseOK, Undoing, Current,
                Undone, ABORTING, ABORTED, Movable
  <2>2. v \in Waits \ Undoing
    BY <1>3, <2>1, PhaseStartIs, WaitNames DEF Movable, Undoing
  <2>3. ASSUME Kept PROVE PlaceOK(v, run.phase)' /\ WaitOK(v)'
    <3>1. /\ run.phase \in {CAUGHT_UP, CUT_OVER} => phase' = run.phase
          /\ run.phase = CUT_OVER => serving'
      BY <1>3, <2>1, <2>3 DEF Kept, ControlInv, StateOK
    <3>2. v \in {"ensure", "provision", "stage_ack", "stage_read", "tail_ack", "tail_read",
                 "fence_prepare", "finish_source"}
      BY <1>3, <2>1, PhaseStartIs DEF Movable
    <3>3. WaitOK(v)'
      BY <1>3, <2>1, <3>1, <3>2, PhaseStartIs DEF WaitOK, Undoing, Passed, Movable
    <3>4. PlaceOK(v, run.phase)'
      BY <1>3, <2>1, <3>2, PhaseStartIs DEF PlaceOK, Movable
    <3> QED
      BY <3>3, <3>4
  <2> QED
    BY <1>3, <2>2, <2>3, RunSuspendsOK, WaitNames DEF Undoing
<1>4. CASE RunPrepareOwnership
  <2> DEFINE v == IF run.phase \in (CAPTURE..BULK_DONE) \ ensured THEN "ensure" ELSE PhaseStart
  <2>1. Call("run", "own") /\ phase' = phase /\ run.at = "own"
    BY <1>4 DEF RunPrepareOwnership, durVars, Call, At
  <2>2. CASE ~Current
    BY <1>4, <2>1, <2>2, RunEndsOK, GoesIdle, WaitNames DEF RunPrepareOwnership
  <2>3. CASE Current
    <3>1. run.phase \in Movable
      BY <2>1, <2>3 DEF ControlInv, LocalOK, RunPhaseOK, Undoing, Current, Undone,
                        ABORTING, ABORTED, Movable
    <3>2. v \in Waits
      BY <3>1, PhaseStartIs, WaitNames DEF Movable
    <3>3. Suspends({v})
      BY <1>4, <2>3, <3>2, GoesSuspends DEF RunPrepareOwnership, ControlInv, LocalOK
    <3> QED
      BY <1>3, <2>1, <2>3, <3>3
  <2> QED
    BY <2>2, <2>3
<1>5. CASE RunEnsureSource
  <2>1. Call("run", "ensure") /\ phase' = phase /\ run.at = "ensure"
    BY <1>5 DEF RunEnsureSource, durVars, Call, At
  <2>2. run.phase \in Movable
    BY <2>1 DEF ControlInv, LocalOK, RunPhaseOK, Undoing, Movable
  <2>3. PhaseStart \in Waits
    BY <2>2, PhaseStartIs, WaitNames DEF Movable
  <2>4. Suspends({PhaseStart})
    BY <1>5, <2>3 DEF RunEnsureSource, Suspends, ControlInv, LocalOK, RunShape, netVars
  <2> QED
    BY <1>3, <2>1, <2>4
<1>6. CASE RunProvision
  <2>1. Call("run", "provision") /\ phase' = phase /\ run.at = "provision"
    BY <1>6 DEF RunProvision, durVars, Call, At
  <2>2. CASE ~Current
    BY <1>6, <2>1, <2>2, RunEndsOK, GoesIdle, WaitNames DEF RunProvision
  <2>3. CASE Current
    <3>1. Suspends({"begin_dest"})
      BY <1>6, <2>3, GoesSuspends, WaitNames DEF RunProvision, ControlInv, LocalOK
    <3>2. PlaceOK("begin_dest", run.phase)' /\ WaitOK("begin_dest")'
      BY <2>1, <3>1 DEF PlaceOK, WaitOK, ControlInv, LocalOK, Suspends, Undoing
    <3> QED
      BY <2>1, <3>1, <3>2, RunSuspendsOK, WaitNames DEF Undoing
  <2> QED
    BY <2>2, <2>3
<1>7. CASE RunBeginDest
  <2>1. Call("run", "begin_dest") /\ phase' = phase /\ run.at = "begin_dest"
    BY <1>7 DEF RunBeginDest, durVars, Call, At
  <2>2. Suspends({"begin_source"})
    BY <1>7, GoesSuspends, WaitNames DEF RunBeginDest, ControlInv, LocalOK
  <2>3. PlaceOK("begin_source", run.phase)' /\ WaitOK("begin_source")'
    BY <2>1, <2>2 DEF PlaceOK, WaitOK, ControlInv, LocalOK, Suspends, Undoing
  <2> QED
    BY <2>1, <2>2, <2>3, RunSuspendsOK, WaitNames DEF Undoing
<1>8. CASE RunBeginSource
  <2>1. Call("run", "begin_source") /\ run.phase = INIT
    BY <1>8 DEF RunBeginSource, ControlInv, LocalOK, PlaceOK, Call, At
  <2> QED
    BY <1>8, <2>1, RunAdvancesOK, WaitNames DEF RunBeginSource, Undoing
<1> QED
  BY <1>1, <1>2, <1>4, <1>5, <1>6, <1>7, <1>8

\* TAIL_CAPTURE_ENABLED.
LEMMA BulkGoesOn ==
    ASSUME RunShape, BulkAfterTailAck \/ BulkWork
    PROVE  Suspends(CaptureWaits \cup OpWaits)
<1> DEFINE S == CaptureWaits \cup OpWaits
<1>1. S \subseteq Waits
  BY WaitNames DEF CaptureWaits, OpWaits
<1>2. ASSUME NEW w \in S, RunGoes(w) PROVE Suspends(S)
  BY <1>1, <1>2, GoesSuspends DEF Suspends
<1>3. ASSUME NEW w \in S, NEW n, RunLoops(w, n) PROVE Suspends(S)
  BY <1>1, <1>3, LoopsSuspends DEF Suspends
<1>4. {StageStart, OpStart, "bulk_read", "bulk_close", "inbox_read", "bulk_op_ack"} \subseteq S
  BY DEF StageStart, OpStart, CaptureWaits, OpWaits
<1>5. BulkWork => Suspends(S)
  BY <1>2, <1>3, <1>4 DEF BulkWork
<1> QED
  BY <1>2, <1>4, <1>5 DEF BulkAfterTailAck

\* runTailStage returns into its caller or ends the run.
LEMMA StageGoesOn ==
    ASSUME RunShape, StageReturns
    PROVE  Suspends(CaptureWaits \cup OpWaits) \/ Ends
<1>1. CASE RunGoes("bulk_ack")
  BY <1>1, GoesSuspends, WaitNames DEF Suspends, CaptureWaits
<1> QED
  BY <1>1, BulkGoesOn, GoesIdle DEF StageReturns

\* The steps of runTailStage and runBulkCopyStep.
LEMMA RunCapturesOK ==
    ASSUME ControlInv,
           \/ RunStageAck \/ RunStageRead \/ RunStageSend \/ RunStageLimited
           \/ RunBulkAck \/ RunBulkOpAck \/ RunBulkRead \/ RunBulkApply \/ RunBulkClose
           \/ RunInboxRead \/ RunInboxApply \/ RunInboxAck \/ RunInboxClose
    PROVE  ControlInv'
<1> DEFINE S == CaptureWaits \cup OpWaits
<1>0. RunShape
  BY DEF ControlInv, LocalOK
<1>1. ASSUME NEW w \in CaptureWaits, Call("run", w), phase' = phase, Suspends(S) \/ Ends
      PROVE  ControlInv'
  BY <1>1, CaptureSuspendsOK, RunEndsOK, WaitNames DEF CaptureWaits
<1>2. ASSUME NEW w \in CaptureWaits, Call("run", w), phase' = phase,
             NEW v \in CaptureWaits, RunGoes(v)
      PROVE  ControlInv'
  BY <1>0, <1>1, <1>2, GoesSuspends, WaitNames DEF CaptureWaits, Suspends
<1>3. CASE RunStageAck
  BY <1>2, <1>3 DEF RunStageAck, durVars, CaptureWaits
<1>4. CASE RunStageRead
  <2>1. Suspends(S) \/ Ends
    BY <1>0, <1>4, StageGoesOn, HasSuspends, WaitNames DEF RunStageRead, Suspends, CaptureWaits
  <2> QED
    BY <1>1, <1>4, <2>1 DEF RunStageRead, CaptureWaits
<1>5. CASE RunStageSend
  BY <1>0, <1>1, <1>5, StageGoesOn, GoesIdle DEF RunStageSend, CaptureWaits
<1>6. CASE RunStageLimited
  <2>1. StateOK' /\ Kept /\ phase' = phase
    BY <1>6, QuietState DEF RunStageLimited, ControlInv, srcVars, dstVars, catVars, PhaseStep
  <2>2. Suspends(S) \/ Ends
    BY <1>0, <1>6, StageGoesOn DEF RunStageLimited
  <2>3. CASE Suspends(S)
    <3>1. run.at = "stage_send" /\ run'.phase = CAPTURE
      BY <1>6, <2>3 DEF RunStageLimited, Limited, Suspends, ControlInv, LocalOK, PlaceOK
    <3>2. \A v \in S : v \notin Undoing \cup {"idle"} /\ PlaceOK(v, run.phase)' /\ WaitOK(v)'
      BY <3>1 DEF PlaceOK, WaitOK, CaptureWaits, OpWaits, Undoing, INIT, CAPTURE,
                  BULK_DONE, CAUGHT_UP, DUAL_WRITE, CUT_OVER
    <3>3. run.at \notin Undoing \cup {"idle"}
      BY <3>1 DEF Undoing
    <3> QED
      BY <2>1, <2>3, <3>2, <3>3, SuspendsOK DEF ControlInv
  <2>4. CASE Ends
    BY <2>1, <2>4, EndsOK DEF ControlInv
  <2> QED
    BY <2>2, <2>3, <2>4
<1>7. CASE RunBulkAck
  BY <1>0, <1>1, <1>7, BulkGoesOn DEF RunBulkAck, durVars, CaptureWaits
<1>8. CASE RunBulkOpAck
  BY <1>0, <1>1, <1>8, BulkGoesOn DEF RunBulkOpAck, durVars, CaptureWaits
<1>9. CASE RunBulkRead
  <2>1. CASE PageCopied
    BY <1>1, <1>9, <2>1, GoesIdle DEF RunBulkRead, PageCopied, CaptureWaits
  <2>2. CASE ~PageCopied
    <3>1. PICK v : run' = [run EXCEPT !.at = "bulk_apply", !.image = v]
      BY <1>9, <2>2 DEF RunBulkRead
    <3>2. UNCHANGED <<phase, abt, late>>
      BY <1>9, <2>2 DEF RunBulkRead, durVars, netVars
    <3>3. Suspends(S)
      BY <1>0, <3>1, <3>2, WaitNames DEF RunShape, Suspends, CaptureWaits
    <3> QED
      BY <1>1, <1>9, <3>2, <3>3 DEF RunBulkRead, CaptureWaits
  <2> QED
    BY <2>1, <2>2
<1>10. CASE RunBulkApply
  BY <1>1, <1>10, GoesIdle DEF RunBulkApply, PageCopied, CaptureWaits
<1>11. CASE RunBulkClose
  BY <1>1, <1>11, GoesIdle DEF RunBulkClose, SetWork, CaptureWaits
<1>12. CASE RunInboxRead
  <2>1. Suspends(S)
    BY <1>0, <1>12, HasSuspends, WaitNames DEF RunInboxRead, Suspends, CaptureWaits
  <2> QED
    BY <1>1, <1>12, <2>1 DEF RunInboxRead, durVars, CaptureWaits
<1>13. CASE RunInboxApply
  BY <1>2, <1>13 DEF RunInboxApply, durVars, CaptureWaits
<1>14. CASE RunInboxAck
  BY <1>1, <1>14, GoesIdle DEF RunInboxAck, durVars, CaptureWaits
<1>15. CASE RunInboxClose
  <2>1. Call("run", "inbox_close") /\ Advance /\ run.phase = CAPTURE
    BY <1>15 DEF RunInboxClose, ControlInv, LocalOK, PlaceOK, Call, At
  <2> QED
    BY <2>1, RunAdvancesOK, WaitNames DEF Undoing, CAPTURE, CAUGHT_UP
<1> QED
  BY <1>3, <1>4, <1>5, <1>6, <1>7, <1>8, <1>9, <1>10, <1>11, <1>12, <1>13, <1>14, <1>15

\* runTailReplay and runOpLogReplay, in whichever phase.
LEMMA RunReplaysOK ==
    ASSUME ControlInv,
           \/ RunTailAck \/ RunTailRead \/ RunTailApply
           \/ RunOpAck \/ RunOpRead \/ RunOpApply
    PROVE  ControlInv'
<1>0. RunShape /\ TailWaits \cup OpWaits \subseteq Waits \ Undoing
  BY WaitNames DEF ControlInv, LocalOK, TailWaits, OpWaits, Undoing
<1>1. ASSUME NEW w \in TailWaits \cup OpWaits, Call("run", w), phase' = phase, Ends
      PROVE  ControlInv'
  BY <1>0, <1>1, RunEndsOK
<1>2. CASE RunTailAck
  <2>1. Suspends({"tail_read"}) /\ Call("run", "tail_ack") /\ phase' = phase
    BY <1>0, <1>2, GoesSuspends DEF RunTailAck, durVars, TailWaits
  <2> QED
    BY <2>1, ReplaySuspendsOK DEF TailWaits, OpWaits
<1>3. CASE RunTailRead
  <2>1. OpStart \in OpWaits
    BY DEF OpStart, OpWaits
  <2>2. \E v \in {"tail_apply", "tail_read", OpStart} : Suspends({v})
    BY <1>0, <1>3, <2>1, HasSuspends, LoopsSuspends DEF RunTailRead, TailWaits
  <2> QED
    BY <1>3, <2>1, <2>2, ReplaySuspendsOK DEF RunTailRead, durVars, TailWaits, OpWaits
<1>4. CASE RunTailApply
  BY <1>1, <1>4, GoesIdle DEF RunTailApply, TailWaits
<1>5. CASE RunOpAck
  BY <1>0, <1>5, GoesSuspends, ReplaySuspendsOK DEF RunOpAck, durVars, OpWaits
<1>6. CASE RunOpApply
  BY <1>1, <1>6, GoesIdle DEF RunOpApply, OpWaits
<1>7. CASE RunOpRead
  <2>1. Call("run", "op_read") /\ run.at = "op_read"
    BY <1>7 DEF RunOpRead, Call, At
  <2>2. CASE \E b : RunHas(b, "op_apply") /\ UNCHANGED durVars
    BY <1>0, <2>1, <2>2, HasSuspends, ReplaySuspendsOK DEF durVars, OpWaits
  <2>3. CASE RunLoops("op_read", 2) /\ UNCHANGED durVars
    BY <1>0, <2>1, <2>3, LoopsSuspends, ReplaySuspendsOK DEF durVars, OpWaits
  <2>4. CASE OpConverged
    <3>1. CASE SetWork(2, tableIdx)
      BY <1>1, <2>1, <3>1, GoesIdle DEF SetWork, OpWaits
    <3>2. CASE run.phase = BULK_DONE /\ Advance
      BY <1>0, <2>1, <3>2, RunAdvancesOK DEF OpWaits, BULK_DONE, CAUGHT_UP
    <3>3. CASE run.phase = CAUGHT_UP /\ RunGoes("cutover") /\ UNCHANGED durVars
      <4>1. Suspends({"cutover"}) /\ phase' = phase /\ run'.phase = CAUGHT_UP
        BY <1>0, <3>3, GoesSuspends, WaitNames DEF durVars, Suspends
      <4>2. phase = CAUGHT_UP /\ Fenced
        BY <2>1, <3>3 DEF ControlInv, LocalOK, RunPhaseOK, PlaceOK, Undoing, INIT, CAPTURE,
                          BULK_DONE, CAUGHT_UP
      <4>3. ASSUME Kept PROVE PlaceOK("cutover", run.phase)' /\ WaitOK("cutover")'
        BY <4>1, <4>2, <4>3 DEF Kept, PlaceOK, WaitOK, Undoing, Passed
      <4> QED
        BY <1>0, <2>1, <4>1, <4>3, RunSuspendsOK, WaitNames DEF OpWaits, Undoing
    <3>4. CASE run.phase = DUAL_WRITE /\ RunGoes("stop") /\ UNCHANGED durVars
      <4>1. Suspends({"stop"}) /\ phase' = phase /\ run'.phase = DUAL_WRITE
        BY <1>0, <3>4, GoesSuspends, WaitNames DEF durVars, Suspends
      <4>2. serving
        BY <2>1, <3>4 DEF ControlInv, LocalOK, RunPhaseOK, StateOK, Undoing, INIT, CAPTURE,
                          BULK_DONE, DUAL_WRITE
      <4>3. ASSUME Kept PROVE PlaceOK("stop", run.phase)' /\ WaitOK("stop")'
        BY <4>1, <4>2, <4>3 DEF Kept, PlaceOK, WaitOK, Undoing
      <4> QED
        BY <1>0, <2>1, <4>1, <4>3, RunSuspendsOK, WaitNames DEF OpWaits, Undoing
    <3> QED
      BY <2>4, <3>1, <3>2, <3>3, <3>4 DEF OpConverged
  <2> QED
    BY <1>7, <2>2, <2>3, <2>4 DEF RunOpRead
<1> QED
  BY <1>2, <1>3, <1>4, <1>5, <1>6, <1>7

\* A step from one wait to the next, each safe in the phase of the run.
LEMMA RunNextOK ==
    ASSUME ControlInv, NEW w \in Waits \ Undoing, NEW v \in Waits \ Undoing,
           Call("run", w), RunGoes(v), UNCHANGED durVars,
           Kept /\ Effect(RpcAt[w]) /\ run'.phase = run.phase /\ phase' = phase /\ run.at = w
             => PlaceOK(v, run.phase)' /\ WaitOK(v)'
    PROVE  ControlInv'
<1>1. Suspends({v}) /\ run'.phase = run.phase /\ phase' = phase /\ run.at = w
  BY GoesSuspends DEF ControlInv, LocalOK, Suspends, durVars, Call, At
<1>2. Effect(RpcAt[w])
  BY Called DEF ControlInv, Procs
<1> QED
  BY <1>1, <1>2, RunSuspendsOK

\* TAIL_CAUGHT_UP.
LEMMA RunCutsOverOK ==
    ASSUME ControlInv, RunFencePrepare \/ RunFenceSet \/ RunCutover \/ RunActivate
    PROVE  ControlInv'
<1>0. /\ {"fence_prepare", "fence_set", "cutover", "activate", "tail_ack", "tail_read"}
           \subseteq Waits \ Undoing
      /\ ControlInv
  BY WaitNames DEF Undoing
<1>1. CASE RunFencePrepare
  <2>1. ASSUME Kept, run'.phase = run.phase, run.at = "fence_prepare"
        PROVE  PlaceOK("fence_set", run.phase)' /\ WaitOK("fence_set")'
    BY <1>0, <2>1 DEF Kept, PlaceOK, WaitOK, ControlInv, LocalOK, Undoing
  <2> QED
    BY <1>0, <1>1, <2>1, RunNextOK DEF RunFencePrepare
<1>2. CASE RunFenceSet
  <2>1. PICK v \in {"tail_ack", "tail_read"} : v = TailStart
    BY DEF TailStart
  <2>2. ASSUME Effect(RpcAt["fence_set"]), run'.phase = run.phase, run.at = "fence_set"
        PROVE  PlaceOK(v, run.phase)' /\ WaitOK(v)'
    <3>1. run'.phase = CAUGHT_UP
      BY <1>0, <2>2 DEF ControlInv, LocalOK, PlaceOK
    <3>2. Fenced'
      BY <1>0, <2>2 DEF Effect, RpcAt, Fenced, ControlInv, StateOK
    <3> QED
      BY <2>1, <3>1, <3>2 DEF PlaceOK, WaitOK, Undoing
  <2> QED
    BY <1>0, <1>2, <2>1, <2>2, RunNextOK DEF RunFenceSet
<1>3. CASE RunCutover
  <2>1. ASSUME Effect(RpcAt["cutover"]), run'.phase = run.phase, run.at = "cutover"
        PROVE  PlaceOK("activate", run.phase)' /\ WaitOK("activate")'
    <3>1. cut'
      BY <2>1 DEF Effect, RpcAt
    <3> QED
      BY <1>0, <2>1, <3>1 DEF PlaceOK, WaitOK, ControlInv, LocalOK, Undoing
  <2> QED
    BY <1>0, <1>3, <2>1, RunNextOK DEF RunCutover
<1>4. CASE RunActivate
  <2>1. Effect(RpcAt["activate"])
    BY <1>0, <1>4, Called DEF RunActivate, ControlInv, Procs
  <2>2. serving'
    BY <2>1 DEF Effect, RpcAt
  <2> QED
    BY <1>0, <1>4, <2>2, RunAdvancesOK DEF RunActivate
<1> QED
  BY <1>1, <1>2, <1>3, <1>4

\* DUAL_WRITE_OPEN and CATALOG_CUT_OVER.
LEMMA RunDrainsOK ==
    ASSUME ControlInv,
           \/ RunStop \/ RunDrop
           \/ RunFinishSource \/ RunFenceClean \/ RunFinishDest \/ RunComplete
    PROVE  ControlInv'
<1>0. /\ {"stop", "drop", "finish_source", "fence_clean", "finish_dest", "complete"}
           \subseteq Waits \ Undoing
      /\ ControlInv
  BY WaitNames DEF Undoing
<1>1. CASE RunStop
  <2>1. Call("run", "stop") /\ run.phase = DUAL_WRITE
    BY <1>0, <1>1 DEF RunStop, ControlInv, LocalOK, PlaceOK, Call, At
  <2>2. CASE Advance
    BY <1>0, <2>1, <2>2, RunAdvancesOK DEF DUAL_WRITE, CAUGHT_UP
  <2>3. CASE RunGoes("drop") /\ UNCHANGED durVars
    <3>1. ASSUME run'.phase = run.phase
          PROVE  PlaceOK("drop", run.phase)' /\ WaitOK("drop")'
      BY <2>1, <3>1 DEF PlaceOK, WaitOK, Undoing
    <3> QED
      BY <1>0, <2>1, <2>3, <3>1, RunNextOK
  <2> QED
    BY <1>1, <2>2, <2>3 DEF RunStop
<1>2. CASE RunDrop
  BY <1>0, <1>2, RunEndsOK, GoesIdle DEF RunDrop, SetWork
<1>3. CASE RunFinishSource
  <2>1. ASSUME Kept, run'.phase = run.phase, run.at = "finish_source"
        PROVE  PlaceOK("fence_clean", run.phase)' /\ WaitOK("fence_clean")'
    BY <1>0, <2>1 DEF Kept, PlaceOK, WaitOK, ControlInv, LocalOK, Undoing
  <2> QED
    BY <1>0, <1>3, <2>1, RunNextOK DEF RunFinishSource
<1>4. CASE RunFenceClean
  <2>1. ASSUME run'.phase = run.phase, run.at = "fence_clean"
        PROVE  PlaceOK("finish_dest", run.phase)' /\ WaitOK("finish_dest")'
    BY <1>0, <2>1 DEF PlaceOK, WaitOK, ControlInv, LocalOK, Undoing
  <2> QED
    BY <1>0, <1>4, <2>1, RunNextOK DEF RunFenceClean
<1>5. CASE RunFinishDest
  <2>1. ASSUME Kept, run'.phase = run.phase, run.at = "finish_dest", phase' = phase
        PROVE  PlaceOK("complete", run.phase)' /\ WaitOK("complete")'
    <3>1. phase = CUT_OVER
      BY <1>0, <2>1 DEF ControlInv, LocalOK, PlaceOK, RunPhaseOK, Undoing, INIT, CAPTURE,
                        BULK_DONE, CUT_OVER
    <3> QED
      BY <1>0, <2>1, <3>1 DEF Kept, PlaceOK, WaitOK, ControlInv, LocalOK, StateOK, Undoing
  <2> QED
    BY <1>0, <1>5, <2>1, RunNextOK DEF RunFinishDest
<1>6. CASE RunComplete
  <2>1. run.phase = CUT_OVER
    BY <1>0, <1>6 DEF RunComplete, ControlInv, LocalOK, PlaceOK, Call, At
  <2> QED
    BY <1>0, <1>6, <2>1, RunAdvancesOK DEF RunComplete, CUT_OVER, CAUGHT_UP
<1> QED
  BY <1>1, <1>2, <1>3, <1>4, <1>5, <1>6

-----------------------------------------------------------------------------
(* Abort, failures and clients.                                            *)

\* abort switches the phase, also under a waiting run.
LEMMA AbortStartOK ==
    ASSUME ControlInv, AbortStart
    PROVE  ControlInv'
<1>1. StateOK' /\ Kept
  BY QuietState DEF AbortStart, ControlInv, srcVars, dstVars, catVars
<1>2. phase' = ABORTING /\ abt' = "undo_lease" /\ run' = run /\ late' = late
  BY DEF AbortStart, Goes, netVars
<1>3. RunShape' /\ WaitOK(run.at)' /\ PlaceOK(run.at, run.phase)'
  BY <1>1, <1>2, KeptWait DEF ControlInv, LocalOK, RunShape, Kept, PlaceOK
<1>4. RunPhaseOK(run.at, run.phase)'
  BY <1>2 DEF ControlInv, LocalOK, RunPhaseOK, AbortStart, Undone, ABORTING, ABORTED, INIT,
              CAPTURE, BULK_DONE, Movable, CUT_OVER
<1>5. WaitOK(abt)' /\ abt' \in Undoing \cup {"idle"}
  BY <1>2 DEF WaitOK, Undoing, Undone
<1> QED
  BY <1>1, <1>2, <1>3, <1>4, <1>5, KeptLate DEF ControlInv, LocalOK

\* A cleanup step of p goes on to v.
LEMMA GoesOK ==
    ASSUME LocalOK, LateOK, Kept, NEW p \in Procs, NEW v \in Undoing \cup {"idle"},
           At(p) \in Undoing, Goes(p, v), WaitOK(v)',
           phase' = phase \/ Undone
    PROVE  LocalOK' /\ LateOK'
<1>1. CASE p = "run"
  <2>1. CASE v = "idle"
    BY <1>1, <2>1, GoesIdle, EndsOK DEF Goes
  <2>2. CASE v \in Undoing
    <3>1. Suspends({v})
      BY <1>1, <2>2, GoesSuspends, WaitNames DEF Goes, LocalOK, Undoing
    <3>2. run'.at = v /\ RunShape' /\ abt' = abt /\ late' = late
      BY <3>1 DEF Suspends
    <3>3. PlaceOK(run.at, run.phase)' /\ RunPhaseOK(run.at, run.phase)' /\ WaitOK(run.at)'
      BY <2>2, <3>2 DEF PlaceOK, RunPhaseOK, WaitOK, Undoing
    <3>4. WaitOK(abt)'
      BY <3>2, KeptWait DEF LocalOK, WaitOK
    <3> QED
      BY <3>2, <3>3, <3>4, KeptLate DEF LocalOK
  <2> QED
    BY <2>1, <2>2
<1>2. CASE p = "abort"
  <2>1. abt' = v /\ run' = run /\ late' = late
    BY <1>2 DEF Goes, netVars
  <2>2. RunShape' /\ WaitOK(run.at)' /\ PlaceOK(run.at, run.phase)' /\ WaitOK(abt)'
    BY <2>1, KeptWait DEF LocalOK, RunShape, Kept, PlaceOK, WaitOK
  <2>3. RunPhaseOK(run.at, run.phase)'
    BY <2>1 DEF LocalOK, RunPhaseOK, Kept, Undone, ABORTING, ABORTED, INIT, CAPTURE,
                BULK_DONE, Movable, CUT_OVER
  <2> QED
    BY <2>1, <2>2, <2>3, KeptLate DEF LocalOK
<1> QED
  BY <1>1, <1>2 DEF Procs

\* runAbortCleanup, called by abort or by runSplit.
LEMMA UndoOK ==
    ASSUME ControlInv, NEW p \in Procs, Undo(p)
    PROVE  ControlInv'
<1>0. ControlInv /\ LocalOK /\ LateOK /\ StateOK /\ Undoing \subseteq Waits
  BY WaitNames DEF ControlInv, Undoing
<1>1. ASSUME NEW w \in Undoing, Call(p, w)
      PROVE  At(p) = w /\ Undone /\ SentOK(RpcAt[w]) /\ Effect(RpcAt[w])
  BY <1>0, <1>1, Called, AtOK DEF Call, WaitOK
<1>2. ASSUME NEW w \in Undoing, NEW v \in Undoing, UndoStep(p, w, v)
      PROVE  ControlInv'
  <2>1. StateOK' /\ Kept /\ phase' = phase
    BY <1>0, <1>1, <1>2, ServedState DEF UndoStep, PhaseStep, durVars
  <2>2. op' = "aborted"
    <3>1. CASE w = "undo_lease"
      <4>1. Effect("abortTopologyOperation")
        BY <1>1, <1>2, <3>1 DEF UndoStep, RpcAt
      <4> QED
        BY <4>1 DEF Effect
    <3>2. CASE w # "undo_lease"
      BY <1>0, <1>1, <1>2, <2>1, <3>2, AtOK DEF UndoStep, Kept, WaitOK
    <3> QED
      BY <3>1, <3>2
  <2>3. WaitOK(v)'
    BY <1>1, <1>2, <2>1, <2>2 DEF UndoStep, Kept, WaitOK, Undoing
  <2> QED
    BY <1>0, <1>1, <1>2, <2>1, <2>3, GoesOK DEF UndoStep, ControlInv
<1>3. CASE UndoBatch(p)
  <2>1. PhaseStep /\ Call(p, "undo_batch") /\ Goes(p, "idle")
    BY <1>3 DEF UndoBatch, PhaseStep
  <2>2. StateOK' /\ Kept
    BY <1>0, <1>1, <2>1, ServedState DEF Undoing
  <2>3. WaitOK("idle")'
    BY DEF WaitOK, Undoing
  <2>4. At(p) \in Undoing /\ Undone
    BY <1>1, <2>1 DEF Undoing
  <2> QED
    BY <1>0, <2>1, <2>2, <2>3, <2>4, GoesOK DEF ControlInv
<1> QED
  BY <1>2, <1>3 DEF Undo, UndoLease, UndoFence, UndoSource, UndoBegin, Undoing

\* What a failed process had sent was safe to send.
LEMMA InFlightOK ==
    ASSUME LocalOK, NEW p \in Procs, NEW r \in InFlight(p)
    PROVE  SentOK(r.rpc)
<1>1. At(p) \in Waits /\ r = Request(p)
  BY AtOK DEF InFlight
<1> QED
  BY <1>1, AtOK, WaitSends, RequestRpc

\* A failed call and a restart.
LEMMA FaultOK ==
    ASSUME ControlInv, Crash \/ \E p \in Procs : Fail(p)
    PROVE  ControlInv'
<1>0. LocalOK /\ LateOK /\ StateOK
  BY DEF ControlInv
<1>1. StateOK' /\ Kept /\ phase' = phase
  BY <1>0, QuietState DEF Crash, Fail, srcVars, dstVars, durVars, catVars, PhaseStep
<1>2. late' \subseteq late \cup InFlight("run") \cup InFlight("abort")
  BY DEF Crash, Fail, Procs
<1>3. LateOK'
  <2> SUFFICES ASSUME NEW r \in late' PROVE SentOK(r.rpc)'
    BY DEF LateOK
  <2>1. SentOK(r.rpc)
    BY <1>0, <1>2, InFlightOK DEF LateOK, Procs
  <2> QED
    BY <1>1, <2>1, KeptSent
<1>4. (run' = NoRun \/ run' = run) /\ (abt' = "idle" \/ abt' = abt)
  BY DEF Crash, Fail
<1>5. RunShape' /\ WaitOK(run.at)' /\ PlaceOK(run.at, run.phase)' /\ RunPhaseOK(run.at, run.phase)'
  <2>1. CASE run' = NoRun
    <3>1. run'.at = "idle" /\ RunShape'
      BY <2>1 DEF NoRun, RunShape
    <3> QED
      BY <3>1 DEF WaitOK, PlaceOK, RunPhaseOK, Undoing
  <2>2. CASE run' = run
    BY <1>0, <1>1, <2>2, KeptWait DEF LocalOK, RunShape, Kept, WaitOK, PlaceOK, RunPhaseOK
  <2> QED
    BY <1>4, <2>1, <2>2
<1>6. WaitOK(abt)' /\ abt' \in Undoing \cup {"idle"}
  BY <1>0, <1>1, <1>4, KeptWait DEF LocalOK, WaitOK, Undoing
<1> QED
  BY <1>1, <1>3, <1>5, <1>6 DEF ControlInv, LocalOK

\* A step that changes no process.
LEMMA ProcessesStay ==
    ASSUME LocalOK, Kept, UNCHANGED <<phase, run, abt>>
    PROVE  LocalOK'
<1>1. RunShape' /\ WaitOK(run.at)' /\ PlaceOK(run.at, run.phase)' /\ WaitOK(abt)'
  BY KeptWait DEF LocalOK, RunShape, Kept, PlaceOK, WaitOK
<1>2. RunPhaseOK(run.at, run.phase)'
  BY DEF LocalOK, RunPhaseOK, Undone
<1> QED
  BY <1>1, <1>2 DEF LocalOK

\* A late request is executed or refused.
LEMMA DeliverOK ==
    ASSUME ControlInv, NEW r \in late, Deliver(r)
    PROVE  ControlInv'
<1>1. UNCHANGED <<phase, run, abt>> /\ late' \subseteq late
  BY DEF Deliver, durVars, runVars
<1>2. StateOK' /\ Kept
  <2>1. CASE Accepts(r) /\ Serves(r)
    BY <1>1, <2>1, ServedEffect, ServedState DEF ControlInv, LateOK, PhaseStep
  <2>2. CASE UNCHANGED <<srcVars, dstVars, catVars>>
    BY <1>1, <2>2, QuietState DEF ControlInv, srcVars, dstVars, catVars, PhaseStep
  <2> QED
    BY <2>1, <2>2 DEF Deliver
<1> QED
  BY <1>1, <1>2, ProcessesStay, KeptLate DEF ControlInv

\* Mutations leave the control state alone.
LEMMA ClientsOK ==
    ASSUME ControlInv, NEW m, MutateAtSource(m) \/ MutateAtDest(m)
    PROVE  ControlInv'
<1>1. /\ UNCHANGED <<phase, run, abt, late>>
      /\ UNCHANGED <<fence, src, dropPos, serving, op, cut>>
  BY DEF MutateAtSource, MutateAtDest, SourceMutate, DestMutate, srcVars, dstVars, durVars,
         catVars, runVars, netVars
<1>2. StateOK' /\ Kept
  BY <1>1, QuietState DEF ControlInv, PhaseStep
<1> QED
  BY <1>1, <1>2, ProcessesStay, KeptLate DEF ControlInv

-----------------------------------------------------------------------------
(* The theorems.                                                           *)

\* A recorded migration starts out in agreement.
LEMMA InitControl ==
    ASSUME Init
    PROVE  ControlInv
<1>1. StateOK
  BY DEF Init, SrcInit, DstInit, StateOK, Phases, INIT, Fenced, Passed, Undone, CAUGHT_UP,
         DUAL_WRITE, CUT_OVER, DRAINED, ABORTING, ABORTED
<1>2. RunShape /\ run.at = "idle"
  BY DEF Init, NoRun, RunShape
<1>3. LocalOK
  BY <1>2 DEF Init, LocalOK, PlaceOK, RunPhaseOK, WaitOK, Undoing
<1> QED
  BY <1>1, <1>3 DEF Init, LateOK, ControlInv

\* Every step keeps the invariant.
LEMMA NextControl ==
    ASSUME ControlInv, [Next]_vars
    PROVE  ControlInv'
<1>1. CASE RunStep
  BY <1>1, RunStartOK, RunOpensOK, RunCapturesOK, RunReplaysOK, RunCutsOverOK, RunDrainsOK,
     UndoOK DEF RunStep, Procs
<1>2. CASE AbortStart
  BY <1>2, AbortStartOK
<1>3. CASE AbortStep
  BY <1>3, UndoOK DEF AbortStep, Procs
<1>4. CASE Crash \/ \E p \in Procs : Fail(p)
  BY <1>4, FaultOK
<1>5. CASE \E r \in late : Deliver(r)
  BY <1>5, DeliverOK
<1>6. CASE \E m \in Muts : MutateAtSource(m) \/ MutateAtDest(m)
  BY <1>6, ClientsOK
<1>7. CASE UNCHANGED vars
  BY <1>7 DEF ControlInv, vars, srcVars, dstVars, durVars, catVars, runVars,
              netVars, StateOK, LocalOK, LateOK, RunShape, PlaceOK, RunPhaseOK, WaitOK,
              SentOK, Passed, Fenced, Undone
<1> QED
  BY <1>1, <1>2, <1>3, <1>4, <1>5, <1>6, <1>7 DEF Next

\* In every reachable state the phase, the fence, the lease, the cutover, the
\* serving flag and the drain agree, and every request that is or may still be
\* under way is safe to execute.
THEOREM ControlInvariant == Spec => []ControlInv
BY InitControl, NextControl, PTL DEF Spec

\* The source and the destination never both admit writes.
THEOREM OneWriter == Spec => []SingleWriter
<1>1. ControlInv => SingleWriter
  BY DEF ControlInv, StateOK, SingleWriter, SourceAdmits, DestAdmits, Fenced
<1> QED
  BY <1>1, ControlInvariant, PTL

\* A published cutover is fenced, its lease is not aborted, its phase only goes
\* on to the end.
THEOREM CutoversAreFinal == Spec => []CutoverIsFinal
<1>1. ControlInv => CutoverIsFinal
  BY DEF ControlInv, StateOK, CutoverIsFinal, Fenced, Passed, CAUGHT_UP, DUAL_WRITE, CUT_OVER,
         DRAINED
<1> QED
  BY <1>1, ControlInvariant, PTL

\* The source is drained only after the destination serves, or by an abort.
THEOREM DrainsAreServed == Spec => []DrainedOnlyWhenServing
<1>1. ControlInv => DrainedOnlyWhenServing
  BY DEF ControlInv, StateOK, DrainedOnlyWhenServing
<1> QED
  BY <1>1, ControlInvariant, PTL

-----------------------------------------------------------------------------
(* How a movement ends: what both Cdbs hold when it is over or undone.     *)

\* A row map as far as these facts read it.
IsRows(rows)      == rows = [k \in Keys |-> rows[k]]
Empty(rows, upto) == \A k \in Keys : k <= upto => rows[k] = NoRow

\* The source: a drained one captures nothing, and a drain deletes in order.
SourceEndOK ==
    /\ IsRows(srcRows) /\ dropPos \in 0..NKeys
    /\ src = "drained" => tailLog = <<>> /\ opLog = <<>>
    /\ serving => Empty(srcRows, dropPos)

\* The destination: nothing arrives before it is begun or stays after an abort,
\* and its outcomes are the copied ones until clients write to it.
DestEndOK ==
    /\ IsRows(dstRows) /\ abortPos \in 0..NKeys
    /\ dst \in {"none", "prepared", "live", "aborting", "aborted", "done"}
    /\ dst \in {"none", "prepared", "aborted"} => dstRows = NoRows /\ dstOps = {}
    /\ serving => dst \in {"live", "done"}
    /\ dst = "done" => serving
    /\ dst \in {"aborting", "aborted"} => op = "aborted"
    /\ Empty(dstRows, abortPos)
    /\ dst # "aborting" => abortPos = 0
    /\ ~serving /\ dst # "aborted" => opMine = dstOps

\* The Catalog's record.
RecordEndOK ==
    /\ op \in {"active", "completed", "aborted"}
    /\ op = "completed" => cut

\* What the phase says of the drain, the finish and the cleanup.
PhaseEndOK ==
    /\ phase = DUAL_WRITE /\ tableIdx >= 1 => srcRows = NoRows
    /\ phase \in {CUT_OVER, DRAINED} => srcRows = NoRows
    /\ phase = DRAINED => /\ dst = "done" /\ op = "completed"
                          /\ src = "drained" /\ fence = "cleaned"
    /\ phase = ABORTED => /\ dst = "aborted" /\ op = "aborted" /\ src = "drained"

\* What was done before a request of the cleanup or of the finish was sent.
EndSentOK(rpc) ==
    /\ rpc \in {"beginReshardDestAbort", "abortReshardDestBatch"} => src = "drained"
    /\ rpc = "abortReshardDestBatch" => dst \in {"aborting", "aborted"}
    /\ rpc \in {"completeRoutingFenceCleanup", "finishReshardDest",
                "completeTopologyOperation"} => src = "drained"
    /\ rpc \in {"finishReshardDest", "completeTopologyOperation"} => fence = "cleaned"
    /\ rpc = "completeTopologyOperation" => dst = "done"

\* And what the run knows: it works on the range its drain emptied.
EndRunOK ==
    /\ run.phase = DUAL_WRITE /\ run.at \in Waits \ Undoing /\ run.idx >= 1 => srcRows = NoRows
    /\ run.at \in Waits => EndSentOK(RpcAt[run.at])
    /\ abt \in Waits => EndSentOK(RpcAt[abt])
EndLateOK == \A r \in late : EndSentOK(r.rpc)

ObjectsEnd == SourceEndOK /\ DestEndOK /\ RecordEndOK
EndInv     == ObjectsEnd /\ PhaseEndOK /\ EndRunOK /\ EndLateOK

\* What the objects never take back on the way to an end.
EndKept ==
    /\ src = "drained" => src' = "drained"
    /\ fence = "cleaned" => fence' = "cleaned"
    /\ dst \in {"aborting", "aborted"} => dst' \in {"aborting", "aborted"}
    /\ dst = "aborted" => dst' = "aborted"
    /\ dst = "done" => dst' = "done"
    /\ op = "completed" => op' = "completed"
    /\ serving /\ srcRows = NoRows => srcRows' = NoRows

\* A row map of which every row is absent.
LEMMA EmptyRows ==
    ASSUME NEW rows, IsRows(rows), NEW n \in Nat, NKeys <= n, Empty(rows, n)
    PROVE  rows = NoRows
BY DataAssumption DEF IsRows, Empty, NoRows, Keys

\* The first rows of an emptied store.
LEMMA NoRowsEmpty ==
    ASSUME NEW n \in Nat
    PROVE  IsRows(NoRows) /\ Empty(NoRows, n)
BY DEF IsRows, Empty, NoRows

\* One more row is deleted.
LEMMA EmptyOneMore ==
    ASSUME NEW rows, IsRows(rows), NEW n \in 0..NKeys, n < NKeys, Empty(rows, n)
    PROVE  /\ IsRows([rows EXCEPT ![n + 1] = NoRow])
           /\ Empty([rows EXCEPT ![n + 1] = NoRow], n + 1)
           /\ rows = NoRows => [rows EXCEPT ![n + 1] = NoRow] = NoRows
<1> DEFINE new == [rows EXCEPT ![n + 1] = NoRow]
<1>1. n + 1 \in Keys /\ DOMAIN rows = Keys
  BY DataAssumption DEF Keys, IsRows
<1>2. new = [k \in Keys |-> IF k = n + 1 THEN NoRow ELSE rows[k]]
  BY <1>1
<1>3. IsRows(new)
  BY <1>2 DEF IsRows
<1>4. Empty(new, n + 1)
  BY <1>2 DEF Empty, Keys
<1>5. rows = NoRows => new = NoRows
  BY <1>2 DEF NoRows
<1> QED
  BY <1>3, <1>4, <1>5

\* The source's handlers.
LEMMA SourceEnds ==
    ASSUME StateOK, ObjectsEnd, NEW r, SentOK(r.rpc), EndSentOK(r.rpc),
           SourceAccepts(r), SourceServes(r), UNCHANGED <<dstVars, catVars>>
    PROVE  ObjectsEnd' /\ EndKept
<1>0. /\ UNCHANGED <<dst, serving, dstRows, dstOps, opMine, abortPos, op, cut>>
      /\ SourceEndOK /\ DestEndOK /\ RecordEndOK
  BY DEF dstVars, dstCopy, catVars, ObjectsEnd
<1>1. DestEndOK' /\ RecordEndOK'
  BY <1>0 DEF DestEndOK, RecordEndOK, Empty, IsRows
<1>2. CASE r.rpc = "dropMigratedRange"
  <2>1. DropMigratedRange /\ src = "draining"
    BY <1>2 DEF SourceServes, SourceReads, SourceAccepts, DropMigratedRangeOk
  <2>2. CASE dropPos < NKeys
    <3>1. /\ srcRows' = [srcRows EXCEPT ![dropPos + 1] = NoRow] /\ dropPos' = dropPos + 1
          /\ UNCHANGED <<src, fence, tailLog, opLog>>
      BY <2>1, <2>2 DEF DropMigratedRange, srcCopy
    <3>2. serving
      BY <2>1 DEF StateOK
    <3>3. /\ IsRows([srcRows EXCEPT ![dropPos + 1] = NoRow])
          /\ Empty([srcRows EXCEPT ![dropPos + 1] = NoRow], dropPos + 1)
          /\ srcRows = NoRows => [srcRows EXCEPT ![dropPos + 1] = NoRow] = NoRows
      BY <1>0, <2>2, <3>2, EmptyOneMore DEF SourceEndOK
    <3>4. IsRows(srcRows)' /\ Empty(srcRows, dropPos)'
      BY <3>1, <3>3 DEF IsRows, Empty
    <3>5. SourceEndOK'
      BY <1>0, <2>1, <2>2, <3>1, <3>4, DataAssumption DEF SourceEndOK
    <3> QED
      BY <1>0, <1>1, <3>1, <3>3, <3>5 DEF ObjectsEnd, EndKept
  <2>3. CASE ~(dropPos < NKeys)
    <3>1. UNCHANGED <<src, fence, srcRows, tailLog, opLog, dropPos>>
      BY <2>1, <2>3 DEF DropMigratedRange, srcCopy
    <3> QED
      BY <1>0, <1>1, <3>1 DEF ObjectsEnd, EndKept, SourceEndOK, Empty, IsRows
  <2> QED
    BY <2>2, <2>3
<1>3. CASE r.rpc \in {"finishReshardSource", "abortReshardSource"}
  <2>1. UNCHANGED srcVars \/ ClearCapture
    BY <1>3 DEF SourceServes, SourceReads, FinishReshardSource, AbortReshardSource
  <2>2. /\ UNCHANGED <<fence, srcRows>> /\ (src = "drained" => src' = "drained")
        /\ dropPos' \in {0, dropPos}
        /\ (tailLog' = <<>> /\ opLog' = <<>>) \/ UNCHANGED <<src, tailLog, opLog>>
    BY <2>1 DEF ClearCapture, srcVars, srcCopy
  <2>3. SourceEndOK'
    BY <1>0, <2>2, DataAssumption DEF SourceEndOK, Empty, IsRows, Keys
  <2> QED
    BY <1>0, <1>1, <2>2, <2>3 DEF ObjectsEnd, EndKept
<1>4. CASE r.rpc \notin {"dropMigratedRange", "finishReshardSource", "abortReshardSource"}
  <2>1. UNCHANGED <<srcRows, dropPos>>
    BY <1>4 DEF SourceServes, SourceReads, srcVars, srcCopy, BeginReshardSource, AckTail,
           AckSplitOpLog, SeedSplitOpLogPage, PrepareRoutingFence, ActivateRoutingFence,
           CompleteRoutingFenceCleanup, CancelRoutingFenceBeforeCutover, StopReshardCapture
  <2>2. /\ src' # "drained" \/ UNCHANGED <<src, tailLog, opLog>>
        /\ src = "drained" => src' = "drained"
    BY <1>4 DEF SourceServes, SourceReads, SourceAccepts, SourceMoving, BeginReshardSourceOk,
           srcVars, srcCopy, BeginReshardSource, AckTail, AckTailOk,
           AckSplitOpLog, AckSplitOpLogOk, SeedSplitOpLogPage, PrepareRoutingFence,
           ActivateRoutingFence, CompleteRoutingFenceCleanup,
           CancelRoutingFenceBeforeCutover, StopReshardCapture
  <2>3. fence = "cleaned" => fence' = "cleaned"
    BY <1>4 DEF SourceServes, SourceReads, SourceAccepts, CancelRoutingFenceOk,
           srcVars, srcCopy, BeginReshardSource, AckTail,
           AckSplitOpLog, SeedSplitOpLogPage, PrepareRoutingFence,
           ActivateRoutingFence, CompleteRoutingFenceCleanup,
           CancelRoutingFenceBeforeCutover, StopReshardCapture
  <2>4. SourceEndOK'
    BY <1>0, <2>1, <2>2 DEF SourceEndOK, Empty, IsRows
  <2> QED
    BY <1>0, <1>1, <2>1, <2>2, <2>3, <2>4 DEF ObjectsEnd, EndKept
<1> QED
  BY <1>2, <1>3, <1>4

\* The destination's handlers: data arrives only while it is live.
LEMMA DestEnds ==
    ASSUME StateOK, ObjectsEnd, NEW r, SentOK(r.rpc), EndSentOK(r.rpc),
           DestAccepts(r), DestServes(r), UNCHANGED <<srcVars, catVars>>
    PROVE  ObjectsEnd' /\ EndKept
<1>0. /\ UNCHANGED <<src, fence, srcRows, dropPos, tailLog, opLog, op, cut>>
      /\ SourceEndOK /\ DestEndOK /\ RecordEndOK
  BY DEF srcVars, srcCopy, catVars, ObjectsEnd
<1>1. RecordEndOK' /\ UNCHANGED <<src, fence, srcRows, op>>
  BY <1>0 DEF RecordEndOK
<1>2. SUFFICES /\ DestEndOK'
               /\ serving' # serving => serving' /\ dropPos = 0
               /\ dst \in {"aborting", "aborted"} => dst' \in {"aborting", "aborted"}
               /\ dst = "aborted" => dst' = "aborted"
               /\ dst = "done" => dst' = "done"
  <2>1. SourceEndOK'
    BY <1>0, <1>2, DataAssumption DEF SourceEndOK, Empty, IsRows, Keys
  <2> QED
    BY <1>0, <1>1, <1>2, <2>1 DEF ObjectsEnd, EndKept
<1> USE <1>0
<1>3. CASE r.rpc \in {"prepareReshardDestOwnership", "provisionFreshReshardDestination",
                      "beginReshardDest", "closeReshardBulkDest", "stageTailBatch",
                      "readStagedTailBatch", "ackStagedTail", "closeTailStaging"}
  <2>1. UNCHANGED <<serving, dstRows, dstOps, opMine, abortPos>>
    BY <1>3 DEF DestServes, dstVars, dstCopy, PrepareReshardDestOwnership,
           ProvisionFreshReshardDestination, BeginReshardDest, CloseReshardBulkDest,
           StageTailBatch, AckStagedTail, CloseTailStaging
  <2>2. \/ dst' = dst
        \/ dst = "none" /\ dst' = "prepared"
        \/ dst \in {"none", "prepared", "live"} /\ dst' = "live" /\ ~serving
    BY <1>3 DEF DestServes, DestAccepts, dstVars, dstCopy, PrepareReshardDestOwnership,
           ProvisionFreshReshardDestination, BeginReshardDest, BeginReshardDestOk,
           CloseReshardBulkDest, StageTailBatch, AckStagedTail, CloseTailStaging
  <2> QED
    BY <2>1, <2>2 DEF DestEndOK, Empty, IsRows
<1>4. CASE r.rpc \in {"applyBulkBatch", "applyTailBatch"}
  <2>1. dst = "live" /\ UNCHANGED <<dst, serving, dstOps, opMine, abortPos>>
    BY <1>4 DEF DestServes, DestAccepts, ApplyBulkBatch, ApplyTailBatch, dstCopy,
           ApplyBulkBatchOk, DestMoving
  <2>2. abortPos = 0
    BY <2>1 DEF DestEndOK
  <2>3. \/ \E k, v : dstRows' = [dstRows EXCEPT ![k] = v]
        \/ \E b : dstRows' = Replay(dstRows, b)
    BY <1>4 DEF DestServes, ApplyBulkBatch, ApplyTailBatch
  <2>4. CASE \E k, v : dstRows' = [dstRows EXCEPT ![k] = v]
    <3>1. PICK k, v : dstRows' = [dstRows EXCEPT ![k] = v]
      BY <2>4
    <3>2. DOMAIN dstRows = Keys
      BY DEF DestEndOK, IsRows
    <3>3. IsRows([dstRows EXCEPT ![k] = v])
      BY <3>2 DEF IsRows
    <3> QED
      BY <3>1, <3>3 , <2>1, <2>2, DataAssumption DEF DestEndOK, Empty, IsRows, Keys
  <2>5. CASE \E b : dstRows' = Replay(dstRows, b)
    <3>1. PICK b : dstRows' = Replay(dstRows, b)
      BY <2>5
    <3>2. IsRows(Replay(dstRows, b))
      BY DEF IsRows, Replay
    <3>3. IsRows(dstRows)'
      BY <3>1, <3>2 DEF IsRows
    <3> QED
      BY <3>3 , <2>1, <2>2, DataAssumption DEF DestEndOK, Empty, Keys
  <2> QED
    BY <2>3, <2>4, <2>5
<1>5. CASE r.rpc = "applySplitOpLogBatch"
  <2>1. dst = "live" /\ UNCHANGED <<dst, serving, dstRows, abortPos>>
    BY <1>5 DEF DestServes, DestAccepts, ApplySplitOpLogBatch, ApplySplitOpLogBatchOk,
           DestMoving
  <2>2. opMine = dstOps => opMine' = dstOps'
    <3>1. PICK ops : opMine' = opMine \cup (ops \ dstOps) /\ dstOps' = dstOps \cup ops
      BY <1>5 DEF DestServes, ApplySplitOpLogBatch
    <3> QED
      BY <3>1
  <2> QED
    BY <2>1, <2>2 DEF DestEndOK, Empty, IsRows
<1>6. CASE r.rpc = "activateReshardDestServing"
  <2>1. cut /\ dst \in {"live", "done"}
    BY <1>6 DEF SentOK, DestAccepts, ActivateReshardDestServingOk
  <2>2. serving' = TRUE /\ UNCHANGED <<dst, dstRows, dstOps, opMine, abortPos>>
    BY <1>6 DEF DestServes, ActivateReshardDestServing, dstCopy
  <2>3. ~serving => dropPos = 0
    BY DEF StateOK
  <2> QED
    BY <2>1, <2>2, <2>3 DEF DestEndOK, Empty, IsRows
<1>7. CASE r.rpc = "beginReshardDestAbort"
  <2>1. op = "aborted" /\ ~serving
    BY <1>7 DEF SentOK, DestAccepts, BeginReshardDestAbortOk
  <2>2. UNCHANGED <<serving, dstRows, dstOps, opMine, abortPos>>
    BY <1>7 DEF DestServes, BeginReshardDestAbort
  <2>3. \/ dst \in {"none", "prepared"} /\ dst' = "aborted"
        \/ dst = "live" /\ dst' = "aborting"
        \/ dst \notin {"none", "prepared", "live"} /\ dst' = dst
    BY <1>7 DEF DestServes, BeginReshardDestAbort
  <2> QED
    BY <2>1, <2>2, <2>3 DEF DestEndOK, Empty, IsRows
<1>8. CASE r.rpc = "abortReshardDestBatch"
  <2>1. serving' = serving /\ AbortReshardDestBatch
    BY <1>8 DEF DestServes, AbortReshardDestBatch
  <2>2. CASE dst # "aborting"
    <3>1. UNCHANGED <<dst, serving, dstRows, dstOps, opMine, abortPos>>
      BY <2>1, <2>2 DEF AbortReshardDestBatch, dstVars, dstCopy
    <3> QED
      BY <3>1 DEF DestEndOK, Empty, IsRows
  <2>3. CASE dst = "aborting" /\ abortPos < NKeys
    <3>1. /\ dstRows' = [dstRows EXCEPT ![abortPos + 1] = NoRow] /\ abortPos' = abortPos + 1
          /\ UNCHANGED <<dst, serving, dstOps, opMine>>
      BY <2>1, <2>3 DEF AbortReshardDestBatch, dstCopy
    <3>2. /\ IsRows([dstRows EXCEPT ![abortPos + 1] = NoRow])
          /\ Empty([dstRows EXCEPT ![abortPos + 1] = NoRow], abortPos + 1)
      BY <2>3, EmptyOneMore DEF DestEndOK
    <3>3. IsRows(dstRows)' /\ Empty(dstRows, abortPos)' /\ (abortPos \in 0..NKeys)'
      BY <2>3, <3>1, <3>2, DataAssumption DEF IsRows, Empty, DestEndOK
    <3> QED
      BY <2>3, <3>1, <3>3 DEF DestEndOK
  <2>4. CASE dst = "aborting" /\ ~(abortPos < NKeys)
    <3>1. /\ dst' = "aborted" /\ dstOps' = dstOps \ opMine
          /\ abortPos' = 0 /\ UNCHANGED <<serving, dstRows>>
      BY <2>1, <2>4 DEF AbortReshardDestBatch, ReleaseTransferState
    <3>2. ~serving /\ opMine = dstOps /\ op = "aborted"
      BY <2>4 DEF DestEndOK
    <3>3. dstRows = NoRows
      BY <2>4, EmptyRows, DataAssumption DEF DestEndOK
    <3>4. IsRows(dstRows)' /\ Empty(dstRows, abortPos)'
      BY <3>1, <3>3 DEF IsRows, Empty, NoRows, DestEndOK
    <3> QED
      BY <2>4, <3>1, <3>2, <3>3, <3>4, DataAssumption DEF DestEndOK
  <2> QED
    BY <2>2, <2>3, <2>4
<1>9. CASE r.rpc = "finishReshardDest"
  <2>1. serving /\ dst' = "done" /\ abortPos' = 0 /\ UNCHANGED <<serving, dstRows>>
    BY <1>9 DEF DestServes, DestAccepts, FinishReshardDestOk, FinishReshardDest,
           ReleaseTransferState
  <2> QED
    BY <2>1, DataAssumption DEF DestEndOK, Empty, IsRows, Keys
<1> QED
  BY <1>3, <1>4, <1>5, <1>6, <1>7, <1>8, <1>9 DEF DestServes

\* The Catalog's handlers.
LEMMA CatalogEnds ==
    ASSUME StateOK, ObjectsEnd, NEW r, CatalogAccepts(r), CatalogServes(r),
           UNCHANGED <<srcVars, dstVars>>
    PROVE  ObjectsEnd' /\ EndKept
<1>1. UNCHANGED <<src, fence, srcRows, dropPos, tailLog, opLog,
                  dst, serving, dstRows, dstOps, opMine, abortPos>>
  BY DEF srcVars, srcCopy, dstVars, dstCopy
<1>2. /\ op \in {"active", "completed", "aborted"} => op' \in {"active", "completed", "aborted"}
      /\ op' = "completed" => op = "completed" \/ cut'
      /\ cut => cut'
      /\ op = "completed" => op' = "completed"
      /\ op = "aborted" => op' = "aborted"
  BY DEF CatalogAccepts, CatalogServes
<1> QED
  BY <1>1, <1>2 DEF ObjectsEnd, EndKept, SourceEndOK, DestEndOK, RecordEndOK, Empty, IsRows

\* Any request that was safe to send.
LEMMA ServedEnds ==
    ASSUME StateOK, ObjectsEnd, NEW r, SentOK(r.rpc), EndSentOK(r.rpc),
           Accepts(r), Serves(r)
    PROVE  ObjectsEnd' /\ EndKept
<1>1. CASE SourceServes(r) /\ UNCHANGED <<dstVars, catVars>>
  <2>1. SourceAccepts(r)
    BY <1>1 DEF Accepts, SourceServes, SourceReads, DestAccepts, CatalogAccepts
  <2> QED
    BY <1>1, <2>1, SourceEnds
<1>2. CASE DestServes(r) /\ UNCHANGED <<srcVars, catVars>>
  <2>1. DestAccepts(r)
    BY <1>2 DEF Accepts, DestServes, SourceAccepts, CatalogAccepts
  <2> QED
    BY <1>2, <2>1, DestEnds
<1>3. CASE CatalogServes(r) /\ UNCHANGED <<srcVars, dstVars>>
  <2>1. CatalogAccepts(r)
    BY <1>3 DEF Accepts, CatalogServes, SourceAccepts, DestAccepts
  <2> QED
    BY <1>3, <2>1, CatalogEnds
<1> QED
  BY <1>1, <1>2, <1>3 DEF Serves

\* What a finished call has brought about.
LEMMA ServedFinish ==
    ASSUME StateOK, ObjectsEnd, NEW r, Accepts(r), Serves(r)
    PROVE  /\ r.rpc \in {"finishReshardSource", "abortReshardSource"} => src' = "drained"
           /\ r.rpc = "completeRoutingFenceCleanup" => fence' = "cleaned"
           /\ r.rpc = "finishReshardDest" => dst' = "done"
           /\ r.rpc = "beginReshardDestAbort" => dst' \in {"aborting", "aborted"}
           /\ r.rpc = "abortReshardDestBatch" /\ AbortReshardDestDone
                /\ dst \in {"aborting", "aborted"} => dst' = "aborted"
<1>1. ASSUME r.rpc \in {"finishReshardSource", "abortReshardSource"} PROVE src' = "drained"
  BY <1>1 DEF Serves, SourceServes, SourceReads, DestServes, CatalogServes, srcVars,
              FinishReshardSource, AbortReshardSource, ClearCapture
<1>2. ASSUME r.rpc = "completeRoutingFenceCleanup" PROVE fence' = "cleaned"
  BY <1>2 DEF StateOK, Accepts, SourceAccepts, DestAccepts, CatalogAccepts, Serves,
              SourceServes, SourceReads, DestServes, CatalogServes,
              CompleteRoutingFenceCleanupOk, CompleteRoutingFenceCleanup
<1>3. ASSUME r.rpc = "finishReshardDest" PROVE dst' = "done"
  BY <1>3 DEF Serves, SourceServes, SourceReads, DestServes, CatalogServes, FinishReshardDest
<1>4. ASSUME r.rpc = "beginReshardDestAbort" PROVE dst' \in {"aborting", "aborted"}
  <2>1. /\ ~serving
        /\ \/ dst \in {"none", "prepared"} /\ dst' = "aborted"
           \/ dst = "live" /\ dst' = "aborting"
           \/ dst \notin {"none", "prepared", "live"} /\ dst' = dst
    BY <1>4 DEF Accepts, SourceAccepts, DestAccepts, CatalogAccepts, Serves, SourceServes,
                SourceReads, DestServes, CatalogServes, BeginReshardDestAbort,
                BeginReshardDestAbortOk
  <2> QED
    BY <2>1 DEF ObjectsEnd, DestEndOK
<1>5. ASSUME r.rpc = "abortReshardDestBatch", AbortReshardDestDone,
             dst \in {"aborting", "aborted"}
      PROVE  dst' = "aborted"
  <2>1. AbortReshardDestBatch /\ (dst # "aborting" \/ abortPos = NKeys)
    BY <1>5 DEF Serves, SourceServes, SourceReads, DestServes, CatalogServes,
                AbortReshardDestDone
  <2> QED
    BY <1>5, <2>1, DataAssumption DEF AbortReshardDestBatch, dstVars
<1> QED
  BY <1>1, <1>2, <1>3, <1>4, <1>5

-----------------------------------------------------------------------------
(* The steps of a run, as far as the ends are concerned.                   *)

\* runSplit continues after the RPC it waited for.
Forward ==
    \/ RunPrepareOwnership \/ RunEnsureSource
    \/ RunProvision \/ RunBeginDest \/ RunBeginSource
    \/ RunStageAck \/ RunStageRead \/ RunStageSend
    \/ RunBulkAck \/ RunBulkOpAck \/ RunBulkRead \/ RunBulkApply \/ RunBulkClose
    \/ RunInboxRead \/ RunInboxApply \/ RunInboxAck \/ RunInboxClose
    \/ RunTailAck \/ RunTailRead \/ RunTailApply
    \/ RunOpAck \/ RunOpRead \/ RunOpApply
    \/ RunFencePrepare \/ RunFenceSet \/ RunCutover \/ RunActivate
    \/ RunStop \/ RunDrop
    \/ RunFinishSource \/ RunFenceClean \/ RunFinishDest \/ RunComplete

\* The run ends or keeps what it read of the migration at its start.
KeepsRead ==
    \/ run' = NoRun
    \/ /\ run'.phase = run.phase /\ run'.tail = run.tail /\ run'.pos = run.pos
       /\ run'.turn = run.turn /\ run'.idx = run.idx

\* How a step of the run moves the phase and the table of the work cursor.
WorkMoves ==
    \/ UNCHANGED <<phase, tableIdx>>
    \/ phase' = phase /\ phase = CAPTURE
    \/ phase' = phase /\ phase = DUAL_WRITE /\ (tableIdx' = tableIdx \/ dropPos' = NKeys)
    \/ /\ phase \in Movable /\ phase' = phase + 1 /\ tableIdx' = 0 /\ run.phase = phase
       /\ phase = DUAL_WRITE => run.at = "stop" /\ run.idx >= 1
       /\ phase = CUT_OVER => run.at = "complete"

\* The ways a run goes on keep what it read.
LEMMA GoesKeep ==
    ASSUME RunShape, NEW w, NEW b, NEW n,
           RunGoes(w) \/ RunLoops(w, n) \/ RunHas(b, w)
    PROVE  KeepsRead /\ late' = late /\ abt' = abt
BY DEF RunShape, RunGoes, RunLoops, RunHas, KeepsRead, netVars

\* So do the longer continuations.
LEMMA StageKeeps ==
    ASSUME RunShape, StageReturns \/ BulkAfterTailAck \/ BulkWork
    PROVE  KeepsRead /\ late' = late /\ abt' = abt
<1>1. BulkWork => KeepsRead /\ late' = late /\ abt' = abt
  BY GoesKeep DEF BulkWork
<1>2. BulkAfterTailAck => KeepsRead /\ late' = late /\ abt' = abt
  BY <1>1, GoesKeep DEF BulkAfterTailAck
<1> QED
  BY <1>1, <1>2, GoesKeep DEF StageReturns

\* advance, from a run at w.
LEMMA AdvanceMoves ==
    ASSUME ControlInv, NEW w \in Waits \ Undoing, run.at = w, Advance,
           run.phase = DUAL_WRITE => w = "stop" /\ run.idx >= 1,
           run.phase = CUT_OVER => w = "complete"
    PROVE  WorkMoves
<1>1. w # "idle"
  BY WaitNames
<1>2. Current => phase \in Movable
  BY <1>1 DEF ControlInv, LocalOK, RunPhaseOK, Current, Undone, INIT, CAPTURE, BULK_DONE,
              ABORTING, ABORTED, Movable, CUT_OVER
<1> QED
  BY <1>2 DEF Advance, Current, WorkMoves

\* Every step of a run answers a call and keeps what the run read.
LEMMA ForwardCalls ==
    ASSUME ControlInv, Forward
    PROVE  /\ KeepsRead /\ late' = late /\ abt' = abt
           /\ run.at \in Waits \ Undoing /\ Call("run", run.at)
<1>0. RunShape
  BY DEF ControlInv, LocalOK
<1>1. ASSUME NEW w \in Waits \ Undoing, Call("run", w)
      PROVE  run.at \in Waits \ Undoing /\ Call("run", run.at)
  BY <1>1 DEF Call, At
<1>2. \A w : RunGoes(w) => KeepsRead /\ late' = late /\ abt' = abt
  BY <1>0, GoesKeep
<1>3. \A b, w : RunHas(b, w) => KeepsRead /\ late' = late /\ abt' = abt
  BY <1>0, GoesKeep
<1>4. CASE \/ RunPrepareOwnership \/ RunEnsureSource
           \/ RunProvision \/ RunBeginDest \/ RunBeginSource
  <2>1. \E w \in {"own", "ensure", "provision", "begin_dest", "begin_source"} : Call("run", w)
    BY <1>4 DEF RunPrepareOwnership, RunEnsureSource, RunProvision, RunBeginDest, RunBeginSource
  <2>2. RunEnsureSource => KeepsRead /\ late' = late /\ abt' = abt
    BY <1>0 DEF RunShape, RunEnsureSource, KeepsRead, netVars
  <2>3. ~RunEnsureSource => \E w : RunGoes(w)
    BY <1>4 DEF RunPrepareOwnership, RunProvision, RunBeginDest, RunBeginSource, Advance
  <2> QED
    BY <1>1, <1>2, <2>1, <2>2, <2>3, WaitNames DEF Undoing
<1>5. CASE RunStageAck \/ RunStageRead \/ RunStageSend \/ RunBulkAck \/ RunBulkOpAck
  <2>1. \E w \in {"stage_ack", "stage_read", "stage_send", "bulk_ack", "bulk_op_ack"} :
            Call("run", w)
    BY <1>5 DEF RunStageAck, RunStageRead, RunStageSend, RunBulkAck, RunBulkOpAck
  <2>2. \/ \E w : RunGoes(w)
        \/ \E b, w : RunHas(b, w)
        \/ StageReturns \/ BulkAfterTailAck \/ BulkWork
    BY <1>5 DEF RunStageAck, RunStageRead, RunStageSend, RunBulkAck, RunBulkOpAck
  <2> QED
    BY <1>0, <1>1, <1>2, <1>3, <2>1, <2>2, StageKeeps, WaitNames DEF Undoing
<1>6. CASE \/ RunBulkRead \/ RunBulkApply \/ RunBulkClose
           \/ RunInboxRead \/ RunInboxApply \/ RunInboxAck \/ RunInboxClose
  <2>1. \E w \in {"bulk_read", "bulk_apply", "bulk_close", "inbox_read", "inbox_apply",
                  "inbox_ack", "inbox_close"} : Call("run", w)
    BY <1>6 DEF RunBulkRead, RunBulkApply, RunBulkClose, RunInboxRead, RunInboxApply,
                RunInboxAck, RunInboxClose
  <2>2. \/ \E w : RunGoes(w)
        \/ \E b, w : RunHas(b, w)
        \/ /\ \E v : run' = [run EXCEPT !.at = "bulk_apply", !.image = v]
           /\ UNCHANGED <<abt, netVars>>
    BY <1>6 DEF RunBulkRead, RunBulkApply, RunBulkClose, RunInboxRead, RunInboxApply,
                RunInboxAck, RunInboxClose, PageCopied, SetWork, Advance
  <2>3. ASSUME NEW v, run' = [run EXCEPT !.at = "bulk_apply", !.image = v],
               UNCHANGED <<abt, netVars>>
        PROVE  KeepsRead /\ late' = late /\ abt' = abt
    BY <1>0, <2>3 DEF RunShape, KeepsRead, netVars
  <2> QED
    BY <1>1, <1>2, <1>3, <2>1, <2>2, <2>3, WaitNames DEF Undoing
<1>7. CASE RunTailAck \/ RunTailRead \/ RunTailApply \/ RunOpAck \/ RunOpRead \/ RunOpApply
  <2>1. \E w \in {"tail_ack", "tail_read", "tail_apply", "op_ack", "op_read", "op_apply"} :
            Call("run", w)
    BY <1>7 DEF RunTailAck, RunTailRead, RunTailApply, RunOpAck, RunOpRead, RunOpApply
  <2>2. \/ \E w : RunGoes(w)
        \/ \E b, w : RunHas(b, w)
        \/ \E w, n : RunLoops(w, n)
    BY <1>7 DEF RunTailAck, RunTailRead, RunTailApply, RunOpAck, RunOpRead, RunOpApply,
                OpConverged, SetWork, Advance
  <2> QED
    BY <1>0, <1>1, <1>2, <1>3, <2>1, <2>2, GoesKeep, WaitNames DEF Undoing
<1>8. CASE \/ RunFencePrepare \/ RunFenceSet \/ RunCutover \/ RunActivate \/ RunStop \/ RunDrop
           \/ RunFinishSource \/ RunFenceClean \/ RunFinishDest \/ RunComplete
  <2>1. \E w \in {"fence_prepare", "fence_set", "cutover", "activate", "stop", "drop",
                  "finish_source", "fence_clean", "finish_dest", "complete"} : Call("run", w)
    BY <1>8 DEF RunFencePrepare, RunFenceSet, RunCutover, RunActivate, RunStop, RunDrop,
                RunFinishSource, RunFenceClean, RunFinishDest, RunComplete
  <2>2. \E w : RunGoes(w)
    BY <1>8 DEF RunFencePrepare, RunFenceSet, RunCutover, RunActivate, RunStop, RunDrop,
                RunFinishSource, RunFenceClean, RunFinishDest, RunComplete, SetWork, Advance
  <2> QED
    BY <1>1, <1>2, <2>1, <2>2, WaitNames DEF Undoing
<1> QED
  BY <1>4, <1>5, <1>6, <1>7, <1>8 DEF Forward

\* Every step of a run moves the phase or the work cursor in one of these ways.
LEMMA ForwardMoves ==
    ASSUME ControlInv, Forward
    PROVE  WorkMoves
<1>0. /\ LocalOK
      /\ run.at \in Waits \ Undoing
  BY ForwardCalls DEF ControlInv
<1>1. run.phase = phase => phase \in Movable
  BY <1>0, WaitNames DEF LocalOK, RunPhaseOK, Undone, INIT, CAPTURE, BULK_DONE,
         ABORTING, ABORTED, Movable, CUT_OVER
<1>2. ASSUME Advance, run.phase \notin {DUAL_WRITE, CUT_OVER} PROVE WorkMoves
  BY <1>0, <1>2, AdvanceMoves
<1> USE DEF INIT, CAPTURE, BULK_DONE, CAUGHT_UP, DUAL_WRITE, CUT_OVER
<1>3. CASE \/ RunPrepareOwnership \/ RunEnsureSource \/ RunProvision \/ RunBeginDest
           \/ RunStageAck \/ RunStageRead \/ RunStageSend \/ RunBulkAck \/ RunBulkOpAck
           \/ RunInboxRead \/ RunInboxApply \/ RunInboxAck
           \/ RunTailAck \/ RunTailRead \/ RunTailApply \/ RunOpAck \/ RunOpApply
           \/ RunFencePrepare \/ RunFenceSet \/ RunCutover
           \/ RunFinishSource \/ RunFenceClean \/ RunFinishDest
  BY <1>3 DEF WorkMoves, durVars, RunPrepareOwnership, RunEnsureSource, RunProvision,
         RunBeginDest, RunStageAck, RunStageRead, RunStageSend, RunBulkAck, RunBulkOpAck,
         RunInboxRead, RunInboxApply, RunInboxAck, RunTailAck, RunTailRead, RunTailApply,
         RunOpAck, RunOpApply, RunFencePrepare, RunFenceSet, RunCutover, RunFinishSource,
         RunFenceClean, RunFinishDest
<1>4. CASE RunBulkRead \/ RunBulkApply \/ RunBulkClose
  <2>1. run.phase = CAPTURE
    BY <1>0, <1>4 DEF RunBulkRead, RunBulkApply, RunBulkClose, Call, At, LocalOK, PlaceOK
  <2>2. PageCopied \/ SetWork(3, tableIdx) \/ UNCHANGED durVars
    BY <1>4 DEF RunBulkRead, RunBulkApply, RunBulkClose
  <2> QED
    BY <2>1, <2>2 DEF WorkMoves, PageCopied, SetWork, Current, durVars
<1>5. CASE RunBeginSource \/ RunInboxClose \/ RunActivate
  <2>1. run.phase \in {INIT, CAPTURE, CAUGHT_UP} /\ Advance
    BY <1>0, <1>5 DEF RunBeginSource, RunInboxClose, RunActivate, Call, At, LocalOK, PlaceOK
  <2> QED
    BY <1>2, <2>1
<1>6. CASE RunOpRead
  <2>1. \/ UNCHANGED durVars
        \/ run.phase = CAPTURE /\ SetWork(2, tableIdx)
        \/ run.phase = BULK_DONE /\ Advance
    BY <1>6 DEF RunOpRead, OpConverged
  <2> QED
    BY <1>2, <2>1 DEF WorkMoves, SetWork, Current, durVars
<1>7. CASE RunStop
  <2>1. run.phase = DUAL_WRITE /\ run.at = "stop"
    BY <1>0, <1>7 DEF RunStop, Call, At, LocalOK, PlaceOK
  <2>2. UNCHANGED durVars \/ (run.idx >= 1 /\ Advance)
    BY <1>7 DEF RunStop
  <2> QED
    BY <1>0, <2>1, <2>2, AdvanceMoves DEF WorkMoves, durVars
<1>8. CASE RunDrop
  <2>1. run.phase = DUAL_WRITE
    BY <1>0, <1>8 DEF RunDrop, Call, At, LocalOK, PlaceOK
  <2> QED
    BY <1>8, <2>1 DEF RunDrop, SetWork, Current, WorkMoves
<1>9. CASE RunComplete
  <2>1. run.phase = CUT_OVER /\ run.at = "complete"
    BY <1>0, <1>9 DEF RunComplete, Call, At, LocalOK, PlaceOK
  <2> QED
    BY <1>0, <1>9, <2>1, AdvanceMoves DEF RunComplete
<1> QED
  BY <1>3, <1>4, <1>5, <1>6, <1>7, <1>8, <1>9 DEF Forward

\* The finish of a movement waits for one callee after the other.
LEMMA FinishInOrder ==
    ASSUME ControlInv, Forward, run.phase = CUT_OVER
    PROVE  /\ run'.at = "fence_clean" => run.at = "finish_source"
           /\ run'.at = "finish_dest" => run.at = "fence_clean"
           /\ run'.at = "complete" => run.at = "finish_dest"
           /\ run'.at \in Undoing => FALSE
<1> USE DEF INIT, CAPTURE, BULK_DONE, CAUGHT_UP, DUAL_WRITE, CUT_OVER
<1>0. LocalOK /\ RunShape /\ NoRun.at = "idle"
  BY DEF ControlInv, LocalOK, NoRun
<1>1. \A w : RunGoes(w) => run'.at = w
  BY <1>0 DEF RunGoes, RunShape
<1>2. /\ run.at \in {"own", "ensure", "finish_source", "fence_clean", "finish_dest", "complete"}
      /\ Call("run", run.at)
  BY <1>0, ForwardCalls, WaitNames DEF LocalOK, PlaceOK, Undoing
<1>3. PhaseStart = "finish_source"
  BY PhaseStartIs
<1>4. CASE run.at \in {"own", "ensure"}
  <2>1. RunPrepareOwnership \/ RunEnsureSource
    BY <1>4 DEF Forward, Call, At, RunBeginSource, RunProvision, RunBeginDest,
         RunStageAck, RunStageRead, RunStageSend, RunBulkAck, RunBulkOpAck, RunBulkRead,
         RunBulkApply, RunBulkClose, RunInboxRead, RunInboxApply, RunInboxAck, RunInboxClose,
         RunTailAck, RunTailRead, RunTailApply, RunOpAck, RunOpRead, RunOpApply,
         RunFencePrepare, RunFenceSet, RunCutover, RunActivate, RunStop, RunDrop,
         RunFinishSource, RunFenceClean, RunFinishDest, RunComplete
  <2>2. run'.at \in {"idle", "ensure", "finish_source"}
    BY <1>0, <1>1, <1>3, <2>1 DEF RunPrepareOwnership, RunEnsureSource, RunShape
  <2> QED
    BY <2>2 DEF Undoing
<1>5. CASE run.at \notin {"own", "ensure"}
  <2>1. RunFinishSource \/ RunFenceClean \/ RunFinishDest \/ RunComplete
    BY <1>2, <1>5 DEF Forward, Call, At, RunPrepareOwnership, RunEnsureSource,
         RunBeginSource, RunProvision, RunBeginDest,
         RunStageAck, RunStageRead, RunStageSend, RunBulkAck, RunBulkOpAck, RunBulkRead,
         RunBulkApply, RunBulkClose, RunInboxRead, RunInboxApply, RunInboxAck, RunInboxClose,
         RunTailAck, RunTailRead, RunTailApply, RunOpAck, RunOpRead, RunOpApply,
         RunFencePrepare, RunFenceSet, RunCutover, RunActivate, RunStop, RunDrop
  <2>2. /\ RunFinishSource => run.at = "finish_source" /\ run'.at = "fence_clean"
        /\ RunFenceClean => run.at = "fence_clean" /\ run'.at = "finish_dest"
        /\ RunFinishDest => run.at = "finish_dest" /\ run'.at = "complete"
        /\ RunComplete => run'.at = "idle"
    BY <1>1 DEF RunFinishSource, RunFenceClean, RunFinishDest, RunComplete, Advance, Call, At
  <2> QED
    BY <2>1, <2>2 DEF Undoing
<1> QED
  BY <1>4, <1>5

\* A run never turns into a cleanup by itself.
LEMMA ForwardStays ==
    ASSUME ControlInv, Forward
    PROVE  run'.at \notin Undoing
<1>0. RunShape /\ LocalOK /\ run.at \in Waits \ Undoing /\ Call("run", run.at)
  BY ForwardCalls DEF ControlInv, LocalOK
<1>1. \A w : RunGoes(w) => run'.at = w
  BY <1>0 DEF RunGoes, RunShape, NoRun
<1>2. \A w, n : RunLoops(w, n) => run'.at = w
  BY <1>0 DEF RunLoops, RunShape
<1>3. \A b, w : RunHas(b, w) => run'.at = w
  BY <1>0 DEF RunHas, RunShape
<1>4. /\ StageStart \notin Undoing /\ OpStart \notin Undoing /\ TailStart \notin Undoing
      /\ {"idle", "bulk_read", "bulk_close", "inbox_read", "bulk_op_ack", "bulk_ack",
          "stage_send", "stage_read", "bulk_apply", "inbox_close", "inbox_apply", "inbox_ack",
          "tail_read", "tail_apply", "op_read", "op_apply", "cutover", "stop", "ensure",
          "begin_dest", "begin_source", "fence_set", "activate", "drop", "fence_clean",
          "finish_dest", "complete"} \cap Undoing = {}
  BY DEF StageStart, OpStart, TailStart, Undoing
<1>5. BulkWork => run'.at \notin Undoing
  BY <1>1, <1>2, <1>4 DEF BulkWork
<1>6. BulkAfterTailAck => run'.at \notin Undoing
  BY <1>1, <1>4, <1>5 DEF BulkAfterTailAck
<1>7. StageReturns => run'.at \notin Undoing
  BY <1>1, <1>4, <1>6 DEF StageReturns
<1>8. Advance => run'.at \notin Undoing
  BY <1>1, <1>4 DEF Advance
<1>9. CASE RunPrepareOwnership \/ RunEnsureSource
  <2>1. run.at \in {"own", "ensure"}
    BY <1>9 DEF RunPrepareOwnership, RunEnsureSource, Call, At
  <2>2. run.phase \in Movable
    BY <2>1, <1>0 DEF LocalOK, RunPhaseOK, Undoing, INIT, CAPTURE, BULK_DONE, CUT_OVER, Movable
  <2>3. PhaseStart \notin Undoing
    BY <2>2, PhaseStartIs DEF Undoing, Movable, INIT, CAPTURE, BULK_DONE, CAUGHT_UP, DUAL_WRITE,
           CUT_OVER
  <2>4. RunEnsureSource => run'.at = PhaseStart
    BY <1>0 DEF RunEnsureSource, RunShape
  <2> QED
    BY <1>1, <1>4, <1>9, <2>3, <2>4 DEF RunPrepareOwnership
<1>10. CASE RunProvision \/ RunBeginDest \/ RunBeginSource
  BY <1>1, <1>4, <1>8, <1>10 DEF RunProvision, RunBeginDest, RunBeginSource
<1>11. CASE RunStageAck \/ RunStageRead \/ RunStageSend \/ RunBulkAck \/ RunBulkOpAck
  BY <1>1, <1>3, <1>4, <1>5, <1>6, <1>7, <1>11
     DEF RunStageAck, RunStageRead, RunStageSend, RunBulkAck, RunBulkOpAck
<1>12. CASE RunBulkRead
  <2>1. ASSUME NEW v, run' = [run EXCEPT !.at = "bulk_apply", !.image = v]
        PROVE  run'.at = "bulk_apply"
    BY <1>0, <2>1 DEF RunShape
  <2> QED
    BY <1>1, <1>4, <1>12, <2>1 DEF RunBulkRead, PageCopied
<1>13. CASE RunBulkApply \/ RunBulkClose
  BY <1>1, <1>4, <1>13 DEF RunBulkApply, RunBulkClose, PageCopied, SetWork
<1>14. CASE RunInboxRead \/ RunInboxApply \/ RunInboxAck \/ RunInboxClose
  BY <1>1, <1>3, <1>4, <1>8, <1>14
     DEF RunInboxRead, RunInboxApply, RunInboxAck, RunInboxClose
<1>15. CASE RunTailAck \/ RunTailRead \/ RunTailApply
  BY <1>1, <1>2, <1>3, <1>4, <1>15 DEF RunTailAck, RunTailRead, RunTailApply
<1>16. CASE RunOpAck \/ RunOpRead \/ RunOpApply
  BY <1>1, <1>2, <1>3, <1>4, <1>8, <1>16
     DEF RunOpAck, RunOpRead, RunOpApply, OpConverged, SetWork
<1>17. CASE RunFencePrepare \/ RunFenceSet \/ RunCutover \/ RunActivate \/ RunStop \/ RunDrop
  BY <1>1, <1>4, <1>8, <1>17
     DEF RunFencePrepare, RunFenceSet, RunCutover, RunActivate, RunStop, RunDrop, SetWork
<1>18. CASE RunFinishSource \/ RunFenceClean \/ RunFinishDest \/ RunComplete
  BY <1>1, <1>4, <1>8, <1>18 DEF RunFinishSource, RunFenceClean, RunFinishDest, RunComplete
<1> QED
  BY <1>9, <1>10, <1>11, <1>12, <1>13, <1>14, <1>15, <1>16, <1>17, <1>18 DEF Forward

\* A request stays justified.
LEMMA KeptEnd ==
    ASSUME EndKept, NEW rpc, EndSentOK(rpc)
    PROVE  EndSentOK(rpc)'
BY DEF EndKept, EndSentOK

\* Most waits need no justification.
LEMMA EndWaits ==
    ASSUME NEW w \in Waits \ {"fence_clean", "finish_dest", "complete", "undo_begin", "undo_batch"}
    PROVE  EndSentOK(RpcAt[w])
BY WaitNames DEF RpcAt, EndSentOK

\* The phase's part, when the phase and the work cursor stay.
LEMMA PhaseEndKept ==
    ASSUME StateOK, Kept, PhaseEndOK, EndKept, UNCHANGED <<phase, tableIdx>>
    PROVE  PhaseEndOK'
BY DEF StateOK, Kept, PhaseEndOK, EndKept

\* A run in DUAL_WRITE_OPEN works behind a serving destination.
LEMMA DrainingServes ==
    ASSUME ControlInv, run.phase = DUAL_WRITE, run.at \in Waits \ Undoing
    PROVE  serving
BY WaitNames DEF ControlInv, LocalOK, RunPhaseOK, StateOK, INIT, CAPTURE, BULK_DONE, DUAL_WRITE

\* The processes that wait on keep what they know.
LEMMA WaitsEnd ==
    ASSUME ControlInv, EndRunOK, EndLateOK, EndKept,
           /\ run'.phase = run.phase /\ run'.idx = run.idx
           /\ run.at \in Waits \ Undoing \/ run'.at = run.at
           \/ run' = NoRun,
           (run.at \in Waits => EndSentOK(RpcAt[run.at]))',
           abt' = abt \/ abt' = "idle", late' \subseteq late
    PROVE  EndRunOK' /\ EndLateOK'
<1>1. NoRun.at \notin Waits /\ "idle" \notin Waits
  BY WaitNames DEF NoRun
<1>3. (abt \in Waits => EndSentOK(RpcAt[abt]))'
  <2>1. CASE abt' = "idle"
    BY <1>1, <2>1 DEF Waits, RpcAt
  <2>2. CASE abt' = abt /\ abt \in Waits
    <3>1. PICK rpc : rpc = RpcAt[abt]
      OBVIOUS
    <3>2. EndSentOK(rpc)'
      BY <2>2, <3>1, KeptEnd DEF EndRunOK
    <3>3. RpcAt[abt'] = rpc
      BY <2>2, <3>1
    <3> QED
      BY <3>2, <3>3 DEF EndSentOK
  <2> QED
    BY <2>1, <2>2 DEF Waits, RpcAt
<1>4. (run.phase = DUAL_WRITE /\ run.at \in Waits \ Undoing /\ run.idx >= 1 => srcRows = NoRows)'
  <2>1. CASE run' = NoRun
    BY <1>1, <2>1 DEF Waits, RpcAt, NoRun
  <2>2. CASE run' # NoRun
    BY <2>2, DrainingServes DEF EndRunOK, EndKept, Waits, RpcAt, Undoing, DUAL_WRITE
  <2> QED
    BY <2>1, <2>2
<1>5. EndLateOK'
  BY KeptEnd DEF EndLateOK
<1> QED
  BY <1>3, <1>4, <1>5 DEF EndRunOK, Waits, RpcAt

\* A step of the run after a reply.
LEMMA ForwardEnds ==
    ASSUME ControlInv, EndInv, Forward, ControlInv'
    PROVE  EndInv'
<1>0. /\ KeepsRead /\ late' = late /\ abt' = abt
      /\ run.at \in Waits \ Undoing /\ Call("run", run.at)
      /\ StateOK /\ LocalOK /\ LateOK /\ WorkMoves
      /\ ObjectsEnd /\ PhaseEndOK /\ EndRunOK /\ EndLateOK
  BY ForwardCalls, ForwardMoves DEF ControlInv, EndInv
<1>1. PICK r : r = Request("run")
  OBVIOUS
<1>2. r.rpc = RpcAt[run.at] /\ Accepts(r) /\ Serves(r) /\ SentOK(r.rpc) /\ EndSentOK(r.rpc)
  BY <1>0, <1>1, RequestRpc, WaitSends DEF Call, At, LocalOK, EndRunOK
<1>3. ObjectsEnd' /\ EndKept /\ Effect(r.rpc)
  BY <1>0, <1>2, ServedEnds, ServedEffect
<1>4. /\ serving => serving'
      /\ op = "aborted" => op' = "aborted"
  BY <1>3 DEF Effect
<1>5. PhaseEndOK'
  <2> USE DEF CAPTURE, DUAL_WRITE, CUT_OVER, DRAINED, ABORTED, Movable, INIT
  <2>1. CASE UNCHANGED <<phase, tableIdx>>
    BY <1>0, <1>3, <1>4, <2>1 DEF PhaseEndOK, EndKept, StateOK
  <2>2. CASE phase' = phase /\ phase = CAPTURE
    BY <2>2 DEF PhaseEndOK
  <2>3. CASE phase' = phase /\ phase = DUAL_WRITE /\ dropPos' = NKeys
    <3>1. serving' /\ SourceEndOK'
      BY <1>0, <1>3, <1>4, <2>3 DEF StateOK, ObjectsEnd
    <3>2. IsRows(srcRows)' /\ Empty(srcRows, dropPos)'
      BY <3>1 DEF SourceEndOK
    <3>3. (srcRows = NoRows)'
      BY <2>3, <3>2, EmptyRows, DataAssumption DEF IsRows, Empty
    <3> QED
      BY <2>3, <3>3 DEF PhaseEndOK
  <2>4. CASE /\ phase \in Movable /\ phase' = phase + 1 /\ tableIdx' = 0 /\ run.phase = phase
             /\ phase = DUAL_WRITE => run.at = "stop" /\ run.idx >= 1
             /\ phase = CUT_OVER => run.at = "complete"
    <3>1. phase = DUAL_WRITE => srcRows' = NoRows
      BY <1>0, <1>3, <2>4 DEF EndRunOK, EndKept, StateOK
    <3>2. phase = CUT_OVER => srcRows' = NoRows
      BY <1>0, <1>3, <2>4 DEF PhaseEndOK, EndKept, StateOK
    <3>3. phase = CUT_OVER => dst' = "done" /\ op' = "completed" /\ src' = "drained"
                              /\ fence' = "cleaned"
      <4>1. phase = CUT_OVER => r.rpc = "completeTopologyOperation"
        BY <1>2, <2>4 DEF RpcAt
      <4> QED
        BY <1>2, <1>3, <4>1 DEF EndSentOK, EndKept, Effect
    <3> QED
      BY <2>4, <3>1, <3>2, <3>3 DEF PhaseEndOK
  <2> QED
    BY <1>0, <2>1, <2>2, <2>3, <2>4 DEF WorkMoves
<1>6. (run.at \in Waits => EndSentOK(RpcAt[run.at]))'
  <2>1. PICK w : w = run'.at
    OBVIOUS
  <2>2. CASE w \in {"fence_clean", "finish_dest", "complete"}
    <3>1. run'.phase = CUT_OVER /\ run' # NoRun
      BY <2>1, <2>2 DEF ControlInv, LocalOK, PlaceOK, NoRun
    <3>2. run.phase = CUT_OVER
      BY <1>0, <3>1 DEF KeepsRead
    <3>3. \/ w = "fence_clean" /\ r.rpc = "finishReshardSource"
          \/ w = "finish_dest" /\ r.rpc = "completeRoutingFenceCleanup"
          \/ w = "complete" /\ r.rpc = "finishReshardDest"
      BY <1>2, <2>1, <2>2, <3>2, FinishInOrder DEF RpcAt
    <3>4. \/ w = "fence_clean" /\ src' = "drained"
          \/ w = "finish_dest" /\ fence' = "cleaned" /\ src' = "drained"
          \/ w = "complete" /\ dst' = "done" /\ fence' = "cleaned" /\ src' = "drained"
      BY <1>0, <1>2, <1>3, <3>3, ServedFinish DEF EndSentOK, EndKept
    <3>5. /\ RpcAt["fence_clean"] = "completeRoutingFenceCleanup"
          /\ RpcAt["finish_dest"] = "finishReshardDest"
          /\ RpcAt["complete"] = "completeTopologyOperation"
      BY DEF RpcAt
    <3> QED
      BY <2>1, <3>4, <3>5 DEF EndSentOK
  <2>3. CASE w \in Waits /\ w \notin {"fence_clean", "finish_dest", "complete"}
    <3>1. w \notin {"undo_begin", "undo_batch"}
      BY <2>1, ForwardStays DEF Undoing
    <3>2. PICK rpc : rpc = RpcAt[w]
      OBVIOUS
    <3>3. rpc \notin {"beginReshardDestAbort", "abortReshardDestBatch",
                      "completeRoutingFenceCleanup", "finishReshardDest",
                      "completeTopologyOperation"}
      BY <2>3, <3>1, <3>2, WaitNames DEF RpcAt
    <3>4. RpcAt[run'.at] = rpc
      BY <2>1, <3>2
    <3> QED
      BY <3>3, <3>4 DEF EndSentOK
  <2> QED
    BY <2>1, <2>2, <2>3 DEF Waits, RpcAt
<1>7. EndRunOK' /\ EndLateOK'
  BY <1>0, <1>3, <1>6, WaitsEnd DEF KeepsRead
<1> QED
  BY <1>3, <1>5, <1>7 DEF EndInv

\* Steps after which the objects, the phase and the work cursor are as before.
QuietObjects == UNCHANGED <<srcVars, dstVars, catVars, phase, tableIdx>>

\* Such steps keep what the objects agree on.
LEMMA QuietEnds ==
    ASSUME EndInv, QuietObjects
    PROVE  ObjectsEnd' /\ PhaseEndOK' /\ EndKept
BY DEF EndInv, QuietObjects, ObjectsEnd, SourceEndOK, DestEndOK, RecordEndOK, PhaseEndOK, EndKept,
       Empty, IsRows, srcVars, srcCopy, dstVars, dstCopy, catVars

\* A run ends without an effect, or goes on after a full inbox.
LEMMA QuietRunEnds ==
    ASSUME ControlInv, EndInv, RunReturns \/ RunRefused \/ RunStageLimited
    PROVE  EndInv'
<1>1. RunShape /\ EndRunOK /\ EndLateOK /\ NoRun.at \notin Waits
  BY WaitNames DEF ControlInv, LocalOK, EndInv, NoRun
<1>2. QuietObjects
  BY DEF RunReturns, RunRefused, RunStageLimited, QuietObjects, vars, srcVars, srcCopy, dstVars,
         dstCopy, durVars, catVars, StageReturns
<1>3. ObjectsEnd' /\ PhaseEndOK' /\ EndKept
  BY <1>2, QuietEnds
<1>4. CASE RunReturns
  <2>1. UNCHANGED <<run, abt, late>>
    BY <1>4 DEF RunReturns, vars, runVars, netVars
  <2>2. (run.at \in Waits => EndSentOK(RpcAt[run.at]))'
    <3>1. PICK rpc : rpc = RpcAt[run.at]
      OBVIOUS
    <3>2. run.at \in Waits => EndSentOK(rpc)'
      BY <1>1, <1>3, <3>1, KeptEnd DEF EndRunOK
    <3> QED
      BY <2>1, <3>1, <3>2 DEF EndSentOK, Waits, RpcAt
  <2> QED
    BY <1>1, <1>3, <2>1, <2>2, WaitsEnd DEF EndInv
<1>5. CASE RunRefused
  <2>1. run' = NoRun /\ abt' = abt /\ late' = late
    BY <1>5 DEF RunRefused, RunGoes, netVars
  <2>2. (run.at \in Waits => EndSentOK(RpcAt[run.at]))'
    BY <1>1, <2>1 DEF Waits, RpcAt
  <2> QED
    BY <1>1, <1>3, <2>1, <2>2, WaitsEnd DEF EndInv
<1>6. CASE RunStageLimited
  <2>1. KeepsRead /\ late' = late /\ abt' = abt
    BY <1>1, <1>6, StageKeeps DEF RunStageLimited
  <2>2. run' = NoRun \/ run'.at \in CaptureWaits \cup OpWaits
    BY <1>1, <1>6, StageGoesOn DEF RunStageLimited, Suspends, Ends
  <2>3. (run.at \in Waits => EndSentOK(RpcAt[run.at]))'
    <3>1. CASE run' = NoRun
      BY <1>1, <3>1 DEF Waits, RpcAt
    <3>2. CASE run'.at \in CaptureWaits \cup OpWaits
      <4>1. PICK rpc : rpc = RpcAt[run'.at]
        OBVIOUS
      <4>2. rpc \notin {"beginReshardDestAbort", "abortReshardDestBatch",
                        "completeRoutingFenceCleanup", "finishReshardDest",
                        "completeTopologyOperation"}
        BY <3>2, <4>1, WaitNames DEF RpcAt, CaptureWaits, OpWaits
      <4> QED
        BY <4>1, <4>2 DEF EndSentOK
    <3> QED
      BY <2>2, <3>1, <3>2
  <2>4. run.at \in Waits \ Undoing
    BY <1>6, WaitNames DEF RunStageLimited, Limited, Undoing
  <2> QED
    BY <1>1, <1>3, <2>1, <2>3, <2>4, WaitsEnd DEF EndInv, KeepsRead
<1> QED
  BY <1>4, <1>5, <1>6

\* A new run starts with the migration as it is recorded.
LEMMA RunStartEnds ==
    ASSUME ControlInv, EndInv, RunStart
    PROVE  EndInv'
<1>1. QuietObjects /\ UNCHANGED <<abt, late>>
  BY DEF RunStart, QuietObjects, srcVars, srcCopy, dstVars, dstCopy, durVars, catVars, netVars
<1>2. ObjectsEnd' /\ PhaseEndOK' /\ EndKept
  BY <1>1, QuietEnds
<1>3. run'.at \in {"own", "undo_lease"} /\ run'.phase = phase /\ run'.idx = tableIdx
  BY DEF RunStart, NoRun
<1>4. EndSentOK(RpcAt[run.at])' /\ abt' \notin Waits
  <2>1. RpcAt[run'.at] \in {"prepareReshardDestOwnership", "abortTopologyOperation"}
    BY <1>3 DEF RpcAt
  <2>2. abt' = "idle"
    BY <1>1 DEF RunStart
  <2> QED
    BY <2>1, <2>2, WaitNames DEF EndSentOK
<1>5. EndLateOK'
  BY <1>1, <1>2, KeptEnd DEF EndLateOK, EndInv
<1>6. run'.phase = DUAL_WRITE /\ run'.idx >= 1 => srcRows' = NoRows
  BY <1>2, <1>3 DEF PhaseEndOK, EndInv, EndKept, ControlInv, StateOK, DUAL_WRITE, CUT_OVER, DRAINED
<1>7. EndRunOK'
  BY <1>4, <1>6 DEF EndRunOK, Waits, RpcAt, EndSentOK
<1> QED
  BY <1>2, <1>5, <1>7 DEF EndInv

\* A run that does not start or clean up keeps its place.
LEMMA OtherWaits ==
    ASSUME EndRunOK, EndKept, UNCHANGED run
    PROVE  (run.at \in Waits => EndSentOK(RpcAt[run.at]))'
<1>1. PICK rpc : rpc = RpcAt[run.at]
  OBVIOUS
<1>2. run.at \in Waits => EndSentOK(rpc)'
  BY <1>1, KeptEnd DEF EndRunOK
<1> QED
  BY <1>1, <1>2 DEF EndSentOK, Waits, RpcAt

\* The same of abort.
LEMMA OtherAbort ==
    ASSUME EndRunOK, EndKept, UNCHANGED abt
    PROVE  (abt \in Waits => EndSentOK(RpcAt[abt]))'
<1>1. PICK rpc : rpc = RpcAt[abt]
  OBVIOUS
<1>2. abt \in Waits => EndSentOK(rpc)'
  BY <1>1, KeptEnd DEF EndRunOK
<1> QED
  BY <1>1, <1>2 DEF EndSentOK, Waits, RpcAt

\* A cleanup step of either process.
LEMMA UndoEnds ==
    ASSUME ControlInv, EndInv, NEW p \in Procs, Undo(p), ControlInv'
    PROVE  EndInv'
<1>0. /\ LocalOK /\ StateOK /\ StateOK' /\ Undoing \subseteq Waits /\ "idle" \notin Waits
      /\ ObjectsEnd /\ PhaseEndOK /\ EndRunOK /\ EndLateOK
  BY WaitNames DEF ControlInv, EndInv, Undoing
<1>1. PICK w \in Undoing, v \in Undoing \cup {"idle"} :
          /\ Call(p, w) /\ Goes(p, v) /\ UNCHANGED tableIdx
          /\ v = "undo_begin" => w = "undo_source"
          /\ v = "undo_batch" => w = "undo_begin"
          /\ \/ phase' = phase
             \/ phase = ABORTING /\ phase' = ABORTED /\ w = "undo_batch" /\ AbortReshardDestDone
  BY DEF Undo, UndoLease, UndoFence, UndoSource, UndoBegin, UndoBatch, UndoStep, Undoing, durVars
<1>2. PICK r : r = Request(p)
  OBVIOUS
<1>3. r.rpc = RpcAt[w] /\ At(p) = w /\ Accepts(r) /\ Serves(r)
  BY <1>1, <1>2, RequestRpc DEF Call
<1>4. SentOK(r.rpc) /\ EndSentOK(r.rpc) /\ Undone /\ (w # "undo_lease" => op = "aborted")
  BY <1>0, <1>1, <1>3, AtOK, WaitSends DEF At, Procs, LocalOK, EndRunOK, WaitOK
<1>5. ObjectsEnd' /\ EndKept /\ Effect(r.rpc)
  BY <1>0, <1>3, <1>4, ServedEnds, ServedEffect
<1>6. serving = serving' /\ (op = "aborted" => op' = "aborted")
  BY <1>3, <1>5 DEF Effect, RpcAt, Undoing
<1>7. PhaseEndOK'
  <2>1. CASE phase' = phase
    BY <1>0, <1>1, <1>4, <1>5, <1>6, <2>1 DEF PhaseEndOK, EndKept, Undone, DUAL_WRITE, CUT_OVER,
           DRAINED, ABORTED, ABORTING
  <2>2. CASE phase' = ABORTED /\ w = "undo_batch" /\ AbortReshardDestDone
    <3>1. r.rpc = "abortReshardDestBatch" /\ op = "aborted"
      BY <1>3, <1>4, <2>2 DEF RpcAt
    <3>2. dst' = "aborted" /\ src' = "drained"
      BY <1>0, <1>3, <1>4, <1>5, <2>2, <3>1, ServedFinish DEF EndSentOK, EndKept
    <3> QED
      BY <1>6, <2>2, <3>1, <3>2 DEF PhaseEndOK, ABORTED, DUAL_WRITE, CUT_OVER, DRAINED
  <2> QED
    BY <1>1, <2>1, <2>2
<1>8. v \in Waits => /\ v = "undo_begin" => src' = "drained"
                     /\ v = "undo_batch" => src' = "drained" /\ dst' \in {"aborting", "aborted"}
  <2>1. ASSUME v = "undo_begin" PROVE src' = "drained"
    <3>1. r.rpc = "abortReshardSource"
      BY <1>1, <1>3, <2>1 DEF RpcAt
    <3> QED
      BY <1>0, <1>3, <3>1, ServedFinish
  <2>2. ASSUME v = "undo_batch" PROVE src' = "drained" /\ dst' \in {"aborting", "aborted"}
    <3>1. r.rpc = "beginReshardDestAbort"
      BY <1>1, <1>3, <2>2 DEF RpcAt
    <3> QED
      BY <1>0, <1>3, <1>4, <1>5, <3>1, ServedFinish DEF EndSentOK, EndKept
  <2> QED
    BY <2>1, <2>2
<1>9. v \in Waits => EndSentOK(RpcAt[v])'
  <2>1. PICK rpc : rpc = RpcAt[v]
    OBVIOUS
  <2>2. v \in Undoing => /\ rpc = "beginReshardDestAbort" => v = "undo_begin"
                         /\ rpc = "abortReshardDestBatch" => v = "undo_batch"
                         /\ rpc \notin {"completeRoutingFenceCleanup", "finishReshardDest",
                                        "completeTopologyOperation"}
    BY <2>1 DEF RpcAt, Undoing
  <2> QED
    BY <1>0, <1>1, <1>8, <2>1, <2>2 DEF EndSentOK
<1>10. late' = late
  BY <1>1 DEF Goes, RunGoes, netVars
<1>11. EndLateOK'
  BY <1>0, <1>5, <1>10, KeptEnd DEF EndLateOK
<1>12. CASE p = "run"
  <2>1. abt' = abt /\ run'.at = v
    BY <1>0, <1>1, <1>12 DEF Goes, RunGoes, LocalOK, RunShape, NoRun
  <2>2. (abt \in Waits => EndSentOK(RpcAt[abt]))'
    BY <1>0, <1>5, <2>1, OtherAbort
  <2>3. (run.at \in Waits => EndSentOK(RpcAt[run.at]))'
    BY <1>9, <2>1 DEF EndSentOK, Waits, RpcAt
  <2>4. run'.at \notin Waits \ Undoing
    BY <1>0, <1>1, <2>1
  <2>5. EndRunOK'
    BY <2>2, <2>3, <2>4 DEF EndRunOK, Waits, RpcAt
  <2> QED
    BY <1>5, <1>7, <1>11, <2>5 DEF EndInv
<1>13. CASE p = "abort"
  <2>1. run' = run /\ abt' = v
    BY <1>1, <1>13 DEF Goes
  <2>2. (run.at \in Waits => EndSentOK(RpcAt[run.at]))'
    BY <1>0, <1>5, <2>1, OtherWaits
  <2>3. (abt \in Waits => EndSentOK(RpcAt[abt]))'
    BY <1>9, <2>1 DEF EndSentOK, Waits, RpcAt
  <2>4. (run.phase = DUAL_WRITE /\ run.at \in Waits \ Undoing /\ run.idx >= 1 => srcRows = NoRows)'
    BY <1>0, <1>5, <2>1, DrainingServes DEF EndRunOK, EndKept, Waits, RpcAt, Undoing, DUAL_WRITE
  <2>5. EndRunOK'
    BY <2>2, <2>3, <2>4 DEF EndRunOK, Waits, RpcAt
  <2> QED
    BY <1>5, <1>7, <1>11, <2>5 DEF EndInv
<1> QED
  BY <1>12, <1>13 DEF Procs

\* abort switches the phase.
LEMMA AbortStartEnds ==
    ASSUME ControlInv, EndInv, AbortStart
    PROVE  EndInv'
<1>1. /\ UNCHANGED <<srcVars, dstVars, catVars, tableIdx, run, late>>
      /\ phase' = ABORTING /\ abt' = "undo_lease"
  BY DEF AbortStart, Goes, netVars
<1>2. ObjectsEnd' /\ EndKept
  BY <1>1 DEF EndInv, ObjectsEnd, SourceEndOK, DestEndOK, RecordEndOK, EndKept,
         Empty, IsRows, srcVars, srcCopy, dstVars, dstCopy, catVars
<1>3. PhaseEndOK'
  BY <1>1 DEF PhaseEndOK, DUAL_WRITE, CUT_OVER, DRAINED, ABORTED, ABORTING
<1>4. (run.at \in Waits => EndSentOK(RpcAt[run.at]))'
  BY <1>1, <1>2, OtherWaits DEF EndInv
<1>5. (abt \in Waits => EndSentOK(RpcAt[abt]))'
  BY <1>1 DEF EndSentOK, RpcAt
<1>6. (run.phase = DUAL_WRITE /\ run.at \in Waits \ Undoing /\ run.idx >= 1 => srcRows = NoRows)'
  BY <1>1, <1>2, DrainingServes DEF EndInv, EndRunOK, EndKept, Waits, RpcAt, Undoing, DUAL_WRITE
<1>7. EndRunOK'
  BY <1>4, <1>5, <1>6 DEF EndRunOK, Waits, RpcAt
<1>8. EndLateOK'
  BY <1>1, <1>2, KeptEnd DEF EndInv, EndLateOK
<1> QED
  BY <1>2, <1>3, <1>7, <1>8 DEF EndInv

\* A failed call and a restart leave at most a justified request behind.
LEMMA FaultEnds ==
    ASSUME ControlInv, EndInv, Crash \/ \E p \in Procs : Fail(p)
    PROVE  EndInv'
<1>0. EndRunOK /\ EndLateOK /\ NoRun.at \notin Waits /\ "idle" \notin Waits
  BY WaitNames DEF EndInv, NoRun
<1>1. QuietObjects /\ run' \in {run, NoRun} /\ abt' \in {abt, "idle"}
  BY DEF Crash, Fail, QuietObjects, durVars
<1>2. ObjectsEnd' /\ PhaseEndOK' /\ EndKept
  BY <1>1, QuietEnds
<1>3. late' \subseteq late \cup InFlight("run") \cup InFlight("abort")
  BY DEF Crash, Fail, Procs
<1>4. ASSUME NEW p \in Procs, NEW r \in InFlight(p) PROVE EndSentOK(r.rpc)
  <2>1. At(p) \in Waits /\ r = Request(p)
    BY <1>4, AtOK DEF InFlight, ControlInv
  <2>2. r.rpc = RpcAt[At(p)]
    BY <2>1, RequestRpc
  <2> QED
    BY <1>0, <2>1, <2>2 DEF At, Procs, EndRunOK
<1>5. EndLateOK'
  <2> SUFFICES ASSUME NEW r \in late' PROVE EndSentOK(r.rpc)'
    BY DEF EndLateOK
  <2>1. EndSentOK(r.rpc)
    BY <1>0, <1>3, <1>4 DEF EndLateOK, Procs
  <2> QED
    BY <1>2, <2>1, KeptEnd
<1>6. (run.at \in Waits => EndSentOK(RpcAt[run.at]))'
  <2>1. CASE run' = run
    BY <1>0, <1>2, <2>1, OtherWaits
  <2>2. CASE run' = NoRun
    BY <1>0, <2>2 DEF Waits, RpcAt
  <2> QED
    BY <1>1, <2>1, <2>2
<1>7. (abt \in Waits => EndSentOK(RpcAt[abt]))'
  <2>1. CASE abt' = abt
    BY <1>0, <1>2, <2>1, OtherAbort
  <2>2. CASE abt' = "idle"
    BY <1>0, <2>2 DEF Waits, RpcAt
  <2> QED
    BY <1>1, <2>1, <2>2
<1>8. (run.phase = DUAL_WRITE /\ run.at \in Waits \ Undoing /\ run.idx >= 1 => srcRows = NoRows)'
  <2>1. CASE run' = run
    BY <1>0, <1>2, <2>1, DrainingServes DEF EndRunOK, EndKept, Waits, RpcAt, Undoing, DUAL_WRITE
  <2>2. CASE run' = NoRun
    BY <1>0, <2>2 DEF Waits, RpcAt
  <2> QED
    BY <1>1, <2>1, <2>2
<1> QED
  BY <1>2, <1>5, <1>6, <1>7, <1>8 DEF EndInv, EndRunOK, Waits, RpcAt

\* Steps of requests and clients, which touch neither process.
LEMMA OutsideEnds ==
    ASSUME ControlInv, EndInv, ObjectsEnd', EndKept, UNCHANGED <<phase, tableIdx, run, abt>>,
           serving => serving', op = "aborted" => op' = "aborted", late' \subseteq late
    PROVE  EndInv'
<1>1. PhaseEndOK'
  BY DEF PhaseEndOK, EndInv, EndKept, ControlInv, StateOK
<1>2. (run.at \in Waits => EndSentOK(RpcAt[run.at]))' /\ (abt \in Waits => EndSentOK(RpcAt[abt]))'
  BY OtherWaits, OtherAbort DEF EndInv
<1>3. (run.phase = DUAL_WRITE /\ run.at \in Waits \ Undoing /\ run.idx >= 1 => srcRows = NoRows)'
  BY DrainingServes DEF EndInv, EndRunOK, EndKept, Waits, RpcAt, Undoing, DUAL_WRITE
<1>4. EndLateOK'
  BY KeptEnd DEF EndLateOK, EndInv
<1> QED
  BY <1>1, <1>2, <1>3, <1>4 DEF EndInv, EndRunOK, Waits, RpcAt

\* A late request is executed or refused.
LEMMA DeliverEnds ==
    ASSUME ControlInv, EndInv, NEW r \in late, Deliver(r)
    PROVE  EndInv'
<1>1. UNCHANGED <<phase, tableIdx, run, abt>> /\ late' \subseteq late
  BY DEF Deliver, durVars, runVars
<1>2. CASE Accepts(r) /\ Serves(r)
  <2>1. ObjectsEnd' /\ EndKept /\ Effect(r.rpc)
    BY <1>2, ServedEnds, ServedEffect DEF ControlInv, LateOK, EndInv, EndLateOK
  <2>2. (serving => serving') /\ (op = "aborted" => op' = "aborted")
    BY <2>1 DEF Effect
  <2> QED
    BY <1>1, <2>1, <2>2, OutsideEnds
<1>3. CASE UNCHANGED <<srcVars, dstVars, catVars>>
  <2>1. ObjectsEnd' /\ EndKept
    BY <1>1, <1>3, QuietEnds DEF QuietObjects
  <2> QED
    BY <1>1, <1>3, <2>1, OutsideEnds DEF dstVars, catVars
<1> QED
  BY <1>2, <1>3 DEF Deliver

\* Clients write where they are admitted: to a range that was not emptied.
LEMMA ClientsEndOK ==
    ASSUME ControlInv, EndInv, NEW m \in Muts, MutateAtSource(m) \/ MutateAtDest(m)
    PROVE  EndInv'
<1>0. MutKey[m] \in Keys /\ StateOK /\ SourceEndOK /\ DestEndOK /\ RecordEndOK
  BY DataAssumption DEF Keys, ControlInv, EndInv, ObjectsEnd
<1>1. \A rows : IsRows(rows) => IsRows(Write(rows, m))
  BY <1>0 DEF IsRows, Write
<1>2. UNCHANGED <<phase, tableIdx, run, abt, late, op, cut, serving>>
  BY DEF MutateAtSource, MutateAtDest, SourceMutate, DestMutate, durVars, catVars, runVars,
         netVars, dstVars
<1>3. CASE MutateAtSource(m)
  <2>1. /\ ~serving /\ srcRows' = Write(srcRows, m)
        /\ UNCHANGED <<src, fence, dropPos, dst, dstRows, dstOps, opMine, abortPos>>
        /\ src = "drained" => UNCHANGED <<tailLog, opLog>>
    BY <1>0, <1>3 DEF MutateAtSource, SourceMutate, SourceAdmits, StateOK, Fenced, dstVars,
           dstCopy, Capturing
  <2>2. SourceEndOK'
    BY <1>0, <1>1, <1>2, <2>1 DEF SourceEndOK, IsRows
  <2>3. DestEndOK' /\ RecordEndOK' /\ EndKept
    BY <1>0, <1>2, <2>1 DEF DestEndOK, RecordEndOK, EndKept, IsRows, Empty
  <2> QED
    BY <1>2, <2>2, <2>3, OutsideEnds DEF ObjectsEnd
<1>4. CASE MutateAtDest(m)
  <2>1. /\ serving /\ dstRows' = Write(dstRows, m)
        /\ UNCHANGED <<src, fence, dropPos, srcRows, tailLog, opLog, dst, abortPos>>
    BY <1>4 DEF MutateAtDest, DestMutate, DestAdmits, srcVars, srcCopy
  <2>2. abortPos = 0
    BY <1>0, <2>1 DEF DestEndOK
  <2>3. DestEndOK'
    BY <1>0, <1>1, <1>2, <2>1, <2>2, DataAssumption DEF DestEndOK, IsRows, Empty, Keys
  <2>4. SourceEndOK' /\ RecordEndOK' /\ EndKept
    BY <1>0, <1>2, <2>1 DEF SourceEndOK, RecordEndOK, EndKept, IsRows, Empty
  <2> QED
    BY <1>2, <2>3, <2>4, OutsideEnds DEF ObjectsEnd
<1> QED
  BY <1>3, <1>4

\* A recorded migration has moved nothing.
LEMMA InitEnds ==
    ASSUME Init
    PROVE  EndInv
<1>1. ObjectsEnd
  BY DataAssumption, NoRowsEmpty DEF Init, SrcInit, DstInit, ObjectsEnd, SourceEndOK, DestEndOK,
         RecordEndOK
<1>2. PhaseEndOK
  BY DEF Init, PhaseEndOK, INIT, DUAL_WRITE, CUT_OVER, DRAINED, ABORTED
<1>3. run.at \notin Waits /\ abt \notin Waits /\ late = {}
  BY WaitNames DEF Init, NoRun
<1> QED
  BY <1>1, <1>2, <1>3 DEF EndInv, EndRunOK, EndLateOK

\* Every step keeps the invariant.
LEMMA NextEnds ==
    ASSUME ControlInv, EndInv, [Next]_vars
    PROVE  EndInv'
<1>0. ControlInv'
  BY NextControl
<1>1. CASE RunStep
  BY <1>0, <1>1, ForwardEnds, QuietRunEnds, RunStartEnds, UndoEnds DEF RunStep, Forward, Procs
<1>2. CASE AbortStart
  BY <1>2, AbortStartEnds
<1>3. CASE AbortStep
  BY <1>0, <1>3, UndoEnds DEF AbortStep, Procs
<1>4. CASE Crash \/ \E p \in Procs : Fail(p)
  BY <1>4, FaultEnds
<1>5. CASE \E r \in late : Deliver(r)
  BY <1>5, DeliverEnds
<1>6. CASE \E m \in Muts : MutateAtSource(m) \/ MutateAtDest(m)
  BY <1>6, ClientsEndOK
<1>7. CASE UNCHANGED vars
  <2>1. ObjectsEnd' /\ EndKept
    BY <1>7, QuietEnds DEF QuietObjects, vars, durVars
  <2> QED
    BY <1>7, <2>1, OutsideEnds DEF vars, durVars, runVars, netVars, dstVars, catVars
<1> QED
  BY <1>1, <1>2, <1>3, <1>4, <1>5, <1>6, <1>7 DEF Next

\* However a movement is interrupted, both Cdbs and the Catalog hold at each
\* of its ends, and before each request of its cleanup, what that end needs.
THEOREM EndInvariant == Spec => [](ControlInv /\ EndInv)
BY InitControl, NextControl, InitEnds, NextEnds, PTL DEF Spec

\* No callee refuses a request of the cleanup once the abort is decided.
THEOREM AbortsAreAccepted == Spec => []AbortNeverRefused
<1>1. ASSUME ControlInv, EndInv PROVE AbortNeverRefused
  <2> SUFFICES ASSUME NEW p \in Procs, At(p) \in Undoing PROVE Accepts(Request(p))
    BY DEF AbortNeverRefused
  <2>1. /\ Request(p).rpc = RpcAt[At(p)]
        /\ WaitOK(At(p)) /\ EndSentOK(RpcAt[At(p)]) /\ StateOK /\ Undone
    BY <1>1, RequestRpc, AtOK, WaitNames
       DEF ControlInv, WaitOK, EndInv, EndRunOK, At, Procs, Undoing
  <2>2. /\ fence = "none" /\ ~cut /\ ~serving /\ op # "completed"
        /\ op \in {"active", "completed", "aborted"}
    BY <1>1, <2>1 DEF StateOK, EndInv, ObjectsEnd, RecordEndOK, Undone, Passed, ABORTING, ABORTED,
           CAUGHT_UP, DUAL_WRITE, CUT_OVER, DRAINED
  <2>3. Request(p).rpc \in {"abortTopologyOperation", "cancelRoutingFenceBeforeCutover",
            "abortReshardSource", "beginReshardDestAbort", "abortReshardDestBatch"}
    BY <2>1 DEF Undoing, RpcAt
  <2> QED
    BY <2>1, <2>2, <2>3 DEF EndSentOK, Accepts, SourceAccepts, DestAccepts, CatalogAccepts,
           CancelRoutingFenceOk, BeginReshardDestAbortOk, AbortReshardDestBatchOk
<1> QED
  BY <1>1, EndInvariant, PTL
-----------------------------------------------------------------------------
(* Types, and the numbers they rest on.                                    *)

\* The two Cdbs and the Catalog's record.
ObjectTypes ==
    /\ SrcTypeOK /\ DstTypeOK
    /\ op \in {"active", "completed", "aborted"} /\ cut \in BOOLEAN
    /\ seedMax <= Len(srcOps)
    /\ Len(inbox) <= staged

\* The migration: an unfinished bulk copy has a row left to copy.
DurableTypes ==
    /\ phase \in Phases
    /\ tailCur \in Nat /\ opCur \in Nat
    /\ bulkPos \in 0..NKeys /\ turn \in 0..3 /\ tableIdx \in 0..1
    /\ phase = INIT \/ (phase = CAPTURE /\ tableIdx = 0) => bulkPos < NKeys

\* The run: its copy of the bulk cursor is the recorded one until it moves it.
RunTypes ==
    /\ run \in Runs
    /\ run.at \in Waits \ Undoing =>
           /\ run.phase = CAPTURE /\ run.idx = 0 => run.pos < NKeys
           /\ Current => run.pos = bulkPos
    /\ run.at \in {"bulk_read", "bulk_apply"} => run.idx = 0

NetTypes ==
    /\ abt \in Undoing \cup {"idle"}
    /\ ensured \subseteq Phases
    /\ late \subseteq Requests
    /\ faults \in 0..MaxFaults

TypeInv == ObjectTypes /\ DurableTypes /\ RunTypes /\ NetTypes

\* The rows, batches and requests that the handlers build keep their types.
LEMMA WriteRows ==
    ASSUME NEW rows \in Rows, NEW m \in Muts
    PROVE  Write(rows, m) \in Rows
BY DataAssumption DEF Rows, Keys, Images, Write, Image

\* A nonempty set of positions has a last one.
LEMMA LastPosition ==
    ASSUME NEW n \in Nat, NEW hits \in SUBSET (1..n), hits # {}
    PROVE  \E i \in hits : \A j \in hits : j <= i
<1> DEFINE Up == {n - i : i \in hits}
<1>1. Up \subseteq Nat /\ Up # {}
  <2>1. \A i \in hits : i \in Nat /\ n - i \in Nat
    OBVIOUS
  <2> QED
    BY <2>1
<1>2. PICK u \in Up : \A v \in Up : ~(<<v, u>> \in OpToRel(<, Nat))
  BY <1>1, NatLessThanWellFounded, WFMin
<1>3. ASSUME NEW v \in Up PROVE ~(v < u)
  <2>1. u \in Nat /\ v \in Nat
    BY <1>1
  <2> QED
    BY <1>2, <2>1 DEF OpToRel
<1>4. PICK i \in hits : u = n - i
  OBVIOUS
<1>5. ASSUME NEW j \in hits PROVE j <= i
  <2>1. ~(n - j < n - i) /\ i \in 1..n /\ j \in 1..n
    BY <1>3, <1>4
  <2> QED
    BY <2>1
<1> QED
  BY <1>5

\* What replaying captured entries leaves in every row.
LEMMA ReplayRows ==
    ASSUME NEW rows \in Rows, NEW ents \in Seq(Muts)
    PROVE  Replay(rows, ents) \in Rows
<1> SUFFICES ASSUME NEW k \in Keys PROVE Replay(rows, ents)[k] \in Images
  BY DEF Replay, Rows
<1> DEFINE hits == {i \in DOMAIN ents : MutKey[ents[i]] = k}
<1>1. CASE hits = {}
  BY <1>1 DEF Replay, Rows
<1>2. CASE hits # {}
  <2>1. \E i \in hits : \A j \in hits : j <= i
    BY <1>2, LastPosition, Len(ents) \in Nat, hits \subseteq 1..Len(ents)
  <2>2. (CHOOSE i \in hits : \A j \in hits : j <= i) \in DOMAIN ents
    BY <2>1
  <2>3. ents[CHOOSE i \in hits : \A j \in hits : j <= i] \in Muts
    BY <2>2
  <2>4. Replay(rows, ents)[k] = Image(ents[CHOOSE i \in hits : \A j \in hits : j <= i])
    BY <1>2 DEF Replay
  <2> HIDE DEF hits
  <2> QED
    BY <2>3, <2>4 DEF Image, Images
<1> QED
  BY <1>1, <1>2

\* A batch of captured entries.
LEMMA PageBatch ==
    ASSUME NEW log \in Seq(Muts), NEW acked \in Nat, NEW after \in Nat
    PROVE  Page(log, acked, after) \in Batches
<1> DEFINE from == IF after < acked THEN acked ELSE after
           to   == IF from + TailBatch < Len(log) THEN from + TailBatch ELSE Len(log)
<1>1. from \in Nat /\ to \in Nat /\ to <= Len(log)
  BY SourceAssumption
<1>2. SubSeq(log, from + 1, to) \in Seq(Muts)
  BY <1>1
<1> QED
  BY <1>1, <1>2 DEF Page, Batch, Batches

\* The end of a batch and the part of it above a cursor.
LEMMA BatchParts ==
    ASSUME NEW b \in Batches, NEW n \in Nat
    PROVE  BatchLast(b) \in Nat /\ BatchAbove(b, n) \in Seq(Muts)
<1>1. b.lo \in Nat /\ b.ents \in Seq(Muts) /\ Len(b.ents) \in Nat
  BY DEF Batches
<1>2. BatchLast(b) \in Nat
  BY <1>1 DEF BatchLast
<1>3. CASE n <= b.lo
  BY <1>1, <1>2, <1>3 DEF BatchAbove
<1>4. CASE ~(n <= b.lo)
  <2>1. SubSeq(b.ents, n - b.lo + 1, Len(b.ents)) \in Seq(Muts)
    BY <1>1, <1>4
  <2> QED
    BY <1>2, <1>4, <2>1 DEF BatchAbove
<1> QED
  BY <1>3, <1>4

\* Every request a process sends is one of Requests.
LEMMA RequestTypes ==
    ASSUME TypeInv, NEW p \in Procs, At(p) \in Waits
    PROVE  Request(p) \in Requests
<1>1. RpcAt[At(p)] \in Rpcs
  BY WaitNames DEF RpcAt, Rpcs, SourceRpcs, SourceReads, DestRpcs, CatalogRpcs
<1>2. /\ run.tail \in Nat /\ run.pos \in 0..NKeys /\ run.buf \in Batches /\ run.image \in Images
      /\ opCur \in Nat
  BY DEF TypeInv, RunTypes, DurableTypes, Runs
<1>3. BatchLast(run.buf) \in Nat /\ run.pos + 1 \in Nat
  BY <1>2, DataAssumption DEF BatchLast, Batches
<1>4. NoBatch \in Batches /\ NoRow \in Images
  BY DEF NoBatch, Batch, Batches, Images
<1> QED
  BY <1>1, <1>2, <1>3, <1>4 DEF Request, Requests

\* A tail batch is staged behind the ones already staged.
LEMMA StageTypes ==
    ASSUME ObjectTypes, NEW b \in Batches, StageTailBatchOk(b), StageTailBatch(b)
    PROVE  DstTypeOK' /\ (Len(inbox) <= staged)'
<1>1. /\ b.lo \in Nat /\ b.ents \in Seq(Muts) /\ Len(b.ents) \in Nat
      /\ BatchLast(b) = b.lo + Len(b.ents) /\ BatchLast(b) \in Nat
  BY DEF Batches, BatchLast
<1>2. inbox \in Seq(Muts) /\ Len(inbox) \in Nat /\ Len(inbox) <= staged /\ staged \in Nat
  BY DEF ObjectTypes, DstTypeOK
<1>3. CASE StagedAlready(b)
  BY <1>3 DEF ObjectTypes, DstTypeOK, StageTailBatch
<1>4. CASE ~StagedAlready(b)
  <2>1. staged' = BatchLast(b) /\ inbox' = inbox \o b.ents /\ staged <= b.lo
    BY <1>4 DEF StageTailBatch, StageTailBatchOk
  <2>2. inbox' \in Seq(Muts) /\ Len(inbox') = Len(inbox) + Len(b.ents)
    BY <1>1, <1>2, <2>1
  <2> QED
    BY <1>1, <1>2, <2>1, <2>2 DEF ObjectTypes, DstTypeOK, StageTailBatch
<1> QED
  BY <1>3, <1>4

\* The destination's handlers keep its types.
LEMMA DestTypes ==
    ASSUME ObjectTypes, NEW r \in Requests, DestAccepts(r), DestServes(r),
           UNCHANGED <<srcVars, catVars>>
    PROVE  ObjectTypes'
<1>1. SrcTypeOK' /\ (op \in {"active", "completed", "aborted"} /\ cut \in BOOLEAN)'
      /\ (seedMax <= Len(srcOps))'
  BY DEF ObjectTypes, SrcTypeOK, srcVars, srcCopy, catVars
<1>2. r.b \in Batches /\ r.n \in Nat /\ r.v \in Images
  BY DEF Requests
<1>3. PICK b \in Batches : b = r.b
  BY <1>2
<1>4. DstTypeOK /\ Len(inbox) <= staged
  BY DEF ObjectTypes
<1>5. CASE r.rpc = "stageTailBatch"
  <2>1. StageTailBatchOk(b) /\ StageTailBatch(b)
    BY <1>3, <1>5 DEF DestAccepts, DestServes
  <2> QED
    BY <1>1, <2>1, StageTypes DEF ObjectTypes
<1>6. CASE r.rpc \in {"prepareReshardDestOwnership", "provisionFreshReshardDestination",
                      "beginReshardDest", "closeReshardBulkDest", "readStagedTailBatch",
                      "closeTailStaging", "activateReshardDestServing",
                      "beginReshardDestAbort"}
  <2>1. DstTypeOK' /\ UNCHANGED <<inbox, staged>>
    BY <1>4, <1>6 DEF DestServes, DstTypeOK, DstStates, dstVars, dstCopy,
       PrepareReshardDestOwnership, ProvisionFreshReshardDestination, BeginReshardDest,
       CloseReshardBulkDest, CloseTailStaging, ActivateReshardDestServing,
       BeginReshardDestAbort
  <2> QED
    BY <1>1, <1>4, <2>1 DEF ObjectTypes
<1>7. CASE r.rpc = "applyBulkBatch"
  <2>1. ApplyBulkBatch(r.n, r.v)
    BY <1>7 DEF DestServes
  <2>2. [dstRows EXCEPT ![r.n] = r.v] \in Rows
    BY <1>2, <1>4 DEF DstTypeOK, Rows
  <2>3. DstTypeOK' /\ UNCHANGED <<inbox, staged>>
    BY <1>4, <2>1, <2>2 DEF ApplyBulkBatch, DstTypeOK, dstCopy
  <2> QED
    BY <1>1, <1>4, <2>3 DEF ObjectTypes
<1>8. CASE r.rpc = "ackStagedTail"
  <2>1. PICK g : /\ g = r.n - (staged - Len(inbox))
                 /\ inbox' = IF g <= 0 THEN inbox ELSE SubSeq(inbox, g + 1, Len(inbox))
    BY <1>8 DEF DestServes, AckStagedTail
  <2>2. inbox \in Seq(Muts) /\ Len(inbox) \in Nat /\ g \in Int
    BY <1>2, <1>4, <2>1 DEF DstTypeOK
  <2>3. inbox' \in Seq(Muts) /\ Len(inbox') <= Len(inbox)
    <3>1. CASE g <= 0
      BY <2>1, <2>2, <3>1
    <3>2. CASE ~(g <= 0)
      <4>1. inbox' = SubSeq(inbox, g + 1, Len(inbox)) /\ g + 1 \in 2..(g + 1)
        BY <2>1, <2>2, <3>2
      <4> QED
        BY <2>2, <4>1
    <3> QED
      BY <3>1, <3>2
  <2>4. DstTypeOK' /\ (Len(inbox) <= staged)'
    BY <1>4, <1>8, <2>2, <2>3 DEF DestServes, AckStagedTail, DstTypeOK
  <2> QED
    BY <1>1, <2>4 DEF ObjectTypes
<1>9. CASE r.rpc = "applyTailBatch"
  <2>1. ApplyTailBatch(b)
    BY <1>3, <1>9 DEF DestServes
  <2>2. BatchLast(b) \in Nat /\ Replay(dstRows, BatchAbove(b, applied)) \in Rows
    BY <1>4, BatchParts, ReplayRows DEF DstTypeOK
  <2>3. DstTypeOK' /\ UNCHANGED <<inbox, staged>>
    BY <1>4, <2>1, <2>2 DEF ApplyTailBatch, DstTypeOK
  <2> QED
    BY <1>1, <1>4, <2>3 DEF ObjectTypes
<1>10. CASE r.rpc = "applySplitOpLogBatch"
  <2>1. ApplySplitOpLogBatch(b)
    BY <1>3, <1>10 DEF DestServes
  <2>2. BatchLast(b) \in Nat /\ {b.ents[i] : i \in DOMAIN b.ents} \subseteq Muts
    BY BatchParts, 0 \in Nat DEF Batches
  <2>3. DstTypeOK' /\ UNCHANGED <<inbox, staged>>
    BY <1>4, <2>1, <2>2 DEF ApplySplitOpLogBatch, DstTypeOK
  <2> QED
    BY <1>1, <1>4, <2>3 DEF ObjectTypes
<1>11. CASE r.rpc = "abortReshardDestBatch"
  <2>1. [dstRows EXCEPT ![abortPos + 1] = NoRow] \in Rows
    BY <1>4 DEF DstTypeOK, Rows, Images
  <2>2. AbortReshardDestBatch
    BY <1>11 DEF DestServes
  <2>3. NKeys \in Nat /\ abortPos \in 0..NKeys /\ 0 \in 0..NKeys /\ <<>> \in Seq(Muts)
    BY <1>4, DataAssumption DEF DstTypeOK
  <2>4. (dst # "aborting") => DstTypeOK' /\ (Len(inbox) <= staged)'
    BY <1>4, <2>2 DEF AbortReshardDestBatch, DstTypeOK, dstVars, dstCopy
  <2>5. dst = "aborting" /\ abortPos < NKeys => DstTypeOK' /\ (Len(inbox) <= staged)'
    <3>1. abortPos < NKeys => abortPos + 1 \in 0..NKeys
      BY <2>3
    <3> QED
      BY <1>4, <2>1, <2>2, <3>1 DEF AbortReshardDestBatch, DstTypeOK, dstCopy
  <2>6. dst = "aborting" /\ ~(abortPos < NKeys) => DstTypeOK' /\ (Len(inbox) <= staged)'
    BY <1>4, <2>2, <2>3
       DEF AbortReshardDestBatch, ReleaseTransferState, DstTypeOK, DstStates
  <2>7. DstTypeOK' /\ (Len(inbox) <= staged)'
    BY <2>4, <2>5, <2>6
  <2> QED
    BY <1>1, <2>7 DEF ObjectTypes
<1>12. CASE r.rpc = "finishReshardDest"
  <2>1. DstTypeOK' /\ (Len(inbox) <= staged)'
    BY <1>4, <1>12, DataAssumption
       DEF DestServes, FinishReshardDest, ReleaseTransferState, DstTypeOK, DstStates
  <2> QED
    BY <1>1, <2>1 DEF ObjectTypes
<1> QED
  BY <1>5, <1>6, <1>7, <1>8, <1>9, <1>10, <1>11, <1>12 DEF DestServes

\* The source's handlers keep its types.
LEMMA SourceTypes ==
    ASSUME ObjectTypes, NEW r \in Requests, SourceAccepts(r), SourceServes(r),
           UNCHANGED <<dstVars, catVars>>
    PROVE  ObjectTypes'
<1>1. DstTypeOK' /\ (op \in {"active", "completed", "aborted"} /\ cut \in BOOLEAN)'
      /\ (Len(inbox) <= staged)'
  BY DEF ObjectTypes, DstTypeOK, dstVars, dstCopy, catVars
<1>2. r.n \in Nat
  BY DEF Requests
<1>3. SrcTypeOK /\ seedMax <= Len(srcOps)
  BY DEF ObjectTypes
<1>4. Len(srcOps) \in Nat /\ Len(opLog) \in Nat
  BY <1>3 DEF SrcTypeOK
<1> SUFFICES SrcTypeOK' /\ (seedMax <= Len(srcOps))'
  BY <1>1 DEF ObjectTypes
<1>5. CASE r.rpc \in SourceReads
  BY <1>3, <1>5 DEF SourceServes, SourceReads, srcVars, srcCopy, SrcTypeOK
<1>6. CASE r.rpc = "beginReshardSource"
  BY <1>3, <1>4, <1>6 DEF SourceServes, SourceReads, BeginReshardSource, SrcTypeOK, SrcStates
<1>7. CASE r.rpc \in {"ackTail", "ackSplitOpLog"}
  BY <1>2, <1>3, <1>7 DEF SourceServes, SourceReads, AckTail, AckSplitOpLog, SrcTypeOK
<1>8. CASE r.rpc = "readSplitOpLogBatch"
  <2>1. SeedSplitOpLogPage
    BY <1>8 DEF SourceServes, SourceReads
  <2>2. SeededOpLog \in Seq(Muts) /\ Len(SeededOpLog) >= Len(opLog)
    <3>1. CASE seedAfter < seedMax /\ Len(opLog) - opAcked < SplitLogMax
      <4>1. srcOps[seedAfter + 1] \in Muts
        BY <1>3, <1>4, <3>1 DEF SrcTypeOK
      <4>2. SeededOpLog = Append(opLog, srcOps[seedAfter + 1])
        BY <3>1 DEF SeededOpLog
      <4> QED
        BY <1>3, <1>4, <4>1, <4>2 DEF SrcTypeOK
    <3>2. CASE ~(seedAfter < seedMax /\ Len(opLog) - opAcked < SplitLogMax)
      <4>1. SeededOpLog = opLog
        BY <3>2 DEF SeededOpLog
      <4> QED
        BY <1>3, <1>4, <4>1 DEF SrcTypeOK
    <3> QED
      BY <3>1, <3>2
  <2>3. seedAfter + Len(SeededOpLog) - Len(opLog) \in Nat
    BY <1>3, <1>4, <2>2 DEF SrcTypeOK
  <2> QED
    BY <1>3, <2>1, <2>2, <2>3 DEF SeedSplitOpLogPage, SrcTypeOK
<1>9. CASE r.rpc \in {"prepareRoutingFence", "activateRoutingFence",
                      "completeRoutingFenceCleanup", "cancelRoutingFenceBeforeCutover",
                      "stopReshardCapture"}
  BY <1>3, <1>9 DEF SourceServes, SourceReads, PrepareRoutingFence, ActivateRoutingFence,
     CompleteRoutingFenceCleanup, CancelRoutingFenceBeforeCutover, StopReshardCapture,
     SrcTypeOK, SrcStates, FenceStates, srcCopy
<1>10. CASE r.rpc = "dropMigratedRange"
  <2>1. [srcRows EXCEPT ![dropPos + 1] = NoRow] \in Rows
    BY <1>3 DEF SrcTypeOK, Rows, Images
  <2>2. DropMigratedRange
    BY <1>10 DEF SourceServes, SourceReads
  <2>3. NKeys \in Nat /\ dropPos \in 0..NKeys
    BY <1>3, DataAssumption DEF SrcTypeOK
  <2>4. srcRows' \in Rows /\ dropPos' \in 0..NKeys
    BY <1>3, <2>1, <2>2, <2>3 DEF DropMigratedRange, SrcTypeOK
  <2> QED
    BY <1>3, <2>2, <2>4 DEF DropMigratedRange, SrcTypeOK, srcCopy
<1>11. CASE r.rpc \in {"finishReshardSource", "abortReshardSource"}
  <2>1. UNCHANGED srcVars \/ ClearCapture
    BY <1>11 DEF SourceServes, SourceReads, FinishReshardSource, AbortReshardSource
  <2>2. CASE UNCHANGED srcVars
    BY <1>3, <2>2 DEF SrcTypeOK, srcVars, srcCopy
  <2>3. CASE ClearCapture
    <3>1. 0 \in 0..NKeys /\ <<>> \in Seq(Muts)
      BY DataAssumption
    <3> QED
      BY <1>3, <1>4, <2>3, <3>1 DEF ClearCapture, SrcTypeOK, SrcStates
  <2> QED
    BY <2>1, <2>2, <2>3
<1> QED
  BY <1>5, <1>6, <1>7, <1>8, <1>9, <1>10, <1>11 DEF SourceServes

\* A served request keeps the types of the objects.
LEMMA ServedTypes ==
    ASSUME ObjectTypes, NEW r \in Requests, Accepts(r), Serves(r)
    PROVE  ObjectTypes'
<1>1. CASE SourceServes(r) /\ UNCHANGED <<dstVars, catVars>>
  <2>1. SourceAccepts(r)
    BY <1>1 DEF Accepts, SourceServes, SourceReads, DestAccepts, CatalogAccepts
  <2> QED
    BY <1>1, <2>1, SourceTypes
<1>2. CASE DestServes(r) /\ UNCHANGED <<srcVars, catVars>>
  <2>1. DestAccepts(r)
    BY <1>2 DEF Accepts, DestServes, SourceAccepts, CatalogAccepts
  <2> QED
    BY <1>2, <2>1, DestTypes
<1>3. CASE CatalogServes(r) /\ UNCHANGED <<srcVars, dstVars>>
  BY <1>3 DEF CatalogServes, ObjectTypes, SrcTypeOK, DstTypeOK, srcVars, srcCopy, dstVars, dstCopy
<1> QED
  BY <1>1, <1>2, <1>3 DEF Serves

\* How a run that answers a call goes on: it returns or suspends at w with
\* what it has read, and tries to copy rows only while rows are left.
Continues ==
    \E w \in (Waits \ Undoing) \cup {"idle"} :
        /\ w \in {"bulk_read", "bulk_apply"} => run.idx = 0
        /\ \/ RunGoes(w)
           \/ w # "idle" /\ \E n \in 1..2 : RunLoops(w, n)
           \/ w # "idle" /\ \E b \in Batches : RunHas(b, w)

\* The records a continuation makes are runs.
LEMMA ContinueShape ==
    ASSUME RunTypes, NEW w \in Waits
    PROVE  /\ [run EXCEPT !.at = w] \in Runs
           /\ \A n \in 1..2 : [run EXCEPT !.at = w, !.round = n] \in Runs
           /\ \A b \in Batches : [run EXCEPT !.at = w, !.buf = b] \in Runs
           /\ \A v \in Images : [run EXCEPT !.at = w, !.image = v] \in Runs
BY DEF RunTypes, Runs

\* A run that returned has its initial values.
LEMMA NoRunTypes ==
    ASSUME run' = NoRun
    PROVE  RunTypes'
<1>1. NoRun \in Runs
  BY DataAssumption DEF NoRun, Runs, NoBatch, Batch, Batches, Images, Phases, INIT
<1>2. NoRun.at \notin Waits /\ NoRun.at \notin {"bulk_read", "bulk_apply"}
  BY WaitNames DEF NoRun
<1> QED
  BY <1>1, <1>2 DEF RunTypes, Waits, RpcAt

\* A run goes on from a wait at which its copy of the bulk cursor was right.
LEMMA ContinueTypes ==
    ASSUME RunTypes, run.at \in Waits \ Undoing, Continues,
           run' = NoRun \/ UNCHANGED <<phase, bulkPos>>
    PROVE  RunTypes'
<1>1. CASE run' = NoRun
  BY <1>1, NoRunTypes
<1>2. CASE UNCHANGED <<phase, bulkPos>> /\ run' # NoRun
  <2>1. PICK w \in Waits \ Undoing :
           /\ w \in {"bulk_read", "bulk_apply"} => run.idx = 0
           /\ \/ run' = [run EXCEPT !.at = w]
              \/ \E n \in 1..2 : run' = [run EXCEPT !.at = w, !.round = n]
              \/ \E b \in Batches : run' = [run EXCEPT !.at = w, !.buf = b]
    BY <1>2 DEF Continues, RunGoes, RunLoops, RunHas
  <2>2. run' \in Runs
    BY <2>1, ContinueShape
  <2>3. /\ run'.at = w /\ run'.phase = run.phase /\ run'.pos = run.pos /\ run'.idx = run.idx
    BY <2>1 DEF RunTypes, Runs
  <2> QED
    BY <1>2, <2>1, <2>2, <2>3 DEF RunTypes, Current, Waits, RpcAt
<1> QED
  BY <1>1, <1>2

\* The staging, acknowledging and copying steps of TAIL_CAPTURE_ENABLED.
LEMMA StageContinues ==
    ASSUME RunTypes, StageReturns \/ BulkAfterTailAck \/ BulkWork
    PROVE  Continues
<1>1. run.idx \in 0..1 /\ run.turn \in 0..3
  BY DEF RunTypes, Runs
<1>2. ASSUME NEW w \in Waits \ Undoing, w \notin {"bulk_read", "bulk_apply"},
             RunGoes(w) \/ \E n \in 1..2 : RunLoops(w, n)
      PROVE  Continues
  BY <1>2, WaitNames DEF Continues
<1>3. BulkWork => Continues
  <2>1. CASE run.turn > 1 /\ run.idx = 0 /\ RunGoes("bulk_read")
    BY <2>1, WaitNames DEF Continues, Undoing
  <2>2. CASE \/ run.turn = 0 /\ RunLoops(StageStart, 2)
             \/ run.turn = 1 /\ RunLoops(OpStart, 1)
             \/ run.turn = 2 /\ run.idx = 1 /\ RunGoes("bulk_close")
             \/ run.turn = 3 /\ run.idx = 1 /\ RunGoes("inbox_read")
    BY <1>2, <2>2, WaitNames DEF StageStart, OpStart, Undoing
  <2> QED
    BY <2>1, <2>2 DEF BulkWork
<1>4. BulkAfterTailAck => Continues
  BY <1>2, <1>3, WaitNames DEF BulkAfterTailAck, Undoing
<1>5. RunGoes("idle") => Continues
  BY DEF Continues
<1> QED
  BY <1>2, <1>3, <1>4, <1>5, WaitNames DEF StageReturns, Undoing

\* What a run reads is a batch.
LEMMA ReadTypes ==
    ASSUME TypeInv
    PROVE  /\ ReadTailBatch(run.tail) \in Batches
           /\ ReadSplitOpLogBatch(opCur) \in Batches
           /\ ReadStagedTailBatch \in Batches
<1>1. /\ SrcTypeOK /\ DstTypeOK /\ Len(inbox) <= staged
      /\ run.tail \in Nat /\ opCur \in Nat /\ seedMax <= Len(srcOps)
  BY DEF TypeInv, ObjectTypes, DurableTypes, RunTypes, Runs
<1>2. ReadTailBatch(run.tail) \in Batches
  <2>1. PICK log \in Seq(Muts) : log = tailLog
    BY <1>1 DEF SrcTypeOK
  <2>2. PICK n \in Nat : n = tailAcked
    BY <1>1 DEF SrcTypeOK
  <2>3. PICK t \in Nat : t = run.tail
    BY <1>1
  <2> QED
    BY <2>1, <2>2, <2>3, PageBatch DEF ReadTailBatch
<1>3. ReadSplitOpLogBatch(opCur) \in Batches
  <2>1. SeededOpLog \in Seq(Muts)
    <3>1. seedAfter < seedMax => srcOps[seedAfter + 1] \in Muts
      BY <1>1 DEF SrcTypeOK
    <3> QED
      BY <1>1, <3>1 DEF SrcTypeOK, SeededOpLog
  <2>2. PICK log \in Seq(Muts) : log = SeededOpLog
    BY <2>1
  <2>3. PICK n \in Nat : n = opAcked
    BY <1>1 DEF SrcTypeOK
  <2> QED
    BY <1>1, <2>2, <2>3, PageBatch DEF ReadSplitOpLogBatch
<1>4. ReadStagedTailBatch \in Batches
  <2>1. /\ inbox \in Seq(Muts) /\ Len(inbox) \in Nat /\ staged - Len(inbox) \in Nat
        /\ StagedBatch \in Nat
    BY <1>1, DestAssumption DEF DstTypeOK
  <2>2. SubSeq(inbox, 1, IF Len(inbox) < StagedBatch THEN Len(inbox) ELSE StagedBatch) \in Seq(Muts)
    BY <2>1
  <2> QED
    BY <2>1, <2>2 DEF ReadStagedTailBatch, Batch, Batches
<1> QED
  BY <1>2, <1>3, <1>4

\* Every step of a run but two continues in this way.
LEMMA ForwardContinues ==
    ASSUME ControlInv, TypeInv, Forward, ~RunEnsureSource,
           ~(RunBulkRead /\ BulkCopyPage(run.pos) # NoRow)
    PROVE  Continues
<1>0. RunTypes /\ run.phase \in Phases
  BY DEF TypeInv, RunTypes, Runs
<1>1. ASSUME NEW w \in (Waits \ Undoing) \cup {"idle"}, w \notin {"bulk_read", "bulk_apply"},
             RunGoes(w)
      PROVE  Continues
  BY <1>1 DEF Continues
<1>2. ASSUME NEW w \in Waits \ Undoing, w \notin {"bulk_read", "bulk_apply"},
             (\E n \in 1..2 : RunLoops(w, n)) \/ \E b \in Batches : RunHas(b, w)
      PROVE  Continues
  BY <1>2, WaitNames DEF Continues
<1> USE WaitNames DEF Undoing
<1>3. CASE RunPrepareOwnership
  <2>1. \/ PhaseStart \in Waits \ Undoing /\ PhaseStart \notin {"bulk_read", "bulk_apply"}
        \/ ~Current
    <3>1. run.phase \in Movable \/ ~Current
      BY <1>3 DEF ControlInv, LocalOK, RunPhaseOK, Current, Undone, RunPrepareOwnership, Call, At,
                  ABORTING, ABORTED, INIT, CAPTURE, BULK_DONE
    <3> QED
      BY <3>1 DEF PhaseStart, StageStart, TailStart, Movable, INIT, CAPTURE, BULK_DONE, CAUGHT_UP,
                  DUAL_WRITE, CUT_OVER
  <2> QED
    BY <1>1, <1>3, <2>1 DEF RunPrepareOwnership
<1>4. CASE RunProvision \/ RunBeginDest \/ RunBeginSource
  BY <1>1, <1>4 DEF RunProvision, RunBeginDest, RunBeginSource, Advance
<1>5. CASE RunStageAck \/ RunStageRead \/ RunStageSend \/ RunBulkAck \/ RunBulkOpAck
  BY <1>0, <1>1, <1>2, <1>5, ReadTypes, StageContinues
     DEF RunStageAck, RunStageRead, RunStageSend, RunBulkAck, RunBulkOpAck
<1>6. CASE RunBulkRead \/ RunBulkApply \/ RunBulkClose
  BY <1>1, <1>6 DEF RunBulkRead, RunBulkApply, RunBulkClose, PageCopied, SetWork
<1>7. CASE RunInboxRead \/ RunInboxApply \/ RunInboxAck \/ RunInboxClose
  BY <1>1, <1>2, <1>7, ReadTypes
     DEF RunInboxRead, RunInboxApply, RunInboxAck, RunInboxClose, Advance
<1>8. CASE RunTailAck \/ RunTailRead \/ RunTailApply
  <2>1. \/ RunGoes("tail_read") \/ RunGoes("idle") \/ RunLoops("tail_read", 2)
        \/ RunHas(ReadTailBatch(run.tail), "tail_apply")
        \/ RunLoops("op_ack", 1) \/ RunLoops("op_read", 1)
    BY <1>8 DEF RunTailAck, RunTailRead, RunTailApply, OpStart
  <2> QED
    BY <1>1, <1>2, <2>1, ReadTypes
<1>9. CASE RunOpAck \/ RunOpRead \/ RunOpApply
  BY <1>1, <1>2, <1>9, ReadTypes
     DEF RunOpAck, RunOpRead, RunOpApply, OpConverged, SetWork, Advance
<1>10. CASE RunFencePrepare \/ RunFenceSet \/ RunCutover \/ RunActivate \/ RunStop \/ RunDrop
  BY <1>1, <1>10 DEF RunFencePrepare, RunFenceSet, RunCutover, RunActivate, RunStop, RunDrop,
                     TailStart, SetWork, Advance
<1>11. CASE RunFinishSource \/ RunFenceClean \/ RunFinishDest \/ RunComplete
  BY <1>1, <1>11 DEF RunFinishSource, RunFenceClean, RunFinishDest, RunComplete, Advance
<1> QED
  BY <1>3, <1>4, <1>5, <1>6, <1>7, <1>8, <1>9, <1>10, <1>11 DEF Forward

\* The record of the migration after a step of the run.
LEMMA ForwardDurable ==
    ASSUME ControlInv, TypeInv, Forward
    PROVE  DurableTypes'
<1>0. /\ DurableTypes /\ RunTypes /\ run.phase \in Phases
      /\ run.buf \in Batches /\ run.idx \in 0..1 /\ run.pos \in 0..NKeys
      /\ run.at \in Waits \ Undoing /\ PlaceOK(run.at, run.phase)
  BY ForwardCalls DEF TypeInv, RunTypes, Runs, ControlInv, LocalOK
<1>1. BatchLast(run.buf) \in Nat
  BY <1>0 DEF BatchLast, Batches
<1>2. Current => phase \in Movable /\ run.phase = phase
  BY <1>0, WaitNames DEF Current, ControlInv, LocalOK, RunPhaseOK, Undone, ABORTING, ABORTED,
         INIT, CAPTURE, BULK_DONE, Movable, CUT_OVER
<1>3. ASSUME UNCHANGED durVars PROVE DurableTypes'
  BY <1>0, <1>3 DEF DurableTypes, durVars
<1>4. ASSUME Advance PROVE DurableTypes'
  BY <1>0, <1>2, <1>4 DEF Advance, DurableTypes, Phases, Movable, INIT, CAPTURE, CUT_OVER
<1>5. ASSUME UNCHANGED <<phase, bulkPos, tableIdx>>, turn' \in 0..3,
             tailCur' \in {tailCur, BatchLast(run.buf)}, opCur' \in {opCur, BatchLast(run.buf)}
      PROVE  DurableTypes'
  BY <1>0, <1>1, <1>5 DEF DurableTypes
<1>6. \A t \in 0..3 : SetWork(t, tableIdx) => DurableTypes'
  BY <1>0, <1>5 DEF SetWork, DurableTypes
<1>7. ASSUME run.at \in {"bulk_read", "bulk_apply"}, PageCopied PROVE DurableTypes'
  <2>1. run.phase = CAPTURE /\ run.idx = 0 /\ run.pos < NKeys /\ (Current => run.pos = bulkPos)
    BY <1>0, <1>7 DEF PlaceOK, RunTypes
  <2>2. NKeys \in Nat /\ run.pos + 1 \in 0..NKeys
    BY <1>0, <2>1, DataAssumption
  <2>3. CASE Current
    <3>1. /\ bulkPos' = run.pos + 1 /\ turn' = 0 /\ UNCHANGED <<phase, tailCur, opCur>>
          /\ tableIdx' = IF run.pos + 1 = NKeys THEN 1 ELSE tableIdx
          /\ phase = CAPTURE
      BY <1>7, <2>1, <2>3 DEF PageCopied, Current
    <3> QED
      BY <1>0, <2>2, <3>1 DEF DurableTypes, INIT, CAPTURE
  <2>4. CASE ~Current
    BY <1>3, <1>7, <2>4 DEF PageCopied, durVars
  <2> QED
    BY <2>3, <2>4
<1>8. CASE \/ RunPrepareOwnership \/ RunEnsureSource \/ RunProvision \/ RunBeginDest
           \/ RunStageAck \/ RunBulkAck \/ RunBulkOpAck
           \/ RunInboxRead \/ RunInboxApply \/ RunInboxAck
           \/ RunTailAck \/ RunTailRead \/ RunOpAck
           \/ RunFencePrepare \/ RunFenceSet \/ RunCutover
           \/ RunFinishSource \/ RunFenceClean \/ RunFinishDest
  BY <1>3, <1>8 DEF RunPrepareOwnership, RunEnsureSource, RunProvision, RunBeginDest,
         RunStageAck, RunBulkAck, RunBulkOpAck, RunInboxRead, RunInboxApply, RunInboxAck,
         RunTailAck, RunTailRead, RunOpAck, RunFencePrepare, RunFenceSet, RunCutover,
         RunFinishSource, RunFenceClean, RunFinishDest
<1>9. CASE RunBeginSource \/ RunInboxClose \/ RunActivate \/ RunComplete
  BY <1>4, <1>9 DEF RunBeginSource, RunInboxClose, RunActivate, RunComplete
<1>10. CASE RunStageRead \/ RunStageSend \/ RunTailApply \/ RunOpApply
  <2>1. turn \in 0..3 /\ (StageReturns => turn' \in 0..3)
    BY <1>0 DEF DurableTypes, StageReturns
  <2> QED
    BY <1>5, <1>10, <2>1 DEF RunStageRead, RunStageSend, RunTailApply, RunOpApply
<1>11. CASE RunBulkRead \/ RunBulkApply
  <2>1. run.at \in {"bulk_read", "bulk_apply"} /\ (PageCopied \/ UNCHANGED durVars)
    BY <1>11 DEF RunBulkRead, RunBulkApply, Call, At
  <2> QED
    BY <1>3, <1>7, <2>1
<1>12. CASE RunBulkClose
  BY <1>6, <1>12 DEF RunBulkClose
<1>13. CASE RunOpRead
  BY <1>3, <1>4, <1>6, <1>13 DEF RunOpRead, OpConverged
<1>14. CASE RunStop
  BY <1>3, <1>4, <1>14 DEF RunStop
<1>15. CASE RunDrop
  <2>1. run.phase = DUAL_WRITE
    BY <1>0, <1>15 DEF RunDrop, Call, At, PlaceOK
  <2>2. \E i \in {tableIdx, 1} : SetWork(turn, i)
    BY <1>15 DEF RunDrop
  <2> QED
    BY <1>0, <2>1, <2>2 DEF SetWork, DurableTypes, Current, INIT, CAPTURE, DUAL_WRITE
<1> QED
  BY <1>8, <1>9, <1>10, <1>11, <1>12, <1>13, <1>14, <1>15 DEF Forward

\* A run that moves the phase or the bulk cursor returns; it only remembers
\* its phase among the ensured ones, and no failure is counted.
LEMMA ForwardReads ==
    ASSUME ControlInv, TypeInv, Forward
    PROVE  /\ run' = NoRun \/ UNCHANGED <<phase, bulkPos>>
           /\ ensured' \subseteq Phases /\ faults' = faults
<1>0. ensured \subseteq Phases /\ run.phase \in Phases
  BY DEF TypeInv, NetTypes, RunTypes, Runs
<1>1. ASSUME RunGoes("idle") PROVE run' = NoRun
  BY <1>1 DEF RunGoes
<1>2. \A w : RunGoes(w) => ensured' \subseteq Phases /\ faults' = faults
  BY <1>0 DEF RunGoes, netVars
<1>3. \A w, n : RunLoops(w, n) => ensured' \subseteq Phases /\ faults' = faults
  BY <1>0 DEF RunLoops, netVars
<1>4. \A w, b : RunHas(b, w) => ensured' \subseteq Phases /\ faults' = faults
  BY <1>0 DEF RunHas, netVars
<1>5. StageReturns \/ BulkAfterTailAck \/ BulkWork => ensured' \subseteq Phases /\ faults' = faults
  BY <1>2, <1>3 DEF StageReturns, BulkAfterTailAck, BulkWork
<1>6. CASE RunPrepareOwnership \/ RunEnsureSource \/ RunProvision \/ RunBeginDest \/ RunBeginSource
  BY <1>0, <1>1, <1>2, <1>6 DEF RunPrepareOwnership, RunEnsureSource, RunProvision, RunBeginDest,
     RunBeginSource, Advance, durVars, netVars
<1>7. CASE RunStageAck \/ RunStageRead \/ RunStageSend \/ RunBulkAck \/ RunBulkOpAck
  BY <1>2, <1>4, <1>5, <1>7 DEF RunStageAck, RunStageRead, RunStageSend, RunBulkAck, RunBulkOpAck,
     durVars
<1>8. CASE \/ RunBulkRead \/ RunBulkApply \/ RunBulkClose
           \/ RunInboxRead \/ RunInboxApply \/ RunInboxAck \/ RunInboxClose
  BY <1>0, <1>1, <1>2, <1>4, <1>8 DEF RunBulkRead, RunBulkApply, RunBulkClose, RunInboxRead,
     RunInboxApply, RunInboxAck, RunInboxClose, PageCopied, SetWork, Advance, durVars, netVars
<1>9. CASE RunTailAck \/ RunTailRead \/ RunTailApply \/ RunOpAck \/ RunOpRead \/ RunOpApply
  BY <1>1, <1>2, <1>3, <1>4, <1>9 DEF RunTailAck, RunTailRead, RunTailApply, RunOpAck, RunOpRead,
     RunOpApply, OpConverged, SetWork, Advance, durVars
<1>10. CASE \/ RunFencePrepare \/ RunFenceSet \/ RunCutover \/ RunActivate \/ RunStop \/ RunDrop
            \/ RunFinishSource \/ RunFenceClean \/ RunFinishDest \/ RunComplete
  BY <1>1, <1>2, <1>10 DEF RunFencePrepare, RunFenceSet, RunCutover, RunActivate, RunStop, RunDrop,
     RunFinishSource, RunFenceClean, RunFinishDest, RunComplete, SetWork, Advance, durVars
<1> QED
  BY <1>6, <1>7, <1>8, <1>9, <1>10 DEF Forward

\* A step of the run keeps the types.
LEMMA ForwardTypes ==
    ASSUME ControlInv, TypeInv, Forward
    PROVE  TypeInv'
<1>0. /\ ObjectTypes /\ RunTypes /\ NetTypes
      /\ run.at \in Waits \ Undoing /\ Call("run", run.at) /\ late' = late /\ abt' = abt
  BY ForwardCalls DEF TypeInv
<1>1. ObjectTypes'
  <2>1. PICK r \in Requests : r = Request("run")
    BY <1>0, RequestTypes DEF Procs, At
  <2> QED
    BY <1>0, <2>1, ServedTypes DEF Call
<1>2. DurableTypes'
  BY ForwardDurable
<1>3. RunTypes'
  <2>1. CASE RunEnsureSource
    <3>1. PhaseStart \in Waits \ Undoing /\ PhaseStart \notin {"bulk_read", "bulk_apply"}
      <4>1. run.phase \in Movable
        BY <2>1, WaitNames DEF ControlInv, LocalOK, RunPhaseOK, RunEnsureSource, Call, At, Undoing,
           Movable, INIT, CAPTURE, BULK_DONE, CUT_OVER
      <4> QED
        BY <4>1, WaitNames DEF PhaseStart, StageStart, TailStart, Movable, INIT, CAPTURE, BULK_DONE,
           CAUGHT_UP, DUAL_WRITE, CUT_OVER, Undoing
    <3>2. PICK w \in Waits \ Undoing : w = PhaseStart
      BY <3>1
    <3>3. run' = [run EXCEPT !.at = w] /\ UNCHANGED <<phase, bulkPos>>
      BY <2>1, <3>2 DEF RunEnsureSource, durVars
    <3>4. run' \in Runs
      BY <1>0, <3>3, ContinueShape
    <3>5. run'.at = w /\ run'.phase = run.phase /\ run'.pos = run.pos /\ run'.idx = run.idx
      BY <1>0, <3>3 DEF RunTypes, Runs
    <3> QED
      BY <1>0, <3>1, <3>2, <3>3, <3>4, <3>5 DEF RunTypes, Current, Waits, RpcAt
  <2>2. CASE RunBulkRead /\ BulkCopyPage(run.pos) # NoRow
    <3>1. BulkCopyPage(run.pos) \in Images
      <4>1. run.pos \in 0..NKeys /\ watermark \subseteq Keys /\ srcRows \in Rows
        BY <1>0 DEF RunTypes, Runs, ObjectTypes, SrcTypeOK
      <4>2. run.pos + 1 \in watermark => srcRows[run.pos + 1] \in Images
        BY <4>1 DEF Rows
      <4> QED
        BY <4>2 DEF BulkCopyPage, Images
    <3>2. PICK v \in Images : v = BulkCopyPage(run.pos)
      BY <3>1
    <3>3. run' = [run EXCEPT !.at = "bulk_apply", !.image = v] /\ UNCHANGED <<phase, bulkPos>>
      BY <2>2, <3>2 DEF RunBulkRead, durVars
    <3>4. run' \in Runs
      BY <1>0, <3>3, ContinueShape, WaitNames
    <3>5. /\ run'.at = "bulk_apply" /\ run'.phase = run.phase /\ run'.pos = run.pos
          /\ run'.idx = run.idx
      BY <1>0, <3>3 DEF RunTypes, Runs
    <3>6. run.at = "bulk_read"
      BY <2>2 DEF RunBulkRead, Call, At
    <3> QED
      BY <1>0, <3>3, <3>4, <3>5, <3>6 DEF RunTypes, Current, Waits, RpcAt
  <2>3. CASE ~RunEnsureSource /\ ~(RunBulkRead /\ BulkCopyPage(run.pos) # NoRow)
    <3>1. Continues
      BY <2>3, ForwardContinues
    <3>2. run' = NoRun \/ UNCHANGED <<phase, bulkPos>>
      BY ForwardReads
    <3> QED
      BY <1>0, <3>1, <3>2, ContinueTypes
  <2> QED
    BY <2>1, <2>2, <2>3
<1>4. NetTypes'
  <2>1. ensured' \subseteq Phases /\ faults' = faults
    BY ForwardReads
  <2> QED
    BY <1>0, <2>1 DEF NetTypes
<1> QED
  BY <1>1, <1>2, <1>3, <1>4 DEF TypeInv

\* Steps that serve nothing keep the types of the objects.
LEMMA QuietTypes ==
    ASSUME ObjectTypes, UNCHANGED <<srcVars, dstVars, catVars>>
    PROVE  ObjectTypes'
BY DEF ObjectTypes, SrcTypeOK, DstTypeOK, srcVars, srcCopy, dstVars, dstCopy, catVars

\* A new run copies the migration.
LEMMA RunStartTypes ==
    ASSUME ControlInv, TypeInv, RunStart
    PROVE  TypeInv'
<1>0. /\ phase \in Phases /\ tailCur \in Nat /\ bulkPos \in 0..NKeys /\ turn \in 0..3
      /\ tableIdx \in 0..1 /\ (phase = CAPTURE /\ tableIdx = 0 => bulkPos < NKeys)
      /\ UNCHANGED <<srcVars, dstVars, durVars, catVars, abt, ensured, netVars>>
  BY DEF TypeInv, DurableTypes, RunStart
<1>1. ObjectTypes'
  BY <1>0, QuietTypes DEF TypeInv
<1>2. DurableTypes' /\ NetTypes'
  BY <1>0 DEF TypeInv, DurableTypes, NetTypes, durVars, netVars
<1>3. RunTypes'
  <2>1. PICK w \in {"own", "undo_lease"} :
            run' = [NoRun EXCEPT !.at = w, !.phase = phase, !.tail = tailCur, !.pos = bulkPos,
                                 !.turn = turn, !.idx = tableIdx]
    BY DEF RunStart
  <2>2. NoRun \in Runs
    BY DataAssumption DEF NoRun, Runs, NoBatch, Batch, Batches, Images, Phases, INIT
  <2>3. /\ run' \in Runs
        /\ run'.at = w /\ run'.phase = phase /\ run'.pos = bulkPos /\ run'.idx = tableIdx
    BY <1>0, <2>1, <2>2, WaitNames DEF Runs
  <2> QED
    BY <1>0, <2>3 DEF RunTypes, Current, Waits, RpcAt, durVars
<1> QED
  BY <1>1, <1>2, <1>3 DEF TypeInv

\* A run that ends without an effect, or goes on after a full inbox.
LEMMA QuietRunTypes ==
    ASSUME ControlInv, TypeInv, RunReturns \/ RunRefused \/ RunStageLimited
    PROVE  TypeInv'
<1>0. ObjectTypes /\ DurableTypes /\ RunTypes /\ NetTypes /\ turn \in 0..3
  BY DEF TypeInv, DurableTypes
<1>1. UNCHANGED <<srcVars, dstVars, catVars, phase, tailCur, opCur, bulkPos, tableIdx>>
  BY DEF RunReturns, RunRefused, RunStageLimited, vars, durVars
<1>2. turn' \in 0..3 /\ UNCHANGED <<abt, ensured, late, faults>>
  BY <1>0 DEF RunReturns, RunRefused, RunStageLimited, vars, durVars, runVars, netVars, RunGoes,
         StageReturns, BulkAfterTailAck, BulkWork, RunLoops
<1>3. RunTypes'
  <2>1. CASE RunReturns
    BY <1>0, <2>1 DEF RunReturns, vars, durVars, runVars, RunTypes, Current, Waits, RpcAt
  <2>2. CASE RunRefused
    BY <2>2, NoRunTypes DEF RunRefused, RunGoes
  <2>3. CASE RunStageLimited
    <3>1. run.at \in Waits \ Undoing /\ Continues
      BY <1>0, <2>3, StageContinues, WaitNames DEF RunStageLimited, Limited, Undoing
    <3> QED
      BY <1>0, <1>1, <3>1, ContinueTypes
  <2> QED
    BY <2>1, <2>2, <2>3
<1> QED
  BY <1>0, <1>1, <1>2, <1>3, QuietTypes DEF TypeInv, DurableTypes, NetTypes

\* A step that leaves the run alone, and moves the phase only where no
\* run is at work on it.
LEMMA OtherTypes ==
    ASSUME ControlInv, TypeInv, UNCHANGED <<run, tailCur, opCur, bulkPos, turn, tableIdx>>,
           phase' = phase \/ (phase' \in {ABORTING, ABORTED} /\
                              (phase \in INIT..BULK_DONE \/ phase = ABORTING))
    PROVE  RunTypes' /\ DurableTypes'
<1>1. DurableTypes'
  BY DEF TypeInv, DurableTypes, Phases, ABORTING, ABORTED, INIT, CAPTURE
<1>2. run.at \in Waits \ Undoing /\ Current' => Current
  BY WaitNames DEF ControlInv, LocalOK, RunPhaseOK, Current, ABORTING, ABORTED, INIT, CAPTURE,
         BULK_DONE, Movable, CUT_OVER
<1> QED
  BY <1>1, <1>2 DEF TypeInv, RunTypes, Waits, RpcAt

\* abort and runAbortCleanup.
LEMMA AbortTypes ==
    ASSUME ControlInv, TypeInv, AbortStart \/ \E p \in Procs : Undo(p)
    PROVE  TypeInv'
<1>0. ObjectTypes /\ RunTypes /\ NetTypes /\ "idle" \notin Waits /\ Undoing \subseteq Waits
  BY WaitNames DEF TypeInv, Undoing
<1>1. CASE AbortStart
  <2>1. phase' = ABORTING /\ phase \in INIT..BULK_DONE \cup {ABORTING} /\ abt' \in Undoing
        /\ UNCHANGED <<srcVars, dstVars, catVars, run, ensured, netVars, tailCur, opCur, bulkPos,
                       turn, tableIdx>>
    BY <1>1 DEF AbortStart, Goes, Undoing
  <2> QED
    BY <1>0, <2>1, QuietTypes, OtherTypes DEF TypeInv, NetTypes, netVars
<1>2. CASE \E p \in Procs : Undo(p)
  <2>1. PICK p \in Procs : Undo(p)
    BY <1>2
  <2>2. PICK w \in Undoing, v \in Undoing \cup {"idle"} :
            /\ Call(p, w) /\ Goes(p, v)
            /\ phase' = phase \/ (phase' = ABORTED /\ phase = ABORTING)
            /\ UNCHANGED <<tailCur, opCur, bulkPos, turn, tableIdx>>
    BY <2>1 DEF Undo, UndoLease, UndoFence, UndoSource, UndoBegin, UndoBatch, UndoStep, Undoing,
           durVars
  <2>3. ObjectTypes'
    <3>1. PICK r \in Requests : r = Request(p)
      BY <1>0, <2>2, RequestTypes DEF Call
    <3> QED
      BY <1>0, <2>2, <3>1, ServedTypes DEF Call
  <2>4. CASE p = "abort"
    <3>1. UNCHANGED <<run, ensured, netVars>> /\ abt' = v
      BY <2>2, <2>4 DEF Goes
    <3> QED
      BY <1>0, <2>2, <2>3, <3>1, OtherTypes DEF TypeInv, NetTypes, netVars
  <2>5. CASE p = "run"
    <3>1. RunGoes(v) /\ UNCHANGED <<abt, ensured, late, faults>>
      BY <2>2, <2>5 DEF Goes, RunGoes, netVars
    <3>2. RunTypes'
      <4>1. CASE v = "idle"
        BY <3>1, <4>1, NoRunTypes DEF RunGoes
      <4>2. CASE v \in Undoing
        <5>1. run' = [run EXCEPT !.at = v] /\ v \notin {"bulk_read", "bulk_apply"}
          BY <1>0, <3>1, <4>2 DEF RunGoes, Undoing
        <5>2. run' \in Runs /\ run'.at = v
          BY <1>0, <4>2, <5>1, ContinueShape DEF RunTypes, Runs
        <5> QED
          BY <4>2, <5>1, <5>2 DEF RunTypes, Waits, RpcAt, Undoing
      <4> QED
        BY <4>1, <4>2
    <3>3. DurableTypes'
      BY <2>2 DEF TypeInv, DurableTypes, Phases, ABORTING, ABORTED, INIT, CAPTURE
    <3> QED
      BY <1>0, <2>3, <3>1, <3>2, <3>3 DEF TypeInv, NetTypes
  <2> QED
    BY <2>4, <2>5 DEF Procs
<1> QED
  BY <1>1, <1>2

\* A failed call and a restart leave requests of the protocol behind.
LEMMA FaultTypes ==
    ASSUME ControlInv, TypeInv, Crash \/ \E p \in Procs : Fail(p)
    PROVE  TypeInv'
<1>0. ObjectTypes /\ RunTypes /\ NetTypes /\ MaxFaults \in Nat
  BY EnvironmentAssumption DEF TypeInv
<1>1. /\ UNCHANGED <<srcVars, dstVars, durVars, catVars>>
      /\ run' \in {run, NoRun} /\ abt' \in {abt, "idle"}
      /\ ensured' \subseteq Phases /\ faults < MaxFaults /\ faults' = faults + 1
  BY <1>0 DEF Crash, Fail, NetTypes
<1>2. late' \subseteq late \cup InFlight("run") \cup InFlight("abort")
  BY DEF Crash, Fail, Procs
<1>3. ASSUME NEW p \in Procs PROVE InFlight(p) \subseteq Requests
  <2>1. At(p) # "idle" => At(p) \in Waits
    BY AtOK DEF ControlInv
  <2> QED
    BY <2>1, RequestTypes DEF InFlight
<1>4. NetTypes'
  BY <1>0, <1>1, <1>2, <1>3 DEF NetTypes, Procs
<1>5. RunTypes' /\ DurableTypes'
  <2>1. CASE run' = NoRun
    BY <1>1, <2>1, NoRunTypes DEF TypeInv, DurableTypes, durVars
  <2>2. CASE run' = run
    BY <1>1, <2>2, OtherTypes DEF durVars
  <2> QED
    BY <1>1, <2>1, <2>2
<1> QED
  BY <1>0, <1>1, <1>4, <1>5, QuietTypes DEF TypeInv

\* A late request.
LEMMA DeliverTypes ==
    ASSUME ControlInv, TypeInv, NEW r \in late, Deliver(r)
    PROVE  TypeInv'
<1>0. r \in Requests /\ ObjectTypes /\ NetTypes
  BY DEF TypeInv, NetTypes
<1>1. ObjectTypes'
  BY <1>0, ServedTypes, QuietTypes DEF Deliver
<1>2. RunTypes' /\ DurableTypes'
  BY OtherTypes DEF Deliver, durVars, runVars
<1>3. NetTypes'
  BY <1>0 DEF NetTypes, Deliver, runVars
<1> QED
  BY <1>1, <1>2, <1>3 DEF TypeInv

\* Clients write rows of the range.
LEMMA ClientTypes ==
    ASSUME ControlInv, TypeInv, NEW m \in Muts, MutateAtSource(m) \/ MutateAtDest(m)
    PROVE  TypeInv'
<1>0. ObjectTypes /\ NetTypes /\ SrcTypeOK /\ DstTypeOK /\ MutKey[m] \in Keys
  BY DataAssumption DEF TypeInv, ObjectTypes, Keys
<1>1. RunTypes' /\ DurableTypes' /\ NetTypes'
  <2>1. UNCHANGED <<durVars, catVars, runVars, netVars>>
    BY DEF MutateAtSource, MutateAtDest
  <2> QED
    BY <1>0, <2>1, OtherTypes DEF durVars, runVars, netVars, NetTypes
<1>2. CASE MutateAtSource(m)
  <2>1. SourceMutate(m) /\ UNCHANGED <<dstVars, catVars>>
    BY <1>2 DEF MutateAtSource
  <2>2. /\ Write(srcRows, m) \in Rows
        /\ Append(srcOps, m) \in Seq(Muts) /\ Len(Append(srcOps, m)) = Len(srcOps) + 1
        /\ Append(tailLog, m) \in Seq(Muts) /\ Append(opLog, m) \in Seq(Muts)
        /\ Len(srcOps) \in Nat
    BY <1>0, WriteRows DEF SrcTypeOK
  <2>3. SrcTypeOK' /\ (seedMax <= Len(srcOps))'
    <3>1. watermark' \in SUBSET Keys
      BY <1>0, <2>1 DEF SourceMutate, SrcTypeOK
    <3> QED
      BY <1>0, <2>1, <2>2, <3>1 DEF SourceMutate, SrcTypeOK, ObjectTypes
  <2> QED
    BY <1>0, <1>1, <2>1, <2>3 DEF TypeInv, ObjectTypes, DstTypeOK, dstVars, dstCopy, catVars
<1>3. CASE MutateAtDest(m)
  <2>1. DestMutate(m) /\ UNCHANGED <<srcVars, catVars>> /\ Write(dstRows, m) \in Rows
    BY <1>0, <1>3, WriteRows DEF MutateAtDest, DstTypeOK
  <2>2. DstTypeOK' /\ UNCHANGED <<inbox, staged>>
    BY <1>0, <2>1 DEF DestMutate, DstTypeOK, dstCopy
  <2> QED
    BY <1>0, <1>1, <2>1, <2>2 DEF TypeInv, ObjectTypes, SrcTypeOK, srcVars, srcCopy, catVars
<1> QED
  BY <1>2, <1>3

\* A recorded migration is well typed.
LEMMA InitTypes ==
    ASSUME Init
    PROVE  TypeInv
<1>1. NoRows \in Rows /\ <<>> \in Seq(Muts) /\ 0 \in 0..NKeys /\ NKeys \in Nat \ {0}
      /\ Len(<<>>) = 0 /\ MaxFaults \in Nat
  BY DataAssumption, EnvironmentAssumption DEF NoRows, Rows, Images
<1>2. ObjectTypes
  <2>1. SrcTypeOK
    BY <1>1 DEF Init, SrcInit, SrcTypeOK, SrcStates, FenceStates
  <2>2. DstTypeOK
    BY <1>1 DEF Init, DstInit, DstTypeOK, DstStates
  <2>3. (seedMax <= Len(srcOps)) /\ (Len(inbox) <= staged)
    BY <1>1 DEF Init, SrcInit, DstInit
  <2> QED
    BY <2>1, <2>2, <2>3 DEF Init, ObjectTypes
<1>3. DurableTypes /\ NetTypes
  BY <1>1 DEF Init, DurableTypes, NetTypes, Phases, INIT, CAPTURE
<1>4. RunTypes
  <2>1. NoRun \in Runs
    BY DataAssumption DEF NoRun, Runs, NoBatch, Batch, Batches, Images, Phases, INIT
  <2>2. NoRun.at \notin Waits /\ NoRun.at \notin {"bulk_read", "bulk_apply"}
    BY WaitNames DEF NoRun
  <2> QED
    BY <2>1, <2>2 DEF Init, RunTypes
<1> QED
  BY <1>2, <1>3, <1>4 DEF TypeInv

\* Every step keeps the types.
LEMMA NextTypes ==
    ASSUME ControlInv, TypeInv, [Next]_vars
    PROVE  TypeInv'
<1>1. CASE RunStep
  BY <1>1, ForwardTypes, QuietRunTypes, RunStartTypes, AbortTypes DEF RunStep, Forward, Procs
<1>2. CASE AbortStart \/ AbortStep
  BY <1>2, AbortTypes DEF AbortStep, Procs
<1>3. CASE Crash \/ \E p \in Procs : Fail(p)
  BY <1>3, FaultTypes
<1>4. CASE \E r \in late : Deliver(r)
  BY <1>4, DeliverTypes
<1>5. CASE \E m \in Muts : MutateAtSource(m) \/ MutateAtDest(m)
  BY <1>5, ClientTypes
<1>6. CASE UNCHANGED vars
  BY <1>6, QuietTypes, OtherTypes DEF vars, durVars, runVars, netVars, TypeInv, NetTypes
<1> QED
  BY <1>1, <1>2, <1>3, <1>4, <1>5, <1>6 DEF Next

\* The types and the ends hold together.
THEOREM TypeInvariant == Spec => [](ControlInv /\ EndInv /\ TypeInv)
BY InitControl, NextControl, InitEnds, NextEnds, InitTypes, NextTypes, PTL DEF Spec

\* However a movement ends, one Cdb owns the range and the other keeps no
\* row, outcome or captured entry of it; both Cdbs, the Catalog and the
\* Resharder hold well-formed state at every moment before.
THEOREM OutcomesAreClean == Spec => []OutcomeIsClean
<1>1. ASSUME ControlInv, EndInv, TypeInv PROVE OutcomeIsClean
  <2>1. TypeOK
    BY <1>1 DEF TypeOK, TypeInv, ObjectTypes, DurableTypes, RunTypes, NetTypes
  <2>2. DrainedIsComplete
    BY <1>1 DEF DrainedIsComplete, ControlInv, StateOK, EndInv, PhaseEndOK, DRAINED
  <2>3. AbortRestores
    <3> SUFFICES ASSUME phase = ABORTED
                 PROVE  /\ SourceAdmits /\ src = "drained" /\ tailLog = <<>> /\ opLog = <<>>
                        /\ ~serving /\ dst = "aborted" /\ dstRows = NoRows /\ dstOps = {}
                        /\ op = "aborted" /\ ~cut
      BY DEF AbortRestores
    <3>1. ~Passed
      BY DEF Passed, ABORTED, CAUGHT_UP, DUAL_WRITE, CUT_OVER, DRAINED
    <3>2. fence = "none" /\ ~cut /\ ~serving
      BY <1>1, <3>1 DEF ControlInv, StateOK
    <3>3. dst = "aborted" /\ op = "aborted" /\ src = "drained"
      BY <1>1 DEF EndInv, PhaseEndOK
    <3> QED
      BY <1>1, <3>2, <3>3 DEF EndInv, ObjectsEnd, SourceEndOK, DestEndOK, SourceAdmits
  <2> QED
    BY <2>1, <2>2, <2>3 DEF OutcomeIsClean
<1> QED
  BY <1>1, TypeInvariant, PTL

-----------------------------------------------------------------------------
(* What no step takes back.                                                *)

\* The part of Progress that callees decide, and the part of the record.
ObjectProgress ==
    /\ staged' >= staged /\ applied' >= applied
    /\ serving => serving'
    /\ cut => cut'
    /\ bulkDone => bulkDone'
    /\ inboxClosed => inboxClosed'
CursorProgress == tailCur' >= tailCur /\ opCur' >= opCur /\ bulkPos' >= bulkPos
PhaseProgress ==
    phase' # phase => \/ phase' = phase + 1 /\ phase < DRAINED
                      \/ phase' = ABORTING /\ phase < CAUGHT_UP
                      \/ phase = ABORTING /\ phase' = ABORTED

\* A served request moves the cursors of the destination forward.
LEMMA ServedProgress ==
    ASSUME ObjectTypes, NEW r \in Requests, Accepts(r), Serves(r)
    PROVE  ObjectProgress
<1>0. staged \in Nat /\ applied \in Nat /\ r.b \in Batches
  BY DEF ObjectTypes, DstTypeOK, Requests
<1>1. CASE SourceServes(r) /\ UNCHANGED <<dstVars, catVars>>
  BY <1>0, <1>1 DEF ObjectProgress, dstVars, dstCopy, catVars
<1>2. CASE DestServes(r) /\ UNCHANGED <<srcVars, catVars>>
  <2>1. BatchLast(r.b) \in Nat
    BY <1>0 DEF Batches, BatchLast
  <2>2. CASE r.rpc = "stageTailBatch"
    BY <1>0, <1>2, <2>1, <2>2 DEF ObjectProgress, DestServes, StageTailBatch, StagedAlready, catVars
  <2>3. CASE r.rpc = "applyTailBatch"
    BY <1>0, <1>2, <2>1, <2>3 DEF ObjectProgress, DestServes, ApplyTailBatch, catVars
  <2>4. CASE r.rpc \in DestRpcs \ {"stageTailBatch", "applyTailBatch", "beginReshardDestAbort"}
    <3>1. /\ UNCHANGED <<staged, applied, cut>>
          /\ bulkDone' = bulkDone \/ bulkDone' = TRUE
          /\ inboxClosed' = inboxClosed \/ inboxClosed' = TRUE
          /\ serving' = serving \/ serving' = TRUE
      BY <1>2, <2>4 DEF DestServes, DestRpcs, catVars, dstVars, dstCopy,
         PrepareReshardDestOwnership, ProvisionFreshReshardDestination, BeginReshardDest,
         ApplyBulkBatch, CloseReshardBulkDest, AckStagedTail, CloseTailStaging,
         ApplySplitOpLogBatch, ActivateReshardDestServing,
         AbortReshardDestBatch, ReleaseTransferState, FinishReshardDest
    <3> QED
      BY <1>0, <3>1 DEF ObjectProgress
  <2>6. CASE r.rpc = "beginReshardDestAbort"
    <3>1. UNCHANGED <<staged, applied, cut, inboxClosed, serving>>
      BY <1>2, <2>6 DEF DestServes, BeginReshardDestAbort, catVars
    <3>2. bulkDone' = (bulkDone \/ dst \in {"prepared", "live"})
      BY <1>2, <2>6 DEF DestServes, BeginReshardDestAbort
    <3>3. bulkDone => bulkDone'
      BY <3>2, Zenon
    <3> QED
      BY <1>0, <3>1, <3>3 DEF ObjectProgress
  <2>5. r.rpc \in DestRpcs
    BY <1>2 DEF DestServes, DestRpcs
  <2> QED
    BY <2>2, <2>3, <2>4, <2>5, <2>6
<1>3. CASE CatalogServes(r) /\ UNCHANGED <<srcVars, dstVars>>
  BY <1>0, <1>3 DEF ObjectProgress, CatalogServes, dstVars, dstCopy
<1> QED
  BY <1>1, <1>2, <1>3 DEF Serves

\* A run that persists a cursor persists one that is not behind.
LEMMA ForwardCursors ==
    ASSUME ControlInv, TypeInv, Forward
    PROVE  CursorProgress
<1>0. /\ tailCur \in Nat /\ opCur \in Nat /\ bulkPos \in Nat
      /\ RunTypes /\ run.buf \in Batches /\ run.at \in Waits \ Undoing
  BY ForwardCalls DEF TypeInv, DurableTypes, RunTypes, Runs
<1>1. BatchLast(run.buf) \in Nat
  BY <1>0 DEF BatchLast, Batches
<1>2. ASSUME UNCHANGED <<tailCur, opCur, bulkPos>> PROVE CursorProgress
  BY <1>0, <1>2 DEF CursorProgress
<1>3. (\E t, i : SetWork(t, i)) \/ Advance \/ UNCHANGED durVars => CursorProgress
  BY <1>2 DEF SetWork, Advance, durVars
<1>4. PageCopied => CursorProgress
  BY <1>0 DEF PageCopied, RunTypes, CursorProgress
<1>5. CASE RunStageRead \/ RunStageSend \/ RunTailApply \/ RunOpApply
  BY <1>0, <1>1, <1>5 DEF RunStageRead, RunStageSend, RunTailApply, RunOpApply, CursorProgress
<1>6. CASE RunBulkRead \/ RunBulkApply
  BY <1>3, <1>4, <1>6 DEF RunBulkRead, RunBulkApply
<1>7. CASE RunBulkClose \/ RunDrop \/ RunOpRead \/ RunStop
  BY <1>3, <1>7 DEF RunBulkClose, RunDrop, RunOpRead, OpConverged, RunStop
<1>8. CASE RunBeginSource \/ RunInboxClose \/ RunActivate \/ RunComplete
  BY <1>3, <1>8 DEF RunBeginSource, RunInboxClose, RunActivate, RunComplete
<1>9. CASE \/ RunPrepareOwnership \/ RunEnsureSource \/ RunProvision \/ RunBeginDest
           \/ RunStageAck \/ RunBulkAck \/ RunBulkOpAck
           \/ RunInboxRead \/ RunInboxApply \/ RunInboxAck
           \/ RunTailAck \/ RunTailRead \/ RunOpAck
           \/ RunFencePrepare \/ RunFenceSet \/ RunCutover
           \/ RunFinishSource \/ RunFenceClean \/ RunFinishDest
  BY <1>3, <1>9 DEF RunPrepareOwnership, RunEnsureSource, RunProvision, RunBeginDest,
         RunStageAck, RunBulkAck, RunBulkOpAck, RunInboxRead, RunInboxApply, RunInboxAck,
         RunTailAck, RunTailRead, RunOpAck, RunFencePrepare, RunFenceSet, RunCutover,
         RunFinishSource, RunFenceClean, RunFinishDest
<1> QED
  BY <1>5, <1>6, <1>7, <1>8, <1>9 DEF Forward

\* Every step makes progress or stands still.
LEMMA NextProgress ==
    ASSUME ControlInv, TypeInv, [Next]_vars
    PROVE  Progress
<1>0. /\ ObjectTypes /\ staged \in Nat /\ applied \in Nat
      /\ tailCur \in Nat /\ opCur \in Nat /\ bulkPos \in Nat
  BY DEF TypeInv, DurableTypes, ObjectTypes, DstTypeOK
<1>1. ASSUME NEW p \in Procs, Accepts(Request(p)), Serves(Request(p)), At(p) \in Waits
      PROVE  ObjectProgress
  <2>1. PICK r \in Requests : r = Request(p)
    BY <1>1, RequestTypes
  <2> QED
    BY <1>0, <1>1, <2>1, ServedProgress
<1>2. UNCHANGED <<dstVars, catVars>> => ObjectProgress
  BY <1>0 DEF ObjectProgress, dstVars, dstCopy, catVars
<1>3. UNCHANGED <<tailCur, opCur, bulkPos>> => CursorProgress
  BY <1>0 DEF CursorProgress
<1>4. phase' = phase => PhaseProgress
  BY DEF PhaseProgress
<1>5. CASE Forward
  <2>1. ObjectProgress
    BY <1>1, <1>5, ForwardCalls DEF Call, At, Procs
  <2>2. CursorProgress
    BY <1>5, ForwardCursors
  <2>3. PhaseProgress
    BY <1>5, ForwardMoves DEF WorkMoves, PhaseProgress, Movable, INIT, CUT_OVER, DRAINED
  <2> QED
    BY <2>1, <2>2, <2>3 DEF Progress, ObjectProgress, CursorProgress, PhaseProgress
<1>6. CASE RunStart \/ RunReturns \/ RunRefused \/ RunStageLimited
  <2>1. UNCHANGED <<dstVars, catVars, tailCur, opCur, bulkPos, phase>>
    BY <1>6 DEF RunStart, RunReturns, RunRefused, RunStageLimited, vars, durVars
  <2> QED
    BY <1>2, <1>3, <1>4, <2>1 DEF Progress, ObjectProgress, CursorProgress, PhaseProgress
<1>7. CASE AbortStart
  <2>1. UNCHANGED <<dstVars, catVars, tailCur, opCur, bulkPos>>
    BY <1>7 DEF AbortStart
  <2>2. PhaseProgress
    BY <1>7 DEF AbortStart, PhaseProgress, INIT, BULK_DONE, CAUGHT_UP, ABORTING
  <2> QED
    BY <1>2, <1>3, <2>1, <2>2 DEF Progress, ObjectProgress, CursorProgress, PhaseProgress
<1>8. CASE \E p \in Procs : Undo(p)
  <2>1. PICK p \in Procs : Undo(p)
    BY <1>8
  <2>2. PICK w \in Undoing :
            /\ Call(p, w)
            /\ phase' = phase \/ (phase' = ABORTED /\ phase = ABORTING)
            /\ UNCHANGED <<tailCur, opCur, bulkPos>>
    BY <2>1 DEF Undo, UndoLease, UndoFence, UndoSource, UndoBegin, UndoBatch, UndoStep, Undoing,
           durVars
  <2>3. ObjectProgress
    BY <1>1, <2>2, WaitNames DEF Call, Undoing
  <2>4. PhaseProgress
    BY <2>2 DEF PhaseProgress
  <2> QED
    BY <1>3, <2>2, <2>3, <2>4 DEF Progress, ObjectProgress, CursorProgress, PhaseProgress
<1>9. CASE Crash \/ (\E p \in Procs : Fail(p)) \/ UNCHANGED vars
  <2>1. UNCHANGED <<dstVars, catVars, tailCur, opCur, bulkPos, phase>>
    BY <1>9 DEF Crash, Fail, vars, durVars
  <2> QED
    BY <1>2, <1>3, <1>4, <2>1 DEF Progress, ObjectProgress, CursorProgress, PhaseProgress
<1>10. CASE \E r \in late : Deliver(r)
  <2>1. PICK r \in Requests : Deliver(r)
    BY <1>10 DEF TypeInv, NetTypes
  <2>2. ObjectProgress /\ UNCHANGED <<tailCur, opCur, bulkPos, phase>>
    BY <1>0, <1>2, <2>1, ServedProgress DEF Deliver, durVars
  <2> QED
    BY <1>3, <1>4, <2>2 DEF Progress, ObjectProgress, CursorProgress, PhaseProgress
<1>11. CASE \E m \in Muts : MutateAtSource(m) \/ MutateAtDest(m)
  <2>1. UNCHANGED <<dst, serving, dstCopy, catVars, durVars>>
    BY <1>11 DEF MutateAtSource, MutateAtDest, DestMutate, dstVars
  <2>2. ObjectProgress /\ UNCHANGED <<tailCur, opCur, bulkPos, phase>>
    BY <1>0, <2>1 DEF ObjectProgress, dstCopy, catVars, durVars
  <2> QED
    BY <1>3, <1>4, <2>2 DEF Progress, ObjectProgress, CursorProgress, PhaseProgress
<1> QED
  BY <1>5, <1>6, <1>7, <1>8, <1>9, <1>10, <1>11
     DEF Next, RunStep, AbortStep, Forward, Procs

\* No step, late delivery or restart takes back a durable decision.
THEOREM NothingIsUndone == Spec => NothingUndone
<1>1. ControlInv /\ TypeInv /\ [Next]_vars => [Progress]_vars
  BY NextProgress
<1> QED
  BY <1>1, TypeInvariant, PTL DEF Spec, NothingUndone

-----------------------------------------------------------------------------
(* What the source may prune.                                              *)

\* Captured rows up to LSN n are at the destination, staged or applied.
Durable(n) == n <= staged \/ n <= applied

\* Captured outcomes up to LSN n are applied there, until it is released.
OpDurable(n) == dst \notin {"aborted", "done"} => n <= opApplied

\* An acknowledgement on its way says the truth whenever it arrives.
AckOK(r) ==
    /\ r.rpc = "ackTail" => Durable(r.n)
    /\ r.rpc = "ackSplitOpLog" => OpDurable(r.n)

PrunedInv ==
    /\ Durable(tailAcked) /\ Durable(tailCur) /\ (run.at # "idle" => Durable(run.tail))
    /\ OpDurable(opAcked) /\ OpDurable(opCur)
    /\ \A r \in late : AckOK(r)

\* Both cursors of the destination only grow, until it is released for good.
DurableKept ==
    \A n \in Nat : (Durable(n) => Durable(n)') /\ (OpDurable(n) => OpDurable(n)')

\* What a served request prunes, and what it makes durable.
LEMMA ServedDurable ==
    ASSUME ObjectTypes, NEW r \in Requests, Accepts(r), Serves(r),
           AckOK(r), Durable(tailAcked), OpDurable(opAcked)
    PROVE  /\ DurableKept /\ Durable(tailAcked)' /\ OpDurable(opAcked)'
           /\ r.rpc \in {"stageTailBatch", "applyTailBatch"} => Durable(BatchLast(r.b))'
           /\ r.rpc = "applySplitOpLogBatch" => OpDurable(BatchLast(r.b))'
<1>0. /\ staged \in Nat /\ applied \in Nat /\ opApplied \in Nat /\ r.b \in Batches /\ r.n \in Nat
      /\ tailAcked \in Nat /\ opAcked \in Nat /\ staged' \in Nat /\ applied' \in Nat
      /\ opApplied' \in Nat
  BY ServedTypes DEF ObjectTypes, DstTypeOK, SrcTypeOK, Requests
<1>1. BatchLast(r.b) \in Nat /\ BatchLast(r.b)' = BatchLast(r.b)
  BY <1>0 DEF Batches, BatchLast
<1>2. staged' >= staged /\ applied' >= applied
  BY ServedProgress DEF ObjectProgress
<1>3. /\ dst \in {"aborted", "done"} => dst' \in {"aborted", "done"}
      /\ dst' \notin {"aborted", "done"} => opApplied' >= opApplied
  <2>1. CASE (SourceServes(r) \/ CatalogServes(r)) /\ UNCHANGED dstVars
    BY <1>0, <2>1 DEF dstVars, dstCopy
  <2>2. CASE DestServes(r)
    <3>1. DestAccepts(r)
      BY <2>2 DEF Accepts, DestServes, SourceAccepts, CatalogAccepts
    <3> QED
      BY <1>0, <1>1, <2>2, <3>1 DEF DestServes, DestAccepts, dstVars, dstCopy,
       PrepareReshardDestOwnership, ProvisionFreshReshardDestination, BeginReshardDest,
       BeginReshardDestOk, ApplyBulkBatch, CloseReshardBulkDest, StageTailBatch, AckStagedTail,
       CloseTailStaging, ApplyTailBatch, ApplySplitOpLogBatch, ActivateReshardDestServing,
       BeginReshardDestAbort, AbortReshardDestBatch, ReleaseTransferState, FinishReshardDest
  <2> QED
    BY <2>1, <2>2 DEF Serves
<1>4. DurableKept
  BY <1>0, <1>2, <1>3 DEF DurableKept, Durable, OpDurable
<1>5. tailAcked' \in {tailAcked, 0} \/ (r.rpc = "ackTail" /\ tailAcked' = r.n)
  BY DEF Serves, SourceServes, SourceReads, srcVars, srcCopy, BeginReshardSource, AckTail,
         AckSplitOpLog, SeedSplitOpLogPage, PrepareRoutingFence, ActivateRoutingFence,
         CompleteRoutingFenceCleanup, CancelRoutingFenceBeforeCutover, StopReshardCapture,
         DropMigratedRange, FinishReshardSource, AbortReshardSource, ClearCapture
<1>6. opAcked' \in {opAcked, 0} \/ (r.rpc = "ackSplitOpLog" /\ opAcked' = r.n)
  BY DEF Serves, SourceServes, SourceReads, srcVars, srcCopy, BeginReshardSource, AckTail,
         AckSplitOpLog, SeedSplitOpLogPage, PrepareRoutingFence, ActivateRoutingFence,
         CompleteRoutingFenceCleanup, CancelRoutingFenceBeforeCutover, StopReshardCapture,
         DropMigratedRange, FinishReshardSource, AbortReshardSource, ClearCapture
<1>7. Durable(tailAcked)' /\ OpDurable(opAcked)'
  BY <1>0, <1>4, <1>5, <1>6 DEF DurableKept, Durable, OpDurable, AckOK
<1>8. ASSUME r.rpc \in {"stageTailBatch", "applyTailBatch"} PROVE Durable(BatchLast(r.b))'
  BY <1>0, <1>1, <1>8 DEF Serves, SourceServes, SourceReads, DestServes, CatalogServes,
     StageTailBatch, StagedAlready, ApplyTailBatch, Durable
<1>9. ASSUME r.rpc = "applySplitOpLogBatch" PROVE OpDurable(BatchLast(r.b))'
  BY <1>0, <1>1, <1>9 DEF Serves, SourceServes, SourceReads, DestServes, CatalogServes,
     ApplySplitOpLogBatch, OpDurable
<1> QED
  BY <1>4, <1>7, <1>8, <1>9

\* What a process that waits acknowledges.
LEMMA RequestAcks ==
    ASSUME ControlInv, PrunedInv, NEW p \in Procs, At(p) \in Waits
    PROVE  AckOK(Request(p))
<1>1. CASE RpcAt[At(p)] \in {"ackTail", "ackSplitOpLog"}
  <2>1. run.at # "idle"
    BY <1>1, WaitNames DEF RpcAt, Undoing, Procs, At, ControlInv, LocalOK
  <2>2. /\ Request(p).rpc = RpcAt[At(p)]
        /\ RpcAt[At(p)] = "ackTail" => Request(p).n = run.tail
        /\ RpcAt[At(p)] = "ackSplitOpLog" => Request(p).n = opCur
    BY <1>1 DEF Request
  <2> QED
    BY <2>1, <2>2 DEF PrunedInv, AckOK
<1>2. CASE RpcAt[At(p)] \notin {"ackTail", "ackSplitOpLog"}
  BY <1>2, RequestRpc DEF AckOK
<1> QED
  BY <1>1, <1>2

\* Requests that are late stay truthful.
LEMMA KeptAcks ==
    ASSUME TypeInv, PrunedInv, DurableKept, late' \subseteq late
    PROVE  \A r \in late' : AckOK(r)'
<1> SUFFICES ASSUME NEW r \in late' PROVE AckOK(r)'
  OBVIOUS
<1>1. r.n \in Nat /\ AckOK(r)
  BY DEF TypeInv, NetTypes, PrunedInv, Requests
<1> QED
  BY <1>1 DEF DurableKept, AckOK, Durable, OpDurable

\* Steps at which nothing durable is lost and no acknowledgement is new.
LEMMA KeptPruned ==
    ASSUME TypeInv, PrunedInv, DurableKept, late' \subseteq late,
           Durable(tailAcked)', OpDurable(opAcked)',
           UNCHANGED <<tailCur, opCur>>,
           run'.at = "idle" \/ (run.at # "idle" /\ run'.tail = run.tail)
    PROVE  PrunedInv'
<1>1. tailCur \in Nat /\ opCur \in Nat /\ run.tail \in Nat /\ late \subseteq Requests
  BY DEF TypeInv, DurableTypes, RunTypes, Runs, NetTypes
<1>2. Durable(tailCur)' /\ OpDurable(opCur)' /\ (run.at # "idle" => Durable(run.tail))'
  BY <1>1 DEF PrunedInv, DurableKept, Durable, OpDurable
<1> QED
  BY <1>2, KeptAcks DEF PrunedInv

\* Nothing durable changes.
LEMMA QuietDurable ==
    ASSUME UNCHANGED <<dst, staged, applied, opApplied>>
    PROVE  DurableKept
BY DEF DurableKept, Durable, OpDurable

\* The steps of a run that persist a cursor of the logs.
LEMMA ForwardPersists ==
    ASSUME Forward
    PROVE  UNCHANGED <<tailCur, opCur>> \/ RunStageSend \/ RunTailApply \/ RunOpApply
BY DEF Forward, RunPrepareOwnership, RunEnsureSource, RunProvision, RunBeginDest, RunBeginSource,
   RunStageAck, RunStageRead, RunBulkAck, RunBulkOpAck, RunBulkRead, RunBulkApply, RunBulkClose,
   RunInboxRead, RunInboxApply, RunInboxAck, RunInboxClose, RunTailAck, RunTailRead, RunOpAck,
   RunOpRead, OpConverged, RunFencePrepare, RunFenceSet, RunCutover, RunActivate, RunStop, RunDrop,
   RunFinishSource, RunFenceClean, RunFinishDest, RunComplete, PageCopied, SetWork, Advance, durVars

\* A run persists a cursor only after the callee has it.
LEMMA ForwardPruned ==
    ASSUME ControlInv, TypeInv, PrunedInv, Forward
    PROVE  PrunedInv'
<1>0. /\ KeepsRead /\ late' = late /\ run.at \in Waits /\ run.at # "idle"
      /\ Call("run", run.at) /\ RunTypes /\ ObjectTypes
      /\ tailCur \in Nat /\ opCur \in Nat /\ run.tail \in Nat
  BY ForwardCalls, WaitNames DEF TypeInv, RunTypes, Runs, DurableTypes
<1>1. PICK r \in Requests : r = Request("run")
  BY <1>0, RequestTypes DEF Procs, At
<1>2. Accepts(r) /\ Serves(r) /\ AckOK(r) /\ r.rpc = RpcAt[run.at]
  BY <1>0, <1>1, RequestAcks, RequestRpc DEF Call, Procs, At
<1>3. /\ DurableKept /\ Durable(tailAcked)' /\ OpDurable(opAcked)'
      /\ r.rpc \in {"stageTailBatch", "applyTailBatch"} => Durable(BatchLast(r.b))'
      /\ r.rpc = "applySplitOpLogBatch" => OpDurable(BatchLast(r.b))'
  BY <1>0, <1>2, ServedDurable DEF PrunedInv
<1>4. run'.at = "idle" \/ run'.tail = run.tail
  BY <1>0 DEF KeepsRead, NoRun
<1>5. CASE UNCHANGED <<tailCur, opCur>>
  BY <1>0, <1>3, <1>4, <1>5, KeptPruned
<1>6. PICK b \in Batches : b = run.buf
  BY <1>0 DEF RunTypes, Runs
<1>7. RpcAt[run.at] \in CarriesBatch => r.b = b
  BY <1>1, <1>6 DEF Request, At
<1>8. PICK n \in Nat : n = BatchLast(b)
  BY DEF Batches, BatchLast
<1>9. ASSUME Durable(n)', RunStageSend \/ RunTailApply PROVE PrunedInv'
  <2>1. tailCur' \in {tailCur, n} /\ opCur' = opCur
    BY <1>6, <1>8, <1>9 DEF RunStageSend, RunTailApply
  <2>2. Durable(tailCur)' /\ OpDurable(opCur)' /\ (run.at # "idle" => Durable(run.tail))'
    BY <1>0, <1>3, <1>4, <1>9, <2>1 DEF PrunedInv, DurableKept, Durable, OpDurable
  <2> QED
    BY <1>0, <1>3, <2>2, KeptAcks DEF PrunedInv, TypeInv
<1>10. ASSUME OpDurable(n)', RunOpApply PROVE PrunedInv'
  <2>1. opCur' \in {opCur, n} /\ tailCur' = tailCur
    BY <1>6, <1>8, <1>10 DEF RunOpApply
  <2>2. Durable(tailCur)' /\ OpDurable(opCur)' /\ (run.at # "idle" => Durable(run.tail))'
    BY <1>0, <1>3, <1>4, <1>10, <2>1 DEF PrunedInv, DurableKept, Durable, OpDurable
  <2> QED
    BY <1>0, <1>3, <2>2, KeptAcks DEF PrunedInv, TypeInv
<1>11. RunStageSend \/ RunTailApply => Durable(n)'
  <2>1. RunStageSend \/ RunTailApply => run.at \in {"stage_send", "tail_apply"}
    BY DEF RunStageSend, RunTailApply, Call, At
  <2>2. run.at \in {"stage_send", "tail_apply"} =>
            RpcAt[run.at] \in {"stageTailBatch", "applyTailBatch"}
    BY DEF RpcAt
  <2> QED
    BY <1>2, <1>3, <1>7, <1>8, <2>1, <2>2 DEF CarriesBatch
<1>12. RunOpApply => OpDurable(n)'
  <2>1. RunOpApply => run.at = "op_apply"
    BY DEF RunOpApply, Call, At
  <2>2. run.at = "op_apply" => RpcAt[run.at] = "applySplitOpLogBatch"
    BY DEF RpcAt
  <2> QED
    BY <1>2, <1>3, <1>7, <1>8, <2>1, <2>2 DEF CarriesBatch
<1>13. \/ UNCHANGED <<tailCur, opCur>> \/ RunStageSend \/ RunTailApply \/ RunOpApply
  BY ForwardPersists
<1> QED
  BY <1>5, <1>9, <1>10, <1>11, <1>12, <1>13

\* Every step keeps what may be pruned durable.
LEMMA NextPruned ==
    ASSUME ControlInv, TypeInv, PrunedInv, [Next]_vars
    PROVE  PrunedInv'
<1>0. /\ ObjectTypes /\ RunTypes /\ PrunedInv /\ run.tail \in Nat /\ NoRun.at = "idle"
      /\ tailCur \in Nat /\ opCur \in Nat
      /\ "idle" \notin Waits /\ Undoing \subseteq Waits
  BY WaitNames DEF TypeInv, DurableTypes, RunTypes, Runs, NoRun, Undoing
<1>1. ASSUME NEW p \in Procs, At(p) \in Waits, Accepts(Request(p)), Serves(Request(p))
      PROVE  DurableKept /\ Durable(tailAcked)' /\ OpDurable(opAcked)'
  <2>1. PICK r \in Requests : r = Request(p)
    BY <1>1, RequestTypes
  <2> QED
    BY <1>0, <1>1, <2>1, RequestAcks, ServedDurable DEF PrunedInv
<1>2. ASSUME UNCHANGED <<tailAcked, opAcked, dst, staged, applied, opApplied>>
      PROVE  DurableKept /\ Durable(tailAcked)' /\ OpDurable(opAcked)'
  BY <1>0, <1>2, QuietDurable DEF PrunedInv, Durable, OpDurable
<1>3. CASE RunStart
  <2>1. /\ UNCHANGED <<tailAcked, opAcked, dst, staged, applied, opApplied, tailCur, opCur, late>>
        /\ run'.tail = tailCur
    BY <1>3 DEF RunStart, srcVars, srcCopy, dstVars, dstCopy, durVars, netVars, NoRun
  <2>2. Durable(tailCur)' /\ OpDurable(opCur)' /\ (run.at # "idle" => Durable(run.tail))'
    BY <1>0, <2>1 DEF PrunedInv, Durable, OpDurable
  <2> QED
    BY <1>2, <2>1, <2>2, KeptAcks DEF PrunedInv
<1>4. CASE RunReturns \/ RunRefused \/ RunStageLimited
  <2>1. /\ UNCHANGED <<tailAcked, opAcked, dst, staged, applied, opApplied, tailCur, opCur, late>>
        /\ run' = run \/ run' = NoRun \/ (run.at # "idle" /\ KeepsRead)
    BY <1>0, <1>4, StageKeeps DEF RunReturns, RunRefused, RunStageLimited, Limited, RunGoes, vars,
       srcVars, srcCopy, dstVars, dstCopy, durVars, netVars, runVars, ControlInv, LocalOK
  <2>2. run'.at = "idle" \/ (run.at # "idle" /\ run'.tail = run.tail)
    BY <1>0, <2>1 DEF KeepsRead
  <2> QED
    BY <1>2, <2>1, <2>2, KeptPruned
<1>5. CASE AbortStart \/ UNCHANGED vars
  <2>1. UNCHANGED <<tailAcked, opAcked, dst, staged, applied, opApplied, tailCur, opCur, late, run>>
    BY <1>5 DEF AbortStart, Goes, vars, srcVars, srcCopy, dstVars, dstCopy, durVars, netVars, runVars
  <2> QED
    BY <1>2, <2>1, KeptPruned
<1>6. CASE \E p \in Procs : Undo(p)
  <2>1. PICK p \in Procs : Undo(p)
    BY <1>6
  <2>2. PICK w \in Undoing, v \in Undoing \cup {"idle"} :
            Call(p, w) /\ Goes(p, v) /\ UNCHANGED <<tailCur, opCur>>
    BY <2>1 DEF Undo, UndoLease, UndoFence, UndoSource, UndoBegin, UndoBatch, UndoStep, Undoing,
           durVars
  <2>3. DurableKept /\ Durable(tailAcked)' /\ OpDurable(opAcked)'
    BY <1>0, <1>1, <2>2 DEF Call
  <2>4. late' = late /\ (run' = run \/ run' = NoRun \/ (run.at # "idle" /\ KeepsRead))
    <3>1. CASE p = "abort"
      BY <2>2, <3>1 DEF Goes, netVars
    <3>2. CASE p = "run"
      BY <1>0, <2>2, <3>2, GoesKeep DEF Goes, Call, At, ControlInv, LocalOK
    <3> QED
      BY <3>1, <3>2 DEF Procs
  <2>5. run'.at = "idle" \/ (run.at # "idle" /\ run'.tail = run.tail)
    BY <1>0, <2>4 DEF KeepsRead
  <2> QED
    BY <2>2, <2>3, <2>4, <2>5, KeptPruned
<1>7. CASE Crash \/ \E p \in Procs : Fail(p)
  <2>1. /\ UNCHANGED <<tailAcked, opAcked, dst, staged, applied, opApplied, tailCur, opCur>>
        /\ run' \in {run, NoRun}
        /\ late' \subseteq late \cup InFlight("run") \cup InFlight("abort")
    BY <1>7 DEF Crash, Fail, Procs, srcVars, srcCopy, dstVars, dstCopy, durVars
  <2>2. \A p \in Procs : \A r \in InFlight(p) : AckOK(r)
    <3> SUFFICES ASSUME NEW p \in Procs, NEW r \in InFlight(p) PROVE AckOK(r)
      OBVIOUS
    <3>1. At(p) \in Waits /\ r = Request(p)
      BY AtOK DEF InFlight, ControlInv
    <3> QED
      BY <3>1, RequestAcks
  <2>3. \A r \in late' : AckOK(r)'
    BY <1>0, <2>1, <2>2 DEF PrunedInv, Procs, AckOK, Durable, OpDurable
  <2>4. Durable(tailCur)' /\ OpDurable(opCur)' /\ (run.at # "idle" => Durable(run.tail))'
    BY <1>0, <2>1 DEF PrunedInv, Durable, OpDurable
  <2> QED
    BY <1>2, <2>1, <2>3, <2>4 DEF PrunedInv
<1>8. CASE \E r \in late : Deliver(r)
  <2>1. PICK r \in late : Deliver(r)
    BY <1>8
  <2>2. r \in Requests /\ AckOK(r)
    BY <1>0 DEF TypeInv, NetTypes, PrunedInv
  <2>3. UNCHANGED <<tailCur, opCur, run>> /\ late' \subseteq late
    BY <2>1 DEF Deliver, durVars, runVars
  <2>4. DurableKept /\ Durable(tailAcked)' /\ OpDurable(opAcked)'
    BY <1>0, <1>2, <2>1, <2>2, ServedDurable
       DEF Deliver, PrunedInv, srcVars, srcCopy, dstVars, dstCopy
  <2> QED
    BY <2>3, <2>4, KeptPruned
<1>9. CASE \E m \in Muts : MutateAtSource(m) \/ MutateAtDest(m)
  <2>1. UNCHANGED <<tailAcked, opAcked, dst, staged, applied, opApplied, tailCur, opCur, late, run>>
    BY <1>9 DEF MutateAtSource, MutateAtDest, SourceMutate, DestMutate, srcVars, srcCopy, dstVars,
       dstCopy, durVars, netVars, runVars
  <2> QED
    BY <1>2, <2>1, KeptPruned
<1> QED
  BY <1>3, <1>4, <1>5, <1>6, <1>7, <1>8, <1>9, ForwardPruned
     DEF Next, RunStep, AbortStep, Forward, Procs

\* A recorded migration has pruned nothing.
LEMMA InitPruned ==
    ASSUME Init
    PROVE  PrunedInv
BY DEF Init, SrcInit, DstInit, NoRun, PrunedInv, Durable, OpDurable

\* What the source prunes is durable at the destination, staged or applied,
\* whenever and however often its acknowledgement arrives.
THEOREM PrunedRowsAreDurable == Spec => []PrunedIsDurable
<1>1. PrunedInv => PrunedIsDurable
  BY DEF PrunedInv, PrunedIsDurable, Durable, OpDurable, DestMoving
<1> QED
  BY <1>1, InitControl, NextControl, InitTypes, NextTypes, InitPruned, NextPruned, PTL DEF Spec

-----------------------------------------------------------------------------
(* Where a run arrives with what, and how the work cursor moves with it.   *)

\* A run answers its call, or goes on after a full inbox.
GoesOn == Forward \/ RunStageLimited

\* A run that suspends at a request arrived there from the read it sends on.
Arrives ==
    /\ run'.at = "stage_send" =>
           run.at = "stage_read" /\ run'.buf = ReadTailBatch(run.tail) /\ run'.buf.ents # <<>>
    /\ run'.at = "tail_apply" =>
           run.at = "tail_read" /\ run'.buf = ReadTailBatch(run.tail) /\ run'.buf.ents # <<>>
    /\ run'.at = "op_apply" =>
           run.at = "op_read" /\ run'.buf = ReadSplitOpLogBatch(opCur) /\ run'.buf.ents # <<>>
    /\ run'.at = "inbox_apply" => run.at = "inbox_read" /\ run'.buf = ReadStagedTailBatch
    /\ run'.at \in {"inbox_ack", "inbox_close"} => run.at \in {"inbox_read", "inbox_apply"}
    /\ run'.at = "inbox_read" => run.turn = 3 /\ run.phase = CAPTURE
    /\ run'.at = "bulk_apply" =>
           run.at = "bulk_read" /\ run'.image = BulkCopyPage(run.pos) /\ run'.image # NoRow
    /\ run'.at = "bulk_close" => run.idx = 1 /\ run.phase = CAPTURE
    /\ run'.at = "op_read" => run.at \in {"op_ack", "op_read"} \/ opCur = 0
    /\ run'.at \in OpWaits /\ run.phase = CAUGHT_UP =>
           run.at \in OpWaits \/ (run.at = "tail_read" /\ ReadTailBatch(run.tail).ents = <<>>)
    /\ run'.at = "cutover" =>
           run.at = "op_read" /\ ReadSplitOpLogBatch(opCur).ents = <<>> /\ run.phase = CAUGHT_UP
    /\ run'.at \notin Undoing \cup {"own"}

\* What the run records of it.
Records ==
    /\ opCur' = opCur \/ run'.at = "idle"
    /\ \/ bulkPos' = bulkPos
       \/ /\ bulkPos' = run.pos + 1 /\ run.pos = bulkPos /\ run'.at = "idle"
          /\ run.at = "bulk_apply" \/ (run.at = "bulk_read" /\ BulkCopyPage(run.pos) = NoRow)
    /\ phase' # phase =>
           /\ phase' = phase + 1 /\ run.phase = phase /\ turn' = 0 /\ tableIdx' = 0
           /\ phase = CAPTURE => run.at = "inbox_close"
    /\ turn' = 3 => turn = 3 \/ run.at = "bulk_close"
    /\ phase' = CAPTURE /\ tableIdx' = 1 => tableIdx = 1 \/ bulkPos' = NKeys

\* The staging and copying steps of TAIL_CAPTURE_ENABLED.
LEMMA StageArrives ==
    ASSUME TypeInv, RunShape, run.phase = CAPTURE, StageReturns \/ BulkAfterTailAck \/ BulkWork
    PROVE  Arrives
<1>1. run.turn \in 0..3 /\ run.idx \in 0..1 /\ opCur \in Nat
  BY DEF TypeInv, RunTypes, Runs, DurableTypes
<1>2. ASSUME NEW w \in {"idle", "stage_ack", "stage_read", "bulk_ack", "bulk_op_ack", "bulk_read",
                        "op_ack", "op_read", "bulk_close", "inbox_read"},
             run'.at = w, w = "op_read" => opCur = 0, w = "bulk_close" => run.idx = 1,
             w = "inbox_read" => run.turn = 3
      PROVE  Arrives
  BY <1>2 DEF Arrives, Undoing, OpWaits, CAPTURE, CAUGHT_UP
<1>3. \A w : RunGoes(w) => run'.at = w
  BY DEF RunShape, RunGoes, NoRun
<1>4. \A w, n : RunLoops(w, n) => run'.at = w
  BY DEF RunShape, RunLoops
<1>5. BulkWork => Arrives
  <2>1. CASE run.turn = 0 /\ RunLoops(StageStart, 2)
    BY <1>2, <1>4, <2>1 DEF StageStart
  <2>2. CASE run.turn = 1 /\ RunLoops(OpStart, 1)
    <3>1. OpStart = "op_ack" \/ (OpStart = "op_read" /\ opCur = 0)
      BY <1>1 DEF OpStart
    <3> QED
      BY <1>2, <1>4, <2>2, <3>1
  <2>3. CASE \/ run.turn > 1 /\ run.idx = 0 /\ RunGoes("bulk_read")
             \/ run.turn = 2 /\ run.idx = 1 /\ RunGoes("bulk_close")
             \/ run.turn = 3 /\ run.idx = 1 /\ RunGoes("inbox_read")
    BY <1>2, <1>3, <2>3
  <2> QED
    BY <2>1, <2>2, <2>3 DEF BulkWork
<1>6. BulkAfterTailAck => Arrives
  BY <1>2, <1>3, <1>5 DEF BulkAfterTailAck
<1>7. StageReturns => Arrives
  BY <1>2, <1>3, <1>6 DEF StageReturns
<1> QED
  BY <1>5, <1>6, <1>7

\* Every run that goes on arrives where it should.
LEMMA GoesOnArrives ==
    ASSUME ControlInv, TypeInv, GoesOn
    PROVE  Arrives
<1>0. /\ RunShape /\ RunTypes /\ PlaceOK(run.at, run.phase) /\ run.phase \in Phases /\ opCur \in Nat
      /\ run.round \in 1..2
  BY DEF ControlInv, LocalOK, TypeInv, RunTypes, Runs, DurableTypes
<1>1. ASSUME NEW w \in {"idle", "stage_ack", "stage_read", "bulk_ack", "bulk_op_ack", "bulk_read",
                        "ensure", "provision", "begin_dest", "begin_source", "tail_ack",
                        "tail_read", "op_ack", "fence_prepare", "fence_set", "activate", "stop",
                        "drop", "finish_source", "fence_clean", "finish_dest", "complete"},
             run'.at = w,
             w = "op_ack" => run.phase # CAUGHT_UP \/ run.at \in OpWaits
      PROVE  Arrives
  BY <1>1 DEF Arrives, Undoing, OpWaits
<1>2. \A w : RunGoes(w) => run'.at = w
  BY <1>0 DEF RunShape, RunGoes, NoRun
<1>3. \A w, b : RunHas(b, w) => run'.at = w /\ run'.buf = b
  BY <1>0 DEF RunShape, RunHas
<1>4. \A w, n : RunLoops(w, n) => run'.at = w
  BY <1>0 DEF RunShape, RunLoops
<1>5. CASE RunPrepareOwnership \/ RunEnsureSource
  <2>1. /\ run.phase \in Movable \/ (RunPrepareOwnership /\ ~Current)
        /\ run.at \notin OpWaits
    BY <1>5, WaitNames DEF ControlInv, LocalOK, RunPhaseOK, RunEnsureSource, RunPrepareOwnership,
       Call, At, Undoing, Current, Undone, ABORTING, ABORTED, INIT, CAPTURE, BULK_DONE, CUT_OVER,
       Movable, OpWaits
  <2>2. run'.at \in {"idle", "ensure"} \/ (run.phase \in Movable /\ run'.at = PhaseStart)
    BY <1>0, <1>2, <1>5, <2>1 DEF RunPrepareOwnership, RunEnsureSource, RunShape
  <2>3. run.phase \in Movable => PhaseStart \in {"provision", "stage_ack", "stage_read", "tail_ack",
            "tail_read", "fence_prepare", "finish_source"}
    BY DEF PhaseStart, StageStart, TailStart, Movable, INIT, CAPTURE, BULK_DONE, CAUGHT_UP,
           DUAL_WRITE, CUT_OVER
  <2> QED
    BY <1>1, <2>2, <2>3
<1>6. CASE RunProvision \/ RunBeginDest \/ RunBeginSource
  <2>1. run'.at \in {"idle", "begin_dest", "begin_source"}
    BY <1>2, <1>6 DEF RunProvision, RunBeginDest, RunBeginSource, Advance
  <2> QED
    BY <1>1, <2>1
<1>7. CASE RunStageAck \/ RunStageRead \/ RunStageSend \/ RunBulkAck \/ RunBulkOpAck \/ RunStageLimited
  <2>1. run.phase = CAPTURE
    BY <1>0, <1>7 DEF RunStageAck, RunStageRead, RunStageSend, RunBulkAck, RunBulkOpAck,
       RunStageLimited, Limited, Call, At, PlaceOK
  <2>2. CASE StageReturns \/ BulkAfterTailAck \/ BulkWork
    BY <1>0, <2>1, <2>2, StageArrives
  <2>3. CASE run'.at \in {"idle", "stage_read"}
    BY <1>1, <2>3
  <2>4. CASE /\ RunHas(ReadTailBatch(run.tail), "stage_send") /\ run.at = "stage_read"
             /\ ReadTailBatch(run.tail).ents # <<>>
    BY <1>3, <2>1, <2>4 DEF Arrives, Undoing, OpWaits
  <2> QED
    BY <1>2, <1>7, <2>2, <2>3, <2>4
       DEF RunStageAck, RunStageRead, RunStageSend, RunBulkAck, RunBulkOpAck, RunStageLimited, Call, At
<1>8. CASE RunBulkRead \/ RunBulkApply \/ RunBulkClose
  <2>1. \/ run'.at = "idle"
        \/ /\ run'.at = "bulk_apply" /\ run'.image = BulkCopyPage(run.pos) /\ run.at = "bulk_read"
           /\ run'.image # NoRow
    BY <1>0, <1>2, <1>8
       DEF RunBulkRead, RunBulkApply, RunBulkClose, PageCopied, SetWork, RunShape, Call, At
  <2> QED
    BY <1>1, <2>1 DEF Arrives, Undoing, OpWaits
<1>9. CASE RunInboxRead \/ RunInboxApply \/ RunInboxAck \/ RunInboxClose
  <2>1. \/ run'.at = "idle"
        \/ run'.at = "inbox_close" /\ run.at = "inbox_read"
        \/ run'.at = "inbox_ack" /\ run.at = "inbox_apply"
        \/ run'.at = "inbox_apply" /\ run.at = "inbox_read" /\ run'.buf = ReadStagedTailBatch
    BY <1>2, <1>3, <1>9 DEF RunInboxRead, RunInboxApply, RunInboxAck, RunInboxClose, Advance, Call, At
  <2> QED
    BY <1>1, <2>1 DEF Arrives, Undoing, OpWaits
<1>10. CASE RunTailAck \/ RunTailRead \/ RunTailApply
  <2>1. \/ run'.at \in {"idle", "tail_read"}
        \/ /\ run'.at = "tail_apply" /\ run.at = "tail_read" /\ run'.buf = ReadTailBatch(run.tail)
           /\ run'.buf.ents # <<>>
        \/ /\ run'.at = OpStart /\ run.at = "tail_read" /\ ReadTailBatch(run.tail).ents = <<>>
    BY <1>2, <1>3, <1>4, <1>10 DEF RunTailAck, RunTailRead, RunTailApply, Call, At
  <2> QED
    BY <1>0, <1>1, <2>1 DEF Arrives, Undoing, OpWaits, OpStart
<1>11. CASE RunOpAck \/ RunOpRead \/ RunOpApply
  <2>1. \/ run'.at = "idle"
        \/ run'.at = "op_read" /\ run.at \in {"op_ack", "op_read"}
        \/ /\ run'.at = "op_apply" /\ run.at = "op_read" /\ run'.buf = ReadSplitOpLogBatch(opCur)
           /\ run'.buf.ents # <<>>
        \/ /\ run'.at = "cutover" /\ run.at = "op_read" /\ run.phase = CAUGHT_UP
           /\ ReadSplitOpLogBatch(opCur).ents = <<>>
        \/ run'.at = "stop"
    BY <1>2, <1>3, <1>4, <1>11
       DEF RunOpAck, RunOpRead, RunOpApply, OpConverged, SetWork, Advance, Call, At
  <2> QED
    BY <1>1, <2>1 DEF Arrives, Undoing, OpWaits
<1>12. CASE RunFencePrepare \/ RunFenceSet \/ RunCutover \/ RunActivate \/ RunStop \/ RunDrop
  <2>1. run'.at \in {"idle", "fence_set", "tail_ack", "tail_read", "activate", "drop"}
    BY <1>2, <1>12 DEF RunFencePrepare, RunFenceSet, RunCutover, RunActivate, RunStop, RunDrop,
       TailStart, SetWork, Advance
  <2> QED
    BY <1>1, <2>1
<1>13. CASE RunFinishSource \/ RunFenceClean \/ RunFinishDest \/ RunComplete
  <2>1. run'.at \in {"idle", "fence_clean", "finish_dest", "complete"}
    BY <1>2, <1>13 DEF RunFinishSource, RunFenceClean, RunFinishDest, RunComplete, Advance
  <2> QED
    BY <1>1, <2>1
<1> QED
  BY <1>5, <1>6, <1>7, <1>8, <1>9, <1>10, <1>11, <1>12, <1>13 DEF GoesOn, Forward

\* And what it records is what it has done.
LEMMA GoesOnRecords ==
    ASSUME ControlInv, TypeInv, GoesOn
    PROVE  Records
<1>0. /\ RunShape /\ RunTypes /\ PlaceOK(run.at, run.phase) /\ run.phase \in Phases
      /\ turn \in 0..3 /\ tableIdx \in 0..1
  BY DEF ControlInv, LocalOK, TypeInv, RunTypes, Runs, DurableTypes
<1>1. RunGoes("idle") => run'.at = "idle"
  BY DEF RunGoes, NoRun
<1>2. ASSUME UNCHANGED <<opCur, bulkPos, phase, tableIdx>>, turn' \in {0, 1, 2, turn}
      PROVE  Records
  BY <1>2 DEF Records
<1>3. \A t \in {0, 1, 2, turn} : SetWork(t, tableIdx) => Records
  BY <1>0, <1>2 DEF SetWork
<1>4. ASSUME Advance, phase = CAPTURE => run.at = "inbox_close" PROVE Records
  BY <1>4 DEF Advance, Records, Current
<1>5. ASSUME run.at \in {"bulk_read", "bulk_apply"}, PageCopied,
             run.at = "bulk_read" => BulkCopyPage(run.pos) = NoRow
      PROVE  Records
  <2>1. Current => run.pos = bulkPos
    BY <1>0, <1>5, WaitNames DEF RunTypes, Undoing
  <2> QED
    BY <1>1, <1>5, <2>1 DEF PageCopied, Records
<1>6. CASE \/ RunPrepareOwnership \/ RunEnsureSource \/ RunProvision \/ RunBeginDest
           \/ RunStageAck \/ RunBulkAck \/ RunBulkOpAck
           \/ RunInboxRead \/ RunInboxApply \/ RunInboxAck
           \/ RunTailAck \/ RunTailRead \/ RunOpAck
           \/ RunFencePrepare \/ RunFenceSet \/ RunCutover
           \/ RunFinishSource \/ RunFenceClean \/ RunFinishDest
  BY <1>2, <1>6 DEF RunPrepareOwnership, RunEnsureSource, RunProvision, RunBeginDest,
         RunStageAck, RunBulkAck, RunBulkOpAck, RunInboxRead, RunInboxApply, RunInboxAck,
         RunTailAck, RunTailRead, RunOpAck, RunFencePrepare, RunFenceSet, RunCutover,
         RunFinishSource, RunFenceClean, RunFinishDest, durVars
<1>7. CASE RunBeginSource \/ RunInboxClose \/ RunActivate \/ RunComplete
  <2>1. Advance /\ (run.phase = CAPTURE => run.at = "inbox_close")
    BY <1>0, <1>7 DEF RunBeginSource, RunInboxClose, RunActivate, RunComplete, Call, At, PlaceOK,
       INIT, CAPTURE, CAUGHT_UP, CUT_OVER
  <2> QED
    BY <1>4, <2>1 DEF Advance, Current, Records
<1>8. CASE RunStageRead \/ RunStageSend \/ RunStageLimited \/ RunTailApply
  <2>1. StageReturns => turn' \in {1, turn}
    BY DEF StageReturns
  <2> QED
    BY <1>2, <1>8, <2>1 DEF RunStageRead, RunStageSend, RunStageLimited, RunTailApply
<1>9. CASE RunOpApply
  BY <1>0, <1>1, <1>9 DEF RunOpApply, Records
<1>10. CASE RunBulkRead \/ RunBulkApply
  <2>1. \/ UNCHANGED durVars
        \/ /\ PageCopied /\ run.at \in {"bulk_read", "bulk_apply"}
           /\ run.at = "bulk_read" => BulkCopyPage(run.pos) = NoRow
    BY <1>10 DEF RunBulkRead, RunBulkApply, Call, At
  <2> QED
    BY <1>2, <1>5, <2>1 DEF durVars
<1>11. CASE RunBulkClose
  BY <1>0, <1>11 DEF RunBulkClose, SetWork, Records, Call, At
<1>12. CASE RunOpRead
  <2>1. UNCHANGED durVars \/ SetWork(2, tableIdx) \/ (run.phase = BULK_DONE /\ Advance)
    BY <1>12 DEF RunOpRead, OpConverged
  <2>2. run.phase = BULK_DONE /\ Advance => Records
    BY <1>4 DEF Advance, Current, Records, BULK_DONE, CAPTURE
  <2> QED
    BY <1>2, <1>3, <2>1, <2>2 DEF durVars
<1>13. CASE RunStop
  <2>1. run.phase = DUAL_WRITE /\ (Advance \/ UNCHANGED durVars)
    BY <1>0, <1>13 DEF RunStop, Call, At, PlaceOK
  <2>2. Advance => Records
    BY <1>4, <2>1 DEF Advance, Current, Records, DUAL_WRITE, CAPTURE
  <2> QED
    BY <1>2, <2>1, <2>2 DEF durVars
<1>14. CASE RunDrop
  <2>1. run.phase = DUAL_WRITE /\ \E i \in {tableIdx, 1} : SetWork(turn, i)
    BY <1>0, <1>14 DEF RunDrop, Call, At, PlaceOK
  <2> QED
    BY <2>1 DEF SetWork, Records, Current, DUAL_WRITE, CAPTURE
<1> QED
  BY <1>6, <1>7, <1>8, <1>9, <1>10, <1>11, <1>12, <1>13, <1>14 DEF GoesOn, Forward

-----------------------------------------------------------------------------
(* What a movement copies: while the source owns the range, what the       *)
(* destination holds of it, and what the requests on their way carry.      *)

\* The source owns the range and neither side has been given up.
Copying == ~serving /\ src # "drained" /\ dst \notin {"aborting", "aborted", "done"}

\* The requests that bring data to the destination, or decide on it.
CopyRpcs == {"applyBulkBatch", "closeReshardBulkDest", "stageTailBatch", "applyTailBatch",
             "applySplitOpLogBatch", "cutover"}

\* The requests that may still execute, those of an abort apart.
Pending == IF run.at \in Waits THEN late \cup {Request("run")} ELSE late

Outcomes(ops)  == {ops[i] : i \in DOMAIN ops}
PartOf(b, log) == BatchLast(b) <= Len(log) /\ \A i \in DOMAIN b.ents : b.ents[i] = log[b.lo + i]
Hit(k, n)      == \E i \in DOMAIN tailLog : n < i /\ MutKey[tailLog[i]] = k

\* What a phase and a work cursor say has been done.
WorkOf(ph, t, i) ==
    /\ ph \in BULK_DONE..DRAINED => bulkDone /\ inboxClosed
    /\ ph = CAPTURE /\ t = 3 => bulkDone
    /\ ph = CAPTURE /\ i = 1 => bulkPos = NKeys

WorkSent(r) ==
    /\ r.rpc = "closeReshardBulkDest" => bulkPos = NKeys
    /\ r.rpc = "applyTailBatch" => bulkDone

WorkInv ==
    /\ WorkOf(phase, turn, tableIdx)
    /\ run.at \in Waits \ Undoing => WorkOf(run.phase, run.turn, run.idx)
    /\ run.at \in {"inbox_read", "inbox_apply", "inbox_ack", "inbox_close"} => bulkDone
    /\ \A r \in Pending : WorkSent(r)

\* The tail: what is staged and applied of it, and that batches are parts of it.
TailState ==
    /\ staged <= Len(tailLog) /\ applied <= Len(tailLog)
    /\ \A i \in DOMAIN inbox : inbox[i] = tailLog[staged - Len(inbox) + i]
    /\ staged - Len(inbox) <= applied
    /\ IF inboxClosed THEN staged <= applied ELSE applied <= staged
    /\ ~bulkDone => applied = 0
    /\ src = "none" => tailLog = <<>>

TailSent(r) ==
    /\ r.rpc = "stageTailBatch" => PartOf(r.b, tailLog) /\ (r.b.lo <= staged \/ inboxClosed)
    /\ r.rpc = "applyTailBatch" =>
           /\ PartOf(r.b, tailLog) /\ r.b.lo <= applied
           /\ inboxClosed \/ BatchLast(r.b) <= staged

TailInv == Copying => TailState /\ \A r \in Pending : TailSent(r)

\* The outcomes: what is seeded, captured and applied of them.
OpState ==
    /\ opApplied <= Len(opLog)
    /\ \A i \in DOMAIN opLog : i <= opApplied => opLog[i] \in dstOps
    /\ IF src = "none"
         THEN opLog = <<>> /\ seedAfter = 0
         ELSE \A i \in DOMAIN srcOps : srcOps[i] \in Outcomes(opLog) \/ i \in seedAfter + 1..seedMax
    /\ dstOps \subseteq Outcomes(srcOps)

OpSent(r) == r.rpc = "applySplitOpLogBatch" => PartOf(r.b, opLog) /\ r.b.lo <= opApplied

OpRun == run.at = "op_read" => opCur <= opAcked

OpInv ==
    /\ Outcomes(opLog) \subseteq Outcomes(srcOps)
    /\ Copying => OpState /\ OpRun /\ \A r \in Pending : OpSent(r)

\* The rows: where no captured change is still to come, they are the source's,
\* as far as the bulk copy has come (pos) while it lasts.
RowState(pos) ==
    /\ \A i \in DOMAIN tailLog :
           ~Hit(MutKey[tailLog[i]], i) => srcRows[MutKey[tailLog[i]]] = Image(tailLog[i])
    /\ \A k \in Keys : bulkDone /\ ~Hit(k, applied) => dstRows[k] = srcRows[k]
    /\ \A k \in Keys : ~bulkDone /\ ~Hit(k, 0) =>
           /\ dstRows[k] \in {NoRow, srcRows[k]}
           /\ k <= pos => dstRows[k] = srcRows[k]
    /\ \A k \in Keys : src # "none" /\ ~Hit(k, 0) => (k \in watermark <=> srcRows[k] # NoRow)
    /\ src = "none" => dstRows = NoRows /\ pos = 0 /\ ~bulkDone

RowSent(r) ==
    r.rpc = "applyBulkBatch" =>
        src # "none" /\ r.n \in Keys /\ (~Hit(r.n, 0) => r.v = srcRows[r.n])

RowInv == Copying => RowState(bulkPos) /\ \A r \in Pending : RowSent(r)

\* The whole range has arrived.
TailDone == bulkDone /\ Len(tailLog) <= applied
CopyDone == TailDone /\ Outcomes(srcOps) \subseteq dstOps

\* Behind the fence, the copy is known to be complete before the cutover.
DoneInv ==
    Copying =>
        /\ cut => CopyDone
        /\ \A r \in Pending : r.rpc = "cutover" => CopyDone
        /\ run.at \in OpWaits /\ run.phase = CAUGHT_UP => TailDone

\* On a serving destination late copies change nothing.
ServeInv ==
    serving =>
        /\ Len(tailLog) <= applied /\ Outcomes(srcOps) \subseteq dstOps
        /\ \A r \in Pending :
               /\ r.rpc = "applyTailBatch" => BatchLast(r.b) <= applied
               /\ r.rpc = "applySplitOpLogBatch" => Outcomes(r.b.ents) \subseteq dstOps

\* The request a run sends next, by where it read what it sends on.
Reads(r) ==
    /\ r.rpc = "stageTailBatch" => run.at = "stage_read" /\ r.b = ReadTailBatch(run.tail)
    /\ r.rpc = "applyTailBatch" =>
           \/ run.at = "tail_read" /\ r.b = ReadTailBatch(run.tail) /\ r.b.ents # <<>>
           \/ run.at = "inbox_read" /\ r.b = ReadStagedTailBatch
    /\ r.rpc = "applySplitOpLogBatch" =>
           run.at = "op_read" /\ r.b = ReadSplitOpLogBatch(opCur) /\ r.b.ents # <<>>
    /\ r.rpc = "applyBulkBatch" =>
           /\ run.at = "bulk_read" /\ r.n = run.pos + 1
           /\ r.v = BulkCopyPage(run.pos) /\ r.v # NoRow
    /\ r.rpc = "closeReshardBulkDest" => run.idx = 1 /\ run.phase = CAPTURE
    /\ r.rpc = "cutover" =>
           run.at = "op_read" /\ ReadSplitOpLogBatch(opCur).ents = <<>> /\ run.phase = CAUGHT_UP

\* How a step changes the objects: not, or by a safe request, or by a client.
Touches ==
    \/ UNCHANGED <<srcVars, dstVars, catVars>>
    \/ \E r \in Requests : /\ r \in Pending \/ r.rpc \notin CopyRpcs
                           /\ SentOK(r.rpc) /\ Accepts(r) /\ Serves(r)
    \/ \E m \in Muts : SourceMutate(m) /\ UNCHANGED <<dstVars, catVars>>
    \/ \E m \in Muts : DestMutate(m) /\ UNCHANGED <<srcVars, catVars>>

\* A step of which no run goes on.
Aside ==
    /\ UNCHANGED <<opCur, bulkPos, turn, tableIdx>>
    /\ phase' = phase \/ phase' \in {ABORTING, ABORTED}
    /\ \/ run' = run
       \/ /\ run'.at \in {"idle", "own"} \cup Undoing
          /\ run'.at = "own" => /\ run'.phase = phase' /\ run'.turn = turn /\ run'.idx = tableIdx
                                /\ phase' = phase

\* A run waits with a request of its own.
LEMMA PendingTypes ==
    ASSUME TypeInv
    PROVE  Pending \subseteq Requests
BY RequestTypes DEF Pending, TypeInv, NetTypes, Procs, At

LEMMA PendingSafe ==
    ASSUME ControlInv
    PROVE  \A r \in Pending : SentOK(r.rpc)
BY RequestRpc, WaitSends DEF Pending, ControlInv, LateOK, LocalOK, At

\* An abort sends none of the requests that copy.
LEMMA UndoSends == \A w \in Undoing \cup {"own"} : w \in Waits /\ RpcAt[w] \notin CopyRpcs
BY WaitNames DEF Undoing, CopyRpcs, RpcAt

\* The request with which a run goes on.
LEMMA NewRequest ==
    ASSUME ControlInv, TypeInv, GoesOn, NEW r, r = Request("run")', run'.at \in Waits
    PROVE  Reads(r) \/ r.rpc \notin CopyRpcs
<1>0. KeepsRead /\ Arrives /\ run'.at # "idle"
  <2>1. RunStageLimited => KeepsRead
    BY StageKeeps DEF RunStageLimited, ControlInv, LocalOK
  <2> QED
    BY <2>1, ForwardCalls, GoesOnArrives, WaitNames DEF GoesOn
<1>1. run'.pos = run.pos /\ run'.tail = run.tail
  BY <1>0 DEF KeepsRead, NoRun
<1>2. PICK w \in Waits : w = run'.at
  OBVIOUS
<1>3. /\ r.rpc = RpcAt[w]
      /\ r.rpc \in CarriesBatch => r.b = run'.buf
      /\ r.rpc = "applyBulkBatch" => r.n = run'.pos + 1 /\ r.v = run'.image
  BY <1>2 DEF Request, At, CarriesBatch, RpcAt
<1>4. /\ RpcAt[w] = "stageTailBatch" => w = "stage_send"
      /\ RpcAt[w] = "applyTailBatch" => w \in {"inbox_apply", "tail_apply"}
      /\ RpcAt[w] = "applySplitOpLogBatch" => w = "op_apply"
      /\ RpcAt[w] = "applyBulkBatch" => w = "bulk_apply"
      /\ RpcAt[w] = "closeReshardBulkDest" => w = "bulk_close"
      /\ RpcAt[w] = "cutover" => w = "cutover"
  BY WaitNames DEF RpcAt
<1> QED
  BY <1>0, <1>1, <1>2, <1>3, <1>4 DEF Arrives, Reads, CarriesBatch

\* Every step in these terms.
LEMMA StepTouches ==
    ASSUME ControlInv, TypeInv, [Next]_vars
    PROVE  Touches
<1>0. ControlInv /\ LocalOK /\ Pending \subseteq Requests
  BY PendingTypes DEF ControlInv
<1>1. ASSUME UNCHANGED <<srcVars, dstVars, catVars>> PROVE Touches
  BY <1>1 DEF Touches
<1>2. ASSUME NEW r \in Pending, Accepts(r), Serves(r) PROVE Touches
  BY <1>0, <1>2, PendingSafe DEF Touches
<1>3. CASE Forward
  <2>1. run.at \in Waits /\ Accepts(Request("run")) /\ Serves(Request("run"))
    BY <1>3, ForwardCalls DEF Call
  <2>2. PICK r : r = Request("run")
    OBVIOUS
  <2> QED
    BY <1>2, <2>1, <2>2 DEF Pending
<1>4. CASE \E p \in Procs : Undo(p)
  <2>1. PICK p \in Procs, w \in Undoing : Call(p, w)
    BY <1>4 DEF Undo, UndoLease, UndoFence, UndoSource, UndoBegin, UndoBatch, UndoStep, Undoing
  <2>2. PICK r \in Requests : r = Request(p)
    BY <2>1, UndoSends, RequestTypes DEF Call
  <2>3. r.rpc = RpcAt[w] /\ SentOK(r.rpc) /\ Accepts(r) /\ Serves(r)
    BY <1>0, <2>1, <2>2, UndoSends, RequestRpc, Called DEF Call
  <2> QED
    BY <2>1, <2>3, UndoSends DEF Touches
<1>5. CASE \E r \in late : Deliver(r)
  BY <1>1, <1>2, <1>5 DEF Deliver, Pending
<1>6. CASE \E m \in Muts : MutateAtSource(m) \/ MutateAtDest(m)
  BY <1>6 DEF MutateAtSource, MutateAtDest, Touches
<1>7. CASE \/ RunStart \/ RunReturns \/ RunRefused \/ RunStageLimited \/ AbortStart
           \/ Crash \/ (\E p \in Procs : Fail(p)) \/ UNCHANGED vars
  BY <1>1, <1>7 DEF RunStart, RunReturns, RunRefused, RunStageLimited, AbortStart, Crash, Fail, vars
<1> QED
  BY <1>3, <1>4, <1>5, <1>6, <1>7 DEF Next, RunStep, AbortStep, Forward, Procs

LEMMA GoesOnTouches ==
    ASSUME ControlInv, TypeInv, GoesOn
    PROVE  /\ KeepsRead /\ late' = late /\ run.at \in Waits \ Undoing /\ Request("run") \in Pending
           /\ \/ Limited /\ UNCHANGED <<srcVars, dstVars, catVars>>
              \/ Accepts(Request("run")) /\ Serves(Request("run"))
<1>1. CASE Forward
  BY <1>1, ForwardCalls DEF Call, Pending
<1>2. CASE RunStageLimited
  BY <1>2, StageKeeps, WaitNames DEF RunStageLimited, Limited, ControlInv, LocalOK, Pending, Undoing
<1> QED
  BY <1>1, <1>2 DEF GoesOn

\* A run goes on, or the step leaves the migration's cursors alone.
LEMMA StepAside ==
    ASSUME ControlInv, TypeInv, [Next]_vars
    PROVE  GoesOn \/ Aside
<1>0. NoRun.at = "idle" /\ LocalOK
  BY DEF NoRun, ControlInv
<1>1. CASE RunStart
  BY <1>1 DEF RunStart, Aside, durVars, NoRun, Undoing
<1>2. CASE RunReturns \/ AbortStart \/ Crash \/ (\E p \in Procs : Fail(p)) \/ UNCHANGED vars
  BY <1>0, <1>2 DEF RunReturns, AbortStart, Goes, Crash, Fail, vars, durVars, runVars, Aside
<1>3. CASE RunRefused
  BY <1>0, <1>3 DEF RunRefused, RunGoes, durVars, Aside
<1>4. CASE \E p \in Procs : Undo(p)
  <2>1. PICK p \in Procs, v \in Undoing \cup {"idle"} :
           /\ UNCHANGED <<opCur, bulkPos, turn, tableIdx>>
           /\ phase' \in {phase, ABORTING, ABORTED}
           /\ Goes(p, v)
    BY <1>4 DEF Undo, UndoLease, UndoFence, UndoSource, UndoBegin, UndoBatch, UndoStep, Undoing, durVars
  <2>2. run' = run \/ run'.at \in Undoing \cup {"idle"}
    BY <1>0, <2>1 DEF Goes, RunGoes, LocalOK, RunShape
  <2> QED
    BY <2>1, <2>2 DEF Aside, Undoing
<1>5. CASE \E r \in late : Deliver(r)
  BY <1>5 DEF Deliver, durVars, runVars, Aside
<1>6. CASE \E m \in Muts : MutateAtSource(m) \/ MutateAtDest(m)
  BY <1>6 DEF MutateAtSource, MutateAtDest, durVars, runVars, Aside
<1> QED
  BY <1>1, <1>2, <1>3, <1>4, <1>5, <1>6 DEF Next, RunStep, AbortStep, Forward, Procs, GoesOn

\* Which requests are new.
LEMMA StepSends ==
    ASSUME ControlInv, TypeInv, [Next]_vars, NEW r \in Pending'
    PROVE  r \in Pending \/ r.rpc \notin CopyRpcs \/ (GoesOn /\ Reads(r))
<1>1. CASE r \in late'
  <2>1. late' \subseteq late \cup InFlight("run") \cup InFlight("abort")
    <3>1. CASE GoesOn
      BY <3>1, GoesOnTouches
    <3>2. CASE RunStart \/ RunReturns \/ RunRefused \/ AbortStart \/ UNCHANGED vars
               \/ \E m \in Muts : MutateAtSource(m) \/ MutateAtDest(m)
      BY <3>2 DEF RunStart, RunReturns, RunRefused, RunGoes, AbortStart, Goes, vars, netVars,
         MutateAtSource, MutateAtDest
    <3>3. CASE \E p \in Procs : Undo(p)
      BY <3>3 DEF Undo, UndoLease, UndoFence, UndoSource, UndoBegin, UndoBatch, UndoStep, Goes,
         RunGoes, netVars
    <3>4. CASE Crash \/ (\E p \in Procs : Fail(p)) \/ \E q \in late : Deliver(q)
      BY <3>4 DEF Crash, Fail, Deliver, Procs
    <3> QED
      BY <3>1, <3>2, <3>3, <3>4 DEF Next, RunStep, AbortStep, Forward, Procs, GoesOn
  <2>2. InFlight("run") \subseteq Pending
    BY AtOK DEF InFlight, Pending, ControlInv, Procs, At
  <2>3. ASSUME r \in InFlight("abort") PROVE r.rpc \notin CopyRpcs
    BY <2>3, UndoSends, RequestRpc DEF InFlight, ControlInv, LocalOK, At
  <2> QED
    BY <1>1, <2>1, <2>2, <2>3 DEF Pending
<1>2. CASE r \notin late'
  <2>1. run'.at \in Waits /\ r = Request("run")'
    BY <1>2 DEF Pending, Waits, RpcAt
  <2>2. CASE GoesOn
    BY <2>1, <2>2, NewRequest
  <2>3. CASE Aside
    <3>1. PICK w : w = run'.at
      OBVIOUS
    <3>2. r.rpc = RpcAt[w]
      BY <2>1, <3>1 DEF Request, At, RpcAt
    <3>3. w \in Undoing \cup {"own"} => r.rpc \notin CopyRpcs
      BY <3>2, UndoSends
    <3>4. CASE run' = run
      <4>1. Request("run")' = Request("run")
        BY <2>3, <3>4 DEF Request, At, Aside, RpcAt, BatchLast, CarriesBatch, NoBatch, Batch
      <4> QED
        BY <2>1, <3>4, <4>1 DEF Pending, Waits, RpcAt
    <3> QED
      BY <2>1, <2>3, <3>1, <3>3, <3>4, WaitNames DEF Aside, Waits, RpcAt
  <2> QED
    BY <2>2, <2>3, StepAside
<1> QED
  BY <1>1, <1>2

\* The data of the copy at either side.
SourceData == <<src, srcRows, srcOps, watermark, tailLog, opLog, seedAfter, seedMax>>
DestData   == <<dstRows, dstOps, bulkDone, inboxClosed, staged, applied, inbox, opApplied>>

\* What a request does to it while the source owns the range.
Copies(r) ==
    \/ /\ UNCHANGED <<SourceData, DestData>>
       /\ r.rpc \notin (CopyRpcs \ {"cutover"}) \cup {"closeTailStaging", "readSplitOpLogBatch"}
    \/ /\ UNCHANGED DestData
       /\ \/ r.rpc = "beginReshardSource" /\ src = "none" /\ BeginReshardSource
          \/ r.rpc = "readSplitOpLogBatch" /\ src = "capturing" /\ SeedSplitOpLogPage
    \/ /\ UNCHANGED SourceData
       /\ \/ r.rpc = "applyBulkBatch" /\ ~bulkDone /\ ApplyBulkBatch(r.n, r.v)
          \/ r.rpc = "closeReshardBulkDest" /\ CloseReshardBulkDest
          \/ r.rpc = "stageTailBatch" /\ StageTailBatchOk(r.b) /\ StageTailBatch(r.b)
          \/ r.rpc = "ackStagedTail" /\ r.n <= applied /\ AckStagedTail(r.n)
          \/ r.rpc = "closeTailStaging" /\ inbox = <<>> /\ CloseTailStaging
          \/ r.rpc = "applyTailBatch" /\ ApplyTailBatch(r.b)
          \/ r.rpc = "applySplitOpLogBatch" /\ ApplySplitOpLogBatchOk(r.b) /\ ApplySplitOpLogBatch(r.b)

\* The handlers of the source.
LEMMA SourceCopies ==
    ASSUME StateOK, NEW r, SentOK(r.rpc), SourceServes(r), SourceAccepts(r),
           UNCHANGED dstVars, Copying'
    PROVE  Copying /\ Copies(r)
<1>1. src' # "drained" /\ ~serving /\ dst \notin {"aborting", "aborted", "done"} /\ UNCHANGED DestData
  BY DEF Copying, dstVars, dstCopy, DestData
<1>2. src # "draining"
  BY <1>1 DEF StateOK
<1>3. CASE r.rpc = "beginReshardSource"
  BY <1>1, <1>3 DEF SourceServes, SourceAccepts, SourceReads, BeginReshardSource,
     BeginReshardSourceOk, Copying, Copies, CopyRpcs, SourceData
<1>4. CASE r.rpc = "readSplitOpLogBatch"
  BY <1>1, <1>2, <1>4 DEF SourceServes, SourceAccepts, SourceReads, SeedSplitOpLogPage, SourceMoving,
     Copying, Copies
<1>5. CASE r.rpc \notin {"beginReshardSource", "readSplitOpLogBatch"}
  BY <1>1, <1>2, <1>5 DEF SourceServes, SourceAccepts, SourceReads, SentOK, srcVars, srcCopy,
     AckTail, AckSplitOpLog, PrepareRoutingFence, ActivateRoutingFence,
     CompleteRoutingFenceCleanup, CancelRoutingFenceBeforeCutover, StopReshardCapture,
     DropMigratedRange, DropMigratedRangeOk, FinishReshardSource, AbortReshardSource, ClearCapture,
     Copying, Copies, CopyRpcs, SourceData
<1> QED
  BY <1>3, <1>4, <1>5

\* The handlers of the destination.
LEMMA DestCopies ==
    ASSUME ObjectTypes, NEW r, DestServes(r), DestAccepts(r), UNCHANGED srcVars, Copying'
    PROVE  Copying /\ Copies(r)
<1>1. UNCHANGED SourceData /\ src # "drained" /\ dst \in DstStates
  BY DEF srcVars, srcCopy, SourceData, Copying, ObjectTypes, DstTypeOK
<1>2. CASE r.rpc \in {"applyBulkBatch", "closeReshardBulkDest", "stageTailBatch", "ackStagedTail",
                      "closeTailStaging", "applyTailBatch", "applySplitOpLogBatch"}
  BY <1>1, <1>2 DEF DestServes, DestAccepts, DestMoving, ApplyBulkBatch, ApplyBulkBatchOk,
     CloseReshardBulkDest, StageTailBatch, AckStagedTail, AckStagedTailOk, CloseTailStaging,
     CloseTailStagingOk, ApplyTailBatch, ApplySplitOpLogBatch, Copying, Copies
<1>3. CASE r.rpc \in {"prepareReshardDestOwnership", "provisionFreshReshardDestination",
                      "beginReshardDest", "readStagedTailBatch", "activateReshardDestServing",
                      "beginReshardDestAbort", "abortReshardDestBatch", "finishReshardDest"}
  BY <1>1, <1>3 DEF DestServes, DestAccepts, dstVars, dstCopy,
     PrepareReshardDestOwnership, ProvisionFreshReshardDestination, BeginReshardDest,
     BeginReshardDestOk, ActivateReshardDestServing, BeginReshardDestAbort, AbortReshardDestBatch,
     AbortReshardDestBatchOk, ReleaseTransferState, FinishReshardDest, Copying, Copies, CopyRpcs,
     DestData, DstStates
<1> QED
  BY <1>2, <1>3 DEF DestServes

\* Any request.
LEMMA ServedCopies ==
    ASSUME StateOK, ObjectTypes, NEW r, SentOK(r.rpc), Accepts(r), Serves(r), Copying'
    PROVE  Copying /\ Copies(r)
<1>1. CASE SourceServes(r) /\ UNCHANGED <<dstVars, catVars>>
  <2>1. SourceAccepts(r)
    BY <1>1 DEF Accepts, SourceServes, SourceReads, DestAccepts, CatalogAccepts
  <2> QED
    BY <1>1, <2>1, SourceCopies
<1>2. CASE DestServes(r) /\ UNCHANGED <<srcVars, catVars>>
  <2>1. DestAccepts(r)
    BY <1>2 DEF Accepts, DestServes, SourceAccepts, CatalogAccepts
  <2> QED
    BY <1>2, <2>1, DestCopies
<1>3. CASE CatalogServes(r) /\ UNCHANGED <<srcVars, dstVars>>
  BY <1>3 DEF CatalogServes, srcVars, srcCopy, dstVars, dstCopy, Copying, Copies, CopyRpcs,
     SourceData, DestData
<1> QED
  BY <1>1, <1>2, <1>3 DEF Serves

\* Every step.
LEMMA StepCopies ==
    ASSUME StateOK, ObjectTypes, Touches, Copying'
    PROVE  /\ Copying
           /\ \/ UNCHANGED <<SourceData, DestData, opAcked>>
              \/ \E r \in Requests : Copies(r) /\ (r \in Pending \/ r.rpc \notin CopyRpcs)
              \/ \E m \in Muts : SourceMutate(m) /\ UNCHANGED DestData
<1>1. CASE UNCHANGED <<srcVars, dstVars, catVars>>
  BY <1>1 DEF srcVars, srcCopy, dstVars, dstCopy, Copying, SourceData, DestData
<1>2. CASE \E r \in Requests : /\ r \in Pending \/ r.rpc \notin CopyRpcs
                               /\ SentOK(r.rpc) /\ Accepts(r) /\ Serves(r)
  BY <1>2, ServedCopies
<1>3. CASE \E m \in Muts : SourceMutate(m) /\ UNCHANGED <<dstVars, catVars>>
  <2>1. PICK m \in Muts : SourceMutate(m) /\ UNCHANGED <<dstVars, catVars>>
    BY <1>3
  <2>2. UNCHANGED DestData /\ src' = src /\ serving' = serving /\ dst' = dst
    BY <2>1 DEF SourceMutate, dstVars, dstCopy, DestData
  <2> QED
    BY <2>1, <2>2 DEF Copying
<1>4. CASE \E m \in Muts : DestMutate(m) /\ UNCHANGED <<srcVars, catVars>>
  BY <1>4 DEF DestMutate, DestAdmits, Copying
<1> QED
  BY <1>1, <1>2, <1>3, <1>4 DEF Touches

\* What is done stays done, and what closes the copy does so.
LEMMA WorkKept ==
    ASSUME ControlInv, TypeInv, TypeInv', [Next]_vars
    PROVE  \A ph, t, i : WorkOf(ph, t, i) => WorkOf(ph, t, i)'
<1>1. /\ bulkDone => bulkDone'
      /\ inboxClosed => inboxClosed'
      /\ bulkPos' >= bulkPos
  BY NextProgress DEF Progress, ObjectProgress, CursorProgress
<1>2. bulkPos = NKeys => bulkPos' = NKeys
  BY <1>1, DataAssumption DEF TypeInv, DurableTypes
<1> QED
  BY <1>1, <1>2 DEF WorkOf

\* What a run finds when it goes on.
LEMMA WorkServed ==
    ASSUME ControlInv, TypeInv, GoesOn
    PROVE  /\ run.at = "bulk_close" => bulkDone'
           /\ run.at = "inbox_close" => inboxClosed'
<1>1. ASSUME run.at \in {"bulk_close", "inbox_close"}
      PROVE  /\ run.at = "bulk_close" => bulkDone'
             /\ run.at = "inbox_close" => inboxClosed'
  <2>1. PICK r : r = Request("run")
    OBVIOUS
  <2>2. Accepts(r) /\ Serves(r) /\ r.rpc = RpcAt[run.at]
    BY <1>1, <2>1, GoesOnTouches, RequestRpc DEF Limited, At
  <2>3. CASE run.at = "bulk_close"
    <3>1. r.rpc = "closeReshardBulkDest"
      BY <2>2, <2>3 DEF RpcAt
    <3> QED
      BY <2>2, <2>3, <3>1 DEF Serves, SourceServes, SourceReads, DestServes, CatalogServes,
         CloseReshardBulkDest
  <2>4. CASE run.at = "inbox_close"
    <3>1. r.rpc = "closeTailStaging"
      BY <2>2, <2>4 DEF RpcAt
    <3> QED
      BY <2>2, <2>4, <3>1 DEF Serves, SourceServes, SourceReads, DestServes, CatalogServes,
         CloseTailStaging
  <2> QED
    BY <1>1, <2>3, <2>4
<1> QED
  BY <1>1

\* Every step keeps what the cursors say.
LEMMA NextWork ==
    ASSUME ControlInv, TypeInv, TypeInv', WorkInv, [Next]_vars
    PROVE  WorkInv'
<1>0. /\ \A ph, t, i : WorkOf(ph, t, i) => WorkOf(ph, t, i)'
      /\ PlaceOK(run.at, run.phase) /\ "idle" \notin Waits /\ Undoing \subseteq Waits
      /\ phase \in Phases /\ run.phase \in Phases
      /\ turn' \in 0..3 /\ tableIdx' \in 0..1
  BY WorkKept, WaitNames DEF ControlInv, LocalOK, TypeInv, DurableTypes, RunTypes, Runs, Undoing
<1>1. /\ bulkDone => bulkDone'
      /\ bulkPos = NKeys => bulkPos' = NKeys
  <2>1. WorkOf(CAPTURE, 3, 0) => WorkOf(CAPTURE, 3, 0)'
    BY <1>0
  <2>2. WorkOf(CAPTURE, 0, 1) => WorkOf(CAPTURE, 0, 1)'
    BY <1>0
  <2> QED
    BY <2>1, <2>2 DEF WorkOf, CAPTURE, BULK_DONE, DRAINED
<1>2. ASSUME NEW r \in Pending' PROVE WorkSent(r)'
  <2>1. CASE r \in Pending
    BY <1>1, <2>1 DEF WorkInv, WorkSent
  <2>2. CASE r.rpc \notin CopyRpcs
    BY <2>2 DEF WorkSent, CopyRpcs
  <2>3. CASE GoesOn /\ Reads(r)
    <3>1. WorkOf(run.phase, run.turn, run.idx)
      BY <2>3, GoesOnTouches DEF WorkInv
    <3>2. r.rpc = "closeReshardBulkDest" => bulkPos = NKeys
      BY <2>3, <3>1 DEF Reads, WorkOf
    <3>3. r.rpc = "applyTailBatch" => bulkDone
      <4>1. run.at = "tail_read" => run.phase \in BULK_DONE..DRAINED
        BY <1>0 DEF PlaceOK, BULK_DONE, CAUGHT_UP, DUAL_WRITE, DRAINED
      <4> QED
        BY <2>3, <3>1, <4>1 DEF Reads, WorkOf, WorkInv
    <3> QED
      BY <1>1, <3>2, <3>3 DEF WorkSent
  <2> QED
    BY <2>1, <2>2, <2>3, StepSends
<1>3. CASE Aside
  <2>1. WorkOf(phase, turn, tableIdx)' /\ (phase' # phase => phase' \in {ABORTING, ABORTED})
    <3>1. WorkOf(phase', turn, tableIdx)
      BY <1>3 DEF Aside, WorkInv, WorkOf, ABORTING, ABORTED, BULK_DONE, DRAINED, CAPTURE
    <3> QED
      BY <1>1, <1>3, <3>1, <1>0 DEF Aside, WorkOf
  <2>2. run'.at \in Waits \ Undoing => WorkOf(run'.phase, run'.turn, run'.idx)
    BY <1>0, <1>3 DEF Aside, WorkInv
  <2>3. PICK ph, t, i : ph = run'.phase /\ t = run'.turn /\ i = run'.idx
    OBVIOUS
  <2>4. run'.at \in Waits \ Undoing => WorkOf(ph, t, i)'
    BY <1>0, <2>2, <2>3
  <2>5. (run.at \in Waits \ Undoing => WorkOf(run.phase, run.turn, run.idx))'
    BY <2>3, <2>4 DEF WorkOf, Waits, RpcAt, Undoing
  <2>6. (run.at \in {"inbox_read", "inbox_apply", "inbox_ack", "inbox_close"} => bulkDone)'
    BY <1>1, <1>3 DEF Aside, WorkInv, Undoing
  <2> QED
    BY <1>2, <2>1, <2>5, <2>6 DEF WorkInv
<1>4. CASE GoesOn
  <2>1. Arrives /\ Records /\ KeepsRead /\ run.at \in Waits \ Undoing
    BY <1>4, GoesOnArrives, GoesOnRecords, GoesOnTouches
  <2>2. WorkOf(run.phase, run.turn, run.idx)
    BY <2>1 DEF WorkInv
  <2>3. PICK ph, t, i : ph = run.phase /\ t = run.turn /\ i = run.idx
    OBVIOUS
  <2>4. WorkOf(ph, t, i)'
    BY <1>0, <2>2, <2>3
  <2>5. (run.at \in Waits \ Undoing => WorkOf(run.phase, run.turn, run.idx))'
    BY <1>0, <2>1, <2>3, <2>4 DEF WorkOf, Waits, RpcAt, Undoing, KeepsRead, NoRun
  <2>6. (run.at \in {"inbox_read", "inbox_apply", "inbox_ack", "inbox_close"} => bulkDone)'
    <3>1. run'.at = "inbox_read" => bulkDone
      BY <2>1, <2>2 DEF Arrives, WorkOf
    <3> QED
      BY <1>1, <2>1, <3>1 DEF Arrives, WorkInv
  <2>7. WorkOf(phase, turn, tableIdx)'
    <3>1. CASE phase' = phase
      <4>1. phase \in BULK_DONE..DRAINED => bulkDone' /\ inboxClosed'
        <5>1. WorkOf(phase, turn, tableIdx)
          BY DEF WorkInv
        <5>2. PICK p, u, j : p = phase /\ u = turn /\ j = tableIdx
          OBVIOUS
        <5>3. WorkOf(p, u, j)'
          BY <1>0, <5>1, <5>2
        <5> QED
          BY <5>2, <5>3 DEF WorkOf
      <4>2. phase = CAPTURE /\ turn' = 3 => bulkDone'
        BY <1>1, <1>4, <2>1, WorkServed DEF Records, WorkInv, WorkOf
      <4>3. phase = CAPTURE /\ tableIdx' = 1 => bulkPos' = NKeys
        BY <1>1, <2>1, <3>1 DEF Records, WorkInv, WorkOf
      <4> QED
        BY <3>1, <4>1, <4>2, <4>3 DEF WorkOf
    <3>2. CASE phase' # phase
      <4>1. phase' = phase + 1 /\ turn' = 0 /\ tableIdx' = 0
        BY <2>1, <3>2 DEF Records
      <4>2. phase' \in BULK_DONE..DRAINED => phase = CAPTURE \/ phase \in BULK_DONE..DRAINED
        BY <1>0, <4>1 DEF BULK_DONE, DRAINED, CAPTURE, Phases
      <4>3. phase = CAPTURE => bulkDone' /\ inboxClosed'
        BY <1>1, <1>4, <2>1, <3>2, WorkServed DEF Records, WorkInv
      <4>4. phase \in BULK_DONE..DRAINED => bulkDone' /\ inboxClosed'
        <5>1. WorkOf(phase, turn, tableIdx)
          BY DEF WorkInv
        <5>2. PICK p, u, j : p = phase /\ u = turn /\ j = tableIdx
          OBVIOUS
        <5>3. WorkOf(p, u, j)'
          BY <1>0, <5>1, <5>2
        <5> QED
          BY <5>2, <5>3 DEF WorkOf
      <4> QED
        BY <4>1, <4>2, <4>3, <4>4 DEF WorkOf
    <3> QED
      BY <3>1, <3>2
  <2> QED
    BY <1>2, <2>5, <2>6, <2>7 DEF WorkInv
<1> QED
  BY <1>3, <1>4, StepAside

LEMMA InitWork ==
    ASSUME Init
    PROVE  WorkInv
<1>1. run.at = "idle" /\ late = {} /\ "idle" \notin Waits
  BY WaitNames DEF Init, NoRun
<1>2. WorkOf(phase, turn, tableIdx)
  BY DEF Init, WorkOf, INIT, CAPTURE, BULK_DONE, DRAINED
<1> QED
  BY <1>1, <1>2 DEF WorkInv, Pending

\* A page of a log is a part of it, and empty only at its end.
LEMMA PagePart ==
    ASSUME NEW log \in Seq(Muts), NEW acked \in Nat, NEW after \in Nat,
           acked <= Len(log), after <= Len(log)
    PROVE  /\ PartOf(Page(log, acked, after), log)
           /\ Page(log, acked, after).lo \in {acked, after}
           /\ acked <= Page(log, acked, after).lo
           /\ Page(log, acked, after).ents = <<>> => Len(log) <= Page(log, acked, after).lo
<1> DEFINE from == IF after < acked THEN acked ELSE after
           to   == IF from + TailBatch < Len(log) THEN from + TailBatch ELSE Len(log)
           ents == SubSeq(log, from + 1, to)
<1>1. from \in Nat /\ to \in Nat /\ to <= Len(log) /\ from <= to /\ from \in {acked, after}
      /\ acked <= from /\ (from = to => Len(log) <= from)
  BY SourceAssumption
<1>2. Len(ents) = to - from /\ DOMAIN ents = 1..(to - from) /\ \A i \in 1..(to - from) : ents[i] = log[from + i]
  BY <1>1
<1>3. Page(log, acked, after) = [lo |-> from, ents |-> ents]
  BY DEF Page, Batch
<1> HIDE DEF from, to, ents
<1>4. ents = <<>> => from = to
  BY <1>1, <1>2
<1> QED
  BY <1>1, <1>2, <1>3, <1>4 DEF PartOf, BatchLast

\* A part of a log is a part of the longer log.
LEMMA PartOfLonger ==
    ASSUME NEW log \in Seq(Muts), NEW b \in Batches, PartOf(b, log), NEW m \in Muts
    PROVE  PartOf(b, Append(log, m))
<1>1. /\ b.lo \in Nat /\ Len(b.ents) \in Nat /\ DOMAIN b.ents = 1..Len(b.ents)
      /\ Len(Append(log, m)) = Len(log) + 1 /\ \A j \in 1..Len(log) : Append(log, m)[j] = log[j]
  BY DEF Batches
<1>2. ASSUME NEW i \in DOMAIN b.ents PROVE b.lo + i \in 1..Len(log)
  BY <1>1 DEF PartOf, BatchLast
<1> QED
  BY <1>1, <1>2 DEF PartOf, BatchLast

\* A batch staged behind the staged ones.
LEMMA TailStaged ==
    ASSUME ObjectTypes, TailState, NEW b \in Batches, StageTailBatchOk(b), StageTailBatch(b),
           PartOf(b, tailLog), b.lo <= staged \/ inboxClosed, UNCHANGED SourceData
    PROVE  TailState' /\ staged' >= staged
<1>1. /\ b.lo \in Nat /\ b.ents \in Seq(Muts) /\ Len(b.ents) \in Nat /\ DOMAIN b.ents = 1..Len(b.ents)
      /\ staged \in Nat /\ applied \in Nat /\ inbox \in Seq(Muts) /\ tailLog \in Seq(Muts)
      /\ Len(tailLog) \in Nat /\ Len(inbox) \in Nat /\ Len(inbox) <= staged
      /\ ~inboxClosed /\ UNCHANGED <<src, tailLog, bulkDone, inboxClosed, applied>>
  BY DEF Batches, ObjectTypes, SrcTypeOK, DstTypeOK, StageTailBatchOk, StagingOpen, StageTailBatch,
         SourceData
<1>2. CASE StagedAlready(b)
  BY <1>1, <1>2 DEF StageTailBatch, TailState
<1>3. CASE ~StagedAlready(b)
  <2>1. b.lo = staged /\ staged' = staged + Len(b.ents) /\ inbox' = inbox \o b.ents
    BY <1>1, <1>3 DEF StageTailBatch, StageTailBatchOk, BatchLast
  <2>2. staged' <= Len(tailLog) /\ staged' >= staged /\ staged' \in Nat
    BY <1>1, <2>1 DEF PartOf, BatchLast
  <2>3. Len(inbox') = Len(inbox) + Len(b.ents) /\ DOMAIN inbox' = 1..Len(inbox')
    BY <1>1, <2>1
  <2>4. ASSUME NEW i \in DOMAIN inbox' PROVE inbox'[i] = tailLog[staged' - Len(inbox') + i]
    <3>1. CASE i <= Len(inbox)
      <4>1. i \in DOMAIN inbox /\ inbox'[i] = inbox[i]
        BY <1>1, <2>1, <2>3, <3>1
      <4>2. staged' - Len(inbox') + i = staged - Len(inbox) + i
        BY <1>1, <2>1, <2>3
      <4> QED
        BY <4>1, <4>2 DEF TailState
    <3>2. CASE i > Len(inbox)
      <4>1. i - Len(inbox) \in DOMAIN b.ents /\ inbox'[i] = b.ents[i - Len(inbox)]
        BY <1>1, <2>1, <2>3, <3>2
      <4>2. staged' - Len(inbox') + i = b.lo + (i - Len(inbox))
        BY <1>1, <2>1, <2>3
      <4> QED
        BY <4>1, <4>2 DEF PartOf
    <3> QED
      BY <1>1, <2>3, <3>1, <3>2
  <2>5. staged' - Len(inbox') = staged - Len(inbox)
    BY <1>1, <2>1, <2>3
  <2> QED
    BY <1>1, <2>2, <2>4, <2>5 DEF TailState
<1> QED
  BY <1>2, <1>3

\* Entries below an applied LSN leave the inbox.
LEMMA TailUnstaged ==
    ASSUME ObjectTypes, TailState, NEW n \in Nat, n <= applied, AckStagedTail(n),
           UNCHANGED SourceData
    PROVE  TailState' /\ staged' = staged
<1>1. /\ staged \in Nat /\ applied \in Nat /\ inbox \in Seq(Muts) /\ tailLog \in Seq(Muts)
      /\ Len(tailLog) \in Nat /\ Len(inbox) \in Nat /\ Len(inbox) <= staged
      /\ DOMAIN inbox = 1..Len(inbox)
      /\ UNCHANGED <<src, tailLog, bulkDone, inboxClosed, applied, staged>>
  BY DEF ObjectTypes, SrcTypeOK, DstTypeOK, AckStagedTail, SourceData
<1>2. PICK gone : gone = n - (staged - Len(inbox))
  OBVIOUS
<1>3. CASE gone <= 0
  BY <1>1, <1>2, <1>3 DEF AckStagedTail, TailState
<1>4. CASE gone > 0 /\ gone <= Len(inbox)
  <2>1. inbox' = SubSeq(inbox, gone + 1, Len(inbox)) /\ gone \in Nat
    BY <1>1, <1>2, <1>4 DEF AckStagedTail
  <2>2. Len(inbox') = Len(inbox) - gone /\ DOMAIN inbox' = 1..(Len(inbox) - gone)
        /\ \A i \in 1..(Len(inbox) - gone) : inbox'[i] = inbox[gone + i]
    BY <1>1, <1>4, <2>1
  <2>3. ASSUME NEW i \in DOMAIN inbox' PROVE inbox'[i] = tailLog[staged - Len(inbox') + i]
    <3>0. /\ gone \in Nat /\ i \in 1..(Len(inbox) - gone) /\ Len(inbox) \in Nat /\ staged \in Nat
          /\ Len(inbox') = Len(inbox) - gone /\ DOMAIN inbox = 1..Len(inbox)
      BY <1>1, <2>1, <2>2
    <3>1. gone + i \in DOMAIN inbox /\ staged - Len(inbox) + (gone + i) = staged - Len(inbox') + i
      BY <3>0
    <3> QED
      BY <2>2, <3>1 DEF TailState
  <2>4. staged - Len(inbox') <= applied
    <3>1. /\ gone \in Nat /\ Len(inbox) \in Nat /\ staged \in Nat /\ n \in Nat /\ applied \in Nat
          /\ Len(inbox') = Len(inbox) - gone /\ gone = n - (staged - Len(inbox)) /\ n <= applied
      BY <1>1, <1>2, <2>1, <2>2
    <3> QED
      BY <3>1
  <2> QED
    BY <1>1, <2>3, <2>4 DEF TailState
<1>5. CASE gone > Len(inbox)
  <2>1. inbox' = <<>> /\ staged - 0 <= applied
    <3>1. inbox' = SubSeq(inbox, gone + 1, Len(inbox)) /\ gone \in Nat /\ gone > 0
      BY <1>1, <1>2, <1>5 DEF AckStagedTail
    <3> QED
      BY <1>1, <1>2, <1>5, <3>1
  <2> QED
    BY <1>1, <2>1 DEF TailState
<1> QED
  BY <1>1, <1>2, <1>3, <1>4, <1>5


\* The cursors of the tail grow, and a closed inbox stays closed.
TailGrows == staged' >= staged /\ applied' >= applied /\ (inboxClosed => inboxClosed')

\* A request of the copy keeps what is known of the tail.
LEMMA TailServed ==
    ASSUME ObjectTypes, TailState, NEW r \in Requests, Copies(r), TailSent(r),
           r.rpc = "applyTailBatch" => bulkDone
    PROVE  TailState' /\ tailLog' = tailLog /\ TailGrows
<1>1. /\ staged \in Nat /\ applied \in Nat /\ tailLog \in Seq(Muts) /\ inbox \in Seq(Muts)
      /\ Len(tailLog) \in Nat /\ Len(inbox) \in Nat /\ r.b \in Batches /\ r.n \in Nat
      /\ BatchLast(r.b) \in Nat
  BY DEF ObjectTypes, SrcTypeOK, DstTypeOK, Requests, Batches, BatchLast
<1>2. CASE /\ UNCHANGED <<tailLog, staged, applied, inbox, inboxClosed>>
           /\ bulkDone => bulkDone'
           /\ src' = "none" => src = "none"
  BY <1>1, <1>2 DEF TailState, TailGrows
<1>3. CASE UNCHANGED SourceData /\ r.rpc = "stageTailBatch" /\ StageTailBatchOk(r.b) /\ StageTailBatch(r.b)
  <2>1. TailState' /\ staged' >= staged
    BY <1>1, <1>3, TailStaged DEF TailSent
  <2> QED
    BY <1>1, <1>3, <2>1 DEF TailGrows, StageTailBatch, SourceData
<1>4. CASE UNCHANGED SourceData /\ r.rpc = "ackStagedTail" /\ r.n <= applied /\ AckStagedTail(r.n)
  <2>1. TailState' /\ staged' = staged
    BY <1>1, <1>4, TailUnstaged
  <2> QED
    BY <1>1, <1>4, <2>1 DEF TailGrows, AckStagedTail, SourceData
<1>5. CASE UNCHANGED SourceData /\ r.rpc = "closeTailStaging" /\ inbox = <<>> /\ CloseTailStaging
  <2>1. staged <= applied
    BY <1>1, <1>5 DEF TailState
  <2> QED
    BY <1>1, <1>5, <2>1 DEF TailState, TailGrows, CloseTailStaging, SourceData
<1>6. CASE UNCHANGED SourceData /\ r.rpc = "applyTailBatch" /\ ApplyTailBatch(r.b)
  <2>1. /\ bulkDone /\ BatchLast(r.b) <= Len(tailLog) /\ (inboxClosed \/ BatchLast(r.b) <= staged)
        /\ UNCHANGED <<src, tailLog, staged, inbox, inboxClosed, bulkDone>>
    BY <1>6 DEF TailSent, PartOf, ApplyTailBatch, SourceData
  <2>2. applied' = IF BatchLast(r.b) > applied THEN BatchLast(r.b) ELSE applied
    BY <1>6 DEF ApplyTailBatch
  <2> QED
    BY <1>1, <2>1, <2>2 DEF TailState, TailGrows
<1> QED
  BY <1>2, <1>3, <1>4, <1>5, <1>6 DEF Copies, SourceData, DestData, BeginReshardSource,
     SeedSplitOpLogPage, ApplyBulkBatch, dstCopy, CloseReshardBulkDest, ApplySplitOpLogBatch

\* A captured mutation is behind everything staged and applied.
LEMMA TailCaptured ==
    ASSUME ObjectTypes, TailState, src # "draining", src # "drained",
           NEW m \in Muts, SourceMutate(m), UNCHANGED DestData
    PROVE  TailState' /\ TailGrows /\ tailLog' \in {tailLog, Append(tailLog, m)}
<1>1. /\ staged \in Nat /\ applied \in Nat /\ tailLog \in Seq(Muts) /\ inbox \in Seq(Muts)
      /\ Len(tailLog) \in Nat /\ Len(inbox) \in Nat /\ Len(inbox) <= staged
      /\ src \in {"none", "capturing"} /\ DOMAIN inbox = 1..Len(inbox)
  BY DEF ObjectTypes, SrcTypeOK, DstTypeOK, SrcStates
<1>2. /\ UNCHANGED <<src, staged, applied, inbox, inboxClosed, bulkDone>>
      /\ tailLog' = IF src = "capturing" THEN Append(tailLog, m) ELSE tailLog
  BY DEF SourceMutate, DestData, Capturing
<1>3. CASE tailLog' = tailLog
  BY <1>1, <1>2, <1>3 DEF TailState, TailGrows
<1>4. CASE src = "capturing" /\ tailLog' = Append(tailLog, m)
  <2>1. /\ Len(tailLog') = Len(tailLog) + 1
        /\ \A j \in 1..Len(tailLog) : tailLog'[j] = tailLog[j]
    BY <1>1, <1>4
  <2>2. \A i \in DOMAIN inbox : staged - Len(inbox) + i \in 1..Len(tailLog)
    BY <1>1 DEF TailState
  <2> QED
    BY <1>1, <1>2, <1>4, <2>1, <2>2 DEF TailState, TailGrows
<1> QED
  BY <1>2, <1>3, <1>4

\* What a request on its way carries of the tail stays so.
LEMMA TailSentKept ==
    ASSUME ObjectTypes, ObjectTypes', TailGrows, NEW q \in Requests, TailSent(q),
           tailLog' = tailLog \/ \E m \in Muts : tailLog' = Append(tailLog, m)
    PROVE  TailSent(q)'
<1>1. /\ staged \in Nat /\ applied \in Nat /\ tailLog \in Seq(Muts)
      /\ staged' \in Nat /\ applied' \in Nat
  BY DEF ObjectTypes, SrcTypeOK, DstTypeOK
<1>3. q.b \in Batches /\ q.b.lo \in Nat /\ BatchLast(q.b) \in Nat
  BY DEF Requests, Batches, BatchLast
<1>2. PartOf(q.b, tailLog) => PartOf(q.b, tailLog')
  BY <1>1, <1>3, PartOfLonger
<1> QED
  BY <1>1, <1>2, <1>3 DEF TailSent, TailGrows, PartOf, BatchLast

\* What a run sends on was read from the tail at or below the cursors.
LEMMA TailRead ==
    ASSUME ControlInv, TypeInv, WorkInv, PrunedInv, TailState, Copying,
           GoesOn, NEW r, Reads(r)
    PROVE  TailSent(r)
<1>1. /\ staged \in Nat /\ applied \in Nat /\ tailLog \in Seq(Muts) /\ Len(tailLog) \in Nat
      /\ inbox \in Seq(Muts) /\ Len(inbox) \in Nat /\ Len(inbox) <= staged
      /\ tailAcked \in Nat /\ run.tail \in Nat
  BY DEF TypeInv, ObjectTypes, SrcTypeOK, DstTypeOK, RunTypes, Runs
<1>2. run.at \in Waits \ Undoing /\ run.at # "idle"
  BY GoesOnTouches, WaitNames
<1>3. /\ tailAcked <= staged \/ tailAcked <= applied
      /\ run.tail <= staged \/ run.tail <= applied
      /\ tailAcked <= Len(tailLog) /\ run.tail <= Len(tailLog)
  BY <1>1, <1>2 DEF PrunedInv, Durable, TailState
<1>4. PICK b \in Batches : b = ReadTailBatch(run.tail)
  BY ReadTypes
<1>5. b.lo \in Nat /\ PartOf(b, tailLog) /\ b.lo \in {tailAcked, run.tail}
  BY <1>1, <1>3, <1>4, PagePart DEF ReadTailBatch, Batches
<1>6. CASE r.rpc = "stageTailBatch"
  BY <1>1, <1>3, <1>4, <1>5, <1>6 DEF Reads, TailSent, TailState
<1>7. CASE r.rpc = "applyTailBatch" /\ run.at = "tail_read" /\ r.b = b
  <2>1. inboxClosed
    BY <1>2, <1>7 DEF WorkInv, WorkOf, ControlInv, LocalOK, PlaceOK, BULK_DONE, CAUGHT_UP, DUAL_WRITE,
       DRAINED
  <2> QED
    BY <1>1, <1>3, <1>5, <1>7, <2>1 DEF TailSent, TailState
<1>8. CASE r.rpc = "applyTailBatch" /\ r.b = ReadStagedTailBatch
  <2> DEFINE n == IF Len(inbox) < StagedBatch THEN Len(inbox) ELSE StagedBatch
  <2>1. n \in Nat /\ n <= Len(inbox)
    BY <1>1, DestAssumption
  <2>2. r.b = [lo |-> staged - Len(inbox), ents |-> SubSeq(inbox, 1, n)]
    BY <1>8 DEF ReadStagedTailBatch, Batch
  <2> HIDE DEF n
  <2>3. /\ Len(r.b.ents) = n /\ DOMAIN r.b.ents = 1..n /\ r.b.lo = staged - Len(inbox)
        /\ \A i \in 1..n : r.b.ents[i] = inbox[i]
    BY <1>1, <2>1, <2>2
  <2>4. BatchLast(r.b) <= staged /\ BatchLast(r.b) <= Len(tailLog)
    BY <1>1, <2>1, <2>3 DEF BatchLast, TailState
  <2>5. \A i \in 1..n : r.b.ents[i] = tailLog[r.b.lo + i]
    BY <1>1, <2>1, <2>3 DEF TailState
  <2> QED
    BY <1>8, <2>3, <2>4, <2>5 DEF TailSent, PartOf, TailState
<1>9. CASE r.rpc \notin {"stageTailBatch", "applyTailBatch"}
  BY <1>9 DEF TailSent
<1> QED
  BY <1>4, <1>6, <1>7, <1>8, <1>9 DEF Reads

\* The requests after a step are requests, too.
LEMMA NextRequests ==
    ASSUME TypeInv'
    PROVE  Pending' \subseteq Requests
<1>1. late' \subseteq Requests /\ opCur' \in Nat /\ run' \in Runs
  BY DEF TypeInv, NetTypes, DurableTypes, RunTypes
<1>2. ASSUME run'.at \in Waits PROVE Request("run")' \in Requests
  <2>1. PICK w \in Waits : w = run'.at
    BY <1>2
  <2>2. RpcAt[w] \in Rpcs
    BY WaitNames DEF RpcAt, Rpcs, SourceRpcs, SourceReads, DestRpcs, CatalogRpcs
  <2>3. run'.tail \in Nat /\ run'.pos \in 0..NKeys /\ run'.buf \in Batches /\ run'.image \in Images
    BY <1>1 DEF Runs
  <2>4. PICK b \in Batches : b = run'.buf
    BY <2>3
  <2>5. BatchLast(b) \in Nat /\ run'.pos + 1 \in Nat
    BY <2>3, DataAssumption DEF BatchLast, Batches
  <2>6. NoBatch \in Batches /\ NoRow \in Images
    BY DEF NoBatch, Batch, Batches, Images
  <2>7. Request("run")' =
        [rpc |-> RpcAt[w],
         n   |-> CASE RpcAt[w] = "ackTail"        -> run'.tail
                   [] RpcAt[w] = "ackSplitOpLog"  -> opCur'
                   [] RpcAt[w] = "ackStagedTail"  -> BatchLast(b)
                   [] RpcAt[w] = "applyBulkBatch" -> run'.pos + 1
                   [] OTHER                       -> 0,
         b   |-> IF RpcAt[w] \in CarriesBatch THEN b ELSE NoBatch,
         v   |-> IF RpcAt[w] = "applyBulkBatch" THEN run'.image ELSE NoRow]
    BY <2>1, <2>4 DEF Request, At, RpcAt, BatchLast, CarriesBatch, NoBatch, Batch
  <2> QED
    BY <1>1, <2>2, <2>3, <2>4, <2>5, <2>6, <2>7 DEF Requests
<1> QED
  BY <1>1, <1>2 DEF Pending, Waits, RpcAt

\* Every step keeps what is known of the tail.
LEMMA NextTail ==
    ASSUME ControlInv, TypeInv, TypeInv', WorkInv, PrunedInv, TailInv, [Next]_vars
    PROVE  TailInv'
<1> SUFFICES ASSUME Copying' PROVE TailState' /\ \A r \in Pending' : TailSent(r)'
  BY DEF TailInv
<1>0. StateOK /\ ObjectTypes /\ ObjectTypes' /\ Touches /\ Pending' \subseteq Requests
      /\ Pending \subseteq Requests
  BY StepTouches, NextRequests, PendingTypes DEF ControlInv, TypeInv
<1>1. Copying /\ TailState /\ (\A r \in Pending : TailSent(r)) /\ src # "draining" /\ src # "drained"
  BY <1>0, StepCopies DEF TailInv, Copying, StateOK
<1>2. TailState' /\ TailGrows /\ (tailLog' = tailLog \/ \E m \in Muts : tailLog' = Append(tailLog, m))
  <2>1. CASE UNCHANGED <<SourceData, DestData, opAcked>>
    BY <1>0, <1>1, <2>1 DEF SourceData, DestData, TailState, TailGrows, ObjectTypes, DstTypeOK
  <2>2. CASE \E r \in Requests : Copies(r) /\ (r \in Pending \/ r.rpc \notin CopyRpcs)
    <3>1. PICK r \in Requests : Copies(r) /\ (r \in Pending \/ r.rpc \notin CopyRpcs)
      BY <2>2
    <3>2. TailSent(r) /\ (r.rpc = "applyTailBatch" => bulkDone)
      BY <1>1, <3>1 DEF TailSent, CopyRpcs, WorkInv, WorkSent
    <3> QED
      BY <1>0, <1>1, <3>1, <3>2, TailServed
  <2>3. CASE \E m \in Muts : SourceMutate(m) /\ UNCHANGED DestData
    BY <1>0, <1>1, <2>3, TailCaptured
  <2> QED
    BY <1>0, <2>1, <2>2, <2>3, StepCopies
<1>3. ASSUME NEW r \in Pending' PROVE TailSent(r)'
  <2>1. r \in Requests
    BY <1>0
  <2>2. CASE r.rpc \in CopyRpcs
    <3>1. TailSent(r)
      BY <1>1, <1>3, <2>2, StepSends, TailRead
    <3> QED
      BY <1>0, <1>2, <2>1, <3>1, TailSentKept
  <2>3. CASE r.rpc \notin CopyRpcs
    BY <2>3 DEF TailSent, CopyRpcs
  <2> QED
    BY <2>2, <2>3
<1> QED
  BY <1>2, <1>3

LEMMA InitTail ==
    ASSUME Init
    PROVE  TailInv
<1>1. run.at = "idle" /\ late = {} /\ "idle" \notin Waits
  BY WaitNames DEF Init, NoRun
<1>2. TailState
  BY DEF Init, SrcInit, DstInit, TailState
<1> QED
  BY <1>1, <1>2 DEF TailInv, Pending

\* A run that reads changes nothing at either side, but for the seed.
LEMMA GoesOnReads ==
    ASSUME ControlInv, TypeInv, GoesOn
    PROVE  /\ run.at \in {"stage_read", "tail_read", "inbox_read", "bulk_read"} =>
                  UNCHANGED <<srcVars, dstVars>>
           /\ run.at = "op_read" => SeedSplitOpLogPage /\ UNCHANGED dstVars
           /\ run.at = "op_ack" => opAcked' = opCur
           /\ run.at \in {"op_read", "bulk_read"} => SourceMoving
<1>1. PICK r : r = Request("run")
  OBVIOUS
<1>2. r.rpc = RpcAt[run.at] /\ (r.rpc = "ackSplitOpLog" => r.n = opCur)
  BY <1>1 DEF Request, At
<1>3. run.at # "stage_send" => Accepts(r) /\ Serves(r)
  BY <1>1, GoesOnTouches DEF Limited
<1>4. ASSUME run.at \in {"stage_read", "tail_read", "inbox_read", "bulk_read"}
      PROVE  UNCHANGED <<srcVars, dstVars>>
  <2>1. r.rpc \in {"readTailBatch", "readStagedTailBatch", "bulkCopyBatch"}
    BY <1>2, <1>4 DEF RpcAt
  <2> QED
    BY <1>3, <1>4, <2>1 DEF Serves, SourceServes, SourceReads, DestServes, CatalogServes
<1>5. ASSUME run.at = "op_read" PROVE SeedSplitOpLogPage /\ UNCHANGED dstVars
  <2>1. r.rpc = "readSplitOpLogBatch"
    BY <1>2, <1>5 DEF RpcAt
  <2> QED
    BY <1>3, <1>5, <2>1 DEF Serves, SourceServes, SourceReads, DestServes, CatalogServes
<1>6. ASSUME run.at = "op_ack" PROVE opAcked' = opCur
  <2>1. r.rpc = "ackSplitOpLog"
    BY <1>2, <1>6 DEF RpcAt
  <2> QED
    BY <1>2, <1>3, <1>6, <2>1 DEF Serves, SourceServes, SourceReads, DestServes, CatalogServes,
       AckSplitOpLog
<1>7. ASSUME run.at \in {"op_read", "bulk_read"} PROVE SourceMoving
  <2>1. r.rpc \in {"readSplitOpLogBatch", "bulkCopyBatch"}
    BY <1>2, <1>7 DEF RpcAt
  <2> QED
    BY <1>3, <1>7, <2>1 DEF Accepts, SourceAccepts, DestAccepts, CatalogAccepts
<1> QED
  BY <1>4, <1>5, <1>6, <1>7

\* The outcomes' acknowledgement grows while the source captures.
LEMMA AckedGrows ==
    ASSUME ObjectTypes, Touches, Copying'
    PROVE  opAcked' >= opAcked
<1>1. opAcked \in Nat
  BY DEF ObjectTypes, SrcTypeOK
<1>2. CASE UNCHANGED <<srcVars, dstVars, catVars>>
  BY <1>1, <1>2 DEF srcVars, srcCopy
<1>3. CASE \E r \in Requests : Accepts(r) /\ Serves(r)
  <2>1. PICK r \in Requests : Accepts(r) /\ Serves(r)
    BY <1>3
  <2>2. CASE UNCHANGED srcVars
    BY <1>1, <2>2 DEF srcVars, srcCopy
  <2>3. CASE SourceServes(r)
    <3>1. SourceAccepts(r) /\ r.n \in Nat
      BY <2>1, <2>3 DEF Accepts, SourceServes, SourceReads, DestAccepts, CatalogAccepts, Requests
    <3>2. src' # "drained"
      BY DEF Copying
    <3> QED
      BY <1>1, <2>3, <3>1, <3>2 DEF SourceServes, SourceAccepts, SourceReads, srcVars, srcCopy,
         BeginReshardSource, AckTail, AckSplitOpLog, AckSplitOpLogOk, SeedSplitOpLogPage,
         PrepareRoutingFence, ActivateRoutingFence, CompleteRoutingFenceCleanup,
         CancelRoutingFenceBeforeCutover, StopReshardCapture, DropMigratedRange,
         FinishReshardSource, AbortReshardSource, ClearCapture
  <2> QED
    BY <2>1, <2>2, <2>3 DEF Serves
<1>4. CASE \E m \in Muts : SourceMutate(m)
  BY <1>1, <1>4 DEF SourceMutate
<1>5. CASE \E m \in Muts : DestMutate(m) /\ UNCHANGED <<srcVars, catVars>>
  BY <1>1, <1>5 DEF srcVars, srcCopy
<1> QED
  BY <1>2, <1>3, <1>4, <1>5 DEF Touches

\* A seeded page is the log, or the log and the next outcome of the seed.
LEMMA Seeded ==
    ASSUME ObjectTypes
    PROVE  /\ SeededOpLog \in Seq(Muts)
           /\ \/ SeededOpLog = opLog
              \/ /\ seedAfter + 1 \in 1..seedMax /\ seedAfter + 1 \in DOMAIN srcOps
                 /\ SeededOpLog = Append(opLog, srcOps[seedAfter + 1])
<1>1. /\ seedAfter \in Nat /\ seedMax \in Nat /\ opLog \in Seq(Muts) /\ srcOps \in Seq(Muts)
      /\ seedMax <= Len(srcOps) /\ Len(srcOps) \in Nat
  BY DEF ObjectTypes, SrcTypeOK
<1>2. CASE seedAfter < seedMax
  <2>1. seedAfter + 1 \in 1..seedMax /\ seedAfter + 1 \in DOMAIN srcOps
    BY <1>1, <1>2
  <2> QED
    BY <1>1, <2>1 DEF SeededOpLog
<1>3. CASE ~(seedAfter < seedMax)
  BY <1>1, <1>3 DEF SeededOpLog
<1> QED
  BY <1>2, <1>3

\* The outcomes of a longer log.
LEMMA MoreOutcomes ==
    ASSUME NEW log \in Seq(Muts), NEW m \in Muts
    PROVE  /\ Outcomes(Append(log, m)) = Outcomes(log) \cup {m}
           /\ \A i \in DOMAIN log : i \in DOMAIN Append(log, m) /\ Append(log, m)[i] = log[i]
<1>1. /\ DOMAIN log = 1..Len(log) /\ DOMAIN Append(log, m) = 1..(Len(log) + 1) /\ Len(log) \in Nat
      /\ \A i \in 1..Len(log) : Append(log, m)[i] = log[i]
      /\ Append(log, m)[Len(log) + 1] = m
  OBVIOUS
<1>2. 1..(Len(log) + 1) = 1..Len(log) \cup {Len(log) + 1}
  BY <1>1
<1> QED
  BY <1>1, <1>2 DEF Outcomes

OpGrows == opApplied' >= opApplied /\ (opLog' = opLog \/ \E m \in Muts : opLog' = Append(opLog, m))

\* The steps at which only the destination's outcomes or the log grow.
LEMMA OpLogGrows ==
    ASSUME ObjectTypes, OpState, NEW m \in Muts, opLog' = Append(opLog, m), UNCHANGED DestData
    PROVE  /\ opApplied' <= Len(opLog') /\ OpGrows
           /\ \A i \in DOMAIN opLog' : i <= opApplied' => opLog'[i] \in dstOps'
           /\ Outcomes(opLog') = Outcomes(opLog) \cup {m}
<1>1. opLog \in Seq(Muts) /\ opApplied \in Nat /\ Len(opLog) \in Nat /\ DOMAIN opLog = 1..Len(opLog)
  BY DEF ObjectTypes, SrcTypeOK, DstTypeOK
<1>2. /\ opApplied' = opApplied /\ dstOps' = dstOps /\ Len(opLog') = Len(opLog) + 1
      /\ DOMAIN opLog' = 1..(Len(opLog) + 1)
  BY <1>1 DEF DestData
<1>3. \A i \in DOMAIN opLog : opLog'[i] = opLog[i]
  BY <1>1, MoreOutcomes
<1>4. ASSUME NEW i \in DOMAIN opLog', i <= opApplied' PROVE opLog'[i] \in dstOps'
  <2>1. i \in DOMAIN opLog
    BY <1>1, <1>2, <1>4 DEF OpState
  <2> QED
    BY <1>2, <1>3, <1>4, <2>1 DEF OpState
<1>5. Outcomes(Append(opLog, m)) = Outcomes(opLog) \cup {m}
  BY <1>1, MoreOutcomes
<1>6. opApplied' <= Len(opLog') /\ opApplied' >= opApplied
  BY <1>1, <1>2 DEF OpState
<1> QED
  BY <1>4, <1>5, <1>6 DEF OpGrows

\* A batch of outcomes is applied.
LEMMA OpApplied ==
    ASSUME ObjectTypes, OpState, Outcomes(opLog) \subseteq Outcomes(srcOps), NEW b \in Batches,
           PartOf(b, opLog), b.lo <= opApplied, ApplySplitOpLogBatchOk(b), ApplySplitOpLogBatch(b),
           UNCHANGED SourceData
    PROVE  OpState' /\ OpGrows
<1>1. /\ opLog \in Seq(Muts) /\ opApplied \in Nat /\ Len(opLog) \in Nat
      /\ DOMAIN opLog = 1..Len(opLog)
  BY DEF ObjectTypes, SrcTypeOK, DstTypeOK
<1>0. /\ b.lo \in Nat /\ Len(b.ents) \in Nat /\ DOMAIN b.ents = 1..Len(b.ents)
      /\ BatchLast(b) = b.lo + Len(b.ents)
  BY DEF Batches, BatchLast
<1>2. /\ UNCHANGED <<src, srcOps, opLog, seedAfter, seedMax>>
      /\ dstOps' = dstOps \cup {b.ents[i] : i \in DOMAIN b.ents}
      /\ opApplied' = IF BatchLast(b) > opApplied THEN BatchLast(b) ELSE opApplied
  BY DEF ApplySplitOpLogBatch, SourceData
<1>3. \A i \in DOMAIN b.ents : b.lo + i \in DOMAIN opLog /\ b.ents[i] = opLog[b.lo + i]
  BY <1>0, <1>1 DEF PartOf
<1>4. opApplied' <= Len(opLog) /\ opApplied' >= opApplied
  BY <1>0, <1>1, <1>2 DEF PartOf, OpState
<1>5. ASSUME NEW i \in DOMAIN opLog, i <= opApplied' PROVE opLog[i] \in dstOps'
  <2>1. CASE i <= opApplied
    BY <1>2, <2>1 DEF OpState
  <2>2. CASE i > opApplied
    <3>1. i - b.lo \in DOMAIN b.ents /\ b.lo + (i - b.lo) = i
      BY <1>0, <1>1, <1>2, <1>5, <2>2
    <3> QED
      BY <1>2, <1>3, <3>1
  <2> QED
    BY <1>1, <2>1, <2>2
<1>6. dstOps' \subseteq Outcomes(srcOps)
  BY <1>2, <1>3 DEF OpState, Outcomes
<1> QED
  BY <1>1, <1>2, <1>4, <1>5, <1>6 DEF OpState, OpGrows, Outcomes

\* A request of the copy keeps what is known of the outcomes.
LEMMA OpServed ==
    ASSUME ObjectTypes, ObjectTypes', OpState, Outcomes(opLog) \subseteq Outcomes(srcOps),
           NEW r \in Requests, Copies(r), OpSent(r)
    PROVE  OpState' /\ OpGrows
<1>0. r.b \in Batches
  BY DEF Requests
<1>6. /\ opLog \in Seq(Muts) /\ opApplied \in Nat /\ srcOps \in Seq(Muts)
      /\ seedAfter \in Nat /\ seedMax \in Nat
  BY DEF ObjectTypes, SrcTypeOK, DstTypeOK
<1>1. /\ opLog \in Seq(Muts) /\ opApplied \in Nat /\ srcOps \in Seq(Muts)
      /\ seedAfter \in Nat /\ seedMax \in Nat /\ DOMAIN srcOps = 1..Len(srcOps) /\ Len(srcOps) \in Nat
  BY <1>6
<1>2. CASE UNCHANGED SourceData /\ UNCHANGED <<dstOps, opApplied>>
  BY <1>1, <1>2 DEF SourceData, OpState, OpGrows, Outcomes
<1>3. CASE UNCHANGED DestData /\ src = "none" /\ BeginReshardSource
  BY <1>1, <1>3 DEF DestData, BeginReshardSource, OpState, OpGrows, Outcomes
<1>4. CASE UNCHANGED DestData /\ src = "capturing" /\ SeedSplitOpLogPage
  <2>1. CASE SeededOpLog = opLog
    BY <1>1, <1>4, <2>1 DEF DestData, SeedSplitOpLogPage, OpState, OpGrows, Outcomes
  <2>2. CASE /\ seedAfter + 1 \in 1..seedMax /\ seedAfter + 1 \in DOMAIN srcOps
             /\ SeededOpLog = Append(opLog, srcOps[seedAfter + 1])
    <3>1. PICK m \in Muts : m = srcOps[seedAfter + 1]
      BY <1>1, <2>2
    <3>2. opLog' = Append(opLog, m) /\ seedAfter' = seedAfter + 1
      <4>1. Len(Append(opLog, m)) = Len(opLog) + 1 /\ Len(opLog) \in Nat
        BY <1>1
      <4> QED
        BY <1>1, <1>4, <2>2, <3>1, <4>1 DEF SeedSplitOpLogPage
    <3>3. /\ opApplied' <= Len(opLog') /\ OpGrows
          /\ \A i \in DOMAIN opLog' : i <= opApplied' => opLog'[i] \in dstOps'
          /\ Outcomes(opLog') = Outcomes(opLog) \cup {m}
      BY <1>4, <3>2, OpLogGrows
    <3>4. UNCHANGED <<src, srcOps, seedMax, dstOps>>
      BY <1>4 DEF SeedSplitOpLogPage, DestData
    <3>5. ASSUME NEW i \in DOMAIN srcOps, i \in seedAfter + 1..seedMax
          PROVE  i = seedAfter + 1 \/ i \in seedAfter' + 1..seedMax
      BY <1>1, <3>2, <3>5
    <3>6. \A i \in DOMAIN srcOps :
             srcOps[i] \in Outcomes(opLog)' \/ i \in seedAfter' + 1..seedMax
      BY <1>4, <3>1, <3>3, <3>5 DEF OpState, Outcomes
    <3> QED
      BY <1>4, <3>3, <3>4, <3>6 DEF OpState, Outcomes
  <2> QED
    BY <2>1, <2>2, Seeded
<1>5. CASE UNCHANGED SourceData /\ r.rpc = "applySplitOpLogBatch"
           /\ ApplySplitOpLogBatchOk(r.b) /\ ApplySplitOpLogBatch(r.b)
  BY <1>0, <1>5, OpApplied DEF OpSent
<1> QED
  BY <1>2, <1>3, <1>4, <1>5 DEF Copies, DestData, dstCopy, ApplyBulkBatch, CloseReshardBulkDest,
     StageTailBatch, AckStagedTail, CloseTailStaging, ApplyTailBatch

\* A captured mutation's outcome joins the log.
LEMMA OpCaptured ==
    ASSUME ObjectTypes, OpState, Outcomes(opLog) \subseteq Outcomes(srcOps),
           src # "draining", src # "drained", NEW m \in Muts, SourceMutate(m), UNCHANGED DestData
    PROVE  OpState' /\ OpGrows
<1>1. /\ opLog \in Seq(Muts) /\ opApplied \in Nat /\ srcOps \in Seq(Muts) /\ Len(srcOps) \in Nat
      /\ seedAfter \in Nat /\ seedMax \in Nat /\ DOMAIN srcOps = 1..Len(srcOps)
      /\ src \in {"none", "capturing"}
  BY DEF ObjectTypes, SrcTypeOK, DstTypeOK, SrcStates
<1>2. /\ UNCHANGED <<src, seedAfter, seedMax, dstOps, opApplied>>
      /\ srcOps' = Append(srcOps, m)
      /\ opLog' = IF src = "capturing" THEN Append(opLog, m) ELSE opLog
  BY DEF SourceMutate, DestData, Capturing
<1>3. /\ Outcomes(srcOps)' = Outcomes(srcOps) \cup {m}
      /\ \A i \in DOMAIN srcOps : srcOps'[i] = srcOps[i]
      /\ srcOps'[Len(srcOps) + 1] = m /\ DOMAIN srcOps' = 1..(Len(srcOps) + 1)
  BY <1>1, <1>2, MoreOutcomes DEF Outcomes
<1>4. CASE src = "none"
  BY <1>1, <1>2, <1>3, <1>4 DEF OpState, OpGrows
<1>5. CASE src = "capturing"
  <2>1. /\ opApplied' <= Len(opLog') /\ OpGrows
        /\ \A i \in DOMAIN opLog' : i <= opApplied' => opLog'[i] \in dstOps'
        /\ Outcomes(opLog') = Outcomes(opLog) \cup {m}
    BY <1>2, <1>5, OpLogGrows
  <2>2. ASSUME NEW i \in DOMAIN srcOps'
        PROVE  srcOps'[i] \in Outcomes(opLog') \/ i \in seedAfter' + 1..seedMax'
    <3>1. CASE i \in DOMAIN srcOps
      BY <1>2, <1>3, <1>5, <2>1, <3>1 DEF OpState
    <3>2. CASE i = Len(srcOps) + 1
      BY <1>3, <2>1, <3>2
    <3> QED
      BY <1>1, <1>3, <3>1, <3>2
  <2>3. dstOps' \subseteq Outcomes(srcOps)'
    BY <1>2, <1>3 DEF OpState
  <2> QED
    BY <1>2, <1>5, <2>1, <2>2, <2>3 DEF OpState, Outcomes
<1> QED
  BY <1>1, <1>4, <1>5

\* What a request on its way carries of the outcomes stays so.
LEMMA OpSentKept ==
    ASSUME ObjectTypes, ObjectTypes', OpGrows, NEW q \in Requests, OpSent(q)
    PROVE  OpSent(q)'
<1>1. opLog \in Seq(Muts) /\ opApplied \in Nat /\ opApplied' \in Nat
  BY DEF ObjectTypes, SrcTypeOK, DstTypeOK
<1>2. q.b \in Batches /\ q.b.lo \in Nat
  BY DEF Requests, Batches
<1>3. PartOf(q.b, opLog) => PartOf(q.b, opLog')
  BY <1>1, <1>2, PartOfLonger DEF OpGrows
<1> QED
  BY <1>1, <1>2, <1>3 DEF OpSent, OpGrows, PartOf, BatchLast

\* Every logged outcome is one of the source's.
LEMMA LogOutcomes ==
    ASSUME ObjectTypes, Outcomes(opLog) \subseteq Outcomes(srcOps), Touches
    PROVE  Outcomes(opLog') \subseteq Outcomes(srcOps')
<1>1. opLog \in Seq(Muts) /\ srcOps \in Seq(Muts)
  BY DEF ObjectTypes, SrcTypeOK
<1>2. CASE UNCHANGED srcOps /\ opLog' \in {opLog, <<>>}
  BY <1>2 DEF Outcomes
<1>3. CASE UNCHANGED srcOps /\ opLog' = SeededOpLog
  <2>1. CASE SeededOpLog = opLog
    BY <1>3, <2>1
  <2>2. CASE seedAfter + 1 \in DOMAIN srcOps /\ SeededOpLog = Append(opLog, srcOps[seedAfter + 1])
    <3>1. PICK m \in Muts : m = srcOps[seedAfter + 1]
      BY <1>1, <2>2
    <3>2. Outcomes(opLog') = Outcomes(opLog) \cup {m} /\ m \in Outcomes(srcOps)
      BY <1>1, <1>3, <2>2, <3>1, MoreOutcomes DEF Outcomes
    <3> QED
      BY <1>3, <3>2
  <2> QED
    BY <2>1, <2>2, Seeded
<1>4. ASSUME NEW m \in Muts, SourceMutate(m) PROVE Outcomes(opLog') \subseteq Outcomes(srcOps')
  BY <1>1, <1>4, MoreOutcomes DEF SourceMutate
<1>5. CASE UNCHANGED srcVars
  BY <1>2, <1>5 DEF srcVars, srcCopy
<1>6. ASSUME NEW r, SourceServes(r) PROVE Outcomes(opLog') \subseteq Outcomes(srcOps')
  BY <1>2, <1>3, <1>6 DEF SourceServes, SourceReads, srcVars, srcCopy,
     BeginReshardSource, AckTail, AckSplitOpLog, SeedSplitOpLogPage,
     PrepareRoutingFence, ActivateRoutingFence, CompleteRoutingFenceCleanup,
     CancelRoutingFenceBeforeCutover, StopReshardCapture, DropMigratedRange,
     FinishReshardSource, AbortReshardSource, ClearCapture
<1> QED
  BY <1>4, <1>5, <1>6 DEF Touches, Serves

\* Where a run reads outcomes, everything acknowledged is applied.
LEMMA OpPage ==
    ASSUME ControlInv, TypeInv, PrunedInv, OpState, Copying
    PROVE  /\ opAcked <= Len(opLog) /\ opCur <= Len(opLog)
           /\ opAcked <= opApplied /\ opCur <= opApplied
           /\ Len(opLog) <= Len(SeededOpLog)
           /\ PartOf(ReadSplitOpLogBatch(opCur), SeededOpLog)
           /\ ReadSplitOpLogBatch(opCur).lo \in {opAcked, opCur}
           /\ ReadSplitOpLogBatch(opCur).ents = <<>> =>
                  Len(SeededOpLog) <= ReadSplitOpLogBatch(opCur).lo
<1>1. /\ opLog \in Seq(Muts) /\ Len(opLog) \in Nat /\ opApplied \in Nat /\ opAcked \in Nat
      /\ opCur \in Nat /\ SeededOpLog \in Seq(Muts) /\ ObjectTypes /\ srcOps \in Seq(Muts)
  BY Seeded DEF TypeInv, ObjectTypes, SrcTypeOK, DstTypeOK, DurableTypes
<1>2. opAcked <= opApplied /\ opCur <= opApplied /\ opApplied <= Len(opLog)
  BY DEF PrunedInv, OpDurable, OpState, Copying
<1>3. Len(SeededOpLog) \in Nat /\ Len(opLog) <= Len(SeededOpLog)
  <2>1. ASSUME NEW m \in Muts PROVE Len(Append(opLog, m)) = Len(opLog) + 1
    BY <1>1
  <2>2. SeededOpLog = opLog \/ \E m \in Muts : SeededOpLog = Append(opLog, m)
    BY <1>1, Seeded
  <2> QED
    BY <1>1, <2>1, <2>2
<1>4. opAcked <= Len(SeededOpLog) /\ opCur <= Len(SeededOpLog)
  BY <1>1, <1>2, <1>3
<1> QED
  BY <1>1, <1>2, <1>3, <1>4, PagePart DEF ReadSplitOpLogBatch

\* What a run sends on was read from the log at or below the cursor.
LEMMA OpRead ==
    ASSUME ControlInv, TypeInv, ObjectTypes', PrunedInv, OpState, OpGrows, Copying,
           GoesOn, NEW r \in Requests, Reads(r)
    PROVE  OpSent(r)'
<1>1. CASE r.rpc = "applySplitOpLogBatch"
  <2>1. r.b = ReadSplitOpLogBatch(opCur) /\ opLog' = SeededOpLog
    BY <1>1, GoesOnReads DEF Reads, SeedSplitOpLogPage
  <2>2. PartOf(r.b, opLog') /\ r.b.lo <= opApplied
    BY <2>1, OpPage
  <2>3. opApplied \in Nat /\ opApplied' \in Nat /\ r.b.lo \in Nat
    BY DEF TypeInv, ObjectTypes, DstTypeOK, Requests, Batches
  <2> QED
    BY <2>2, <2>3 DEF OpSent, OpGrows, PartOf, BatchLast
<1>2. CASE r.rpc # "applySplitOpLogBatch"
  BY <1>2 DEF OpSent
<1> QED
  BY <1>1, <1>2

\* An empty page after its acknowledgement: every outcome has arrived.
LEMMA OpEmpty ==
    ASSUME ControlInv, TypeInv, PrunedInv, OpState, OpRun, Copying,
           GoesOn, run.at = "op_read", ReadSplitOpLogBatch(opCur).ents = <<>>
    PROVE  Outcomes(srcOps) \subseteq dstOps
<1>1. /\ opLog \in Seq(Muts) /\ Len(opLog) \in Nat /\ opApplied \in Nat /\ opAcked \in Nat
      /\ opCur \in Nat /\ srcOps \in Seq(Muts) /\ seedAfter \in Nat /\ seedMax \in Nat
      /\ DOMAIN opLog = 1..Len(opLog)
  BY DEF TypeInv, ObjectTypes, SrcTypeOK, DstTypeOK, DurableTypes
<1>2. Len(SeededOpLog) \in Nat /\ ObjectTypes
  BY Seeded DEF TypeInv
<1>3. Len(SeededOpLog) <= opAcked /\ opAcked <= opApplied /\ Len(opLog) <= Len(SeededOpLog)
  BY <1>1, <1>2, OpPage DEF OpRun
<1>4. ~(seedAfter < seedMax)
  <2>1. ASSUME NEW m \in Muts PROVE Len(Append(opLog, m)) = Len(opLog) + 1
    BY <1>1
  <2>2. SeededOpLog = opLog
    BY <1>1, <1>2, <1>3, <2>1, Seeded, OpPage
  <2>3. Len(opLog) - opAcked < SplitLogMax
    BY <1>1, <1>2, <1>3, SourceAssumption
  <2>4. seedAfter < seedMax => SeededOpLog = Append(opLog, srcOps[seedAfter + 1])
    BY <2>3 DEF SeededOpLog
  <2>5. seedAfter < seedMax => srcOps[seedAfter + 1] \in Muts
    <3>1. seedMax <= Len(srcOps)
      BY DEF TypeInv, ObjectTypes
    <3> QED
      BY <1>1, <3>1
  <2>6. seedAfter < seedMax => Len(opLog) = Len(opLog) + 1
    BY <2>1, <2>2, <2>4, <2>5
  <2>7. Len(opLog) \in Nat
    BY <1>1
  <2>8. Len(opLog) # Len(opLog) + 1
    BY <2>7
  <2> QED
    BY <2>6, <2>8
<1>5. src # "none"
  BY GoesOnReads DEF SourceMoving
<1>6. \A i \in DOMAIN srcOps : srcOps[i] \in Outcomes(opLog)
  BY <1>1, <1>4, <1>5 DEF OpState
<1>7. \A j \in DOMAIN opLog : opLog[j] \in dstOps
  BY <1>1, <1>2, <1>3 DEF OpState
<1> QED
  BY <1>6, <1>7 DEF Outcomes

\* Every step keeps what is known of the outcomes.
LEMMA NextOps ==
    ASSUME ControlInv, TypeInv, TypeInv', PrunedInv, OpInv, [Next]_vars
    PROVE  OpInv'
<1>0. StateOK /\ ObjectTypes /\ ObjectTypes' /\ Touches /\ Pending' \subseteq Requests
      /\ Pending \subseteq Requests /\ Outcomes(opLog) \subseteq Outcomes(srcOps)
  BY StepTouches, NextRequests, PendingTypes DEF ControlInv, TypeInv, OpInv
<1>1. (Outcomes(opLog) \subseteq Outcomes(srcOps))'
  BY <1>0, LogOutcomes DEF Outcomes
<1> SUFFICES ASSUME Copying' PROVE OpState' /\ OpRun' /\ \A r \in Pending' : OpSent(r)'
  BY <1>1 DEF OpInv
<1>2. /\ Copying /\ OpState /\ OpRun /\ (\A r \in Pending : OpSent(r))
      /\ src # "draining" /\ src # "drained"
  BY <1>0, StepCopies DEF OpInv, Copying, StateOK
<1>3. OpState' /\ OpGrows
  <2>1. CASE UNCHANGED <<SourceData, DestData, opAcked>>
    BY <1>0, <1>2, <2>1 DEF SourceData, DestData, OpState, OpGrows, ObjectTypes, DstTypeOK, Outcomes
  <2>2. CASE \E r \in Requests : Copies(r) /\ (r \in Pending \/ r.rpc \notin CopyRpcs)
    <3>1. PICK r \in Requests : Copies(r) /\ (r \in Pending \/ r.rpc \notin CopyRpcs)
      BY <2>2
    <3>2. OpSent(r)
      BY <1>2, <3>1 DEF OpSent, CopyRpcs
    <3> QED
      BY <1>0, <1>2, <3>1, <3>2, OpServed
  <2>3. CASE \E m \in Muts : SourceMutate(m) /\ UNCHANGED DestData
    BY <1>0, <1>2, <2>3, OpCaptured
  <2> QED
    BY <1>0, <2>1, <2>2, <2>3, StepCopies
<1>4. ASSUME NEW r \in Pending' PROVE OpSent(r)'
  <2>1. r \in Requests
    BY <1>0
  <2>2. CASE r \in Pending
    BY <1>0, <1>2, <1>3, <2>1, <2>2, OpSentKept
  <2>3. CASE r.rpc \notin CopyRpcs
    BY <2>3 DEF OpSent, CopyRpcs
  <2>4. CASE GoesOn /\ Reads(r)
    BY <1>0, <1>2, <1>3, <2>1, <2>4, OpRead
  <2> QED
    BY <1>4, <2>2, <2>3, <2>4, StepSends
<1>5. OpRun'
  <2>0. opAcked \in Nat /\ opCur \in Nat /\ opAcked' \in Nat /\ opCur' \in Nat /\ opAcked' >= opAcked
    BY <1>0, AckedGrows DEF ObjectTypes, SrcTypeOK, TypeInv, DurableTypes
  <2>1. CASE Aside
    BY <1>2, <2>0, <2>1 DEF Aside, OpRun, Undoing
  <2>2. CASE GoesOn /\ run'.at = "op_read"
    <3>1. opCur' = opCur /\ (run.at \in {"op_ack", "op_read"} \/ opCur = 0)
      BY <2>2, GoesOnArrives, GoesOnRecords DEF Arrives, Records
    <3>2. run.at = "op_ack" => opAcked' = opCur
      BY <2>2, GoesOnReads
    <3> QED
      BY <1>2, <2>0, <3>1, <3>2 DEF OpRun
  <2> QED
    BY <2>1, <2>2, StepAside DEF OpRun
<1> QED
  BY <1>3, <1>4, <1>5

LEMMA InitOps ==
    ASSUME Init
    PROVE  OpInv
<1>1. run.at = "idle" /\ late = {} /\ "idle" \notin Waits
  BY WaitNames DEF Init, NoRun
<1>2. OpState /\ OpRun /\ Outcomes(opLog) = {}
  BY <1>1 DEF Init, SrcInit, DstInit, OpState, OpRun, Outcomes
<1> QED
  BY <1>1, <1>2 DEF OpInv, Pending

\* What a replay leaves in a row: the image of its last entry, if it has one.
LEMMA ReplayRow ==
    ASSUME NEW rows, NEW ents \in Seq(Muts), NEW k \in Keys
    PROVE  \/ /\ \A i \in DOMAIN ents : MutKey[ents[i]] # k
              /\ Replay(rows, ents)[k] = rows[k]
           \/ \E i \in DOMAIN ents :
                 /\ MutKey[ents[i]] = k /\ Replay(rows, ents)[k] = Image(ents[i])
                 /\ \A j \in DOMAIN ents : MutKey[ents[j]] = k => j <= i
<1> DEFINE hits == {i \in DOMAIN ents : MutKey[ents[i]] = k}
<1>1. CASE hits = {}
  BY <1>1 DEF Replay
<1>2. CASE hits # {}
  <2>1. \E i \in hits : \A j \in hits : j <= i
    BY <1>2, LastPosition, Len(ents) \in Nat, hits \subseteq 1..Len(ents)
  <2>2. PICK i : i = CHOOSE x \in hits : \A j \in hits : j <= x
    OBVIOUS
  <2>3. i \in hits /\ \A j \in hits : j <= i
    BY <2>1, <2>2
  <2>4. Replay(rows, ents)[k] = Image(ents[i])
    BY <1>2, <2>2 DEF Replay
  <2> QED
    BY <2>3, <2>4
<1> QED
  BY <1>1, <1>2

\* The part of a batch above a cursor is the log above it.
LEMMA AbovePart ==
    ASSUME NEW log \in Seq(Muts), NEW b \in Batches, NEW n \in Nat, PartOf(b, log), b.lo <= n
    PROVE  /\ BatchAbove(b, n) \in Seq(Muts)
           /\ Len(BatchAbove(b, n)) = IF BatchLast(b) > n THEN BatchLast(b) - n ELSE 0
           /\ \A i \in DOMAIN BatchAbove(b, n) : BatchAbove(b, n)[i] = log[n + i]
<1>1. /\ b.lo \in Nat /\ b.ents \in Seq(Muts) /\ Len(b.ents) \in Nat
      /\ DOMAIN b.ents = 1..Len(b.ents) /\ BatchLast(b) = b.lo + Len(b.ents)
      /\ BatchAbove(b, n) \in Seq(Muts)
  BY BatchParts DEF Batches, BatchLast
<1>0. /\ Len(log) \in Nat /\ b.lo + Len(b.ents) <= Len(log)
      /\ \A i \in 1..Len(b.ents) : b.ents[i] = log[b.lo + i]
  <2>1. Len(log) \in Nat
    OBVIOUS
  <2>2. b.lo + Len(b.ents) <= Len(log)
    BY <1>1 DEF PartOf
  <2>3. \A i \in 1..Len(b.ents) : b.ents[i] = log[b.lo + i]
    BY <1>1 DEF PartOf
  <2> QED
    BY <2>1, <2>2, <2>3
<1>2. CASE n = b.lo
  <2>1. BatchAbove(b, n) = b.ents
    BY <1>1, <1>2 DEF BatchAbove
  <2>3. \A i \in 1..Len(b.ents) : b.ents[i] = log[n + i]
    BY <1>0, <1>2
  <2>4. BatchLast(b) = b.lo + Len(b.ents) /\ DOMAIN b.ents = 1..Len(b.ents) /\ BatchAbove(b, n) \in Seq(Muts)
    BY <1>1
  <2>5. Len(b.ents) = IF BatchLast(b) > n THEN BatchLast(b) - n ELSE 0
    <3>0. b.lo \in Nat /\ Len(b.ents) \in Nat /\ BatchLast(b) = b.lo + Len(b.ents) /\ n = b.lo
      BY <1>1, <1>2
    <3>1. CASE BatchLast(b) > n
      BY <3>0, <3>1
    <3>2. CASE ~(BatchLast(b) > n)
      BY <3>0, <3>2
    <3> QED
      BY <3>1, <3>2
  <2>6. \A i \in DOMAIN b.ents : b.ents[i] = log[n + i]
    BY <2>3, <2>4
  <2> QED
    BY <2>1, <2>4, <2>5, <2>6
<1>3. CASE n > b.lo
  <2>1. PICK d : d = n - b.lo
    OBVIOUS
  <2>2. d \in Nat /\ d > 0 /\ n = b.lo + d
    BY <1>1, <1>3, <2>1
  <2>3. BatchAbove(b, n) = SubSeq(b.ents, d + 1, Len(b.ents))
    <3>1. ~(n <= b.lo)
      BY <1>1, <1>3
    <3> QED
      BY <2>1, <3>1 DEF BatchAbove
  <2>4. CASE d >= Len(b.ents)
    <3>1. Len(BatchAbove(b, n)) = 0 /\ DOMAIN BatchAbove(b, n) = {}
      <4>1. d + 1 > Len(b.ents) /\ Len(b.ents) \in Nat /\ d + 1 \in Nat /\ b.ents \in Seq(Muts)
        BY <1>1, <2>2, <2>4
      <4>2. PICK e \in Seq(Muts) : e = b.ents
        BY <1>1
      <4>3. SubSeq(e, d + 1, Len(e)) \in Seq(Muts) /\ Len(SubSeq(e, d + 1, Len(e))) = 0
        BY <4>1, <4>2
      <4>4. DOMAIN SubSeq(e, d + 1, Len(e)) = 1..0 /\ 1..0 = {}
        BY <4>3
      <4> QED
        BY <2>3, <4>2, <4>3, <4>4
    <3>2. ~(b.lo + Len(b.ents) > n)
      <4>1. b.lo \in Nat /\ Len(b.ents) \in Nat /\ n = b.lo + d /\ d \in Nat /\ d >= Len(b.ents)
        BY <1>1, <2>2, <2>4
      <4> QED
        BY <4>1
    <3> QED
      BY <1>1, <3>1, <3>2
  <2>5. CASE d < Len(b.ents)
    <3>1. /\ Len(BatchAbove(b, n)) = Len(b.ents) - d
          /\ DOMAIN BatchAbove(b, n) = 1..(Len(b.ents) - d)
          /\ \A i \in 1..(Len(b.ents) - d) : BatchAbove(b, n)[i] = b.ents[d + i]
      <4>1. PICK e \in Seq(Muts) : e = b.ents
        BY <1>1
      <4>2. Len(e) \in Nat /\ d \in Nat /\ d > 0 /\ d < Len(e) /\ BatchAbove(b, n) = SubSeq(e, d + 1, Len(e))
        BY <1>1, <2>2, <2>3, <2>5, <4>1
      <4>3. /\ Len(SubSeq(e, d + 1, Len(e))) = Len(e) - d
            /\ \A i \in 1..(Len(e) - d) : SubSeq(e, d + 1, Len(e))[i] = e[d + i]
        BY <4>2
      <4>4. DOMAIN SubSeq(e, d + 1, Len(e)) = 1..(Len(e) - d)
        BY <4>2
      <4> QED
        BY <4>1, <4>2, <4>3, <4>4
    <3>2. /\ b.lo + Len(b.ents) > n /\ Len(b.ents) - d = b.lo + Len(b.ents) - n
          /\ \A i \in 1..(Len(b.ents) - d) : d + i \in 1..Len(b.ents) /\ b.lo + (d + i) = n + i
      <4>1. b.lo \in Nat /\ Len(b.ents) \in Nat /\ n = b.lo + d /\ d \in Nat /\ d < Len(b.ents)
        BY <1>1, <2>2, <2>5
      <4> QED
        BY <4>1
    <3>3. \A i \in 1..(Len(b.ents) - d) : BatchAbove(b, n)[i] = log[n + i]
      BY <1>0, <3>1, <3>2
    <3> QED
      BY <1>1, <3>1, <3>2, <3>3
  <2> QED
    BY <1>1, <2>2, <2>4, <2>5
<1> QED
  BY <1>1, <1>2, <1>3

\* Nothing is replayed of what was applied before.
LEMMA NothingAbove ==
    ASSUME NEW rows \in Rows, NEW b \in Batches, NEW n \in Nat, BatchLast(b) <= n
    PROVE  Replay(rows, BatchAbove(b, n)) = rows
<1>1. /\ b.lo \in Nat /\ b.ents \in Seq(Muts) /\ Len(b.ents) \in Nat /\ b.lo + Len(b.ents) <= n
  BY DEF Batches, BatchLast
<1>2. PICK e \in Seq(Muts) : e = b.ents
  BY <1>1
<1>3. BatchAbove(b, n) \in Seq(Muts) /\ Len(BatchAbove(b, n)) = 0
  <2>1. CASE n <= b.lo
    <3>1. Len(b.ents) = 0
      BY <1>1, <2>1
    <3> QED
      BY <1>1, <2>1, <3>1 DEF BatchAbove
  <2>2. CASE ~(n <= b.lo)
    <3>1. PICK d : d = n - b.lo
      OBVIOUS
    <3>2. d \in Nat /\ d + 1 > Len(e) /\ Len(e) \in Nat
      BY <1>1, <1>2, <2>2, <3>1
    <3>3. SubSeq(e, d + 1, Len(e)) \in Seq(Muts) /\ Len(SubSeq(e, d + 1, Len(e))) = 0
      BY <3>2
    <3> QED
      BY <1>2, <2>2, <3>1, <3>3 DEF BatchAbove
  <2> QED
    BY <2>1, <2>2
<1>4. DOMAIN BatchAbove(b, n) = {}
  <2>1. DOMAIN BatchAbove(b, n) = 1..0 /\ 1..0 = {}
    BY <1>3
  <2> QED
    BY <2>1
<1>5. Replay(rows, BatchAbove(b, n)) = [k \in Keys |-> rows[k]]
  BY <1>4 DEF Replay
<1> QED
  BY <1>5 DEF Rows

\* Applying a part of the tail brings the rows up to it.
LEMMA RowApplied ==
    ASSUME ObjectTypes, NEW pos, RowState(pos), bulkDone, NEW b \in Batches,
           PartOf(b, tailLog), b.lo <= applied, ApplyTailBatch(b), UNCHANGED SourceData
    PROVE  RowState(pos)'
<1>1. /\ tailLog \in Seq(Muts) /\ applied \in Nat /\ dstRows \in Rows /\ Len(tailLog) \in Nat
      /\ DOMAIN tailLog = 1..Len(tailLog) /\ BatchLast(b) \in Nat
      /\ MutKey \in [Muts -> Keys]
  BY DataAssumption DEF ObjectTypes, SrcTypeOK, DstTypeOK, Batches, BatchLast, Keys
<1>2. /\ UNCHANGED <<src, srcRows, tailLog, watermark, bulkDone>>
      /\ dstRows' = Replay(dstRows, BatchAbove(b, applied))
      /\ applied' = IF BatchLast(b) > applied THEN BatchLast(b) ELSE applied
  BY DEF ApplyTailBatch, SourceData
<1>3. CASE BatchLast(b) <= applied
  BY <1>1, <1>2, <1>3, NothingAbove DEF RowState, Hit
<1>4. CASE BatchLast(b) > applied
  <2>1. PICK e \in Seq(Muts) : e = BatchAbove(b, applied)
    BY <1>1, AbovePart
  <2>2. /\ Len(e) = applied' - applied /\ DOMAIN e = 1..Len(e) /\ applied' = BatchLast(b)
        /\ \A i \in DOMAIN e : e[i] = tailLog[applied + i]
        /\ applied' <= Len(tailLog) /\ applied' \in Nat
    BY <1>1, <1>2, <1>4, <2>1, AbovePart DEF PartOf
  <2>3. ASSUME NEW k \in Keys, ~Hit(k, applied') PROVE dstRows'[k] = srcRows[k]
    <3>1. CASE (\A i \in DOMAIN e : MutKey[e[i]] # k) /\ dstRows'[k] = dstRows[k]
      <4>1. ASSUME NEW j \in DOMAIN tailLog, applied < j PROVE MutKey[tailLog[j]] # k
        <5>1. CASE j <= applied'
          <6>1. j - applied \in DOMAIN e /\ applied + (j - applied) = j
            BY <1>1, <2>2, <4>1, <5>1
          <6> QED
            BY <2>2, <3>1, <6>1
        <5>2. CASE j > applied'
          BY <2>3, <5>2 DEF Hit
        <5> QED
          BY <1>1, <2>2, <5>1, <5>2
      <4> QED
        BY <3>1, <4>1 DEF RowState, Hit
    <3>2. ASSUME NEW i \in DOMAIN e, MutKey[e[i]] = k, dstRows'[k] = Image(e[i]),
                 \A j \in DOMAIN e : MutKey[e[j]] = k => j <= i
          PROVE  dstRows'[k] = srcRows[k]
      <4>1. applied + i \in DOMAIN tailLog /\ e[i] = tailLog[applied + i] /\ i \in Nat
        BY <1>1, <2>2
      <4>2. ASSUME NEW j \in DOMAIN tailLog, applied + i < j PROVE MutKey[tailLog[j]] # k
        <5>1. CASE j <= applied'
          <6>1. j - applied \in DOMAIN e /\ applied + (j - applied) = j /\ ~(j - applied <= i)
            BY <1>1, <2>2, <4>1, <4>2, <5>1
          <6> QED
            BY <2>2, <3>2, <6>1
        <5>2. CASE j > applied'
          BY <2>3, <5>2 DEF Hit
        <5> QED
          BY <1>1, <2>2, <5>1, <5>2
      <4> QED
        BY <3>2, <4>1, <4>2 DEF RowState, Hit
    <3> QED
      BY <1>2, <2>1, <3>1, <3>2, ReplayRow
  <2> QED
    BY <1>2, <2>3 DEF RowState, Hit
<1> QED
  BY <1>1, <1>3, <1>4

\* A request of the copy keeps what is known of the rows.
LEMMA RowServed ==
    ASSUME ObjectTypes, TailState, NEW pos \in 0..NKeys, RowState(pos), NEW r \in Requests,
           Copies(r), TailSent(r), RowSent(r),
           r.rpc = "closeReshardBulkDest" => pos = NKeys,
           r.rpc = "applyTailBatch" => bulkDone
    PROVE  RowState(pos)'
<1>1. /\ dstRows \in Rows /\ srcRows \in Rows /\ r.b \in Batches /\ bulkDone \in BOOLEAN
      /\ NKeys \in Nat \ {0}
  BY DataAssumption DEF ObjectTypes, SrcTypeOK, DstTypeOK, Requests
<1>2. CASE UNCHANGED <<src, srcRows, watermark, tailLog, dstRows, applied, bulkDone>>
  BY <1>2 DEF RowState, Hit
<1>3. CASE UNCHANGED DestData /\ src = "none" /\ BeginReshardSource
  <2>1. tailLog = <<>> /\ dstRows = NoRows /\ pos = 0 /\ ~bulkDone
    BY <1>3 DEF TailState, RowState
  <2>2. /\ src' = "capturing" /\ UNCHANGED <<srcRows, tailLog, dstRows, applied, bulkDone>>
        /\ watermark' = {k \in Keys : srcRows[k] # NoRow}
    BY <1>3 DEF BeginReshardSource, DestData
  <2> QED
    BY <2>1, <2>2 DEF RowState, Hit, NoRows, Keys
<1>4. CASE UNCHANGED SourceData /\ r.rpc = "applyBulkBatch" /\ ~bulkDone /\ ApplyBulkBatch(r.n, r.v)
  <2>1. r.n \in Keys /\ src # "none" /\ (~Hit(r.n, 0) => r.v = srcRows[r.n])
    BY <1>4 DEF RowSent
  <2>2. /\ UNCHANGED <<src, srcRows, watermark, tailLog, applied, bulkDone>>
        /\ dstRows' = [dstRows EXCEPT ![r.n] = r.v]
    BY <1>4 DEF SourceData, ApplyBulkBatch, dstCopy
  <2>3. \A k \in Keys : dstRows'[k] = IF k = r.n THEN r.v ELSE dstRows[k]
    BY <1>1, <2>2 DEF Rows
  <2> QED
    BY <1>4, <2>1, <2>2, <2>3 DEF RowState, Hit
<1>5. CASE UNCHANGED SourceData /\ r.rpc = "closeReshardBulkDest" /\ CloseReshardBulkDest
  <2>1. CASE bulkDone
    BY <1>2, <1>5, <2>1 DEF CloseReshardBulkDest, SourceData
  <2>2. CASE ~bulkDone
    <3>1. applied = 0 /\ src # "none" /\ \A k \in Keys : k <= pos
      BY <1>1, <1>5, <2>2 DEF TailState, RowState, Keys
    <3>2. UNCHANGED <<src, srcRows, watermark, tailLog, dstRows, applied>> /\ bulkDone' = TRUE
      BY <1>5 DEF CloseReshardBulkDest, SourceData
    <3> QED
      BY <2>2, <3>1, <3>2 DEF RowState, Hit
  <2> QED
    BY <2>1, <2>2
<1>6. CASE UNCHANGED SourceData /\ r.rpc = "applyTailBatch" /\ ApplyTailBatch(r.b)
  BY <1>1, <1>6, RowApplied DEF TailSent
<1> QED
  BY <1>2, <1>3, <1>4, <1>5, <1>6 DEF Copies, SourceData, DestData, SeedSplitOpLogPage,
     StageTailBatch, AckStagedTail, CloseTailStaging, ApplySplitOpLogBatch

\* A row without a captured change is the source's since the capture began.
RowGrows ==
    /\ src # "none" => src' # "none"
    /\ \A k \in Keys : src # "none" /\ ~Hit(k, 0)' => ~Hit(k, 0) /\ srcRows'[k] = srcRows[k]

\* A captured mutation changes its row only, and is the last to do so.
LEMMA RowCaptured ==
    ASSUME ObjectTypes, TailState, NEW pos \in 0..NKeys, RowState(pos),
           src # "draining", src # "drained", NEW m \in Muts, SourceMutate(m), UNCHANGED DestData
    PROVE  RowState(pos)' /\ RowGrows
<1>1. /\ applied \in Nat /\ tailLog \in Seq(Muts) /\ Len(tailLog) \in Nat
      /\ DOMAIN tailLog = 1..Len(tailLog) /\ srcRows \in Rows /\ src \in {"none", "capturing"}
      /\ MutKey[m] \in Keys /\ applied <= Len(tailLog)
  BY DataAssumption DEF ObjectTypes, SrcTypeOK, DstTypeOK, SrcStates, Keys, TailState
<1>2. /\ UNCHANGED <<src, dstRows, applied, bulkDone>>
      /\ tailLog' = IF src = "capturing" THEN Append(tailLog, m) ELSE tailLog
      /\ \A k \in Keys : srcRows'[k] = IF k = MutKey[m] THEN Image(m) ELSE srcRows[k]
      /\ \A k \in Keys : k # MutKey[m] => (k \in watermark' <=> k \in watermark)
  BY <1>1 DEF SourceMutate, DestData, Capturing, Write, Rows
<1>3. CASE src = "none"
  <2>1. tailLog = <<>> /\ tailLog' = <<>> /\ dstRows = NoRows /\ pos = 0 /\ ~bulkDone
    BY <1>2, <1>3 DEF TailState, RowState
  <2> QED
    BY <1>2, <1>3, <2>1 DEF RowState, RowGrows, Hit, NoRows, Keys
<1>4. CASE src = "capturing"
  <2>1. /\ DOMAIN tailLog' = 1..(Len(tailLog) + 1) /\ tailLog'[Len(tailLog) + 1] = m
        /\ \A i \in DOMAIN tailLog : tailLog'[i] = tailLog[i] /\ i \in DOMAIN tailLog'
    BY <1>1, <1>2, <1>4
  <2>2. Hit(MutKey[m], applied)' /\ Hit(MutKey[m], 0)'
        /\ \A i \in DOMAIN tailLog : Len(tailLog) + 1 \in DOMAIN tailLog' /\ i < Len(tailLog) + 1
    BY <1>1, <1>2, <2>1 DEF Hit
  <2>3. \A k \in Keys : (~Hit(k, 0)' => ~Hit(k, 0)) /\ (~Hit(k, applied)' => ~Hit(k, applied))
    BY <1>2, <2>1 DEF Hit
  <2>4. ASSUME NEW i \in DOMAIN tailLog',
               \A j \in DOMAIN tailLog' : i < j => MutKey[tailLog'[j]] # MutKey[tailLog'[i]]
        PROVE  srcRows'[MutKey[tailLog'[i]]] = Image(tailLog'[i])
    <3>1. CASE i = Len(tailLog) + 1
      BY <1>1, <1>2, <2>1, <3>1
    <3>2. CASE i \in DOMAIN tailLog
      <4>1. MutKey[tailLog[i]] # MutKey[m] /\ tailLog[i] \in Muts /\ MutKey[tailLog[i]] \in Keys
        BY <1>1, <2>1, <2>2, <2>4, <3>2, DataAssumption DEF Keys
      <4>2. ~Hit(MutKey[tailLog[i]], i)
        BY <2>1, <2>4, <3>2 DEF Hit
      <4> QED
        BY <1>2, <2>1, <3>2, <4>1, <4>2 DEF RowState
    <3> QED
      BY <1>1, <2>1, <3>1, <3>2
  <2>5. (\A i \in DOMAIN tailLog :
            ~Hit(MutKey[tailLog[i]], i) => srcRows[MutKey[tailLog[i]]] = Image(tailLog[i]))'
    BY <2>4 DEF Hit
  <2>6. \A k \in Keys : ~Hit(k, 0)' \/ ~Hit(k, applied)' =>
            srcRows'[k] = srcRows[k] /\ (k \in watermark' <=> k \in watermark)
    BY <1>2, <2>2
  <2> QED
    BY <1>2, <1>4, <2>3, <2>5, <2>6 DEF RowState, RowGrows
<1> QED
  BY <1>1, <1>3, <1>4

\* A page on its way stays so.
LEMMA RowSentKept ==
    ASSUME RowGrows, NEW q, RowSent(q)
    PROVE  RowSent(q)'
BY DEF RowGrows, RowSent

\* What a run sends on is a row of the source.
LEMMA RowRead ==
    ASSUME ControlInv, TypeInv, GoesOn, NEW r, Reads(r)
    PROVE  RowSent(r)
<1>1. CASE r.rpc = "applyBulkBatch"
  <2>1. r.n = run.pos + 1 /\ r.v = BulkCopyPage(run.pos) /\ r.v # NoRow /\ SourceMoving
    BY <1>1, GoesOnReads DEF Reads
  <2>2. run.pos + 1 \in watermark /\ r.v = srcRows[run.pos + 1] /\ watermark \subseteq Keys
    BY <2>1 DEF BulkCopyPage, TypeInv, ObjectTypes, SrcTypeOK
  <2> QED
    BY <1>1, <2>1, <2>2 DEF RowSent, SourceMoving
<1> QED
  BY <1>1 DEF RowSent

\* The bulk cursor passes a row that has been copied, or that is gone.
LEMMA RowCursor ==
    ASSUME ControlInv, TypeInv, TypeInv', RowInv, Copying, Copying', GoesOn, bulkPos' # bulkPos
    PROVE  /\ bulkPos' = bulkPos + 1 /\ src' # "none" /\ bulkPos + 1 \in Keys
           /\ UNCHANGED <<tailLog, srcRows>>
           /\ ~bulkDone' /\ ~Hit(bulkPos + 1, 0) => dstRows'[bulkPos + 1] = srcRows[bulkPos + 1]
<1>0. StateOK /\ ObjectTypes /\ RowState(bulkPos) /\ bulkPos \in 0..NKeys /\ bulkPos' \in 0..NKeys
  BY DEF ControlInv, TypeInv, DurableTypes, RowInv
<1>1. /\ bulkPos' = bulkPos + 1 /\ run.pos = bulkPos
      /\ run.at = "bulk_apply" \/ (run.at = "bulk_read" /\ BulkCopyPage(run.pos) = NoRow)
  BY GoesOnRecords DEF Records
<1>2. bulkPos + 1 \in Keys
  BY <1>0, <1>1, DataAssumption DEF Keys
<1>3. CASE run.at = "bulk_apply"
  <2>1. PICK r : r = Request("run")
    OBVIOUS
  <2>2. r.rpc = "applyBulkBatch" /\ r.n = bulkPos + 1
    BY <1>1, <1>3, <2>1 DEF Request, At, RpcAt
  <2>3. r \in Pending /\ Accepts(r) /\ Serves(r) /\ SentOK(r.rpc)
    BY <1>3, <2>1, GoesOnTouches, PendingSafe DEF Limited
  <2>4. Copies(r) /\ RowSent(r)
    BY <1>0, <2>3, ServedCopies DEF RowInv
  <2>5. UNCHANGED SourceData /\ ApplyBulkBatch(r.n, r.v) /\ src # "none"
        /\ (~Hit(r.n, 0) => r.v = srcRows[r.n])
    BY <2>2, <2>4 DEF Copies, CopyRpcs, RowSent
  <2>6. dstRows \in Rows /\ dstRows' = [dstRows EXCEPT ![r.n] = r.v]
    BY <1>0, <2>5 DEF ApplyBulkBatch, ObjectTypes, DstTypeOK
  <2>7. dstRows'[r.n] = r.v
    BY <1>2, <2>2, <2>6 DEF Rows
  <2> QED
    BY <1>1, <1>2, <2>2, <2>5, <2>7 DEF SourceData
<1>4. CASE run.at = "bulk_read" /\ BulkCopyPage(run.pos) = NoRow
  <2>1. UNCHANGED <<srcVars, dstVars>> /\ src # "none"
    BY <1>4, GoesOnReads DEF SourceMoving
  <2>2. UNCHANGED <<src, srcRows, tailLog, dstRows, bulkDone>>
    BY <2>1 DEF srcVars, srcCopy, dstVars, dstCopy
  <2>3. ASSUME ~bulkDone, ~Hit(bulkPos + 1, 0) PROVE dstRows[bulkPos + 1] = srcRows[bulkPos + 1]
    <3>1. srcRows[bulkPos + 1] = NoRow
      BY <1>0, <1>1, <1>2, <1>4, <2>1, <2>3 DEF RowState, BulkCopyPage
    <3> QED
      BY <1>0, <1>2, <2>3, <3>1 DEF RowState
  <2> QED
    BY <1>1, <1>2, <2>1, <2>2, <2>3
<1> QED
  BY <1>1, <1>3, <1>4

\* Every step keeps what is known of the rows.
LEMMA NextRow ==
    ASSUME ControlInv, TypeInv, TypeInv', WorkInv, TailInv, RowInv, [Next]_vars
    PROVE  RowInv'
<1> SUFFICES ASSUME Copying' PROVE RowState(bulkPos)' /\ \A r \in Pending' : RowSent(r)'
  BY DEF RowInv
<1>0. StateOK /\ ObjectTypes /\ ObjectTypes' /\ Touches /\ Pending' \subseteq Requests
      /\ Pending \subseteq Requests /\ bulkPos \in 0..NKeys
  BY StepTouches, NextRequests, PendingTypes DEF ControlInv, TypeInv, DurableTypes
<1>1. Copying /\ TailState /\ RowState(bulkPos) /\ src # "draining" /\ src # "drained"
      /\ \A r \in Pending : TailSent(r) /\ RowSent(r) /\ WorkSent(r)
  BY <1>0, StepCopies DEF TailInv, RowInv, WorkInv, Copying, StateOK
<1>2. PICK pos \in 0..NKeys : pos = bulkPos
  BY <1>0
<1>3. RowState(pos)
  BY <1>1, <1>2
<1>4. RowState(pos)' /\ RowGrows
  <2>1. CASE UNCHANGED <<SourceData, DestData, opAcked>>
    BY <1>3, <2>1 DEF SourceData, DestData, RowState, RowGrows, Hit
  <2>2. CASE \E r \in Requests : Copies(r) /\ (r \in Pending \/ r.rpc \notin CopyRpcs)
    <3>1. PICK r \in Requests : Copies(r) /\ (r \in Pending \/ r.rpc \notin CopyRpcs)
      BY <2>2
    <3>2. /\ TailSent(r) /\ RowSent(r)
          /\ r.rpc = "closeReshardBulkDest" => pos = NKeys
          /\ r.rpc = "applyTailBatch" => bulkDone
      BY <1>1, <1>2, <3>1 DEF TailSent, RowSent, CopyRpcs, WorkSent
    <3>3. RowState(pos)'
      BY <1>0, <1>1, <1>3, <3>1, <3>2, RowServed
    <3>4. UNCHANGED <<srcRows, tailLog>> /\ (src # "none" => src' # "none")
      BY <3>1 DEF Copies, SourceData, BeginReshardSource, SeedSplitOpLogPage
    <3> QED
      BY <3>3, <3>4 DEF RowGrows, Hit
  <2>3. CASE \E m \in Muts : SourceMutate(m) /\ UNCHANGED DestData
    BY <1>0, <1>1, <1>3, <2>3, RowCaptured
  <2> QED
    BY <1>0, <2>1, <2>2, <2>3, StepCopies
<1>5. RowState(bulkPos)'
  <2>1. CASE bulkPos' = bulkPos
    BY <1>2, <1>4, <2>1 DEF RowState, Hit
  <2>2. CASE bulkPos' # bulkPos
    <3>1. GoesOn
      BY <2>2, StepAside DEF Aside
    <3>2. /\ bulkPos' = pos + 1 /\ src' # "none" /\ pos + 1 \in Keys /\ UNCHANGED <<tailLog, srcRows>>
          /\ ~bulkDone' /\ ~Hit(pos + 1, 0) => dstRows'[pos + 1] = srcRows[pos + 1]
      BY <1>1, <1>2, <2>2, <3>1, RowCursor
    <3>3. \A k \in Keys : k <= pos + 1 => k <= pos \/ k = pos + 1
      BY <1>2 DEF Keys
    <3> QED
      BY <1>4, <3>2, <3>3 DEF RowState, Hit
  <2> QED
    BY <2>1, <2>2
<1>6. ASSUME NEW r \in Pending' PROVE RowSent(r)'
  <2>1. CASE r.rpc \in CopyRpcs
    <3>1. RowSent(r)
      BY <1>1, <1>6, <2>1, StepSends, RowRead
    <3> QED
      BY <1>4, <3>1, RowSentKept
  <2>2. CASE r.rpc \notin CopyRpcs
    BY <2>2 DEF RowSent, CopyRpcs
  <2> QED
    BY <2>1, <2>2
<1> QED
  BY <1>5, <1>6

LEMMA InitRow ==
    ASSUME Init
    PROVE  RowInv
<1>1. run.at = "idle" /\ late = {} /\ "idle" \notin Waits
  BY WaitNames DEF Init, NoRun
<1>2. RowState(bulkPos)
  BY DEF Init, SrcInit, DstInit, RowState, NoRows, Keys
<1> QED
  BY <1>1, <1>2 DEF RowInv, Pending

\* Behind the fence, what has arrived stays all there is.
LEMMA DoneKept ==
    ASSUME StateOK, ObjectTypes, ObjectTypes', Touches, Copying', Fenced
    PROVE  (TailDone => TailDone') /\ (CopyDone => CopyDone')
<1>1. applied \in Nat
  BY DEF ObjectTypes, DstTypeOK
<1>2. /\ UNCHANGED <<tailLog, srcOps>> /\ applied' >= applied /\ (bulkDone => bulkDone')
      /\ dstOps \subseteq dstOps'
  <2>1. CASE UNCHANGED <<SourceData, DestData, opAcked>>
    BY <1>1, <2>1 DEF SourceData, DestData
  <2>2. CASE \E r \in Requests : Copies(r)
    <3>1. PICK r \in Requests : Copies(r)
      BY <2>2
    <3>2. UNCHANGED <<tailLog, srcOps>>
      BY <3>1 DEF Copies, SourceData, BeginReshardSource, SeedSplitOpLogPage
    <3>3. BatchLast(r.b) \in Nat
      BY BatchParts DEF Requests
    <3>4. applied' >= applied
      BY <1>1, <3>1, <3>3 DEF Copies, DestData, ApplyBulkBatch, dstCopy, CloseReshardBulkDest,
         StageTailBatch, AckStagedTail, CloseTailStaging, ApplyTailBatch, ApplySplitOpLogBatch
    <3>5. (bulkDone => bulkDone') /\ dstOps \subseteq dstOps'
      BY <3>1 DEF Copies, DestData, ApplyBulkBatch, dstCopy, CloseReshardBulkDest,
         StageTailBatch, AckStagedTail, CloseTailStaging, ApplyTailBatch, ApplySplitOpLogBatch
    <3> QED
      BY <3>2, <3>4, <3>5
  <2>3. CASE \E m \in Muts : SourceMutate(m)
    BY <2>3 DEF SourceMutate, SourceAdmits, Fenced
  <2> QED
    BY <2>1, <2>2, <2>3, StepCopies
<1>3. TailDone => TailDone'
  <2>1. Len(tailLog) \in Nat /\ applied' \in Nat
    BY DEF ObjectTypes, SrcTypeOK, DstTypeOK
  <2> QED
    BY <1>1, <1>2, <2>1 DEF TailDone
<1>4. Outcomes(srcOps) \subseteq dstOps => Outcomes(srcOps)' \subseteq dstOps'
  BY <1>2 DEF Outcomes
<1> QED
  BY <1>3, <1>4 DEF CopyDone

\* An empty page of the tail, once the inbox is closed, is its applied end.
LEMMA TailEmpty ==
    ASSUME ControlInv, TypeInv, WorkInv, PrunedInv, TailState,
           run.at = "tail_read", ReadTailBatch(run.tail).ents = <<>>
    PROVE  TailDone
<1>1. /\ staged \in Nat /\ applied \in Nat /\ tailLog \in Seq(Muts) /\ Len(tailLog) \in Nat
      /\ tailAcked \in Nat /\ run.tail \in Nat
  BY DEF TypeInv, ObjectTypes, SrcTypeOK, DstTypeOK, RunTypes, Runs
<1>2. bulkDone /\ inboxClosed
  BY WaitNames DEF WorkInv, WorkOf, ControlInv, LocalOK, PlaceOK, BULK_DONE, CAUGHT_UP, DUAL_WRITE,
     DRAINED, Undoing
<1>3. /\ tailAcked <= applied /\ run.tail <= applied
      /\ tailAcked <= Len(tailLog) /\ run.tail <= Len(tailLog)
  BY <1>1, <1>2 DEF PrunedInv, Durable, TailState
<1>4. PICK n : n = Page(tailLog, tailAcked, run.tail).lo
  OBVIOUS
<1>5. n \in {tailAcked, run.tail} /\ Len(tailLog) <= n
  BY <1>1, <1>3, <1>4, PagePart DEF ReadTailBatch
<1> QED
  BY <1>1, <1>2, <1>3, <1>5 DEF TailDone

\* The cutover is requested, and recorded, when the copy is complete.
LEMMA NextDone ==
    ASSUME ControlInv, TypeInv, TypeInv', WorkInv, PrunedInv, TailInv, OpInv, DoneInv, [Next]_vars
    PROVE  DoneInv'
<1> SUFFICES ASSUME Copying'
             PROVE  /\ cut' => CopyDone'
                    /\ \A r \in Pending' : r.rpc = "cutover" => CopyDone'
                    /\ run'.at \in OpWaits /\ run'.phase = CAUGHT_UP => TailDone'
  BY DEF DoneInv, OpWaits, CAUGHT_UP
<1>0. StateOK /\ ObjectTypes /\ ObjectTypes' /\ Touches
  BY StepTouches DEF ControlInv, TypeInv
<1>1. Copying /\ TailState /\ OpState /\ OpRun
  BY <1>0, StepCopies DEF TailInv, OpInv
<1>2. \A r \in Pending : r.rpc = "cutover" => CopyDone /\ Fenced
  BY <1>1, PendingSafe DEF DoneInv, SentOK
<1>3. run.at \in OpWaits /\ run.phase = CAUGHT_UP => TailDone /\ Fenced
  BY <1>1 DEF DoneInv, ControlInv, LocalOK, PlaceOK, OpWaits
<1>4. ASSUME cut' PROVE CopyDone'
  <2>1. CASE cut
    BY <1>0, <1>1, <2>1, DoneKept DEF DoneInv, StateOK
  <2>2. CASE ~cut
    <3>1. PICK r \in Requests : (r \in Pending \/ r.rpc \notin CopyRpcs) /\ Accepts(r) /\ Serves(r)
      BY <1>0, <1>4, <2>2 DEF Touches, catVars
    <3>2. r.rpc = "cutover"
      BY <1>4, <2>2, <3>1, ServedEffect DEF Effect
    <3> QED
      BY <1>0, <1>2, <3>1, <3>2, DoneKept DEF CopyRpcs
  <2> QED
    BY <2>1, <2>2
<1>5. ASSUME NEW r \in Pending', r.rpc = "cutover" PROVE CopyDone'
  <2>1. CASE r \in Pending
    BY <1>0, <1>2, <1>5, <2>1, DoneKept
  <2>2. CASE GoesOn /\ Reads(r)
    <3>1. run.at = "op_read" /\ ReadSplitOpLogBatch(opCur).ents = <<>> /\ run.phase = CAUGHT_UP
      BY <1>5, <2>2 DEF Reads
    <3>2. Outcomes(srcOps) \subseteq dstOps
      BY <1>1, <2>2, <3>1, OpEmpty
    <3>3. CopyDone /\ Fenced
      BY <1>3, <3>1, <3>2 DEF CopyDone, OpWaits
    <3> QED
      BY <1>0, <3>3, DoneKept
  <2> QED
    BY <1>5, <2>1, <2>2, StepSends DEF CopyRpcs
<1>6. ASSUME run'.at \in OpWaits, run'.phase = CAUGHT_UP PROVE TailDone'
  <2>1. TailDone /\ Fenced
    <3>1. CASE Aside
      BY <1>3, <1>6, <3>1 DEF Aside, OpWaits, Undoing
    <3>2. CASE GoesOn
      <4>1. KeepsRead /\ Arrives
        BY <3>2, GoesOnTouches, GoesOnArrives
      <4>2. run.phase = CAUGHT_UP
        BY <1>6, <4>1 DEF KeepsRead, NoRun, OpWaits
      <4>3. CASE run.at \in OpWaits
        BY <1>3, <4>2, <4>3
      <4>4. CASE run.at = "tail_read" /\ ReadTailBatch(run.tail).ents = <<>>
        <5>1. Fenced
          BY <4>2, <4>4 DEF ControlInv, LocalOK, PlaceOK
        <5> QED
          BY <1>1, <4>4, <5>1, TailEmpty
      <4> QED
        BY <1>6, <4>1, <4>2, <4>3, <4>4 DEF Arrives
    <3> QED
      BY <3>1, <3>2, StepAside
  <2> QED
    BY <1>0, <2>1, DoneKept
<1> QED
  BY <1>4, <1>5, <1>6

LEMMA InitDone ==
    ASSUME Init
    PROVE  DoneInv
<1>1. run.at = "idle" /\ late = {} /\ "idle" \notin Waits /\ ~cut
  BY WaitNames DEF Init, NoRun
<1> QED
  BY <1>1 DEF DoneInv, Pending, OpWaits

\* A page that holds entries ends within the log, and all are of the log.
LEMMA PageEntries ==
    ASSUME NEW log \in Seq(Muts), NEW acked \in Nat, NEW after \in Nat
    PROVE  /\ Outcomes(Page(log, acked, after).ents) \subseteq Outcomes(log)
           /\ Page(log, acked, after).ents # <<>> => BatchLast(Page(log, acked, after)) <= Len(log)
<1> DEFINE from == IF after < acked THEN acked ELSE after
           to   == IF from + TailBatch < Len(log) THEN from + TailBatch ELSE Len(log)
           ents == SubSeq(log, from + 1, to)
<1>1. from \in Nat /\ to \in Nat /\ to <= Len(log) /\ Len(log) \in Nat
  BY SourceAssumption
<1>2. Page(log, acked, after) = [lo |-> from, ents |-> ents]
  BY DEF Page, Batch
<1> HIDE DEF from, to
<1>3. CASE from < to
  <2>1. Len(ents) = to - from /\ \A i \in 1..(to - from) : ents[i] = log[from + i]
    BY <1>1, <1>3
  <2>2. DOMAIN ents = 1..(to - from)
    BY <1>1, <1>3
  <2>3. \A i \in 1..(to - from) : from + i \in DOMAIN log
    BY <1>1
  <2>4. from + Len(ents) <= Len(log)
    BY <1>1, <2>1
  <2> HIDE DEF ents
  <2> QED
    BY <1>2, <2>1, <2>2, <2>3, <2>4 DEF Outcomes, BatchLast
<1>4. CASE ~(from < to)
  <2>1. ents = <<>> /\ ents \in Seq(Muts) /\ Len(ents) = 0
    BY <1>1, <1>4
  <2>2. DOMAIN ents = 1..0 /\ 1..0 = {}
    BY <2>1
  <2> HIDE DEF ents
  <2> QED
    BY <1>2, <2>1, <2>2 DEF Outcomes
<1> QED
  BY <1>3, <1>4

\* Once the destination serves, no copy changes what it holds.
LEMMA ServingStep ==
    ASSUME ControlInv, EndInv, TypeInv, WorkInv, ServeInv, Touches, serving
    PROVE  /\ serving' /\ srcOps' = srcOps /\ tailLog' \in {tailLog, <<>>} /\ applied' >= applied
           /\ UNCHANGED <<dstRows, dstOps>> \/ \E m \in Muts : DestMutate(m)
<1>1. /\ cut /\ Fenced /\ Passed /\ op # "aborted"
      /\ dst \in {"live", "done"}
  BY DEF ControlInv, StateOK, EndInv, ObjectsEnd, DestEndOK
<1>2. bulkDone
  BY <1>1 DEF WorkInv, WorkOf, Passed, CAUGHT_UP, DUAL_WRITE, CUT_OVER, DRAINED, BULK_DONE
<1>3. applied \in Nat /\ dstRows \in Rows /\ dstOps \subseteq Muts
  BY DEF TypeInv, ObjectTypes, DstTypeOK
<1>4. CASE UNCHANGED <<srcVars, dstVars, catVars>>
  BY <1>3, <1>4 DEF srcVars, srcCopy, dstVars, dstCopy
<1>5. CASE \E r \in Requests : /\ r \in Pending \/ r.rpc \notin CopyRpcs
                               /\ SentOK(r.rpc) /\ Accepts(r) /\ Serves(r)
  <2>1. PICK r \in Requests : /\ r \in Pending \/ r.rpc \notin CopyRpcs
                              /\ SentOK(r.rpc) /\ Accepts(r) /\ Serves(r)
    BY <1>5
  <2>2. CASE SourceServes(r) /\ UNCHANGED <<dstVars, catVars>>
    <3>1. UNCHANGED <<serving, applied, dstRows, dstOps>>
      BY <2>2 DEF dstVars, dstCopy
    <3>2. srcOps' = srcOps /\ tailLog' \in {tailLog, <<>>}
      BY <2>2 DEF SourceServes, SourceReads, srcVars, srcCopy, BeginReshardSource, AckTail,
         AckSplitOpLog, SeedSplitOpLogPage, PrepareRoutingFence, ActivateRoutingFence,
         CompleteRoutingFenceCleanup, CancelRoutingFenceBeforeCutover, StopReshardCapture,
         DropMigratedRange, FinishReshardSource, AbortReshardSource, ClearCapture
    <3> QED
      BY <1>3, <3>1, <3>2
  <2>3. CASE DestServes(r) /\ UNCHANGED <<srcVars, catVars>>
    <3>1. srcOps' = srcOps /\ tailLog' = tailLog
      BY <2>3 DEF srcVars, srcCopy
    <3>2. DestAccepts(r)
      BY <2>1, <2>3 DEF Accepts, DestServes, SourceAccepts, CatalogAccepts
    <3>3. CASE r.rpc = "applyTailBatch"
      <4>1. r.b \in Batches /\ BatchLast(r.b) <= applied /\ ApplyTailBatch(r.b)
        BY <2>1, <2>3, <3>3 DEF ServeInv, CopyRpcs, Requests, DestServes
      <4>2. BatchLast(r.b) \in Nat /\ Replay(dstRows, BatchAbove(r.b, applied)) = dstRows
        BY <1>3, <4>1, NothingAbove, BatchParts
      <4> QED
        BY <1>3, <3>1, <4>1, <4>2 DEF ApplyTailBatch
    <3>4. CASE r.rpc = "applySplitOpLogBatch"
      <4>1. Outcomes(r.b.ents) \subseteq dstOps /\ ApplySplitOpLogBatch(r.b)
        BY <2>1, <2>3, <3>4 DEF ServeInv, CopyRpcs, DestServes
      <4> QED
        BY <1>3, <3>1, <4>1 DEF ApplySplitOpLogBatch, Outcomes
    <3>5. CASE r.rpc \notin {"applyTailBatch", "applySplitOpLogBatch"}
      <4>1. r.rpc \notin {"applyBulkBatch", "beginReshardDest", "beginReshardDestAbort",
                        "abortReshardDestBatch"}
        BY <1>1, <1>2, <2>1, <3>2 DEF DestAccepts, SentOK, ApplyBulkBatchOk, BeginReshardDestOk
      <4>2. serving' /\ UNCHANGED <<applied, dstRows, dstOps>>
        BY <2>3, <3>5, <4>1 DEF DestServes, dstVars, dstCopy,
           PrepareReshardDestOwnership, ProvisionFreshReshardDestination,
           CloseReshardBulkDest, StageTailBatch, AckStagedTail, CloseTailStaging,
           ActivateReshardDestServing, ReleaseTransferState, FinishReshardDest
      <4> QED
        BY <1>3, <3>1, <4>2
    <3> QED
      BY <3>3, <3>4, <3>5
  <2>4. CASE CatalogServes(r) /\ UNCHANGED <<srcVars, dstVars>>
    BY <1>3, <2>4 DEF srcVars, srcCopy, dstVars, dstCopy
  <2> QED
    BY <2>1, <2>2, <2>3, <2>4 DEF Serves
<1>6. CASE \E m \in Muts : SourceMutate(m) /\ UNCHANGED <<dstVars, catVars>>
  BY <1>1, <1>6 DEF SourceMutate, SourceAdmits, Fenced
<1>7. CASE \E m \in Muts : DestMutate(m) /\ UNCHANGED <<srcVars, catVars>>
  BY <1>3, <1>7 DEF DestMutate, dstCopy, srcVars, srcCopy
<1> QED
  BY <1>4, <1>5, <1>6, <1>7 DEF Touches

\* The destination begins to serve when it holds what the source holds.
LEMMA ServingStarts ==
    ASSUME ControlInv, EndInv, TypeInv, TailInv, OpInv, RowInv, DoneInv, Touches, ~serving, serving'
    PROVE  /\ Copying /\ CopyDone /\ Fenced
           /\ UNCHANGED <<fence, tailLog, srcOps, applied, dstRows, dstOps>>
           /\ dstRows = srcRows /\ dstOps = Outcomes(srcOps)
<1>1. PICK r \in Requests : SentOK(r.rpc) /\ Accepts(r) /\ Serves(r)
  BY DEF Touches, dstVars, SourceMutate, DestMutate
<1>2. r.rpc = "activateReshardDestServing"
  BY <1>1, ServedEffect DEF Effect
<1>3. /\ DestServes(r) /\ DestAccepts(r) /\ UNCHANGED srcVars
  BY <1>1, <1>2 DEF Serves, Accepts, DestServes, SourceServes, SourceReads, CatalogServes,
     SourceAccepts, CatalogAccepts
<1>4. cut /\ Fenced /\ op # "aborted"
  BY <1>1, <1>2 DEF SentOK, ControlInv, StateOK
<1>5. Copying
  BY <1>2, <1>3, <1>4 DEF DestAccepts, ActivateReshardDestServingOk, ControlInv, StateOK, EndInv,
     ObjectsEnd, DestEndOK, Copying
<1>6. CopyDone /\ RowState(bulkPos) /\ OpState /\ TailState
  BY <1>4, <1>5 DEF DoneInv, RowInv, OpInv, TailInv
<1>7. UNCHANGED <<fence, tailLog, srcOps, applied, dstRows, dstOps>>
  BY <1>2, <1>3 DEF DestServes, ActivateReshardDestServing, dstCopy, srcVars, srcCopy
<1>8. dstRows = srcRows
  <2>1. /\ dstRows \in Rows /\ srcRows \in Rows /\ applied \in Nat /\ tailLog \in Seq(Muts)
        /\ Len(tailLog) \in Nat /\ DOMAIN tailLog = 1..Len(tailLog)
    BY DEF TypeInv, ObjectTypes, SrcTypeOK, DstTypeOK
  <2>2. \A k \in Keys : ~Hit(k, applied)
    BY <1>6, <2>1 DEF Hit, CopyDone, TailDone
  <2>3. \A k \in Keys : dstRows[k] = srcRows[k]
    BY <1>6, <2>2 DEF RowState, CopyDone, TailDone
  <2> QED
    BY <2>1, <2>3 DEF Rows
<1>9. dstOps = Outcomes(srcOps)
  BY <1>6 DEF OpState, CopyDone
<1> QED
  BY <1>4, <1>5, <1>6, <1>7, <1>8, <1>9

\* The outcomes of a part are of the whole.
LEMMA PartOutcomes ==
    ASSUME NEW log \in Seq(Muts), NEW b \in Batches, PartOf(b, log)
    PROVE  Outcomes(b.ents) \subseteq Outcomes(log)
<1>1. /\ b.lo \in Nat /\ Len(b.ents) \in Nat /\ DOMAIN b.ents = 1..Len(b.ents)
      /\ BatchLast(b) = b.lo + Len(b.ents) /\ Len(log) \in Nat /\ DOMAIN log = 1..Len(log)
  BY DEF Batches, BatchLast
<1>2. ASSUME NEW i \in DOMAIN b.ents PROVE b.lo + i \in DOMAIN log
  BY <1>1 DEF PartOf
<1> QED
  BY <1>2 DEF Outcomes, PartOf

\* What is read of the outcomes is of the source's.
LEMMA ReadOutcomes ==
    ASSUME TypeInv, OpInv
    PROVE  Outcomes(ReadSplitOpLogBatch(opCur).ents) \subseteq Outcomes(srcOps)
<1>1. /\ ObjectTypes /\ opAcked \in Nat /\ opCur \in Nat /\ opLog \in Seq(Muts)
      /\ srcOps \in Seq(Muts)
  BY DEF TypeInv, ObjectTypes, SrcTypeOK, DurableTypes
<1>2. SeededOpLog \in Seq(Muts) /\ Outcomes(SeededOpLog) \subseteq Outcomes(srcOps)
  <2>1. CASE SeededOpLog = opLog
    BY <1>1, <2>1 DEF OpInv
  <2>2. CASE /\ seedAfter + 1 \in DOMAIN srcOps
             /\ SeededOpLog = Append(opLog, srcOps[seedAfter + 1])
    <3>1. PICK m \in Muts : m = srcOps[seedAfter + 1]
      BY <1>1, <2>2
    <3>2. Outcomes(Append(opLog, m)) = Outcomes(opLog) \cup {m} /\ m \in Outcomes(srcOps)
      BY <1>1, <2>2, <3>1, MoreOutcomes DEF Outcomes
    <3> QED
      BY <1>1, <2>2, <3>1, <3>2 DEF OpInv
  <2> QED
    BY <1>1, <2>1, <2>2, Seeded
<1> QED
  BY <1>1, <1>2, PageEntries DEF ReadSplitOpLogBatch

\* Late copies stay harmless once the destination serves.
LEMMA NextServe ==
    ASSUME ControlInv, EndInv, TypeInv, TypeInv', WorkInv, PrunedInv, TailInv, OpInv, RowInv,
           DoneInv, ServeInv, [Next]_vars
    PROVE  ServeInv'
<1> SUFFICES ASSUME serving'
             PROVE  /\ Len(tailLog') <= applied' /\ Outcomes(srcOps') \subseteq dstOps'
                    /\ \A r \in Pending' :
                           /\ r.rpc = "applyTailBatch" => BatchLast(r.b) <= applied'
                           /\ r.rpc = "applySplitOpLogBatch" => Outcomes(r.b.ents) \subseteq dstOps'
  BY DEF ServeInv, Outcomes, BatchLast
<1>0. Touches /\ Pending' \subseteq Requests
  BY StepTouches, NextRequests
<1>1. /\ applied \in Nat /\ applied' \in Nat /\ tailLog \in Seq(Muts) /\ Len(tailLog) \in Nat
      /\ opLog \in Seq(Muts) /\ tailAcked \in Nat /\ run.tail \in Nat
  BY DEF TypeInv, ObjectTypes, SrcTypeOK, DstTypeOK, RunTypes, Runs
<1>2. \A r \in Pending' : r.b \in Batches /\ BatchLast(r.b) \in Nat
  BY <1>0, BatchParts DEF Requests
<1>3. CASE serving
  <2>1. /\ srcOps' = srcOps /\ tailLog' \in {tailLog, <<>>} /\ applied' >= applied
        /\ dstOps \subseteq dstOps'
    BY <1>0, <1>3, ServingStep DEF DestMutate
  <2>2. Len(tailLog) <= applied /\ Outcomes(srcOps) \subseteq dstOps
    BY <1>3 DEF ServeInv
  <2>3. Len(tailLog') <= applied'
    <3>1. Len(tailLog') \in {Len(tailLog), 0}
      BY <2>1
    <3> QED
      BY <1>1, <2>1, <2>2, <3>1
  <2>4. ASSUME NEW r \in Pending', r.rpc = "applyTailBatch" PROVE BatchLast(r.b) <= applied
    <3>1. CASE r \in Pending
      BY <1>3, <2>4, <3>1 DEF ServeInv
    <3>2. CASE GoesOn /\ Reads(r)
      <4>1. run.at # "inbox_read"
        BY <1>3, WaitNames DEF ControlInv, StateOK, LocalOK, PlaceOK, RunPhaseOK, Undoing, Passed,
           Undone, CAPTURE, CAUGHT_UP, DUAL_WRITE, CUT_OVER, DRAINED, ABORTING, ABORTED
      <4>2. r.b = Page(tailLog, tailAcked, run.tail) /\ r.b.ents # <<>>
        BY <2>4, <3>2, <4>1 DEF Reads, ReadTailBatch
      <4>3. BatchLast(r.b) <= Len(tailLog)
        BY <1>1, <4>2, PageEntries
      <4> QED
        BY <1>1, <1>2, <2>2, <2>4, <4>3
    <3> QED
      BY <2>4, <3>1, <3>2, StepSends DEF CopyRpcs
  <2>5. ASSUME NEW r \in Pending', r.rpc = "applySplitOpLogBatch"
        PROVE  Outcomes(r.b.ents) \subseteq dstOps
    <3>1. CASE r \in Pending
      BY <1>3, <2>5, <3>1 DEF ServeInv
    <3>2. CASE GoesOn /\ Reads(r)
      BY <2>2, <2>5, <3>2, ReadOutcomes DEF Reads
    <3> QED
      BY <2>5, <3>1, <3>2, StepSends DEF CopyRpcs
  <2> QED
    BY <1>1, <1>2, <2>1, <2>2, <2>3, <2>4, <2>5
<1>4. CASE ~serving
  <2>1. /\ Copying /\ CopyDone /\ UNCHANGED <<tailLog, srcOps, applied, dstOps>>
        /\ dstOps = Outcomes(srcOps)
    BY <1>0, <1>4, ServingStarts
  <2>2. ASSUME NEW r \in Pending', r.rpc = "applyTailBatch" PROVE BatchLast(r.b) <= applied
    <3>1. TailSent(r)
      BY <2>1, <2>2, StepSends, TailRead DEF TailInv, CopyRpcs
    <3> QED
      BY <1>1, <1>2, <2>1, <2>2, <3>1 DEF TailSent, PartOf, CopyDone, TailDone
  <2>3. ASSUME NEW r \in Pending', r.rpc = "applySplitOpLogBatch"
        PROVE  Outcomes(r.b.ents) \subseteq dstOps
    <3>1. CASE r \in Pending
      <4>1. PartOf(r.b, opLog)
        BY <2>1, <2>3, <3>1 DEF OpInv, OpSent
      <4> QED
        BY <1>1, <1>2, <2>1, <2>3, <4>1, PartOutcomes DEF OpInv
    <3>2. CASE GoesOn /\ Reads(r)
      BY <1>4, <2>3, <3>2, GoesOnReads DEF Reads, dstVars
    <3> QED
      BY <2>3, <3>1, <3>2, StepSends DEF CopyRpcs
  <2> QED
    BY <1>1, <2>1, <2>2, <2>3 DEF CopyDone, TailDone
<1> QED
  BY <1>3, <1>4

LEMMA InitServe ==
    ASSUME Init
    PROVE  ServeInv
BY DEF Init, DstInit, ServeInv

-----------------------------------------------------------------------------
(* The movement refines the range as clients know it.                      *)

\* What is known of the copy.
DataInv == WorkInv /\ TailInv /\ OpInv /\ RowInv /\ DoneInv /\ ServeInv
CopyInv == ControlInv /\ EndInv /\ TypeInv /\ PrunedInv /\ DataInv

\* The invariant of the data: until the destination serves, what it holds of
\* the range differs from the source's only where a captured change is still
\* to come, and everything on its way is a part of what the source captured.
THEOREM CopyInvariant == Spec => []CopyInv
<1>1. Init => CopyInv
  BY InitControl, InitEnds, InitTypes, InitPruned, InitWork, InitTail, InitOps, InitRow, InitDone,
     InitServe DEF CopyInv, DataInv
<1>2. CopyInv /\ [Next]_vars => CopyInv'
  BY NextControl, NextEnds, NextTypes, NextPruned, NextWork, NextTail, NextOps, NextRow, NextDone,
     NextServe DEF CopyInv, DataInv
<1> QED
  BY <1>1, <1>2, PTL DEF Spec

\* The range as it is seen.
SeenRows == IF serving THEN dstRows ELSE srcRows
SeenOps  == IF serving THEN dstOps ELSE {srcOps[i] : i \in DOMAIN srcOps}
SeenOpen == SourceAdmits \/ DestAdmits

\* While the source owns the range, only its clients change it.
LEMMA OwnedStep ==
    ASSUME ControlInv, TypeInv, TypeInv', [Next]_vars, ControlInv', ~serving, ~serving'
    PROVE  [Range!Next]_<<SeenRows, SeenOps, SeenOpen>>
<1>0. Touches /\ srcOps \in Seq(Muts) /\ StateOK /\ StateOK'
  BY StepTouches DEF TypeInv, ObjectTypes, SrcTypeOK, ControlInv
<1>1. CASE UNCHANGED <<srcVars, dstVars, catVars>>
  BY <1>1 DEF srcVars, dstVars, SeenRows, SeenOps, SeenOpen, SourceAdmits, DestAdmits
<1>2. CASE \E r \in Requests : SentOK(r.rpc) /\ Accepts(r) /\ Serves(r)
  <2>1. PICK r \in Requests : SentOK(r.rpc) /\ Accepts(r) /\ Serves(r)
    BY <1>2
  <2>2. UNCHANGED <<srcRows, srcOps>>
    <3>1. CASE SourceServes(r)
      <4>1. SourceAccepts(r) /\ src # "draining"
        BY <1>0, <2>1, <3>1 DEF Accepts, SourceServes, SourceReads, DestAccepts, CatalogAccepts,
           StateOK
      <4> QED
        BY <3>1, <4>1 DEF SourceServes, SourceAccepts, SourceReads, srcVars, srcCopy,
           BeginReshardSource, AckTail, AckSplitOpLog, SeedSplitOpLogPage, PrepareRoutingFence,
           ActivateRoutingFence, CompleteRoutingFenceCleanup, CancelRoutingFenceBeforeCutover,
           StopReshardCapture, DropMigratedRangeOk, FinishReshardSource, AbortReshardSource,
           ClearCapture
    <3> QED
      BY <2>1, <3>1 DEF Serves, srcVars
  <2>3. Effect(r.rpc)
    BY <2>1, ServedEffect
  <2>4. \/ SourceAdmits' = SourceAdmits
        \/ SourceAdmits /\ ~SourceAdmits'
    BY <1>0, <2>1, <2>3 DEF Effect, SentOK, StateOK, SourceAdmits, Passed, Undone, CAUGHT_UP,
       DUAL_WRITE, CUT_OVER, DRAINED, ABORTING, ABORTED
  <2> QED
    BY <2>2, <2>4 DEF SeenRows, SeenOps, SeenOpen, DestAdmits, Range!Next, Range!Fence
<1>3. CASE \E m \in Muts : SourceMutate(m) /\ UNCHANGED <<dstVars, catVars>>
  <2>1. PICK m \in Muts : SourceMutate(m)
    BY <1>3
  <2>2. Outcomes(Append(srcOps, m)) = Outcomes(srcOps) \cup {m}
    BY <1>0, MoreOutcomes
  <2>3. SourceAdmits /\ SourceAdmits' /\ m \notin Outcomes(srcOps)
        /\ srcRows' = Write(srcRows, m) /\ srcOps' = Append(srcOps, m)
    BY <2>1 DEF SourceMutate, SourceAdmits, Ran, Outcomes
  <2>4. Range!Execute(m)
    BY <2>2, <2>3 DEF Range!Execute, Range!Write, Range!Image, Write, Image, Outcomes, DestAdmits
  <2> QED
    BY <2>4 DEF Range!Next
<1>4. CASE \E m \in Muts : DestMutate(m)
  BY <1>4 DEF DestMutate, DestAdmits
<1> QED
  BY <1>0, <1>1, <1>2, <1>3, <1>4 DEF Touches

\* The destination begins to serve with the rows and outcomes of the source.
LEMMA HandOverStep ==
    ASSUME CopyInv, [Next]_vars, ~serving, serving'
    PROVE  [Range!Next]_<<SeenRows, SeenOps, SeenOpen>>
<1>1. /\ Fenced /\ UNCHANGED <<fence, srcOps, dstRows, dstOps>>
      /\ dstRows = srcRows /\ dstOps = Outcomes(srcOps)
  BY StepTouches, ServingStarts DEF CopyInv, DataInv
<1>2. Range!Reopen
  BY <1>1 DEF Range!Reopen, SourceAdmits, DestAdmits, Fenced, Outcomes
<1> QED
  BY <1>2 DEF Range!Next

\* Once it serves, only its clients change the range.
LEMMA ServedStep ==
    ASSUME CopyInv, [Next]_vars, serving
    PROVE  [Range!Next]_<<SeenRows, SeenOps, SeenOpen>>
<1>1. serving' /\ (UNCHANGED <<dstRows, dstOps>> \/ \E m \in Muts : DestMutate(m))
  BY StepTouches, ServingStep DEF CopyInv, DataInv
<1>2. CASE UNCHANGED <<dstRows, dstOps>>
  BY <1>1, <1>2 DEF SeenRows, SeenOps, SeenOpen, DestAdmits
<1>3. CASE \E m \in Muts : DestMutate(m)
  <2>1. PICK m \in Muts : DestMutate(m)
    BY <1>3
  <2>2. Range!Execute(m)
    BY <1>1, <2>1 DEF DestMutate, DestAdmits, Range!Execute, Range!Write, Range!Image, Write, Image
  <2> QED
    BY <2>2 DEF Range!Next
<1> QED
  BY <1>1, <1>2, <1>3

\* The movement is invisible (RangePreserved): as the clients of the range see
\* it, through whichever Cdb serves it, it is one store in which every mutation
\* runs at most once and none is lost, whatever calls of the movement fail,
\* repeat or arrive late.
THEOREM RangeIsPreserved == Spec => RangePreserved
<1>1. Init => Range!Init
  BY DEF Init, SrcInit, DstInit, Range!Init, Range!NoRows, Range!Keys, NoRows, Keys, SourceAdmits,
     DestAdmits
<1>2. CopyInv /\ CopyInv' /\ [Next]_vars => [Range!Next]_<<SeenRows, SeenOps, SeenOpen>>
  <2> SUFFICES ASSUME CopyInv, CopyInv', [Next]_vars
               PROVE  [Range!Next]_<<SeenRows, SeenOps, SeenOpen>>
    OBVIOUS
  <2>1. CASE serving
    BY <2>1, ServedStep
  <2>2. CASE ~serving /\ serving'
    BY <2>2, HandOverStep
  <2>3. CASE ~serving /\ ~serving'
    BY <2>3, OwnedStep DEF CopyInv
  <2> QED
    BY <2>1, <2>2, <2>3
<1>3. QED
  BY <1>1, <1>2, CopyInvariant, PTL
     DEF Spec, RangePreserved, Range!Spec, SeenRows, SeenOps, SeenOpen
=============================================================================
