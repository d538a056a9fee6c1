----------------------------- MODULE FileReshard -----------------------------
(***************************************************************************)
(* The file rows and organization tombstones of a range that moves.  Pages *)
(* are read while uploads, attachments and maintenance go on; every copied *)
(* row is recorded on the destination with the position of the captured    *)
(* log at which it was read, the log is replayed on top, both sides are    *)
(* compared, and ownership passes from the fenced source to the activated  *)
(* destination.                                                            *)
(*                                                                         *)
(* Key 0 is the tombstone of the organization, the other keys are files in *)
(* the order of their ids.  A row is its status and the number of the      *)
(* change that produced it (updated_at); a tombstone counts its unproven   *)
(* vector turns.  That the log is applied exactly once and in order is     *)
(* CdbDest's and RangeStore's; routing is the Resharder module's.          *)
(***************************************************************************)
EXTENDS Integers, Sequences, FiniteSets

CONSTANT Mixes  \* bounds and faults: see MCResources

\* What the theorems need of a mix: a page has room for a row, and the id of a file
\* that is gone is not reserved again.
MixesOK == \A m \in Mixes : m.files \in Nat /\ m.page \in Nat \ {0} /\ ~m.reuse

VARIABLES mix, s

vars == <<mix, s>>
On == mix.part = "file_reshard"

TOMB == 0
Files == 1..mix.files
Keys == {TOMB} \cup Files
None == [st |-> "none", at |-> 0]
Row(st, at) == [st |-> st, at |-> at]
NoLedger == -2                              \* no _chardb_split_file_applied row
ByTail == -1                                \* snapshot_through_lsn NULL: created by the replay
Sides == {"source", "dest"}
Other(side) == IF side = "source" THEN "dest" ELSE "source"
Unbound == [outcome |-> "none", maint |-> FALSE, attach |-> FALSE, fenced |-> FALSE]
Here(kind, after) == [kind |-> kind, after |-> after, done |-> FALSE]
Idle == [at |-> "idle"]

Init ==
  /\ mix \in Mixes
  /\ \E f \in [Files -> {None, Row("pending", 0), Row("attached", 0)}] :
       s = [rows |-> [side \in Sides |-> [k \in Keys |-> IF side = "source" /\ k # TOMB THEN f[k] ELSE None]],
            born |-> {k \in Files : f[k] # None}, log |-> <<>>, led |-> [k \in Keys |-> NoLedger],
            cur |-> [side \in Sides |-> Unbound], routed |-> "source", barrier |-> FALSE,
            phase |-> "init", copy |-> Here("tomb", -1), tail |-> 0, check |-> Here("file", 0),
            drain |-> Here("file", 0), abort |-> Here("file", 0),
            run |-> Idle, ops |-> 0, faults |-> 0, refused |-> FALSE, moved |-> [k \in Keys |-> None]]

-----------------------------------------------------------------------------
(* What happens to files meanwhile, on the side that owns the range.       *)

(* assertOwnership *)
OwnsBound(side) ==
  LET c == s.cur[side] IN
  \/ side = "source" /\ c.outcome \in {"none", "active", "aborted"}
  \/ side = "dest" /\ c.outcome \in {"active", "finished"} /\ c.maint
Owns(side) ==
  LET c == s.cur[side] IN
  \/ side = "source" /\ (c.outcome \in {"none", "aborted"} \/ (c.outcome = "active" /\ c.maint /\ ~c.fenced))
  \/ side = "dest" /\ c.outcome \in {"active", "finished"} /\ c.maint

(* The capture triggers log a change of the source while it is bound. *)
Captured == s.cur["source"].outcome = "active"
Change(side, k, row) ==
  LET at == s.ops + 1
      next == IF row = "none" THEN None ELSE Row(row, at) IN
  [s EXCEPT !.rows[side][k] = next, !.ops = at, !.born = @ \cup {k},
            !.log = IF side = "source" /\ Captured THEN Append(@, [k |-> k, before |-> s.rows[side][k], after |-> next]) ELSE @]
Works(side) == s.ops < mix.ops /\ Owns(side)

(* Requests: they also need the shard to admit the route. *)
Reserve(side, f) ==
  /\ Works(side) /\ s.routed = side /\ s.rows[side][TOMB] = None
  /\ s.rows[side][f].st \in {"none", "pending"} /\ (f \in s.born /\ s.rows[side][f] = None => mix.reuse)
  /\ s' = Change(side, f, "pending")
MarkReady(side, f) ==
  /\ Works(side) /\ s.routed = side /\ s.rows[side][TOMB] = None /\ s.rows[side][f].st = "pending"
  /\ s' = Change(side, f, "ready")
Attach(side, f) ==
  /\ Works(side) /\ s.routed = side /\ s.rows[side][TOMB] = None /\ s.rows[side][f].st = "ready"
  /\ s' = Change(side, f, "attached")
Release(side, f) ==
  /\ Works(side) /\ s.routed = side /\ s.rows[side][f].st = "attached"
  /\ s' = Change(side, f, "deleting")
(* Maintenance and the deletion outbox of the Catalog: ownership only. *)
Expire(side, f) ==
  /\ Works(side) /\ s.rows[side][f].st \in {"pending", "ready"}
  /\ s' = Change(side, f, "deleting")
Remove(side, f) ==
  /\ Works(side) /\ s.rows[side][f].st = "deleting"
  /\ s' = Change(side, f, "none")
Bury(side) ==
  /\ Works(side) /\ s.rows[side][TOMB] = None /\ (side = "source" => ~s.barrier)
  /\ s' = Change(side, TOMB, "dead")
UnprovenTurn(side) ==
  /\ Works(side) /\ s.rows[side][TOMB].st = "dead"
  /\ s' = Change(side, TOMB, "dead")

Activity(side) ==
  \/ \E f \in Files : \/ Reserve(side, f) \/ MarkReady(side, f) \/ Attach(side, f) \/ Release(side, f)
                      \/ Expire(side, f) \/ Remove(side, f)
  \/ Bury(side) \/ UnprovenTurn(side)

-----------------------------------------------------------------------------
(* The driver's turns.  A page is read in one call and applied in another; *)
(* the cursor is persisted after it, so that a crash repeats the page.     *)

Step1(at) == s.run.at = at
Refuse == [s EXCEPT !.refused = TRUE, !.run = Idle]

(* begin on both sides: the destination first. *)
Begin ==
  /\ s.phase = "init" /\ Step1("idle")
  /\ s' = IF s.cur["dest"].outcome = "none"
          THEN [s EXCEPT !.cur["dest"] = [Unbound EXCEPT !.outcome = "active"]]
          ELSE [s EXCEPT !.cur["source"] = [outcome |-> "active", maint |-> TRUE, attach |-> TRUE, fenced |-> FALSE],
                         !.phase = "copy"]

KindKeys(kind) == IF kind = "tomb" THEN {TOMB} ELSE Files
Present(side, c) == {k \in KindKeys(c.kind) : s.rows[side][k] # None /\ k > c.after}
(* One more row than the page is asked for to tell whether it is the last. *)
PageOf(set) == {k \in set : Cardinality({j \in set : j <= k}) <= mix.page}
LastOf(set, c) == IF set = {} THEN c.after ELSE CHOOSE k \in set : \A j \in set : j <= k

ReadPage ==
  LET set == Present("source", s.copy) IN
  /\ s.phase = "copy" /\ ~s.copy.done /\ Step1("idle")
  /\ s' = [s EXCEPT !.run = [at |-> "apply", rows |-> [k \in PageOf(set) |-> s.rows["source"][k]],
                             last |-> LastOf(PageOf(set), s.copy), done |-> PageOf(set) = set, through |-> Len(s.log)]]

(* applySnapshot and applyTombstones: one row of the page. *)
SnapshotOk(k, row, through) ==
  IF s.led[k] = NoLedger THEN s.rows["dest"][k] = None
  ELSE /\ s.led[k] # ByTail /\ through >= s.led[k] /\ s.rows["dest"][k] # None
       /\ s.rows["dest"][k] # row => through > s.led[k]
ApplyPage ==
  LET p == s.run IN
  /\ Step1("apply")
  /\ s' = IF \A k \in DOMAIN p.rows : SnapshotOk(k, p.rows[k], p.through)
          THEN [s EXCEPT !.rows["dest"] = [k \in Keys |-> IF k \in DOMAIN p.rows THEN p.rows[k] ELSE @[k]],
                         !.led = [k \in Keys |-> IF k \in DOMAIN p.rows THEN p.through ELSE @[k]],
                         !.run = [at |-> "persist", last |-> p.last, done |-> p.done]]
          ELSE Refuse

PersistCopy ==
  /\ Step1("persist")
  /\ s' = [s EXCEPT !.run = Idle,
                    !.copy = IF @.kind = "tomb" /\ s.run.done THEN Here("file", 0)
                             ELSE [@ EXCEPT !.after = s.run.last, !.done = s.run.done]]

CopyDone ==
  /\ s.phase = "copy" /\ s.copy.done /\ Step1("idle")
  /\ s' = [s EXCEPT !.phase = "replay"]

(* applyReshardSystemTailEntry: what the copy covered is skipped, a change *)
(* of a row nobody copied starts from its own pre-image.                   *)
CoversOffByOne(k, lsn) == s.led[k] + 1 >= lsn
Covers(k, lsn) == s.led[k] >= lsn
Transitions == {<<"pending", "pending">>, <<"pending", "ready">>, <<"pending", "deleting">>, <<"ready", "attached">>,
                <<"ready", "deleting">>, <<"attached", "deleting">>}
Op(e) == IF e.before = None THEN "ins" ELSE IF e.after = None THEN "del" ELSE "upd"
LedgerOf(k) == IF s.led[k] = NoLedger THEN ByTail ELSE s.led[k]
EntryOk(e, lsn) ==
  LET row == s.rows["dest"][e.k] led == s.led[e.k] IN
  IF Covers(e.k, lsn) THEN row # None
  ELSE IF Op(e) = "ins" THEN IF row = None THEN led = NoLedger ELSE led # NoLedger /\ row = e.after
  ELSE IF Op(e) = "del" THEN e.before.st = "deleting" /\ (row # None => led # NoLedger /\ row = e.before)
  ELSE IF e.k = TOMB THEN led # NoLedger /\ row = e.before
  ELSE /\ <<e.before.st, e.after.st>> \in Transitions
       /\ (row = None /\ led = NoLedger) \/ row \in {e.before, e.after}
Applied(e, lsn) ==
  IF Covers(e.k, lsn) THEN s
  ELSE [s EXCEPT !.rows["dest"][e.k] = e.after,
                 !.led[e.k] = IF Op(e) = "del" THEN @ ELSE LedgerOf(e.k)]
ReplayEntry ==
  /\ s.phase \in {"replay", "fenced"} /\ Step1("idle") /\ s.tail < Len(s.log)
  /\ s.phase = "fenced" => s.cur["source"].fenced
  /\ LET e == s.log[s.tail + 1] IN
     s' = IF EntryOk(e, s.tail + 1) THEN [Applied(e, s.tail + 1) EXCEPT !.tail = @ + 1] ELSE Refuse

Converged ==
  /\ s.phase = "replay" /\ Step1("idle") /\ s.tail = Len(s.log)
  /\ s' = [s EXCEPT !.phase = "fenced"]

(* TAIL_CAUGHT_UP: the deletion barrier of the Catalog, the routing fence, *)
(* then the file fence.                                                    *)
Fence ==
  /\ s.phase = "fenced" /\ Step1("idle") /\ ~s.cur["source"].fenced
  /\ s' = IF ~s.barrier THEN [s EXCEPT !.barrier = TRUE]
          ELSE IF s.routed = "source" THEN [s EXCEPT !.routed = "none"]
          ELSE [s EXCEPT !.cur["source"].fenced = TRUE, !.cur["source"].maint = FALSE, !.moved = s.rows["source"]]

NextKind(c, page, set) == IF page # {} /\ Cardinality(page) = mix.page THEN [c EXCEPT !.after = LastOf(page, c)]
                          ELSE IF c.kind = "file" THEN Here("tomb", -1) ELSE [c EXCEPT !.done = TRUE]
ValidateEarly == s.cur["source"].fenced
ValidateAt == s.cur["source"].fenced /\ s.tail = Len(s.log)
Validate ==
  /\ s.phase = "fenced" /\ Step1("idle") /\ ~s.check.done /\ ValidateAt
  /\ LET src == PageOf(Present("source", s.check)) dst == PageOf(Present("dest", s.check)) IN
     s' = IF src = dst /\ \A k \in src : s.rows["source"][k] = s.rows["dest"][k]
          THEN [s EXCEPT !.check = NextKind(@, src, src)] ELSE Refuse

Cutover ==
  /\ s.phase = "fenced" /\ Step1("idle") /\ s.check.done
  /\ s' = IF ~s.cur["dest"].attach THEN [s EXCEPT !.cur["dest"].attach = TRUE]
          ELSE IF s.routed = "none" THEN [s EXCEPT !.routed = "dest", !.barrier = FALSE]
          ELSE IF ~s.cur["dest"].maint THEN [s EXCEPT !.cur["dest"].maint = TRUE]
          ELSE [s EXCEPT !.phase = "open"]

(* DUAL_WRITE_OPEN: source attachments stop, then its rows are drained. *)
StopSource ==
  /\ s.phase = "open" /\ Step1("idle") /\ s.cur["source"].attach
  /\ s' = [s EXCEPT !.cur["source"].attach = FALSE]

Drain ==
  /\ s.phase = "open" /\ Step1("idle") /\ ~s.cur["source"].attach /\ ~s.drain.done
  /\ LET page == PageOf(Present("source", s.drain)) IN
     s' = [s EXCEPT !.rows["source"] = [k \in Keys |-> IF k \in page THEN None ELSE @[k]],
                    !.run = [at |-> "drained", next |-> NextKind(s.drain, page, page)]]
PersistDrain ==
  /\ Step1("drained")
  /\ s' = [s EXCEPT !.drain = s.run.next, !.run = Idle]
DrainDone ==
  /\ s.phase = "open" /\ Step1("idle") /\ s.drain.done
  /\ s' = [s EXCEPT !.phase = "cut"]

(* finish: the source needs its rows gone, the ledger goes page by page. *)
Ledgers == {k \in Keys : s.led[k] # NoLedger}
LedgerPage(set) == {k \in set : Cardinality({j \in set : (j # TOMB /\ k = TOMB) \/ (j <= k /\ (j = TOMB => k = TOMB))})
                                <= mix.page}
Forget(set) == [s EXCEPT !.led = [k \in Keys |-> IF k \in set THEN NoLedger ELSE @[k]]]
Finish ==
  /\ s.phase = "cut" /\ Step1("idle")
  /\ s' = IF s.cur["source"].outcome = "active"
          THEN IF s.rows["source"] = [k \in Keys |-> None] THEN [s EXCEPT !.cur["source"].outcome = "finished"] ELSE Refuse
          ELSE LET page == LedgerPage(Ledgers) IN
               IF Cardinality(page) = mix.page THEN Forget(page)
               ELSE [Forget(page) EXCEPT !.cur["dest"].outcome = "finished", !.phase = "done"]

(* Abort: the source first, then the destination's rows by their ledger. *)
StartAbort ==
  /\ mix.abort /\ s.phase \in {"init", "copy", "replay"} /\ Step1("idle")
  /\ s' = [s EXCEPT !.phase = "aborting"]
AbortSource ==
  /\ s.phase = "aborting" /\ Step1("idle") /\ s.cur["source"].outcome = "active"
  /\ s' = IF s.cur["source"].fenced THEN Refuse
          ELSE [s EXCEPT !.cur["source"] = [@ EXCEPT !.outcome = "aborted", !.maint = FALSE, !.attach = TRUE]]
AfterAbort(k, c) == IF c.kind = "file" THEN k = TOMB \/ k > c.after ELSE FALSE
AbortKeepsReplayed(page) == {k \in page : s.led[k] >= 0}
AbortRemoves(page) == page
AbortDest ==
  /\ s.phase = "aborting" /\ Step1("idle") /\ s.cur["source"].outcome \in {"none", "aborted"} /\ ~s.abort.done
  /\ s' = IF s.cur["dest"].outcome = "none" THEN [s EXCEPT !.abort.done = TRUE]
          ELSE LET page == LedgerPage({k \in Ledgers : AfterAbort(k, s.abort)}) IN
               [Forget(page) EXCEPT !.rows["dest"] = [k \in Keys |-> IF k \in AbortRemoves(page) THEN None ELSE @[k]],
                                    !.cur["dest"].outcome = "aborted", !.cur["dest"].maint = FALSE,
                                    !.run = [at |-> "aborted", page |-> page]]
NextAbort(c, page) ==
  IF Cardinality(page) < mix.page THEN [c EXCEPT !.done = TRUE]
  ELSE IF TOMB \in page THEN [c EXCEPT !.kind = "tomb"] ELSE [c EXCEPT !.after = LastOf(page, c)]
PersistAbort ==
  /\ Step1("aborted")
  /\ s' = [s EXCEPT !.run = Idle, !.abort = NextAbort(@, s.run.page)]
AbortDone ==
  /\ s.phase = "aborting" /\ Step1("idle") /\ s.abort.done
  /\ s' = [s EXCEPT !.phase = "aborted"]

(* The Resharder is evicted between a call and the persisted cursor. *)
Crash ==
  /\ s.faults < mix.faults /\ s.run.at # "idle"
  /\ s' = [s EXCEPT !.run = Idle, !.faults = @ + 1]

Drive ==
  \/ Begin \/ ReadPage \/ ApplyPage \/ PersistCopy \/ CopyDone \/ ReplayEntry \/ Converged \/ Fence \/ Validate \/ Cutover
  \/ StopSource \/ Drain \/ PersistDrain \/ DrainDone \/ Finish \/ AbortSource \/ AbortDest \/ PersistAbort \/ AbortDone

Step == (\E side \in Sides : Activity(side)) \/ Drive \/ StartAbort \/ Crash
Next == On /\ Step /\ UNCHANGED mix
Spec == Init /\ [][Next]_vars
(* The Resharder's alarm retries an unfinished movement for ever. *)
Fairness == WF_s(On /\ Drive)
FairSpec == Spec /\ Fairness

-----------------------------------------------------------------------------
TypeOK ==
  /\ mix \in Mixes /\ s.tail \in 0..Len(s.log) /\ s.routed \in Sides \cup {"none"}
  /\ \A side \in Sides, k \in Keys : s.rows[side][k].st \in {"none", "pending", "ready", "attached", "deleting", "dead"}
  /\ \A k \in Keys : s.led[k] \in -2..Len(s.log)

(* No page, replayed change, comparison or cleanup step of a movement is   *)
(* refused by the checks of the destination and the source: whatever the   *)
(* uploads and the maintenance do meanwhile, and however often a page is   *)
(* repeated after a crash.                                                 *)
NeverRefused == ~s.refused

(* No moment has two owners: the source's uploads, purges and expiries and *)
(* the destination's are never both admitted for the moving range.         *)
OneOwner == ~(Owns("source") /\ Owns("dest"))

(* When the destination takes over it holds exactly the rows the source    *)
(* had when it was fenced, and the source is only drained afterwards.      *)
TakeoverIsExact ==
  /\ (s.phase = "fenced" /\ s.routed = "dest" /\ ~s.cur["dest"].maint) => s.rows["dest"] = s.moved
  /\ (\E k \in Keys : s.cur["source"].fenced /\ s.rows["source"][k] # s.moved[k]) => s.cur["dest"].maint

(* After an abort nothing of the movement is left on the destination and   *)
(* the source works on.                                                    *)
AbortLeavesNothing ==
  s.phase = "aborted" => /\ Owns("source") /\ Ledgers = {}
                         /\ \A k \in Keys : s.rows["dest"][k] = None

(* Every movement ends. *)
MovementEnds == On ~> (On => s.phase \in {"done", "aborted"})

(* The moved files are those of the source and have one owner at every moment. *)
Safe == TypeOK /\ NeverRefused /\ OneOwner /\ TakeoverIsExact /\ AbortLeavesNothing
=============================================================================
