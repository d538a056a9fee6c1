--------------------------- MODULE RecoveryStores ---------------------------
(***************************************************************************)
(* The durable records of a point-in-time recovery, and what each          *)
(* transaction on them does:                                               *)
(*                                                                         *)
(*   - in every object (the Catalog and each Cdb), the restore fence of    *)
(*     do/recovery.ts and the admission row of do/recovery-admission.ts;   *)
(*     both are part of the storage that a restore rewinds;                *)
(*   - in the Resharder, the operations and the generation clock of        *)
(*     do/recovery-coordinator.ts, which no restore touches.               *)
(*                                                                         *)
(* XOk is the conjunction of the checks of transaction X, X its result.    *)
(***************************************************************************)
EXTENDS Naturals

NoOp    == 0   \* operation_id NULL
NoPoint == 0   \* no armed restore

-----------------------------------------------------------------------------
(* One object.  arm is the target of _chardb_recovery_restore, native its   *)
(* native_scheduled; gen, own and adm are the admission row; data and out   *)
(* stand for everything else that is stored.                                *)

FreshObject(data) ==
    [gen |-> 0, own |-> NoOp, adm |-> "open", arm |-> NoPoint, native |-> FALSE,
     data |-> data, out |-> FALSE]

\* RecoveryAdmissionStore.arm
AdmitArmOk(d, op, gen) ==
    /\ gen >= d.gen
    /\ gen = d.gen => d.own = op /\ d.adm # "released"
AdmitArm(d, op, gen) ==
    IF gen = d.gen THEN d ELSE [d EXCEPT !.gen = gen, !.own = op, !.adm = "blocked"]

\* DurableObjectRecovery.arm: closes the fence, schedules nothing
ArmOk(d, p, op, gen) == d.arm \in {NoPoint, p} /\ AdmitArmOk(d, op, gen)
Arm(d, p, op, gen) ==
    [AdmitArm(d, op, gen) EXCEPT !.arm = p, !.native = (d.arm = p /\ d.native)]

\* DurableObjectRecovery.commit
CommitOkReleased(d, p) == d.arm = p \/ d.adm = "released"   \* mutant: also once it serves
CommitOk(d, p)         == d.arm = p

\* RecoveryAdmissionStore.release
ReleaseOk(d, op, gen) == d.gen = gen /\ d.own = op /\ d.adm \in {"blocked", "released"}
Release(d)            == [d EXCEPT !.adm = "released"]

\* RecoveryAdmissionStore.reconcile, run by the constructor of every object
ReconcileOk(d, clock) ==
    /\ clock.gen >= d.gen
    /\ (clock.gen = d.gen /\ clock.act # NoOp) => d.own = clock.act
\* Mutant: a restarted object takes the new generation and opens.
ReconcileOpen(d, clock)    == [d EXCEPT !.gen = clock.gen, !.own = NoOp, !.adm = "open"]

Reconcile(d, clock) ==
    CASE clock.act = NoOp ->
             [d EXCEPT !.gen = clock.gen, !.own = NoOp, !.adm = "open"]
      [] clock.act # NoOp /\ clock.gen > d.gen ->
             [d EXCEPT !.gen = clock.gen, !.own = clock.act, !.adm = "blocked"]
      [] OTHER -> d

\* assertRecoveryAvailable; assertRecoveryAvailableFor(bookmark)
Available(d)       == d.arm = NoPoint
AvailableFor(d, p) == d.arm \in {NoPoint, p}

\* Mutant: the generation of a request is not compared.
AdmitsOldRequest(d, gen) == Available(d) /\ d.adm # "blocked"

\* RecoveryAdmissionStore.assertRequest behind assertRecoveryAvailable
AdmitsRequest(d, gen) == Available(d) /\ d.adm # "blocked" /\ d.gen = gen

\* blocksBackgroundWork behind abortForArmedRecoveryRestore
BackgroundRuns(d) == Available(d) /\ d.adm # "blocked"

-----------------------------------------------------------------------------
(* The coordinator.                                                        *)

Cursor(ph, idx) == [ph |-> ph, idx |-> idx]

\* claimPreparation, when no operation is active
Claimed(p, gen, objects) ==
    [ph |-> "preparing", p |-> p, gen |-> gen, cur |-> Cursor("arm", 1),
     ci |-> 1, ri |-> 1, com |-> [o \in objects |-> "none"]]
NewOp(objects) == [Claimed(NoPoint, 0, objects) EXCEPT !.ph = "new"]

\* savePreparation and saveReconcile leave another phase alone
SavePreparation(r, cur) == IF r.ph = "preparing" THEN [r EXCEPT !.cur = cur] ELSE r
SaveReconcile(r, cur)   == IF r.ph = "reconciling" THEN [r EXCEPT !.cur = cur] ELSE r

BeginCommits(r) == IF r.ph = "preparing" THEN [r EXCEPT !.ph = "committing"] ELSE r

\* beginObject, finishObject
BeginObject(r, o)  == IF r.com[o] = "none" THEN [r EXCEPT !.com[o] = "intent"] ELSE r
FinishObject(r, o) == [r EXCEPT !.com[o] = "scheduled"]

\* advanceShard, finishShards; indexes count from 1, so shard i is object i
AdvanceShardOk(r, i) == r.ph = "committing" => r.ci = i /\ r.com[i] = "scheduled"
AdvanceShard(r)      == IF r.ph = "committing" THEN [r EXCEPT !.ci = @ + 1] ELSE r
FinishShardsOk(r, n) == r.ph = "committing" => r.ci = n + 1
FinishShards(r) ==
    IF r.ph = "committing"
    THEN [r EXCEPT !.ph = "reconciling", !.cur = Cursor("rehydrate", 1)]
    ELSE r

\* beginReleases, advanceRelease, beginCatalog
BeginReleasesOk(r) == r.ph \in {"reconciling", "releasing"}
BeginReleases(r)   == [r EXCEPT !.ph = "releasing"]
AdvanceReleaseOkAny(r, i) == TRUE   \* mutant: any turn moves the cursor
AdvanceReleaseOk(r, i) == r.ph = "releasing" => r.ri = i
AdvanceRelease(r)      == IF r.ph = "releasing" THEN [r EXCEPT !.ri = @ + 1] ELSE r
BeginCatalogOk(r, n)   == r.ph = "releasing" => r.ri = n + 1
BeginCatalog(r)        == IF r.ph = "releasing" THEN [r EXCEPT !.ph = "catalog"] ELSE r
=============================================================================
