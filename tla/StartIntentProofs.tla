-------------------------- MODULE StartIntentProofs --------------------------
(***************************************************************************)
(* Starting and cancelling splits: the invariant of StartIntent holds for  *)
(* every set of migration ids, every limit and every number of faults.     *)
(***************************************************************************)
EXTENDS StartIntent, TLAPS

\* One id's part of the invariant.
OneOK(m) ==
    /\ CallersOK(m) /\ LateOK(m) /\ LeaseOK(m)
    /\ intent[m] \in {"cancelled", "blank"} => phase[m] \in {"none", "aborting", "aborted"}
    /\ phase[m] \in {"early", "fenced"} => lease[m] \in {"active", "completed"}
    /\ phase[m] = "drained" => lease[m] = "completed"
    /\ phase[m] = "aborted" => lease[m] = "aborted"

\* The invariant is a statement about each id on its own.
LEMMA InvById == Inv <=> TypeOK /\ \A m \in Migs : OneOK(m)
  BY DEF Inv, OneOK, CancelledNeverMoves, MovementHasLease

\* Requests of different kinds and ids differ.
LEMMA RequestsDiffer ==
    ASSUME NEW m, NEW n
    PROVE  /\ Begin(m) # Release(n)
           /\ Begin(m) = Begin(n) => m = n
           /\ Release(m) = Release(n) => m = n
  BY DEF Begin, Release

\* No migration is started, no lease is granted: the initial state is safe.
LEMMA InitInv == Init => Inv
  <1> SUFFICES ASSUME Init PROVE TypeOK /\ \A m \in Migs : OneOK(m)
    BY InvById
  <1>1. TypeOK
    BY StartAssumption DEF Init, TypeOK, Intents, MigPhases, Leases
  <1>2. \A m \in Migs : OneOK(m)
    BY DEF Init, OneOK, CallersOK, LateOK, LeaseOK
  <1> QED BY <1>1, <1>2

USE DEF Intents, MigPhases, Leases

\* Steps of startSplit keep the invariant: above all, the transaction after
\* the await records a migration only for an intent that is still starting.
LEMMA StartKeepsInv ==
    ASSUME Inv, NEW m \in Migs, StartSplit(m) \/ StartStep(m)
    PROVE  Inv'
  <1>0. TypeOK /\ \A n \in Migs : OneOK(n)
    BY InvById
  <1> SUFFICES TypeOK' /\ \A n \in Migs : OneOK(n)'
    BY DEF Inv, OneOK, CancelledNeverMoves, MovementHasLease
  <1>1. CASE StartSplit(m)
    <2>1. TypeOK'
      BY <1>0, <1>1 DEF TypeOK, StartSplit, netVars
    <2>2. ASSUME NEW n \in Migs PROVE OneOK(n)'
      BY <1>0, <1>1, <2>2 DEF TypeOK, StartSplit, netVars, OneOK, CallersOK, LateOK, LeaseOK
    <2> QED BY <2>1, <2>2
  <1>2. CASE StartGranted(m)
    <2>1. TypeOK'
      BY <1>0, <1>2 DEF TypeOK, StartGranted, StartGoes, BeginTopologyOperation, netVars, durVars
    <2>2. ASSUME NEW n \in Migs PROVE OneOK(n)'
      BY <1>0, <1>2, <2>2 DEF TypeOK, StartGranted, StartGoes, BeginTopologyOperation, netVars,
         durVars, OneOK, CallersOK, LateOK, LeaseOK
    <2> QED BY <2>1, <2>2
  <1>3. CASE StartOfAborted(m)
    <2>1. TypeOK'
      BY <1>0, <1>3 DEF TypeOK, StartOfAborted, RequestAbort, StartGoes, netVars
    <2>2. ASSUME NEW n \in Migs PROVE OneOK(n)'
      BY <1>0, <1>3, <2>2 DEF TypeOK, StartOfAborted, RequestAbort, StartGoes, netVars,
         OneOK, CallersOK, LateOK, LeaseOK
    <2> QED BY <2>1, <2>2
  <1>4. CASE StartRefused(m)
    <2>1. TypeOK'
      BY <1>0, <1>4 DEF TypeOK, StartRefused, StartGoes, netVars, durVars
    <2>2. ASSUME NEW n \in Migs PROVE OneOK(n)'
      BY <1>0, <1>4, <2>2 DEF TypeOK, StartRefused, StartGoes, netVars, durVars,
         OneOK, CallersOK, LateOK, LeaseOK
    <2> QED BY <2>1, <2>2
  <1>5. CASE StartReleases(m)
    <2>1. TypeOK'
      BY <1>0, <1>5 DEF TypeOK, StartReleases, AbortTopologyOperation, StartGoes, netVars, durVars
    <2>2. ASSUME NEW n \in Migs PROVE OneOK(n)'
      BY <1>0, <1>5, <2>2 DEF TypeOK, StartReleases, AbortTopologyOperation, StartGoes, netVars,
         durVars, OneOK, CallersOK, LateOK, LeaseOK
    <2> QED BY <2>1, <2>2
  <1> QED BY <1>1, <1>2, <1>3, <1>4, <1>5 DEF StartStep

\* Steps of abort keep the invariant: the cancellation keeps the identity of
\* every start whose lease exists or may still be granted.
LEMMA AbortKeepsInv ==
    ASSUME Inv, NEW m \in Migs, AbortPending(m) \/ AbortStep(m)
    PROVE  Inv'
  <1>0. TypeOK /\ \A n \in Migs : OneOK(n)
    BY InvById
  <1> SUFFICES TypeOK' /\ \A n \in Migs : OneOK(n)'
    BY DEF Inv, OneOK, CancelledNeverMoves, MovementHasLease
  <1>1. CASE AbortPending(m)
    <2>1. TypeOK'
      BY <1>0, <1>1 DEF TypeOK, AbortPending, RequestAbort, AbortGoes, netVars
    <2>2. ASSUME NEW n \in Migs PROVE OneOK(n)'
      BY <1>0, <1>1, <2>2 DEF TypeOK, AbortPending, RequestAbort, AbortGoes, netVars,
         OneOK, CallersOK, LateOK, LeaseOK
    <2> QED BY <2>1, <2>2
  <1>2. CASE AbortJoins(m) \/ AbortReads(m)
    <2>1. TypeOK'
      BY <1>0, <1>2 DEF TypeOK, AbortJoins, AbortReads, AbortGoes, netVars, durVars
    <2>2. ASSUME NEW n \in Migs PROVE OneOK(n)'
      BY <1>0, <1>2, <2>2 DEF TypeOK, AbortJoins, AbortReads, AbortGoes, netVars, durVars,
         OneOK, CallersOK, LateOK, LeaseOK
    <2> QED BY <2>1, <2>2
  <1>3. CASE AbortReleases(m)
    <2>1. TypeOK'
      BY <1>0, <1>3 DEF TypeOK, AbortReleases, AbortTopologyOperation, AbortGoes, netVars, durVars
    <2>2. ASSUME NEW n \in Migs PROVE OneOK(n)'
      BY <1>0, <1>3, <2>2 DEF TypeOK, AbortReleases, AbortTopologyOperation, AbortGoes, netVars,
         durVars, OneOK, CallersOK, LateOK, LeaseOK
    <2> QED BY <2>1, <2>2
  <1> QED BY <1>1, <1>2, <1>3 DEF AbortStep

\* Steps of the recorded migration keep the invariant.
LEMMA MovementKeepsInv ==
    ASSUME Inv, NEW m \in Migs, MovementStep(m)
    PROVE  Inv'
  <1>0. TypeOK /\ \A n \in Migs : OneOK(n)
    BY InvById
  <1> SUFFICES TypeOK' /\ \A n \in Migs : OneOK(n)'
    BY DEF Inv, OneOK, CancelledNeverMoves, MovementHasLease
  <1>1. TypeOK'
    BY <1>0 DEF TypeOK, MovementStep, FenceBoundary, AbortMovement, Drained, Aborted, Moves,
       CompleteLease, UndoLease, AbortTopologyOperation, netVars, procVars, durVars
  <1>2. ASSUME NEW n \in Migs PROVE OneOK(n)'
    <2> USE <1>0, <1>2 DEF TypeOK, OneOK, CallersOK, LateOK, LeaseOK, netVars, procVars
    <2>1. CASE FenceBoundary(m) BY <2>1 DEF FenceBoundary, Moves
    <2>2. CASE AbortMovement(m) BY <2>2 DEF AbortMovement, Moves
    <2>3. CASE Drained(m) BY <2>3 DEF Drained, Moves
    <2>4. CASE Aborted(m) BY <2>4 DEF Aborted, Moves
    <2>5. CASE CompleteLease(m) BY <2>5 DEF CompleteLease, durVars
    <2>6. CASE UndoLease(m) BY <2>6 DEF UndoLease, AbortTopologyOperation, durVars
    <2> QED BY <2>1, <2>2, <2>3, <2>4, <2>5, <2>6 DEF MovementStep
  <1> QED BY <1>1, <1>2

\* Lost calls and restarts keep the invariant: what they leave under way is
\* covered by the intent of its id.
LEMMA FaultKeepsInv ==
    ASSUME Inv, Crash \/ \E m \in Migs : Fail(m)
    PROVE  Inv'
  <1>0. TypeOK /\ \A n \in Migs : OneOK(n)
    BY InvById
  <1> SUFFICES TypeOK' /\ \A n \in Migs : OneOK(n)'
    BY DEF Inv, OneOK, CancelledNeverMoves, MovementHasLease
  <1>1. \A r \in late' : r \in late \/ \E m \in Migs : r \in InFlight(m)
    <2>1. CASE Crash BY <2>1 DEF Crash
    <2>2. CASE \E m \in Migs : Fail(m) BY <2>2 DEF Fail
    <2> QED BY <2>1, <2>2
  <1>2. UNCHANGED <<durVars, lease>>
    BY DEF Crash, Fail
  <1>3. /\ faults' \in 0..MaxFaults
        /\ start' \in [Migs -> {"idle", "begin", "release"}]
        /\ abt' \in [Migs -> {"idle", "join", "read", "release"}]
        /\ \A n \in Migs : start'[n] \in {start[n], "idle"} /\ abt'[n] \in {abt[n], "idle"}
        /\ known' \subseteq Migs
    BY <1>0, StartAssumption DEF Crash, Fail, TypeOK
  <1>4. TypeOK'
    BY <1>0, <1>1, <1>2, <1>3 DEF TypeOK, InFlight, Begin, Release, Requests, durVars
  <1>5. ASSUME NEW n \in Migs PROVE OneOK(n)'
    <2>1. Begin(n) \in late' => Begin(n) \in late \/ start[n] = "begin"
      BY <1>1, RequestsDiffer DEF InFlight
    <2>2. Release(n) \in late' => Release(n) \in late \/ start[n] = "release" \/ abt[n] = "release"
      BY <1>1, RequestsDiffer DEF InFlight
    <2>3. LateOK(n)'
      BY <1>0, <1>2, <1>5, <2>1, <2>2 DEF OneOK, CallersOK, LateOK, durVars, Begin, Release
    <2>4. CallersOK(n)' /\ LeaseOK(n)'
      BY <1>0, <1>2, <1>3, <1>5 DEF OneOK, CallersOK, LeaseOK, durVars
    <2> QED BY <1>0, <1>2, <1>5, <2>3, <2>4 DEF OneOK, durVars
  <1> QED BY <1>4, <1>5

\* A late request keeps the invariant, whenever it executes.
LEMMA DeliverKeepsInv ==
    ASSUME Inv, NEW r \in late, Deliver(r)
    PROVE  Inv'
  <1>0. TypeOK /\ \A n \in Migs : OneOK(n)
    BY InvById
  <1> SUFFICES TypeOK' /\ \A n \in Migs : OneOK(n)'
    BY DEF Inv, OneOK, CancelledNeverMoves, MovementHasLease
  <1>1. /\ r.mig \in Migs
        /\ r.rpc = "begin" => r = Begin(r.mig)
        /\ r.rpc = "abort" => r = Release(r.mig)
    BY <1>0 DEF TypeOK, Requests, Begin, Release
  <1>2. TypeOK'
    BY <1>0, <1>1 DEF TypeOK, Deliver, BeginTopologyOperation, AbortTopologyOperation,
       durVars, procVars
  <1>3. ASSUME NEW n \in Migs PROVE OneOK(n)'
    <2> USE <1>0, <1>1, <1>3 DEF TypeOK, Deliver, durVars, procVars, OneOK, CallersOK, LateOK, LeaseOK
    <2>1. Begin(n)' = Begin(n) /\ Release(n)' = Release(n)
      BY DEF Begin, Release
    <2>2. CASE r.rpc = "begin" /\ lease' = lease BY <2>1, <2>2
    <2>3. CASE r.rpc = "begin" /\ BeginTopologyOperation(r.mig)
      BY <2>1, <2>3 DEF BeginTopologyOperation
    <2>4. CASE r.rpc = "abort" /\ lease' = lease BY <2>1, <2>4
    <2>5. CASE r.rpc = "abort" /\ AbortTopologyOperationOk(r.mig) /\ AbortTopologyOperation(r.mig)
      BY <2>1, <2>5 DEF AbortTopologyOperation, AbortTopologyOperationOk
    <2> QED BY <2>2, <2>3, <2>4, <2>5
  <1> QED BY <1>2, <1>3

\* The invariant is inductive.
LEMMA NextKeepsInv == Inv /\ [Next]_vars => Inv'
  <1> SUFFICES ASSUME Inv, [Next]_vars PROVE Inv'
    OBVIOUS
  <1>1. CASE UNCHANGED vars
    BY <1>1 DEF Inv, TypeOK, CallersOK, LateOK, LeaseOK, CancelledNeverMoves, MovementHasLease,
       vars, durVars, procVars, netVars, Begin, Release
  <1>2. CASE Next
    BY <1>2, StartKeepsInv, AbortKeepsInv, MovementKeepsInv, FaultKeepsInv, DeliverKeepsInv
       DEF Next
  <1> QED BY <1>1, <1>2

\* The invariant of starts and cancellations, for any ids, limits and faults.
THEOREM StartInvariant == Spec => []Inv
  BY InitInv, NextKeepsInv, PTL DEF Spec

\* No lease is orphaned: whatever calls of startSplit and abort are lost or
\* late, an intent can release an active lease without a migration.
THEOREM LeasesHaveOwners == Spec => []LeaseHasOwner
  <1>1. Inv => LeaseHasOwner
    BY DEF Inv, LeaseOK, LeaseHasOwner
  <1> QED BY <1>1, StartInvariant, PTL

\* A cancelled id is never moved, although startSplit decides after an await.
THEOREM CancelledIdsNeverMove == Spec => []CancelledNeverMoves
  <1>1. Inv => CancelledNeverMoves
    BY DEF Inv
  <1> QED BY <1>1, StartInvariant, PTL

\* A recorded migration is never left without the lease its phase relies on.
THEOREM MovementsHaveLeases == Spec => []MovementHasLease
  <1>1. Inv => MovementHasLease
    BY DEF Inv
  <1> QED BY <1>1, StartInvariant, PTL

=============================================================================
