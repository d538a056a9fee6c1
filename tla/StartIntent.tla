----------------------------- MODULE StartIntent -----------------------------
(***************************************************************************)
(* How the Resharder starts and cancels splits (resharder.ts startSplit,   *)
(* abort; resharder-start-intent-store.ts), up to the recorded migration.  *)
(*                                                                         *)
(* A start first writes an intent, then waits for the Catalog's lease, and *)
(* only then records the migration.  An abort may be called at any moment  *)
(* of that, by name only.  The Catalog grants one lease at a time, and an  *)
(* active one blocks every other split and every schema migration, so a    *)
(* lease whose split was given up must always find someone to release it.  *)
(***************************************************************************)
EXTENDS Integers, FiniteSets

CONSTANTS
    Migs,        \* migration ids; every start of one id asks for the same split
    MaxIntents,  \* VSHARD_COUNT records of migration_start_intent
    MaxFaults    \* bound on failed calls and restarts in a behaviour

ASSUME StartAssumption ==
    /\ IsFiniteSet(Migs)
    /\ MaxIntents \in Nat
    /\ MaxFaults \in Nat

VARIABLES
    intent,  \* migration_start_intent of each id
    phase,   \* migration_state of each id
    lease,   \* Catalog: status of the topology operation of each id
    start,   \* the RPC the active startSplit of each id waits for
    known,   \* its local "existing": ids whose migration it found recorded
    abt,     \* what the active abort of each id waits for
    late,    \* requests whose caller is gone and that may still execute
    faults

durVars  == <<intent, phase>>
procVars == <<start, known, abt>>
netVars  == <<late, faults>>
vars     == <<durVars, lease, procVars, netVars>>

\* "cancelled": abort_requested with the identity of the start; "blank":
\* abort_requested for an id that was never started.
Intents == {"none", "starting", "cancelled", "blank"}

\* "early": before the source-fence boundary; "fenced": from it on.
MigPhases == {"none", "early", "fenced", "drained", "aborting", "aborted"}
Leases    == {"absent", "active", "completed", "aborted"}
Requests  == [rpc : {"begin", "abort"}, mig : Migs]

Begin(m)   == [rpc |-> "begin", mig |-> m]
Release(m) == [rpc |-> "abort", mig |-> m]

TypeOK ==
    /\ intent \in [Migs -> Intents]
    /\ phase \in [Migs -> MigPhases]
    /\ lease \in [Migs -> Leases]
    /\ start \in [Migs -> {"idle", "begin", "release"}]
    /\ known \subseteq Migs
    /\ abt \in [Migs -> {"idle", "join", "read", "release"}]
    /\ late \subseteq Requests
    /\ faults \in 0..MaxFaults

Init ==
    /\ intent = [m \in Migs |-> "none"]
    /\ phase = [m \in Migs |-> "none"]
    /\ lease = [m \in Migs |-> "absent"]
    /\ start = [m \in Migs |-> "idle"]
    /\ known = {}
    /\ abt = [m \in Migs |-> "idle"]
    /\ late = {}
    /\ faults = 0

-----------------------------------------------------------------------------
(* The intent store.                                                       *)

\* assertCapacity
HasCapacity == Cardinality({m \in Migs : intent[m] # "none"}) < MaxIntents

\* Mutant: a cancellation forgets the identity of the start.
RequestAbortBlank(m) ==
    intent' = [intent EXCEPT ![m] = "blank"]

\* requestAbort keeps the identity of a start that wrote one.
RequestAbort(m) ==
    intent' = [intent EXCEPT ![m] =
                 CASE @ = "none" -> "blank" [] @ = "starting" -> "cancelled" [] OTHER -> @]

-----------------------------------------------------------------------------
(* The Catalog (see CatalogTopology).                                      *)

\* An existing operation is answered as it is; a new one needs the lease.
BeginTopologyOperationOk(m) ==
    lease[m] # "absent" \/ \A n \in Migs : lease[n] # "active"

BeginTopologyOperation(m) ==
    lease' = [lease EXCEPT ![m] = IF @ = "absent" THEN "active" ELSE @]

AbortTopologyOperationOk(m) == lease[m] \in {"active", "aborted"}

AbortTopologyOperation(m) == lease' = [lease EXCEPT ![m] = "aborted"]

-----------------------------------------------------------------------------
(* startSplit.                                                             *)

StartGoes(m, w) ==
    /\ start' = [start EXCEPT ![m] = w]
    /\ known' = known \ {m}
    /\ UNCHANGED <<abt, netVars>>

\* The intent is written before the Catalog is asked; a cancelled id never
\* starts again.
StartSplit(m) ==
    /\ start[m] = "idle" /\ abt[m] = "idle"
    /\ intent[m] = "starting" \/ (intent[m] = "none" /\ HasCapacity)
    /\ intent' = [intent EXCEPT ![m] = "starting"]
    /\ start' = [start EXCEPT ![m] = "begin"]
    /\ known' = IF phase[m] # "none" THEN known \cup {m} ELSE known
    /\ UNCHANGED <<phase, lease, abt, netVars>>

\* Mutant: the intent is not read again after the await; clearStarted deletes
\* a starting one.
StartGrantedUnchecked(m) ==
    /\ start[m] = "begin"
    /\ BeginTopologyOperationOk(m) /\ BeginTopologyOperation(m)
    /\ lease'[m] # "aborted" /\ (lease'[m] = "completed" => m \in known)
    /\ phase' = [phase EXCEPT ![m] = IF @ = "none" THEN "early" ELSE @]
    /\ intent' = [intent EXCEPT ![m] = IF @ = "starting" THEN "none" ELSE @]
    /\ StartGoes(m, "idle")

\* The lease is granted: the migration is recorded and the intent cleared in
\* one transaction, unless the start was cancelled during the await.
StartGranted(m) ==
    /\ start[m] = "begin"
    /\ BeginTopologyOperationOk(m) /\ BeginTopologyOperation(m)
    /\ lease'[m] # "aborted" /\ (lease'[m] = "completed" => m \in known)
    /\ IF intent[m] = "cancelled"
         THEN StartGoes(m, "release") /\ UNCHANGED durVars
         ELSE /\ phase' = [phase EXCEPT ![m] = IF @ = "none" THEN "early" ELSE @]
              /\ intent' = [intent EXCEPT ![m] = "none"]
              /\ StartGoes(m, "idle")

\* The operation was aborted: the id is cancelled for good.
StartOfAborted(m) ==
    /\ start[m] = "begin"
    /\ lease[m] = "aborted"
    /\ RequestAbort(m)
    /\ StartGoes(m, "idle")
    /\ UNCHANGED <<phase, lease>>

\* The Catalog refuses a new lease: another one is active, or the routing,
\* the schema or the history do not allow it.  The intent stays.
StartRefused(m) ==
    /\ start[m] = "begin"
    /\ lease[m] = "absent"
    /\ StartGoes(m, "idle")
    /\ UNCHANGED <<durVars, lease>>

\* A cancelled start gives its lease back.
StartReleases(m) ==
    /\ start[m] = "release"
    /\ AbortTopologyOperationOk(m) /\ AbortTopologyOperation(m)
    /\ StartGoes(m, "idle")
    /\ UNCHANGED durVars

-----------------------------------------------------------------------------
(* abort.                                                                  *)

AbortGoes(m, w) ==
    /\ abt' = [abt EXCEPT ![m] = w]
    /\ UNCHANGED <<start, known, netVars>>

\* No migration is recorded: the cancellation is made durable, then an active
\* start is waited for.  Without an identity there is nothing to release.
AbortPending(m) ==
    /\ abt[m] = "idle" /\ phase[m] = "none"
    /\ intent[m] # "none" \/ HasCapacity
    /\ RequestAbort(m)
    /\ AbortGoes(m, CASE start[m] # "idle" -> "join"
                      [] intent'[m] = "blank" -> "idle"
                      [] OTHER -> "read")
    /\ UNCHANGED <<phase, lease>>

\* The start it waited for has ended.  It saw the cancellation, so there is
\* still no migration.
AbortJoins(m) ==
    /\ abt[m] = "join" /\ start[m] = "idle"
    /\ AbortGoes(m, "read")
    /\ UNCHANGED <<durVars, lease>>

\* abortPendingStart reads the operation.
AbortReads(m) ==
    /\ abt[m] = "read"
    /\ AbortGoes(m, IF lease[m] = "active" THEN "release" ELSE "idle")
    /\ UNCHANGED <<durVars, lease>>

AbortReleases(m) ==
    /\ abt[m] = "release"
    /\ AbortTopologyOperationOk(m) /\ AbortTopologyOperation(m)
    /\ AbortGoes(m, "idle")
    /\ UNCHANGED durVars

-----------------------------------------------------------------------------
(* The recorded migration, as far as its lease is concerned (the module    *)
(* Resharder has its steps).                                               *)

Moves(m, from, to) ==
    /\ phase[m] = from
    /\ phase' = [phase EXCEPT ![m] = to]
    /\ UNCHANGED <<intent, lease, procVars, netVars>>

FenceBoundary(m) == Moves(m, "early", "fenced")
AbortMovement(m) == abt[m] = "idle" /\ Moves(m, "early", "aborting")
Drained(m)       == lease[m] = "completed" /\ Moves(m, "fenced", "drained")
Aborted(m)       == lease[m] = "aborted" /\ Moves(m, "aborting", "aborted")

CompleteLease(m) ==
    /\ phase[m] = "fenced" /\ lease[m] = "active"
    /\ lease' = [lease EXCEPT ![m] = "completed"]
    /\ UNCHANGED <<durVars, procVars, netVars>>

\* Mutant: the lease is given up before the phase is switched.
UndoLeaseEarly(m) ==
    /\ phase[m] \in {"early", "aborting"} /\ AbortTopologyOperationOk(m)
    /\ AbortTopologyOperation(m)
    /\ UNCHANGED <<durVars, procVars, netVars>>

UndoLease(m) ==
    /\ phase[m] = "aborting" /\ AbortTopologyOperationOk(m)
    /\ AbortTopologyOperation(m)
    /\ UNCHANGED <<durVars, procVars, netVars>>

-----------------------------------------------------------------------------
(* Failures.                                                               *)

\* The requests that change the Catalog and are on their way for id m.
InFlight(m) ==
    (IF start[m] = "begin" THEN {Begin(m)} ELSE {}) \cup
    (IF "release" \in {start[m], abt[m]} THEN {Release(m)} ELSE {})

\* A call of start or abort fails at the caller; the request is lost or
\* still under way.
Fail(m) ==
    /\ faults < MaxFaults
    /\ faults' = faults + 1
    /\ \/ start[m] # "idle" /\ start' = [start EXCEPT ![m] = "idle"] /\ UNCHANGED abt
       \/ abt[m] \in {"read", "release"} /\ abt' = [abt EXCEPT ![m] = "idle"] /\ UNCHANGED start
    /\ known' = known \ {m}
    /\ late' \in {late, late \cup InFlight(m)}
    /\ UNCHANGED <<durVars, lease>>

\* The Resharder restarts.
Crash ==
    /\ faults < MaxFaults
    /\ \E m \in Migs : start[m] # "idle" \/ abt[m] # "idle"
    /\ faults' = faults + 1
    /\ \E sent \in SUBSET UNION {InFlight(m) : m \in Migs} : late' = late \cup sent
    /\ start' = [m \in Migs |-> "idle"]
    /\ abt' = [m \in Migs |-> "idle"]
    /\ known' = {}
    /\ UNCHANGED <<durVars, lease>>

\* A late request executes or is refused.
Deliver(r) ==
    /\ late' = late \ {r}
    /\ \/ r.rpc = "begin" /\ BeginTopologyOperationOk(r.mig) /\ BeginTopologyOperation(r.mig)
       \/ r.rpc = "abort" /\ AbortTopologyOperationOk(r.mig) /\ AbortTopologyOperation(r.mig)
       \/ r.rpc = "begin" /\ lease[r.mig] = "absent" /\ UNCHANGED lease
       \/ r.rpc = "abort" /\ ~AbortTopologyOperationOk(r.mig) /\ UNCHANGED lease
    /\ UNCHANGED <<durVars, procVars, faults>>

-----------------------------------------------------------------------------
StartStep(m) == StartGranted(m) \/ StartOfAborted(m) \/ StartRefused(m) \/ StartReleases(m)
AbortStep(m) == AbortJoins(m) \/ AbortReads(m) \/ AbortReleases(m)

MovementStep(m) ==
    \/ FenceBoundary(m) \/ AbortMovement(m) \/ Drained(m) \/ Aborted(m)
    \/ CompleteLease(m) \/ UndoLease(m)

Next ==
    \/ \E m \in Migs :
          \/ StartSplit(m) \/ StartStep(m)
          \/ AbortPending(m) \/ AbortStep(m)
          \/ MovementStep(m)
          \/ Fail(m)
    \/ Crash
    \/ \E r \in late : Deliver(r)

Spec == Init /\ [][Next]_vars

-----------------------------------------------------------------------------
(* Correctness.                                                            *)

\* No lease is orphaned: a lease that is active for an id without a recorded
\* migration has a durable intent with the identity that abortPendingStart
\* needs to release it, whatever was lost or arrives late.
LeaseHasOwner ==
    \A m \in Migs : lease[m] = "active" /\ phase[m] = "none" =>
        intent[m] \in {"starting", "cancelled"}

\* A cancelled id never moves data: a start that waited for the Catalog while
\* it was cancelled does not record its migration, now or after a restart.
CancelledNeverMoves ==
    \A m \in Migs : intent[m] \in {"cancelled", "blank"} =>
        phase[m] \in {"none", "aborting", "aborted"}

\* A recorded migration holds the lease that its phase needs: it is not
\* aborted under a movement that is not aborting.
MovementHasLease ==
    \A m \in Migs :
        /\ phase[m] \in {"early", "fenced"} => lease[m] \in {"active", "completed"}
        /\ phase[m] = "drained" => lease[m] = "completed"
        /\ phase[m] = "aborted" => lease[m] = "aborted"

-----------------------------------------------------------------------------
(* The inductive invariant behind these properties.                        *)

\* What an active start or abort may rely on when its RPC returns.
CallersOK(m) ==
    /\ start[m] = "begin" => intent[m] \in {"starting", "cancelled"}
    /\ start[m] = "release" => intent[m] = "cancelled"
    /\ abt[m] # "idle" => phase[m] = "none" /\ intent[m] = "cancelled"

\* What a late request may meet.
LateOK(m) ==
    /\ Begin(m) \in late => intent[m] \in {"starting", "cancelled"} \/ phase[m] # "none"
    /\ Release(m) \in late => intent[m] = "cancelled"

\* What a lease says about the migration and its intent.
LeaseOK(m) ==
    /\ lease[m] # "absent" /\ phase[m] = "none" => intent[m] \in {"starting", "cancelled"}
    /\ phase[m] # "none" => lease[m] # "absent"
    /\ lease[m] = "aborted" => phase[m] \in {"none", "aborting", "aborted"}
    /\ lease[m] = "aborted" /\ phase[m] = "none" => intent[m] = "cancelled"
    /\ lease[m] = "completed" => phase[m] \in {"fenced", "drained"}

Inv ==
    /\ TypeOK
    /\ \A m \in Migs : CallersOK(m) /\ LateOK(m) /\ LeaseOK(m)
    /\ CancelledNeverMoves
    /\ MovementHasLease

=============================================================================
