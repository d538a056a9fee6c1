----------------------------- MODULE OrgDeletion -----------------------------
(***************************************************************************)
(* The deletion of an organization: the Catalog retires the identity and   *)
(* records a handoff to the shard that owns the organization, delivers it  *)
(* from its alarm until the shard has fenced the organization for ever,    *)
(* and a movement of the range takes that fence along.  The movement waits *)
(* for older deletions and holds back new ones with a barrier.             *)
(*                                                                         *)
(* Movement n goes from shard n to the fresh shard n + 1.  The last        *)
(* organization is outside the moving range and stays on shard 1.  How     *)
(* tombstones are copied and replayed is FileReshard's; whether a due      *)
(* handoff is late is nondeterministic (1 s to 60 s of back-off).          *)
(***************************************************************************)
EXTENDS Naturals, Sequences, FiniteSets

CONSTANT Mixes  \* bounds and faults: see MCResources

VARIABLES mix, s

vars == <<mix, s>>
On == mix.part = "org_deletion"

Orgs == 1..mix.orgs
InRange(o) == o < mix.orgs
Moving == {o \in Orgs : InRange(o)}
Shards == 1..(mix.moves + 1)
Idle == [at |-> "idle"]
Unbarred == [at |-> "none"]

Init ==
  /\ mix \in Mixes
  /\ s = [auth |-> [o \in Orgs |-> "live"], del |-> [o \in Orgs |-> "none"], order |-> <<>>,
          hand |-> [o \in Orgs |-> [h \in Shards |-> "none"]], legacy |-> mix.legacy,
          route |-> 1, owner |-> 1, tomb |-> [h \in Shards |-> {}], data |-> [h \in Shards |-> {}],
          phase |-> "none", moves |-> 0, barrier |-> Unbarred, captured |-> FALSE,
          turn |-> Idle, req |-> Idle, ask |-> Idle, broken |-> FALSE, faults |-> 0, late |-> {}]

From == s.moves
To == s.moves + 1
Fault == s.faults < mix.faults
RouteOf(o) == IF InRange(o) THEN s.route ELSE 1
Owns(h, o) == IF InRange(o) THEN s.owner = h ELSE h = 1         \* assertFileOwnership

-----------------------------------------------------------------------------
(* Catalog: one transaction deletes the rows of the organization, records  *)
(* the deletion and its handoff to the current owner.                      *)

Range(seq) == {seq[i] : i \in 1..Len(seq)}
Fenced(o) == s.barrier.at = "active" /\ InRange(o)
AllowedAlways(o) == TRUE
DeletionAllowed(o) == ~Fenced(o)
Recorded(o, shards) ==
  [s EXCEPT !.auth[o] = "gone", !.del[o] = "pending", !.order = Append(@, o),
            !.hand[o] = [h \in Shards |-> IF h \in shards THEN "pending" ELSE @[h]]]

(* A deletion written by the earlier outbox has no handoff row yet. *)
DeleteOrganization(o) ==
  /\ s.auth[o] = "live" /\ DeletionAllowed(o)
  /\ \/ s' = Recorded(o, {RouteOf(o)})
     \/ s.legacy /\ s' = [Recorded(o, {}) EXCEPT !.legacy = FALSE]

(* The alarm: handoffs of legacy deletions are recorded, the due ones are  *)
(* sent in parallel and their answers applied in one transaction.          *)
Handoffs(o) == {h \in Shards : s.hand[o][h] # "none"}
DueNever(o) == FALSE
Due(o) == s.del[o] = "pending" /\ Handoffs(o) = {}
Sendable == {p \in Orgs \X Shards : s.del[p[1]] = "pending" /\ s.hand[p[1]][p[2]] = "pending"}

RecordShards(o) ==
  /\ s.turn.at = "idle" /\ Due(o)
  /\ s' = [s EXCEPT !.hand[o][RouteOf(o)] = "pending"]

StartTurn ==
  /\ s.turn.at = "idle"
  /\ \E todo \in (SUBSET Sendable) \ {{}} :
       s' = [s EXCEPT !.turn = [at |-> "sending", todo |-> todo, ok |-> {}, all |-> todo]]

(* deleteOrganizationFiles: the permanent fence of the shard. *)
Deliver(p) ==
  /\ s.turn.at = "sending" /\ p \in s.turn.todo
  /\ s' = IF Owns(p[2], p[1])
          THEN [s EXCEPT !.tomb[p[2]] = @ \cup {p[1]}, !.turn.todo = @ \ {p}, !.turn.ok = @ \cup {p}]
          ELSE [s EXCEPT !.turn.todo = @ \ {p}]

AnswerLost(p) ==
  /\ s.turn.at = "sending" /\ p \in s.turn.todo /\ Fault
  /\ s' = [s EXCEPT !.tomb[p[2]] = IF Owns(p[2], p[1]) THEN @ \cup {p[1]} ELSE @,
                    !.turn.todo = @ \ {p}, !.faults = @ + 1]

AnsweredAny == s.turn.all
Answered == s.turn.ok
(* completeShard completes the deletion with its last handoff. *)
FinishTurn ==
  /\ s.turn.at = "sending" /\ s.turn.todo = {}
  /\ LET hand == [o \in Orgs |-> [h \in Shards |-> IF <<o, h>> \in Answered THEN "complete" ELSE s.hand[o][h]]] IN
     s' = [s EXCEPT !.hand = hand, !.turn = Idle,
                    !.del = [o \in Orgs |-> IF (\E h \in Shards : <<o, h>> \in Answered)
                                               /\ (\A h \in Shards : hand[o][h] # "pending")
                                            THEN "complete" ELSE @[o]]]

CatalogCrash ==
  /\ s.turn.at = "sending" /\ Fault
  /\ s' = [s EXCEPT !.turn = Idle, !.faults = @ + 1]

-----------------------------------------------------------------------------
(* A request of a member: authority and route from one Catalog turn, then  *)
(* the shard, which knows nothing of the Catalog's rows.                   *)

Authorize(o) ==
  /\ mix.client = "writer" /\ s.req.at = "idle" /\ s.auth[o] = "live"
  /\ s' = [s EXCEPT !.req = [at |-> "write", o |-> o, h |-> RouteOf(o)]]

BlindAdmits(h, o) == Owns(h, o)
Admits(h, o) == Owns(h, o) /\ o \notin s.tomb[h]
Write ==
  /\ s.req.at = "write"
  /\ LET o == s.req.o h == s.req.h IN
     s' = IF Admits(h, o)
          THEN [s EXCEPT !.req = Idle, !.data[h] = @ \cup {o},
                         !.late = IF s.del[o] = "complete" THEN @ \cup {o} ELSE @]
          ELSE [s EXCEPT !.req = Idle]

Purge(h, o) ==
  /\ o \in s.tomb[h] /\ o \in s.data[h] /\ Owns(h, o)
  /\ s' = [s EXCEPT !.data[h] = @ \ {o}]

-----------------------------------------------------------------------------
(* The operator's status: the state of the deletion, then the route, the   *)
(* answer of the shard it names and the route again, with one retry.       *)

Ask(o) ==
  /\ mix.client = "operator" /\ s.ask.at = "idle" /\ s.del[o] # "none"
  /\ s' = [s EXCEPT !.ask = [at |-> "read", o |-> o, done |-> s.del[o] = "complete",
                             shard |-> RouteOf(o), retried |-> FALSE]]

(* vectorOrganizationPurgeStatus: the shard refuses what it does not own. *)
ReadStatus ==
  /\ s.ask.at = "read"
  /\ LET h == s.ask.shard o == s.ask.o IN
     s' = [s EXCEPT !.ask = [at |-> "compare", o |-> o, done |-> @.done, shard |-> h, retried |-> @.retried,
                             found |-> IF ~Owns(h, o) THEN "refused" ELSE IF o \in s.tomb[h] THEN "yes" ELSE "no"]]

SameRoute == RouteOf(s.ask.o) = s.ask.shard
AskAgain == [at |-> "read", o |-> s.ask.o, done |-> s.ask.done, shard |-> RouteOf(s.ask.o), retried |-> TRUE]
(* A complete deletion without its fence is reported as CDB_INVARIANT. *)
Report ==
  /\ s.ask.at = "compare"
  /\ s' = IF SameRoute
          THEN [s EXCEPT !.ask = Idle, !.broken = @ \/ (s.ask.done /\ s.ask.found = "no")]
          ELSE [s EXCEPT !.ask = IF s.ask.retried THEN Idle ELSE AskAgain]

-----------------------------------------------------------------------------
(* A movement of the range, as far as it concerns deletions. *)

BeginMovement ==
  /\ s.phase = "none" /\ s.moves < mix.moves
  /\ s' = [s EXCEPT !.phase = "copy", !.moves = @ + 1]

(* Copy and replay: what the source knows arrives on the destination. *)
Replay ==
  /\ s.phase \in {"copy", "fenced"}
  /\ s' = [s EXCEPT !.tomb[To] = s.tomb[From] \cap Moving, !.data[To] = s.data[From] \cap Moving,
                    !.phase = IF s.phase = "copy" THEN "caught_up" ELSE "converged"]

BeginBarrier ==
  /\ s.phase = "caught_up" /\ s.barrier.at = "none"
  /\ s' = [s EXCEPT !.barrier = [at |-> "active", watermark |-> Len(s.order)]]

Older == {o \in Moving : \E i \in 1..s.barrier.watermark : s.order[i] = o}
OlderPending == \E o \in Older : s.del[o] = "pending"
Fence ==
  /\ s.phase = "caught_up" /\ s.barrier.at = "active" /\ ~OlderPending
  /\ s' = [s EXCEPT !.phase = "fenced", !.owner = 0]

Cutover ==
  /\ s.phase = "converged" /\ ~OlderPending
  /\ s' = [s EXCEPT !.phase = "cut_over", !.route = To, !.barrier = Unbarred]

Activate ==
  /\ s.phase = "cut_over"
  /\ s' = [s EXCEPT !.phase = "draining", !.owner = To]

Drain ==
  /\ s.phase = "draining"
  /\ s' = [s EXCEPT !.phase = "none", !.tomb[From] = @ \ Moving, !.data[From] = @ \ Moving]

Abort ==
  /\ s.phase \in {"copy", "caught_up"} /\ s.barrier.at = "none" /\ Fault
  /\ s' = [s EXCEPT !.phase = "aborted", !.tomb[To] = {}, !.data[To] = {}, !.faults = @ + 1]

Drive == Replay \/ BeginBarrier \/ Fence \/ Cutover \/ Activate \/ Drain
Alarm == (\E o \in Orgs : RecordShards(o)) \/ FinishTurn \/ (\E p \in Orgs \X Shards : Deliver(p))

Step ==
  \/ \E o \in Orgs : DeleteOrganization(o) \/ Authorize(o) \/ Ask(o) \/ (\E h \in Shards : Purge(h, o))
  \/ Alarm \/ StartTurn \/ (\E p \in Orgs \X Shards : AnswerLost(p)) \/ CatalogCrash \/ Write
  \/ ReadStatus \/ Report
  \/ BeginMovement \/ Drive \/ Abort

Next == On /\ Step /\ UNCHANGED mix
Spec == Init /\ [][Next]_vars
(* The Catalog's alarm retries every pending handoff, the Resharder's its  *)
(* movement; a handoff that stays due is not left out of every turn.       *)
Fairness ==
  /\ WF_s(On /\ Alarm) /\ WF_s(On /\ Drive)
  /\ \A o \in 1..2 : SF_s(On /\ StartTurn /\ \E h \in Shards : <<o, h>> \in s'.turn.all)
FairSpec == Spec /\ Fairness

-----------------------------------------------------------------------------
TypeOK ==
  /\ mix \in Mixes /\ s.del \in [Orgs -> {"none", "pending", "complete"}]
  /\ s.route \in Shards /\ s.owner \in {0} \cup Shards
  /\ \A h \in Shards : s.tomb[h] \subseteq Orgs /\ s.data[h] \subseteq Orgs

(* A deletion that is reported complete has its fence on the shard the     *)
(* Catalog routes the organization to, also right after a cutover,         *)
(* and the operator's status never meets one without its fence.            *)
HandoffIsAtOwner ==
  /\ \A o \in Orgs : s.del[o] = "complete" => o \in s.tomb[RouteOf(o)]
  /\ ~s.broken

(* Once a deletion is complete no shard admits another write of the        *)
(* organization, however old the authority of the request is.              *)
NothingAfterHandoff == s.late = {}

(* Every deletion is handed off, also while ranges move under it. *)
DeletionEnds == \A o \in 1..2 : (On /\ o \in Orgs /\ s.del[o] = "pending") ~> (On /\ o \in Orgs => s.del[o] = "complete")

(* A movement that reached its barrier is not held up for ever by the      *)
(* deletions it waits for.                                                 *)
BarrierEnds == (On /\ s.barrier.at = "active") ~> (On => s.barrier.at = "none")

(* A deletion reaches every row of the organization, wherever its range is. *)
Safe == TypeOK /\ HandoffIsAtOwner /\ NothingAfterHandoff

DeletionSafe == On => Safe

(* What the bounds are made of. *)
MixesOK ==
  \A m \in Mixes : m.part = "org_deletion" =>
    m.orgs \in Nat \ {0} /\ m.moves \in Nat /\ m.faults \in Nat /\ m.legacy \in BOOLEAN

(* Whatever it takes on ends. *)
AllEnds == DeletionEnds /\ BarrierEnds
=============================================================================
