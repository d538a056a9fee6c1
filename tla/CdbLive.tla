------------------------------ MODULE CdbLive ------------------------------
(***************************************************************************)
(* The live-query side of the Cdbs (cdb-live-store.ts, the subscription    *)
(* RPCs of cdb.ts, cdb-auth-invalidation-store.ts) and what the Catalog    *)
(* says of one organization: its route and its authority.                  *)
(*                                                                         *)
(* One organization and one query of it.  The rows are the number of the   *)
(* last change; movement of the range preserves them (RangeStore), so one  *)
(* version stands for both Cdbs, while registrations, outboxes and change  *)
(* clocks belong to one Cdb each.                                          *)
(***************************************************************************)
EXTENDS Naturals, FiniteSets

CONSTANT
    Mixes       \* bounds: what may happen in a behaviour, one of several mixes

\* gens is the number of registration ids (one nobody remembers is used
\* again); rows and epochs bound the changes of data and authority; faults the
\* restarts, disconnects, failed calls and expired leases; the range moves or
\* not; a subscribe call may be slow and outlast the install recovery (30 s).
ASSUME LiveBounds ==
    /\ Mixes \subseteq [gens : Nat \ {0}, rows : Nat \ {0}, epochs : Nat, faults : Nat,
                        moves : BOOLEAN, slow : BOOLEAN]

\* The Cdb that has the range first, and the one it may move to.
Source == 1
Dest == 2
Shards == {Source, Dest}

VARIABLES
    mix,        \* the mix of this behaviour
    rows,       \* the version of the rows the query selects
    clock,      \* _chardb_change_clock of each Cdb
    sub,        \* state of each row of _chardb_live_subscriptions
    out,        \* change_seq of each row of _chardb_invalidation_outbox, 0 for none
    fenced,     \* the source's routing fence: "open", "closed" or "gone" after cutover
    epoch,      \* the Catalog's auth epoch of the organization
    granted,    \* the principal has authority
    authTo,     \* catalog_auth_invalidation_targets: the epoch each Cdb is to be told
    authCall,   \* the delivery under way to each Cdb, "sent" or "answered"
    authSeen    \* _chardb_auth_invalidation_epochs of each Cdb

catalogVars == <<epoch, granted, authTo, authCall>>
liveVars == <<rows, clock, sub, out, fenced, authSeen, catalogVars>>

NoCall == [at |-> "none", epoch |-> 0]

Gens == 1..mix.gens

LiveTypeOK ==
    /\ mix \in Mixes
    /\ rows \in 1..mix.rows
    /\ clock \in [Shards -> Nat]
    /\ sub \in [Shards -> [Gens -> {"absent", "active", "retired"}]]
    /\ out \in [Shards -> [Gens -> Nat]]
    /\ fenced \in {"open", "closed", "gone"}
    /\ epoch \in Nat
    /\ granted \in BOOLEAN
    /\ authTo \in [Shards -> Nat]
    /\ authCall \in [Shards -> [at : {"none", "sent", "answered"}, epoch : Nat]]
    /\ authSeen \in [Shards -> Nat]

LiveInit ==
    /\ mix \in Mixes
    /\ rows = 1
    /\ clock = [c \in Shards |-> 0]
    /\ sub = [c \in Shards |-> [g \in Gens |-> "absent"]]
    /\ out = [c \in Shards |-> [g \in Gens |-> 0]]
    /\ fenced = "open"
    /\ epoch = 0
    /\ granted = TRUE
    /\ authTo = [c \in Shards |-> 0]
    /\ authCall = [c \in Shards |-> NoCall]
    /\ authSeen = [c \in Shards |-> 0]

\* The shard the Catalog routes the organization to.
Route == IF fenced = "gone" THEN Dest ELSE Source

\* assertRoutingAdmission: an activated fence refuses the moved range.
Admits(c) == c = Dest \/ fenced = "open"

Active(c) == {g \in Gens : sub[c][g] = "active"}

EnqueuedAhead(c, regs) == [g \in Gens |-> IF g \in regs THEN clock[c] + 2 ELSE out[c][g]]

\* Every registration of regs owes its Gateway the next change_seq.
Enqueued(c, regs) == [g \in Gens |-> IF g \in regs THEN clock[c] + 1 ELSE out[c][g]]

Enqueue(c, regs) ==
    /\ clock' = [clock EXCEPT ![c] = @ + 1]
    /\ out' = [out EXCEPT ![c] = Enqueued(c, regs)]

EnqueueIfAny(c, regs) ==
    IF regs = {} THEN UNCHANGED <<clock, out>> ELSE Enqueue(c, regs)

-----------------------------------------------------------------------------
(* Changes of the data, of its place and of the authority over it.         *)

\* A mutation commits its writes, the clock and the outbox in one transaction.
Mutate ==
    /\ Admits(Route)
    /\ rows < mix.rows
    /\ rows' = rows + 1
    /\ Enqueue(Route, Active(Route))
    /\ UNCHANGED <<sub, fenced, authSeen, catalogVars>>

FenceQuietly ==
    /\ mix.moves
    /\ fenced = "open"
    /\ fenced' = "closed"
    /\ UNCHANGED <<rows, clock, sub, out, authSeen, catalogVars>>

\* The fence wakes every registration that the movement strands.
ActivateRoutingFence ==
    /\ mix.moves
    /\ fenced = "open"
    /\ fenced' = "closed"
    /\ EnqueueIfAny(Source, Active(Source))
    /\ UNCHANGED <<rows, sub, authSeen, catalogVars>>

CancelRoutingFence ==
    /\ fenced = "closed"
    /\ fenced' = "open"
    /\ UNCHANGED <<rows, clock, sub, out, authSeen, catalogVars>>

CutoverRoute ==
    /\ fenced = "closed"
    /\ fenced' = "gone"
    /\ UNCHANGED <<rows, clock, sub, out, authSeen, catalogVars>>

AuthTargetsDest == {{Dest}}

\* A tenant epoch goes to the routed shard, and to both ends of a movement
\* under way, whose lease begins before the fence and ends after the cutover.
AuthTargets ==
    CASE fenced = "closed" -> {Shards}
      [] fenced # "closed" /\ mix.moves -> {{Route}, Shards}
      [] OTHER -> {{Route}}

\* The authority is revoked, or changes and is still granted.
MutateAuth(still) ==
    /\ granted
    /\ epoch' = epoch + 1
    /\ granted' = still
    /\ \E targets \in AuthTargets :
          authTo' = [c \in Shards |-> IF c \in targets THEN epoch + 1 ELSE authTo[c]]
    /\ UNCHANGED <<rows, clock, sub, out, fenced, authSeen, authCall>>

\* deliverAuthInvalidations reads a target and calls its Cdb.
SendAuthInvalidation(c) ==
    /\ authTo[c] # 0
    /\ authCall[c] = NoCall
    /\ authCall' = [authCall EXCEPT ![c] = [at |-> "sent", epoch |-> authTo[c]]]
    /\ UNCHANGED <<rows, clock, sub, out, fenced, authSeen, epoch, granted, authTo>>

\* An epoch already seen is accepted again and changes nothing.
InvalidateAuthScope(c) ==
    /\ authCall[c].at = "sent"
    /\ authCall' = [authCall EXCEPT ![c].at = "answered"]
    /\ IF authSeen[c] >= authCall[c].epoch
       THEN UNCHANGED <<clock, out, authSeen>>
       ELSE /\ authSeen' = [authSeen EXCEPT ![c] = authCall[c].epoch]
            /\ EnqueueIfAny(c, Active(c))
    /\ UNCHANGED <<rows, sub, fenced, epoch, granted, authTo>>

CompleteAuthTargetAny(c) ==
    /\ authCall[c].at = "answered"
    /\ authTo' = [authTo EXCEPT ![c] = 0]
    /\ authCall' = [authCall EXCEPT ![c] = NoCall]
    /\ UNCHANGED <<rows, clock, sub, out, fenced, authSeen, epoch, granted>>

\* A target is dropped unless it was raised to a newer epoch meanwhile.
CompleteAuthTarget(c) ==
    /\ authCall[c].at = "answered"
    /\ authTo' = [authTo EXCEPT ![c] = IF @ = authCall[c].epoch THEN 0 ELSE @]
    /\ authCall' = [authCall EXCEPT ![c] = NoCall]
    /\ UNCHANGED <<rows, clock, sub, out, fenced, authSeen, epoch, granted>>

\* deferTarget: the call failed, before or after the Cdb ran it.
DeferAuthTarget(c) ==
    /\ authCall[c] # NoCall
    /\ authCall' = [authCall EXCEPT ![c] = NoCall]
    /\ UNCHANGED <<rows, clock, sub, out, fenced, authSeen, epoch, granted, authTo>>

\* An epoch for another scope forgets the ones without active registrations.
PruneInactiveScopes(c) ==
    /\ authSeen[c] # 0
    /\ Active(c) = {}
    /\ authSeen' = [authSeen EXCEPT ![c] = 0]
    /\ UNCHANGED <<rows, clock, sub, out, fenced, catalogVars>>

-----------------------------------------------------------------------------
(* Subscription RPCs.                                                      *)

\* What Cdb.subscribe answers: a registration that exists is confirmed, a
\* retired one is never revived, and a fenced range takes no new one.
SubscribeAnswer(c, g) ==
    CASE sub[c][g] = "absent" /\ ~Admits(c) -> "absent"
      [] sub[c][g] = "retired" \/ ~Admits(c) -> "throws"
      [] OTHER -> "ok"

Subscribe(c, g) ==
    sub' = IF SubscribeAnswer(c, g) = "ok" THEN [sub EXCEPT ![c][g] = "active"] ELSE sub

\* A tombstone keeps a delayed subscribe from registering again.
Unsubscribe(c, g) ==
    /\ sub' = [sub EXCEPT ![c][g] = "retired"]
    /\ out' = [out EXCEPT ![c][g] = 0]

\* An active registration is not finalized, an absent one is already.
FinalizeUnsubscribeOk(c, g) == sub[c][g] # "active"

FinalizeUnsubscribe(c, g) == sub' = [sub EXCEPT ![c][g] = "absent"]

\* What queryRegistered answers: the rows, CDB_STALE_EPOCH or CDB_INVARIANT.
QueryAnswer(c, g) ==
    CASE sub[c][g] # "active" -> "bad"
      [] ~Admits(c) -> "stale"
      [] OTHER -> "ok"

\* An answered invalidation is dropped unless a newer one replaced it.
Acknowledge(c, g, seq) ==
    out' = [out EXCEPT ![c][g] = IF @ = seq THEN 0 ELSE @]
=============================================================================
