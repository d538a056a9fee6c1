----------------------- MODULE GatewayRegistrations -----------------------
(***************************************************************************)
(* The durable registrations of one Gateway for one logical subscription   *)
(* (gateway-registration-store.ts): the head, the generations and the      *)
(* staged snapshots.  Each operator is one transaction of the store.       *)
(***************************************************************************)
EXTENDS Naturals, CdbLive

VARIABLES
    head,   \* _gw_registration_heads: the current generation, 0 for none
    gen,    \* _gw_registration_generations
    snap,   \* _gw_snapshot_outbox: at most one staged snapshot a generation
    replay  \* _gw_snapshot_replay: a sent snapshot that a resumed client may hold

gwVars == <<head, gen, snap, replay>>

\* Tokens of leases and claims: only their owner and the row remember one.
Tokens == {1, 2}

NoGen == [life |-> "none", cdb |-> "none", conn |-> 0, shard |-> Source, auth |-> 0,
          dirty |-> 0, delivered |-> 0, initial |-> FALSE, token |-> 0, target |-> 0]

NoSnap == [rows |-> 0, target |-> 0, claim |-> 0]

\* A snapshot is known by its generation, its target and its rows.
NoCookie == [g |-> 0, target |-> 0, rows |-> 0]

\* The cookie of a session that has seen none.
BaseCookie == [NoCookie EXCEPT !.rows = 1]

Cookies == [g : 0..mix.gens, target : Nat, rows : 0..mix.rows]

NoReplay == [c |-> NoCookie, shard |-> Source, auth |-> 0]

GwTypeOK ==
    /\ head \in 0..mix.gens
    /\ gen \in [Gens -> [life : {"none", "installing", "active", "retiring"},
                         cdb : {"none", "pending", "active", "retiring"},
                         conn : Nat, shard : Shards, auth : Nat,
                         dirty : Nat, delivered : Nat, initial : BOOLEAN,
                         token : {0} \cup Tokens, target : Nat]]
    /\ snap \in [Gens -> [rows : 0..mix.rows, target : Nat, claim : {0} \cup Tokens]]
    /\ replay \in [c : Cookies, shard : Shards, auth : Nat]

GwInit ==
    /\ head = 0
    /\ gen = [g \in Gens |-> NoGen]
    /\ snap = [g \in Gens |-> NoSnap]
    /\ replay = NoReplay

Staged(g) == snap[g].rows # 0

\* The current generation, registered at its Cdb.
Serving(g) == head = g /\ gen[g].life = "active" /\ gen[g].cdb = "active"

\* A retired row keeps only what its cleanup needs.
Retired(r) == [NoGen EXCEPT !.life = "retiring", !.conn = r.conn, !.shard = r.shard,
                            !.cdb = IF r.cdb = "pending" THEN "pending" ELSE "retiring"]

\* retainCurrentGatewaySnapshotReplay: a claimed snapshot of the current
\* generation may have reached the client.
Retained ==
    IF head # 0 /\ Serving(head) /\ Staged(head) /\ snap[head].claim # 0
    THEN [c |-> [g |-> head, target |-> snap[head].target, rows |-> snap[head].rows],
          shard |-> gen[head].shard, auth |-> gen[head].auth]
    ELSE replay

-----------------------------------------------------------------------------
(* Installation.                                                           *)

Installing(conn, shard, auth) ==
    [NoGen EXCEPT !.life = "installing", !.cdb = "pending",
                  !.conn = conn, !.shard = shard, !.auth = auth]

\* installGatewayRegistration: the new generation takes the head, the one it
\* supersedes retires with its snapshot.
Install(g, conn, shard, auth) ==
    /\ head' = g
    /\ gen' = [h \in Gens |-> IF h = g THEN Installing(conn, shard, auth)
                              ELSE IF h = head THEN Retired(gen[h]) ELSE gen[h]]
    /\ snap' = [h \in Gens |-> IF h = head THEN NoSnap ELSE snap[h]]
    /\ replay' = Retained

CanActivateRetired(g) == head = g \/ gen[g].cdb = "retiring"

\* Only a generation that is still waiting for its Cdb is activated.
CanActivate(g) == head = g /\ gen[g].life = "installing" /\ gen[g].cdb = "pending"

\* The first snapshot is owed even if nothing changes.
Activate(g, seq) ==
    /\ gen' = [gen EXCEPT ![g].life = "active", ![g].cdb = "active", ![g].initial = TRUE,
                          ![g].dirty = IF seq > @ THEN seq ELSE @]
    /\ UNCHANGED <<head, snap, replay>>

\* deleteNeverRegisteredGatewaySubscription
DeleteNeverRegistered(g) ==
    IF gen[g].cdb = "pending"
    THEN /\ head' = IF head = g THEN 0 ELSE head
         /\ gen' = [gen EXCEPT ![g] = NoGen]
         /\ snap' = [snap EXCEPT ![g] = NoSnap]
         /\ UNCHANGED replay
    ELSE UNCHANGED gwVars

\* retireGatewayRegistration, with what becomes of the replay
RetireKeeping(g, r) ==
    /\ head' = 0
    /\ gen' = [gen EXCEPT ![g] = Retired(@)]
    /\ snap' = [snap EXCEPT ![g] = NoSnap]
    /\ replay' = r

Retire(g) == RetireKeeping(g, replay)

MarkAmbiguousPending(g) ==
    /\ head' = IF head = g THEN 0 ELSE head
    /\ gen' = [gen EXCEPT ![g] = Retired(@)]
    /\ snap' = [snap EXCEPT ![g] = NoSnap]
    /\ UNCHANGED replay

\* markPendingGatewaySubscriptionAmbiguous: whether the Cdb has registered is
\* unknown, so the cleanup assumes it has.
MarkAmbiguous(g) ==
    /\ head' = IF head = g THEN 0 ELSE head
    /\ gen' = [gen EXCEPT ![g] = [Retired(@) EXCEPT !.cdb = "retiring"]]
    /\ snap' = [snap EXCEPT ![g] = NoSnap]
    /\ UNCHANGED replay

SettleAmbiguousForget(g) ==
    CASE gen[g].cdb = "pending" -> DeleteNeverRegistered(g)
      [] gen[g].cdb # "pending" /\ head = g -> Retire(g)
      [] OTHER -> UNCHANGED gwVars

\* What an installation that did not end well leaves behind.
SettleAmbiguous(g) ==
    CASE gen[g].cdb = "pending" -> MarkAmbiguous(g)
      [] gen[g].cdb # "pending" /\ head = g -> Retire(g)
      [] OTHER -> UNCHANGED gwVars

\* cleanupGatewayRegistration
DeleteRetired(g) ==
    /\ gen' = [gen EXCEPT ![g] = NoGen]
    /\ UNCHANGED <<head, snap, replay>>

-----------------------------------------------------------------------------
(* Invalidations, query runs, snapshots.                                   *)

\* invalidateSubscriptions: accepted by the current generation, in whatever
\* state of its installation, and stale for any other.
Invalidate(g, seq) ==
    /\ gen' = IF head = g /\ gen[g].life # "retiring"
              THEN [gen EXCEPT ![g].dirty = IF seq > @ THEN seq ELSE @]
              ELSE gen
    /\ UNCHANGED <<head, snap, replay>>

\* A generation that owes its client a snapshot and has none staged.
Due(g) ==
    /\ Serving(g)
    /\ gen[g].initial \/ gen[g].dirty > gen[g].delivered
    /\ ~Staged(g)

OwnsRun(g, t) == Serving(g) /\ gen[g].token = t

\* claimDirtyGatewayRegistration: the run answers for the changes known now.
ClaimDirty(g, t) ==
    /\ gen' = [gen EXCEPT ![g].token = t, ![g].target = gen[g].dirty]
    /\ UNCHANGED <<head, snap, replay>>

\* failGatewayDirtyRun: the target stays owed.
FailRun(g, t) ==
    /\ gen' = IF OwnsRun(g, t)
              THEN [gen EXCEPT ![g].token = 0, ![g].target = 0] ELSE gen
    /\ UNCHANGED <<head, snap, replay>>

CanStageUnowned(g, t, target) == Serving(g) /\ ~Staged(g)

CanStage(g, t, target) == OwnsRun(g, t) /\ gen[g].target = target /\ ~Staged(g)

StageLatest(g, target, version, auth) ==
    /\ gen' = [gen EXCEPT ![g].token = 0, ![g].target = 0, ![g].auth = auth]
    /\ snap' = [snap EXCEPT ![g] = [rows |-> version, target |-> gen[g].dirty, claim |-> 0]]
    /\ UNCHANGED <<head, replay>>

\* stageGatewaySnapshot
Stage(g, target, version, auth) ==
    /\ gen' = [gen EXCEPT ![g].token = 0, ![g].target = 0, ![g].auth = auth]
    /\ snap' = [snap EXCEPT ![g] = [rows |-> version, target |-> target, claim |-> 0]]
    /\ UNCHANGED <<head, replay>>

OwnsSend(g, t) == Serving(g) /\ Staged(g) /\ snap[g].claim = t

\* claimDueGatewaySnapshot, failGatewaySnapshotSend
Claim(g, t) == snap' = [snap EXCEPT ![g].claim = t] /\ UNCHANGED <<head, gen, replay>>

FailSend(g, t) ==
    /\ snap' = IF Staged(g) /\ snap[g].claim = t
               THEN [snap EXCEPT ![g].claim = 0] ELSE snap
    /\ UNCHANGED <<head, gen, replay>>

\* discardClaimedGatewaySnapshot: the version stays owed.
Discard(g, t) ==
    /\ snap' = IF OwnsSend(g, t) THEN [snap EXCEPT ![g] = NoSnap] ELSE snap
    /\ UNCHANGED <<head, gen, replay>>

\* acknowledgeGatewaySnapshot: only the staged snapshot of the current
\* generation of this connection, once it has been claimed for sending.
AckCounts(conn, m) ==
    /\ m.g # 0
    /\ Serving(m.g)
    /\ gen[m.g].conn = conn
    /\ snap[m.g].rows = m.rows
    /\ snap[m.g].target = m.target
    /\ snap[m.g].claim # 0
    /\ gen[m.g].delivered <= m.target
    /\ m.target <= gen[m.g].dirty

\* Any other cookie may only use up the replay it names.
AcknowledgeSnapshot(conn, m) ==
    IF AckCounts(conn, m)
    THEN /\ gen' = [gen EXCEPT ![m.g].delivered = m.target, ![m.g].initial = FALSE]
         /\ snap' = [snap EXCEPT ![m.g] = NoSnap]
         /\ replay' = NoReplay
         /\ UNCHANGED head
    ELSE /\ replay' = IF replay.c = m THEN NoReplay ELSE replay
         /\ UNCHANGED <<head, gen, snap>>
=============================================================================
