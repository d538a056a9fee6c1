------------------------------ MODULE Recovery ------------------------------
(***************************************************************************)
(* Point-in-time recovery of the whole database: the Catalog and every Cdb *)
(* are rewound to one recovery point, files in R2 and records in Vectorize *)
(* are scrubbed before and rebuilt after, and traffic resumes under a new  *)
(* generation (recovery-admin.ts, do/recovery*.ts, cli/commands/backups.ts).*)
(*                                                                         *)
(* The driver is a request to the Worker, a turn.  It reads where the       *)
(* operation stands from the coordinator (the Resharder), makes a bounded  *)
(* number of calls, saves its cursor after each, and may end after any     *)
(* save; the command line sends the next turn.  turn[t].at is the call the *)
(* turn waits for.  Two turns can overlap when a request outlives the      *)
(* client's timeout.  Objects restart at any time, and a restart applies   *)
(* the restore that the runtime has accepted.                              *)
(***************************************************************************)
EXTENDS RecoveryStores, FiniteSets, Sequences

CONSTANT Mixes
\* The instances: number of shards, client writes, shards with a file that has
\* no retained copy yet, and bounds on recovery points, operations, failures,
\* changes of the topology and turns at a time.

VARIABLES
    mix,      \* the instance of this behaviour
    db,       \* storage of each object: what a restore rewinds
    sched,    \* runtime: the operation whose point a restart of the object restores
    boot,     \* constructor of each object: "down", "read" with the clock, or "up"
    ring,     \* objects with an alarm for the restore
    live, kept,  \* R2: shards whose file has its live key, its retained copy
    prov, fly,   \* Vectorize: versions of the shard's vector that are searchable,
                 \* and the one it was sent and has not applied yet (0: none)
    snap,     \* recovery points: storage of every object, and the topology
    topo,     \* Catalog: number of the topology (schema and routing epoch); rewound too
    clock,    \* coordinator: generation and active operation
    op,       \* coordinator: operations
    turn,     \* turns at work
    req,      \* client writes: the generation their request carries, or "idle"
    acked,    \* generation each acknowledged write was executed under
    rew,      \* history: generation of the operation that last rewound the object
    faults

dbVars   == <<db, sched, boot, ring, topo, rew>>
vecVars  == <<prov, fly>>
provVars == <<live, kept, vecVars>>
coVars   == <<clock, op>>
cliVars  == <<req, acked>>
state == <<dbVars, provVars, snap, coVars, turn, cliVars, faults>>
vars  == <<mix, state>>

NShards == mix.shards
Shards  == 1..NShards      \* object 0 is the Catalog
Objects == 0..NShards
Never   == 99   \* "not acknowledged" and "no request": above every generation

\* A write is [shard, kind, n]; a row that is stored is the write in db[s].data.
Kinds == {"row", "unfile", "vec"}
Writes == mix.writes
Points == 1..mix.points
Ops    == 1..mix.ops
Turns  == 1..2   \* of which mix.turns are used

VectorHead(d)    == Cardinality({w \in d.data : w.kind = "vec"})   \* version of the vector
HasFile(s, d) == s \in mix.legacy /\ ~\E w \in d.data : w.kind = "unfile"
Current(d) == IF VectorHead(d) = 0 THEN {} ELSE {VectorHead(d)}

Idle == [at |-> "idle", op |-> NoOp, p |-> NoPoint, ph |-> "new", cur |-> Cursor("arm", 1),
         keys |-> {}]
Up(o) == boot[o].at = "up"

Clocks   == [gen : 0..mix.ops, act : Ops \cup {NoOp}]
NoClock  == [gen |-> 0, act |-> NoOp]
Phases == {"new", "preparing", "committing", "reconciling", "releasing", "catalog", "complete"}
Steps == {"idle", "preflight", "claim", "armCatalog", "cancel", "arm", "quiesce", "retain",
          "vectors", "files", "drop", "save", "begin", "intent", "status", "commit", "native",
          "post", "finish", "advance", "shards", "rpreflight", "rehydrate", "requeue", "settle",
          "saveR", "releases", "release", "advanceR", "catalog", "proof", "releaseCatalog",
          "complete"}

TypeOK ==
    /\ \A o \in Objects :
           /\ db[o].gen \in 0..mix.ops /\ db[o].own \in Ops \cup {NoOp}
           /\ db[o].adm \in {"open", "blocked", "released"}
           /\ db[o].arm \in Points \cup {NoPoint} /\ db[o].native \in BOOLEAN
           /\ db[o].native => db[o].arm # NoPoint
           /\ db[o].data \subseteq Writes /\ db[o].out \in BOOLEAN
    /\ sched \in [Objects -> Ops \cup {NoOp}]
    /\ boot \in [Objects -> [at : {"up", "down", "read"}, clock : Clocks]]
    /\ ring \subseteq Objects
    /\ live \subseteq Shards /\ kept \subseteq Shards
    /\ \A s \in Shards : prov[s] \subseteq 1..Cardinality(Writes)
    /\ fly \in [Shards -> 0..Cardinality(Writes)]
    /\ topo \in 0..mix.topos
    /\ clock \in Clocks
    /\ \A i \in Ops : /\ op[i].ph \in Phases \cup {"cancelled"}
                      /\ {op[i].ci, op[i].ri} \subseteq 1..NShards + 1
    /\ \A t \in Turns : turn[t].at \in Steps /\ turn[t].cur.idx \in 0..NShards + 1
    /\ DOMAIN req = Writes /\ DOMAIN acked = Writes
    /\ rew \in [Objects -> 0..mix.ops]
    /\ faults \in 0..mix.faults

Init ==
    /\ mix \in Mixes
    /\ db = [o \in Objects |-> FreshObject({})]
    /\ sched = [o \in Objects |-> NoOp]
    /\ boot = [o \in Objects |-> [at |-> "up", clock |-> NoClock]]
    /\ ring = {}
    /\ live = mix.legacy        \* files uploaded before copies were retained
    /\ kept = {}
    /\ prov = [s \in Shards |-> {}] /\ fly = [s \in Shards |-> 0]
    /\ snap = << >>
    /\ topo = 0
    /\ clock = NoClock
    /\ op = [i \in Ops |-> NewOp(Objects)]
    /\ turn = [t \in Turns |-> Idle]
    /\ req = [w \in Writes |-> Never]
    /\ acked = [w \in Writes |-> Never]
    /\ rew = [o \in Objects |-> 0]
    /\ faults = 0

-----------------------------------------------------------------------------
(* Clients and background work.                                            *)

\* A client resolves its route at the Catalog, which tells the generation.
Resolve(w) ==
    /\ acked[w] = Never
    /\ Up(0) /\ BackgroundRuns(db[0])
    /\ req[w] # db[0].gen
    /\ req' = [req EXCEPT ![w] = db[0].gen]
    /\ UNCHANGED <<dbVars, provVars, snap, coVars, turn, acked, faults>>

Execute(w) ==
    /\ req[w] # Never
    /\ Up(w.shard) /\ AdmitsRequest(db[w.shard], req[w])
    /\ db' = [db EXCEPT ![w.shard].data = @ \cup {w}, ![w.shard].out = @ \/ w.kind = "vec"]
    /\ acked' = [acked EXCEPT ![w] = req[w]]
    /\ req' = [req EXCEPT ![w] = Never]
    /\ UNCHANGED <<sched, boot, ring, topo, rew, provVars, snap, coVars, turn, faults>>

\* One pass over the vector outbox: the head is sent, and confirmed once it
\* is searchable; then older versions are gone.
Maintain(s) ==
    IF VectorHead(db[s]) \in prov[s] /\ fly[s] = 0
    THEN /\ prov' = [prov EXCEPT ![s] = Current(db[s])]
         /\ db' = [db EXCEPT ![s].out = FALSE]
         /\ UNCHANGED fly
    ELSE /\ fly' = [fly EXCEPT ![s] = IF @ = 0 THEN VectorHead(db[s]) ELSE @]
         /\ UNCHANGED <<prov, db>>

\* The alarm of a Cdb that serves.
DeliverVectors(s) ==
    /\ Up(s) /\ BackgroundRuns(db[s]) /\ db[s].out
    /\ Maintain(s)
    /\ UNCHANGED <<sched, boot, ring, topo, rew, live, kept, snap, coVars, turn, cliVars, faults>>

VectorLands(s) ==
    /\ fly[s] # 0
    /\ prov' = [prov EXCEPT ![s] = @ \cup {fly[s]}]
    /\ fly' = [fly EXCEPT ![s] = 0]
    /\ UNCHANGED <<dbVars, live, kept, snap, coVars, turn, cliVars, faults>>

DeleteFile(s) ==
    /\ Up(s) /\ BackgroundRuns(db[s])
    /\ s \in live /\ \E w \in db[s].data : w.kind = "unfile"
    /\ kept' = kept \cup {s} /\ live' = live \ {s}
    /\ UNCHANGED <<dbVars, vecVars, snap, coVars, turn, cliVars, faults>>

\* A schema migration or a cutover, while the Catalog is not fenced.
ChangeTopology ==
    /\ topo < mix.topos
    /\ Up(0) /\ BackgroundRuns(db[0])
    /\ topo' = topo + 1
    /\ UNCHANGED <<db, sched, boot, ring, rew, provVars, snap, coVars, turn, cliVars, faults>>

\* createRecoveryPoint: every object's storage at one instant
CreatePoint ==
    /\ Len(snap) < mix.points
    /\ Up(0) /\ Available(db[0])
    /\ snap' = Append(snap, [db |-> db, topo |-> topo])
    /\ UNCHANGED <<dbVars, provVars, coVars, turn, cliVars, faults>>

-----------------------------------------------------------------------------
(* Restarts.                                                               *)

\* Storage after a restart: the runtime applies what it has accepted.
Restored(o) == IF sched[o] = NoOp THEN db[o] ELSE snap[op[sched[o]].p].db[o]

\* Calls to a restarting object fail at their caller; the rest of them never runs.
InCall(t, o) == turn[t].at = "native" /\ turn[t].cur.idx = o

Restart(o) ==
    /\ db' = [db EXCEPT ![o] = Restored(o)]
    /\ rew' = [rew EXCEPT ![o] = IF sched[o] = NoOp THEN @ ELSE op[sched[o]].gen]
    /\ topo' = IF o = 0 /\ sched[0] # NoOp THEN snap[op[sched[0]].p].topo ELSE topo
    /\ sched' = [sched EXCEPT ![o] = NoOp]
    /\ boot' = [boot EXCEPT ![o].at = "down"]
    /\ turn' = [t \in Turns |-> IF InCall(t, o) THEN Idle ELSE turn[t]]

Crash(o) ==
    /\ faults < mix.faults
    /\ Up(o)
    /\ Restart(o)
    /\ faults' = faults + 1
    /\ UNCHANGED <<ring, provVars, snap, coVars, cliVars>>

\* alarm: abortForArmedRecoveryRestore
Alarm(o) ==
    /\ Up(o) /\ o \in ring
    /\ ring' = ring \ {o}
    /\ IF db[o].arm # NoPoint /\ db[o].native
       THEN Restart(o)
       ELSE UNCHANGED <<db, sched, boot, turn, topo, rew>>
    /\ UNCHANGED <<provVars, snap, coVars, cliVars, faults>>

\* reconcileRecoveryAdmission: the clock is read, then applied
ReadClock(o) ==
    /\ boot[o].at = "down"
    /\ boot' = [boot EXCEPT ![o] = [at |-> "read", clock |-> clock]]
    /\ UNCHANGED <<db, sched, ring, topo, rew, provVars, snap, coVars, turn, cliVars, faults>>

ApplyClock(o) ==
    /\ boot[o].at = "read"
    /\ LET ok == ReconcileOk(db[o], boot[o].clock) IN
       /\ db' = IF ok THEN [db EXCEPT ![o] = Reconcile(db[o], boot[o].clock)] ELSE db
       /\ boot' = [boot EXCEPT ![o] = [at |-> IF ok THEN "up" ELSE "down", clock |-> NoClock]]
    /\ UNCHANGED <<sched, ring, topo, rew, provVars, snap, coVars, turn, cliVars, faults>>

-----------------------------------------------------------------------------
(* Turns: what the coordinator's answer leads to.                          *)

Go(t, at)   == turn' = [turn EXCEPT ![t].at = at]
End(t)      == turn' = [turn EXCEPT ![t] = Idle]
At(t, step) == turn[t].at = step
Obj(t)      == turn[t].cur.idx       \* the object a turn is at; 0 is the Catalog
Gen(t)      == op[turn[t].op].gen

\* Where a preparation resumes; the Catalog is armed with the first shard.
ResumeAt(cur) ==
    CASE cur.ph = "arm" /\ cur.idx = 1 -> "armCatalog"
      [] cur.ph = "commit"             -> "begin"
      [] OTHER                         -> cur.ph

\* Mutants: files are scrubbed before they are retained; vectors are scrubbed
\* while deliveries are under way.
NextPhaseUnretained ==
    [arm |-> "quiesce", quiesce |-> "vectors", retain |-> "vectors", vectors |-> "files",
     files |-> "commit", rehydrate |-> "requeue", requeue |-> "settle"]
NextPhaseUnsettled ==
    [arm |-> "retain", quiesce |-> "retain", retain |-> "vectors", vectors |-> "files",
     files |-> "commit", rehydrate |-> "requeue", requeue |-> "settle"]

\* The phases of the two cursors, and the cursor after one more object.
NextPhase ==
    [arm |-> "quiesce", quiesce |-> "retain", retain |-> "vectors", vectors |-> "files",
     files |-> "commit", rehydrate |-> "requeue", requeue |-> "settle"]
NextCursor(cur) ==
    IF cur.idx < NShards /\ cur.ph # "files" THEN Cursor(cur.ph, cur.idx + 1)
    ELSE IF cur.ph = "settle" THEN Cursor("settle", NShards + 1)
    ELSE Cursor(NextPhase[cur.ph], 1)

\* restoreRecoveryPointTurn and reconcileRecoveryPointTurn, up to the preflight
Joined(t, i) ==
    LET r == op[i] IN
    [Idle EXCEPT !.op = i, !.p = r.p, !.ph = r.ph,
        !.cur = CASE r.ph \in {"preparing", "reconciling"} -> r.cur
                  [] r.ph = "committing" -> Cursor("commit", r.ci)
                  [] r.ph = "releasing"  -> Cursor("release", r.ri)
                  [] OTHER               -> Cursor("catalog", 0),
        !.at = CASE r.ph \in {"preparing", "committing"} -> "preflight"
                 [] r.ph = "reconciling" -> "rpreflight"
                 [] r.ph = "releasing"   -> "release"
                 [] OTHER                -> "intent"]

\* The second turn is one whose request outlived the client's timeout.
Outlives(t) == IF t = 1 THEN UNCHANGED faults
               ELSE faults < mix.faults /\ faults' = faults + 1

StartTurn(t) ==
    /\ At(t, "idle") /\ t <= mix.turns /\ clock.act # NoOp
    /\ Outlives(t)
    /\ turn' = [turn EXCEPT ![t] = Joined(t, clock.act)]
    /\ UNCHANGED <<dbVars, provVars, snap, coVars, cliVars>>

\* A first turn, with an operation id of its own.
StartRestore(t, p) ==
    /\ At(t, "idle") /\ t <= mix.turns /\ p \in 1..Len(snap)
    /\ \E i \in Ops : op[i].ph = "new"
    /\ Outlives(t)
    /\ turn' = [turn EXCEPT ![t] = [Idle EXCEPT !.p = p, !.at = "preflight"]]
    /\ UNCHANGED <<dbVars, provVars, snap, coVars, cliVars>>

\* adminRecoveryInventory and assertRecoveryTopology
Preflight(t) ==
    /\ turn[t].at \in {"preflight", "rpreflight"} /\ Up(0)
    /\ IF AvailableFor(db[0], turn[t].p) /\ topo = snap[turn[t].p].topo
       THEN Go(t, CASE At(t, "rpreflight") -> IF turn[t].cur.idx > NShards THEN "releases"
                                              ELSE turn[t].cur.ph
                    [] turn[t].op = NoOp   -> "claim"
                    [] OTHER               -> ResumeAt(turn[t].cur))
       ELSE End(t)
    /\ UNCHANGED <<dbVars, provVars, snap, coVars, cliVars, faults>>

\* claimPreparation: a new operation, or the active one of the same point
Claim(t) ==
    /\ At(t, "claim")
    /\ LET p == turn[t].p
           i == CHOOSE k \in Ops : op[k].ph = "new" /\ \A j \in 1..k - 1 : op[j].ph # "new"
       IN  IF clock.act # NoOp
           THEN /\ UNCHANGED coVars
                /\ IF op[clock.act].p = p /\ op[clock.act].ph \in {"preparing", "committing"}
                   THEN LET j == Joined(t, clock.act) IN
                        turn' = [turn EXCEPT ![t] = [j EXCEPT !.at = ResumeAt(j.cur)]]
                   ELSE End(t)
           ELSE IF \A k \in Ops : op[k].ph # "new" THEN End(t) /\ UNCHANGED coVars
           ELSE /\ op' = [op EXCEPT ![i] = Claimed(p, clock.gen + 1, Objects)]
                /\ clock' = [gen |-> clock.gen + 1, act |-> i]
                /\ turn' = [turn EXCEPT ![t] = [Idle EXCEPT !.op = i, !.p = p, !.ph = "preparing",
                                                            !.at = "armCatalog"]]
    /\ UNCHANGED <<dbVars, provVars, snap, cliVars, faults>>

-----------------------------------------------------------------------------
(* Preparation.                                                            *)

\* Catalog.adminArmRecoveryRestore checks the topology again
ArmCatalog(t) ==
    /\ At(t, "armCatalog") /\ Up(0)
    /\ LET p == turn[t].p IN
       IF db[0].arm \notin {NoPoint, p}
       THEN End(t) /\ UNCHANGED db
       ELSE IF topo # snap[p].topo
       THEN Go(t, "cancel") /\ UNCHANGED db
       ELSE IF ~AdmitArmOk(db[0], turn[t].op, Gen(t))
       THEN End(t) /\ UNCHANGED db
       ELSE db' = [db EXCEPT ![0] = Arm(db[0], p, turn[t].op, Gen(t))] /\ Go(t, "arm")
    /\ UNCHANGED <<sched, boot, ring, topo, rew, provVars, snap, coVars, cliVars, faults>>

CancelPreparation(t) ==
    /\ At(t, "cancel")
    /\ IF op[turn[t].op].ph = "preparing" /\ clock.act = turn[t].op
       THEN /\ op' = [op EXCEPT ![turn[t].op].ph = "cancelled"]
            /\ clock' = [clock EXCEPT !.act = NoOp]
       ELSE UNCHANGED coVars
    /\ End(t)
    /\ UNCHANGED <<dbVars, provVars, snap, cliVars, faults>>

\* A call of the turn to shard Obj(t): ok are the callee's checks
Called(t, ok, next) == Up(Obj(t)) /\ IF ok THEN Go(t, next) ELSE End(t)

ArmShard(t) ==
    /\ At(t, "arm")
    /\ LET s == Obj(t)
           ok == ArmOk(db[s], turn[t].p, turn[t].op, Gen(t))
       IN  /\ Called(t, ok, "save")
           /\ db' = IF ok THEN [db EXCEPT ![s] = Arm(db[s], turn[t].p, turn[t].op, Gen(t))] ELSE db
    /\ UNCHANGED <<sched, boot, ring, topo, rew, provVars, snap, coVars, cliVars, faults>>

\* adminQuiesceRecoveryVectors: deliver; with work pending the turn ends
Quiesce(t) ==
    /\ At(t, "quiesce")
    /\ LET s == Obj(t)
           ok == AvailableFor(db[s], turn[t].p) IN
       /\ Called(t, ok /\ ~db[s].out, "save")
       /\ IF ok /\ db[s].out THEN Maintain(s) ELSE UNCHANGED <<db, vecVars>>
    /\ UNCHANGED <<sched, boot, ring, topo, rew, live, kept, snap, coVars, cliVars, faults>>

\* adminRetainRecoveryFiles: every file that has a row, deleted ones too
Retain(t) ==
    /\ At(t, "retain")
    /\ LET s == Obj(t)
           ok == db[s].arm = turn[t].p /\ (HasFile(s, db[s]) => s \in live \cup kept) IN
       /\ Called(t, ok, "save")
       /\ kept' = IF ok /\ s \in live \cap mix.legacy THEN kept \cup {s} ELSE kept
    /\ UNCHANGED <<dbVars, live, vecVars, snap, coVars, cliVars, faults>>

\* adminScrubRecoveryVectors: every version the shard has a record of
ScrubVectors(t) ==
    /\ At(t, "vectors")
    /\ LET s == Obj(t)
           ok == db[s].arm = turn[t].p IN
       /\ Called(t, ok, "save")
       /\ prov' = IF ok THEN [prov EXCEPT ![s] = @ \ 1..VectorHead(db[s])] ELSE prov
    /\ UNCHANGED <<dbVars, live, kept, fly, snap, coVars, cliVars, faults>>

\* scrubRecoveryFilePage: the Worker lists the live keys, then deletes them
ListFiles(t) ==
    /\ At(t, "files")
    /\ turn' = [turn EXCEPT ![t].at = IF live = {} THEN "save" ELSE "drop", ![t].keys = live]
    /\ UNCHANGED <<dbVars, provVars, snap, coVars, cliVars, faults>>

DropFiles(t) ==
    /\ At(t, "drop")
    /\ live' = live \ turn[t].keys
    /\ turn' = [turn EXCEPT ![t].at = "save", ![t].keys = {}]
    /\ UNCHANGED <<dbVars, kept, vecVars, snap, coVars, cliVars, faults>>

\* savePreparation, then the loop or the end of the turn
Save(t) ==
    /\ At(t, "save")
    /\ LET cur == NextCursor(turn[t].cur) IN
       /\ op' = [op EXCEPT ![turn[t].op] = SavePreparation(@, cur)]
       /\ \/ turn' = [turn EXCEPT ![t].cur = cur, ![t].at = IF cur.ph = "commit" THEN "begin" ELSE cur.ph]
          \/ End(t)
    /\ UNCHANGED <<dbVars, provVars, snap, clock, cliVars, faults>>

-----------------------------------------------------------------------------
(* Commit of one object: a shard, or at the very end the Catalog.          *)

Begin(t) ==
    /\ At(t, "begin")
    /\ op' = [op EXCEPT ![turn[t].op] = BeginCommits(@)]
    /\ Go(t, IF Obj(t) > NShards THEN "shards" ELSE "intent")
    /\ UNCHANGED <<dbVars, provVars, snap, clock, cliVars, faults>>

AfterCommit(t) == IF Obj(t) = 0 THEN "proof" ELSE "advance"

Intent(t) ==
    /\ At(t, "intent")
    /\ op' = [op EXCEPT ![turn[t].op] = BeginObject(@, Obj(t))]
    /\ Go(t, IF op[turn[t].op].com[Obj(t)] = "scheduled" THEN AfterCommit(t) ELSE "status")
    /\ UNCHANGED <<dbVars, provVars, snap, clock, cliVars, faults>>

\* adminRecoveryRestoreStatus, before and after the commit
Status(t) ==
    /\ turn[t].at \in {"status", "post"}
    /\ Up(Obj(t))
    /\ CASE db[Obj(t)].arm = NoPoint -> Go(t, "finish")
         [] db[Obj(t)].arm = turn[t].p /\ At(t, "status") -> Go(t, "commit")
         [] OTHER -> End(t)
    /\ UNCHANGED <<dbVars, provVars, snap, coVars, cliVars, faults>>

\* commit: the runtime accepts the restore, then the fence records that
Commit(t) ==
    /\ At(t, "commit")
    /\ LET ok == CommitOk(db[Obj(t)], turn[t].p) IN
       /\ Called(t, ok, "native")
       /\ sched' = IF ok /\ ~db[Obj(t)].native THEN [sched EXCEPT ![Obj(t)] = turn[t].op] ELSE sched
    /\ UNCHANGED <<db, boot, ring, topo, rew, provVars, snap, coVars, cliVars, faults>>

Native(t) ==
    /\ At(t, "native") /\ Up(Obj(t))
    /\ db' = IF db[Obj(t)].arm = turn[t].p THEN [db EXCEPT ![Obj(t)].native = TRUE] ELSE db
    /\ ring' = ring \cup {Obj(t)}
    /\ Go(t, "post")
    /\ UNCHANGED <<sched, boot, topo, rew, provVars, snap, coVars, cliVars, faults>>

Finish(t) ==
    /\ At(t, "finish")
    /\ op' = [op EXCEPT ![turn[t].op] = FinishObject(@, Obj(t))]
    /\ Go(t, AfterCommit(t))
    /\ UNCHANGED <<dbVars, provVars, snap, clock, cliVars, faults>>

Advance(t) ==
    /\ At(t, "advance")
    /\ LET r == op[turn[t].op] IN
       IF AdvanceShardOk(r, Obj(t))
       THEN /\ op' = [op EXCEPT ![turn[t].op] = AdvanceShard(r)]
            /\ IF Obj(t) = NShards THEN Go(t, "shards")
               ELSE \/ turn' = [turn EXCEPT ![t].cur.idx = @ + 1, ![t].at = "intent"]
                    \/ End(t)
       ELSE End(t) /\ UNCHANGED op
    /\ UNCHANGED <<dbVars, provVars, snap, clock, cliVars, faults>>

FinishCommits(t) ==
    /\ At(t, "shards")
    /\ op' = [op EXCEPT ![turn[t].op] = IF FinishShardsOk(@, NShards) THEN FinishShards(@) ELSE @]
    /\ End(t)
    /\ UNCHANGED <<dbVars, provVars, snap, clock, cliVars, faults>>

-----------------------------------------------------------------------------
(* Reconciliation and release.                                             *)

\* adminRehydrateRecoveryFiles: live keys from the retained copies
Rehydrate(t) ==
    /\ At(t, "rehydrate")
    /\ LET s == Obj(t)
           ok == Available(db[s]) /\ (HasFile(s, db[s]) => s \in kept) IN
       /\ Called(t, ok, "saveR")
       /\ live' = IF ok /\ HasFile(s, db[s]) THEN live \cup {s} ELSE live
    /\ UNCHANGED <<dbVars, kept, vecVars, snap, coVars, cliVars, faults>>

\* adminRequeueRecoveryVectors: every head goes back to the outbox
Requeue(t) ==
    /\ At(t, "requeue")
    /\ LET s == Obj(t)
           ok == Available(db[s]) IN
       /\ Called(t, ok, "saveR")
       /\ db' = IF ok /\ VectorHead(db[s]) > 0 THEN [db EXCEPT ![s].out = TRUE] ELSE db
    /\ UNCHANGED <<sched, boot, ring, topo, rew, provVars, snap, coVars, cliVars, faults>>

\* adminSettleRecoveryVectors
Settle(t) ==
    /\ At(t, "settle")
    /\ LET s == Obj(t)
           ok == AvailableFor(db[s], turn[t].p) IN
       /\ Called(t, ok /\ ~db[s].out, "saveR")
       /\ IF ok /\ db[s].out THEN Maintain(s) ELSE UNCHANGED <<db, vecVars>>
    /\ UNCHANGED <<sched, boot, ring, topo, rew, live, kept, snap, coVars, cliVars, faults>>

\* saveReconcile; a turn settles one shard only
SaveR(t) ==
    /\ At(t, "saveR")
    /\ LET cur == NextCursor(turn[t].cur) IN
       /\ op' = [op EXCEPT ![turn[t].op] = SaveReconcile(@, cur)]
       /\ IF cur.idx > NShards
          THEN turn' = [turn EXCEPT ![t].cur = cur, ![t].at = "releases"]
          ELSE \/ /\ turn[t].cur.ph # "settle"
                  /\ turn' = [turn EXCEPT ![t].cur = cur, ![t].at = cur.ph]
               \/ End(t)
    /\ UNCHANGED <<dbVars, provVars, snap, clock, cliVars, faults>>

Releases(t) ==
    /\ At(t, "releases")
    /\ IF BeginReleasesOk(op[turn[t].op])
       THEN /\ op' = [op EXCEPT ![turn[t].op] = BeginReleases(@)]
            /\ turn' = [turn EXCEPT ![t].at = IF op[turn[t].op].ri > NShards THEN "catalog" ELSE "release",
                                    ![t].cur = Cursor("release", op[turn[t].op].ri)]
       ELSE End(t) /\ UNCHANGED op
    /\ UNCHANGED <<dbVars, provVars, snap, clock, cliVars, faults>>

ReleaseShard(t) ==
    /\ At(t, "release")
    /\ IF Obj(t) > NShards
       THEN Go(t, "catalog") /\ UNCHANGED db
       ELSE LET ok == ReleaseOk(db[Obj(t)], turn[t].op, Gen(t)) IN
            /\ Called(t, ok, "advanceR")
            /\ db' = IF ok THEN [db EXCEPT ![Obj(t)] = Release(@)] ELSE db
    /\ UNCHANGED <<sched, boot, ring, topo, rew, provVars, snap, coVars, cliVars, faults>>

AdvanceR(t) ==
    /\ At(t, "advanceR")
    /\ LET r == op[turn[t].op] IN
       IF AdvanceReleaseOk(r, Obj(t))
       THEN /\ op' = [op EXCEPT ![turn[t].op] = AdvanceRelease(r)]
            /\ IF Obj(t) = NShards THEN Go(t, "catalog")
               ELSE \/ turn' = [turn EXCEPT ![t].cur.idx = @ + 1, ![t].at = "release"]
                    \/ End(t)
       ELSE End(t) /\ UNCHANGED op
    /\ UNCHANGED <<dbVars, provVars, snap, clock, cliVars, faults>>

BeginCatalogCommit(t) ==
    /\ At(t, "catalog")
    /\ op' = [op EXCEPT ![turn[t].op] = IF BeginCatalogOk(@, NShards) THEN BeginCatalog(@) ELSE @]
    /\ End(t)
    /\ UNCHANGED <<dbVars, provVars, snap, clock, cliVars, faults>>

\* The restored Catalog must show the point's topology.
Proof(t) ==
    /\ At(t, "proof") /\ Up(0)
    /\ IF Available(db[0]) /\ topo = snap[turn[t].p].topo THEN Go(t, "releaseCatalog") ELSE End(t)
    /\ UNCHANGED <<dbVars, provVars, snap, coVars, cliVars, faults>>

ReleaseCatalog(t) ==
    /\ At(t, "releaseCatalog")
    /\ LET ok == ReleaseOk(db[0], turn[t].op, Gen(t)) IN
       /\ Called(t, ok, "complete")
       /\ db' = IF ok THEN [db EXCEPT ![0] = Release(@)] ELSE db
    /\ UNCHANGED <<sched, boot, ring, topo, rew, provVars, snap, coVars, cliVars, faults>>

Complete(t) ==
    /\ At(t, "complete")
    /\ IF op[turn[t].op].ph = "catalog" /\ clock.act = turn[t].op
       THEN /\ op' = [op EXCEPT ![turn[t].op].ph = "complete"]
            /\ clock' = [clock EXCEPT !.act = NoOp]
       ELSE UNCHANGED coVars
    /\ End(t)
    /\ UNCHANGED <<dbVars, provVars, snap, cliVars, faults>>

\* A call fails at the Worker, or the Worker stops.
TurnFails(t) ==
    /\ faults < mix.faults /\ mix.turns = 1   \* an overlapping turn may wait for ever
    /\ ~At(t, "idle")
    /\ faults' = faults + 1
    /\ End(t)
    /\ UNCHANGED <<dbVars, provVars, snap, coVars, cliVars>>

-----------------------------------------------------------------------------
Continue(t) ==
    \/ StartTurn(t) \/ Preflight(t) \/ Claim(t) \/ ArmCatalog(t) \/ CancelPreparation(t)
    \/ ArmShard(t) \/ Quiesce(t) \/ Retain(t) \/ ScrubVectors(t) \/ ListFiles(t) \/ DropFiles(t)
    \/ Save(t) \/ Begin(t) \/ Intent(t) \/ Status(t) \/ Commit(t) \/ Native(t) \/ Finish(t)
    \/ Advance(t) \/ FinishCommits(t) \/ Rehydrate(t) \/ Requeue(t) \/ Settle(t) \/ SaveR(t)
    \/ Releases(t) \/ ReleaseShard(t) \/ AdvanceR(t) \/ BeginCatalogCommit(t) \/ Proof(t)
    \/ ReleaseCatalog(t) \/ Complete(t)

Next ==
    /\ UNCHANGED mix
    /\ \/ \E w \in Writes : Resolve(w) \/ Execute(w)
       \/ \E s \in Shards : DeliverVectors(s) \/ VectorLands(s) \/ DeleteFile(s)
       \/ ChangeTopology \/ CreatePoint
       \/ \E o \in Objects : Crash(o) \/ Alarm(o) \/ ReadClock(o) \/ ApplyClock(o)
       \/ \E t \in Turns : Continue(t) \/ TurnFails(t) \/ \E p \in Points : StartRestore(t, p)

Spec == Init /\ [][Next]_vars

\* Restarted objects run their constructors, alarms ring, a turn that waits
\* for a call gets its answer, and the operator sends turns for the active
\* operation until it is complete ("rerun the same command").
Fairness ==
    /\ \A o \in 0..2 : /\ WF_state(o \in Objects /\ Alarm(o))
                      /\ WF_state(o \in Objects /\ (ReadClock(o) \/ ApplyClock(o)))
    /\ \A s \in 1..2 : WF_state(s \in Shards /\ VectorLands(s))
    /\ SF_state(StartTurn(1)) /\ WF_state(Continue(1))

LiveSpec == Spec /\ Fairness

-----------------------------------------------------------------------------
(* Properties.                                                             *)

Restoring == {"committing", "reconciling", "releasing", "catalog"}
Active(i) == i \in Ops /\ op[i].ph \notin {"new", "complete", "cancelled"}

\* An acknowledged write disappears only in a restore of a later generation:
\* no repeated arm, late turn or restart rewinds what was written after the
\* operation that rewound the shard.
AckedSurvives ==
    \A w \in Writes : acked[w] # Never /\ w \notin db[w.shard].data => rew[w.shard] > acked[w]

\* Once the first object may be rewound, until the whole database is: no
\* write is acknowledged under an older generation (it would land on one side
\* of the point and be lost on another), and one under the new generation
\* finds every object rewound.
WritesAroundRestore ==
    [][\A w \in Writes : acked'[w] # acked[w] =>
          \A i \in Ops : op[i].ph \in Restoring =>
              acked'[w] = op[i].gen /\ \A o \in Objects : rew[o] = op[i].gen]_vars

\* Bytes of a file that a row, or a row of a recovery point, refers to are in
\* R2: a scrub comes after the retention of every copy.
FilesKept ==
    \A s \in mix.legacy :
        (\E p \in 1..Len(snap) : HasFile(s, snap[p].db[s])) \/ HasFile(s, db[s])
            => s \in live \cup kept

\* When the shards are released, files and vectors are those of the restored
\* rows: live keys are back, and no vector of an undone write is searchable.
\* A turn that overlaps another may still hold a list of keys to delete.
Rebuilt ==
    \A i \in Ops : op[i].ph \in {"releasing", "catalog"} /\ db[0].adm = "blocked" /\ mix.turns = 1 =>
        \A s \in Shards :
            /\ HasFile(s, db[s]) => s \in live
            /\ prov[s] = Current(db[s])

\* A restore loses nothing that it did not undo, and undoes all that it
\* reports undone.
RestoreIsExact == TypeOK /\ AckedSurvives /\ FilesKept /\ Rebuilt

Serving ==
    \A o \in Objects : Up(o) /\ BackgroundRuns(db[o]) /\ db[o].gen = db[0].gen

\* A started restore leads to a database that serves again, whatever restarts
\* and failed turns happen, as long as turns do not overlap and the topology
\* stays the one of the point.
TrafficResumes ==
    \A i \in 1..2 : mix.turns = 1 /\ mix.topos = 0 /\ Active(i) ~> Serving
=============================================================================
