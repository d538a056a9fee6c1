--------------------------- MODULE SchemaMigration ---------------------------
(***************************************************************************)
(* The schema of a database moves forward by one journal that every Worker *)
(* version packages: the deploy command begins a migration at the Catalog, *)
(* has it migrate each shard of the routing, then the Catalog's own        *)
(* tables, and completes it.  Commands crash and are rerun, requests time  *)
(* out and are repeated while the first is still running, objects restart  *)
(* at their own time into a new version, ranges move to fresh shards, and  *)
(* requests of the application keep arriving with an earlier route.        *)
(***************************************************************************)
EXTENDS Naturals, FiniteSets

CONSTANT Mixes  \* bounds and faults: see MCResources

VARIABLES mix, s

vars == <<mix, s>>
On == mix.part = "schema"

Shards == 1..mix.shards + mix.ops          \* those after mix.shards are fresh destinations
Fresh == mix.shards + 1..mix.shards + mix.ops
Drivers == 1..mix.drivers
Cat == 0                                   \* the Catalog, where an object is meant
Objects == {Cat} \cup Shards
None == <<0, 0>>
(* An id names one migration, to one target (the key of                     *)
(* catalog_schema_shards refuses it to a second): driver d reruns that of   *)
(* all others, or has its own.                                              *)
Name(d) == <<s.drv[d].tv, IF mix.names = 1 THEN 1 ELSE d>>

(* The schema state of an object: active or migrating, its version, epoch,  *)
(* last migration, the owner and target of one in progress with the steps   *)
(* recorded, and how far its physical tables are.                           *)
New == [st |-> "active", ver |-> 0, epoch |-> 1, last |-> None, mig |-> None, tv |-> 0, te |-> 0, steps |-> {},
        tables |-> IF mix.legacy THEN mix.vers ELSE 0]
Idle == [at |-> "idle", av |-> 0, tv |-> 0, todo |-> {}, busy |-> {}, tries |-> [c \in Shards |-> 0], ver |-> 0]
NoOp == [st |-> "none", src |-> 0, dst |-> 0, ver |-> 0, epoch |-> 0, ready |-> FALSE]

Init ==
  /\ mix \in Mixes
  /\ s = [o |-> [x \in Objects |-> IF x \in Fresh THEN [New EXCEPT !.tables = 0] ELSE New],
          base |-> FALSE, reg |-> [c \in Shards |-> "none"],
          deployed |-> 0, code |-> [x \in Objects |-> 0],
          routed |-> 1..mix.shards, op |-> NoOp, ops |-> 0,
          drv |-> [d \in Drivers |-> Idle], hand |-> {}, late |-> {},
          req |-> {}, top |-> 0, back |-> FALSE, faults |-> 0]

-----------------------------------------------------------------------------
(* Both stores keep the same record and the same rules. *)

Migrating(x, m) == s.o[x].st = "migrating" /\ s.o[x].mig = m
DoneBy(x, m) == s.o[x].st = "active" /\ s.o[x].last = m
Pending(x) == {v \in 1..mix.vers : s.o[x].ver < v /\ v <= s.o[x].tv}

Begun(x, m, tv, te) == [s.o[x] EXCEPT !.st = "migrating", !.mig = m, !.tv = tv, !.te = te, !.steps = {}]
Activated(x) ==
  [s.o[x] EXCEPT !.st = "active", !.ver = s.o[x].tv, !.epoch = s.o[x].te, !.last = s.o[x].mig, !.mig = None, !.tv = 0, !.te = 0, !.steps = {}]

(* Steps apply in order and once: the next is the first not recorded. *)
NextStep(x) == CHOOSE v \in Pending(x) \ s.o[x].steps : \A w \in Pending(x) \ s.o[x].steps : v <= w
CanApply(x, m, v) ==
  \/ DoneBy(x, m)
  \/ Migrating(x, m) /\ v <= s.o[x].tv
     /\ (v \notin s.o[x].steps => v \in Pending(x) /\ v = NextStep(x) /\ ((x = Cat => ~s.base) => s.o[x].tables = v - 1))
SteppedAgain(x, v) ==
  IF s.o[x].st = "active" THEN s.o[x]
  ELSE [s.o[x] EXCEPT !.steps = @ \cup {v}, !.tables = @ + 1]
Stepped(x, v) ==
  IF s.o[x].st = "active" \/ v \in s.o[x].steps THEN s.o[x]
  ELSE [s.o[x] EXCEPT !.steps = @ \cup {v}, !.tables = IF x = Cat /\ s.base THEN @ ELSE v]
CanActivate(x, m) == DoneBy(x, m) \/ (Migrating(x, m) /\ s.o[x].steps = Pending(x))

-----------------------------------------------------------------------------
(* The Catalog. *)

BeginAllowed(m, tv, baseline) ==
  /\ tv = s.code[Cat] /\ s.op.st = "none"
  /\ IF s.o[Cat].st = "migrating" THEN s.o[Cat].mig = m /\ s.o[Cat].tv = tv
     ELSE \/ DoneBy(Cat, m) /\ s.o[Cat].ver = tv
          \/ s.o[Cat].ver < tv /\ (baseline => s.o[Cat].ver = 0)

(* A new migration takes a snapshot of the shards that own ranges. *)
BeginSchemaChange(m, tv, baseline) ==
  IF s.o[Cat].st = "migrating" \/ s.o[Cat].ver = tv THEN s
  ELSE [s EXCEPT !.o[Cat] = Begun(Cat, m, tv, s.o[Cat].epoch + 1), !.base = baseline,
                 !.reg = [c \in Shards |-> IF c \in s.routed THEN "pending" ELSE "none"]]

ShardsListed(m) == Migrating(Cat, m) \/ DoneBy(Cat, m)
PendingShards(m) == IF Migrating(Cat, m) THEN {c \in Shards : s.reg[c] = "pending"} ELSE {}

(* migrateSchemaShard keeps what it read of the Catalog while it calls the shard. *)
MigrateShardStart(m, c) ==
  [c |-> c, m |-> m, av |-> s.o[Cat].ver, tv |-> s.o[Cat].tv, te |-> s.o[Cat].te, base |-> s.base,
   at |-> IF s.base THEN "baseline" ELSE "prepare", v |-> s.o[Cat].ver + 1]

ActivateShard(m, c) == Migrating(Cat, m)

CanComplete(m) ==
  \/ DoneBy(Cat, m)
  \/ Migrating(Cat, m) /\ (\A c \in Shards : s.reg[c] # "pending") /\ s.o[Cat].steps = Pending(Cat)
Complete(m) ==
  IF DoneBy(Cat, m) THEN s
  ELSE [s EXCEPT !.o[Cat] = Activated(Cat), !.reg = [c \in Shards |-> "none"], !.base = FALSE]

-----------------------------------------------------------------------------
(* A shard.  Each call is refused while a movement holds the shard. *)

NotMoving(c) == ~(s.op.st = "active" /\ s.op.ready /\ c \in {s.op.src, s.op.dst})

CanBaseline(h) ==
  /\ NotMoving(h.c) /\ h.tv = s.code[h.c]
  /\ LET x == s.o[h.c] IN
     \/ DoneBy(h.c, h.m) /\ x.ver = h.tv /\ x.epoch = h.te
     \/ x.st = "active" /\ x.ver = 0 /\ h.te = x.epoch + 1 /\ x.tables = h.tv
Baselined(h) ==
  IF DoneBy(h.c, h.m) THEN s.o[h.c]
  ELSE [s.o[h.c] EXCEPT !.ver = h.tv, !.epoch = h.te, !.last = h.m]

CanPrepareOnce(h) ==
  /\ NotMoving(h.c) /\ h.tv = s.code[h.c]
  /\ LET x == s.o[h.c] IN
     IF x.st = "migrating" THEN x.mig = h.m /\ x.ver = h.av /\ x.tv = h.tv /\ x.te = h.te
     ELSE x.ver = h.av /\ h.te = x.epoch + 1
CanPrepare(h) ==
  /\ NotMoving(h.c) /\ h.tv = s.code[h.c]
  /\ LET x == s.o[h.c] IN
     IF x.st = "migrating" THEN x.mig = h.m /\ x.ver = h.av /\ x.tv = h.tv /\ x.te = h.te
     ELSE \/ x.last = h.m /\ x.ver = h.tv /\ x.epoch = h.te
          \/ x.ver = h.av /\ h.te = x.epoch + 1
Prepared(h) ==
  IF s.o[h.c].st = "migrating" \/ s.o[h.c].last = h.m THEN s.o[h.c] ELSE Begun(h.c, h.m, h.tv, h.te)

CanCall(h) ==
  CASE h.at = "baseline" -> CanBaseline(h)
    [] h.at = "prepare"  -> CanPrepare(h)
    [] h.at = "apply"    -> NotMoving(h.c) /\ h.v <= s.code[h.c] /\ CanApply(h.c, h.m, h.v)
    [] h.at = "activate" -> NotMoving(h.c) /\ CanActivate(h.c, h.m)
Called(h) ==
  CASE h.at = "baseline" -> Baselined(h)
    [] h.at = "prepare"  -> Prepared(h)
    [] h.at = "apply"    -> Stepped(h.c, h.v)
    [] h.at = "activate" -> IF s.o[h.c].st = "active" THEN s.o[h.c] ELSE Activated(h.c)

(* The next call of a shard's migration after one was answered. *)
Then(h) ==
  CASE h.at = "baseline" -> [h EXCEPT !.at = "record"]
    [] h.at = "prepare"  -> [h EXCEPT !.at = "apply"]
    [] h.at = "apply"    -> IF h.v < h.tv THEN [h EXCEPT !.v = @ + 1] ELSE [h EXCEPT !.at = "activate"]
    [] h.at = "activate" -> [h EXCEPT !.at = "record"]

(* assertFreshReshardDestination. *)
Unused(c) == s.o[c] = [New EXCEPT !.tables = 0]

(* A fresh destination executes the journal up to the schema of its lease. *)
CanProvision(c) ==
  LET x == s.o[c] IN
  /\ s.op.ver <= s.code[c]
  /\ \/ x.st = "active" /\ x.ver = s.op.ver /\ x.epoch = s.op.epoch
     \/ Unused(c)
ProvisionedLatest(c) == [s.o[c] EXCEPT !.ver = s.code[c], !.epoch = s.op.epoch, !.tables = s.code[c]]
Provisioned(c) == [s.o[c] EXCEPT !.ver = s.op.ver, !.epoch = s.op.epoch, !.tables = s.op.ver]

AdmitsAny(c, epoch) == s.o[c].st = "active" /\ s.o[c].epoch <= epoch
(* assertActiveEpoch. *)
Admits(c, epoch) == s.o[c].st = "active" /\ s.o[c].ver = s.code[c] /\ s.o[c].epoch = epoch

-----------------------------------------------------------------------------
(* The calls of the Catalog to the shards. *)

Drop(h) == s.hand \ {h}
Failing == s.faults < mix.faults

Shard(h) ==
  /\ h \in s.hand /\ h.at # "record"
  /\ IF CanCall(h) THEN s' = [s EXCEPT !.o[h.c] = Called(h), !.hand = Drop(h) \cup {Then(h)}]
                   ELSE s' = [s EXCEPT !.hand = Drop(h)]
(* The call is lost, before or after the shard executed it, or is still to arrive. *)
ShardLost(h) ==
  /\ h \in s.hand /\ h.at # "record" /\ Failing
  /\ \/ s' = [s EXCEPT !.hand = Drop(h), !.faults = @ + 1]
     \/ s' = [s EXCEPT !.hand = Drop(h), !.late = @ \cup {h}, !.faults = @ + 1]
     \/ CanCall(h) /\ s' = [s EXCEPT !.o[h.c] = Called(h), !.hand = Drop(h), !.faults = @ + 1]
Late(h) ==
  /\ h \in s.late
  /\ s' = [s EXCEPT !.late = @ \ {h}, !.o[h.c] = IF CanCall(h) THEN Called(h) ELSE @]
Record(h) ==
  /\ h \in s.hand /\ h.at = "record"
  /\ s' = [s EXCEPT !.hand = Drop(h), !.reg[h.c] = IF ActivateShard(h.m, h.c) THEN "active" ELSE @]

-----------------------------------------------------------------------------
(* The deploy command. *)

D(d) == s.drv[d]
Fails(d) == s' = [s EXCEPT !.drv[d] = Idle]
To(d, r) == s' = [s EXCEPT !.drv[d] = r]

Start(d) ==
  /\ D(d).at = "idle" /\ s.deployed > 0
  /\ ~(s.o[Cat].st = "active" /\ s.o[Cat].ver >= s.deployed)
  /\ To(d, [Idle EXCEPT !.at = "begin", !.av = s.o[Cat].ver, !.tv = s.deployed])

Begin(d) ==
  /\ D(d).at = "begin"
  /\ IF BeginAllowed(Name(d), D(d).tv, mix.legacy)
     THEN LET n == BeginSchemaChange(Name(d), D(d).tv, mix.legacy) IN
          s' = [n EXCEPT !.drv[d] = IF n.o[Cat].st = "active" THEN Idle ELSE [@ EXCEPT !.at = "list"]]
     ELSE Fails(d)

List(d) ==
  /\ D(d).at = "list"
  /\ IF ShardsListed(Name(d)) THEN To(d, [D(d) EXCEPT !.at = "shards", !.todo = PendingShards(Name(d))])
                              ELSE Fails(d)

(* A worker of the command asks for a shard, and asks again when the       *)
(* request failed or timed out, up to SHARD_MAX_ATTEMPTS times.            *)
Ask(d, c) ==
  /\ D(d).at = "shards" /\ c \in D(d).todo \cup D(d).busy
  /\ c \in D(d).todo => Cardinality(D(d).busy) < mix.conc
  /\ Cardinality(s.hand) < mix.hands
  /\ IF ~Migrating(Cat, Name(d)) THEN Fails(d)
     ELSE IF D(d).tries[c] = mix.tries THEN Fails(d)
     ELSE IF s.reg[c] = "active" THEN To(d, [D(d) EXCEPT !.todo = @ \ {c}, !.busy = @ \ {c}])
     ELSE s' = [s EXCEPT !.drv[d] = [D(d) EXCEPT !.todo = @ \ {c}, !.busy = @ \cup {c}, !.tries[c] = @ + 1],
                         !.hand = @ \cup {MigrateShardStart(Name(d), c)}]
Answered(d, c) ==
  /\ D(d).at = "shards" /\ c \in D(d).busy /\ s.reg[c] = "active"
  /\ To(d, [D(d) EXCEPT !.busy = @ \ {c}])
AllShards(d) ==
  /\ D(d).at = "shards" /\ D(d).todo = {} /\ D(d).busy = {}
  /\ To(d, [D(d) EXCEPT !.at = "catalog", !.ver = D(d).av + 1])

ApplyCatalog(d) ==
  /\ D(d).at = "catalog"
  /\ IF D(d).ver > D(d).tv THEN To(d, [D(d) EXCEPT !.at = "complete"])
     ELSE IF CanApply(Cat, Name(d), D(d).ver)
     THEN s' = [s EXCEPT !.o[Cat] = Stepped(Cat, D(d).ver),
                         !.drv[d] = IF s.o[Cat].st = "active" THEN Idle ELSE [D(d) EXCEPT !.ver = @ + 1]]
     ELSE Fails(d)
CompleteMigration(d) ==
  /\ D(d).at = "complete"
  /\ IF CanComplete(Name(d)) THEN s' = [Complete(Name(d)) EXCEPT !.drv[d] = Idle] ELSE Fails(d)

Run(d) == Begin(d) \/ List(d) \/ (\E c \in Shards : Ask(d, c) \/ Answered(d, c)) \/ AllShards(d)
          \/ ApplyCatalog(d) \/ CompleteMigration(d)
(* The command is interrupted, or its request times out. *)
Interrupt(d) ==
  /\ D(d).at # "idle" /\ Failing
  /\ s' = [s EXCEPT !.drv[d] = Idle, !.faults = @ + 1]

-----------------------------------------------------------------------------
(* A new version reaches the objects one by one; calls of an object that   *)
(* stops may still arrive.                                                  *)
OnTheWay == {h \in s.hand : h.at # "record"}
Deploy ==
  /\ s.deployed < mix.vers
  /\ mix.early \/ (s.o[Cat].st = "active" /\ s.o[Cat].ver = s.deployed)
  /\ s' = [s EXCEPT !.deployed = IF mix.jump THEN mix.vers ELSE @ + 1]
Restart(x) ==
  /\ s.code[x] < s.deployed
  /\ s' = [s EXCEPT !.code[x] = s.deployed, !.hand = IF x = Cat THEN {} ELSE {h \in @ : h.c # x},
                    !.late = IF x = Cat THEN @ \cup OnTheWay ELSE @]
CatalogCrash ==
  /\ s.hand # {} /\ Failing
  /\ s' = [s EXCEPT !.hand = {}, !.late = @ \cup OnTheWay, !.faults = @ + 1]

(* A movement to a fresh shard, under a lease on the schema it began with. *)
BeginTopology ==
  /\ s.ops < mix.ops /\ s.op.st = "none"
  /\ s.o[Cat].st = "active" /\ s.o[Cat].ver = s.code[Cat]
  /\ \E c \in s.routed :
       s' = [s EXCEPT !.ops = @ + 1, !.op = [st |-> "active", src |-> c, dst |-> mix.shards + s.ops + 1,
                                             ver |-> s.o[Cat].ver, epoch |-> s.o[Cat].epoch, ready |-> FALSE]]
Provision ==
  /\ s.op.st = "active" /\ ~s.op.ready /\ CanProvision(s.op.dst)
  /\ s' = [s EXCEPT !.o[s.op.dst] = Provisioned(s.op.dst), !.op.ready = TRUE]
Cutover ==
  /\ s.op.st = "active" /\ s.op.ready
  /\ s.o[Cat].st = "active" /\ s.o[Cat].ver = s.op.ver /\ s.o[Cat].epoch = s.op.epoch
  /\ s' = [s EXCEPT !.routed = @ \cup {s.op.dst}, !.op = NoOp]
AbortTopology == s.op.st = "active" /\ s' = [s EXCEPT !.op = NoOp]

(* A request is routed by the Catalog and executed at its shard, some time. *)
Route(c) ==
  /\ Cardinality(s.req) < mix.reqs /\ c \in s.routed
  /\ s.o[Cat].st = "active" /\ s.o[Cat].ver = s.code[Cat]
  /\ s' = [s EXCEPT !.req = @ \cup {[c |-> c, epoch |-> s.o[Cat].epoch]}]
Execute(r) ==
  /\ r \in s.req
  /\ s' = [s EXCEPT !.req = @ \ {r},
                    !.top = IF Admits(r.c, r.epoch) /\ s.code[r.c] > @ THEN s.code[r.c] ELSE @,
                    !.back = @ \/ (Admits(r.c, r.epoch) /\ s.code[r.c] < s.top)]

Step ==
  \/ \E d \in Drivers : Start(d) \/ Run(d) \/ Interrupt(d)
  \/ \E h \in s.hand : Shard(h) \/ ShardLost(h) \/ Record(h)
  \/ \E h \in s.late : Late(h)
  \/ Deploy \/ (\E x \in Objects : Restart(x)) \/ CatalogCrash
  \/ BeginTopology \/ Provision \/ Cutover \/ AbortTopology
  \/ (\E c \in Shards : Route(c)) \/ (\E r \in s.req : Execute(r))
Next == On /\ Step /\ UNCHANGED mix
Spec == Init /\ [][Next]_vars

Fairness ==
  /\ \A d \in 1..2 : WF_s(On /\ d \in Drivers /\ Start(d)) /\ WF_s(On /\ d \in Drivers /\ Run(d))
  /\ WF_s(On /\ \E h \in s.hand : Shard(h) \/ Record(h))
  /\ WF_s(On /\ \E x \in Objects : Restart(x))
  /\ WF_s(On /\ (Provision \/ Cutover \/ AbortTopology))
FairSpec == Spec /\ Fairness

-----------------------------------------------------------------------------
TypeOK ==
  /\ mix \in Mixes /\ s.deployed \in 0..mix.vers /\ s.top \in 0..mix.vers /\ s.routed \subseteq Shards
  /\ s.code \in [Objects -> 0..s.deployed] /\ s.reg \in [Shards -> {"none", "pending", "active"}]
  /\ \A x \in Objects : /\ s.o[x].st \in {"active", "migrating"} /\ s.o[x].ver \in 0..s.code[x]
                         /\ s.o[x].epoch \in 1..mix.vers + 1 /\ s.o[x].steps \subseteq 1..mix.vers
                         /\ s.o[x].st = "active" <=> s.o[x].mig = None

(* Catalog and shards agree.  While the Catalog is active every shard that  *)
(* owns a range has its schema: no shard was left behind, neither one whose *)
(* answer was lost nor one that a movement brought in.  While it migrates   *)
(* each is before, in or after the same migration, and after it when the    *)
(* Catalog says so (completeCatalogSchemaMigration, beginCatalogSchemaChange*)
(* against the topology lease).                                             *)
Same(c, ver, epoch) == s.o[c].st = "active" /\ s.o[c].ver = ver /\ s.o[c].epoch = epoch
RoutedAgree ==
  LET k == s.o[Cat] IN
  \A c \in s.routed :
    IF k.st = "active" THEN Same(c, k.ver, k.epoch)
    ELSE \/ Same(c, k.tv, k.te) /\ s.o[c].last = k.mig
         \/ /\ s.reg[c] = "pending"
            /\ \/ Same(c, k.ver, k.epoch)
               \/ Migrating(c, k.mig) /\ s.o[c].tv = k.tv /\ s.o[c].te = k.te

(* Statements run once and in order: the tables of an object are always     *)
(* those of its version and of the steps it recorded, whatever calls were   *)
(* repeated, overtaken or executed without an answer.                       *)
TablesFollow ==
  \A x \in Objects : s.o[x].tables = IF mix.legacy /\ x \notin Fresh THEN mix.vers
                                     ELSE s.o[x].ver + Cardinality(s.o[x].steps)

(* "Application traffic stays closed while CharDB upgrades" (docs/schema-   *)
(* migrations.mdx): once a request was served under a version, the Catalog  *)
(* and every shard of the routing have it, and none is served under an      *)
(* earlier one again, however late it comes.                                *)
ServedEverywhere ==
  /\ \A x \in s.routed \cup {Cat} : s.o[x].ver >= s.top
  /\ ~s.back

Safe == TypeOK /\ RoutedAgree /\ TablesFollow /\ ServedEverywhere

SchemaSafe == On => Safe

(* What the bounds are made of. *)
MixesOK ==
  \A m \in Mixes : m.part = "schema" =>
    /\ m.shards \in Nat /\ m.ops \in Nat /\ m.drivers \in Nat /\ m.vers \in Nat /\ m.faults \in Nat
    /\ {m.legacy, m.early, m.jump} \subseteq BOOLEAN

(* A migration that is rerun until it ends does: interrupted commands, lost *)
(* answers and movements delay it only.                                     *)
MigrationEnds == (On /\ s.deployed > s.o[Cat].ver) ~> (On => s.o[Cat].ver = s.deployed /\ s.o[Cat].st = "active")
=============================================================================
