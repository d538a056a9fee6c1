--------------------------- MODULE CatalogTopology ---------------------------
(***************************************************************************)
(* The Catalog's routing table and the lease every topology change holds   *)
(* on it (catalog.ts, catalog-routing-store.ts,                            *)
(* catalog-topology-operation-store.ts, vshard.ts).                        *)
(*                                                                         *)
(* Each RPC runs in one transactionSync, so each is one action.  A request *)
(* whose identity differs from the stored operation is rejected and is not *)
(* an action; a repeated request is.                                       *)
(***************************************************************************)
EXTENDS Integers, FiniteSets

CONSTANTS
    NVshards,   \* VSHARD_COUNT, 16384 in the code
    Shards,
    Shard0,     \* the shard that owns every vshard at first (ShardDO_0)
    Migs,       \* migration ids
    MaxSchema   \* bound on activated schema versions

ASSUME CatalogAssumption ==
    /\ NVshards \in Nat \ {0}
    /\ Shard0 \in Shards
    /\ MaxSchema \in Nat

VARIABLES
    ranges,     \* catalog_ranges
    epoch,      \* catalog_epoch of scope schema
    ops,        \* catalog_topology_operations
    cuts,       \* the migrations with a cutover:<migId> row in catalog_meta
    schema,     \* active schema version
    migrating   \* a schema migration is under way (status is not active)

vars == <<ranges, epoch, ops, cuts, schema, migrating>>

Vshards  == 0..(NVshards - 1)
VRanges  == [lo : Vshards, hi : Vshards, shard : Shards]
Status   == {"absent", "active", "completed", "aborted"}
Ops      == [status : Status, from : Shards, to : Shards, lo : Vshards,
             hi : Vshards, start : Nat, schema : Nat]

TypeOK ==
    /\ ranges \subseteq VRanges
    /\ epoch \in Nat \ {0}
    /\ ops \in [Migs -> Ops]
    /\ cuts \subseteq Migs
    /\ schema \in Nat
    /\ migrating \in BOOLEAN

-----------------------------------------------------------------------------
(* VshardMap.                                                              *)

Covers(r, v) == r.lo <= v /\ v <= r.hi

\* routeVshard: the shard of the range that covers v.
RouteVshard(v) == (CHOOSE r \in ranges : Covers(r, v)).shard

OwnsRange(lo, hi, s) == \E r \in ranges : r.lo <= lo /\ hi <= r.hi /\ r.shard = s

\* split throws when lo..hi does not lie in one range, or is its shard's already.
Splittable(lo, hi, to) == \E r \in ranges : r.lo <= lo /\ hi <= r.hi /\ r.shard # to

\* Mutant: the left remainder keeps vshard lo.
PiecesOverlap(r, lo, hi, to) ==
    {[lo |-> lo, hi |-> hi, shard |-> to]}
    \cup (IF r.lo < lo THEN {[lo |-> r.lo, hi |-> lo, shard |-> r.shard]} ELSE {})
    \cup (IF hi < r.hi THEN {[lo |-> hi + 1, hi |-> r.hi, shard |-> r.shard]} ELSE {})

\* Mutant: empty remainders are inserted too.
PiecesEmpty(r, lo, hi, to) ==
    {[lo |-> lo, hi |-> hi, shard |-> to],
     [lo |-> r.lo, hi |-> lo - 1, shard |-> r.shard],
     [lo |-> hi + 1, hi |-> r.hi, shard |-> r.shard]}

\* The parts of range r left of lo, inside lo..hi and right of hi.
Pieces(r, lo, hi, to) ==
    {[lo |-> lo, hi |-> hi, shard |-> to]}
    \cup (IF r.lo < lo THEN {[lo |-> r.lo, hi |-> lo - 1, shard |-> r.shard]} ELSE {})
    \cup (IF hi < r.hi THEN {[lo |-> hi + 1, hi |-> r.hi, shard |-> r.shard]} ELSE {})

\* Mutant: the whole range that holds lo..hi moves.
SplitWhole(lo, hi, to) ==
    LET r == CHOOSE r \in ranges : r.lo <= lo /\ hi <= r.hi
    IN (ranges \ {r}) \cup {[r EXCEPT !.shard = to]}

Split(lo, hi, to) ==
    LET r == CHOOSE r \in ranges : r.lo <= lo /\ hi <= r.hi
    IN (ranges \ {r}) \cup Pieces(r, lo, hi, to)

-----------------------------------------------------------------------------
Absent == [status |-> "absent", from |-> Shard0, to |-> Shard0, lo |-> 0,
           hi |-> 0, start |-> 0, schema |-> 0]

Init ==
    /\ ranges = {[lo |-> 0, hi |-> NVshards - 1, shard |-> Shard0]}
    /\ epoch = 1
    /\ ops = [m \in Migs |-> Absent]
    /\ cuts = {}
    /\ schema = 0
    /\ migrating = FALSE

NoActive == \A m \in Migs : ops[m].status # "active"

\* CatalogTopologyOperationStore.begin for a new migration id.
Record(m, from, to, lo, hi, start) ==
    /\ ops[m].status = "absent"
    /\ NoActive
    /\ from # to
    /\ lo <= hi
    /\ ops' = [ops EXCEPT ![m] = [status |-> "active", from |-> from, to |-> to,
                                  lo |-> lo, hi |-> hi, start |-> start,
                                  schema |-> schema]]
    /\ UNCHANGED <<ranges, epoch, cuts, schema, migrating>>

\* beginTopologyOperation: the caller names the source and the epoch it read.
BeginTopologyOperation(m, from, to, lo, hi, start) ==
    /\ ~migrating
    /\ RouteVshard(lo) = from /\ RouteVshard(hi) = from
    /\ epoch = start
    /\ OwnsRange(lo, hi, from)
    /\ Record(m, from, to, lo, hi, start)

\* beginDerivedTopologyOperation: source and epoch are the current ones.
BeginDerivedTopologyOperation(m, to, lo, hi) ==
    /\ ~migrating
    /\ RouteVshard(lo) = RouteVshard(hi)
    /\ OwnsRange(lo, hi, RouteVshard(lo))
    /\ Record(m, RouteVshard(lo), to, lo, hi, epoch)

\* Mutant: no guard row; a repeated request is judged by the routing alone.
CutoverUnguarded(m) ==
    LET o == ops[m] IN
    /\ ~migrating
    /\ o.status \in {"active", "completed"}
    /\ schema = o.schema
    /\ o.status = "active" => epoch \in {o.start, o.start + 1}
    /\ RouteVshard(o.lo) = o.from /\ RouteVshard(o.hi) = o.from
    /\ Splittable(o.lo, o.hi, o.to)
    /\ ranges' = Split(o.lo, o.hi, o.to)
    /\ epoch' = epoch + 1
    /\ cuts' = cuts \cup {m}
    /\ UNCHANGED <<ops, schema, migrating>>

\* Mutant: the epoch is not bumped with the table.
CutoverSameEpoch(m) ==
    LET o == ops[m] IN
    /\ ~migrating
    /\ o.status = "active"
    /\ m \notin cuts
    /\ Splittable(o.lo, o.hi, o.to)
    /\ ranges' = Split(o.lo, o.hi, o.to)
    /\ cuts' = cuts \cup {m}
    /\ UNCHANGED <<epoch, ops, schema, migrating>>

\* cutover: the range table, the epoch and the guard row change together;
\* with the guard row present a repeated request changes nothing.
Cutover(m) ==
    LET o == ops[m] IN
    /\ ~migrating
    /\ o.status \in {"active", "completed"}
    /\ schema = o.schema
    /\ o.status = "active" => epoch \in {o.start, o.start + 1}
    /\ \/ m \in cuts /\ UNCHANGED <<ranges, epoch, cuts>>
       \/ /\ m \notin cuts
          /\ RouteVshard(o.lo) = o.from /\ RouteVshard(o.hi) = o.from
          /\ Splittable(o.lo, o.hi, o.to)
          /\ ranges' = Split(o.lo, o.hi, o.to)
          /\ epoch' = epoch + 1
          /\ cuts' = cuts \cup {m}
    /\ UNCHANGED <<ops, schema, migrating>>

\* The exact routing completeTopologyOperation and abortTopologyOperation ask for.
RoutedTo(o, s, e) ==
    /\ epoch = e
    /\ RouteVshard(o.lo) = s /\ RouteVshard(o.hi) = s
    /\ OwnsRange(o.lo, o.hi, s)

CompleteTopologyOperation(m) ==
    LET o == ops[m] IN
    /\ \/ o.status = "completed"
       \/ o.status = "active" /\ RoutedTo(o, o.to, o.start + 1)
    /\ ops' = [ops EXCEPT ![m].status = "completed"]
    /\ UNCHANGED <<ranges, epoch, cuts, schema, migrating>>

\* Mutant: abort does not look at the routing.
AbortUnchecked(m) ==
    /\ ops[m].status \in {"active", "aborted"}
    /\ ops' = [ops EXCEPT ![m].status = "aborted"]
    /\ UNCHANGED <<ranges, epoch, cuts, schema, migrating>>

AbortTopologyOperation(m) ==
    LET o == ops[m] IN
    /\ \/ o.status = "aborted"
       \/ o.status = "active" /\ RoutedTo(o, o.from, o.start)
    /\ ops' = [ops EXCEPT ![m].status = "aborted"]
    /\ UNCHANGED <<ranges, epoch, cuts, schema, migrating>>

\* Mutant: the lease is not consulted.
BeginSchemaChangeAnyway ==
    /\ ~migrating
    /\ schema < MaxSchema
    /\ migrating' = TRUE
    /\ UNCHANGED <<ranges, epoch, ops, cuts, schema>>

\* beginSchemaChange is refused while a topology operation is active.
BeginSchemaChange ==
    /\ NoActive
    /\ ~migrating
    /\ schema < MaxSchema
    /\ migrating' = TRUE
    /\ UNCHANGED <<ranges, epoch, ops, cuts, schema>>

\* Every shard has migrated and the target version is activated.
CompleteCatalogSchemaMigration ==
    /\ migrating
    /\ migrating' = FALSE
    /\ schema' = schema + 1
    /\ UNCHANGED <<ranges, epoch, ops, cuts>>

Next ==
    \/ \E m \in Migs, to \in Shards, lo, hi \in Vshards :
          \/ BeginDerivedTopologyOperation(m, to, lo, hi)
          \/ \E from \in Shards, start \in 1..epoch :
                BeginTopologyOperation(m, from, to, lo, hi, start)
    \/ \E m \in Migs :
          \/ Cutover(m)
          \/ CompleteTopologyOperation(m)
          \/ AbortTopologyOperation(m)
    \/ BeginSchemaChange
    \/ CompleteCatalogSchemaMigration

Spec == Init /\ [][Next]_vars

-----------------------------------------------------------------------------
(* Correctness.                                                            *)

\* VshardMap.assertContiguous: the ranges left by any sequence of splits
\* still cover every vshard, each exactly once.
Contiguous ==
    /\ \A v \in Vshards : \E r \in ranges : Covers(r, v)
    /\ \A r, s \in ranges : \A v \in Vshards : Covers(r, v) /\ Covers(s, v) => r = s

\* catalog_topology_operations_one_active.
OneLease ==
    \A m, n \in Migs :
        ops[m].status = "active" /\ ops[n].status = "active" => m = n

\* While a lease is active its range has one exact owner: the source at the
\* start epoch before cutover, the destination one epoch later after it.  So
\* topologyRoutingStatus always finds an answer, and of abort and complete
\* exactly one is possible.
LeaseDecided ==
    \A m \in Migs : ops[m].status = "active" =>
        LET o == ops[m] IN
        IF m \in cuts THEN RoutedTo(o, o.to, o.start + 1)
                      ELSE RoutedTo(o, o.from, o.start)

\* The recorded outcome is what happened to the range: completed operations
\* were cut over, aborted ones never were and never will be.
OutcomeMatchesRouting ==
    \A m \in Migs :
        /\ ops[m].status = "completed" => m \in cuts
        /\ ops[m].status \in {"absent", "aborted"} => m \notin cuts

\* No schema migration starts under an active lease, so its cutover is never
\* refused for a changed schema.
LeasePinsSchema ==
    \A m \in Migs : ops[m].status = "active" => ~migrating /\ schema = ops[m].schema

\* A vshard changes its owner only inside the range of the one active lease,
\* from its source to its destination, once, and in a new generation: no
\* repeated, delayed or foreign cutover moves anything.
MoveUnderLease ==
    \A v \in Vshards : RouteVshard(v)' # RouteVshard(v) =>
        \E m \in Migs :
            /\ ops[m].status = "active" /\ m \notin cuts /\ m \in cuts'
            /\ ops[m].lo <= v /\ v <= ops[m].hi
            /\ RouteVshard(v) = ops[m].from /\ RouteVshard(v)' = ops[m].to
            /\ epoch' = ops[m].start + 1

MovesUnderLease == [][MoveUnderLease]_vars

\* The routing table as its readers see it.
Routing == INSTANCE RoutingMap
    WITH owner <- [v \in Vshards |-> RouteVshard(v)],
         gen   <- epoch

\* Every change of the table moves one whole range between two shards and is
\* one routing generation (the Catalog implements RoutingMap).
RoutingSteps == Routing!Spec

=============================================================================
