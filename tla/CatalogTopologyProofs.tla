------------------------ MODULE CatalogTopologyProofs ------------------------
(***************************************************************************)
(* The Catalog's routing table and lease, proved for every number of       *)
(* vshards, shards and migrations.                                         *)
(***************************************************************************)
EXTENDS CatalogTopology, TLAPS

\* Operations on record move a nonempty range between two different shards.
WellFormedOps ==
    \A m \in Migs : ops[m].status # "absent" =>
        ops[m].lo <= ops[m].hi /\ ops[m].from # ops[m].to

\* The inductive invariant.  OneLease and OutcomeMatchesRouting are what makes
\* LeaseDecided stable under the steps of other migrations, Contiguous what
\* turns the ownership of the end points into that of the whole range.
Inv ==
    /\ TypeOK
    /\ WellFormedOps
    /\ Contiguous
    /\ OneLease
    /\ LeaseDecided
    /\ OutcomeMatchesRouting
    /\ LeasePinsSchema

-----------------------------------------------------------------------------
\* In a set of ranges that covers v at most once, the covering range is the
\* one routeVshard finds.
LEMMA RouteIsCover ==
    ASSUME NEW S, NEW v, NEW r \in S, Covers(r, v),
           \A a, b \in S : Covers(a, v) /\ Covers(b, v) => a = b
    PROVE  (CHOOSE x \in S : Covers(x, v)) = r
<1>1. \E x \in S : Covers(x, v)
    OBVIOUS
<1>2. (CHOOSE x \in S : Covers(x, v)) \in S /\ Covers((CHOOSE x \in S : Covers(x, v)), v)
    BY <1>1
<1> QED
    BY <1>2

\* ownsRange means that every vshard of the range routes to the shard.
LEMMA OwnedRoutes ==
    ASSUME TypeOK, Contiguous,
           NEW lo \in Vshards, NEW hi \in Vshards, NEW s, OwnsRange(lo, hi, s),
           NEW v \in Vshards, lo <= v, v <= hi
    PROVE  RouteVshard(v) = s
<1>1. PICK r \in ranges : r.lo <= lo /\ hi <= r.hi /\ r.shard = s
    BY DEF OwnsRange
<1>2. r \in VRanges
    BY DEF TypeOK
<1>3. Covers(r, v)
    BY <1>1, <1>2, CatalogAssumption DEF Covers, VRanges, Vshards
<1>4. \A a, b \in ranges : Covers(a, v) /\ Covers(b, v) => a = b
    BY DEF Contiguous
<1>5. (CHOOSE x \in ranges : Covers(x, v)) = r
    BY <1>3, <1>4, RouteIsCover
<1> QED
    BY <1>1, <1>5 DEF RouteVshard

\* What VshardMap.split does to routing: the moved range routes to its new
\* shard, every other vshard as before, and the ranges stay contiguous.
LEMMA SplitRoutes ==
    ASSUME TypeOK, Contiguous,
           NEW lo \in Vshards, NEW hi \in Vshards, lo <= hi,
           NEW to \in Shards, Splittable(lo, hi, to),
           ranges' = Split(lo, hi, to)
    PROVE  /\ ranges' \subseteq VRanges
           /\ Contiguous'
           /\ OwnsRange(lo, hi, to)'
           /\ \A v \in Vshards :
                 RouteVshard(v)' = IF lo <= v /\ v <= hi THEN to ELSE RouteVshard(v)
<1> DEFINE r == CHOOSE x \in ranges : x.lo <= lo /\ hi <= x.hi
           new == [lo |-> lo, hi |-> hi, shard |-> to]
           left == [lo |-> r.lo, hi |-> lo - 1, shard |-> r.shard]
           right == [lo |-> hi + 1, hi |-> r.hi, shard |-> r.shard]
<1>1. r \in ranges /\ r.lo <= lo /\ hi <= r.hi
    BY DEF Splittable
<1>2. r \in VRanges
    BY <1>1 DEF TypeOK
<1>3. ranges' = (ranges \ {r}) \cup Pieces(r, lo, hi, to)
    BY DEF Split
<1> HIDE DEF r
<1>4. ranges' = (ranges \ {r}) \cup {new}
                \cup (IF r.lo < lo THEN {left} ELSE {})
                \cup (IF hi < r.hi THEN {right} ELSE {})
    BY <1>3 DEF Pieces
<1>t. /\ lo \in Int /\ hi \in Int /\ r.lo \in Int /\ r.hi \in Int
      /\ 0 <= r.lo /\ r.hi <= NVshards - 1 /\ NVshards \in Int
    BY <1>2, CatalogAssumption DEF VRanges, Vshards
<1>5. new \in VRanges
    BY DEF VRanges
<1>6. r.lo < lo => left \in VRanges
    BY <1>2, <1>t DEF VRanges, Vshards
<1>7. hi < r.hi => right \in VRanges
    BY <1>2, <1>t DEF VRanges, Vshards
<1>8. ranges' \subseteq VRanges
    BY <1>4, <1>5, <1>6, <1>7 DEF TypeOK
<1>9. ASSUME NEW v \in Vshards
      PROVE  /\ v \in Int
             /\ Covers(new, v) <=> (lo <= v /\ v <= hi)
             /\ Covers(left, v) <=> (r.lo <= v /\ v < lo)
             /\ Covers(right, v) <=> (hi < v /\ v <= r.hi)
             /\ Covers(r, v) <=> (r.lo <= v /\ v <= r.hi)
    BY <1>t DEF Covers, Vshards
<1> HIDE DEF new, left, right
\* A vshard outside r is covered by the same ranges as before.
<1>10. ASSUME NEW v \in Vshards, ~Covers(r, v), NEW x \in ranges', Covers(x, v)
       PROVE  x \in ranges /\ x # r
    <2>1. x # new
        BY <1>1, <1>9, <1>10, <1>t
    <2>2. ~(r.lo < lo /\ x = left)
        BY <1>1, <1>9, <1>10, <1>t
    <2>3. ~(hi < r.hi /\ x = right)
        BY <1>1, <1>9, <1>10, <1>t
    <2> QED
        BY <1>4, <1>10, <2>1, <2>2, <2>3
\* A vshard inside r is covered by one of the pieces and by nothing else.
<1>11. ASSUME NEW v \in Vshards, Covers(r, v), NEW x \in ranges', Covers(x, v)
       PROVE  x = IF v < lo THEN left ELSE IF hi < v THEN right ELSE new
    <2>1. ~(x \in ranges /\ x # r)
        BY <1>1, <1>11 DEF Contiguous
    <2>2. x \in {new, left, right}
        BY <1>4, <2>1
    <2> QED
        BY <1>1, <1>9, <1>11, <1>t, <2>2
<1>12. ASSUME NEW v \in Vshards, Covers(r, v)
       PROVE  LET p == IF v < lo THEN left ELSE IF hi < v THEN right ELSE new
              IN p \in ranges' /\ Covers(p, v)
    BY <1>1, <1>4, <1>9, <1>12, <1>t
<1>13. ASSUME NEW v \in Vshards
       PROVE  \A a, b \in ranges' : Covers(a, v) /\ Covers(b, v) => a = b
    <2>1. CASE Covers(r, v)
        BY <1>11, <2>1
    <2>2. CASE ~Covers(r, v)
        BY <1>10, <2>2 DEF Contiguous
    <2> QED
        BY <2>1, <2>2
<1>14. ASSUME NEW v \in Vshards
       PROVE  \E x \in ranges' : Covers(x, v)
    <2>1. CASE Covers(r, v)
        BY <1>12, <2>1
    <2>2. CASE ~Covers(r, v)
        <3>1. PICK x \in ranges : Covers(x, v)
            BY DEF Contiguous
        <3>2. x # r
            BY <2>2, <3>1
        <3> QED
            BY <1>4, <3>1, <3>2
    <2> QED
        BY <2>1, <2>2
<1>15. Contiguous'
    BY <1>13, <1>14 DEF Contiguous
<1>16. OwnsRange(lo, hi, to)'
    <2>1. new \in ranges'
        BY <1>4
    <2>2. new.lo <= lo /\ hi <= new.hi /\ new.shard = to
        BY <1>t DEF new
    <2> QED
        BY <2>1, <2>2 DEF OwnsRange
<1>17. ASSUME NEW v \in Vshards
       PROVE  RouteVshard(v)' = IF lo <= v /\ v <= hi THEN to ELSE RouteVshard(v)
    <2>1. \A a, b \in ranges : Covers(a, v) /\ Covers(b, v) => a = b
        BY DEF Contiguous
    <2>2. CASE Covers(r, v)
        <3> DEFINE p == IF v < lo THEN left ELSE IF hi < v THEN right ELSE new
        <3>1. p \in ranges' /\ Covers(p, v)
            BY <1>12, <2>2
        <3>2. (CHOOSE x \in ranges' : Covers(x, v)) = p
            <4> HIDE DEF p
            <4> QED BY <1>13, <3>1, RouteIsCover
        <3>3. (CHOOSE x \in ranges : Covers(x, v)) = r
            BY <1>1, <2>1, <2>2, RouteIsCover
        <3>4. RouteVshard(v)' = p.shard /\ RouteVshard(v) = r.shard
            BY <3>2, <3>3 DEF RouteVshard
        <3>5. left.shard = r.shard /\ right.shard = r.shard /\ new.shard = to
            BY DEF left, right, new
        <3> QED
            BY <1>9, <1>t, <3>4, <3>5
    <2>3. CASE ~Covers(r, v)
        <3>1. PICK x \in ranges : Covers(x, v)
            BY DEF Contiguous
        <3>2. x \in ranges'
            BY <1>4, <2>3, <3>1
        <3>3. (CHOOSE y \in ranges : Covers(y, v)) = x
            BY <2>1, <3>1, RouteIsCover
        <3>4. (CHOOSE y \in ranges' : Covers(y, v)) = x
            BY <1>13, <3>1, <3>2, RouteIsCover
        <3>5. ~(lo <= v /\ v <= hi)
            BY <1>1, <1>9, <1>t, <2>3
        <3>6. RouteVshard(v) = x.shard
            BY <3>3 DEF RouteVshard
        <3>7. RouteVshard(v)' = x.shard
            BY <3>4 DEF RouteVshard
        <3> QED
            BY <3>5, <3>6, <3>7
    <2> QED
        BY <2>2, <2>3
<1> QED
    BY <1>8, <1>15, <1>16, <1>17

\* Routing answers depend on the range table and the epoch only.
LEMMA SameTable ==
    ASSUME ranges' = ranges, epoch' = epoch
    PROVE  /\ Contiguous <=> Contiguous'
           /\ \A v : RouteVshard(v)' = RouteVshard(v)
           /\ \A o, s, e : RoutedTo(o, s, e)' <=> RoutedTo(o, s, e)
<1>1. \A v : RouteVshard(v)' = RouteVshard(v)
    BY DEF RouteVshard
<1>2. \A lo, hi, s : OwnsRange(lo, hi, s)' <=> OwnsRange(lo, hi, s)
    BY DEF OwnsRange
<1>3. Contiguous <=> Contiguous'
    BY DEF Contiguous
<1> QED
    BY <1>1, <1>2, <1>3 DEF RoutedTo

\* The recorded operations keep their status: the lease invariants survive a
\* step that changes neither them nor the routing.
LEMMA RecordKeepsInv ==
    ASSUME Inv, NEW m \in Migs, NEW from \in Shards, NEW to \in Shards,
           NEW lo \in Vshards, NEW hi \in Vshards, NEW start \in Nat,
           ~migrating, epoch = start,
           RouteVshard(lo) = from, RouteVshard(hi) = from, OwnsRange(lo, hi, from),
           Record(m, from, to, lo, hi, start)
    PROVE  Inv'
<1>0. PICK o : o = [status |-> "active", from |-> from, to |-> to, lo |-> lo,
                    hi |-> hi, start |-> start, schema |-> schema]
    OBVIOUS
<1>1. /\ ops' = [ops EXCEPT ![m] = o]
      /\ ranges' = ranges /\ epoch' = epoch /\ cuts' = cuts
      /\ schema' = schema /\ migrating' = migrating
      /\ ops[m].status = "absent" /\ NoActive /\ from # to /\ lo <= hi
    BY <1>0 DEF Record
<1>2. TypeOK
    BY DEF Inv
<1>3. o \in Ops
    BY <1>0, <1>2 DEF TypeOK, Ops, Status
<1>4. TypeOK'
    BY <1>1, <1>2, <1>3 DEF TypeOK
<1>5. /\ ops'[m] = o
      /\ \A n \in Migs : n # m => ops'[n] = ops[n] /\ ops'[n].status # "active"
    BY <1>1, <1>2 DEF TypeOK, NoActive
<1>6. m \notin cuts
    BY <1>1 DEF Inv, OutcomeMatchesRouting
<1>7. WellFormedOps'
    BY <1>0, <1>1, <1>5 DEF Inv, WellFormedOps
<1>8. Contiguous' /\ RoutedTo(o, from, start)'
    <2>1. RoutedTo(o, from, start)
        BY <1>0 DEF RoutedTo
    <2> QED
        BY <1>1, <2>1, SameTable DEF Inv
<1>9. OneLease'
    BY <1>5 DEF OneLease
<1>10. LeaseDecided'
    BY <1>0, <1>1, <1>5, <1>6, <1>8 DEF LeaseDecided
<1>11. OutcomeMatchesRouting'
    BY <1>0, <1>1, <1>5, <1>6 DEF Inv, OutcomeMatchesRouting
<1>12. LeasePinsSchema'
    BY <1>0, <1>1, <1>5 DEF LeasePinsSchema
<1> QED
    BY <1>4, <1>7, <1>8, <1>9, <1>10, <1>11, <1>12 DEF Inv

\* A first cutover happens under an active lease, from the exact start
\* epoch, and no other lease is active.
LEMMA FirstCutover ==
    ASSUME Inv, NEW m \in Migs, Cutover(m), m \notin cuts
    PROVE  /\ ops[m].status = "active"
           /\ epoch = ops[m].start
           /\ OwnsRange(ops[m].lo, ops[m].hi, ops[m].from)
           /\ ops[m] \in Ops /\ ops[m].lo <= ops[m].hi /\ ops[m].from # ops[m].to
           /\ \A n \in Migs : n # m => ops[n].status # "active"
<1>1. ops[m].status = "active"
    BY DEF Cutover, Inv, OutcomeMatchesRouting
<1>2. RoutedTo(ops[m], ops[m].from, ops[m].start)
    BY <1>1 DEF Inv, LeaseDecided
<1>3. ops[m] \in Ops
    BY DEF Inv, TypeOK
<1>4. ops[m].lo <= ops[m].hi /\ ops[m].from # ops[m].to
    BY <1>1 DEF Inv, WellFormedOps
<1>5. \A n \in Migs : n # m => ops[n].status # "active"
    BY <1>1 DEF Inv, OneLease
<1> QED
    BY <1>1, <1>2, <1>3, <1>4, <1>5 DEF RoutedTo

\* The first cutover of a movement moves its range to its destination.
LEMMA CutoverKeepsInv ==
    ASSUME Inv, NEW m \in Migs, Cutover(m), m \notin cuts
    PROVE  Inv'
<1>0. PICK o : o = ops[m]
    OBVIOUS
<1>1. /\ Splittable(o.lo, o.hi, o.to)
      /\ ranges' = Split(o.lo, o.hi, o.to)
      /\ epoch' = epoch + 1
      /\ cuts' = cuts \cup {m}
      /\ ops' = ops /\ schema' = schema /\ migrating' = migrating
    BY <1>0 DEF Cutover
<1>2. TypeOK /\ Contiguous
    BY DEF Inv
<1>3. /\ o.status = "active" /\ epoch = o.start /\ o \in Ops
      /\ o.lo \in Vshards /\ o.hi \in Vshards /\ o.to \in Shards
      /\ o.lo <= o.hi
      /\ \A n \in Migs : n # m => ops[n].status # "active"
    BY <1>0, FirstCutover DEF Ops
<1>4. /\ ranges' \subseteq VRanges
      /\ Contiguous'
      /\ OwnsRange(o.lo, o.hi, o.to)'
      /\ \A v \in Vshards :
            RouteVshard(v)' = IF o.lo <= v /\ v <= o.hi THEN o.to ELSE RouteVshard(v)
    BY <1>1, <1>2, <1>3, SplitRoutes
<1>5. TypeOK'
    BY <1>1, <1>2, <1>4 DEF TypeOK
<1>6. RouteVshard(o.lo)' = o.to /\ RouteVshard(o.hi)' = o.to
    BY <1>3, <1>4 DEF Vshards
<1>7. RoutedTo(o, o.to, o.start + 1)'
    BY <1>1, <1>3, <1>4, <1>6 DEF RoutedTo
<1>8. LeaseDecided'
    BY <1>0, <1>1, <1>3, <1>7 DEF LeaseDecided
<1>9. OutcomeMatchesRouting'
    BY <1>0, <1>1, <1>3 DEF Inv, OutcomeMatchesRouting
<1>10. WellFormedOps' /\ OneLease' /\ LeasePinsSchema'
    BY <1>1 DEF Inv, WellFormedOps, OneLease, LeasePinsSchema
<1> QED
    BY <1>4, <1>5, <1>8, <1>9, <1>10 DEF Inv

\* The first table is one range over all vshards.
LEMMA InitInv == Init => Inv
<1> SUFFICES ASSUME Init PROVE Inv
    OBVIOUS
<1> DEFINE all == [lo |-> 0, hi |-> NVshards - 1, shard |-> Shard0]
<1> USE CatalogAssumption
<1>1. ranges = {all} /\ 0 \in Vshards /\ NVshards - 1 \in Vshards
    BY DEF Init, Vshards
<1>2. all \in VRanges
    BY <1>1 DEF VRanges
<1>3. Absent \in Ops
    BY <1>1 DEF Absent, Ops, Status
<1>4. \A m \in Migs : ops[m] = Absent /\ ops[m].status = "absent"
    BY DEF Init, Absent
<1>5. TypeOK
    <2>1. ops \in [Migs -> Ops]
        BY <1>3 DEF Init
    <2>2. ranges \subseteq VRanges
        BY <1>1, <1>2
    <2>3. epoch \in Nat \ {0} /\ schema \in Nat
        BY DEF Init
    <2>4. cuts \subseteq Migs /\ migrating \in BOOLEAN
        BY Zenon DEF Init
    <2> QED
        BY <2>1, <2>2, <2>3, <2>4 DEF TypeOK
<1>6. \A v \in Vshards : Covers(all, v)
    BY DEF Covers, Vshards
<1>7. Contiguous
    BY <1>1, <1>6 DEF Contiguous
<1>8. cuts = {}
    BY DEF Init
<1> QED
    BY <1>4, <1>5, <1>7, <1>8
    DEF Inv, WellFormedOps, OneLease, LeaseDecided, OutcomeMatchesRouting, LeasePinsSchema

\* A closed lease only changes its status, and no lease loses its range.
LEMMA CloseKeepsInv ==
    ASSUME Inv, NEW m \in Migs, NEW s \in {"completed", "aborted"},
           ops[m].status \in {"active", s},
           s = "completed" <=> m \in cuts,
           ops' = [ops EXCEPT ![m].status = s],
           UNCHANGED <<ranges, epoch, cuts, schema, migrating>>
    PROVE  Inv'
<1>1. /\ ops'[m] = [ops[m] EXCEPT !.status = s]
      /\ \A n \in Migs : n # m => ops'[n] = ops[n]
      /\ ops[m] \in Ops
    BY DEF Inv, TypeOK
<1>2. /\ ops'[m].status = s /\ ops'[m] \in Ops
      /\ ops'[m].lo = ops[m].lo /\ ops'[m].hi = ops[m].hi
      /\ ops'[m].from = ops[m].from /\ ops'[m].to = ops[m].to
    BY <1>1 DEF Ops, Status
<1>3. TypeOK'
    BY <1>2 DEF Inv, TypeOK
<1>4. WellFormedOps'
    BY <1>1, <1>2 DEF Inv, WellFormedOps
<1>5. Contiguous' /\ \A o, t, e : RoutedTo(o, t, e)' <=> RoutedTo(o, t, e)
    BY SameTable DEF Inv
<1>6. OneLease'
    BY <1>1, <1>2 DEF Inv, OneLease
<1>7. LeaseDecided'
    <2>1. ASSUME NEW n \in Migs, ops'[n].status = "active"
          PROVE  ops'[n] = ops[n] /\ ops[n].status = "active"
        BY <1>1, <1>2, <2>1
    <2> QED
        BY <1>5, <2>1 DEF Inv, LeaseDecided
<1>8. OutcomeMatchesRouting'
    BY <1>1, <1>2 DEF Inv, OutcomeMatchesRouting
<1>9. LeasePinsSchema'
    BY <1>1, <1>2 DEF Inv, LeasePinsSchema
<1> QED
    BY <1>3, <1>4, <1>5, <1>6, <1>7, <1>8, <1>9 DEF Inv

\* A step that changes the schema state only, while no lease is active, or
\* nothing at all.
LEMMA SchemaKeepsInv ==
    ASSUME Inv, ops' = ops, ranges' = ranges, epoch' = epoch, cuts' = cuts,
           schema' \in Nat, migrating' \in BOOLEAN,
           (schema' = schema /\ migrating' = migrating) \/ NoActive
    PROVE  Inv'
<1>1. TypeOK'
    BY DEF Inv, TypeOK
<1>2. Contiguous' /\ \A o, t, e : RoutedTo(o, t, e)' <=> RoutedTo(o, t, e)
    BY SameTable DEF Inv
<1>3. WellFormedOps' /\ OneLease' /\ OutcomeMatchesRouting'
    BY DEF Inv, WellFormedOps, OneLease, OutcomeMatchesRouting
<1>4. LeaseDecided'
    BY <1>2 DEF Inv, LeaseDecided
<1>5. LeasePinsSchema'
    BY DEF Inv, LeasePinsSchema, NoActive
<1> QED
    BY <1>1, <1>2, <1>3, <1>4, <1>5 DEF Inv

\* Every Catalog operation preserves the invariant.
LEMMA NextKeepsInv == Inv /\ [Next]_vars => Inv'
<1> SUFFICES ASSUME Inv, [Next]_vars PROVE Inv'
    OBVIOUS
<1>t. epoch \in Nat /\ schema \in Nat
    BY DEF Inv, TypeOK
<1>1. ASSUME NEW m \in Migs, NEW to \in Shards, NEW lo \in Vshards, NEW hi \in Vshards,
             BeginDerivedTopologyOperation(m, to, lo, hi)
      PROVE  Inv'
    <2>1. PICK from : from = RouteVshard(lo)
        OBVIOUS
    <2>2. PICK start : start = epoch
        OBVIOUS
    <2>3. from \in Shards
        BY <1>1, <2>1 DEF BeginDerivedTopologyOperation, OwnsRange, Inv, TypeOK, VRanges
    <2> QED
        BY <1>1, <1>t, <2>1, <2>2, <2>3, RecordKeepsInv DEF BeginDerivedTopologyOperation
<1>2. ASSUME NEW m \in Migs, NEW to \in Shards, NEW lo \in Vshards, NEW hi \in Vshards,
             NEW from \in Shards, NEW start \in 1..epoch,
             BeginTopologyOperation(m, from, to, lo, hi, start)
      PROVE  Inv'
    <2>1. start \in Nat
        BY <1>t
    <2> QED
        BY <1>2, <2>1, RecordKeepsInv DEF BeginTopologyOperation
<1>3. ASSUME NEW m \in Migs, Cutover(m)
      PROVE  Inv'
    <2>1. CASE m \notin cuts
        BY <1>3, <2>1, CutoverKeepsInv
    <2>2. CASE m \in cuts
        <3>1. UNCHANGED <<ops, ranges, epoch, cuts, schema, migrating>>
            BY <1>3, <2>2 DEF Cutover
        <3>2. schema' \in Nat /\ migrating' \in BOOLEAN
            BY <3>1 DEF Inv, TypeOK
        <3> QED
            BY <3>1, <3>2, SchemaKeepsInv
    <2> QED
        BY <2>1, <2>2
<1>4. ASSUME NEW m \in Migs, CompleteTopologyOperation(m)
      PROVE  Inv'
    <2>1. CASE ops[m].status = "completed"
        BY <1>4, <2>1, CloseKeepsInv DEF CompleteTopologyOperation, Inv, OutcomeMatchesRouting
    <2>2. CASE ops[m].status # "completed"
        <3>1. ops[m].status = "active" /\ RoutedTo(ops[m], ops[m].to, ops[m].start + 1)
            BY <1>4, <2>2 DEF CompleteTopologyOperation
        <3>2. m \in cuts
            BY <1>t, <3>1 DEF Inv, TypeOK, Ops, LeaseDecided, RoutedTo
        <3> QED
            BY <1>4, <3>1, <3>2, CloseKeepsInv DEF CompleteTopologyOperation
    <2> QED
        BY <2>1, <2>2
<1>5. ASSUME NEW m \in Migs, AbortTopologyOperation(m)
      PROVE  Inv'
    <2>1. CASE ops[m].status = "aborted"
        BY <1>5, <2>1, CloseKeepsInv DEF AbortTopologyOperation, Inv, OutcomeMatchesRouting
    <2>2. CASE ops[m].status # "aborted"
        <3>1. ops[m].status = "active" /\ RoutedTo(ops[m], ops[m].from, ops[m].start)
            BY <1>5, <2>2 DEF AbortTopologyOperation
        <3>2. m \notin cuts
            BY <1>t, <3>1 DEF Inv, TypeOK, Ops, LeaseDecided, RoutedTo
        <3> QED
            BY <1>5, <3>1, <3>2, CloseKeepsInv DEF AbortTopologyOperation
    <2> QED
        BY <2>1, <2>2
<1>6. CASE BeginSchemaChange
    BY <1>6, <1>t, SchemaKeepsInv DEF BeginSchemaChange
<1>7. CASE CompleteCatalogSchemaMigration
    <2>1. NoActive
        BY <1>7 DEF CompleteCatalogSchemaMigration, Inv, LeasePinsSchema, NoActive
    <2>2. /\ ops' = ops /\ ranges' = ranges /\ epoch' = epoch /\ cuts' = cuts
          /\ schema' = schema + 1 /\ migrating' = FALSE
        BY <1>7 DEF CompleteCatalogSchemaMigration
    <2>3. schema' \in Nat
        BY <1>t, <2>2
    <2>4. migrating' \in BOOLEAN
        BY <2>2, Zenon
    <2> QED
        BY <2>1, <2>2, <2>3, <2>4, SchemaKeepsInv
<1>8. CASE UNCHANGED vars
    <2>1. schema' \in Nat /\ migrating' \in BOOLEAN
        BY <1>8 DEF vars, Inv, TypeOK
    <2> QED
        BY <1>8, <2>1, SchemaKeepsInv DEF vars
<1> QED
    BY <1>1, <1>2, <1>3, <1>4, <1>5, <1>6, <1>7, <1>8 DEF Next

\* The invariant of the Catalog's routing and lease state: type correctness,
\* contiguity of the range table under any sequence of cutovers, one active
\* lease, and the agreement of leases, cutover rows, routing and schema.
THEOREM CatalogInvariant == Spec => []Inv
    BY InitInv, NextKeepsInv, PTL DEF Spec

\* Type correctness of the Catalog's routing and lease tables.
THEOREM CatalogTypeCorrect == Spec => []TypeOK
    BY CatalogInvariant, PTL DEF Inv

\* VshardMap.assertContiguous never throws: whatever cutovers happen, every
\* vshard has exactly one range.
THEOREM RangesContiguous == Spec => []Contiguous
    BY CatalogInvariant, PTL DEF Inv

\* An active lease always sits on exactly one of the two routings that
\* topologyRoutingStatus, complete and abort tell apart.
THEOREM LeaseAlwaysDecided == Spec => []LeaseDecided
    BY CatalogInvariant, PTL DEF Inv

\* Completed operations were cut over, aborted ones were not.
THEOREM OutcomesMatchRouting == Spec => []OutcomeMatchesRouting
    BY CatalogInvariant, PTL DEF Inv

\* A lease freezes the schema it was taken under.
THEOREM LeasesPinSchema == Spec => []LeasePinsSchema
    BY CatalogInvariant, PTL DEF Inv

-----------------------------------------------------------------------------
\* A step either leaves the routing answers alone or is the first cutover of
\* some migration.
LEMMA RoutingStepCases ==
    ASSUME [Next]_vars
    PROVE  \/ ranges' = ranges /\ epoch' = epoch
           \/ \E m \in Migs : Cutover(m) /\ m \notin cuts
    BY DEF Next, vars, BeginDerivedTopologyOperation, BeginTopologyOperation,
        Record, Cutover, CompleteTopologyOperation, AbortTopologyOperation,
        BeginSchemaChange, CompleteCatalogSchemaMigration

\* A vshard changes owner only by the first cutover of the lease it is in.
THEOREM OnlyLeasedMoves == Spec => MovesUnderLease
<1>1. Inv /\ [Next]_vars => [MoveUnderLease]_vars
    <2> SUFFICES ASSUME Inv, [Next]_vars, NEW v \in Vshards,
                        RouteVshard(v)' # RouteVshard(v)
                 PROVE  \E m \in Migs :
                            /\ ops[m].status = "active" /\ m \notin cuts /\ m \in cuts'
                            /\ ops[m].lo <= v /\ v <= ops[m].hi
                            /\ RouteVshard(v) = ops[m].from
                            /\ RouteVshard(v)' = ops[m].to
                            /\ epoch' = ops[m].start + 1
        BY DEF MoveUnderLease
    <2>1. ~(ranges' = ranges /\ epoch' = epoch)
        BY SameTable
    <2>2. PICK m \in Migs : Cutover(m) /\ m \notin cuts
        BY <2>1, RoutingStepCases
    <2>3. PICK lo, hi, s, t : /\ lo = ops[m].lo /\ hi = ops[m].hi
                              /\ s = ops[m].from /\ t = ops[m].to
        OBVIOUS
    <2>4. /\ lo \in Vshards /\ hi \in Vshards /\ s \in Shards /\ t \in Shards
          /\ lo <= hi /\ OwnsRange(lo, hi, s)
          /\ ops[m].status = "active" /\ epoch = ops[m].start
        BY <2>2, <2>3, FirstCutover DEF Ops
    <2>5. /\ Splittable(lo, hi, t) /\ ranges' = Split(lo, hi, t)
          /\ epoch' = epoch + 1 /\ cuts' = cuts \cup {m}
        BY <2>2, <2>3 DEF Cutover
    <2>6. TypeOK /\ Contiguous
        BY DEF Inv
    <2>7. RouteVshard(v)' = IF lo <= v /\ v <= hi THEN t ELSE RouteVshard(v)
        BY <2>4, <2>5, <2>6, SplitRoutes
    <2>8. lo <= v /\ v <= hi /\ RouteVshard(v)' = t
        BY <2>7
    <2>9. RouteVshard(v) = s
        BY <2>4, <2>6, <2>8, OwnedRoutes
    <2> QED
        BY <2>2, <2>3, <2>4, <2>5, <2>8, <2>9
<1> QED
    BY <1>1, CatalogInvariant, PTL DEF Spec, MovesUnderLease

\* The Catalog implements RoutingMap: in every behaviour, every change of the
\* routing moves one whole range between two shards in one new generation.
THEOREM CatalogImplementsRouting == Spec => RoutingSteps
<1> DEFINE owner == [v \in Vshards |-> RouteVshard(v)]
<1>1. Init => Routing!Init
    <2> SUFFICES ASSUME Init PROVE Routing!Init
        OBVIOUS
    <2> DEFINE all == [lo |-> 0, hi |-> NVshards - 1, shard |-> Shard0]
    <2>1. ranges = {all} /\ epoch = 1
        BY DEF Init
    <2>2. ASSUME NEW v \in Vshards
          PROVE  RouteVshard(v) = Shard0
        <3>1. Covers(all, v)
            BY CatalogAssumption DEF Covers, Vshards
        <3>2. all.shard = Shard0
            OBVIOUS
        <3> HIDE DEF all
        <3>3. (CHOOSE x \in ranges : Covers(x, v)) = all
            BY <2>1, <3>1, RouteIsCover
        <3>4. RouteVshard(v) = all.shard
            BY <3>3 DEF RouteVshard
        <3> QED
            BY <3>2, <3>4
    <2> QED
        BY <2>1, <2>2 DEF Routing!Init, Routing!Vshards, Vshards
<1>2. Inv /\ [Next]_vars => [Routing!Next]_<<owner, epoch>>
    <2> SUFFICES ASSUME Inv, [Next]_vars PROVE [Routing!Next]_<<owner, epoch>>
        OBVIOUS
    <2>1. CASE ranges' = ranges /\ epoch' = epoch
        BY <2>1, SameTable
    <2>2. CASE \E m \in Migs : Cutover(m) /\ m \notin cuts
        <3>1. PICK m \in Migs : Cutover(m) /\ m \notin cuts
            BY <2>2
        <3>2. PICK lo, hi, s, t : /\ lo = ops[m].lo /\ hi = ops[m].hi
                                  /\ s = ops[m].from /\ t = ops[m].to
            OBVIOUS
        <3>3. /\ lo \in Vshards /\ hi \in Vshards /\ s \in Shards /\ t \in Shards
              /\ lo <= hi /\ s # t /\ OwnsRange(lo, hi, s)
            BY <3>1, <3>2, FirstCutover DEF Ops
        <3>4. Splittable(lo, hi, t) /\ ranges' = Split(lo, hi, t) /\ epoch' = epoch + 1
            BY <3>1, <3>2 DEF Cutover
        <3>5. TypeOK /\ Contiguous
            BY DEF Inv
        <3>6. \A v \in Vshards :
                 RouteVshard(v)' = IF lo <= v /\ v <= hi THEN t ELSE RouteVshard(v)
            BY <3>3, <3>4, <3>5, SplitRoutes
        <3>7. \A v \in lo..hi : v \in Vshards /\ lo <= v /\ v <= hi
            BY <3>3, CatalogAssumption DEF Vshards
        <3>8. \A v \in lo..hi : owner[v] = s
            BY <3>3, <3>5, <3>7, OwnedRoutes
        <3>9. owner' = [v \in Vshards |-> IF v \in lo..hi THEN t ELSE owner[v]]
            <4>1. \A v \in Vshards : v \in lo..hi <=> lo <= v /\ v <= hi
                BY <3>3, CatalogAssumption DEF Vshards
            <4> QED
                BY <3>6, <4>1
        <3>10. Routing!Move(lo, hi, s, t)
            BY <3>3, <3>4, <3>8, <3>9 DEF Routing!Move, Routing!Vshards, Vshards
        <3> QED
            BY <3>3, <3>10 DEF Routing!Next, Routing!Vshards, Vshards
    <2> QED
        BY <2>1, <2>2, RoutingStepCases
<1> QED
    BY <1>1, <1>2, CatalogInvariant, PTL DEF Spec, RoutingSteps, Routing!Spec

=============================================================================
