------------------------------- MODULE Headroom -------------------------------
(***************************************************************************)
(* The headroom governor of the Resharder: a shard whose file passes the   *)
(* split mark reports its size, the governor scans its rows page by page   *)
(* on its alarm, cuts the heaviest range near half of its rows, claims the *)
(* Catalog's lease for the move and drives it.  Operators' movements,      *)
(* schema migrations and point-in-time recovery use the same Catalog.      *)
(*                                                                         *)
(* Sizes are in quarters of the mark, rows in batches that fill a quarter. *)
(* A page is a table; a tick reads one and drives one step (the code: 64   *)
(* and 32).  What a start waits for and what a step does in the shards are *)
(* StartIntent's and Resharder's.  Shard n stands for ShardDO_<n>.         *)
(***************************************************************************)
EXTENDS Integers, Sequences, FiniteSets

CONSTANT Mixes  \* bounds and faults: see MCResources

VARIABLES mix, s

vars == <<mix, s>>
On == mix.part = "headroom"

Mark == 4     \* CDB_AUTO_SPLIT_BYTES
Growth == 1   \* Mark \div HEADROOM_GROWTH_DIVISOR
MinShare == 8

Shards == 0..mix.moves          \* shard 0 and one destination per movement
Vs == DOMAIN mix.rows[1]
Tables == DOMAIN mix.rows
Nobody == [bytes |-> -1, judged |-> 0, mig |-> 0]
Idle == [at |-> "idle"]
NoScan == [shard |-> -2]
Max(S) == CHOOSE x \in S : \A y \in S : y <= x

Sum(f, lo, hi) == LET g[k \in lo..hi] == f[k] + (IF k = lo THEN 0 ELSE g[k - 1]) IN IF hi < lo THEN 0 ELSE g[hi]

Init ==
  /\ mix \in Mixes
  /\ s = [rows |-> mix.rows, owner |-> [v \in Vs |-> 0], high |-> [h \in Shards |-> IF h = 0 THEN mix.high ELSE 0],
          told |-> [h \in Shards |-> 0], hs |-> [h \in Shards |-> Nobody], alarm |-> FALSE, turn |-> Idle, scan |-> NoScan, moves |-> <<>>,
          lease |-> 0, gen |-> 0, active |-> FALSE, cgen |-> 0, armed |-> FALSE, rec |-> "idle", schema |-> "active",
          grows |-> 0, others |-> 0, faults |-> 0]

Fault == s.faults < mix.faults
Total(v) == LET f[t \in 0..Len(s.rows)] == IF t = 0 THEN 0 ELSE f[t - 1] + s.rows[t][v] IN f[Len(s.rows)]
Inflight == {h \in Shards : s.hs[h].mig # 0}

-----------------------------------------------------------------------------
(* cdb-headroom.ts: where to cut, and how to name the new shard.           *)

\* The routing map's ranges of shard h, in order.
RangesOf(owner, h) ==
  {r \in Vs \X Vs : /\ r[1] <= r[2] /\ \A v \in r[1]..r[2] : owner[v] = h
                    /\ \A v \in Vs : (v = r[1] - 1 \/ v = r[2] + 1) => owner[v] # h}

Abs(n) == IF n < 0 THEN -n ELSE n

\* Mutant: a small prefix is moved all the same.
WorthAny(rows, total) == TRUE
Worth(rows, total) == rows * MinShare >= total
\* Mutant: the cut stays before the middle.
StopsPastMiddle(next, rows, total) == 2 * next > total
Stops(next, rows, total) == Abs(2 * next - total) >= Abs(2 * rows - total)

\* The loop of suggestSplit over one range: the first cut whose next one is
\* not nearer half; the empty vshards after it go along.
Cut(lo, hi, count) ==
  LET Rows(k) == Sum(count, lo, k)
      total == Rows(hi)
      cuts == {k \in lo..(hi - 1) : count[k] > 0 /\ Rows(k) < total}
      Best(k) == \A j \in cuts : (k < j /\ \A i \in cuts : ~(k < i /\ i < j)) => Stops(Rows(j), Rows(k), total)
      best == {k \in cuts : Best(k) /\ \A i \in cuts : i < k => ~Best(i)}
  IN {[lo |-> lo, hi |-> Max({e \in k..(hi - 1) : \A v \in (k + 1)..e : count[v] = 0}), rows |-> Rows(k)] :
        k \in {b \in best : Worth(Rows(b), total)}}

\* suggestSplit: the first of the heaviest ranges, or nothing.
SuggestSplit(ranges, count) ==
  LET Weight(r) == Sum(count, r[1], r[2])
      heaviest == {r \in ranges : Weight(r) > 0 /\ \A q \in ranges : Weight(q) <= Weight(r)}
  IN IF heaviest = {} THEN {}
     ELSE LET r == CHOOSE r \in heaviest : \A q \in heaviest : r[1] <= q[1] IN Cut(r[1], r[2], count)

PastDestinations == {s.moves[m].dst : m \in {n \in DOMAIN s.moves : s.moves[n].at \notin {"claimed", "released"}}}

\* Mutant: only the shards that own a range count.
NextOfOwners(owner) == {Max({owner[v] : v \in Vs}) + 1}
\* nextShardId: a foreign name turns automatic splits off.
NextShardId(owner) ==
  LET named == {owner[v] : v \in Vs} \cup PastDestinations
  IN IF mix.foreign THEN {} ELSE {Max(named) + 1}

-----------------------------------------------------------------------------
(* Cdb: writes, and the size sample on its alarm.                          *)

\* The file never shrinks; a batch may fit in pages that a delete freed.
Write(v) ==
  /\ s.grows < mix.grows
  /\ \E grown \in {0, 1} :
       s' = [s EXCEPT !.rows[1][v] = @ + 1, !.high[s.owner[v]] = @ + grown, !.grows = @ + 1]

\* reportShardSize, once per step of growth (reportedSizeStep, in memory);
\* the Resharder keeps what it judged and arms the governor.
ReportShardSize(h) ==
  /\ s.high[h] >= Mark /\ s.told[h] # s.high[h]
  /\ s' = [s EXCEPT !.told[h] = s.high[h], !.hs[h].bytes = s.high[h], !.alarm = TRUE]
CdbRestarts(h) ==
  /\ Fault /\ s.told[h] > 0
  /\ s' = [s EXCEPT !.faults = @ + 1, !.told[h] = 0]

-----------------------------------------------------------------------------
(* The governor.  Ends leaves the alarm as it is, Again sets it.           *)

Ends(t) == s' = [t EXCEPT !.turn = Idle]
Again(t) == s' = [t EXCEPT !.turn = Idle, !.alarm = TRUE]

Judged(t, h) == [t EXCEPT !.hs[h].judged = t.hs[h].bytes, !.hs[h].mig = 0]

IsCandidate(h) == s.hs[h].bytes >= Mark /\ s.hs[h].bytes - s.hs[h].judged >= Growth
Candidates == {h \in Shards : IsCandidate(h)}
\* The largest file first, the first name of equals.
Candidate ==
  CHOOSE h \in Candidates : \A g \in Candidates : s.hs[g].bytes < s.hs[h].bytes \/ (s.hs[g].bytes = s.hs[h].bytes /\ h <= g)

\* alarm, up to the first call: drive what is inflight, else look for work.
Tick ==
  /\ s.alarm /\ s.turn = Idle
  /\ LET t == [s EXCEPT !.alarm = FALSE]
     IN IF Inflight # {}
          THEN LET h == CHOOSE h \in Inflight : TRUE
                   m == s.hs[h].mig
               IN IF s.moves[m].at \in {"claimed", "released"} THEN s' = [t EXCEPT !.turn = [at |-> "lost", shard |-> h, m |-> m]]
                  ELSE IF s.moves[m].at \in {"drained", "aborted"} THEN Again(Judged(t, h))
                  ELSE s' = [t EXCEPT !.turn = [at |-> "drive", shard |-> h, m |-> m]]
        ELSE IF Candidates = {} THEN Ends([t EXCEPT !.scan = NoScan])
        ELSE IF s.active THEN Again(t)
        ELSE s' = [t EXCEPT !.turn = [at |-> "topology", shard |-> Candidate, gen |-> s.gen]]

\* The scan is complete: nothing to move, or the claim.
Decide ==
  /\ s.turn.at = "decide"
  /\ \E move \in {SuggestSplit(RangesOf(s.turn.owner, s.turn.shard), s.scan.count)}, dst \in {NextShardId(s.turn.owner)} :
       IF move = {} \/ dst = {}
         THEN Ends([Judged(s, s.turn.shard) EXCEPT !.scan = NoScan])
         ELSE \E c \in move, d \in dst :
                s' = [s EXCEPT !.turn = [at |-> "claim", shard |-> s.turn.shard, gen |-> s.turn.gen, lo |-> c.lo, hi |-> c.hi, dst |-> d]]

\* Mutant: a lost claim is waited for.
IsLostClaimNever(m) == FALSE
\* A lease of this governor without a migration: it lost the start.
IsLostClaim(m) == s.moves[m].auto /\ s.moves[m].at = "claimed"

\* The answer of topology.
Topology ==
  /\ s.turn.at = "topology"
  /\ LET h == s.turn.shard
         scan == IF s.scan.shard = h THEN s.scan ELSE [shard |-> h, next |-> 1, count |-> [v \in Vs |-> 0]]
     IN IF s.schema # "active" THEN Again(s)
        ELSE IF s.lease # 0
          THEN IF IsLostClaim(s.lease) THEN s' = [s EXCEPT !.turn = [at |-> "release", m |-> s.lease]] ELSE Again(s)
        ELSE IF RangesOf(s.owner, h) = {} THEN Again([s EXCEPT !.hs[h] = Nobody])
        ELSE s' = [s EXCEPT !.scan = scan, !.turn = [at |-> IF scan.next > Len(s.rows) THEN "decide" ELSE "page",
                                                     shard |-> h, gen |-> @.gen, owner |-> s.owner]]

\* The rows of one table on the shard; the map is the one read before.
ReadHeadroomPage ==
  /\ s.turn.at = "page"
  /\ LET h == s.turn.shard
         scan == [s.scan EXCEPT !.next = @ + 1,
                                !.count = [v \in Vs |-> @[v] + IF s.owner[v] = h THEN s.rows[s.scan.next][v] ELSE 0]]
     IN IF scan.next <= Len(s.rows) THEN Again([s EXCEPT !.scan = scan])
        ELSE s' = [s EXCEPT !.scan = scan, !.turn.at = "decide"]

\* beginDerivedTopologyOperation: the Catalog derives the source from its map.
HasHistory == Len(s.moves) < mix.moves
CanClaim(lo, hi, gen) ==
  /\ ~s.armed /\ s.cgen = gen /\ s.schema = "active" /\ s.lease = 0 /\ HasHistory
  /\ \A v \in lo..hi : s.owner[v] = s.owner[lo]

Operation(src, dst, lo, hi, gen, auto, at) ==
  [src |-> src, dst |-> dst, lo |-> lo, hi |-> hi, gen |-> gen, auto |-> auto, at |-> at, intent |-> FALSE]

Claimed == [s EXCEPT !.moves = Append(@, Operation(s.owner[s.turn.lo], s.turn.dst, s.turn.lo, s.turn.hi, s.turn.gen, TRUE, "claimed")),
                     !.lease = Len(s.moves) + 1]

\* The transaction of startSplit: no recovery since, and the intent is durable.
Started(t, m) ==
  IF t.active \/ t.gen # t.moves[m].gen THEN Again(t)
  ELSE s' = [t EXCEPT !.moves[m].intent = TRUE, !.turn = [at |-> "start", shard |-> t.moves[m].src, m |-> m]]

\* The claim is refused, or granted and the answer lost, or granted for a
\* range that another shard owns by now, or recorded and started.
Claim ==
  /\ s.turn.at = "claim"
  /\ IF ~CanClaim(s.turn.lo, s.turn.hi, s.turn.gen) THEN Again(s)
     ELSE \/ /\ Fault
             /\ Again([Claimed EXCEPT !.faults = @ + 1])
          \/ LET m == Claimed.lease
                 h == s.turn.shard
             IN IF Claimed.moves[m].src # h THEN Again(Claimed)
                ELSE Started([Claimed EXCEPT !.scan = NoScan, !.hs[h].mig = m, !.hs[h].judged = s.hs[h].bytes], m)

\* beginTopologyOperation answers with the lease: the migration is recorded
\* and the intent cleared in one transaction.
StartSplit ==
  /\ s.turn.at = "start"
  /\ LET m == s.turn.m
     IN IF s.lease = m /\ ~s.armed /\ s.cgen = s.moves[m].gen
          THEN Again([s EXCEPT !.moves[m].at = "moving", !.moves[m].intent = FALSE])
          ELSE Again(s)

\* abortTopologyOperation with the clock's generation and the stored identity.
CanRelease(m) == s.lease = m /\ ~s.armed /\ s.cgen = s.gen /\ s.moves[m].gen = s.gen
Released(m) == IF CanRelease(m) THEN [s EXCEPT !.moves[m].at = "released", !.lease = 0] ELSE s

ReleaseClaim ==
  /\ s.turn.at = "release"
  /\ Again(Released(s.turn.m))

\* driveAutoSplit without a migration: release the lease if it is ours, with
\* a warning if that fails, and give the start up.
LostStart ==
  /\ s.turn.at = "lost"
  /\ Again(Judged(Released(s.turn.m), s.turn.shard))

\* A step of runSplit: the cutover, then the drain, which frees the lease.
Stepped(m) ==
  LET o == s.moves[m]
      moved == [v \in o.lo..o.hi |-> Total(v)]
  IN CASE o.at = "moving" ->
            [s EXCEPT !.moves[m].at = "cut", !.owner = [v \in Vs |-> IF v \in o.lo..o.hi THEN o.dst ELSE @[v]],
                      !.high[o.dst] = @ + Sum(moved, o.lo, o.hi)]
       [] o.at = "cut" -> [s EXCEPT !.moves[m].at = "drained", !.lease = 0]
       [] OTHER -> s
Aborted(m) == [s EXCEPT !.moves[m].at = "aborted", !.lease = 0]

DriveAutoSplit ==
  /\ s.turn.at = "drive"
  /\ Again(Stepped(s.turn.m))

\* A call fails: the governor backs off.  Errors for half an hour abort a
\* movement that can still abort.
CallFails ==
  /\ s.turn # Idle /\ Fault
  /\ LET t == [s EXCEPT !.faults = @ + 1]
     IN \/ Again(t)
        \/ /\ s.turn.at = "drive" /\ s.moves[s.turn.m].at = "moving"
           /\ Again([Aborted(s.turn.m) EXCEPT !.faults = @ + 1])

\* The object restarts: the scan is lost, an interrupted alarm is retried.
Restart ==
  /\ Fault
  /\ s' = [s EXCEPT !.faults = @ + 1, !.scan = NoScan, !.turn = Idle, !.alarm = @ \/ s.turn # Idle]

-----------------------------------------------------------------------------
(* The others: an operator's movement of a prefix to a new shard, an abort *)
(* of an automatic one, a schema migration, a restore.  A whole movement   *)
(* does not fit into the flight of one claim.                              *)

Other == s.others < mix.others
OperatorStarts ==
  /\ Other /\ ~s.active /\ s.lease = 0 /\ HasHistory /\ s.schema = "active" /\ ~s.armed /\ s.cgen = s.gen
  /\ \E h \in Shards : \E r \in RangesOf(s.owner, h) : \E hi \in r[1]..r[2] :
       LET dst == Max({s.owner[v] : v \in Vs} \cup {s.moves[m].dst : m \in DOMAIN s.moves}) + 1
       IN s' = [s EXCEPT !.moves = Append(@, Operation(h, dst, r[1], hi, s.gen, FALSE, "moving")), !.lease = Len(s.moves) + 1,
                         !.others = @ + 1]
OperatorSteps ==
  /\ s.lease # 0 /\ ~s.moves[s.lease].auto /\ s.turn.at # "claim"
  /\ s' = Stepped(s.lease)
OperatorAborts ==
  /\ Other /\ s.lease # 0 /\ s.moves[s.lease].at = "moving" /\ s.turn.at # "claim"
  /\ s' = [Aborted(s.lease) EXCEPT !.others = @ + 1]

SchemaBegins ==
  /\ Other /\ s.schema = "active" /\ s.lease = 0 /\ ~s.armed
  /\ s' = [s EXCEPT !.schema = "migrating", !.others = @ + 1]
SchemaEnds == s.schema # "active" /\ s' = [s EXCEPT !.schema = "active"]

\* The Catalog's inventory, before the claim.
RecoveryPreflight ==
  /\ Other /\ s.rec = "idle" /\ s.lease = 0 /\ s.schema = "active"
  /\ s' = [s EXCEPT !.rec = "ready", !.others = @ + 1]

\* Mutant: a start whose intent is durable does not hold recovery back.
ReshardingPhases == {m \in DOMAIN s.moves : s.moves[m].at \in {"moving", "cut"}}
Resharding == ReshardingPhases \cup {m \in DOMAIN s.moves : s.moves[m].intent}

\* claimPreparation.  overlap: also while the governor claims a lease, which
\* no row of the Resharder shows.
RecoveryClaim ==
  /\ s.rec = "ready" /\ Resharding = {}
  /\ mix.overlap \/ (s.turn = Idle /\ s.lease = 0)
  /\ s' = [s EXCEPT !.rec = "claimed", !.active = TRUE, !.gen = @ + 1]
\* A preflight that finds resharding, or a changed Catalog, is given up.
RecoveryRefused == s.rec = "ready" /\ (Resharding # {} \/ s.lease # 0) /\ s' = [s EXCEPT !.rec = "idle"]
\* assertNoActive at the Catalog; a refused one stays claimed and is retried.
RecoveryArms ==
  /\ s.rec = "claimed" /\ s.lease = 0 /\ s.schema = "active"
  /\ s' = [s EXCEPT !.rec = "armed", !.armed = TRUE, !.cgen = s.gen]
RecoveryEnds ==
  /\ s.rec = "armed"
  /\ s' = [s EXCEPT !.rec = "idle", !.armed = FALSE, !.active = FALSE]

-----------------------------------------------------------------------------
Govern == Tick \/ Topology \/ ReadHeadroomPage \/ Decide \/ Claim \/ StartSplit \/ ReleaseClaim \/ LostStart \/ DriveAutoSplit
Recover == RecoveryClaim \/ RecoveryRefused \/ RecoveryArms \/ RecoveryEnds

Next ==
  /\ On
  /\ \/ Govern \/ CallFails \/ Restart
     \/ \E v \in Vs : Write(v)
     \/ \E h \in Shards : ReportShardSize(h) \/ CdbRestarts(h)
     \/ OperatorStarts \/ OperatorSteps \/ OperatorAborts \/ SchemaBegins \/ SchemaEnds
     \/ RecoveryPreflight \/ Recover
  /\ UNCHANGED mix

Spec == Init /\ [][Next]_vars

\* The alarm and the calls of its turn come; movements, migrations and
\* restores that were begun are brought to their end.
Fairness ==
  /\ WF_s(On /\ Govern)
  /\ WF_s(On /\ \E h \in Shards : ReportShardSize(h))
  /\ WF_s(On /\ OperatorSteps) /\ WF_s(On /\ SchemaEnds) /\ WF_s(On /\ Recover)

FairSpec == Spec /\ Fairness

-----------------------------------------------------------------------------
\* Both sides of a suggested cut hold rows, no other cut of the range is
\* nearer half of them, an eighth moves at least, and the empty vshards after
\* it go along; nothing is suggested only if no cut of a heaviest range is
\* worth it (suggestSplit's early stop and its running minimum).
CutIsNearest ==
  \A h \in Shards :
    LET ranges == RangesOf(s.owner, h)
        count == [v \in Vs |-> Total(v)]
        Before(r, k) == Sum(count, r[1], k)
        Weight(r) == Sum(count, r[1], r[2])
        Splits(r) == {k \in r[1]..(r[2] - 1) : 0 < Before(r, k) /\ Before(r, k) < Weight(r)}
        Off(r, k) == Abs(2 * Before(r, k) - Weight(r))
        heavy == {r \in ranges : \A q \in ranges : Weight(q) <= Weight(r)}
        Nearest(r, k) == k \in Splits(r) /\ (\A j \in Splits(r) : Off(r, k) <= Off(r, j))
        Good(r, c) == /\ c.lo = r[1] /\ Nearest(r, c.hi) /\ c.rows = Before(r, c.hi) /\ MinShare * c.rows >= Weight(r)
                      /\ c.hi + 1 = r[2] \/ count[c.hi + 1] > 0
        move == SuggestSplit(ranges, count)
    IN /\ \A c \in move : \E r \in heavy : Good(r, c)
       /\ (move = {} /\ ranges # {}) =>
            \E r \in heavy : Splits(r) = {} \/ (\E k \in Splits(r) : Nearest(r, k) /\ MinShare * Before(r, k) < Weight(r))

\* A movement never goes to a shard that a movement was recorded for, or that
\* owns anything: nothing of an aborted one is found there.
DestinationIsFresh ==
  \A m \in DOMAIN s.moves : s.moves[m].at \notin {"claimed", "released"} =>
    /\ s.moves[m].dst # 0
    /\ \A n \in 1..(m - 1) : s.moves[n].at \in {"claimed", "released"} \/ s.moves[n].dst # s.moves[m].dst

\* One automatic split at a time, of the shard that it is recorded for, and
\* its migration holds the Catalog's lease until it ends.
OneSplit ==
  /\ Cardinality(Inflight) <= 1
  /\ \A h \in Inflight : s.moves[s.hs[h].mig].src = h
  /\ \A m \in DOMAIN s.moves : (s.moves[m].at \in {"moving", "cut"} \/ s.moves[m].intent) =>
       s.lease = m \/ s.moves[m].at \in {"claimed", "released"}

\* A restore and a movement exclude each other, at the Resharder and at the
\* Catalog, however the start of one and the claim of the other interleave.
RestoresAlone ==
  /\ s.active => ReshardingPhases = {}
  /\ s.armed => s.lease = 0

Safe == CutIsNearest /\ DestinationIsFresh /\ OneSplit /\ RestoresAlone

\* A shard past the mark is judged: it is split, or cannot be, or the
\* Catalog's history of movements is full.
HeadroomEnds ==
  \A h \in 0..1 : (On /\ h \in Shards /\ s.hs[h].bytes >= Mark /\ s.hs[h].judged = 0) ~>
                    (On => (s.hs[h].bytes < Mark \/ s.hs[h].judged > 0 \/ ~HasHistory))

\* Once a split has lost its start nothing of it holds a restore back
\* (resharder.ts:849, docs/plan-ahead.mdx:34).
GivenUp == \E m \in DOMAIN s.moves : s.moves[m].auto /\ s.moves[m].at \in {"claimed", "released"} /\ (s.lease = m \/ s.moves[m].intent)
LostStartsAreReleased == (On /\ GivenUp) ~> (On => ~GivenUp)
=============================================================================
