----------------------------- MODULE PartsProofs -----------------------------
(***************************************************************************)
(* Three parts of Resources: the schema of the Catalog and the shards, for *)
(* every number of shards, movements, commands, versions and failures, and *)
(* the two clients, for every number of mutations, subscriptions,          *)
(* versions, tokens and faults.                                            *)
(*                                                                         *)
(* The argument for the schema: every call of a shard's migration carries  *)
(* the epoch it leads to.  A call of the migration in progress finds its   *)
(* shard before, in or after that migration (SchemaAgree); a call of an    *)
(* earlier one, however late, finds a shard that is past its epoch and     *)
(* changes nothing (SchemaCallsOK).                                        *)
(*                                                                         *)
(* The argument for both clients: a mutation a frame of which is with the  *)
(* server, unread or lost with a connection is in flight, and a client     *)
(* that lets one into flight marks it before; a caller is told that it     *)
(* failed only of an unmarked one (RustCalls, WebCalls).  Rows that        *)
(* outlive their connection are in the resume window or were replayed      *)
(* since (RustShown, WebShown).  The TypeScript client asks with one token *)
(* at a time, each longer than the last; a read, a timer or an             *)
(* acknowledgement that is still current is of the token in use (WebAsked, *)
(* WebTokens).                                                             *)
(***************************************************************************)
EXTENDS Naturals, Sequences, FiniteSets, FiniteSetTheorems, TLAPS

CONSTANTS SchemaMixes, RustClientMixes, WebClientMixes
VARIABLES mix, s

-----------------------------------------------------------------------------
(* The schema: its states and its inductive invariant.                     *)

M == INSTANCE SchemaMigration WITH Mixes <- SchemaMixes

SchemaIds == Nat \X Nat
SchemaRecords ==
  [st : {"active", "migrating"}, ver : Nat, epoch : Nat, last : SchemaIds, mig : SchemaIds, tv : Nat, te : Nat,
   steps : SUBSET (1..mix.vers), tables : Nat]
SchemaCalls ==
  [c : M!Shards, m : SchemaIds, av : Nat, tv : 1..mix.vers, te : Nat, base : BOOLEAN,
   at : {"baseline", "prepare", "apply", "activate", "record"}, v : Nat]
SchemaWaiting == {h \in SchemaCalls : h.at # "record"}
SchemaCommands ==
  [at : {"idle", "begin", "list", "shards", "catalog", "complete"}, av : Nat, tv : 0..mix.vers,
   todo : SUBSET M!Shards, busy : SUBSET M!Shards, tries : [M!Shards -> Nat], ver : Nat]
SchemaLeases == [st : {"none", "active"}, src : Nat, dst : Nat, ver : Nat, epoch : Nat, ready : BOOLEAN]

SchemaStates ==
  [o : [M!Objects -> SchemaRecords], base : BOOLEAN, reg : [M!Shards -> {"none", "pending", "active"}],
   deployed : 0..mix.vers, code : [M!Objects -> Nat], routed : SUBSET M!Shards, op : SchemaLeases, ops : 0..mix.ops,
   drv : [M!Drivers -> SchemaCommands], hand : SUBSET SchemaCalls, late : SUBSET SchemaWaiting,
   req : SUBSET [c : M!Shards, epoch : Nat], top : Nat, back : BOOLEAN, faults : Nat]

\* A record r of object x: its last migration led to its version or an earlier
\* one, one in progress leads one epoch and at least one version further, to a
\* version that the object's code has.
SchemaRecordOK(x, r) ==
  /\ r.ver <= s.code[x]
  /\ r.epoch >= 1 /\ r.epoch <= r.ver + 1 /\ r.last[1] <= r.ver
  /\ r.st = "active" => r.mig = M!None /\ r.steps = {}
  /\ r.st = "migrating" => r.mig # M!None /\ r.mig[1] = r.tv /\ r.tv > r.ver /\ r.te = r.epoch + 1
                           /\ r.tv <= s.code[x]
  /\ r.tables = IF mix.legacy /\ x \notin M!Fresh THEN mix.vers ELSE r.ver + Cardinality(r.steps)
SchemaObjectsOK == \A x \in M!Objects : SchemaRecordOK(x, s.o[x]) /\ s.code[x] <= s.deployed

\* Where a shard of the routing can be while the Catalog migrates.
SchemaBefore(c) == s.reg[c] = "pending" /\ M!Same(c, s.o[M!Cat].ver, s.o[M!Cat].epoch)
SchemaIsDuring(r) ==
  /\ r.st = "migrating" /\ r.mig = s.o[M!Cat].mig
  /\ r.tv = s.o[M!Cat].tv /\ r.te = s.o[M!Cat].te /\ r.ver = s.o[M!Cat].ver /\ r.epoch = s.o[M!Cat].epoch
SchemaDuring(c) == s.reg[c] = "pending" /\ SchemaIsDuring(s.o[c])
SchemaIsAfter(r) == r.st = "active" /\ r.ver = s.o[M!Cat].tv /\ r.epoch = s.o[M!Cat].te /\ r.last = s.o[M!Cat].mig
SchemaAfter(c) == SchemaIsAfter(s.o[c])

SchemaAgree ==
  IF s.o[M!Cat].st = "active"
  THEN \A c \in s.routed : M!Same(c, s.o[M!Cat].ver, s.o[M!Cat].epoch)
  ELSE /\ s.base = mix.legacy
       /\ \A c \in s.routed : SchemaBefore(c) \/ SchemaDuring(c) \/ SchemaAfter(c)
       /\ \A c \in M!Shards : s.reg[c] = "pending" => c \in s.routed

\* A call is of the migration in progress or of one that is past.
SchemaCurrent(h) ==
  /\ s.o[M!Cat].st = "migrating" /\ h.m = s.o[M!Cat].mig
  /\ h.te = s.o[M!Cat].te /\ h.tv = s.o[M!Cat].tv /\ h.av = s.o[M!Cat].ver
SchemaPast(h) == h.te <= s.o[M!Cat].epoch /\ h.tv <= s.o[M!Cat].ver
SchemaCallOK(h) ==
  /\ h.c \in s.routed /\ h.m[1] = h.tv
  /\ h.at = "baseline" => mix.legacy
  /\ SchemaCurrent(h) \/ SchemaPast(h)
SchemaCallsOK ==
  /\ \A h \in s.hand \cup s.late : SchemaCallOK(h)
  /\ \A h \in s.hand : h.at = "record" /\ SchemaCurrent(h) => SchemaAfter(h.c)

SchemaCommandsOK == \A d \in M!Drivers : /\ s.drv[d].todo \cup s.drv[d].busy \subseteq s.routed
                                         /\ s.drv[d].at # "idle" => s.drv[d].tv > 0

\* The lease of a movement is on the Catalog's schema, and its destination is new to the routing.
SchemaLeaseOK ==
  /\ s.op.st = "active" =>
       /\ M!Same(M!Cat, s.op.ver, s.op.epoch)
       /\ s.op.dst = mix.shards + s.ops /\ s.op.dst \in M!Fresh
       /\ s.op.ready => M!Same(s.op.dst, s.op.ver, s.op.epoch)
  /\ \A c \in s.routed : c < mix.shards + s.ops + (IF s.op.st = "active" THEN 0 ELSE 1)
  /\ \A c \in s.routed : s.op.st = "active" => c # s.op.dst

SchemaServed ==
  /\ \A x \in s.routed \cup {M!Cat} : s.o[x].ver >= s.top
  /\ \A r \in s.req : r.c \in s.routed /\ r.epoch <= s.o[M!Cat].epoch
  /\ ~s.back

SchemaMixOK == /\ mix \in SchemaMixes /\ mix.shards \in Nat /\ mix.ops \in Nat /\ mix.drivers \in Nat /\ mix.vers \in Nat
               /\ mix.legacy \in BOOLEAN
SchemaIInv ==
  /\ SchemaMixOK /\ s \in SchemaStates
  /\ SchemaObjectsOK /\ SchemaAgree /\ SchemaCallsOK /\ SchemaCommandsOK /\ SchemaLeaseOK /\ SchemaServed

-----------------------------------------------------------------------------
\* The bounds of a behaviour do not change.
LEMMA SchemaSameBounds ==
    ASSUME UNCHANGED mix
    PROVE  /\ M!Objects' = M!Objects /\ M!Shards' = M!Shards /\ M!Fresh' = M!Fresh /\ M!Drivers' = M!Drivers /\ SchemaStates' = SchemaStates
           /\ SchemaRecords' = SchemaRecords /\ SchemaCalls' = SchemaCalls /\ SchemaCommands' = SchemaCommands /\ SchemaLeases' = SchemaLeases /\ SchemaMixOK' = SchemaMixOK
           /\ SchemaWaiting' = SchemaWaiting
  BY DEF SchemaWaiting, M!Objects, M!Shards, M!Fresh, M!Drivers, SchemaStates, SchemaRecords, SchemaCalls, SchemaCommands, SchemaLeases, SchemaMixOK, SchemaIds

\* The steps of a record are finitely many.
LEMMA SchemaStepCount ==
    ASSUME SchemaMixOK, NEW S \in SUBSET (1..mix.vers)
    PROVE  /\ IsFiniteSet(S) /\ Cardinality(S) \in Nat
           /\ \A v \in 1..mix.vers : v \notin S => Cardinality(S \cup {v}) = Cardinality(S) + 1
  <1>1. IsFiniteSet(1..mix.vers)
    BY FS_Interval DEF SchemaMixOK
  <1>2. IsFiniteSet(S)
    BY <1>1, FS_Subset
  <1>3. ASSUME NEW v \in 1..mix.vers, v \notin S
        PROVE  Cardinality(S \cup {v}) = Cardinality(S) + 1
    BY <1>2, <1>3, FS_AddElement
  <1>4. Cardinality(S) \in Nat
    BY <1>2, FS_CardinalityType
  <1> QED BY <1>2, <1>3, <1>4

\* A migration to tv has tv - ver steps.
LEMMA SchemaPendingCount ==
    ASSUME SchemaMixOK, NEW x, s.o[x].ver \in Nat, s.o[x].tv \in Nat, s.o[x].tv <= mix.vers, s.o[x].ver < s.o[x].tv
    PROVE  Cardinality(M!Pending(x)) = s.o[x].tv - s.o[x].ver
  <1>1. M!Pending(x) = (s.o[x].ver + 1)..s.o[x].tv
    BY DEF M!Pending, SchemaMixOK
  <1> DEFINE a == s.o[x].ver + 1
             b == s.o[x].tv
  <1>2. a \in Int /\ b \in Int /\ ~(a > b) /\ b - a + 1 = s.o[x].tv - s.o[x].ver /\ M!Pending(x) = a..b
    BY <1>1
  <1> HIDE DEF a, b
  <1> QED BY <1>2, FS_Interval

\* What a shard's record becomes by a call: it stays, or goes through the
\* migration in progress.
SchemaMoves(c, r) ==
  /\ r \in SchemaRecords /\ SchemaRecordOK(c, r)
  /\ \/ r = s.o[c]
     \/ s.o[M!Cat].st = "migrating" /\ s.reg[c] = "pending" /\ ~SchemaAfter(c) /\ (SchemaIsDuring(r) \/ SchemaIsAfter(r))

\* What is known of a call when it executes.
LEMMA SchemaCallFacts ==
    ASSUME SchemaIInv, NEW h \in s.hand \cup s.late
    PROVE  /\ h \in SchemaCalls /\ SchemaCallOK(h) /\ h.c \in M!Shards /\ h.c \in s.routed /\ h.c \in M!Objects /\ h.c # M!Cat
           /\ s.o[h.c] \in SchemaRecords /\ SchemaRecordOK(h.c, s.o[h.c]) /\ s.o[M!Cat] \in SchemaRecords /\ SchemaRecordOK(M!Cat, s.o[M!Cat])
           /\ s.code[h.c] \in Nat /\ s.code[h.c] <= mix.vers
  <1>1. h \in SchemaCalls /\ SchemaCallOK(h)
    BY DEF SchemaIInv, SchemaStates, SchemaCallsOK, SchemaWaiting
  <1>2. h.c \in M!Shards /\ h.c \in s.routed /\ h.c \in M!Objects /\ h.c # M!Cat /\ M!Cat \in M!Objects
    BY <1>1 DEF SchemaCalls, SchemaCallOK, M!Objects, M!Shards, M!Cat, SchemaIInv, SchemaMixOK
  <1>3. s.o \in [M!Objects -> SchemaRecords] /\ s.code \in [M!Objects -> Nat] /\ s.deployed \in 0..mix.vers
    BY DEF SchemaIInv, SchemaStates
  <1>4. s.code[h.c] <= s.deployed /\ SchemaRecordOK(h.c, s.o[h.c]) /\ SchemaRecordOK(M!Cat, s.o[M!Cat])
    BY <1>2 DEF SchemaIInv, SchemaObjectsOK
  <1>5. s.code[h.c] <= mix.vers
    BY <1>2, <1>3, <1>4 DEF SchemaIInv, SchemaMixOK
  <1> QED BY <1>1, <1>2, <1>3, <1>4, <1>5

\* A call that would take its shard one epoch further is one of the migration
\* in progress, and its shard is still before it.
LEMMA SchemaOneEpochFurther ==
    ASSUME SchemaIInv, NEW h \in s.hand \cup s.late, s.o[h.c].st = "active", h.te = s.o[h.c].epoch + 1
    PROVE  SchemaCurrent(h) /\ SchemaBefore(h.c)
  <1>1. SchemaCallOK(h) /\ h.c \in s.routed /\ h \in SchemaCalls /\ s.o[h.c] \in SchemaRecords /\ s.o[M!Cat] \in SchemaRecords
    BY SchemaCallFacts
  <1>2. SchemaRecordOK(M!Cat, s.o[M!Cat])
    BY SchemaCallFacts
  <1>3. CASE s.o[M!Cat].st = "active"
    <2>1. s.o[h.c].epoch = s.o[M!Cat].epoch
      BY <1>1, <1>3 DEF SchemaIInv, SchemaAgree, M!Same
    <2> QED BY <1>1, <1>3, <2>1 DEF SchemaCallOK, SchemaCurrent, SchemaPast, SchemaRecords, SchemaCalls
  <1>4. CASE s.o[M!Cat].st = "migrating"
    <2>1. SchemaBefore(h.c) \/ SchemaAfter(h.c)
      BY <1>1, <1>4 DEF SchemaIInv, SchemaAgree, SchemaDuring, SchemaIsDuring
    <2>2. s.o[h.c].epoch \in {s.o[M!Cat].epoch, s.o[M!Cat].te} /\ s.o[M!Cat].te = s.o[M!Cat].epoch + 1
      BY <1>2, <1>4, <2>1 DEF SchemaBefore, SchemaAfter, SchemaIsAfter, M!Same, SchemaRecordOK
    <2> QED BY <1>1, <2>1, <2>2 DEF SchemaCallOK, SchemaCurrent, SchemaPast, SchemaRecords, SchemaCalls, SchemaAfter, SchemaIsAfter
  <1> QED BY <1>1, <1>3, <1>4 DEF SchemaRecords

\* A record of a shard that the calls of a migration in progress change.
LEMMA SchemaMovesByPrepare ==
    ASSUME SchemaIInv, NEW h \in s.hand \cup s.late, M!CanPrepare(h)
    PROVE  SchemaMoves(h.c, M!Prepared(h))
  <1>0. /\ h \in SchemaCalls /\ s.o[h.c] \in SchemaRecords /\ SchemaRecordOK(h.c, s.o[h.c]) /\ SchemaCallOK(h)
        /\ s.o[M!Cat] \in SchemaRecords /\ SchemaRecordOK(M!Cat, s.o[M!Cat])
    BY SchemaCallFacts
  <1>1. CASE s.o[h.c].st = "migrating" \/ s.o[h.c].last = h.m
    BY <1>0, <1>1 DEF M!Prepared, SchemaMoves
  <1>2. CASE s.o[h.c].st = "active" /\ s.o[h.c].last # h.m
    <2>1. s.o[h.c].ver = h.av /\ h.te = s.o[h.c].epoch + 1 /\ h.tv = s.code[h.c]
      BY <1>2 DEF M!CanPrepare
    <2>2. SchemaCurrent(h) /\ SchemaBefore(h.c)
      BY <1>2, <2>1, SchemaOneEpochFurther
    <2> DEFINE r == M!Prepared(h)
    <2>3. r = [s.o[h.c] EXCEPT !.st = "migrating", !.mig = h.m, !.tv = h.tv, !.te = h.te, !.steps = {}]
      BY <1>2 DEF M!Prepared, M!Begun
    <2>4. h.m \in SchemaIds /\ h.tv \in Nat /\ h.te \in Nat /\ {} \in SUBSET (1..mix.vers)
      BY <1>0 DEF SchemaCalls, SchemaIInv, SchemaMixOK
    <2>5. /\ r.st = "migrating" /\ r.mig = h.m /\ r.tv = h.tv /\ r.te = h.te /\ r.steps = {}
          /\ r.ver = s.o[h.c].ver /\ r.epoch = s.o[h.c].epoch /\ r.last = s.o[h.c].last /\ r.tables = s.o[h.c].tables
      BY <1>0, <2>3 DEF SchemaRecords
    <2>6. r \in SchemaRecords
      BY <1>0, <2>3, <2>4 DEF SchemaRecords
    <2> HIDE DEF r
    <2>7. SchemaIsDuring(r)
      BY <2>2, <2>5 DEF SchemaIsDuring, SchemaCurrent, SchemaBefore, M!Same
    <2>8. SchemaRecordOK(h.c, r)
      <3>1. s.o[h.c].steps = {}
        BY <1>0, <1>2 DEF SchemaRecordOK
      <3>2. r.mig # M!None /\ r.mig[1] = r.tv /\ r.tv > r.ver
        BY <1>0, <2>2, <2>5 DEF SchemaRecordOK, SchemaCurrent, SchemaBefore, M!Same
      <3> QED BY <1>0, <1>2, <2>1, <2>5, <3>1, <3>2 DEF SchemaRecordOK, SchemaRecords, SchemaCalls
    <2>9. ~SchemaAfter(h.c)
      BY <1>0, <2>2 DEF SchemaAfter, SchemaIsAfter, SchemaBefore, M!Same, SchemaCurrent, SchemaRecordOK, SchemaRecords
    <2> QED BY <2>2, <2>6, <2>7, <2>8, <2>9 DEF SchemaMoves, SchemaCurrent, SchemaBefore, r
  <1> QED BY <1>0, <1>1, <1>2 DEF SchemaRecords

LEMMA SchemaMovesByBaseline ==
    ASSUME SchemaIInv, NEW h \in s.hand \cup s.late, h.at = "baseline", M!CanBaseline(h)
    PROVE  SchemaMoves(h.c, M!Baselined(h)) /\ (SchemaCurrent(h) => SchemaIsAfter(M!Baselined(h)))
  <1>0. /\ h \in SchemaCalls /\ s.o[h.c] \in SchemaRecords /\ SchemaRecordOK(h.c, s.o[h.c]) /\ SchemaCallOK(h)
        /\ s.o[M!Cat] \in SchemaRecords /\ SchemaRecordOK(M!Cat, s.o[M!Cat])
    BY SchemaCallFacts
  <1>1. CASE M!DoneBy(h.c, h.m)
    <2>1. SchemaMoves(h.c, M!Baselined(h))
      BY <1>0, <1>1 DEF M!Baselined, SchemaMoves
    <2>2. SchemaCurrent(h) => SchemaAfter(h.c)
      BY <1>0, <1>1 DEF SchemaCurrent, M!DoneBy, SchemaAfter, SchemaCallOK, SchemaIInv, SchemaAgree, SchemaBefore, M!Same, SchemaDuring, SchemaIsDuring, SchemaRecordOK, SchemaIsAfter, SchemaRecords
    <2> QED BY <1>1, <2>1, <2>2 DEF M!Baselined, SchemaAfter
  <1>2. CASE ~M!DoneBy(h.c, h.m)
    <2>1. s.o[h.c].st = "active" /\ s.o[h.c].ver = 0 /\ h.te = s.o[h.c].epoch + 1 /\ s.o[h.c].tables = h.tv
          /\ h.tv = s.code[h.c]
      BY <1>2 DEF M!CanBaseline
    <2>2. SchemaCurrent(h) /\ SchemaBefore(h.c)
      BY <2>1, SchemaOneEpochFurther
    <2> DEFINE r == M!Baselined(h)
    <2>3. r = [s.o[h.c] EXCEPT !.ver = h.tv, !.epoch = h.te, !.last = h.m]
      BY <1>2 DEF M!Baselined
    <2>4. h.m \in SchemaIds /\ h.tv \in Nat /\ h.te \in Nat
      BY <1>0 DEF SchemaCalls, SchemaIInv, SchemaMixOK
    <2>5. /\ r.ver = h.tv /\ r.epoch = h.te /\ r.last = h.m /\ r.st = "active" /\ r.mig = s.o[h.c].mig
          /\ r.steps = s.o[h.c].steps /\ r.tables = s.o[h.c].tables /\ r \in SchemaRecords
      BY <1>0, <2>1, <2>3, <2>4 DEF SchemaRecords
    <2> HIDE DEF r
    <2>6. SchemaIsAfter(r)
      BY <2>2, <2>5 DEF SchemaIsAfter, SchemaCurrent
    <2>7. mix.legacy /\ s.o[h.c].steps = {} /\ Cardinality({}) = 0
      BY <1>0, <2>1, FS_EmptySet DEF SchemaCallOK, SchemaRecordOK
    <2>8. h.c \notin M!Fresh
      BY <1>0, <2>1, <2>7 DEF SchemaRecordOK, SchemaCalls
    <2>9. SchemaRecordOK(h.c, r)
      BY <1>0, <2>1, <2>2, <2>5, <2>7, <2>8 DEF SchemaRecordOK, SchemaCallOK, SchemaCalls, SchemaRecords, SchemaCurrent, SchemaBefore, M!Same
    <2>10. ~SchemaAfter(h.c)
      BY <1>0, <2>2 DEF SchemaAfter, SchemaIsAfter, SchemaBefore, M!Same, SchemaCurrent, SchemaRecordOK, SchemaRecords
    <2> QED BY <2>2, <2>5, <2>6, <2>9, <2>10 DEF SchemaMoves, SchemaCurrent, SchemaBefore, r
  <1> QED BY <1>1, <1>2

\* A step that executes is the next one of its object, or changes nothing.
LEMMA SchemaStepFacts ==
    ASSUME SchemaIInv, NEW x \in M!Objects, NEW m, NEW v, M!CanApply(x, m, v)
    PROVE  \/ M!Stepped(x, v) = s.o[x] /\ M!DoneBy(x, m)
           \/ M!Stepped(x, v) = s.o[x] /\ M!Migrating(x, m)
           \/ /\ M!Migrating(x, m) /\ v \in M!Pending(x) /\ v \notin s.o[x].steps /\ v \in 1..mix.vers
              /\ (x = M!Cat => ~s.base) => s.o[x].tables = v - 1
              /\ M!Stepped(x, v) = [s.o[x] EXCEPT !.steps = @ \cup {v}, !.tables = IF x = M!Cat /\ s.base THEN @ ELSE v]
  BY DEF M!CanApply, M!Stepped, M!DoneBy, M!Migrating, M!Pending

\* The record after a step: the tables go one step further with it, except
\* those of a legacy Catalog, which are there already.
LEMMA SchemaSteppedOK ==
    ASSUME SchemaIInv, NEW x \in M!Objects, NEW m, NEW v, M!CanApply(x, m, v), x = M!Cat /\ s.o[x].st = "migrating" => s.base = mix.legacy
    PROVE  /\ M!Stepped(x, v) \in SchemaRecords /\ SchemaRecordOK(x, M!Stepped(x, v))
           /\ \A f \in {"st", "ver", "epoch", "last", "mig", "tv", "te"} : M!Stepped(x, v)[f] = s.o[x][f]
  <1>0. s.o[x] \in SchemaRecords /\ SchemaRecordOK(x, s.o[x]) /\ s.code[x] \in Nat /\ s.code[x] <= mix.vers /\ SchemaMixOK
    BY DEF SchemaIInv, SchemaStates, SchemaObjectsOK, SchemaMixOK
  <1>1. CASE M!Stepped(x, v) = s.o[x]
    BY <1>0, <1>1 DEF SchemaRecords
  <1>2. CASE M!Stepped(x, v) # s.o[x]
    <2>1. /\ M!Migrating(x, m) /\ v \in M!Pending(x) /\ v \notin s.o[x].steps /\ v \in 1..mix.vers
          /\ (x = M!Cat => ~s.base) => s.o[x].tables = v - 1
          /\ M!Stepped(x, v) = [s.o[x] EXCEPT !.steps = @ \cup {v}, !.tables = IF x = M!Cat /\ s.base THEN @ ELSE v]
      BY <1>2, SchemaStepFacts
    <2> DEFINE r == M!Stepped(x, v)
               steps == s.o[x].steps \cup {v}
               tables == IF x = M!Cat /\ s.base THEN s.o[x].tables ELSE v
    <2>2. steps \in SUBSET (1..mix.vers) /\ tables \in Nat /\ Cardinality(steps) = Cardinality(s.o[x].steps) + 1
          /\ Cardinality(s.o[x].steps) \in Nat
      BY <1>0, <2>1, SchemaStepCount DEF SchemaRecords, SchemaMixOK
    <2>3. r = [s.o[x] EXCEPT !.steps = steps, !.tables = tables]
      BY <2>1
    <2>4. v <= s.o[x].tv /\ v \in Nat /\ s.o[x].tv <= mix.vers
      BY <1>0, <2>1 DEF M!Pending, SchemaRecordOK, M!Migrating, SchemaRecords, SchemaMixOK
    <2>5. tables = IF mix.legacy /\ x \notin M!Fresh THEN mix.vers ELSE s.o[x].ver + Cardinality(steps)
      <3>1. CASE x = M!Cat
        <4>1. x \notin M!Fresh
          BY <1>0, <3>1 DEF M!Fresh, M!Cat, SchemaMixOK
        <4> QED BY <1>0, <2>1, <2>2, <3>1, <4>1 DEF SchemaRecordOK, SchemaRecords, SchemaMixOK, M!Migrating
      <3>2. CASE x # M!Cat
        BY <1>0, <2>1, <2>2, <2>4, <3>2 DEF SchemaRecordOK, SchemaRecords, SchemaMixOK
      <3> QED BY <3>1, <3>2
    <2> HIDE DEF r, steps, tables
    <2>6. r \in SchemaRecords /\ r.steps = steps /\ r.tables = tables /\ r.st = s.o[x].st /\ r.ver = s.o[x].ver
          /\ r.epoch = s.o[x].epoch /\ r.last = s.o[x].last /\ r.mig = s.o[x].mig /\ r.tv = s.o[x].tv /\ r.te = s.o[x].te
      BY <1>0, <2>2, <2>3 DEF SchemaRecords
    <2>7. SchemaRecordOK(x, r)
      BY <1>0, <2>1, <2>5, <2>6 DEF SchemaRecordOK, M!Migrating
    <2> QED BY <2>6, <2>7 DEF r
  <1> QED BY <1>1, <1>2

\* The record after an activation of all steps.
LEMMA SchemaActivatedOK ==
    ASSUME SchemaIInv, NEW x \in M!Objects, s.o[x].st = "migrating", s.o[x].steps = M!Pending(x)
    PROVE  /\ M!Activated(x) \in SchemaRecords /\ SchemaRecordOK(x, M!Activated(x))
           /\ M!Activated(x).st = "active" /\ M!Activated(x).ver = s.o[x].tv /\ M!Activated(x).epoch = s.o[x].te
           /\ M!Activated(x).last = s.o[x].mig
  <1>0. s.o[x] \in SchemaRecords /\ SchemaRecordOK(x, s.o[x]) /\ s.code[x] \in Nat /\ s.code[x] <= mix.vers /\ SchemaMixOK
    BY DEF SchemaIInv, SchemaStates, SchemaObjectsOK, SchemaMixOK
  <1> DEFINE r == M!Activated(x)
  <1>1. M!None \in SchemaIds /\ 0 \in Nat /\ {} \in SUBSET (1..mix.vers)
    BY DEF M!None, SchemaIds
  <1>2. /\ r \in SchemaRecords /\ r.st = "active" /\ r.ver = s.o[x].tv /\ r.epoch = s.o[x].te /\ r.last = s.o[x].mig
        /\ r.mig = M!None /\ r.steps = {} /\ r.tables = s.o[x].tables
    BY <1>0, <1>1 DEF M!Activated, SchemaRecords
  <1>3. s.o[x].tables = IF mix.legacy /\ x \notin M!Fresh THEN mix.vers ELSE s.o[x].tv + Cardinality({})
    <2>1. Cardinality(M!Pending(x)) = s.o[x].tv - s.o[x].ver
      BY <1>0, SchemaPendingCount DEF SchemaRecordOK, SchemaRecords, SchemaMixOK
    <2>2. Cardinality({}) = 0
      BY FS_EmptySet
    <2> QED BY <1>0, <2>1, <2>2 DEF SchemaRecordOK, SchemaRecords
  <1> HIDE DEF r
  <1>4. SchemaRecordOK(x, r)
    BY <1>0, <1>2, <1>3 DEF SchemaRecordOK, SchemaRecords
  <1> QED BY <1>2, <1>4 DEF r

\* A shard that migrates does it with the Catalog.
LEMMA SchemaMigratingShard ==
    ASSUME SchemaIInv, NEW c \in s.routed, s.o[c].st = "migrating"
    PROVE  s.o[M!Cat].st = "migrating" /\ s.reg[c] = "pending" /\ ~SchemaAfter(c) /\ SchemaIsDuring(s.o[c])
  <1>1. s.o[M!Cat] \in SchemaRecords
    BY DEF SchemaIInv, SchemaStates, M!Objects, M!Cat
  <1> QED BY <1>1 DEF SchemaIInv, SchemaAgree, M!Same, SchemaBefore, SchemaDuring, SchemaAfter, SchemaIsAfter, SchemaRecords

\* What is done by the migration in progress is after it.
LEMMA SchemaDoneIsAfter ==
    ASSUME SchemaIInv, NEW h \in s.hand \cup s.late, SchemaCurrent(h), M!DoneBy(h.c, h.m)
    PROVE  SchemaAfter(h.c)
  <1>1. /\ h.c \in s.routed /\ s.o[M!Cat].st = "migrating" /\ h.m = s.o[M!Cat].mig
        /\ SchemaRecordOK(M!Cat, s.o[M!Cat]) /\ s.o[M!Cat] \in SchemaRecords
    BY SchemaCallFacts DEF SchemaCurrent
  <1>2. SchemaBefore(h.c) \/ SchemaDuring(h.c) \/ SchemaAfter(h.c)
    BY <1>1 DEF SchemaIInv, SchemaAgree
  <1>3. s.o[h.c] \in SchemaRecords /\ SchemaRecordOK(h.c, s.o[h.c])
    BY SchemaCallFacts
  <1>4. ~SchemaDuring(h.c)
    BY <1>1, <1>3 DEF M!DoneBy, SchemaDuring, SchemaIsDuring, SchemaRecordOK
  <1>5. ~SchemaBefore(h.c)
    BY <1>1, <1>3 DEF M!DoneBy, SchemaBefore, M!Same, SchemaRecordOK, SchemaRecords
  <1> QED BY <1>2, <1>4, <1>5

LEMMA SchemaMovesByApply ==
    ASSUME SchemaIInv, NEW h \in s.hand \cup s.late, M!CanApply(h.c, h.m, h.v)
    PROVE  SchemaMoves(h.c, M!Stepped(h.c, h.v))
  <1>0. h.c \in s.routed /\ h.c \in M!Objects /\ h.c # M!Cat /\ s.o[h.c] \in SchemaRecords
    BY SchemaCallFacts
  <1> DEFINE r == M!Stepped(h.c, h.v)
  <1>1. /\ r \in SchemaRecords /\ SchemaRecordOK(h.c, r)
        /\ \A f \in {"st", "ver", "epoch", "last", "mig", "tv", "te"} : r[f] = s.o[h.c][f]
    BY <1>0, SchemaSteppedOK
  <1>2. CASE s.o[h.c].st = "active"
    <2>1. r = s.o[h.c]
      BY <1>2 DEF M!Stepped
    <2> QED BY <1>1, <2>1 DEF SchemaMoves
  <1>3. CASE s.o[h.c].st = "migrating"
    <2>1. s.o[M!Cat].st = "migrating" /\ s.reg[h.c] = "pending" /\ ~SchemaAfter(h.c) /\ SchemaIsDuring(s.o[h.c])
      BY <1>0, <1>3, SchemaMigratingShard
    <2> HIDE DEF r
    <2>2. SchemaIsDuring(r)
      BY <1>1, <2>1 DEF SchemaIsDuring
    <2> QED BY <1>1, <2>1, <2>2 DEF SchemaMoves, r
  <1> QED BY <1>0, <1>2, <1>3 DEF SchemaRecords

LEMMA SchemaMovesByActivate ==
    ASSUME SchemaIInv, NEW h \in s.hand \cup s.late, M!CanActivate(h.c, h.m)
    PROVE  LET r == IF s.o[h.c].st = "active" THEN s.o[h.c] ELSE M!Activated(h.c)
           IN  SchemaMoves(h.c, r) /\ (SchemaCurrent(h) => SchemaIsAfter(r))
  <1>0. /\ h.c \in s.routed /\ h.c \in M!Objects /\ h.c # M!Cat /\ s.o[h.c] \in SchemaRecords /\ SchemaRecordOK(h.c, s.o[h.c])
    BY SchemaCallFacts
  <1> DEFINE r == IF s.o[h.c].st = "active" THEN s.o[h.c] ELSE M!Activated(h.c)
  <1>1. CASE s.o[h.c].st = "active"
    <2>1. SchemaMoves(h.c, r)
      BY <1>0, <1>1 DEF SchemaMoves
    <2>2. SchemaCurrent(h) => SchemaIsAfter(r)
      BY <1>1, SchemaDoneIsAfter DEF M!CanActivate, M!Migrating, SchemaAfter
    <2> QED BY <2>1, <2>2
  <1>2. CASE s.o[h.c].st = "migrating"
    <2>1. s.o[h.c].steps = M!Pending(h.c)
      BY <1>2 DEF M!CanActivate, M!DoneBy
    <2>2. s.o[M!Cat].st = "migrating" /\ s.reg[h.c] = "pending" /\ ~SchemaAfter(h.c) /\ SchemaIsDuring(s.o[h.c])
      BY <1>0, <1>2, SchemaMigratingShard
    <2>3. /\ r \in SchemaRecords /\ SchemaRecordOK(h.c, r)
          /\ r.st = "active" /\ r.ver = s.o[h.c].tv /\ r.epoch = s.o[h.c].te /\ r.last = s.o[h.c].mig
      BY <1>0, <1>2, <2>1, SchemaActivatedOK
    <2> HIDE DEF r
    <2>4. SchemaIsAfter(r)
      BY <2>2, <2>3 DEF SchemaIsAfter, SchemaIsDuring
    <2>5. SchemaMoves(h.c, r)
      BY <2>2, <2>3, <2>4 DEF SchemaMoves
    <2> QED BY <2>4, <2>5 DEF r
  <1> QED BY <1>0, <1>1, <1>2 DEF SchemaRecords

\* Every call that a shard executes.
LEMMA SchemaCallMoves ==
    ASSUME SchemaIInv, NEW h \in s.hand \cup s.late, h.at # "record", M!CanCall(h)
    PROVE  /\ SchemaMoves(h.c, M!Called(h))
           /\ h.at \in {"baseline", "activate"} => (SchemaCurrent(h) => SchemaIsAfter(M!Called(h)))
  <1>0. h.at \in {"baseline", "prepare", "apply", "activate"}
    BY SchemaCallFacts DEF SchemaCalls
  <1>1. CASE h.at = "baseline"
    <2>1. M!CanBaseline(h) /\ M!Called(h) = M!Baselined(h)
      BY <1>1 DEF M!CanCall, M!Called
    <2> QED BY <1>1, <2>1, SchemaMovesByBaseline
  <1>2. CASE h.at = "prepare"
    <2>1. M!CanPrepare(h) /\ M!Called(h) = M!Prepared(h)
      BY <1>2 DEF M!CanCall, M!Called
    <2> QED BY <1>2, <2>1, SchemaMovesByPrepare
  <1>3. CASE h.at = "apply"
    <2>1. M!CanApply(h.c, h.m, h.v) /\ M!Called(h) = M!Stepped(h.c, h.v)
      BY <1>3 DEF M!CanCall, M!Called
    <2> QED BY <1>3, <2>1, SchemaMovesByApply
  <1>4. CASE h.at = "activate"
    <2>1. M!CanActivate(h.c, h.m) /\ M!Called(h) = IF s.o[h.c].st = "active" THEN s.o[h.c] ELSE M!Activated(h.c)
      BY <1>4 DEF M!CanCall, M!Called
    <2> QED BY <1>4, <2>1, SchemaMovesByActivate
  <1> QED BY <1>0, <1>1, <1>2, <1>3, <1>4

\* The types of what the Catalog sets.
LEMMA SchemaCatalogTypes ==
    ASSUME s \in SchemaStates, NEW o \in [M!Objects -> SchemaRecords], NEW reg \in [M!Shards -> {"none", "pending", "active"}],
           NEW base \in BOOLEAN, NEW drv \in [M!Drivers -> SchemaCommands],
           s' = [s EXCEPT !.o = o, !.reg = reg, !.base = base, !.drv = drv]
    PROVE  s' \in SchemaStates
  <1>1. s' = [o |-> o, base |-> base, reg |-> reg, deployed |-> s.deployed, code |-> s.code,
             routed |-> s.routed, op |-> s.op, ops |-> s.ops, drv |-> drv, hand |-> s.hand,
             late |-> s.late, req |-> s.req, top |-> s.top, back |-> s.back, faults |-> s.faults]
    BY DEF SchemaStates
  <1>2. /\ s.deployed \in 0..mix.vers /\ s.code \in [M!Objects -> Nat] /\ s.routed \in SUBSET M!Shards
        /\ s.op \in SchemaLeases /\ s.ops \in 0..mix.ops /\ s.hand \in SUBSET SchemaCalls /\ s.late \in SUBSET SchemaWaiting
        /\ s.req \in SUBSET [c : M!Shards, epoch : Nat] /\ s.top \in Nat /\ s.back \in BOOLEAN
        /\ s.faults \in Nat
    BY DEF SchemaStates
  <1> QED BY <1>1, <1>2 DEF SchemaStates

\* A shard of the routing whose record moves with the migration in progress
\* leaves everything else as it was.
LEMMA SchemaShardMoves ==
    ASSUME SchemaIInv, UNCHANGED mix, NEW c \in s.routed, NEW r, SchemaMoves(c, r),
           NEW hand \in SUBSET SchemaCalls, NEW late \in SUBSET SchemaWaiting, NEW faults \in Nat,
           s' = [s EXCEPT !.o = [s.o EXCEPT ![c] = r], !.hand = hand, !.late = late, !.faults = faults],
           \A h \in hand \cup late : SchemaCallOK(h),
           \A h \in hand : h.at = "record" /\ SchemaCurrent(h) => IF h.c = c THEN SchemaIsAfter(r) ELSE SchemaAfter(h.c)
    PROVE  SchemaIInv'
  <1>0. /\ s \in SchemaStates /\ c \in M!Shards /\ c \in M!Objects /\ c # M!Cat /\ M!Cat \in M!Objects /\ r \in SchemaRecords /\ s.o[c] \in SchemaRecords
        /\ s.o[M!Cat] \in SchemaRecords /\ SchemaRecordOK(M!Cat, s.o[M!Cat]) /\ s.top \in Nat
    <2>1. s \in SchemaStates /\ SchemaMixOK /\ SchemaObjectsOK /\ r \in SchemaRecords
      BY DEF SchemaIInv, SchemaMoves
    <2>2. c \in M!Shards /\ c \in M!Objects /\ c # M!Cat /\ M!Cat \in M!Objects
      BY <2>1 DEF SchemaStates, M!Objects, M!Shards, M!Cat, SchemaMixOK
    <2> QED BY <2>1, <2>2 DEF SchemaStates, SchemaObjectsOK
  <1>1. PICK o \in [M!Objects -> SchemaRecords] :
          /\ o[c] = r /\ o[M!Cat] = s.o[M!Cat] /\ \A x \in M!Objects : x # c => o[x] = s.o[x]
          /\ s' = [s EXCEPT !.o = o, !.hand = hand, !.late = late, !.faults = faults]
    <2> DEFINE o == [s.o EXCEPT ![c] = r]
    <2>1. o \in [M!Objects -> SchemaRecords] /\ o[c] = r /\ o[M!Cat] = s.o[M!Cat] /\ \A x \in M!Objects : x # c => o[x] = s.o[x]
      BY <1>0 DEF SchemaStates
    <2>2. s' = [s EXCEPT !.o = o, !.hand = hand, !.late = late, !.faults = faults]
      OBVIOUS
    <2> HIDE DEF o
    <2> QED BY <2>1, <2>2
  <1>2. s' = [s EXCEPT !.o = o, !.hand = hand, !.late = late, !.faults = faults]
    BY <1>1
  <1>3. s' \in SchemaStates
    <2>0. s \in SchemaStates
      BY <1>0
    <2>1. s' = [o |-> o, base |-> s.base, reg |-> s.reg, deployed |-> s.deployed, code |-> s.code,
               routed |-> s.routed, op |-> s.op, ops |-> s.ops, drv |-> s.drv, hand |-> hand,
               late |-> late, req |-> s.req, top |-> s.top, back |-> s.back, faults |-> faults]
      BY <1>2, <2>0 DEF SchemaStates
    <2>2. /\ s.base \in BOOLEAN /\ s.reg \in [M!Shards -> {"none", "pending", "active"}]
          /\ s.deployed \in 0..mix.vers /\ s.code \in [M!Objects -> Nat] /\ s.routed \in SUBSET M!Shards
          /\ s.op \in SchemaLeases /\ s.ops \in 0..mix.ops /\ s.drv \in [M!Drivers -> SchemaCommands]
          /\ s.req \in SUBSET [c : M!Shards, epoch : Nat] /\ s.top \in Nat /\ s.back \in BOOLEAN
      BY <2>0 DEF SchemaStates
    <2> QED BY <2>1, <2>2 DEF SchemaStates
  <1>4. /\ s'.o = o /\ s'.hand = hand /\ s'.late = late /\ s'.base = s.base /\ s'.reg = s.reg /\ s'.code = s.code
        /\ s'.deployed = s.deployed /\ s'.routed = s.routed /\ s'.op = s.op /\ s'.ops = s.ops /\ s'.drv = s.drv
        /\ s'.req = s.req /\ s'.top = s.top /\ s'.back = s.back
    BY <1>0, <1>2 DEF SchemaStates
  <1>5. SchemaObjectsOK'
    <2>1. ASSUME NEW x \in M!Objects, NEW q, SchemaRecordOK(x, q) PROVE SchemaRecordOK(x, q)'
      BY <1>4, <2>1, SchemaSameBounds DEF SchemaRecordOK
    <2>2. \A x \in M!Objects : SchemaRecordOK(x, o[x]) /\ s.code[x] <= s.deployed
      BY <1>1 DEF SchemaIInv, SchemaObjectsOK, SchemaMoves
    <2>3. \A x \in M!Objects : SchemaRecordOK(x, o[x])'
      BY <2>1, <2>2
    <2> QED BY <1>4, <2>2, <2>3, SchemaSameBounds DEF SchemaObjectsOK
  <1>6. SchemaAgree'
    <2>1. CASE s.o[M!Cat].st = "active"
      <3>1. r = s.o[c]
        BY <1>0, <2>1 DEF SchemaMoves, SchemaRecords
      <3>2. \A x \in s.routed : o[x] = s.o[x]
        BY <1>0, <1>1, <3>1 DEF SchemaStates, M!Objects
      <3> QED BY <1>1, <1>4, <2>1, <3>2 DEF SchemaIInv, SchemaAgree, M!Same
    <2>2. CASE s.o[M!Cat].st # "active"
      <3>1. ASSUME NEW x \in s.routed PROVE (SchemaBefore(x) \/ SchemaDuring(x) \/ SchemaAfter(x))'
        <4>1. x \in M!Objects
          BY <1>0 DEF SchemaStates, M!Objects
        <4>2. CASE x # c \/ r = s.o[c]
          <5>1. o[x] = s.o[x]
            BY <1>1, <4>1, <4>2
          <5> QED BY <1>1, <1>4, <2>2, <5>1 DEF SchemaIInv, SchemaAgree, SchemaBefore, SchemaDuring, SchemaAfter, SchemaIsDuring, SchemaIsAfter, M!Same, M!Migrating
        <4>3. CASE x = c /\ r # s.o[c]
          <5>1. s.reg[c] = "pending" /\ (SchemaIsDuring(r) \/ SchemaIsAfter(r))
            BY <4>3, Zenon DEF SchemaMoves
          <5>0. s'.o[x] = r /\ s'.o[M!Cat] = s.o[M!Cat] /\ s'.reg = s.reg
            BY <1>1, <1>4, <4>3
          <5>2. CASE SchemaIsDuring(r)
            <6>1. SchemaIsDuring(r)'
              BY <5>0, <5>2, Zenon DEF SchemaIsDuring
            <6>2. SchemaDuring(x)'
              BY <4>3, <5>0, <5>1, <6>1 DEF SchemaDuring
            <6> QED BY <6>2
          <5>3. CASE SchemaIsAfter(r)
            BY <5>0, <5>3 DEF SchemaAfter, SchemaIsAfter
          <5> QED BY <5>1, <5>2, <5>3
        <4> QED BY <4>2, <4>3
      <3> QED BY <1>1, <1>4, <2>2, <3>1, SchemaSameBounds DEF SchemaIInv, SchemaAgree
    <2> QED BY <2>1, <2>2
  <1>7. SchemaCallsOK'
    <2>1. \A h \in hand \cup late : SchemaCallOK(h)'
      BY <1>1, <1>4 DEF SchemaCallOK, SchemaCurrent, SchemaPast
    <2>2. ASSUME NEW h \in hand, h.at = "record", SchemaCurrent(h)' PROVE SchemaAfter(h.c)'
      <3>1. SchemaCurrent(h) /\ h.c \in M!Objects
        BY <1>0, <1>1, <1>4, <2>2 DEF SchemaCurrent, SchemaCalls, M!Objects
      <3>2. SchemaIsAfter(o[h.c])
        BY <1>1, <2>2, <3>1 DEF SchemaAfter
      <3> QED BY <1>1, <1>4, <3>2 DEF SchemaAfter, SchemaIsAfter
    <2> QED BY <1>4, <2>1, <2>2 DEF SchemaCallsOK
  <1>8. SchemaCommandsOK'
    BY <1>4, SchemaSameBounds DEF SchemaIInv, SchemaCommandsOK
  <1>9. SchemaLeaseOK'
    <2>1. s.op.st = "active" => s.op.dst # c /\ s.op.dst \in M!Objects
      BY <1>0 DEF SchemaIInv, SchemaLeaseOK, M!Fresh, M!Objects, M!Shards, SchemaMixOK
    <2> QED BY <1>1, <1>4, <2>1, SchemaSameBounds DEF SchemaIInv, SchemaLeaseOK, M!Same
  <1>10. SchemaServed'
    <2>1. r.ver >= s.top
      <3>1. r = s.o[c] \/ (s.o[M!Cat].st = "migrating" /\ (SchemaIsDuring(r) \/ SchemaIsAfter(r)))
        BY Zenon DEF SchemaMoves
      <3>2. s.o[c].ver >= s.top /\ s.o[M!Cat].ver >= s.top
        BY DEF SchemaIInv, SchemaServed
      <3> QED BY <1>0, <3>1, <3>2 DEF SchemaIsDuring, SchemaIsAfter, SchemaRecordOK, SchemaRecords
    <2>2. \A x \in s.routed \cup {M!Cat} : x \in M!Objects
      BY <1>0 DEF SchemaStates, M!Objects
    <2> QED BY <1>1, <1>4, <2>1, <2>2 DEF SchemaIInv, SchemaServed
  <1> QED BY <1>3, <1>5, <1>6, <1>7, <1>8, <1>9, <1>10, SchemaSameBounds DEF SchemaIInv

\* A call goes on with the same migration.
LEMMA SchemaThenFacts ==
    ASSUME SchemaMixOK, NEW h \in SchemaCalls, h.at # "record"
    PROVE  /\ M!Then(h) \in SchemaCalls
           /\ M!Then(h).c = h.c /\ M!Then(h).m = h.m /\ M!Then(h).av = h.av /\ M!Then(h).tv = h.tv /\ M!Then(h).te = h.te
           /\ M!Then(h).at # "baseline"
           /\ M!Then(h).at = "record" => h.at \in {"baseline", "activate"}
  <1>1. CASE h.at \in {"baseline", "activate"}
    <2>1. M!Then(h) = [h EXCEPT !.at = "record"]
      BY <1>1 DEF M!Then
    <2> QED BY <1>1, <2>1 DEF SchemaCalls
  <1>2. CASE h.at = "prepare"
    <2>1. M!Then(h) = [h EXCEPT !.at = "apply"]
      BY <1>2 DEF M!Then
    <2> QED BY <2>1 DEF SchemaCalls
  <1>3. CASE h.at = "apply" /\ h.v < h.tv
    <2> DEFINE v == h.v + 1
    <2>1. M!Then(h) = [h EXCEPT !.v = v] /\ v \in Nat
      BY <1>3 DEF M!Then, SchemaCalls
    <2> HIDE DEF v
    <2> QED BY <1>3, <2>1 DEF SchemaCalls
  <1>4. CASE h.at = "apply" /\ ~(h.v < h.tv)
    <2>1. M!Then(h) = [h EXCEPT !.at = "activate"]
      BY <1>4 DEF M!Then
    <2> QED BY <2>1 DEF SchemaCalls
  <1> QED BY <1>1, <1>2, <1>3, <1>4 DEF SchemaCalls

\* A call that a shard executes, whoever still waits for its answer.
LEMMA SchemaCallRuns ==
    ASSUME SchemaIInv, UNCHANGED mix, NEW h \in s.hand \cup s.late, h.at # "record", M!CanCall(h),
           NEW hand \in SUBSET (s.hand \cup {M!Then(h)}), NEW late \in SUBSET s.late, NEW faults \in Nat,
           s' = [s EXCEPT !.o[h.c] = M!Called(h), !.hand = hand, !.late = late, !.faults = faults]
    PROVE  SchemaIInv'
  <1>0. PICK r : r = M!Called(h)
    OBVIOUS
  <1>1. h \in SchemaCalls /\ SchemaCallOK(h) /\ h.c \in s.routed /\ SchemaMixOK /\ s.hand \subseteq SchemaCalls /\ s.late \subseteq SchemaWaiting
    BY SchemaCallFacts DEF SchemaIInv, SchemaStates
  <1>2. SchemaMoves(h.c, r) /\ (h.at \in {"baseline", "activate"} => (SchemaCurrent(h) => SchemaIsAfter(r)))
    BY <1>0, SchemaCallMoves
  <1>3. /\ M!Then(h) \in SchemaCalls /\ M!Then(h).c = h.c /\ SchemaCallOK(M!Then(h)) /\ (SchemaCurrent(M!Then(h)) => SchemaCurrent(h))
        /\ M!Then(h).at = "record" => h.at \in {"baseline", "activate"}
    BY <1>1, SchemaThenFacts DEF SchemaCallOK, SchemaCurrent, SchemaPast
  <1>4. s' = [s EXCEPT !.o = [s.o EXCEPT ![h.c] = r], !.hand = hand, !.late = late, !.faults = faults]
    BY <1>0 DEF SchemaIInv, SchemaStates
  <1>5. \A g \in hand \cup late : SchemaCallOK(g)
    BY <1>3 DEF SchemaIInv, SchemaCallsOK
  <1>6. ASSUME NEW g \in hand, g.at = "record", SchemaCurrent(g)
        PROVE  IF g.c = h.c THEN SchemaIsAfter(r) ELSE SchemaAfter(g.c)
    <2>1. CASE g \in s.hand
      <3>1. SchemaAfter(g.c)
        BY <1>6, <2>1 DEF SchemaIInv, SchemaCallsOK
      <3>2. g.c = h.c => r = s.o[h.c]
        BY <1>2, <3>1 DEF SchemaMoves
      <3> QED BY <3>1, <3>2 DEF SchemaAfter
    <2>2. CASE g = M!Then(h)
      BY <1>2, <1>3, <1>6, <2>2
    <2> QED BY <2>1, <2>2
  <1> QED
    <2>1. hand \in SUBSET SchemaCalls /\ late \in SUBSET SchemaWaiting
      BY <1>1, <1>3
    <2>2. \A g \in hand : g.at = "record" /\ SchemaCurrent(g) => IF g.c = h.c THEN SchemaIsAfter(r) ELSE SchemaAfter(g.c)
      BY <1>6
    <2>3. \A c \in s.routed : \A q : SchemaMoves(c, q) /\ s' = [s EXCEPT !.o = [s.o EXCEPT ![c] = q], !.hand = hand, !.late = late, !.faults = faults]
             /\ (\A g \in hand : g.at = "record" /\ SchemaCurrent(g) => IF g.c = c THEN SchemaIsAfter(q) ELSE SchemaAfter(g.c)) => SchemaIInv'
       BY <2>1, <1>5, SchemaShardMoves
    <2> QED BY <1>1, <1>2, <1>4, <2>2, <2>3

\* What each part of the invariant depends on.
LEMMA SchemaObjectsFrame ==
    ASSUME SchemaObjectsOK, UNCHANGED mix, s'.o = s.o, s'.code = s.code, s'.deployed = s.deployed
    PROVE  SchemaObjectsOK'
  BY SchemaSameBounds DEF SchemaObjectsOK, SchemaRecordOK

LEMMA SchemaAgreeFrame ==
    ASSUME SchemaAgree, UNCHANGED mix, s'.o = s.o, s'.reg = s.reg, s'.base = s.base, s'.routed = s.routed
    PROVE  SchemaAgree'
  BY SchemaSameBounds DEF SchemaAgree, SchemaBefore, SchemaDuring, SchemaAfter, SchemaIsDuring, SchemaIsAfter, M!Same

LEMMA SchemaCallsFrame ==
    ASSUME SchemaCallsOK, UNCHANGED mix, s'.o = s.o, s'.routed = s.routed, s'.hand \subseteq s.hand,
           s'.late \subseteq s.late \cup {h \in s.hand : h.at # "record"}
    PROVE  SchemaCallsOK'
  <1>1. \A h \in s.hand \cup s.late : SchemaCallOK(h)'
    BY DEF SchemaCallsOK, SchemaCallOK, SchemaCurrent, SchemaPast
  <1>2. \A h \in s.hand : h.at = "record" /\ SchemaCurrent(h)' => SchemaAfter(h.c)'
    BY DEF SchemaCallsOK, SchemaCurrent, SchemaAfter, SchemaIsAfter
  <1> QED BY <1>1, <1>2 DEF SchemaCallsOK

LEMMA SchemaCommandsFrame ==
    ASSUME SchemaCommandsOK, UNCHANGED mix, s'.drv = s.drv, s'.routed = s.routed
    PROVE  SchemaCommandsOK'
  BY SchemaSameBounds DEF SchemaCommandsOK

LEMMA SchemaLeaseFrame ==
    ASSUME SchemaLeaseOK, UNCHANGED mix, s'.op = s.op, s'.ops = s.ops, s'.routed = s.routed, s'.o = s.o
    PROVE  SchemaLeaseOK'
  BY SchemaSameBounds DEF SchemaLeaseOK, M!Same

LEMMA SchemaServedFrame ==
    ASSUME SchemaServed, s'.o = s.o, s'.routed = s.routed, s'.req \subseteq s.req, s'.top = s.top, s'.back = s.back
    PROVE  SchemaServed'
  BY DEF SchemaServed

\* Calls that are dropped or that arrive later: no shard changes.
LEMMA SchemaCallsGo ==
    ASSUME SchemaIInv, UNCHANGED mix, NEW hand \in SUBSET s.hand,
           NEW late \in SUBSET (s.late \cup {h \in s.hand : h.at # "record"}), NEW faults \in Nat,
           s' = [s EXCEPT !.hand = hand, !.late = late, !.faults = faults]
    PROVE  SchemaIInv'
  <1>0. s \in SchemaStates
    BY DEF SchemaIInv
  <1>1. hand \in SUBSET SchemaCalls /\ late \in SUBSET SchemaWaiting
    BY <1>0 DEF SchemaStates, SchemaWaiting
  <1>2. s' \in SchemaStates
    BY <1>0, <1>1 DEF SchemaStates
  <1>3. /\ s'.o = s.o /\ s'.hand = hand /\ s'.late = late /\ s'.base = s.base /\ s'.reg = s.reg /\ s'.code = s.code
        /\ s'.deployed = s.deployed /\ s'.routed = s.routed /\ s'.op = s.op /\ s'.ops = s.ops /\ s'.drv = s.drv
        /\ s'.req = s.req /\ s'.top = s.top /\ s'.back = s.back
    BY <1>0 DEF SchemaStates
  <1> QED BY <1>2, <1>3, SchemaObjectsFrame, SchemaAgreeFrame, SchemaCallsFrame, SchemaCommandsFrame, SchemaLeaseFrame, SchemaServedFrame, SchemaSameBounds DEF SchemaIInv

\* The calls of the Catalog to the shards.
LEMMA SchemaCallKeepsInv ==
    ASSUME SchemaIInv, UNCHANGED mix, (\E h \in s.hand : M!Shard(h) \/ M!ShardLost(h)) \/ (\E h \in s.late : M!Late(h))
    PROVE  SchemaIInv'
  <1>0. s \in SchemaStates /\ s.faults \in Nat /\ s.faults + 1 \in Nat /\ SchemaMixOK
    BY DEF SchemaIInv, SchemaStates
  <1>1. ASSUME NEW h \in s.hand, M!Shard(h) PROVE SchemaIInv'
    <2>1. CASE M!CanCall(h)
      <3>1. s' = [s EXCEPT !.o[h.c] = M!Called(h), !.hand = M!Drop(h) \cup {M!Then(h)}, !.late = s.late, !.faults = s.faults]
        BY <1>0, <1>1, <2>1 DEF M!Shard, SchemaStates
      <3>2. M!Drop(h) \cup {M!Then(h)} \in SUBSET (s.hand \cup {M!Then(h)}) /\ h.at # "record"
        BY <1>1 DEF M!Drop, M!Shard
      <3> QED BY <1>0, <2>1, <3>1, <3>2, SchemaCallRuns
    <2>2. CASE ~M!CanCall(h)
      <3>1. s' = [s EXCEPT !.hand = M!Drop(h), !.late = s.late, !.faults = s.faults]
        BY <1>0, <1>1, <2>2 DEF M!Shard, SchemaStates
      <3> QED BY <1>0, <3>1, SchemaCallsGo DEF M!Drop
    <2> QED BY <2>1, <2>2
  <1>2. ASSUME NEW h \in s.hand, M!ShardLost(h) PROVE SchemaIInv'
    <2>0. PICK faults \in Nat : faults = s.faults + 1
      BY <1>0
    <2>1. CASE s' = [s EXCEPT !.hand = M!Drop(h), !.faults = @ + 1]
      <3>1. s' = [s EXCEPT !.hand = M!Drop(h), !.late = s.late, !.faults = faults]
        BY <1>0, <2>0, <2>1 DEF SchemaStates
      <3> QED BY <1>0, <3>1, SchemaCallsGo DEF M!Drop
    <2>2. CASE s' = [s EXCEPT !.hand = M!Drop(h), !.late = @ \cup {h}, !.faults = @ + 1]
      <3>1. s' = [s EXCEPT !.hand = M!Drop(h), !.late = s.late \cup {h}, !.faults = faults]
        BY <2>0, <2>2
      <3>2. M!Drop(h) \in SUBSET s.hand /\ s.late \cup {h} \in SUBSET (s.late \cup {g \in s.hand : g.at # "record"})
        BY <1>2 DEF M!ShardLost, M!Drop
      <3> QED BY <1>0, <3>1, <3>2, SchemaCallsGo
    <2>3. CASE M!CanCall(h) /\ s' = [s EXCEPT !.o[h.c] = M!Called(h), !.hand = M!Drop(h), !.faults = @ + 1]
      <3>0. PICK hand : hand = M!Drop(h)
        OBVIOUS
      <3>1. s' = [s EXCEPT !.o[h.c] = M!Called(h), !.hand = hand, !.late = s.late, !.faults = faults]
        BY <1>0, <2>0, <2>3, <3>0 DEF SchemaStates
      <3>2. hand \in SUBSET (s.hand \cup {M!Then(h)}) /\ h.at # "record"
        BY <1>2, <3>0 DEF M!Drop, M!ShardLost
      <3>3. M!CanCall(h)
        BY <2>3
      <3> QED BY <3>1, <3>2, <3>3, SchemaCallRuns
    <2> QED BY <1>2, <2>1, <2>2, <2>3 DEF M!ShardLost
  <1>3. ASSUME NEW h \in s.late, M!Late(h) PROVE SchemaIInv'
    <2>0. h.at # "record"
      BY <1>0 DEF SchemaStates, SchemaWaiting
    <2>1. CASE M!CanCall(h)
      <3>1. s' = [s EXCEPT !.o[h.c] = M!Called(h), !.hand = s.hand, !.late = s.late \ {h}, !.faults = s.faults]
        BY <1>0, <1>3, <2>1 DEF M!Late, SchemaStates
      <3> QED BY <1>0, <2>0, <2>1, <3>1, SchemaCallRuns
    <2>2. CASE ~M!CanCall(h)
      <3>1. s' = [s EXCEPT !.hand = s.hand, !.late = s.late \ {h}, !.faults = s.faults]
        <4>1. s' = [s EXCEPT !.late = @ \ {h}, !.o[h.c] = s.o[h.c]]
          BY <1>3, <2>2 DEF M!Late
        <4> QED BY <1>0, <4>1 DEF SchemaStates
      <3> QED BY <1>0, <3>1, SchemaCallsGo
    <2> QED BY <2>1, <2>2
  <1> QED BY <1>1, <1>2, <1>3

\* An answer is recorded: the Catalog still migrates with that id, so the call
\* is of this migration and its shard is after it.
LEMMA SchemaRecordKeepsInv ==
    ASSUME SchemaIInv, UNCHANGED mix, NEW h \in s.hand, M!Record(h)
    PROVE  SchemaIInv'
  <1>0. /\ s \in SchemaStates /\ h \in SchemaCalls /\ SchemaCallOK(h) /\ h.c \in M!Shards /\ h.at = "record"
        /\ s.o[M!Cat] \in SchemaRecords /\ SchemaRecordOK(M!Cat, s.o[M!Cat]) /\ h.c \in M!Objects
    BY SchemaCallFacts DEF SchemaIInv, M!Record
  <1>1. PICK reg \in [M!Shards -> {"none", "pending", "active"}], hand \in SUBSET s.hand :
          /\ s' = [s EXCEPT !.hand = hand, !.reg = reg]
          /\ \A c \in M!Shards : reg[c] # s.reg[c] => c = h.c /\ M!Migrating(M!Cat, h.m) /\ reg[c] = "active"
    <2> DEFINE reg == [s.reg EXCEPT ![h.c] = IF M!Migrating(M!Cat, h.m) THEN "active" ELSE @]
               hand == M!Drop(h)
    <2>1. reg \in [M!Shards -> {"none", "pending", "active"}] /\ hand \in SUBSET s.hand
      BY <1>0 DEF SchemaStates, M!Drop
    <2>2. \A c \in M!Shards : reg[c] # s.reg[c] => c = h.c /\ M!Migrating(M!Cat, h.m) /\ reg[c] = "active"
      BY <1>0 DEF SchemaStates
    <2>3. s' = [s EXCEPT !.hand = hand, !.reg = reg]
      BY DEF M!Record, M!ActivateShard
    <2> HIDE DEF reg, hand
    <2> QED BY <2>1, <2>2, <2>3
  <1>2. M!Migrating(M!Cat, h.m) => SchemaAfter(h.c)
    <2>1. M!Migrating(M!Cat, h.m) => SchemaCurrent(h)
      BY <1>0 DEF SchemaCallOK, SchemaCurrent, SchemaPast, M!Migrating, SchemaRecordOK, SchemaRecords, SchemaCalls
    <2> QED BY <1>0, <2>1 DEF SchemaIInv, SchemaCallsOK
  <1>3. /\ s'.o = s.o /\ s'.hand = hand /\ s'.late = s.late /\ s'.base = s.base /\ s'.reg = reg /\ s'.code = s.code
        /\ s'.deployed = s.deployed /\ s'.routed = s.routed /\ s'.op = s.op /\ s'.ops = s.ops /\ s'.drv = s.drv
        /\ s'.req = s.req /\ s'.top = s.top /\ s'.back = s.back
    BY <1>0, <1>1 DEF SchemaStates
  <1>4. s' \in SchemaStates
    BY <1>0, <1>1 DEF SchemaStates
  <1>5. SchemaAgree'
    <2>1. ASSUME NEW c \in s.routed, SchemaBefore(c) \/ SchemaDuring(c) \/ SchemaAfter(c) PROVE (SchemaBefore(c) \/ SchemaDuring(c) \/ SchemaAfter(c))'
      <3>0. c \in M!Shards
        BY <1>0 DEF SchemaStates
      <3>1. CASE SchemaAfter(c)
        BY <1>3, <3>1 DEF SchemaAfter, SchemaIsAfter
      <3>2. CASE ~SchemaAfter(c)
        <4>1. reg[c] = s.reg[c]
          BY <1>1, <1>2, <3>0, <3>2
        <4> QED BY <1>3, <2>1, <3>2, <4>1 DEF SchemaBefore, SchemaDuring, SchemaIsDuring, M!Same
      <3> QED BY <3>1, <3>2
    <2>2. \A c \in M!Shards : reg[c] = "pending" => s.reg[c] = "pending"
      BY <1>1
    <2> QED BY <1>3, <2>1, <2>2, SchemaSameBounds DEF SchemaIInv, SchemaAgree, M!Same
  <1> QED BY <1>3, <1>4, <1>5, SchemaObjectsFrame, SchemaCallsFrame, SchemaCommandsFrame, SchemaLeaseFrame, SchemaServedFrame, SchemaSameBounds DEF SchemaIInv

\* A command moves on, without touching the Catalog.
LEMMA SchemaCommandMoves ==
    ASSUME SchemaIInv, UNCHANGED mix, NEW d \in M!Drivers, NEW r \in SchemaCommands, NEW faults \in Nat,
           r.todo \cup r.busy \subseteq s.routed, r.at # "idle" => r.tv > 0,
           s' = [s EXCEPT !.drv[d] = r, !.faults = faults]
    PROVE  SchemaIInv'
  <1>0. s \in SchemaStates
    BY DEF SchemaIInv
  <1>1. PICK drv \in [M!Drivers -> SchemaCommands] :
          s' = [s EXCEPT !.drv = drv, !.faults = faults] /\ \A e \in M!Drivers : drv[e] = IF e = d THEN r ELSE s.drv[e]
    <2> DEFINE drv == [s.drv EXCEPT ![d] = r]
    <2>1. drv \in [M!Drivers -> SchemaCommands] /\ \A e \in M!Drivers : drv[e] = IF e = d THEN r ELSE s.drv[e]
      BY <1>0 DEF SchemaStates
    <2>2. s' = [s EXCEPT !.drv = drv, !.faults = faults]
      OBVIOUS
    <2> HIDE DEF drv
    <2> QED BY <2>1, <2>2
  <1>2. /\ s'.o = s.o /\ s'.hand = s.hand /\ s'.late = s.late /\ s'.base = s.base /\ s'.reg = s.reg /\ s'.code = s.code
        /\ s'.deployed = s.deployed /\ s'.routed = s.routed /\ s'.op = s.op /\ s'.ops = s.ops /\ s'.drv = drv
        /\ s'.req = s.req /\ s'.top = s.top /\ s'.back = s.back
    BY <1>0, <1>1 DEF SchemaStates
  <1>3. s' \in SchemaStates
    BY <1>0, <1>1 DEF SchemaStates
  <1>4. SchemaCommandsOK'
    BY <1>1, <1>2, SchemaSameBounds DEF SchemaIInv, SchemaCommandsOK
  <1> QED BY <1>2, <1>3, <1>4, SchemaObjectsFrame, SchemaAgreeFrame, SchemaCallsFrame, SchemaLeaseFrame, SchemaServedFrame, SchemaSameBounds DEF SchemaIInv

\* The steps of a command that only read the Catalog.
LEMMA SchemaCommandKeepsInv ==
    ASSUME SchemaIInv, UNCHANGED mix, NEW d \in M!Drivers,
           M!Start(d) \/ M!List(d) \/ (\E c \in M!Shards : M!Answered(d, c)) \/ M!AllShards(d) \/ M!Interrupt(d)
    PROVE  SchemaIInv'
  <1>0. s \in SchemaStates /\ s.drv[d] \in SchemaCommands /\ s.faults \in Nat /\ s.o[M!Cat] \in SchemaRecords /\ SchemaMixOK
        /\ M!D(d).todo \cup M!D(d).busy \subseteq s.routed /\ (M!D(d).at # "idle" => M!D(d).tv > 0)
    BY DEF SchemaIInv, SchemaStates, M!Objects, SchemaCommandsOK, M!D
  <1>1. M!Idle \in SchemaCommands /\ M!Idle.todo \cup M!Idle.busy = {} /\ M!Idle.at = "idle"
    BY <1>0 DEF M!Idle, SchemaCommands, SchemaMixOK
  <1>2. CASE M!Fails(d)
    <2>1. s' = [s EXCEPT !.drv[d] = M!Idle, !.faults = s.faults]
      BY <1>0, <1>2 DEF M!Fails, SchemaStates
    <2> QED BY <1>0, <1>1, <2>1, SchemaCommandMoves
  <1>3. CASE M!Start(d)
    <2>0. PICK r : r = [M!Idle EXCEPT !.at = "begin", !.av = s.o[M!Cat].ver, !.tv = s.deployed]
      OBVIOUS
    <2>1. /\ r \in SchemaCommands /\ r.todo = {} /\ r.busy = {} /\ r.tv = s.deployed
      BY <1>0, <1>1, <2>0 DEF M!Idle, SchemaCommands, SchemaRecords, SchemaStates
    <2>2. s' = [s EXCEPT !.drv[d] = r, !.faults = s.faults] /\ s.deployed > 0
      BY <1>0, <1>3, <2>0 DEF M!Start, M!To, SchemaStates
    <2> QED BY <1>0, <2>1, <2>2, SchemaCommandMoves
  <1>4. CASE M!List(d) /\ ~M!Fails(d)
    <2>0. PICK r : r = [M!D(d) EXCEPT !.at = "shards", !.todo = M!PendingShards(M!Name(d))]
      OBVIOUS
    <2>1. M!PendingShards(M!Name(d)) \subseteq s.routed
      BY DEF M!PendingShards, M!Migrating, SchemaIInv, SchemaAgree
    <2>2. /\ r \in SchemaCommands /\ r.todo = M!PendingShards(M!Name(d)) /\ r.busy = s.drv[d].busy /\ r.tv = s.drv[d].tv
      BY <1>0, <2>0, <2>1 DEF M!D, SchemaCommands, SchemaStates
    <2>3. s' = [s EXCEPT !.drv[d] = r, !.faults = s.faults] /\ M!D(d).at # "idle"
      BY <1>0, <1>4, <2>0 DEF M!List, M!To, SchemaStates
    <2> QED BY <1>0, <2>1, <2>2, <2>3, SchemaCommandMoves DEF M!D
  <1>5. CASE \E c \in M!Shards : M!Answered(d, c)
    <2>3. PICK c \in M!Shards : M!Answered(d, c)
      BY <1>5
    <2>0. PICK r : M!Answered(d, c) /\ r = [M!D(d) EXCEPT !.busy = @ \ {c}]
      BY <2>3
    <2>1. r \in SchemaCommands /\ r.todo = s.drv[d].todo /\ r.busy \subseteq s.drv[d].busy /\ r.tv = s.drv[d].tv /\ M!D(d).at # "idle"
      BY <1>0, <2>0 DEF M!D, SchemaCommands, M!Answered
    <2>2. s' = [s EXCEPT !.drv[d] = r, !.faults = s.faults]
      BY <1>0, <2>0 DEF M!Answered, M!To, SchemaStates
    <2> QED BY <1>0, <2>1, <2>2, SchemaCommandMoves DEF M!D
  <1>6. CASE M!AllShards(d)
    <2>3. PICK ver \in Nat : ver = M!D(d).av + 1
      BY <1>0 DEF M!D, SchemaCommands
    <2>0. PICK r : ver = M!D(d).av + 1 /\ r = [M!D(d) EXCEPT !.at = "catalog", !.ver = ver]
      BY <2>3
    <2>1. r \in SchemaCommands /\ r.todo = s.drv[d].todo /\ r.busy = s.drv[d].busy /\ r.tv = s.drv[d].tv /\ M!D(d).at # "idle"
      BY <1>0, <1>6, <2>0 DEF M!D, SchemaCommands, M!AllShards
    <2>2. s' = [s EXCEPT !.drv[d] = r, !.faults = s.faults]
      BY <1>0, <1>6, <2>0 DEF M!AllShards, M!To, SchemaStates
    <2> QED BY <1>0, <2>1, <2>2, SchemaCommandMoves DEF M!D
  <1>7. CASE M!Interrupt(d)
    <2>0. PICK faults \in Nat : faults = s.faults + 1
      BY <1>0
    <2>1. s' = [s EXCEPT !.drv[d] = M!Idle, !.faults = faults]
      BY <1>7, <2>0 DEF M!Interrupt
    <2> QED BY <1>0, <1>1, <2>1, SchemaCommandMoves
  <1> QED BY <1>2, <1>3, <1>4, <1>5, <1>6, <1>7

\* A call that the Catalog makes now is of its migration in progress.
LEMMA SchemaStartedCall ==
    ASSUME SchemaIInv, NEW m, NEW c \in s.routed, M!Migrating(M!Cat, m)
    PROVE  /\ M!MigrateShardStart(m, c) \in SchemaCalls /\ SchemaCallOK(M!MigrateShardStart(m, c))
           /\ M!MigrateShardStart(m, c).at # "record"
  <1>0. /\ s \in SchemaStates /\ s.o[M!Cat] \in SchemaRecords /\ SchemaRecordOK(M!Cat, s.o[M!Cat]) /\ c \in M!Shards /\ s.base \in BOOLEAN
        /\ s.code[M!Cat] <= s.deployed /\ s.deployed \in 0..mix.vers /\ s.code[M!Cat] \in Nat /\ mix.vers \in Nat
    BY DEF SchemaIInv, SchemaStates, M!Objects, SchemaObjectsOK, SchemaMixOK
  <1>1. s.o[M!Cat].mig = m /\ s.o[M!Cat].st = "migrating" /\ s.base = mix.legacy
    BY DEF M!Migrating, SchemaIInv, SchemaAgree
  <1>2. s.o[M!Cat].tv \in 1..mix.vers /\ m \in SchemaIds /\ m[1] = s.o[M!Cat].tv
    BY <1>0, <1>1 DEF SchemaRecordOK, SchemaRecords
  <1>3. PICK v \in Nat : v = s.o[M!Cat].ver + 1
    BY <1>0 DEF SchemaRecords
  <1>4. PICK g : g = M!MigrateShardStart(m, c)
    OBVIOUS
  <1>5. /\ g.c = c /\ g.m = m /\ g.av = s.o[M!Cat].ver /\ g.tv = s.o[M!Cat].tv /\ g.te = s.o[M!Cat].te
        /\ g.at = (IF s.base THEN "baseline" ELSE "prepare") /\ g \in SchemaCalls
    BY <1>0, <1>2, <1>3, <1>4 DEF M!MigrateShardStart, SchemaCalls, SchemaRecords
  <1>6. SchemaCallOK(g)
    BY <1>1, <1>2, <1>5 DEF SchemaCallOK, SchemaCurrent
  <1> QED BY <1>4, <1>5, <1>6

\* The request for a shard: the command remembers it, the Catalog calls.
LEMMA SchemaAskKeepsInv ==
    ASSUME SchemaIInv, UNCHANGED mix, NEW d \in M!Drivers, NEW c \in M!Shards, M!Ask(d, c)
    PROVE  SchemaIInv'
  <1>0. s \in SchemaStates /\ s.drv[d] \in SchemaCommands /\ s.faults \in Nat /\ SchemaMixOK
        /\ M!D(d).todo \cup M!D(d).busy \subseteq s.routed /\ M!D(d).tv > 0 /\ M!D(d).at = "shards" /\ c \in M!D(d).todo \cup M!D(d).busy
    BY DEF SchemaIInv, SchemaStates, SchemaCommandsOK, M!D, M!Ask
  <1>1. CASE M!Fails(d)
    <2>1. M!Idle \in SchemaCommands /\ M!Idle.todo \cup M!Idle.busy = {} /\ M!Idle.at = "idle"
      BY <1>0 DEF M!Idle, SchemaCommands, SchemaMixOK
    <2>2. s' = [s EXCEPT !.drv[d] = M!Idle, !.faults = s.faults]
      BY <1>0, <1>1 DEF M!Fails, SchemaStates
    <2> QED BY <1>0, <2>1, <2>2, SchemaCommandMoves
  <1>2. CASE M!To(d, [M!D(d) EXCEPT !.todo = @ \ {c}, !.busy = @ \ {c}])
    <2>0. PICK r : r = [M!D(d) EXCEPT !.todo = @ \ {c}, !.busy = @ \ {c}]
      OBVIOUS
    <2>1. r \in SchemaCommands /\ r.todo \subseteq s.drv[d].todo /\ r.busy \subseteq s.drv[d].busy /\ r.tv = s.drv[d].tv
      BY <1>0, <2>0 DEF M!D, SchemaCommands
    <2>2. s' = [s EXCEPT !.drv[d] = r, !.faults = s.faults]
      BY <1>0, <1>2, <2>0 DEF M!To, SchemaStates
    <2> QED BY <1>0, <2>1, <2>2, SchemaCommandMoves DEF M!D
  <1>3. CASE /\ M!Migrating(M!Cat, M!Name(d))
             /\ s' = [s EXCEPT !.drv[d] = [M!D(d) EXCEPT !.todo = @ \ {c}, !.busy = @ \cup {c}, !.tries[c] = @ + 1],
                               !.hand = @ \cup {M!MigrateShardStart(M!Name(d), c)}]
    <2>0. PICK g : g = M!MigrateShardStart(M!Name(d), c)
      OBVIOUS
    <2>1. g \in SchemaCalls /\ SchemaCallOK(g) /\ g.at # "record"
      BY <1>0, <1>3, <2>0, SchemaStartedCall
    <2>2. PICK drv \in [M!Drivers -> SchemaCommands] :
            /\ s' = [s EXCEPT !.drv = drv, !.hand = s.hand \cup {g}]
            /\ \A e \in M!Drivers : e # d => drv[e] = s.drv[e]
            /\ drv[d].todo \cup drv[d].busy \subseteq s.routed /\ drv[d].tv = s.drv[d].tv
      <3> DEFINE tries == [s.drv[d].tries EXCEPT ![c] = @ + 1]
                 r == [s.drv[d] EXCEPT !.todo = @ \ {c}, !.busy = @ \cup {c}, !.tries = tries]
                 drv == [s.drv EXCEPT ![d] = r]
      <3>1. tries \in [M!Shards -> Nat]
        BY <1>0 DEF SchemaCommands
      <3>2. s' = [s EXCEPT !.drv = [s.drv EXCEPT ![d] = r], !.hand = s.hand \cup {g}]
        <4>1. r = [M!D(d) EXCEPT !.todo = @ \ {c}, !.busy = @ \cup {c}, !.tries[c] = @ + 1]
          BY <1>0 DEF SchemaCommands, M!D
        <4> HIDE DEF r
        <4>2. s' = [s EXCEPT !.drv[d] = r, !.hand = @ \cup {g}]
          BY <1>3, <2>0, <4>1
        <4> QED BY <1>0, <4>2 DEF SchemaStates
      <3> HIDE DEF tries
      <3>3. r \in SchemaCommands /\ r.todo = s.drv[d].todo \ {c} /\ r.busy = s.drv[d].busy \cup {c} /\ r.tv = s.drv[d].tv
        BY <1>0, <3>1 DEF SchemaCommands
      <3> HIDE DEF r
      <3>4. /\ drv \in [M!Drivers -> SchemaCommands] /\ drv[d] = r /\ \A e \in M!Drivers : e # d => drv[e] = s.drv[e]
        BY <1>0, <3>3 DEF SchemaStates
      <3>5. s' = [s EXCEPT !.drv = drv, !.hand = s.hand \cup {g}]
        BY <3>2
      <3>6. drv[d].todo \cup drv[d].busy \subseteq s.routed /\ drv[d].tv = s.drv[d].tv
        BY <1>0, <3>3, <3>4 DEF M!D
      <3> HIDE DEF drv
      <3> QED BY <3>4, <3>5, <3>6
    <2>3. /\ s'.o = s.o /\ s'.hand = s.hand \cup {g} /\ s'.late = s.late /\ s'.base = s.base /\ s'.reg = s.reg /\ s'.code = s.code
          /\ s'.deployed = s.deployed /\ s'.routed = s.routed /\ s'.op = s.op /\ s'.ops = s.ops /\ s'.drv = drv
          /\ s'.req = s.req /\ s'.top = s.top /\ s'.back = s.back
      BY <1>0, <2>2 DEF SchemaStates
    <2>4. s' \in SchemaStates
      <3>1. s.hand \cup {g} \in SUBSET SchemaCalls
        BY <1>0, <2>1 DEF SchemaStates
      <3> QED BY <1>0, <2>2, <3>1 DEF SchemaStates
    <2>5. SchemaCallsOK'
      <3>1. \A h \in s.hand \cup s.late \cup {g} : SchemaCallOK(h)'
        BY <2>1, <2>3, SchemaSameBounds DEF SchemaIInv, SchemaCallsOK, SchemaCallOK, SchemaCurrent, SchemaPast
      <3>2. \A h \in s.hand : h.at = "record" /\ SchemaCurrent(h)' => SchemaAfter(h.c)'
        BY <2>3 DEF SchemaIInv, SchemaCallsOK, SchemaCurrent, SchemaAfter, SchemaIsAfter
      <3> QED BY <2>1, <2>3, <3>1, <3>2 DEF SchemaCallsOK
    <2>6. SchemaCommandsOK'
      BY <1>0, <2>2, <2>3, SchemaSameBounds DEF SchemaIInv, SchemaCommandsOK, M!D
    <2> QED BY <2>3, <2>4, <2>5, <2>6, SchemaObjectsFrame, SchemaAgreeFrame, SchemaLeaseFrame, SchemaServedFrame, SchemaSameBounds DEF SchemaIInv
  <1> QED BY <1>1, <1>2, <1>3 DEF M!Ask

\* The Catalog's own record goes forward, by a step of a command.
LEMMA SchemaCatalogSets ==
    ASSUME SchemaIInv, UNCHANGED mix, NEW o \in [M!Objects -> SchemaRecords], SchemaRecordOK(M!Cat, o[M!Cat]),
           o[M!Cat].ver >= s.o[M!Cat].ver, o[M!Cat].epoch >= s.o[M!Cat].epoch, \A c \in M!Shards : o[c] = s.o[c],
           NEW drv \in [M!Drivers -> SchemaCommands],
           \A e \in M!Drivers : drv[e].todo \cup drv[e].busy \subseteq s.routed /\ (drv[e].at # "idle" => drv[e].tv > 0),
           NEW reg \in [M!Shards -> {"none", "pending", "active"}], NEW base \in BOOLEAN,
           s' = [s EXCEPT !.o = o, !.reg = reg, !.base = base, !.drv = drv]
    PROVE  /\ s'.o = o /\ s'.reg = reg /\ s'.base = base
           /\ s'.routed = s.routed /\ s'.hand = s.hand /\ s'.late = s.late /\ s'.op = s.op /\ s'.ops = s.ops
           /\ s' \in SchemaStates /\ SchemaObjectsOK' /\ SchemaCommandsOK' /\ SchemaServed'
  <1>0. /\ s \in SchemaStates /\ M!Cat \in M!Objects /\ s.o[M!Cat] \in SchemaRecords /\ (\A c \in M!Shards : c \in M!Objects /\ c # M!Cat) /\ SchemaMixOK
        /\ s.routed \subseteq M!Shards /\ s.top \in Nat /\ \A x \in M!Objects : x # M!Cat => x \in M!Shards
    <2>1. s \in SchemaStates /\ SchemaMixOK
      BY DEF SchemaIInv
    <2>2. M!Cat \in M!Objects /\ (\A c \in M!Shards : c \in M!Objects /\ c # M!Cat) /\ \A x \in M!Objects : x # M!Cat => x \in M!Shards
      BY <2>1 DEF M!Objects, M!Shards, M!Cat, SchemaMixOK
    <2>3. s.routed \subseteq M!Shards /\ s.top \in Nat /\ s.o[M!Cat] \in SchemaRecords
      BY <2>1, <2>2 DEF SchemaStates
    <2> QED BY <2>1, <2>2, <2>3
  <1>3. s' = [s EXCEPT !.o = o, !.reg = reg, !.base = base, !.drv = drv]
    OBVIOUS
  <1>4. s' \in SchemaStates
    <2>1. s \in SchemaStates
      BY <1>0
    <2> QED BY <1>3, <2>1, SchemaCatalogTypes
  <1>5. /\ s'.o = o /\ s'.hand = s.hand /\ s'.late = s.late /\ s'.base = base /\ s'.reg = reg /\ s'.code = s.code
        /\ s'.deployed = s.deployed /\ s'.routed = s.routed /\ s'.op = s.op /\ s'.ops = s.ops /\ s'.drv = drv
        /\ s'.req = s.req /\ s'.top = s.top /\ s'.back = s.back
    BY <1>0, <1>3 DEF SchemaStates
  <1>6. \A x \in M!Objects : x # M!Cat => o[x] = s.o[x]
    BY <1>0
  <1>8. SchemaObjectsOK'
    <2>1. ASSUME NEW x \in M!Objects, NEW p, SchemaRecordOK(x, p) PROVE SchemaRecordOK(x, p)'
      BY <1>5, <2>1, SchemaSameBounds DEF SchemaRecordOK
    <2>2. \A x \in M!Objects : SchemaRecordOK(x, o[x]) /\ s.code[x] <= s.deployed
      BY <1>6 DEF SchemaIInv, SchemaObjectsOK
    <2>3. \A x \in M!Objects : SchemaRecordOK(x, o[x])'
      BY <2>1, <2>2
    <2> QED BY <1>5, <2>2, <2>3, SchemaSameBounds DEF SchemaObjectsOK
  <1>9. SchemaCommandsOK'
    BY <1>5, SchemaSameBounds DEF SchemaIInv, SchemaCommandsOK
  <1>10. SchemaServed'
    <2>1. s.o[M!Cat].ver >= s.top /\ \A c \in s.routed : s.o[c].ver >= s.top
      BY DEF SchemaIInv, SchemaServed
    <2>2. o[M!Cat].ver >= s.top
      BY <1>0, <2>1 DEF SchemaRecords
    <2>3. \A x \in s.routed \cup {M!Cat} : o[x].ver >= s.top
      BY <1>0, <1>6, <2>1, <2>2
    <2>4. \A k \in s.req : k.c \in s.routed /\ k.epoch <= o[M!Cat].epoch
      <3>1. ASSUME NEW k \in s.req PROVE k.c \in s.routed /\ k.epoch <= o[M!Cat].epoch
        <4>1. k.epoch \in Nat /\ k.c \in s.routed /\ k.epoch <= s.o[M!Cat].epoch
          BY <1>0 DEF SchemaStates, SchemaIInv, SchemaServed
        <4> QED BY <1>0, <4>1 DEF SchemaRecords
      <3> QED BY <3>1
    <2> QED BY <1>5, <2>3, <2>4 DEF SchemaIInv, SchemaServed
  <1> QED BY <1>4, <1>5, <1>8, <1>9, <1>10

\* A migration begins: every shard of the routing is before it, and every call
\* still on its way is of an earlier one.
LEMMA SchemaBeginKeepsInv ==
    ASSUME SchemaIInv, UNCHANGED mix, NEW d \in M!Drivers, M!Begin(d)
    PROVE  SchemaIInv'
  <1>0. /\ s \in SchemaStates /\ s.drv[d] \in SchemaCommands /\ s.faults \in Nat /\ s.o[M!Cat] \in SchemaRecords /\ SchemaMixOK /\ SchemaRecordOK(M!Cat, s.o[M!Cat])
        /\ M!D(d).todo \cup M!D(d).busy \subseteq s.routed /\ M!D(d).tv > 0 /\ M!D(d).at = "begin" /\ s.code[M!Cat] \in Nat
        /\ s.routed \subseteq M!Shards /\ M!D(d) = s.drv[d] /\ d \in Nat
    BY DEF SchemaIInv, SchemaStates, M!Objects, SchemaObjectsOK, SchemaCommandsOK, M!D, M!Begin, M!Drivers, SchemaMixOK
  <1>1. M!Idle \in SchemaCommands /\ M!Idle.todo \cup M!Idle.busy = {} /\ M!Idle.at = "idle"
    BY <1>0 DEF M!Idle, SchemaCommands, SchemaMixOK
  <1> DEFINE q == [s.drv[d] EXCEPT !.at = "list"]
  <1>2. q \in SchemaCommands /\ q.todo = s.drv[d].todo /\ q.busy = s.drv[d].busy /\ q.tv = s.drv[d].tv
    BY <1>0 DEF SchemaCommands
  <1> HIDE DEF q
  <1>3. CASE ~M!BeginAllowed(M!Name(d), M!D(d).tv, mix.legacy)
    <2>1. s' = [s EXCEPT !.drv[d] = M!Idle, !.faults = s.faults]
      BY <1>0, <1>3 DEF M!Begin, M!Fails, SchemaStates
    <2> QED BY <1>0, <1>1, <2>1, SchemaCommandMoves
  <1>4. CASE M!BeginAllowed(M!Name(d), M!D(d).tv, mix.legacy) /\ (s.o[M!Cat].st = "migrating" \/ s.o[M!Cat].ver = M!D(d).tv)
    <2>1. M!BeginSchemaChange(M!Name(d), M!D(d).tv, mix.legacy) = s
      BY <1>4 DEF M!BeginSchemaChange
    <2>2. s' = [s EXCEPT !.drv[d] = IF s.o[M!Cat].st = "active" THEN M!Idle ELSE q]
      BY <1>4, <2>1 DEF M!Begin, q
    <2>3. PICK p : p = IF s.o[M!Cat].st = "active" THEN M!Idle ELSE q
      OBVIOUS
    <2>4. s' = [s EXCEPT !.drv[d] = p, !.faults = s.faults]
      <3>1. s' = [s EXCEPT !.drv[d] = p]
        BY <2>2, <2>3
      <3> QED BY <1>0, <3>1 DEF SchemaStates
    <2>5. p \in SchemaCommands /\ p.todo \cup p.busy \subseteq s.routed /\ (p.at # "idle" => p.tv > 0)
      BY <1>0, <1>1, <1>2, <2>3
    <2> QED BY <1>0, <2>4, <2>5, SchemaCommandMoves
  <1>5. CASE M!BeginAllowed(M!Name(d), M!D(d).tv, mix.legacy) /\ ~(s.o[M!Cat].st = "migrating" \/ s.o[M!Cat].ver = M!D(d).tv)
    <2> DEFINE m == M!Name(d)
               r == M!Begun(M!Cat, m, M!D(d).tv, s.o[M!Cat].epoch + 1)
               reg == [c \in M!Shards |-> IF c \in s.routed THEN "pending" ELSE "none"]
    <2>1. s.o[M!Cat].st = "active" /\ M!D(d).tv = s.code[M!Cat] /\ s.op.st = "none" /\ s.o[M!Cat].ver < M!D(d).tv
      BY <1>0, <1>5 DEF M!BeginAllowed, SchemaRecords
    <2>2. m \in SchemaIds /\ m[1] = M!D(d).tv /\ m # M!None
      BY <1>0 DEF M!Name, M!D, SchemaIds, M!None, SchemaCommands, SchemaMixOK
    <2>3. M!D(d).tv \in Nat /\ s.o[M!Cat].epoch + 1 \in Nat /\ {} \in SUBSET (1..mix.vers)
      BY <1>0 DEF SchemaCommands, SchemaRecords, SchemaMixOK
    <2>4. M!BeginSchemaChange(m, M!D(d).tv, mix.legacy)
             = [s EXCEPT !.o[M!Cat] = r, !.base = mix.legacy, !.reg = reg]
      BY <1>5 DEF M!BeginSchemaChange
    <2> HIDE DEF m
    <2>5. /\ r \in SchemaRecords /\ r.st = "migrating" /\ r.mig = m /\ r.tv = M!D(d).tv /\ r.te = s.o[M!Cat].epoch + 1 /\ r.steps = {}
          /\ r.ver = s.o[M!Cat].ver /\ r.epoch = s.o[M!Cat].epoch /\ r.last = s.o[M!Cat].last /\ r.tables = s.o[M!Cat].tables
      BY <1>0, <2>2, <2>3 DEF M!Begun, SchemaRecords
    <2>6. reg \in [M!Shards -> {"none", "pending", "active"}] /\ \A c \in M!Shards : reg[c] = "pending" <=> c \in s.routed
      OBVIOUS
    <2> HIDE DEF r, reg
    <2>7. SchemaRecordOK(M!Cat, r)
      <3>1. s.o[M!Cat].steps = {}
        BY <1>0, <2>1 DEF SchemaRecordOK
      <3>2. /\ r.ver <= s.code[M!Cat] /\ r.epoch >= 1 /\ r.epoch <= r.ver + 1 /\ r.last[1] <= r.ver
            /\ r.tables = IF mix.legacy /\ M!Cat \notin M!Fresh THEN mix.vers ELSE r.ver + Cardinality(r.steps)
        BY <1>0, <2>5, <3>1 DEF SchemaRecordOK
      <3>3. r.mig # M!None /\ r.mig[1] = r.tv /\ r.tv > r.ver /\ r.te = r.epoch + 1 /\ r.tv <= s.code[M!Cat]
        BY <1>0, <2>1, <2>2, <2>3, <2>5 DEF SchemaRecords
      <3> QED BY <2>5, <3>2, <3>3 DEF SchemaRecordOK
    <2>8. s' = [s EXCEPT !.o = [s.o EXCEPT ![M!Cat] = r], !.reg = reg, !.base = mix.legacy, !.drv = [s.drv EXCEPT ![d] = q]]
      <3>1. PICK n : n = [s EXCEPT !.o[M!Cat] = r, !.base = mix.legacy, !.reg = reg]
        OBVIOUS
      <3>2. n = [s EXCEPT !.o = [s.o EXCEPT ![M!Cat] = r], !.reg = reg, !.base = mix.legacy]
        BY <1>0, <3>1 DEF SchemaStates
      <3>3. n.o[M!Cat] = r /\ n.drv = s.drv
        BY <1>0, <3>2 DEF SchemaStates, M!Objects
      <3>4. s' = [n EXCEPT !.drv[d] = IF n.o[M!Cat].st = "active" THEN M!Idle ELSE [@ EXCEPT !.at = "list"]]
        BY <1>5, <2>4, <3>1 DEF M!Begin, m
      <3>5. s' = [n EXCEPT !.drv = [s.drv EXCEPT ![d] = q]]
        BY <2>5, <3>3, <3>4 DEF q
      <3> QED BY <1>0, <3>2, <3>5 DEF SchemaStates
    <2>9. /\ s'.o[M!Cat] = r /\ (\A c \in M!Shards : s'.o[c] = s.o[c]) /\ s'.reg = reg /\ s'.base = mix.legacy
          /\ s'.routed = s.routed /\ s'.hand = s.hand /\ s'.late = s.late /\ s'.op = s.op /\ s'.ops = s.ops
          /\ s' \in SchemaStates /\ SchemaObjectsOK' /\ SchemaCommandsOK' /\ SchemaServed'
      <3>1. PICK o \in [M!Objects -> SchemaRecords] : o = [s.o EXCEPT ![M!Cat] = r]
        BY <1>0, <2>5 DEF SchemaStates
      <3>2. PICK drv \in [M!Drivers -> SchemaCommands] : drv = [s.drv EXCEPT ![d] = q]
        BY <1>0, <1>2 DEF SchemaStates
      <3>3. s' = [s EXCEPT !.o = o, !.reg = reg, !.base = mix.legacy, !.drv = drv]
        BY <2>8, <3>1, <3>2
      <3>4. o[M!Cat] = r /\ \A c \in M!Shards : o[c] = s.o[c]
        BY <1>0, <3>1 DEF SchemaStates, M!Objects, M!Shards, M!Cat, SchemaMixOK
      <3>5. drv[d] = q /\ \A e \in M!Drivers : e # d => drv[e] = s.drv[e]
        BY <1>0, <3>2 DEF SchemaStates
      <3>6. \A e \in M!Drivers : drv[e].todo \cup drv[e].busy \subseteq s.routed /\ (drv[e].at # "idle" => drv[e].tv > 0)
        BY <1>0, <1>2, <3>5 DEF SchemaIInv, SchemaCommandsOK
      <3>7. o[M!Cat].ver >= s.o[M!Cat].ver /\ o[M!Cat].epoch >= s.o[M!Cat].epoch /\ mix.legacy \in BOOLEAN /\ SchemaRecordOK(M!Cat, o[M!Cat])
        BY <1>0, <2>5, <2>7, <3>4 DEF SchemaMixOK, SchemaRecords
      <3> DEFINE base == mix.legacy
      <3>8. /\ s'.o = o /\ s'.reg = reg /\ s'.base = base
            /\ s'.routed = s.routed /\ s'.hand = s.hand /\ s'.late = s.late /\ s'.op = s.op /\ s'.ops = s.ops
            /\ s' \in SchemaStates /\ SchemaObjectsOK' /\ SchemaCommandsOK' /\ SchemaServed'
        <4>1. reg \in [M!Shards -> {"none", "pending", "active"}]
          BY <2>6
        <4>2. /\ o[M!Cat].ver >= s.o[M!Cat].ver /\ o[M!Cat].epoch >= s.o[M!Cat].epoch /\ mix.legacy \in BOOLEAN
              /\ SchemaRecordOK(M!Cat, o[M!Cat]) /\ \A c \in M!Shards : o[c] = s.o[c]
          BY <3>4, <3>7
        <4>3. base \in BOOLEAN /\ s' = [s EXCEPT !.o = o, !.reg = reg, !.base = base, !.drv = drv]
          BY <3>3, <4>2 DEF base
        <4> HIDE DEF base
        <4> QED BY <3>6, <4>1, <4>2, <4>3, SchemaCatalogSets
      <3> QED BY <3>4, <3>8
    <2>10. SchemaAgree'
      <3>1. \A c \in s.routed : M!Same(c, s.o[M!Cat].ver, s.o[M!Cat].epoch)
        BY <2>1 DEF SchemaIInv, SchemaAgree
      <3>2. \A c \in s.routed : SchemaBefore(c)'
        BY <1>0, <2>5, <2>6, <2>9, <3>1 DEF SchemaBefore, M!Same
      <3> QED BY <2>5, <2>6, <2>9, <3>2, SchemaSameBounds DEF SchemaAgree
    <2>11. SchemaCallsOK'
      <3>1. ASSUME NEW h \in s.hand \cup s.late PROVE SchemaCallOK(h)' /\ ~SchemaCurrent(h)'
        <4>1. h \in SchemaCalls /\ SchemaCallOK(h)
          BY SchemaCallFacts
        <4>2. SchemaPast(h)
          BY <2>1, <4>1 DEF SchemaCallOK, SchemaCurrent
        <4>3. SchemaPast(h)' /\ h.te # s.o[M!Cat].epoch + 1
          BY <1>0, <2>5, <2>9, <4>1, <4>2 DEF SchemaPast, SchemaCalls, SchemaRecords
        <4>4. ~SchemaCurrent(h)'
          BY <2>5, <2>9, <4>3 DEF SchemaCurrent
        <4> QED BY <2>9, <4>1, <4>3, <4>4 DEF SchemaCallOK
      <3> QED BY <2>9, <3>1 DEF SchemaCallsOK
    <2>12. SchemaLeaseOK'
      BY <2>1, <2>9, SchemaSameBounds DEF SchemaIInv, SchemaLeaseOK
    <2> QED BY <2>9, <2>10, <2>11, <2>12, SchemaSameBounds DEF SchemaIInv
  <1> QED BY <1>3, <1>4, <1>5

\* A step of the Catalog's own tables.
LEMMA SchemaApplyCatalogKeepsInv ==
    ASSUME SchemaIInv, UNCHANGED mix, NEW d \in M!Drivers, M!ApplyCatalog(d)
    PROVE  SchemaIInv'
  <1>0. /\ s \in SchemaStates /\ s.drv[d] \in SchemaCommands /\ s.faults \in Nat /\ s.o[M!Cat] \in SchemaRecords /\ SchemaMixOK /\ SchemaRecordOK(M!Cat, s.o[M!Cat])
        /\ M!D(d).todo \cup M!D(d).busy \subseteq s.routed /\ M!D(d).tv > 0 /\ M!D(d).at = "catalog" /\ M!D(d) = s.drv[d]
        /\ M!Cat \in M!Objects /\ s.base \in BOOLEAN /\ s.reg \in [M!Shards -> {"none", "pending", "active"}]
    BY DEF SchemaIInv, SchemaStates, M!Objects, SchemaObjectsOK, SchemaCommandsOK, M!D, M!ApplyCatalog, M!Drivers, SchemaMixOK
  <1>1. M!Idle \in SchemaCommands /\ M!Idle.todo \cup M!Idle.busy = {} /\ M!Idle.at = "idle"
    BY <1>0 DEF M!Idle, SchemaCommands, SchemaMixOK
  <1>2. CASE M!Fails(d)
    <2>1. s' = [s EXCEPT !.drv[d] = M!Idle, !.faults = s.faults]
      BY <1>0, <1>2 DEF M!Fails, SchemaStates
    <2> QED BY <1>0, <1>1, <2>1, SchemaCommandMoves
  <1>3. CASE M!To(d, [M!D(d) EXCEPT !.at = "complete"])
    <2>0. PICK q : q = [M!D(d) EXCEPT !.at = "complete"]
      OBVIOUS
    <2>1. q \in SchemaCommands /\ q.todo = M!D(d).todo /\ q.busy = M!D(d).busy /\ q.tv = M!D(d).tv
      BY <1>0, <2>0 DEF SchemaCommands
    <2>2. s' = [s EXCEPT !.drv[d] = q, !.faults = s.faults]
      BY <1>0, <1>3, <2>0 DEF M!To, SchemaStates
    <2> QED BY <1>0, <2>1, <2>2, SchemaCommandMoves
  <1>4. CASE /\ M!CanApply(M!Cat, M!Name(d), M!D(d).ver)
             /\ s' = [s EXCEPT !.o[M!Cat] = M!Stepped(M!Cat, M!D(d).ver),
                               !.drv[d] = IF s.o[M!Cat].st = "active" THEN M!Idle ELSE [M!D(d) EXCEPT !.ver = @ + 1]]
    <2>1. PICK ver \in Nat : ver = s.drv[d].ver + 1
      BY <1>0 DEF SchemaCommands
    <2>2. PICK l : l = [s.drv[d] EXCEPT !.ver = ver]
      OBVIOUS
    <2>3. l \in SchemaCommands /\ l.todo = s.drv[d].todo /\ l.busy = s.drv[d].busy /\ l.tv = s.drv[d].tv
      BY <1>0, <2>2 DEF SchemaCommands
    <2>4. PICK q : q = IF s.o[M!Cat].st = "active" THEN M!Idle ELSE l
      OBVIOUS
    <2>5. q \in SchemaCommands /\ q.todo \cup q.busy \subseteq s.routed /\ (q.at # "idle" => q.tv > 0)
      BY <1>0, <1>1, <2>3, <2>4
    <2>6. PICK r : r = M!Stepped(M!Cat, M!D(d).ver)
      OBVIOUS
    <2>7. /\ r \in SchemaRecords /\ SchemaRecordOK(M!Cat, r)
          /\ \A f \in {"st", "ver", "epoch", "last", "mig", "tv", "te"} : r[f] = s.o[M!Cat][f]
      <3>1. s.o[M!Cat].st = "migrating" => s.base = mix.legacy
        BY DEF SchemaIInv, SchemaAgree
      <3> QED BY <1>0, <1>4, <2>6, <3>1, SchemaSteppedOK
    <2>8. s' = [s EXCEPT !.o = [s.o EXCEPT ![M!Cat] = r], !.reg = s.reg, !.base = s.base, !.drv = [s.drv EXCEPT ![d] = q]]
      <3>1. s' = [s EXCEPT !.o[M!Cat] = r, !.drv[d] = IF s.o[M!Cat].st = "active" THEN M!Idle ELSE [M!D(d) EXCEPT !.ver = @ + 1]]
        BY <1>4, <2>6
      <3>2. s' = [s EXCEPT !.o[M!Cat] = r, !.drv[d] = q]
        <4>1. l = [M!D(d) EXCEPT !.ver = @ + 1]
          BY <1>0, <2>1, <2>2
        <4>2. q = IF s.o[M!Cat].st = "active" THEN M!Idle ELSE [M!D(d) EXCEPT !.ver = @ + 1]
          BY <2>4, <4>1
        <4> QED BY <3>1, <4>2, Zenon
      <3> QED BY <1>0, <3>2 DEF SchemaStates
    <2>9. PICK o \in [M!Objects -> SchemaRecords] : o = [s.o EXCEPT ![M!Cat] = r]
      BY <1>0, <2>7 DEF SchemaStates
    <2>10. PICK drv \in [M!Drivers -> SchemaCommands] : drv = [s.drv EXCEPT ![d] = q]
      BY <1>0, <2>5 DEF SchemaStates
    <2>11. s' = [s EXCEPT !.o = o, !.reg = s.reg, !.base = s.base, !.drv = drv]
      BY <2>8, <2>9, <2>10
    <2>12. o[M!Cat] = r /\ \A c \in M!Shards : o[c] = s.o[c]
      BY <1>0, <2>9 DEF SchemaStates, M!Objects, M!Shards, M!Cat, SchemaMixOK
    <2>13. drv[d] = q /\ \A e \in M!Drivers : e # d => drv[e] = s.drv[e]
      BY <1>0, <2>10 DEF SchemaStates
    <2>14. \A e \in M!Drivers : drv[e].todo \cup drv[e].busy \subseteq s.routed /\ (drv[e].at # "idle" => drv[e].tv > 0)
      BY <2>5, <2>13 DEF SchemaIInv, SchemaCommandsOK
    <2>15. o[M!Cat].ver >= s.o[M!Cat].ver /\ o[M!Cat].epoch >= s.o[M!Cat].epoch /\ SchemaRecordOK(M!Cat, o[M!Cat])
      BY <1>0, <2>7, <2>12 DEF SchemaRecords
    <2>16. /\ s'.o = o /\ s'.reg = s.reg /\ s'.base = s.base
           /\ s'.routed = s.routed /\ s'.hand = s.hand /\ s'.late = s.late /\ s'.op = s.op /\ s'.ops = s.ops
           /\ s' \in SchemaStates /\ SchemaObjectsOK' /\ SchemaCommandsOK' /\ SchemaServed'
      <3>1. \A c \in M!Shards : o[c] = s.o[c]
        BY <2>12
      <3>2. s.reg \in [M!Shards -> {"none", "pending", "active"}] /\ s.base \in BOOLEAN
        BY <1>0 DEF SchemaStates
      <3> QED BY <2>11, <2>14, <2>15, <3>1, <3>2, SchemaCatalogSets, ZenonT(60)
    <2>17. /\ r.st = s.o[M!Cat].st /\ r.ver = s.o[M!Cat].ver /\ r.epoch = s.o[M!Cat].epoch /\ r.mig = s.o[M!Cat].mig
           /\ r.tv = s.o[M!Cat].tv /\ r.te = s.o[M!Cat].te
      BY <2>7
    <2>18. \A c \in M!Shards : /\ (SchemaBefore(c) => SchemaBefore(c)') /\ (SchemaDuring(c) => SchemaDuring(c)') /\ (SchemaAfter(c) <=> SchemaAfter(c)')
                               /\ M!Same(c, s.o[M!Cat].ver, s.o[M!Cat].epoch) <=> M!Same(c, s.o[M!Cat].ver, s.o[M!Cat].epoch)'
      BY <2>12, <2>16, <2>17 DEF SchemaBefore, SchemaDuring, SchemaAfter, SchemaIsDuring, SchemaIsAfter, M!Same
    <2>19. s.routed \subseteq M!Shards
      BY <1>0 DEF SchemaStates
    <2>20. SchemaAgree'
      BY <2>12, <2>16, <2>17, <2>18, <2>19, SchemaSameBounds DEF SchemaIInv, SchemaAgree, M!Same
    <2>21. SchemaCallsOK'
      <3>1. \A h \in s.hand \cup s.late : h \in SchemaCalls /\ SchemaCallOK(h) /\ h.c \in M!Shards
        BY SchemaCallFacts
      <3>2. \A h \in s.hand \cup s.late : SchemaCallOK(h)' /\ (SchemaCurrent(h) <=> SchemaCurrent(h)')
        BY <2>12, <2>16, <2>17, <3>1 DEF SchemaCallOK, SchemaCurrent, SchemaPast
      <3> QED BY <2>16, <2>18, <3>1, <3>2 DEF SchemaIInv, SchemaCallsOK
    <2>22. SchemaLeaseOK'
      <3>1. s.op.st = "active" => s.op.dst \in M!Shards
        BY <1>0 DEF SchemaIInv, SchemaLeaseOK, M!Fresh, M!Shards, SchemaMixOK
      <3> QED BY <2>12, <2>16, <2>17, <3>1, SchemaSameBounds DEF SchemaIInv, SchemaLeaseOK, M!Same
    <2> QED BY <2>16, <2>20, <2>21, <2>22, SchemaSameBounds DEF SchemaIInv
  <1> QED BY <1>2, <1>3, <1>4 DEF M!ApplyCatalog

\* The Catalog completes: no shard of the routing is left behind.
LEMMA SchemaCompleteKeepsInv ==
    ASSUME SchemaIInv, UNCHANGED mix, NEW d \in M!Drivers, M!CompleteMigration(d)
    PROVE  SchemaIInv'
  <1>0. /\ s \in SchemaStates /\ s.drv[d] \in SchemaCommands /\ s.faults \in Nat /\ s.o[M!Cat] \in SchemaRecords /\ SchemaMixOK /\ SchemaRecordOK(M!Cat, s.o[M!Cat])
        /\ M!Cat \in M!Objects /\ s.routed \subseteq M!Shards
    BY DEF SchemaIInv, SchemaStates, M!Objects, SchemaObjectsOK, SchemaMixOK
  <1>1. M!Idle \in SchemaCommands /\ M!Idle.todo \cup M!Idle.busy = {} /\ M!Idle.at = "idle"
    BY <1>0 DEF M!Idle, SchemaCommands, SchemaMixOK
  <1>2. CASE M!Fails(d) \/ s' = [s EXCEPT !.drv[d] = M!Idle]
    <2>1. s' = [s EXCEPT !.drv[d] = M!Idle, !.faults = s.faults]
      BY <1>0, <1>2 DEF M!Fails, SchemaStates
    <2> QED BY <1>0, <1>1, <2>1, SchemaCommandMoves
  <1>3. CASE M!CanComplete(M!Name(d)) /\ ~M!DoneBy(M!Cat, M!Name(d)) /\ s' = [M!Complete(M!Name(d)) EXCEPT !.drv[d] = M!Idle]
    <2>1. /\ s.o[M!Cat].st = "migrating" /\ s.o[M!Cat].steps = M!Pending(M!Cat)
          /\ \A c \in M!Shards : s.reg[c] # "pending"
      BY <1>3 DEF M!CanComplete, M!Migrating
    <2>2. PICK r : r = M!Activated(M!Cat)
      OBVIOUS
    <2>3. /\ r \in SchemaRecords /\ SchemaRecordOK(M!Cat, r) /\ r.st = "active" /\ r.ver = s.o[M!Cat].tv /\ r.epoch = s.o[M!Cat].te
      BY <1>0, <2>1, <2>2, SchemaActivatedOK
    <2>4. PICK reg \in [M!Shards -> {"none", "pending", "active"}] : reg = [c \in M!Shards |-> "none"]
      OBVIOUS
    <2>5. PICK o \in [M!Objects -> SchemaRecords] : o = [s.o EXCEPT ![M!Cat] = r]
      BY <1>0, <2>3 DEF SchemaStates
    <2>6. PICK drv \in [M!Drivers -> SchemaCommands] : drv = [s.drv EXCEPT ![d] = M!Idle]
      BY <1>0, <1>1 DEF SchemaStates
    <2>7. s' = [s EXCEPT !.o = o, !.reg = reg, !.base = FALSE, !.drv = drv]
      <3>1. PICK n : n = [s EXCEPT !.o[M!Cat] = r, !.reg = reg, !.base = FALSE]
        OBVIOUS
      <3>2. n = [s EXCEPT !.o = o, !.reg = reg, !.base = FALSE]
        BY <1>0, <2>5, <3>1 DEF SchemaStates
      <3>3. n.drv = s.drv
        BY <1>0, <3>2 DEF SchemaStates
      <3>4. n = M!Complete(M!Name(d))
        BY <1>3, <2>2, <2>4, <3>1 DEF M!Complete
      <3>5. s' = [n EXCEPT !.drv[d] = M!Idle]
        BY <1>3, <3>4
      <3>6. s' = [n EXCEPT !.drv = drv]
        BY <2>6, <3>3, <3>5
      <3> QED BY <1>0, <3>2, <3>6 DEF SchemaStates
    <2>8. o[M!Cat] = r /\ \A c \in M!Shards : o[c] = s.o[c]
      BY <1>0, <2>5 DEF SchemaStates, M!Objects, M!Shards, M!Cat, SchemaMixOK
    <2>9. drv[d] = M!Idle /\ \A e \in M!Drivers : e # d => drv[e] = s.drv[e]
      BY <1>0, <2>6 DEF SchemaStates
    <2>10. \A e \in M!Drivers : drv[e].todo \cup drv[e].busy \subseteq s.routed /\ (drv[e].at # "idle" => drv[e].tv > 0)
      BY <1>1, <2>9 DEF SchemaIInv, SchemaCommandsOK
    <2>11. r.ver >= s.o[M!Cat].ver /\ r.epoch >= s.o[M!Cat].epoch
      BY <1>0, <2>1, <2>3 DEF SchemaRecordOK, SchemaRecords
    <2>12. /\ s'.o = o /\ s'.reg = reg /\ s'.base = FALSE
           /\ s'.routed = s.routed /\ s'.hand = s.hand /\ s'.late = s.late /\ s'.op = s.op /\ s'.ops = s.ops
           /\ s' \in SchemaStates /\ SchemaObjectsOK' /\ SchemaCommandsOK' /\ SchemaServed'
      BY <1>0, <2>3, <2>7, <2>8, <2>10, <2>11, SchemaCatalogSets
    <2>13. SchemaAgree'
      <3>1. \A c \in s.routed : SchemaAfter(c)
        BY <1>0, <2>1 DEF SchemaIInv, SchemaAgree, SchemaBefore, SchemaDuring
      <3> QED BY <1>0, <2>3, <2>8, <2>12, <3>1, SchemaSameBounds DEF SchemaAgree, M!Same, SchemaAfter, SchemaIsAfter
    <2>14. SchemaCallsOK'
      <3>1. ASSUME NEW h \in s.hand \cup s.late PROVE SchemaCallOK(h)' /\ ~SchemaCurrent(h)'
        <4>1. h \in SchemaCalls /\ SchemaCallOK(h)
          BY SchemaCallFacts
        <4>2. CASE SchemaCurrent(h)
          BY <1>0, <2>3, <2>8, <2>12, <4>1, <4>2 DEF SchemaCallOK, SchemaCurrent, SchemaPast, SchemaCalls
        <4>3. CASE SchemaPast(h)
          BY <1>0, <2>3, <2>8, <2>11, <2>12, <4>1, <4>3 DEF SchemaCallOK, SchemaCurrent, SchemaPast, SchemaCalls, SchemaRecords
        <4> QED BY <4>1, <4>2, <4>3 DEF SchemaCallOK
      <3> QED BY <2>12, <3>1 DEF SchemaCallsOK
    <2>15. SchemaLeaseOK'
      <3>1. s.op.st # "active"
        BY <2>1 DEF SchemaIInv, SchemaLeaseOK, M!Same
      <3> QED BY <2>12, <3>1, SchemaSameBounds DEF SchemaIInv, SchemaLeaseOK
    <2> QED BY <2>12, <2>13, <2>14, <2>15, SchemaSameBounds DEF SchemaIInv
  <1> QED BY <1>2, <1>3 DEF M!CompleteMigration, M!Complete

\* New versions reach the objects, and calls are cut off.
LEMMA SchemaVersionsMove ==
    ASSUME SchemaIInv, UNCHANGED mix, NEW code \in [M!Objects -> Nat], NEW deployed \in 0..mix.vers,
           \A x \in M!Objects : s.code[x] <= code[x] /\ code[x] <= deployed,
           NEW hand \in SUBSET s.hand, NEW late \in SUBSET (s.late \cup {h \in s.hand : h.at # "record"}), NEW faults \in Nat,
           s' = [s EXCEPT !.code = code, !.deployed = deployed, !.hand = hand, !.late = late, !.faults = faults]
    PROVE  SchemaIInv'
  <1>0. s \in SchemaStates /\ s.code \in [M!Objects -> Nat] /\ s.o \in [M!Objects -> SchemaRecords]
    BY DEF SchemaIInv, SchemaStates
  <1>1. hand \in SUBSET SchemaCalls /\ late \in SUBSET SchemaWaiting
    BY <1>0 DEF SchemaStates, SchemaWaiting
  <1>2. s' \in SchemaStates
    BY <1>0, <1>1 DEF SchemaStates
  <1>3. /\ s'.o = s.o /\ s'.hand = hand /\ s'.late = late /\ s'.base = s.base /\ s'.reg = s.reg /\ s'.code = code
        /\ s'.deployed = deployed /\ s'.routed = s.routed /\ s'.op = s.op /\ s'.ops = s.ops /\ s'.drv = s.drv
        /\ s'.req = s.req /\ s'.top = s.top /\ s'.back = s.back
    BY <1>0 DEF SchemaStates
  <1>4. SchemaObjectsOK'
    <2>1. ASSUME NEW x \in M!Objects PROVE SchemaRecordOK(x, s.o[x])'
      <3>1. SchemaRecordOK(x, s.o[x]) /\ s.code[x] \in Nat /\ code[x] \in Nat /\ s.code[x] <= code[x] /\ s.o[x] \in SchemaRecords
        BY <1>0 DEF SchemaIInv, SchemaObjectsOK
      <3>2. s.o[x].ver \in Nat /\ s.o[x].tv \in Nat
        BY <3>1 DEF SchemaRecords
      <3>3. s.o[x].ver <= code[x] /\ (s.o[x].st = "migrating" => s.o[x].tv <= code[x])
        BY <3>1, <3>2 DEF SchemaRecordOK
      <3> QED BY <1>3, <3>1, <3>3, SchemaSameBounds DEF SchemaRecordOK
    <2> QED BY <1>3, <2>1, SchemaSameBounds DEF SchemaObjectsOK
  <1> QED BY <1>2, <1>3, <1>4, SchemaAgreeFrame, SchemaCallsFrame, SchemaCommandsFrame, SchemaLeaseFrame, SchemaServedFrame, SchemaSameBounds DEF SchemaIInv

LEMMA SchemaVersionsKeepInv ==
    ASSUME SchemaIInv, UNCHANGED mix, M!Deploy \/ (\E x \in M!Objects : M!Restart(x)) \/ M!CatalogCrash
    PROVE  SchemaIInv'
  <1>0. /\ s \in SchemaStates /\ SchemaMixOK /\ s.code \in [M!Objects -> Nat] /\ s.deployed \in 0..mix.vers /\ s.faults \in Nat
        /\ \A x \in M!Objects : s.code[x] <= s.deployed
    BY DEF SchemaIInv, SchemaStates, SchemaObjectsOK
  <1>1. CASE M!Deploy
    <2>1. PICK deployed \in 0..mix.vers : /\ deployed = (IF mix.jump THEN mix.vers ELSE s.deployed + 1)
                                          /\ s.deployed <= deployed
      BY <1>0, <1>1 DEF M!Deploy, SchemaMixOK
    <2>2. s' = [s EXCEPT !.deployed = deployed]
      BY <1>1, <2>1 DEF M!Deploy
    <2>3. s' = [s EXCEPT !.code = s.code, !.deployed = deployed, !.hand = s.hand, !.late = s.late, !.faults = s.faults]
      BY <1>0, <2>2 DEF SchemaStates
    <2>4. \A x \in M!Objects : s.code[x] <= s.code[x] /\ s.code[x] <= deployed
      BY <1>0, <2>1 DEF SchemaMixOK
    <2> QED BY <1>0, <2>3, <2>4, SchemaVersionsMove
  <1>2. ASSUME NEW x \in M!Objects, M!Restart(x) PROVE SchemaIInv'
    <2>a. s.deployed \in Nat
      BY <1>0 DEF SchemaMixOK
    <2>b. [s.code EXCEPT ![x] = s.deployed] \in [M!Objects -> Nat]
      BY <1>0, <2>a
    <2>1. PICK code \in [M!Objects -> Nat] : code = [s.code EXCEPT ![x] = s.deployed]
      BY <2>b
    <2>2. PICK hand \in SUBSET s.hand : hand = IF x = M!Cat THEN {} ELSE {h \in s.hand : h.c # x}
      BY DEF M!Cat
    <2>3. PICK late \in SUBSET (s.late \cup {h \in s.hand : h.at # "record"}) :
            late = IF x = M!Cat THEN s.late \cup M!OnTheWay ELSE s.late
      BY DEF M!OnTheWay
    <2>4. s' = [s EXCEPT !.code = code, !.hand = hand, !.late = late]
      BY <1>2, <2>1, <2>2, <2>3 DEF M!Restart
    <2>5. s' = [s EXCEPT !.code = code, !.deployed = s.deployed, !.hand = hand, !.late = late, !.faults = s.faults]
      BY <1>0, <2>4 DEF SchemaStates
    <2>6. \A y \in M!Objects : s.code[y] <= code[y] /\ code[y] <= s.deployed
      BY <1>0, <2>1
    <2> QED BY <1>0, <2>5, <2>6, SchemaVersionsMove
  <1>3. CASE M!CatalogCrash
    <2>1. PICK faults \in Nat : faults = s.faults + 1
      BY <1>0
    <2>2. s' = [s EXCEPT !.hand = {}, !.late = s.late \cup M!OnTheWay, !.faults = faults]
      BY <1>3, <2>1 DEF M!CatalogCrash
    <2>3. {} \in SUBSET s.hand /\ s.late \cup M!OnTheWay \in SUBSET (s.late \cup {h \in s.hand : h.at # "record"})
      BY DEF M!OnTheWay
    <2> QED BY <2>2, <2>3, SchemaCallsGo
  <1> QED BY <1>1, <1>2, <1>3

\* A movement begins or is given up.
LEMMA SchemaLeaseMoves ==
    ASSUME SchemaIInv, UNCHANGED mix, NEW op \in SchemaLeases, NEW ops \in 0..mix.ops,
           s' = [s EXCEPT !.ops = ops, !.op = op], SchemaLeaseOK'
    PROVE  SchemaIInv'
  <1>0. s \in SchemaStates
    BY DEF SchemaIInv
  <1>1. s' \in SchemaStates
    BY <1>0 DEF SchemaStates
  <1>2. /\ s'.o = s.o /\ s'.hand = s.hand /\ s'.late = s.late /\ s'.base = s.base /\ s'.reg = s.reg /\ s'.code = s.code
        /\ s'.deployed = s.deployed /\ s'.routed = s.routed /\ s'.drv = s.drv
        /\ s'.req = s.req /\ s'.top = s.top /\ s'.back = s.back
    BY <1>0 DEF SchemaStates
  <1> QED BY <1>1, <1>2, SchemaObjectsFrame, SchemaAgreeFrame, SchemaCallsFrame, SchemaCommandsFrame, SchemaServedFrame, SchemaSameBounds DEF SchemaIInv

LEMMA SchemaBeginTopologyKeepsInv ==
    ASSUME SchemaIInv, UNCHANGED mix, M!BeginTopology
    PROVE  SchemaIInv'
  <1>0. s \in SchemaStates /\ SchemaMixOK /\ s.ops \in 0..mix.ops /\ s.o[M!Cat] \in SchemaRecords /\ s.routed \subseteq M!Shards
        /\ s.ops < mix.ops /\ s.op.st = "none" /\ s.o[M!Cat].st = "active"
        /\ mix.shards \in Nat /\ mix.ops \in Nat
    BY DEF SchemaIInv, SchemaStates, M!Objects, M!BeginTopology, SchemaMixOK
  <1>1. PICK ops \in 0..mix.ops, dst \in Nat : ops = s.ops + 1 /\ dst = mix.shards + s.ops + 1
    BY <1>0
  <1>2. PICK c \in s.routed :
          s' = [s EXCEPT !.ops = ops, !.op = [st |-> "active", src |-> c, dst |-> dst,
                                              ver |-> s.o[M!Cat].ver, epoch |-> s.o[M!Cat].epoch, ready |-> FALSE]]
    BY <1>1 DEF M!BeginTopology
  <1>3. PICK op : op = [st |-> "active", src |-> c, dst |-> dst, ver |-> s.o[M!Cat].ver, epoch |-> s.o[M!Cat].epoch, ready |-> FALSE]
    OBVIOUS
  <1>4. op \in SchemaLeases /\ op.st = "active" /\ op.dst = dst /\ op.ver = s.o[M!Cat].ver /\ op.epoch = s.o[M!Cat].epoch /\ op.ready = FALSE
    BY <1>0, <1>3 DEF SchemaLeases, SchemaRecords, M!Shards
  <1>5. s' = [s EXCEPT !.ops = ops, !.op = op]
    BY <1>2, <1>3
  <1>6. s'.o = s.o /\ s'.routed = s.routed /\ s'.op = op /\ s'.ops = ops
    BY <1>0, <1>5 DEF SchemaStates
  <1>7. SchemaLeaseOK'
    <2>1. \A x \in s.routed : x < mix.shards + s.ops + 1 /\ x \in Nat
      BY <1>0 DEF SchemaIInv, SchemaLeaseOK, M!Shards
    <2>2. dst \in M!Fresh /\ dst = mix.shards + ops
      BY <1>0, <1>1 DEF M!Fresh
    <2>3. \A x \in s.routed : x < mix.shards + ops + 0 /\ x # dst
      BY <1>0, <1>1, <2>1, <2>2
    <2> QED BY <1>0, <1>4, <1>6, <2>2, <2>3, SchemaSameBounds DEF SchemaLeaseOK, M!Same
  <1> QED BY <1>4, <1>5, <1>7, SchemaLeaseMoves

LEMMA SchemaAbortTopologyKeepsInv ==
    ASSUME SchemaIInv, UNCHANGED mix, M!AbortTopology
    PROVE  SchemaIInv'
  <1>0. s \in SchemaStates /\ SchemaMixOK /\ s.ops \in 0..mix.ops /\ s.routed \subseteq M!Shards /\ s.op.st = "active"
        /\ mix.shards \in Nat /\ mix.ops \in Nat
    BY DEF SchemaIInv, SchemaStates, M!AbortTopology, SchemaMixOK
  <1>1. M!NoOp \in SchemaLeases /\ M!NoOp.st = "none"
    BY DEF M!NoOp, SchemaLeases
  <1>2. s' = [s EXCEPT !.ops = s.ops, !.op = M!NoOp]
    BY <1>0 DEF M!AbortTopology, SchemaStates
  <1>3. s'.o = s.o /\ s'.routed = s.routed /\ s'.op = M!NoOp /\ s'.ops = s.ops
    BY <1>0, <1>2 DEF SchemaStates
  <1>4. SchemaLeaseOK'
    <2>1. \A x \in s.routed : x < mix.shards + s.ops + 0 /\ x \in Nat
      BY <1>0 DEF SchemaIInv, SchemaLeaseOK, M!Shards
    <2>2. \A x \in s.routed : x < mix.shards + s.ops + 1
      BY <1>0, <2>1
    <2> QED BY <1>1, <1>3, <2>2, SchemaSameBounds DEF SchemaLeaseOK
  <1> QED BY <1>0, <1>1, <1>2, <1>4, SchemaLeaseMoves

\* A fresh destination gets the schema of the lease; it is not in the routing.
LEMMA SchemaProvisionKeepsInv ==
    ASSUME SchemaIInv, UNCHANGED mix, M!Provision
    PROVE  SchemaIInv'
  <1>0. PICK c : c = s.op.dst
    OBVIOUS
  <1>a. /\ s \in SchemaStates /\ SchemaMixOK /\ s.op \in SchemaLeases /\ s.op.st = "active" /\ M!CanProvision(c) /\ c \in M!Fresh /\ c \notin s.routed
        /\ M!Same(M!Cat, s.op.ver, s.op.epoch) /\ s.routed \subseteq M!Shards
    BY <1>0 DEF SchemaIInv, SchemaStates, M!Provision, SchemaLeaseOK
  <1>b. c \in M!Shards /\ c \in M!Objects /\ c # M!Cat /\ M!Cat \in M!Objects
    BY <1>a DEF M!Objects, M!Shards, M!Fresh, M!Cat, SchemaMixOK
  <1>c. s.o[c] \in SchemaRecords /\ SchemaRecordOK(c, s.o[c]) /\ s.o[M!Cat] \in SchemaRecords /\ SchemaRecordOK(M!Cat, s.o[M!Cat]) /\ s.code[c] \in Nat
    BY <1>a, <1>b DEF SchemaIInv, SchemaStates, SchemaObjectsOK
  <1>1. PICK r : r = M!Provisioned(c)
    OBVIOUS
  <1>2. s.op.ver \in Nat /\ s.op.epoch \in Nat
    BY <1>0, <1>a, <1>b, <1>c DEF SchemaLeases
  <1>3. /\ r \in SchemaRecords /\ r.ver = s.op.ver /\ r.epoch = s.op.epoch /\ r.tables = s.op.ver /\ r.st = s.o[c].st
        /\ r.last = s.o[c].last /\ r.mig = s.o[c].mig /\ r.steps = s.o[c].steps
    BY <1>0, <1>a, <1>b, <1>c, <1>1, <1>2 DEF M!Provisioned, SchemaRecords
  <1>4. s.o[c].st = "active" /\ s.o[c].last[1] <= s.op.ver
    <2>1. CASE s.o[c].st = "active" /\ s.o[c].ver = s.op.ver
      BY <1>0, <1>a, <1>b, <1>c, <2>1 DEF SchemaRecordOK
    <2>2. CASE M!Unused(c)
      <3>1. s.o[c].st = "active" /\ s.o[c].last = M!None
        BY <2>2 DEF M!Unused, M!New
      <3> QED BY <1>2, <3>1 DEF M!None
    <2> QED BY <1>0, <1>a, <1>b, <1>c, <2>1, <2>2 DEF M!CanProvision
  <1>5. SchemaRecordOK(c, r)
    <2>1. r.tables = r.ver + Cardinality(r.steps)
      <3>1. r.steps = {}
        BY <1>c, <1>3, <1>4 DEF SchemaRecordOK
      <3>2. Cardinality({}) = 0
        BY FS_EmptySet
      <3> QED BY <1>2, <1>3, <3>1, <3>2
    <2>2. r.ver <= s.code[c] /\ r.epoch >= 1 /\ r.epoch <= r.ver + 1
      BY <1>0, <1>a, <1>b, <1>c, <1>2, <1>3 DEF M!CanProvision, M!Same, SchemaRecordOK
    <2> QED BY <1>0, <1>a, <1>b, <1>c, <1>3, <1>4, <2>1, <2>2 DEF SchemaRecordOK
  <1>6. PICK o \in [M!Objects -> SchemaRecords] : o = [s.o EXCEPT ![c] = r]
    BY <1>0, <1>a, <1>b, <1>c, <1>3 DEF SchemaStates
  <1>7. PICK op \in SchemaLeases : op = [s.op EXCEPT !.ready = TRUE]
    BY <1>0, <1>a, <1>b, <1>c DEF SchemaLeases
  <1>8. op.st = "active" /\ op.dst = c /\ op.ver = s.op.ver /\ op.epoch = s.op.epoch
    BY <1>0, <1>a, <1>b, <1>c, <1>7 DEF SchemaLeases
  <1>9. s' = [s EXCEPT !.o = o, !.op = op]
    <2>1. s' = [s EXCEPT !.o[c] = r, !.op.ready = TRUE]
      BY <1>0, <1>1 DEF M!Provision
    <2> QED BY <1>0, <1>a, <1>b, <1>c, <1>6, <1>7, <2>1 DEF SchemaStates
  <1>10. o[c] = r /\ \A x \in M!Objects : x # c => o[x] = s.o[x]
    BY <1>0, <1>a, <1>b, <1>c, <1>6 DEF SchemaStates
  <1>11. s' \in SchemaStates
    BY <1>0, <1>a, <1>b, <1>c, <1>9 DEF SchemaStates
  <1>12. /\ s'.o = o /\ s'.hand = s.hand /\ s'.late = s.late /\ s'.base = s.base /\ s'.reg = s.reg /\ s'.code = s.code
         /\ s'.deployed = s.deployed /\ s'.routed = s.routed /\ s'.op = op /\ s'.ops = s.ops /\ s'.drv = s.drv
         /\ s'.req = s.req /\ s'.top = s.top /\ s'.back = s.back
    BY <1>0, <1>a, <1>b, <1>c, <1>9 DEF SchemaStates
  <1>13. \A x \in s.routed \cup {M!Cat} : o[x] = s.o[x] /\ x \in M!Objects
    BY <1>0, <1>a, <1>b, <1>c, <1>10 DEF M!Objects
  <1>14. SchemaObjectsOK'
    <2>1. ASSUME NEW x \in M!Objects, NEW p, SchemaRecordOK(x, p) PROVE SchemaRecordOK(x, p)'
      BY <1>12, <2>1, SchemaSameBounds DEF SchemaRecordOK
    <2>2. \A x \in M!Objects : SchemaRecordOK(x, o[x]) /\ s.code[x] <= s.deployed
      BY <1>5, <1>10 DEF SchemaIInv, SchemaObjectsOK
    <2>3. \A x \in M!Objects : SchemaRecordOK(x, o[x])'
      BY <2>1, <2>2
    <2> QED BY <1>12, <2>2, <2>3, SchemaSameBounds DEF SchemaObjectsOK
  <1>15. SchemaAgree'
    BY <1>12, <1>13, SchemaSameBounds DEF SchemaIInv, SchemaAgree, SchemaBefore, SchemaDuring, SchemaAfter, SchemaIsDuring, SchemaIsAfter, M!Same
  <1>16. SchemaCallsOK'
    <2>1. \A h \in s.hand \cup s.late : SchemaCallOK(h) /\ h.c \in s.routed
      BY DEF SchemaIInv, SchemaCallsOK, SchemaCallOK
    <2>2. \A h \in s.hand \cup s.late : SchemaCallOK(h)' /\ (SchemaCurrent(h) <=> SchemaCurrent(h)')
      BY <1>12, <1>13, <2>1 DEF SchemaCallOK, SchemaCurrent, SchemaPast
    <2>3. \A h \in s.hand : SchemaAfter(h.c) => SchemaAfter(h.c)'
      BY <1>12, <1>13, <2>1 DEF SchemaAfter, SchemaIsAfter
    <2> QED BY <1>12, <2>2, <2>3 DEF SchemaIInv, SchemaCallsOK
  <1>17. SchemaLeaseOK'
    <2>1. M!Same(M!Cat, op.ver, op.epoch)' /\ M!Same(c, op.ver, op.epoch)'
      BY <1>0, <1>a, <1>b, <1>c, <1>3, <1>4, <1>8, <1>10, <1>12 DEF M!Same
    <2>2. c = mix.shards + s.ops
      BY <1>0, <1>a, <1>b, <1>c DEF SchemaIInv, SchemaLeaseOK
    <2>3. \A x \in s.routed : x < mix.shards + s.ops + 0
      BY <1>0, <1>a, <1>b, <1>c DEF SchemaIInv, SchemaLeaseOK
    <2> QED BY <1>0, <1>a, <1>b, <1>c, <1>8, <1>12, <2>1, <2>2, <2>3, SchemaSameBounds DEF SchemaLeaseOK
  <1>18. SchemaServed'
    BY <1>12, <1>13 DEF SchemaIInv, SchemaServed
  <1> QED BY <1>11, <1>12, <1>14, <1>15, <1>16, <1>17, <1>18, SchemaCommandsFrame, SchemaSameBounds DEF SchemaIInv

\* The destination enters the routing with the schema that all others have.
LEMMA SchemaCutoverKeepsInv ==
    ASSUME SchemaIInv, UNCHANGED mix, M!Cutover
    PROVE  SchemaIInv'
  <1>0. /\ s \in SchemaStates /\ SchemaMixOK /\ s.op.st = "active" /\ s.op.ready /\ s.op.dst \in M!Fresh /\ s.op.dst \in M!Shards
        /\ s.o[M!Cat].st = "active" /\ s.o[M!Cat].ver = s.op.ver /\ s.o[M!Cat].epoch = s.op.epoch
        /\ s.op.dst = mix.shards + s.ops /\ s.ops \in Nat /\ mix.shards \in Nat /\ s.routed \subseteq M!Shards
    <2>1. /\ s \in SchemaStates /\ SchemaMixOK /\ s.op.st = "active" /\ s.op.ready /\ s.op.dst \in M!Fresh
          /\ s.o[M!Cat].st = "active" /\ s.o[M!Cat].ver = s.op.ver /\ s.o[M!Cat].epoch = s.op.epoch
          /\ s.op.dst = mix.shards + s.ops /\ s.ops \in 0..mix.ops /\ s.routed \subseteq M!Shards
      BY DEF SchemaIInv, SchemaStates, M!Cutover, SchemaLeaseOK
    <2> QED BY <2>1 DEF M!Shards, M!Fresh, SchemaMixOK
  <1>1. M!Same(s.op.dst, s.o[M!Cat].ver, s.o[M!Cat].epoch)
    BY <1>0 DEF SchemaIInv, SchemaLeaseOK
  <1>2. M!NoOp \in SchemaLeases /\ M!NoOp.st = "none"
    BY DEF M!NoOp, SchemaLeases
  <1>3. PICK routed \in SUBSET M!Shards : routed = s.routed \cup {s.op.dst}
    BY <1>0
  <1>4. s' = [s EXCEPT !.routed = routed, !.op = M!NoOp]
    BY <1>3 DEF M!Cutover
  <1>5. s' \in SchemaStates
    BY <1>0, <1>2, <1>4 DEF SchemaStates
  <1>6. /\ s'.o = s.o /\ s'.hand = s.hand /\ s'.late = s.late /\ s'.base = s.base /\ s'.reg = s.reg /\ s'.code = s.code
        /\ s'.deployed = s.deployed /\ s'.routed = routed /\ s'.op = M!NoOp /\ s'.ops = s.ops /\ s'.drv = s.drv
        /\ s'.req = s.req /\ s'.top = s.top /\ s'.back = s.back
    BY <1>0, <1>4 DEF SchemaStates
  <1>7. SchemaAgree'
    BY <1>0, <1>1, <1>3, <1>6, SchemaSameBounds DEF SchemaIInv, SchemaAgree, M!Same
  <1>8. SchemaCallsOK'
    BY <1>3, <1>6 DEF SchemaIInv, SchemaCallsOK, SchemaCallOK, SchemaCurrent, SchemaPast, SchemaAfter, SchemaIsAfter
  <1>9. SchemaCommandsOK'
    BY <1>3, <1>6, SchemaSameBounds DEF SchemaIInv, SchemaCommandsOK
  <1>10. SchemaLeaseOK'
    <2>1. \A x \in s.routed : x < mix.shards + s.ops + 0 /\ x \in Nat
      BY <1>0 DEF SchemaIInv, SchemaLeaseOK, M!Shards
    <2>2. \A x \in routed : x < mix.shards + s.ops + 1
      BY <1>0, <1>3, <2>1
    <2> QED BY <1>2, <1>6, <2>2, SchemaSameBounds DEF SchemaLeaseOK
  <1>11. SchemaServed'
    BY <1>1, <1>3, <1>6 DEF SchemaIInv, SchemaServed, M!Same
  <1> QED BY <1>5, <1>6, <1>7, <1>8, <1>9, <1>10, <1>11, SchemaObjectsFrame, SchemaSameBounds DEF SchemaIInv

\* The requests: while a shard can be at the Catalog's epoch, every other has
\* its version.
LEMMA SchemaRequestsKeepInv ==
    ASSUME SchemaIInv, UNCHANGED mix, (\E c \in M!Shards : M!Route(c)) \/ (\E r \in s.req : M!Execute(r))
    PROVE  SchemaIInv'
  <1>0. /\ s \in SchemaStates /\ SchemaMixOK /\ s.o[M!Cat] \in SchemaRecords /\ SchemaRecordOK(M!Cat, s.o[M!Cat]) /\ s.top \in Nat /\ s.back \in BOOLEAN
        /\ s.req \subseteq [c : M!Shards, epoch : Nat] /\ s.routed \subseteq M!Shards
        /\ \A x \in M!Shards : x \in M!Objects /\ s.o[x] \in SchemaRecords /\ s.code[x] \in Nat
    BY DEF SchemaIInv, SchemaStates, M!Objects, SchemaObjectsOK
  <1>1. ASSUME NEW req \in SUBSET [c : M!Shards, epoch : Nat], NEW top \in Nat, s' = [s EXCEPT !.req = req, !.top = top, !.back = FALSE],
               \A r \in req : r.c \in s.routed /\ r.epoch <= s.o[M!Cat].epoch,
               \A x \in s.routed \cup {M!Cat} : s.o[x].ver >= top
        PROVE  SchemaIInv'
    <2>1. s' \in SchemaStates
      BY <1>0, <1>1 DEF SchemaStates
    <2>2. /\ s'.o = s.o /\ s'.hand = s.hand /\ s'.late = s.late /\ s'.base = s.base /\ s'.reg = s.reg /\ s'.code = s.code
          /\ s'.deployed = s.deployed /\ s'.routed = s.routed /\ s'.op = s.op /\ s'.ops = s.ops /\ s'.drv = s.drv
          /\ s'.req = req /\ s'.top = top /\ s'.back = FALSE
      BY <1>0, <1>1 DEF SchemaStates
    <2>3. SchemaServed'
      BY <1>1, <2>2 DEF SchemaServed
    <2> QED BY <2>1, <2>2, <2>3, SchemaObjectsFrame, SchemaAgreeFrame, SchemaCallsFrame, SchemaCommandsFrame, SchemaLeaseFrame, SchemaSameBounds DEF SchemaIInv
  <1>2. (\A r \in s.req : r.c \in s.routed /\ r.epoch <= s.o[M!Cat].epoch) /\ (\A x \in s.routed \cup {M!Cat} : s.o[x].ver >= s.top)
        /\ s.back = FALSE
    BY <1>0 DEF SchemaIInv, SchemaServed
  <1>3. ASSUME NEW c \in M!Shards, M!Route(c) PROVE SchemaIInv'
    <2>1. PICK k : k = [c |-> c, epoch |-> s.o[M!Cat].epoch]
      OBVIOUS
    <2>2. k \in [c : M!Shards, epoch : Nat] /\ k.c \in s.routed /\ k.epoch <= s.o[M!Cat].epoch
      BY <1>0, <1>3, <2>1 DEF M!Route, SchemaRecords
    <2>3. s' = [s EXCEPT !.req = s.req \cup {k}]
      BY <1>3, <2>1 DEF M!Route
    <2>4. PICK req \in SUBSET [c : M!Shards, epoch : Nat] : req = s.req \cup {k}
      BY <1>0, <2>2
    <2>5. s' = [s EXCEPT !.req = req, !.top = s.top, !.back = FALSE]
      BY <1>0, <1>2, <2>3, <2>4 DEF SchemaStates
    <2>6. \A q \in req : q.c \in s.routed /\ q.epoch <= s.o[M!Cat].epoch
      BY <1>2, <2>2, <2>4
    <2> QED BY <1>0, <1>1, <1>2, <2>5, <2>6
  <1>4. ASSUME NEW r \in s.req, M!Execute(r) PROVE SchemaIInv'
    <2>1. r.c \in s.routed /\ r.epoch <= s.o[M!Cat].epoch /\ r.c \in M!Shards /\ r.epoch \in Nat
      BY <1>0, <1>2
    <2>2. PICK top : top = IF M!Admits(r.c, r.epoch) /\ s.code[r.c] > s.top THEN s.code[r.c] ELSE s.top
      OBVIOUS
    <2>3. M!Admits(r.c, r.epoch) => /\ s.o[r.c].ver = s.code[r.c] /\ s.code[r.c] >= s.top
                                    /\ \A x \in s.routed \cup {M!Cat} : s.o[x].ver >= s.code[r.c]
      <3> SUFFICES ASSUME M!Admits(r.c, r.epoch)
                   PROVE  s.o[r.c].ver = s.o[M!Cat].ver /\ \A x \in s.routed : s.o[x].ver >= s.o[M!Cat].ver
        BY <1>0, <1>2, <2>1 DEF M!Admits, SchemaRecords
      <3>1. CASE s.o[M!Cat].st = "active"
        BY <1>0, <2>1, <3>1 DEF SchemaIInv, SchemaAgree, M!Same, SchemaRecords
      <3>2. CASE s.o[M!Cat].st = "migrating"
        <4>1. SchemaBefore(r.c)
          BY <1>0, <2>1, <3>2 DEF SchemaIInv, SchemaAgree, M!Admits, SchemaDuring, SchemaIsDuring, SchemaAfter, SchemaIsAfter, SchemaRecordOK, SchemaRecords
        <4>2. \A x \in s.routed : s.o[x].ver >= s.o[M!Cat].ver
          BY <1>0, <3>2 DEF SchemaIInv, SchemaAgree, SchemaBefore, SchemaDuring, SchemaIsDuring, SchemaAfter, SchemaIsAfter, M!Same, SchemaRecordOK, SchemaRecords
        <4> QED BY <4>1, <4>2 DEF SchemaBefore, M!Same
      <3> QED BY <1>0, <3>1, <3>2 DEF SchemaRecords
    <2>4. PICK req \in SUBSET [c : M!Shards, epoch : Nat] : req = s.req \ {r}
      BY <1>0
    <2>5. s' = [s EXCEPT !.req = req, !.top = top, !.back = FALSE]
      <3>1. s' = [s EXCEPT !.req = req, !.top = top, !.back = s.back \/ (M!Admits(r.c, r.epoch) /\ s.code[r.c] < s.top)]
        BY <1>4, <2>2, <2>4 DEF M!Execute
      <3>2. (s.back \/ (M!Admits(r.c, r.epoch) /\ s.code[r.c] < s.top)) = FALSE
        <4>1. s.code[r.c] \in Nat
          BY <1>0, <2>1
        <4>2. ~(M!Admits(r.c, r.epoch) /\ s.code[r.c] < s.top)
          BY <1>0, <2>3, <4>1
        <4> QED BY <1>2, <4>2
      <3> QED BY <3>1, <3>2
    <2>6. top \in Nat /\ \A x \in s.routed \cup {M!Cat} : s.o[x].ver >= top
      BY <1>0, <1>2, <2>1, <2>2, <2>3
    <2>7. \A q \in req : q.c \in s.routed /\ q.epoch <= s.o[M!Cat].epoch
      BY <1>2, <2>4
    <2> QED BY <1>1, <2>5, <2>6, <2>7
  <1> QED BY <1>3, <1>4

-----------------------------------------------------------------------------
LEMMA SchemaInitInv ==
    ASSUME M!MixesOK, M!Init, M!On
    PROVE  SchemaIInv
  <1>1. SchemaMixOK
    BY DEF M!MixesOK, M!Init, M!On, SchemaMixOK
  <1>2. s = [o |-> [x \in M!Objects |-> IF x \in M!Fresh THEN [M!New EXCEPT !.tables = 0] ELSE M!New],
             base |-> FALSE, reg |-> [c \in M!Shards |-> "none"],
             deployed |-> 0, code |-> [x \in M!Objects |-> 0],
             routed |-> 1..mix.shards, op |-> M!NoOp, ops |-> 0,
             drv |-> [d \in M!Drivers |-> M!Idle], hand |-> {}, late |-> {},
             req |-> {}, top |-> 0, back |-> FALSE, faults |-> 0]
    BY Zenon DEF M!Init
  <1> DEFINE new == [M!New EXCEPT !.tables = 0]
             o == [x \in M!Objects |-> IF x \in M!Fresh THEN new ELSE M!New]
             code == [x \in M!Objects |-> 0]
             drv == [d \in M!Drivers |-> M!Idle]
             reg == [c \in M!Shards |-> "none"]
  <1>3. /\ M!New \in SchemaRecords /\ M!New.st = "active" /\ M!New.ver = 0 /\ M!New.epoch = 1 /\ M!New.last = <<0, 0>> /\ M!New.mig = M!None
        /\ M!New.steps = {} /\ M!New.tables = IF mix.legacy THEN mix.vers ELSE 0
    BY <1>1 DEF M!New, SchemaRecords, M!None, SchemaIds, SchemaMixOK
  <1>4. /\ new \in SchemaRecords /\ new.st = "active" /\ new.ver = 0 /\ new.epoch = 1 /\ new.last = <<0, 0>> /\ new.mig = M!None
        /\ new.steps = {} /\ new.tables = 0
    BY <1>3 DEF SchemaRecords
  <1> HIDE DEF new
  <1>5. \A x \in M!Objects : o[x] = IF x \in M!Fresh THEN new ELSE M!New
    OBVIOUS
  <1>6. o \in [M!Objects -> SchemaRecords] /\ code \in [M!Objects -> Nat] /\ (\A x \in M!Objects : code[x] = 0)
        /\ reg \in [M!Shards -> {"none", "pending", "active"}]
    BY <1>3, <1>4
  <1>7. M!Idle \in SchemaCommands /\ M!Idle.todo = {} /\ M!Idle.busy = {} /\ M!Idle.at = "idle"
    BY <1>1 DEF M!Idle, SchemaCommands, SchemaMixOK
  <1>8. drv \in [M!Drivers -> SchemaCommands] /\ \A d \in M!Drivers : drv[d] = M!Idle
    BY <1>7
  <1>9. M!NoOp \in SchemaLeases /\ M!NoOp.st = "none"
    BY DEF M!NoOp, SchemaLeases
  <1>10. 1..mix.shards \in SUBSET M!Shards /\ 0 \in 0..mix.vers /\ 0 \in 0..mix.ops
    BY <1>1 DEF M!Shards, SchemaMixOK
  <1> HIDE DEF o, code, drv, reg
  <1>11. s = [o |-> o, base |-> FALSE, reg |-> reg, deployed |-> 0, code |-> code,
              routed |-> 1..mix.shards, op |-> M!NoOp, ops |-> 0, drv |-> drv, hand |-> {}, late |-> {},
              req |-> {}, top |-> 0, back |-> FALSE, faults |-> 0]
    BY <1>2 DEF o, code, drv, reg, new
  <1>12. s \in SchemaStates
    BY <1>6, <1>8, <1>9, <1>10, <1>11 DEF SchemaStates
  <1>13. /\ s.o = o /\ s.code = code /\ s.deployed = 0 /\ s.routed = 1..mix.shards /\ s.op = M!NoOp /\ s.ops = 0 /\ s.drv = drv
         /\ s.hand = {} /\ s.late = {} /\ s.req = {} /\ s.top = 0 /\ s.back = FALSE
    BY <1>11
  <1>14. SchemaObjectsOK
    <2>1. Cardinality({}) = 0 /\ <<0, 0>>[1] = 0
      BY FS_EmptySet
    <2>2. ASSUME NEW x \in M!Objects PROVE SchemaRecordOK(x, o[x]) /\ s.code[x] <= s.deployed
      <3>1. s.code[x] = 0 /\ s.deployed = 0
        BY <1>6, <1>13
      <3>2. CASE x \in M!Fresh
        <4>1. o[x] = new
          BY <1>5, <3>2
        <4>2. new.last[1] = 0 /\ Cardinality(new.steps) = 0
          BY <1>4, <2>1
        <4> QED BY <1>4, <3>1, <3>2, <4>1, <4>2 DEF SchemaRecordOK
      <3>3. CASE x \notin M!Fresh
        <4>1. o[x] = M!New
          BY <1>5, <3>3
        <4>2. M!New.last[1] = 0 /\ Cardinality(M!New.steps) = 0
          BY <1>3, <2>1
        <4> QED BY <1>3, <3>1, <3>3, <4>1, <4>2 DEF SchemaRecordOK
      <3> QED BY <3>2, <3>3
    <2> QED BY <1>13, <2>2 DEF SchemaObjectsOK
  <1>15. \A x \in {M!Cat} \cup s.routed : x \in M!Objects /\ o[x].st = "active" /\ o[x].ver = 0 /\ o[x].epoch = 1
    BY <1>1, <1>3, <1>4, <1>5, <1>13 DEF M!Objects, M!Shards, M!Cat, SchemaMixOK
  <1>16. SchemaAgree
    BY <1>13, <1>15 DEF SchemaAgree, M!Same
  <1>17. SchemaCallsOK
    BY <1>13 DEF SchemaCallsOK
  <1>18. SchemaCommandsOK
    BY <1>7, <1>8, <1>13 DEF SchemaCommandsOK
  <1>19. SchemaLeaseOK
    BY <1>1, <1>9, <1>13 DEF SchemaLeaseOK, SchemaMixOK
  <1>20. SchemaServed
    BY <1>13, <1>15 DEF SchemaServed
  <1> QED BY <1>1, <1>12, <1>14, <1>16, <1>17, <1>18, <1>19, <1>20 DEF SchemaIInv

LEMMA SchemaStepKeepsInv ==
    ASSUME SchemaIInv, [M!Next]_<<mix, s>>
    PROVE  SchemaIInv'
  <1>1. CASE UNCHANGED <<mix, s>>
    <2>1. UNCHANGED <<mix, s>>
      BY <1>1
    <2> QED BY <2>1, SchemaSameBounds, SchemaObjectsFrame, SchemaAgreeFrame, SchemaCallsFrame, SchemaCommandsFrame, SchemaLeaseFrame, SchemaServedFrame DEF SchemaIInv
  <1>2. CASE M!Next
    <2>0. UNCHANGED mix /\ M!Step
      BY <1>2 DEF M!Next
    <2>1. ASSUME NEW d \in M!Drivers, M!Start(d) \/ M!Run(d) \/ M!Interrupt(d) PROVE SchemaIInv'
      BY <2>0, <2>1, SchemaBeginKeepsInv, SchemaCommandKeepsInv, SchemaAskKeepsInv, SchemaApplyCatalogKeepsInv, SchemaCompleteKeepsInv DEF M!Run
    <2>2. CASE (\E h \in s.hand : M!Shard(h) \/ M!ShardLost(h) \/ M!Record(h)) \/ (\E h \in s.late : M!Late(h))
      BY <2>0, <2>2, SchemaCallKeepsInv, SchemaRecordKeepsInv
    <2>3. CASE M!Deploy \/ (\E x \in M!Objects : M!Restart(x)) \/ M!CatalogCrash
      BY <2>0, <2>3, SchemaVersionsKeepInv
    <2>4. CASE M!BeginTopology \/ M!Provision \/ M!Cutover \/ M!AbortTopology
      BY <2>0, <2>4, SchemaBeginTopologyKeepsInv, SchemaProvisionKeepsInv, SchemaCutoverKeepsInv, SchemaAbortTopologyKeepsInv
    <2>5. CASE (\E c \in M!Shards : M!Route(c)) \/ (\E r \in s.req : M!Execute(r))
      BY <2>0, <2>5, SchemaRequestsKeepInv
    <2> QED BY <2>0, <2>1, <2>2, <2>3, <2>4, <2>5 DEF M!Step
  <1> QED BY <1>1, <1>2

LEMMA SchemaInvIsSafe == SchemaIInv => M!Safe
  <1> SUFFICES ASSUME SchemaIInv PROVE M!Safe
    OBVIOUS
  <1>0. /\ s \in SchemaStates /\ SchemaMixOK /\ s.routed \subseteq M!Shards /\ s.deployed \in 0..mix.vers /\ s.code \in [M!Objects -> Nat]
        /\ s.o[M!Cat] \in SchemaRecords /\ mix.vers \in Nat /\ s.top \in Nat /\ M!Cat \in M!Objects
        /\ \A x \in M!Objects : s.o[x] \in SchemaRecords /\ SchemaRecordOK(x, s.o[x]) /\ s.code[x] \in Nat /\ s.code[x] <= s.deployed
    BY DEF SchemaIInv, SchemaStates, M!Objects, SchemaObjectsOK, SchemaMixOK
  <1>1. M!TypeOK
    <2>1. \A x \in M!Objects : s.code[x] \in 0..s.deployed
      BY <1>0
    <2>2. ASSUME NEW x \in M!Objects
          PROVE  /\ s.o[x].st \in {"active", "migrating"} /\ s.o[x].ver \in 0..s.code[x]
                 /\ s.o[x].epoch \in 1..mix.vers + 1 /\ s.o[x].steps \subseteq 1..mix.vers
                 /\ (s.o[x].st = "active" <=> s.o[x].mig = M!None)
      BY <1>0 DEF SchemaRecordOK, SchemaRecords
    <2>3. s.top \in 0..mix.vers
      BY <1>0 DEF SchemaIInv, SchemaServed, SchemaRecordOK, SchemaRecords
    <2>4. s.code \in [M!Objects -> 0..s.deployed]
      BY <1>0, <2>1
    <2> QED BY <1>0, <2>2, <2>3, <2>4 DEF M!TypeOK, SchemaIInv, SchemaStates, SchemaMixOK
  <1>2. M!RoutedAgree
    BY <1>0 DEF SchemaIInv, SchemaAgree, M!RoutedAgree, SchemaBefore, SchemaDuring, SchemaIsDuring, SchemaAfter, SchemaIsAfter, M!Same, M!Migrating
  <1>3. M!TablesFollow
    <2>1. ASSUME NEW x \in M!Objects PROVE M!Cardinality(s.o[x].steps) = Cardinality(s.o[x].steps)
      BY Zenon DEF M!Cardinality, Cardinality
    <2>2. \A x \in M!Objects : s.o[x].tables = IF mix.legacy /\ x \notin M!Fresh THEN mix.vers
                                               ELSE s.o[x].ver + Cardinality(s.o[x].steps)
      BY <1>0 DEF SchemaRecordOK
    <2> QED BY <2>1, <2>2 DEF M!TablesFollow
  <1>4. M!ServedEverywhere
    BY DEF SchemaIInv, SchemaServed, M!ServedEverywhere
  <1> QED BY <1>1, <1>2, <1>3, <1>4 DEF M!Safe

-----------------------------------------------------------------------------
(* The native client: its states and its inductive invariant.              *)

C == INSTANCE RustClient WITH Mixes <- RustClientMixes

RustFrames == [t : {"mut"}, id : C!Muts] \cup [t : {"sub", "unsub"}, id : C!Subs] \cup [t : {"auth"}, id : {0}]
RustReplies == [t : {"snapshot"}, id : C!Subs, v : Nat] \cup [t : {"refetch"}, id : C!Subs, reason : {"shardsChanged", "lagged"}]
                 \cup [t : {"error"}, id : C!Subs, retry : BOOLEAN] \cup [t : {"result"}, id : C!Muts, ok : BOOLEAN]
                 \cup [t : {"auth"}, id : {0}]
RustSubs == {C!NoSub} \cup [at : {"live"}, rows : Nat, cookie : Nat, due : BOOLEAN, replayed : BOOLEAN]
RustRefreshes == {C!NoRefresh} \cup [at : {"pending"}, asked : BOOLEAN]
RustStates ==
  [conn : {"open", "reconnecting", "closed"}, stop : BOOLEAN, cmds : Seq(RustFrames),
   call : [C!Muts -> {"idle", "waiting", "dropped", "failed", "ok", "refused", "unknown"}],
   mut : [C!Muts -> {"none", "queued", "sent"}], handle : [C!Subs -> {"idle", "open", "dropped"}],
   chan : [C!Subs -> 0..mix.cap], sub : [C!Subs -> RustSubs], last : Nat, kept : SUBSET C!Subs, window : BOOLEAN,
   resume : Nat, refresh : RustRefreshes, told : {"none", "waiting", "failed", "ok"}, up : Seq(RustFrames),
   down : Seq(RustReplies), regs : SUBSET C!Subs, sent : [C!Subs -> Nat], v : Nat, applied : SUBSET C!Muts,
   late : SUBSET C!Muts, faults : Nat, trouble : Nat]

RustMixOK == mix \in RustClientMixes /\ mix.subs \in Nat /\ mix.muts \in Nat /\ mix.cap \in Nat

\* The mutations a frame of which is with the server, on its way or may be.
RustUnread(st) == {st.up[k].id : k \in {k \in 1..Len(st.up) : st.up[k].t = "mut"}}
RustFlight(st) == RustUnread(st) \cup st.late \cup st.applied

\* What a caller may be told of a mutation, wherever it is.
RustCalls(st) ==
  /\ \A m \in C!Muts : m \in RustFlight(st) => \/ st.mut[m] = "sent"
                                               \/ st.mut[m] = "none" /\ st.call[m] \in {"ok", "refused", "unknown", "dropped"}
  /\ \A m \in C!Muts : /\ st.mut[m] # "none" => st.call[m] \in {"waiting", "dropped"}
                       /\ st.call[m] = "ok" => m \in st.applied
  /\ \A k \in 1..Len(st.cmds) : st.cmds[k].t = "mut" => /\ st.cmds[k].id \notin RustFlight(st)
                                                        /\ st.mut[st.cmds[k].id] = "none"
                                                        /\ st.call[st.cmds[k].id] \in {"waiting", "dropped"}
  /\ \A j, k \in 1..Len(st.cmds) : st.cmds[j].t = "mut" /\ st.cmds[k].t = "mut" /\ st.cmds[j].id = st.cmds[k].id => j = k
RustResults(st) ==
  \A k \in 1..Len(st.down) : st.down[k].t = "result" /\ st.down[k].ok => st.down[k].id \in st.applied

\* While rows may outlive the connection, those the window does not bound were replayed.
RustShown(st) ==
  /\ st.window <=> st.kept # {}
  /\ st.window \/ st.conn = "reconnecting" =>
       \A i \in C!Subs : st.sub[i].at = "live" /\ i \notin st.kept /\ st.sub[i].rows # 0 => st.sub[i].replayed

RustInv(st) == st \in RustStates /\ RustCalls(st) /\ RustResults(st) /\ RustShown(st)
RustIInv == RustMixOK /\ RustInv(s)

\* Two states that differ in nothing the invariant relates.
RustSame(st, st2) ==
  /\ st2.cmds = st.cmds /\ st2.call = st.call /\ st2.mut = st.mut /\ st2.applied = st.applied /\ st2.late = st.late
  /\ st2.up = st.up /\ st2.down = st.down /\ st2.sub = st.sub /\ st2.kept = st.kept /\ st2.window = st.window
  /\ st2.conn = st.conn

\* The client's bounds do not change while it runs.
LEMMA RustSameBounds ==
    ASSUME UNCHANGED mix
    PROVE  /\ RustMixOK' = RustMixOK /\ RustIInv' = (RustMixOK /\ RustInv(s'))
  <1>1. C!Subs' = C!Subs /\ C!Muts' = C!Muts /\ RustMixOK' = RustMixOK
    BY DEF C!Subs, C!Muts, RustMixOK
  <1>2. RustFrames' = RustFrames /\ RustReplies' = RustReplies /\ RustSubs' = RustSubs /\ RustRefreshes' = RustRefreshes
    BY <1>1 DEF RustFrames, RustReplies, RustSubs, RustRefreshes, C!NoSub, C!NoRefresh
  <1>3. RustStates' = RustStates
    BY <1>1, <1>2 DEF RustStates
  <1>4. RustCalls(s)' = RustCalls(s') /\ RustResults(s)' = RustResults(s') /\ RustShown(s)' = RustShown(s')
    BY <1>1 DEF RustCalls, RustResults, RustShown, RustFlight, RustUnread
  <1> QED BY <1>1, <1>3, <1>4 DEF RustIInv, RustInv

\* A client that was just opened has told nobody anything: the state of
\* Client::connect in session.rs, before the first command.
LEMMA RustInitInv ==
    ASSUME RustMixOK, C!Init
    PROVE  RustIInv
  <1>1. s \in RustStates
    <2>1. 0 \in 0..mix.cap /\ <<>> \in Seq(RustFrames) /\ <<>> \in Seq(RustReplies)
      BY DEF RustMixOK
    <2>2. C!NoSub \in RustSubs /\ C!NoRefresh \in RustRefreshes
      BY DEF RustSubs, RustRefreshes
    <2> QED BY <2>1, <2>2 DEF C!Init, RustStates
  <1>2. /\ s.up = <<>> /\ s.down = <<>> /\ s.cmds = <<>> /\ s.late = {} /\ s.applied = {} /\ s.window = FALSE
        /\ s.kept = {} /\ s.conn = "open" /\ s.mut = [m \in C!Muts |-> "none"] /\ s.call = [m \in C!Muts |-> "idle"]
    BY DEF C!Init
  <1>3. RustCalls(s) /\ RustResults(s) /\ RustShown(s)
    BY <1>2 DEF RustCalls, RustResults, RustShown, RustFlight, RustUnread
  <1> QED BY <1>1, <1>3 DEF RustIInv, RustInv

\* A handler that leaves the commands, the calls, the frames, the subscriptions
\* and the connection alone keeps the invariant.
LEMMA RustPlain ==
    ASSUME NEW st, NEW st2, RustInv(st), st2 \in RustStates,
           st2.cmds = st.cmds, st2.call = st.call, st2.mut = st.mut, st2.applied = st.applied, st2.late = st.late,
           st2.up = st.up, st2.down = st.down, st2.sub = st.sub, st2.kept = st.kept, st2.window = st.window, st2.conn = st.conn
    PROVE  RustInv(st2)
  BY DEF RustInv, RustCalls, RustResults, RustShown, RustFlight, RustUnread

\* No caller learns anything when no mutation changes hands and none enters
\* the flight.
LEMMA RustCallsKept ==
    ASSUME NEW st, NEW st2, RustCalls(st), st2.cmds = st.cmds, st2.call = st.call, st2.mut = st.mut,
           st.applied \subseteq st2.applied, RustFlight(st2) \subseteq RustFlight(st)
    PROVE  RustCalls(st2)
  BY DEF RustCalls

\* A subscription or refresh frame written to the socket, or not written while
\* there is none (Up), says nothing of a mutation.
LEMMA RustUp ==
    ASSUME NEW st, RustInv(st), NEW f \in RustFrames, f.t # "mut"
    PROVE  RustInv(C!Up(st, f))
  <1>1. CASE st.conn # "open"
    BY <1>1 DEF C!Up
  <1>2. CASE st.conn = "open"
    <2> DEFINE st2 == [st EXCEPT !.up = Append(st.up, f)]
    <2>1. st \in RustStates /\ st.up \in Seq(RustFrames)
      BY DEF RustInv, RustStates
    <2>2. st2 \in RustStates
      <3>1. Append(st.up, f) \in Seq(RustFrames)
        BY <2>1
      <3> QED BY <2>1, <3>1 DEF RustStates
    <2>3. /\ st2.cmds = st.cmds /\ st2.call = st.call /\ st2.mut = st.mut /\ st2.applied = st.applied /\ st2.late = st.late
          /\ st2.up = Append(st.up, f) /\ st2.down = st.down /\ st2.sub = st.sub /\ st2.kept = st.kept
          /\ st2.window = st.window /\ st2.conn = st.conn
      BY <2>1 DEF RustStates
    <2>4. RustFlight(st2) \subseteq RustFlight(st)
      <3> HIDE DEF st2
      <3> QED BY <2>1, <2>3 DEF RustFlight, RustUnread
    <2> HIDE DEF st2
    <2>5. RustCalls(st2)
      BY <2>3, <2>4, RustCallsKept DEF RustInv
    <2>6. RustResults(st2) /\ RustShown(st2)
      BY <2>3 DEF RustInv, RustResults, RustShown
    <2>7. C!Up(st, f) = st2
      BY <1>2 DEF C!Up, st2
    <2> QED BY <2>2, <2>5, <2>6, <2>7 DEF RustInv
  <1> QED BY <1>1, <1>2

\* The server takes a frame off the wire: a mutation in it was in flight.
LEMMA RustServed ==
    ASSUME NEW st, RustInv(st), st.up # <<>>
    PROVE  /\ RustInv([st EXCEPT !.up = Tail(@)]) /\ Head(st.up) \in RustFrames
           /\ Head(st.up).t = "mut" => Head(st.up).id \in RustUnread(st)
  <1> DEFINE st2 == [st EXCEPT !.up = Tail(@)]
  <1>1. st \in RustStates /\ st.up \in Seq(RustFrames)
    BY DEF RustInv, RustStates
  <1>2. /\ Tail(st.up) \in Seq(RustFrames) /\ Len(Tail(st.up)) = Len(st.up) - 1 /\ Len(st.up) \in Nat \ {0}
        /\ \A k \in 1..Len(Tail(st.up)) : Tail(st.up)[k] = st.up[k + 1]
        /\ Head(st.up) = st.up[1] /\ Head(st.up) \in RustFrames
    BY <1>1
  <1>3. st2 \in RustStates
    BY <1>1, <1>2 DEF RustStates
  <1>4. /\ st2.cmds = st.cmds /\ st2.call = st.call /\ st2.mut = st.mut /\ st2.applied = st.applied /\ st2.late = st.late
        /\ st2.up = Tail(st.up) /\ st2.down = st.down /\ st2.sub = st.sub /\ st2.kept = st.kept
        /\ st2.window = st.window /\ st2.conn = st.conn
    BY <1>1 DEF RustStates
  <1> HIDE DEF st2
  <1>5. RustUnread(st2) \subseteq RustUnread(st)
    <2>1. ASSUME NEW k \in 1..Len(st2.up), st2.up[k].t = "mut" PROVE st2.up[k].id \in RustUnread(st)
      <3>1. st2.up[k] = st.up[k + 1] /\ k + 1 \in 1..Len(st.up)
        BY <1>2, <1>4, <2>1
      <3> QED BY <2>1, <3>1 DEF RustUnread
    <2> QED BY <2>1 DEF RustUnread
  <1>6. RustCalls(st2)
    BY <1>4, <1>5, RustCallsKept DEF RustInv, RustFlight
  <1>7. RustResults(st2) /\ RustShown(st2)
    BY <1>4 DEF RustInv, RustResults, RustShown
  <1>8. Head(st.up).t = "mut" => Head(st.up).id \in RustUnread(st)
    BY <1>2 DEF RustUnread
  <1> QED BY <1>2, <1>3, <1>6, <1>7, <1>8 DEF RustInv, st2

\* The session takes a frame off the wire: a positive result is of an applied
\* mutation.
LEMMA RustRead ==
    ASSUME NEW st, RustInv(st), st.down # <<>>
    PROVE  /\ RustInv([st EXCEPT !.down = Tail(@)]) /\ Head(st.down) \in RustReplies
           /\ Head(st.down).t = "result" /\ Head(st.down).ok => Head(st.down).id \in st.applied
  <1> DEFINE st2 == [st EXCEPT !.down = Tail(@)]
  <1>1. st \in RustStates /\ st.down \in Seq(RustReplies)
    BY DEF RustInv, RustStates
  <1>2. /\ Tail(st.down) \in Seq(RustReplies) /\ Len(Tail(st.down)) = Len(st.down) - 1 /\ Len(st.down) \in Nat \ {0}
        /\ \A k \in 1..Len(Tail(st.down)) : Tail(st.down)[k] = st.down[k + 1]
        /\ Head(st.down) = st.down[1] /\ Head(st.down) \in RustReplies
    BY <1>1
  <1>3. st2 \in RustStates
    BY <1>1, <1>2 DEF RustStates
  <1>4. /\ st2.cmds = st.cmds /\ st2.call = st.call /\ st2.mut = st.mut /\ st2.applied = st.applied /\ st2.late = st.late
        /\ st2.down = Tail(st.down) /\ st2.up = st.up /\ st2.sub = st.sub /\ st2.kept = st.kept
        /\ st2.window = st.window /\ st2.conn = st.conn
    BY <1>1 DEF RustStates
  <1> HIDE DEF st2
  <1>5. RustResults(st2)
    <2>1. ASSUME NEW k \in 1..Len(st2.down), st2.down[k].t = "result", st2.down[k].ok PROVE st2.down[k].id \in st2.applied
      <3>1. st2.down[k] = st.down[k + 1] /\ k + 1 \in 1..Len(st.down)
        BY <1>2, <1>4
      <3> QED BY <1>4, <2>1, <3>1 DEF RustInv, RustResults
    <2> QED BY <2>1 DEF RustResults
  <1>6. RustCalls(st2) /\ RustShown(st2)
    BY <1>4 DEF RustInv, RustCalls, RustFlight, RustUnread, RustShown
  <1>7. Head(st.down).t = "result" /\ Head(st.down).ok => Head(st.down).id \in st.applied
    BY <1>2 DEF RustInv, RustResults
  <1> QED BY <1>2, <1>3, <1>5, <1>6, <1>7 DEF RustInv, st2

\* The server sends a frame, a positive result only of what it applied.
LEMMA RustDown ==
    ASSUME NEW st, RustInv(st), NEW f \in RustReplies, f.t = "result" /\ f.ok => f.id \in st.applied
    PROVE  RustInv(C!Down(st, f))
  <1> DEFINE st2 == [st EXCEPT !.down = Append(st.down, f)]
  <1>1. st \in RustStates /\ st.down \in Seq(RustReplies)
    BY DEF RustInv, RustStates
  <1>2. st2 \in RustStates
    <2>1. Append(st.down, f) \in Seq(RustReplies)
      BY <1>1
    <2> QED BY <1>1, <2>1 DEF RustStates
  <1>3. /\ st2.cmds = st.cmds /\ st2.call = st.call /\ st2.mut = st.mut /\ st2.applied = st.applied /\ st2.late = st.late
        /\ st2.down = Append(st.down, f) /\ st2.up = st.up /\ st2.sub = st.sub /\ st2.kept = st.kept
        /\ st2.window = st.window /\ st2.conn = st.conn
    BY <1>1 DEF RustStates
  <1>4. C!Down(st, f) = st2
    BY DEF C!Down
  <1> HIDE DEF st2
  <1>5. RustResults(st2)
    BY <1>1, <1>3 DEF RustInv, RustResults
  <1>6. RustCalls(st2) /\ RustShown(st2)
    BY <1>3 DEF RustInv, RustCalls, RustFlight, RustUnread, RustShown
  <1> QED BY <1>2, <1>4, <1>5, <1>6 DEF RustInv

\* What the server has not read yet are mutations of this client.
LEMMA RustUnreadType ==
    ASSUME NEW st \in RustStates
    PROVE  RustUnread(st) \subseteq C!Muts
  <1>1. st.up \in Seq(RustFrames)
    BY DEF RustStates
  <1>2. ASSUME NEW k \in 1..Len(st.up), st.up[k].t = "mut" PROVE st.up[k].id \in C!Muts
    <2>1. st.up[k] \in RustFrames
      BY <1>1
    <2> QED BY <1>2, <2>1 DEF RustFrames
  <1> QED BY <1>2 DEF RustUnread

\* A subscription's new state, when the rows it shows are replayed ones or the
\* ones it already showed.
LEMMA RustSetSub ==
    ASSUME NEW st, RustInv(st), NEW i \in C!Subs, NEW x \in RustSubs,
           \/ x.at = "live" /\ x.rows # 0 => x.replayed
           \/ st.sub[i].at = "live" /\ x.rows = st.sub[i].rows /\ x.replayed = st.sub[i].replayed
    PROVE  RustInv([st EXCEPT !.sub = [@ EXCEPT ![i] = x]])
  <1> DEFINE st2 == [st EXCEPT !.sub = [st.sub EXCEPT ![i] = x]]
  <1>1. st \in RustStates
    BY DEF RustInv
  <1>2. st2 \in RustStates
    BY <1>1 DEF RustStates
  <1>3. /\ st2.cmds = st.cmds /\ st2.call = st.call /\ st2.mut = st.mut /\ st2.applied = st.applied /\ st2.late = st.late
        /\ st2.up = st.up /\ st2.down = st.down /\ st2.kept = st.kept /\ st2.window = st.window /\ st2.conn = st.conn
    BY <1>1 DEF RustStates
  <1>4. \A j \in C!Subs : st2.sub[j] = IF j = i THEN x ELSE st.sub[j]
    BY <1>1 DEF RustStates
  <1> HIDE DEF st2
  <1>5. RustCalls(st2) /\ RustResults(st2)
    BY <1>3 DEF RustInv, RustCalls, RustResults, RustFlight, RustUnread
  <1>6. RustShown(st2)
    BY <1>3, <1>4 DEF RustInv, RustShown
  <1> QED BY <1>2, <1>5, <1>6 DEF RustInv, st2

\* A subscription leaves the resume window with new rows (releaseRetained).
LEMMA RustRelease ==
    ASSUME NEW st, RustInv(st), NEW i \in C!Subs, NEW x \in RustSubs, x.at = "live" /\ x.rows # 0 => x.replayed
    PROVE  RustInv([C!Release(st, i) EXCEPT !.sub = [@ EXCEPT ![i] = x]])
  <1> DEFINE kept == st.kept \ {i}
             window == st.window /\ kept # {}
             resume == IF kept = {} THEN 0 ELSE st.resume
             st2 == [st EXCEPT !.kept = kept, !.window = window, !.resume = resume, !.sub = [st.sub EXCEPT ![i] = x]]
  <1>1. st \in RustStates
    BY DEF RustInv
  <1>2. kept \subseteq C!Subs /\ window \in BOOLEAN /\ resume \in Nat
    BY <1>1 DEF RustStates
  <1>3. [C!Release(st, i) EXCEPT !.sub = [@ EXCEPT ![i] = x]] = st2
    BY <1>1 DEF C!Release, RustStates
  <1>3a. st.window <=> st.kept # {}
    BY DEF RustInv, RustShown
  <1>3b. /\ window <=> kept # {}
         /\ \A j \in C!Subs : j \notin kept => j = i \/ j \notin st.kept
         /\ window => st.window
    BY <1>3a, Zenon
  <1> HIDE DEF kept, window, resume
  <1>4. st2 \in RustStates
    BY <1>1, <1>2 DEF RustStates
  <1>5. /\ st2.cmds = st.cmds /\ st2.call = st.call /\ st2.mut = st.mut /\ st2.applied = st.applied /\ st2.late = st.late
        /\ st2.up = st.up /\ st2.down = st.down /\ st2.kept = kept /\ st2.window = window /\ st2.conn = st.conn
    BY <1>1 DEF RustStates
  <1>6. \A j \in C!Subs : st2.sub[j] = IF j = i THEN x ELSE st.sub[j]
    BY <1>1 DEF RustStates
  <1> HIDE DEF st2
  <1>7. RustCalls(st2) /\ RustResults(st2)
    BY <1>5 DEF RustInv, RustCalls, RustResults, RustFlight, RustUnread
  <1>8. RustShown(st2)
    <2>1. ASSUME NEW j \in C!Subs, st2.window \/ st2.conn = "reconnecting", st2.sub[j].at = "live", j \notin st2.kept, st2.sub[j].rows # 0
          PROVE  st2.sub[j].replayed
      <3>1. st.window \/ st.conn = "reconnecting"
        BY <1>3b, <1>5, <2>1
      <3> QED BY <1>3b, <1>5, <1>6, <2>1, <3>1 DEF RustInv, RustShown
    <2> QED BY <1>3b, <1>5, <2>1 DEF RustShown
  <1> QED BY <1>3, <1>4, <1>7, <1>8 DEF RustInv

\* process_commands takes the next command: a mutation in it was not yet sent
\* and is named by no other command.
LEMMA RustRest ==
    ASSUME NEW st, RustInv(st), st.cmds # <<>>
    PROVE  /\ RustInv([st EXCEPT !.cmds = Tail(@)]) /\ Head(st.cmds) \in RustFrames
           /\ Head(st.cmds).t = "mut" =>
                /\ Head(st.cmds).id \notin RustFlight(st) /\ st.mut[Head(st.cmds).id] = "none"
                /\ st.call[Head(st.cmds).id] \in {"waiting", "dropped"}
                /\ \A k \in 1..Len(Tail(st.cmds)) : Tail(st.cmds)[k].t = "mut" => Tail(st.cmds)[k].id # Head(st.cmds).id
  <1> DEFINE st2 == [st EXCEPT !.cmds = Tail(@)]
  <1>1. st \in RustStates /\ st.cmds \in Seq(RustFrames)
    BY DEF RustInv, RustStates
  <1>2. /\ Tail(st.cmds) \in Seq(RustFrames) /\ Len(Tail(st.cmds)) = Len(st.cmds) - 1 /\ Len(st.cmds) \in Nat \ {0}
        /\ \A k \in 1..Len(Tail(st.cmds)) : Tail(st.cmds)[k] = st.cmds[k + 1] /\ k + 1 \in 1..Len(st.cmds) /\ k + 1 # 1
        /\ Head(st.cmds) = st.cmds[1] /\ Head(st.cmds) \in RustFrames /\ 1 \in 1..Len(st.cmds)
    BY <1>1
  <1>3. st2 \in RustStates
    BY <1>1, <1>2 DEF RustStates
  <1>4. /\ st2.cmds = Tail(st.cmds) /\ st2.call = st.call /\ st2.mut = st.mut /\ st2.applied = st.applied /\ st2.late = st.late
        /\ st2.down = st.down /\ st2.up = st.up /\ st2.sub = st.sub /\ st2.kept = st.kept
        /\ st2.window = st.window /\ st2.conn = st.conn
    BY <1>1 DEF RustStates
  <1> HIDE DEF st2
  <1>5. RustFlight(st2) = RustFlight(st)
    BY <1>4 DEF RustFlight, RustUnread
  <1>6. RustCalls(st2)
    <2>1. ASSUME NEW k \in 1..Len(st2.cmds)
          PROVE  st2.cmds[k] = st.cmds[k + 1] /\ k + 1 \in 1..Len(st.cmds) /\ k \in Nat
      BY <1>2, <1>4
    <2>2. ASSUME NEW j \in 1..Len(st2.cmds), NEW k \in 1..Len(st2.cmds), st2.cmds[j].t = "mut", st2.cmds[k].t = "mut",
                 st2.cmds[j].id = st2.cmds[k].id
          PROVE  j = k
      <3>1. j + 1 = k + 1
        BY <2>1, <2>2 DEF RustInv, RustCalls
      <3> QED BY <2>1, <3>1
    <2>3. ASSUME NEW k \in 1..Len(st2.cmds), st2.cmds[k].t = "mut"
          PROVE  /\ st2.cmds[k].id \notin RustFlight(st2) /\ st2.mut[st2.cmds[k].id] = "none"
                 /\ st2.call[st2.cmds[k].id] \in {"waiting", "dropped"}
      BY <1>4, <1>5, <2>1, <2>3 DEF RustInv, RustCalls
    <2> QED BY <1>4, <1>5, <2>2, <2>3 DEF RustInv, RustCalls
  <1>7. RustResults(st2) /\ RustShown(st2)
    BY <1>4 DEF RustInv, RustResults, RustShown
  <1>8. Head(st.cmds).t = "mut" =>
                /\ Head(st.cmds).id \notin RustFlight(st) /\ st.mut[Head(st.cmds).id] = "none"
                /\ st.call[Head(st.cmds).id] \in {"waiting", "dropped"}
                /\ \A k \in 1..Len(Tail(st.cmds)) : Tail(st.cmds)[k].t = "mut" => Tail(st.cmds)[k].id # Head(st.cmds).id
    BY <1>2 DEF RustInv, RustCalls
  <1> QED BY <1>2, <1>3, <1>6, <1>7, <1>8 DEF RustInv, st2

\* A command other than a mutation enters the queue.
LEMMA RustEnqueue ==
    ASSUME NEW st, RustInv(st), NEW f \in RustFrames, f.t # "mut"
    PROVE  RustInv(C!Enqueue(st, f))
  <1> DEFINE st2 == [st EXCEPT !.cmds = Append(st.cmds, f)]
  <1>1. st \in RustStates /\ st.cmds \in Seq(RustFrames)
    BY DEF RustInv, RustStates
  <1>2. Append(st.cmds, f) \in Seq(RustFrames)
    BY <1>1
  <1>3. st2 \in RustStates
    BY <1>1, <1>2 DEF RustStates
  <1>4. /\ st2.cmds = Append(st.cmds, f) /\ st2.call = st.call /\ st2.mut = st.mut /\ st2.applied = st.applied
        /\ st2.late = st.late /\ st2.down = st.down /\ st2.up = st.up /\ st2.sub = st.sub /\ st2.kept = st.kept
        /\ st2.window = st.window /\ st2.conn = st.conn
    BY <1>1 DEF RustStates
  <1>5. C!Enqueue(st, f) = st2
    BY DEF C!Enqueue
  <1> HIDE DEF st2
  <1>6. RustFlight(st2) = RustFlight(st)
    BY <1>4 DEF RustFlight, RustUnread
  <1>7. \A k \in 1..Len(st2.cmds) : st2.cmds[k].t = "mut" => k \in 1..Len(st.cmds) /\ st2.cmds[k] = st.cmds[k]
    BY <1>1, <1>4
  <1>8. RustCalls(st2)
    BY <1>4, <1>6, <1>7 DEF RustInv, RustCalls
  <1>9. RustResults(st2) /\ RustShown(st2)
    BY <1>4 DEF RustInv, RustResults, RustShown
  <1> QED BY <1>3, <1>5, <1>8, <1>9 DEF RustInv

\* The thread ends: queued mutations fail, sent ones are unknown, whatever the
\* server has not read may still be applied (finish).
LEMMA RustFinish ==
    ASSUME NEW st, RustInv(st)
    PROVE  RustInv(C!Finish(st))
  <1> DEFINE queued == {c.id : c \in {st.cmds[k] : k \in {k \in 1..Len(st.cmds) : st.cmds[k].t = "mut"}}}
             auth == \E k \in 1..Len(st.cmds) : st.cmds[k].t = "auth"
             call == [m \in C!Muts |-> IF st.call[m] # "waiting" THEN st.call[m]
                                     ELSE IF m \in queued THEN "failed"
                                     ELSE IF st.mut[m] # "none" THEN C!Fate(st, m) ELSE st.call[m]]
             told == IF auth \/ (st.refresh.at = "pending" /\ st.refresh.asked) THEN "failed"
                     ELSE IF st.refresh.at = "pending" /\ st.refresh.asked THEN "failed" ELSE st.told
             late == st.late \cup RustUnread(st)
             st2 == [st EXCEPT !.refresh = C!NoRefresh, !.conn = "closed", !.sub = [i \in C!Subs |-> C!NoSub], !.cmds = <<>>,
                               !.up = <<>>, !.down = <<>>, !.regs = {}, !.late = late, !.call = call,
                               !.mut = [m \in C!Muts |-> "none"], !.told = told]
  <1>1. st \in RustStates
    BY DEF RustInv
  <1>2. C!Finish(st) = st2
    <2> DEFINE t1 == IF st.refresh.at = "pending" /\ st.refresh.asked THEN "failed" ELSE st.told
               fr == [st EXCEPT !.refresh = C!NoRefresh, !.told = t1]
    <2>1. C!FailRefresh(st) = fr
      BY <1>1 DEF C!FailRefresh, RustStates
    <2>2. /\ fr.told = t1 /\ fr.call = st.call /\ fr.late = st.late
          /\ fr = [st EXCEPT !.refresh = C!NoRefresh, !.told = t1]
      BY <1>1 DEF RustStates
    <2>3. told = IF auth \/ (st.refresh.at = "pending" /\ st.refresh.asked) THEN "failed" ELSE t1
      OBVIOUS
    <2>4. C!Finish(st) = [fr EXCEPT !.conn = "closed", !.sub = [i \in C!Subs |-> C!NoSub], !.cmds = <<>>, !.up = <<>>, !.down = <<>>,
                                  !.regs = {}, !.late = late, !.call = call, !.mut = [m \in C!Muts |-> "none"], !.told = told]
      <3> HIDE DEF fr, t1
      <3>1. auth = (\E k \in 1..Len(st.cmds) : st.cmds[k].t = "auth")
        OBVIOUS
      <3>2. C!Finish(st) = [fr EXCEPT !.conn = "closed", !.sub = [i \in C!Subs |-> C!NoSub], !.cmds = <<>>, !.up = <<>>, !.down = <<>>,
                                    !.regs = {}, !.late = fr.late \cup RustUnread(st),
                                    !.call = [m \in C!Muts |-> IF fr.call[m] # "waiting" THEN fr.call[m]
                                     ELSE IF m \in queued THEN "failed"
                                     ELSE IF st.mut[m] # "none" THEN C!Fate(st, m) ELSE fr.call[m]],
                                    !.mut = [m \in C!Muts |-> "none"],
                                    !.told = IF auth \/ (st.refresh.at = "pending" /\ st.refresh.asked) THEN "failed" ELSE fr.told]
        BY <2>1 DEF C!Finish, RustUnread
      <3>3. late = fr.late \cup RustUnread(st)
        BY <2>2
      <3>4. call = [m \in C!Muts |-> IF fr.call[m] # "waiting" THEN fr.call[m]
                                  ELSE IF m \in queued THEN "failed"
                                  ELSE IF st.mut[m] # "none" THEN C!Fate(st, m) ELSE fr.call[m]]
        BY <2>2
      <3>5. told = IF auth \/ (st.refresh.at = "pending" /\ st.refresh.asked) THEN "failed" ELSE fr.told
        BY <2>2, <2>3
      <3> HIDE DEF late, call, told, auth, queued
      <3> QED BY <3>2, <3>3, <3>4, <3>5
    <2> HIDE DEF call, told, late, t1, auth, queued
    <2> QED BY <1>1, <2>2, <2>4 DEF RustStates
  <1>3. call \in [C!Muts -> {"idle", "waiting", "dropped", "failed", "ok", "refused", "unknown"}]
    BY <1>1 DEF RustStates, C!Fate
  <1>4. told \in {"none", "waiting", "failed", "ok"}
    BY <1>1 DEF RustStates
  <1>5. late \subseteq C!Muts
    <2>1. RustUnread(st) \subseteq C!Muts /\ st.late \subseteq C!Muts
      BY <1>1, RustUnreadType DEF RustStates
    <2> QED BY <2>1
  <1>6. C!NoRefresh \in RustRefreshes /\ [i \in C!Subs |-> C!NoSub] \in [C!Subs -> RustSubs] /\ <<>> \in Seq(RustFrames) /\ <<>> \in Seq(RustReplies)
    BY DEF RustRefreshes, RustSubs
  <1>7. \A m \in C!Muts : call[m] = IF st.call[m] # "waiting" THEN st.call[m]
                                  ELSE IF m \in queued THEN "failed"
                                  ELSE IF st.mut[m] # "none" THEN C!Fate(st, m) ELSE st.call[m]
    OBVIOUS
  <1>8. \A m \in queued : m \notin RustFlight(st)
    BY DEF RustInv, RustCalls
  <1> HIDE DEF queued, auth, call, told, late
  <1>9. st2 \in RustStates
    BY <1>1, <1>3, <1>4, <1>5, <1>6 DEF RustStates
  <1>10. /\ st2.cmds = <<>> /\ st2.call = call /\ st2.mut = [m \in C!Muts |-> "none"] /\ st2.applied = st.applied
         /\ st2.late = late /\ st2.down = <<>> /\ st2.up = <<>> /\ st2.sub = [i \in C!Subs |-> C!NoSub] /\ st2.kept = st.kept
         /\ st2.window = st.window /\ st2.conn = "closed"
    BY <1>1 DEF RustStates
  <1> HIDE DEF st2
  <1>11. RustFlight(st2) = RustFlight(st)
    BY <1>10 DEF RustFlight, RustUnread, late
  <1>12. RustCalls(st2)
    <2>1. ASSUME NEW m \in C!Muts, m \in RustFlight(st) PROVE call[m] \in {"ok", "refused", "unknown", "dropped"}
      BY <1>7, <1>8, <2>1 DEF RustInv, RustCalls, C!Fate
    <2>2. ASSUME NEW m \in C!Muts, call[m] = "ok" PROVE m \in st.applied
      BY <1>7, <2>2 DEF RustInv, RustCalls, C!Fate
    <2> QED BY <1>10, <1>11, <2>1, <2>2 DEF RustCalls
  <1>13. RustResults(st2) /\ RustShown(st2)
    BY <1>10 DEF RustInv, RustResults, RustShown, C!NoSub
  <1> QED BY <1>2, <1>9, <1>12, <1>13 DEF RustInv

\* The socket is lost: unread mutations may still be applied, and the rows
\* shown are retained for the resume window (begin_reconnect).
LEMMA RustReconnect ==
    ASSUME NEW st, RustInv(st)
    PROVE  RustInv(C!BeginReconnect(st))
  <1> DEFINE kept == IF st.window THEN st.kept ELSE C!Kept(st)
             window == kept # {}
             told == IF st.refresh.at = "pending" /\ st.refresh.asked THEN "failed" ELSE st.told
             resume == IF st.window THEN st.resume ELSE IF kept = {} THEN 0 ELSE st.last
             sub == [i \in C!Subs |-> IF st.sub[i].at = "live" /\ ~st.window THEN [st.sub[i] EXCEPT !.replayed = FALSE] ELSE st.sub[i]]
             late == st.late \cup RustUnread(st)
             st2 == [st EXCEPT !.refresh = C!NoRefresh, !.told = told, !.conn = "reconnecting", !.up = <<>>, !.down = <<>>,
                               !.regs = {}, !.late = late, !.kept = kept, !.window = window, !.resume = resume, !.sub = sub]
  <1>1. st \in RustStates
    BY DEF RustInv
  <1>2. C!BeginReconnect(st) = st2
    BY <1>1 DEF C!BeginReconnect, C!FailRefresh, RustStates, RustUnread
  <1>3. told \in {"none", "waiting", "failed", "ok"} /\ resume \in Nat /\ kept \subseteq C!Subs
    BY <1>1 DEF RustStates, C!Kept, C!Live
  <1>4. late \subseteq C!Muts
    <2>1. RustUnread(st) \subseteq C!Muts /\ st.late \subseteq C!Muts
      BY <1>1, RustUnreadType DEF RustStates
    <2> QED BY <2>1
  <1>5. sub \in [C!Subs -> RustSubs]
    <2>1. ASSUME NEW i \in C!Subs, st.sub[i].at = "live" PROVE [st.sub[i] EXCEPT !.replayed = FALSE] \in RustSubs
      <3>1. st.sub[i] \in RustSubs
        BY <1>1 DEF RustStates
      <3>2. st.sub[i] \in [at : {"live"}, rows : Nat, cookie : Nat, due : BOOLEAN, replayed : BOOLEAN]
        BY <2>1, <3>1 DEF RustSubs, C!NoSub
      <3>3. [st.sub[i] EXCEPT !.replayed = FALSE] \in [at : {"live"}, rows : Nat, cookie : Nat, due : BOOLEAN, replayed : BOOLEAN]
        BY <3>2
      <3> QED BY <3>3 DEF RustSubs
    <2> QED BY <1>1, <2>1 DEF RustStates
  <1>6. C!NoRefresh \in RustRefreshes /\ <<>> \in Seq(RustFrames) /\ <<>> \in Seq(RustReplies)
    BY DEF RustRefreshes
  <1>7. \A i \in C!Subs : sub[i].at = "live" => st.sub[i].at = "live" /\ sub[i].rows = st.sub[i].rows /\ (st.window => sub[i] = st.sub[i])
    BY <1>1 DEF RustStates, RustSubs, C!NoSub
  <1>8. \A i \in C!Subs : ~st.window /\ st.sub[i].at = "live" /\ st.sub[i].rows # 0 => i \in kept
    BY DEF C!Kept, C!Live
  <1>9. st.window => kept = st.kept
    OBVIOUS
  <1>9a. st.window <=> st.kept # {}
    BY DEF RustInv, RustShown
  <1> HIDE DEF kept, told, resume, sub, late
  <1>10. st2 \in RustStates
    BY <1>1, <1>3, <1>4, <1>5, <1>6 DEF RustStates
  <1>11. /\ st2.cmds = st.cmds /\ st2.call = st.call /\ st2.mut = st.mut /\ st2.applied = st.applied
         /\ st2.late = late /\ st2.down = <<>> /\ st2.up = <<>> /\ st2.sub = sub /\ st2.kept = kept
         /\ st2.window = (kept # {}) /\ st2.conn = "reconnecting"
    BY <1>1 DEF RustStates
  <1> HIDE DEF st2
  <1>12. RustFlight(st2) = RustFlight(st)
    BY <1>11 DEF RustFlight, RustUnread, late
  <1>13. RustCalls(st2)
    BY <1>11, <1>12, RustCallsKept DEF RustInv
  <1>14. RustResults(st2)
    BY <1>11 DEF RustResults
  <1>15. RustShown(st2)
    <2>1. ASSUME NEW i \in C!Subs, sub[i].at = "live", i \notin kept, sub[i].rows # 0 PROVE sub[i].replayed
      BY <1>7, <1>8, <1>9, <1>9a, <2>1 DEF RustInv, RustShown
    <2> QED BY <1>11, <2>1 DEF RustShown
  <1> QED BY <1>2, <1>10, <1>13, <1>14, <1>15 DEF RustInv

\* A subscription that is gone leaves the resume window.
LEMMA RustReleaseOnly ==
    ASSUME NEW st, RustInv(st), NEW i \in C!Subs, st.sub[i].at = "none"
    PROVE  RustInv(C!Release(st, i))
  <1>1. st \in RustStates /\ st.sub[i] \in RustSubs
    BY DEF RustInv, RustStates
  <1>2. RustInv([C!Release(st, i) EXCEPT !.sub = [@ EXCEPT ![i] = st.sub[i]]])
    BY <1>1, RustRelease
  <1>3. [C!Release(st, i) EXCEPT !.sub = [@ EXCEPT ![i] = st.sub[i]]] = C!Release(st, i)
    BY <1>1 DEF C!Release, RustStates
  <1> QED BY <1>2, <1>3

\* A subscription is removed with the rows it showed.
LEMMA RustRetire ==
    ASSUME NEW st, RustInv(st), NEW i \in C!Subs
    PROVE  RustInv(C!Retire(st, i))
  <1>1. C!NoSub \in RustSubs /\ C!NoSub.at = "none"
    BY DEF RustSubs, C!NoSub
  <1>2. RustInv([st EXCEPT !.sub = [@ EXCEPT ![i] = C!NoSub]])
    BY <1>1, RustSetSub
  <1> QED BY <1>2 DEF C!Retire

\* A snapshot is delivered to its consumer, or the consumer that does not read
\* loses the subscription (emit).
LEMMA RustEmit ==
    ASSUME RustMixOK, NEW st, RustInv(st), NEW i \in C!Subs
    PROVE  RustInv(C!Emit(st, i)) /\ (C!Emit(st, i) = C!Retire(st, i) \/ C!Emit(st, i).sub = st.sub)
  <1>1. CASE ~C!Deliverable(st, i)
    BY <1>1, RustRetire DEF C!Emit
  <1>2. CASE C!Deliverable(st, i)
    <2> DEFINE chan == [st.chan EXCEPT ![i] = st.chan[i] + 1]
               st2 == [st EXCEPT !.chan = chan]
    <2>1. st \in RustStates
      BY DEF RustInv
    <2>2. C!Emit(st, i) = st2
      BY <1>2, <2>1 DEF C!Emit, RustStates
    <2>3. chan \in [C!Subs -> 0..mix.cap]
      <3>1. st.chan \in [C!Subs -> 0..mix.cap] /\ st.chan[i] < mix.cap /\ mix.cap \in Nat
        BY <1>2, <2>1 DEF C!Deliverable, RustStates, RustMixOK
      <3>2. st.chan[i] + 1 \in 0..mix.cap
        BY <3>1
      <3> QED BY <3>1, <3>2
    <2> HIDE DEF chan
    <2>4. st2 \in RustStates
      BY <2>1, <2>3 DEF RustStates
    <2>5. /\ st2.cmds = st.cmds /\ st2.call = st.call /\ st2.mut = st.mut /\ st2.applied = st.applied /\ st2.late = st.late
          /\ st2.up = st.up /\ st2.down = st.down /\ st2.sub = st.sub /\ st2.kept = st.kept /\ st2.window = st.window
          /\ st2.conn = st.conn
      BY <2>1 DEF RustStates
    <2> HIDE DEF st2
    <2>6. RustInv(st2)
      BY <2>4, <2>5, RustPlain
    <2> QED BY <2>2, <2>5, <2>6
  <1> QED BY <1>1, <1>2

\* A mutation enters the queue under an id no frame has carried.
LEMMA RustBegin ==
    ASSUME RustIInv, NEW m \in C!Muts, C!BeginMutation(m)
    PROVE  RustInv(s')
  <1> DEFINE f == [t |-> "mut", id |-> m]
             call == [s.call EXCEPT ![m] = "waiting"]
  <1>1. s \in RustStates /\ s.cmds \in Seq(RustFrames) /\ s.call[m] = "idle" /\ f \in RustFrames /\ f.t = "mut" /\ f.id = m
    BY DEF RustIInv, RustInv, RustStates, C!BeginMutation, RustFrames
  <1>2. s' = [s EXCEPT !.call = call, !.cmds = Append(s.cmds, f)]
    BY <1>1 DEF C!BeginMutation, C!Enqueue, RustStates
  <1>3. call \in [C!Muts -> {"idle", "waiting", "dropped", "failed", "ok", "refused", "unknown"}]
        /\ \A n \in C!Muts : call[n] = IF n = m THEN "waiting" ELSE s.call[n]
    BY <1>1 DEF RustStates
  <1> HIDE DEF call, f
  <1>4. Append(s.cmds, f) \in Seq(RustFrames)
    BY <1>1
  <1>5. s' \in RustStates
    BY <1>1, <1>2, <1>3, <1>4 DEF RustStates
  <1>6. /\ s'.cmds = Append(s.cmds, f) /\ s'.call = call /\ s'.mut = s.mut /\ s'.applied = s.applied
        /\ s'.late = s.late /\ s'.down = s.down /\ s'.up = s.up /\ s'.sub = s.sub /\ s'.kept = s.kept
        /\ s'.window = s.window /\ s'.conn = s.conn
    BY <1>1, <1>2 DEF RustStates
  <1>7. RustFlight(s') = RustFlight(s)
    BY <1>6 DEF RustFlight, RustUnread
  <1>8. m \notin RustFlight(s) /\ s.mut[m] = "none"
    BY <1>1 DEF RustIInv, RustInv, RustCalls, RustStates
  <1>9. \A k \in 1..Len(s'.cmds) : \/ k \in 1..Len(s.cmds) /\ s'.cmds[k] = s.cmds[k]
                                   \/ k = Len(s.cmds) + 1 /\ s'.cmds[k] = f
    BY <1>1, <1>6
  <1>10. \A k \in 1..Len(s.cmds) : s.cmds[k].t = "mut" => s.cmds[k].id # m
    BY <1>1 DEF RustIInv, RustInv, RustCalls
  <1>11. RustCalls(s')
    <2>1. ASSUME NEW k \in 1..Len(s'.cmds), s'.cmds[k].t = "mut"
          PROVE  /\ s'.cmds[k].id \notin RustFlight(s') /\ s'.mut[s'.cmds[k].id] = "none"
                 /\ s'.call[s'.cmds[k].id] \in {"waiting", "dropped"}
      <3>1. CASE s'.cmds[k] = f
        BY <1>1, <1>3, <1>6, <1>7, <1>8, <3>1
      <3>2. CASE k \in 1..Len(s.cmds) /\ s'.cmds[k] = s.cmds[k]
        <4>1. s.cmds[k] \in RustFrames
          BY <1>1, <3>2
        <4>2. s.cmds[k].id \in C!Muts
          BY <2>1, <3>2, <4>1 DEF RustFrames
        <4> QED BY <1>3, <1>6, <1>7, <1>10, <2>1, <3>2, <4>2 DEF RustIInv, RustInv, RustCalls
      <3> QED BY <1>9, <3>1, <3>2
    <2>2. ASSUME NEW j \in 1..Len(s'.cmds), NEW k \in 1..Len(s'.cmds), s'.cmds[j].t = "mut", s'.cmds[k].t = "mut",
                 s'.cmds[j].id = s'.cmds[k].id
          PROVE  j = k
      BY <1>1, <1>9, <1>10, <2>2 DEF RustIInv, RustInv, RustCalls
    <2>3. \A n \in C!Muts : /\ n \in RustFlight(s') => \/ s'.mut[n] = "sent"
                                                       \/ s'.mut[n] = "none" /\ s'.call[n] \in {"ok", "refused", "unknown", "dropped"}
                            /\ s'.mut[n] # "none" => s'.call[n] \in {"waiting", "dropped"}
                            /\ s'.call[n] = "ok" => n \in s'.applied
      BY <1>3, <1>6, <1>7, <1>8 DEF RustIInv, RustInv, RustCalls
    <2> QED BY <2>1, <2>2, <2>3 DEF RustCalls
  <1>12. RustResults(s') /\ RustShown(s')
    BY <1>6 DEF RustIInv, RustInv, RustResults, RustShown
  <1> QED BY <1>5, <1>11, <1>12 DEF RustInv

\* A mutation changes hands: what comes into flight was sent by then.
LEMMA RustMove ==
    ASSUME NEW st, RustInv(st), NEW st2 \in RustStates, NEW m \in C!Muts,
           st2.cmds = st.cmds, st2.applied = st.applied,
           st2.down = st.down, st2.sub = st.sub, st2.kept = st.kept, st2.window = st.window, st2.conn = st.conn,
           \A n \in C!Muts : n # m => st2.call[n] = st.call[n] /\ st2.mut[n] = st.mut[n],
           \A k \in 1..Len(st.cmds) : st.cmds[k].t = "mut" => st.cmds[k].id # m \/ (st2.mut[m] = st.mut[m] /\ st2.call[m] \in {"waiting", "dropped"}),
           RustFlight(st2) \subseteq RustFlight(st) \cup {m}, m \in RustFlight(st2) => m \in RustFlight(st) \/ st2.mut[m] = "sent",
           m \in RustFlight(st) => \/ st2.mut[m] = "sent"
                                   \/ st2.mut[m] = "none" /\ st2.call[m] \in {"ok", "refused", "unknown", "dropped"},
           st2.mut[m] # "none" => st2.call[m] \in {"waiting", "dropped"}, st2.call[m] = "ok" => m \in st2.applied
    PROVE  RustInv(st2)
  <1>1. \A k \in 1..Len(st.cmds) : st.cmds[k].t = "mut" => st.cmds[k].id \in C!Muts
    <2>1. st.cmds \in Seq(RustFrames)
      BY DEF RustInv, RustStates
    <2> QED BY <2>1 DEF RustFrames
  <1>2. \A n \in C!Muts : /\ n \in RustFlight(st2) => \/ st2.mut[n] = "sent"
                                                      \/ st2.mut[n] = "none" /\ st2.call[n] \in {"ok", "refused", "unknown", "dropped"}
                          /\ st2.mut[n] # "none" => st2.call[n] \in {"waiting", "dropped"}
                          /\ st2.call[n] = "ok" => n \in st2.applied
    BY DEF RustInv, RustCalls
  <1>3. ASSUME NEW k \in 1..Len(st.cmds), st.cmds[k].t = "mut"
        PROVE  /\ st.cmds[k].id \notin RustFlight(st2) /\ st2.mut[st.cmds[k].id] = "none"
               /\ st2.call[st.cmds[k].id] \in {"waiting", "dropped"}
    <2>1. CASE st.cmds[k].id # m
      BY <1>1, <1>3, <2>1 DEF RustInv, RustCalls
    <2>2. CASE st.cmds[k].id = m
      BY <1>1, <1>3, <2>2 DEF RustInv, RustCalls
    <2> QED BY <2>1, <2>2
  <1>4. RustCalls(st2)
    BY <1>2, <1>3 DEF RustInv, RustCalls
  <1>5. RustResults(st2) /\ RustShown(st2)
    BY DEF RustInv, RustResults, RustShown
  <1> QED BY <1>4, <1>5 DEF RustInv

\* The frames of a connection's state name each subscription or mutation of the
\* set and nothing else.
LEMMA RustFramesOf ==
    ASSUME NEW type, NEW ids, IsFiniteSet(ids)
    PROVE  /\ C!Frames(type, ids) \in Seq([t : {type}, id : ids])
           /\ \A k \in 1..Len(C!Frames(type, ids)) : C!Frames(type, ids)[k].t = type /\ C!Frames(type, ids)[k].id \in ids
  <1> DEFINE n == Cardinality(ids)
             order == C!SetToSeq(ids)
  <1>1. n \in Nat /\ ExistsBijection(1..n, ids)
    BY FS_CardinalityType
  <1>2. \E g \in [1..n -> ids] : C!IsInjective(g)
    <2>1. PICK g \in Bijection(1..n, ids) : TRUE
      BY <1>1 DEF ExistsBijection
    <2>2. g \in [1..n -> ids] /\ \A a, b \in 1..n : g[a] = g[b] => a = b
      BY <2>1 DEF Bijection, Injection, IsInjective
    <2>3. C!IsInjective(g)
      BY <2>2 DEF C!IsInjective
    <2> QED BY <2>2, <2>3
  <1>c. C!Cardinality(ids) = n
    BY Zenon DEF C!Cardinality, Cardinality
  <1>3. order \in [1..n -> ids]
    BY <1>2, <1>c DEF C!SetToSeq
  <1>4. C!Frames(type, ids) = [k \in 1..n |-> [t |-> type, id |-> order[k]]]
    BY <1>c DEF C!Frames
  <1> HIDE DEF n, order
  <1> QED BY <1>1, <1>3, <1>4

\* A client has finitely many mutations and subscriptions.
LEMMA RustFinite == ASSUME RustMixOK PROVE IsFiniteSet(C!Muts) /\ IsFiniteSet(C!Subs)
  <1>1. mix.muts \in Int /\ mix.subs \in Int /\ 1 \in Int
    BY DEF RustMixOK
  <1>2. IsFiniteSet(1..mix.muts) /\ IsFiniteSet(1..mix.subs)
    BY <1>1, FS_Interval, Zenon
  <1> QED BY <1>2 DEF C!Muts, C!Subs

\* A step that moves only channels, handles, versions and counters is quiet.
LEMMA RustQuiet ==
    ASSUME NEW st, RustInv(st), NEW st2 \in RustStates, RustSame(st, st2)
    PROVE  RustInv(st2)
  BY RustPlain DEF RustSame

\* The application subscribes, drops a handle, reads a channel, asks for a
\* refresh or closes: none of it settles a mutation.
LEMMA RustCallers ==
    ASSUME RustIInv, C!RefreshAuth \/ C!Close \/ \E i \in C!Subs : C!Subscribe(i) \/ C!DropHandle(i) \/ C!Receive(i)
    PROVE  RustInv(s')
  <1>1. s \in RustStates /\ RustInv(s)
    BY DEF RustIInv, RustInv
  <1>2. /\ \A i \in C!Subs : [t |-> "sub", id |-> i] \in RustFrames /\ [t |-> "unsub", id |-> i] \in RustFrames
        /\ [t |-> "auth", id |-> 0] \in RustFrames /\ [t |-> "auth", id |-> 0].t # "mut"
        /\ \A i \in C!Subs : [t |-> "sub", id |-> i].t # "mut" /\ [t |-> "unsub", id |-> i].t # "mut"
    BY DEF RustFrames
  <1>3. ASSUME NEW i \in C!Subs, C!Subscribe(i) PROVE RustInv(s')
    <2> DEFINE st == [s EXCEPT !.handle[i] = "open"]
    <2>1. st \in RustStates /\ RustSame(s, st)
      BY <1>1 DEF RustStates, RustSame
    <2>2. s' = C!Enqueue(st, [t |-> "sub", id |-> i])
      BY <1>3 DEF C!Subscribe
    <2> HIDE DEF st
    <2> QED BY <1>1, <1>2, <2>1, <2>2, RustQuiet, RustEnqueue
  <1>4. ASSUME NEW i \in C!Subs, C!DropHandle(i) PROVE RustInv(s')
    <2> DEFINE st == [s EXCEPT !.handle[i] = "dropped"]
    <2>1. st \in RustStates /\ RustSame(s, st)
      BY <1>1 DEF RustStates, RustSame
    <2>2. s' = st \/ s' = C!Enqueue(st, [t |-> "unsub", id |-> i])
      BY <1>4 DEF C!DropHandle
    <2> HIDE DEF st
    <2> QED BY <1>1, <1>2, <2>1, <2>2, RustQuiet, RustEnqueue
  <1>5. ASSUME NEW i \in C!Subs, C!Receive(i) PROVE RustInv(s')
    <2>1. s' = [s EXCEPT !.chan = [s.chan EXCEPT ![i] = s.chan[i] - 1]]
      BY <1>1, <1>5 DEF C!Receive, RustStates
    <2>2. [s.chan EXCEPT ![i] = s.chan[i] - 1] \in [C!Subs -> 0..mix.cap]
      <3>1. s.chan \in [C!Subs -> 0..mix.cap] /\ s.chan[i] > 0 /\ mix.cap \in Nat
        BY <1>1, <1>5 DEF RustStates, C!Receive, RustIInv, RustMixOK
      <3>2. s.chan[i] - 1 \in 0..mix.cap
        BY <3>1
      <3> QED BY <3>1, <3>2
    <2>3. s' \in RustStates /\ RustSame(s, s')
      BY <1>1, <2>1, <2>2 DEF RustStates, RustSame
    <2> QED BY <1>1, <2>3, RustQuiet
  <1>6. CASE C!RefreshAuth
    <2> DEFINE st == [s EXCEPT !.told = "waiting"]
    <2>1. st \in RustStates /\ RustSame(s, st)
      BY <1>1 DEF RustStates, RustSame
    <2>2. s' = C!Enqueue(st, [t |-> "auth", id |-> 0])
      BY <1>6 DEF C!RefreshAuth
    <2> HIDE DEF st
    <2> QED BY <1>1, <1>2, <2>1, <2>2, RustQuiet, RustEnqueue
  <1>7. CASE C!Close
    <2>1. s' \in RustStates /\ RustSame(s, s')
      BY <1>1, <1>7 DEF C!Close, RustStates, RustSame
    <2> QED BY <1>1, <2>1, RustQuiet
  <1> QED BY <1>3, <1>4, <1>5, <1>6, <1>7

\* An async caller drops its future: nobody is told anything any more.
LEMMA RustGiveUp ==
    ASSUME RustIInv, NEW m \in C!Muts, C!GiveUp(m)
    PROVE  RustInv(s')
  <1>1. s \in RustStates /\ s.call[m] = "waiting"
    BY DEF RustIInv, RustInv, C!GiveUp
  <1>2. s' = [s EXCEPT !.call = [s.call EXCEPT ![m] = "dropped"]]
    BY DEF C!GiveUp
  <1>3. s' \in RustStates
    BY <1>1, <1>2 DEF RustStates
  <1>4. /\ s'.cmds = s.cmds /\ s'.mut = s.mut /\ s'.applied = s.applied /\ s'.late = s.late /\ s'.up = s.up
        /\ s'.down = s.down /\ s'.sub = s.sub /\ s'.kept = s.kept /\ s'.window = s.window /\ s'.conn = s.conn
        /\ \A n \in C!Muts : s'.call[n] = IF n = m THEN "dropped" ELSE s.call[n]
    BY <1>1, <1>2 DEF RustStates
  <1>5. RustFlight(s') = RustFlight(s)
    BY <1>4 DEF RustFlight, RustUnread
  <1>6. m \in RustFlight(s) => s.mut[m] = "sent" \/ s.mut[m] = "none"
    BY DEF RustIInv, RustInv, RustCalls
  <1> QED BY <1>1, <1>3, <1>4, <1>5, <1>6, RustMove DEF RustIInv

\* A mutation's caller is told ok only of an applied mutation, otherwise refused
\* or unknown (settle).
LEMMA RustSettle ==
    ASSUME NEW st, RustInv(st), NEW m \in C!Muts, NEW outcome \in {"ok", "refused", "unknown"}, st.mut[m] # "none",
           outcome = "ok" => m \in st.applied
    PROVE  RustInv(C!Settle(st, m, outcome))
  <1> DEFINE call == [st.call EXCEPT ![m] = IF st.call[m] = "waiting" THEN outcome ELSE st.call[m]]
             st2 == [st EXCEPT !.mut = [st.mut EXCEPT ![m] = "none"], !.call = call]
  <1>1. st \in RustStates /\ st.call[m] \in {"waiting", "dropped"}
    BY DEF RustInv, RustCalls
  <1>2. C!Settle(st, m, outcome) = st2
    BY <1>1 DEF C!Settle, RustStates
  <1>3. call \in [C!Muts -> {"idle", "waiting", "dropped", "failed", "ok", "refused", "unknown"}]
        /\ \A n \in C!Muts : call[n] = IF n = m THEN (IF st.call[m] = "waiting" THEN outcome ELSE st.call[m]) ELSE st.call[n]
    BY <1>1 DEF RustStates
  <1> HIDE DEF call
  <1>4. st2 \in RustStates
    BY <1>1, <1>3 DEF RustStates
  <1>5. /\ st2.cmds = st.cmds /\ st2.call = call /\ st2.applied = st.applied /\ st2.late = st.late /\ st2.up = st.up
        /\ st2.down = st.down /\ st2.sub = st.sub /\ st2.kept = st.kept /\ st2.window = st.window /\ st2.conn = st.conn
        /\ \A n \in C!Muts : st2.mut[n] = IF n = m THEN "none" ELSE st.mut[n]
    BY <1>1 DEF RustStates
  <1> HIDE DEF st2
  <1>6. RustFlight(st2) = RustFlight(st)
    BY <1>5 DEF RustFlight, RustUnread
  <1>7. \A k \in 1..Len(st.cmds) : st.cmds[k].t = "mut" => st.cmds[k].id # m
    BY DEF RustInv, RustCalls
  <1>8. RustInv(st2)
    BY <1>1, <1>3, <1>4, <1>5, <1>6, <1>7, RustMove
  <1> QED BY <1>2, <1>8

\* The counters of faults are of the model only.
LEMMA RustCounts ==
    ASSUME NEW st, RustInv(st)
    PROVE  RustInv([st EXCEPT !.faults = @ + 1]) /\ RustInv([st EXCEPT !.trouble = @ + 1])
  <1>1. st \in RustStates /\ st.faults \in Nat /\ st.trouble \in Nat
    BY DEF RustInv, RustStates
  <1>2. ASSUME NEW n \in Nat
        PROVE  RustInv([st EXCEPT !.faults = n]) /\ RustInv([st EXCEPT !.trouble = n])
    <2>1. [st EXCEPT !.faults = n] \in RustStates /\ RustSame(st, [st EXCEPT !.faults = n])
      BY <1>1 DEF RustStates, RustSame
    <2>2. [st EXCEPT !.trouble = n] \in RustStates /\ RustSame(st, [st EXCEPT !.trouble = n])
      BY <1>1 DEF RustStates, RustSame
    <2> QED BY <2>1, <2>2, RustQuiet
  <1>3. st.faults + 1 \in Nat /\ st.trouble + 1 \in Nat
    BY <1>1
  <1> QED BY <1>2, <1>3

\* Close, a lost socket, a rejected connection and an unanswered refresh.
LEMMA RustEnds ==
    ASSUME RustIInv, C!Stop \/ C!Disconnect \/ C!Rejected \/ C!ExpireRefresh
    PROVE  RustInv(s')
  <1>1. CASE C!Stop \/ C!ExpireRefresh
    BY <1>1, RustFinish DEF C!Stop, C!ExpireRefresh, RustIInv
  <1>2. CASE C!Disconnect
    <2>1. RustInv(C!BeginReconnect(s)) /\ s' = [C!BeginReconnect(s) EXCEPT !.faults = @ + 1]
      BY <1>2, RustReconnect DEF C!Disconnect, RustIInv
    <2> QED BY <2>1, RustCounts
  <1>3. CASE C!Rejected
    <2>1. RustInv(C!Finish(s)) /\ s' = [C!Finish(s) EXCEPT !.trouble = @ + 1]
      BY <1>3, RustFinish DEF C!Rejected, RustIInv
    <2> QED BY <2>1, RustCounts
  <1> QED BY <1>1, <1>2, <1>3

\* A new connection sends every mutation that was sent before or whose caller
\* still waits; what is in flight afterwards is marked sent.
LEMMA RustDispatch ==
    ASSUME NEW st \in RustStates, RustIInv, NEW part, part \subseteq {m \in C!Muts : C!Wanted(m)},
           st.cmds = s.cmds, st.call = s.call, st.applied = s.applied, st.mut = C!Dispatched(part),
           RustFlight(st) \subseteq RustFlight(s) \cup part
    PROVE  RustCalls(st)
  <1>1. \A m \in C!Muts : st.mut[m] = IF ~C!Wanted(m) THEN "none" ELSE IF m \in part THEN "sent" ELSE s.mut[m]
    BY DEF C!Dispatched
  <1>2. \A k \in 1..Len(s.cmds) : s.cmds[k].t = "mut" => s.cmds[k].id \in C!Muts
    <2>1. s.cmds \in Seq(RustFrames)
      BY DEF RustIInv, RustInv, RustStates
    <2> QED BY <2>1 DEF RustFrames
  <1>3. \A m \in C!Muts : /\ m \in RustFlight(st) => \/ st.mut[m] = "sent"
                                                     \/ st.mut[m] = "none" /\ st.call[m] \in {"ok", "refused", "unknown", "dropped"}
                          /\ st.mut[m] # "none" => st.call[m] \in {"waiting", "dropped"}
                          /\ st.call[m] = "ok" => m \in st.applied
    BY <1>1 DEF RustIInv, RustInv, RustCalls, C!Wanted
  <1>4. ASSUME NEW k \in 1..Len(s.cmds), s.cmds[k].t = "mut"
        PROVE  /\ s.cmds[k].id \notin RustFlight(st) /\ st.mut[s.cmds[k].id] = "none"
               /\ st.call[s.cmds[k].id] \in {"waiting", "dropped"}
    BY <1>1, <1>2, <1>4 DEF RustIInv, RustInv, RustCalls, C!Wanted
  <1> QED BY <1>3, <1>4 DEF RustIInv, RustInv, RustCalls

\* connect_and_welcome sends the whole state on a new socket.
LEMMA RustSendState ==
    ASSUME RustIInv, C!SendSessionState
    PROVE  RustInv(s')
  <1> DEFINE part == {m \in C!Muts : C!Wanted(m)}
             A == C!Frames("sub", C!Live(s))
             B == C!Frames("mut", part)
  <1>1. s \in RustStates /\ s' = [s EXCEPT !.conn = "open", !.mut = C!Dispatched(part), !.up = A \o B]
    BY DEF RustIInv, RustInv, C!SendSessionState
  <1> DEFINE SA == [t : {"sub"}, id : C!Live(s)]
             SB == [t : {"mut"}, id : part]
  <1>2. A \in Seq(SA) /\ B \in Seq(SB)
    <2>1. IsFiniteSet(part) /\ IsFiniteSet(C!Live(s))
      BY RustFinite, FS_Subset DEF C!Live, RustIInv
    <2> QED BY <2>1, RustFramesOf
  <1>3. C!Dispatched(part) \in [C!Muts -> {"none", "queued", "sent"}]
    BY <1>1 DEF C!Dispatched, RustStates
  <1> HIDE DEF A, B
  <1>4. /\ \A k \in 1..Len(A) : A[k] \in RustFrames /\ A[k].t # "mut"
        /\ \A k \in 1..Len(B) : B[k] \in RustFrames /\ B[k].id \in part
    <2>1. ASSUME NEW k \in 1..Len(A) PROVE A[k] \in RustFrames /\ A[k].t # "mut"
      <3>1. A[k] \in SA
        <4> HIDE DEF SA
        <4> QED BY <1>2
      <3>2. C!Live(s) \subseteq C!Subs
        BY DEF C!Live
      <3>3. A[k] \in [t : {"sub", "unsub"}, id : C!Subs] /\ A[k].t = "sub"
        BY <3>1, <3>2
      <3> QED BY <3>3 DEF RustFrames
    <2>2. ASSUME NEW k \in 1..Len(B) PROVE B[k] \in RustFrames /\ B[k].id \in part
      <3>1. B[k] \in SB
        <4> HIDE DEF SB
        <4> QED BY <1>2
      <3>2. part \subseteq C!Muts
        OBVIOUS
      <3> HIDE DEF part
      <3>3. B[k] \in [t : {"mut"}, id : C!Muts] /\ B[k].id \in part
        BY <3>1, <3>2
      <3> QED BY <3>3 DEF RustFrames
    <2> QED BY <2>1, <2>2
  <1>5. A \o B \in Seq(RustFrames) /\ \A k \in 1..Len(A \o B) : (A \o B)[k].t = "mut" => (A \o B)[k].id \in part
    <2>1. A \in Seq(RustFrames) /\ B \in Seq(RustFrames)
      BY <1>2, <1>4
    <2>2. ASSUME NEW k \in 1..Len(A \o B), (A \o B)[k].t = "mut" PROVE (A \o B)[k].id \in part
      <3>1. \/ k \in 1..Len(A) /\ (A \o B)[k] = A[k]
            \/ k - Len(A) \in 1..Len(B) /\ (A \o B)[k] = B[k - Len(A)]
        BY <2>1
      <3> QED BY <1>4, <2>2, <3>1
    <2> QED BY <2>1, <2>2
  <1> DEFINE up == A \o B
             mut == C!Dispatched(part)
  <1>6. up \in Seq(RustFrames) /\ \A k \in 1..Len(up) : up[k].t = "mut" => up[k].id \in part
    BY <1>5
  <1>7. s' = [s EXCEPT !.conn = "open", !.mut = mut, !.up = up] /\ mut \in [C!Muts -> {"none", "queued", "sent"}]
    BY <1>1, <1>3
  <1>7a. part \subseteq {m \in C!Muts : C!Wanted(m)} /\ mut = C!Dispatched(part)
    OBVIOUS
  <1> HIDE DEF up, mut, part
  <1>7b. s \in RustStates
    BY DEF RustIInv, RustInv
  <1>8. s' \in RustStates
    BY <1>6, <1>7, <1>7b DEF RustStates
  <1>9. /\ s'.cmds = s.cmds /\ s'.call = s.call /\ s'.mut = mut /\ s'.applied = s.applied /\ s'.late = s.late
        /\ s'.up = up /\ s'.down = s.down /\ s'.sub = s.sub /\ s'.kept = s.kept /\ s'.window = s.window /\ s'.conn = "open"
    BY <1>7, <1>7b DEF RustStates
  <1>10. RustFlight(s') \subseteq RustFlight(s) \cup part
    BY <1>6, <1>9 DEF RustFlight, RustUnread
  <1>11. RustCalls(s')
    BY <1>7a, <1>8, <1>9, <1>10, RustDispatch
  <1>12. RustResults(s') /\ RustShown(s')
    BY <1>9 DEF RustIInv, RustInv, RustResults, RustShown
  <1> QED BY <1>8, <1>11, <1>12 DEF RustInv

\* The new socket fails halfway: any part of the mutations may arrive, and every
\* one of that part is marked sent.
LEMMA RustSendCut ==
    ASSUME RustIInv, C!SendCut
    PROVE  RustInv(s')
  <1>1. PICK part \in SUBSET {m \in C!Muts : C!Wanted(m)} :
          s' = [s EXCEPT !.mut = C!Dispatched(part), !.late = s.late \cup part, !.faults = s.faults + 1]
    BY DEF C!SendCut
  <1>2. s \in RustStates /\ s.faults \in Nat
    BY DEF RustIInv, RustInv, RustStates
  <1>3. C!Dispatched(part) \in [C!Muts -> {"none", "queued", "sent"}] /\ s.late \cup part \subseteq C!Muts /\ s.faults + 1 \in Nat
    BY <1>2 DEF C!Dispatched, RustStates
  <1>4. s' \in RustStates
    BY <1>1, <1>2, <1>3 DEF RustStates
  <1>5. /\ s'.cmds = s.cmds /\ s'.call = s.call /\ s'.mut = C!Dispatched(part) /\ s'.applied = s.applied /\ s'.late = s.late \cup part
        /\ s'.up = s.up /\ s'.down = s.down /\ s'.sub = s.sub /\ s'.kept = s.kept /\ s'.window = s.window /\ s'.conn = s.conn
    BY <1>1, <1>2 DEF RustStates
  <1>6. RustFlight(s') \subseteq RustFlight(s) \cup part
    BY <1>5 DEF RustFlight, RustUnread
  <1>7. RustCalls(s')
    BY <1>4, <1>5, <1>6, RustDispatch
  <1>8. RustResults(s') /\ RustShown(s')
    BY <1>5 DEF RustIInv, RustInv, RustResults, RustShown
  <1> QED BY <1>4, <1>7, <1>8 DEF RustInv

\* The command that process_commands took is of its kind and of this client.
LEMMA RustTook ==
    ASSUME RustIInv, NEW t, C!Took(t)
    PROVE  /\ RustInv(C!Rest) /\ C!Rest \in RustStates /\ C!Command \in RustFrames /\ C!Command.t = t /\ C!Rest = [s EXCEPT !.cmds = Tail(s.cmds)]
           /\ t \in {"sub", "unsub"} => C!Command.id \in C!Subs
           /\ t = "mut" => C!Command.id \in C!Muts
  <1>1. s.cmds # <<>> /\ C!Command.t = t
    BY DEF C!Took
  <1>2. RustInv(C!Rest) /\ C!Command \in RustFrames
    BY <1>1, RustRest DEF C!Rest, RustIInv, C!Command
  <1>3. t \in {"sub", "unsub"} => C!Command.id \in C!Subs
    BY <1>1, <1>2 DEF RustFrames
  <1>4. t = "mut" => C!Command.id \in C!Muts
    BY <1>1, <1>2 DEF RustFrames
  <1> QED BY <1>1, <1>2, <1>3, <1>4 DEF RustInv, C!Rest

\* Commands that subscribe, unsubscribe and refresh, and the refresh before the
\* token expires.
LEMMA RustProcess ==
    ASSUME RustIInv, C!ProcessSubscribe \/ C!ProcessUnsubscribe \/ C!ProcessRefresh \/ C!AutoRefresh
    PROVE  RustInv(s')
  <1>0. RustMixOK /\ RustInv(s)
    BY DEF RustIInv
  <1>1. CASE C!ProcessSubscribe
    <2>1. RustInv(C!Rest) /\ C!Rest \in RustStates /\ C!Command.id \in C!Subs
      BY <1>1, RustTook DEF C!ProcessSubscribe
    <2>2. C!NewSub \in RustSubs /\ C!NewSub.rows = 0
      BY DEF C!NewSub, RustSubs
    <2>3. RustInv([C!Rest EXCEPT !.sub = [@ EXCEPT ![C!Command.id] = C!NewSub]])
      BY <2>1, <2>2, RustSetSub
    <2>4. [t |-> "sub", id |-> C!Command.id] \in RustFrames /\ [t |-> "sub", id |-> C!Command.id].t # "mut"
      BY <2>1 DEF RustFrames
    <2>5. s' = C!Up([C!Rest EXCEPT !.sub = [@ EXCEPT ![C!Command.id] = C!NewSub]], [t |-> "sub", id |-> C!Command.id])
      BY <1>1 DEF C!ProcessSubscribe
    <2> QED BY <2>3, <2>4, <2>5, RustUp
  <1>2. CASE C!ProcessUnsubscribe
    <2> DEFINE i == C!Command.id
    <2>1. RustInv(C!Rest) /\ C!Rest \in RustStates /\ i \in C!Subs /\ C!Rest = [s EXCEPT !.cmds = Tail(s.cmds)]
      BY <1>2, RustTook DEF C!ProcessUnsubscribe
    <2>2. s' = IF s.sub[i].at = "live" THEN C!Up(C!Retire(C!Release(C!Rest, i), i), [t |-> "unsub", id |-> i]) ELSE C!Release(C!Rest, i)
      BY <1>2 DEF C!ProcessUnsubscribe
    <2>3. C!Rest.sub = s.sub /\ s \in RustStates /\ s.sub[i] \in RustSubs
      BY <2>1 DEF RustStates, RustIInv, RustInv
    <2> HIDE DEF i
    <2>4. CASE s.sub[i].at = "live"
      <3>1. C!NoSub \in RustSubs /\ C!NoSub.at = "none"
        BY DEF C!NoSub, RustSubs
      <3>2. RustInv([C!Release(C!Rest, i) EXCEPT !.sub = [@ EXCEPT ![i] = C!NoSub]])
        BY <2>1, <3>1, RustRelease
      <3>3. [t |-> "unsub", id |-> i] \in RustFrames /\ [t |-> "unsub", id |-> i].t # "mut"
        BY <2>1 DEF RustFrames
      <3>4. s' = C!Up([C!Release(C!Rest, i) EXCEPT !.sub = [@ EXCEPT ![i] = C!NoSub]], [t |-> "unsub", id |-> i])
        BY <2>2, <2>4 DEF C!Retire
      <3> QED BY <3>2, <3>3, <3>4, RustUp
    <2>5. CASE s.sub[i].at # "live"
      <3>1. C!Rest.sub[i].at = "none"
        BY <2>3, <2>5 DEF RustSubs, C!NoSub
      <3> QED BY <2>1, <2>2, <2>5, <3>1, RustReleaseOnly
    <2> QED BY <2>4, <2>5
  <1>3. ASSUME NEW st, RustInv(st), NEW asked \in BOOLEAN
        PROVE  RustInv(C!Up([st EXCEPT !.refresh = [at |-> "pending", asked |-> asked]], [t |-> "auth", id |-> 0]))
    <2> DEFINE st2 == [st EXCEPT !.refresh = [at |-> "pending", asked |-> asked]]
    <2>1. st \in RustStates /\ [at |-> "pending", asked |-> asked] \in RustRefreshes
      BY <1>3 DEF RustInv, RustRefreshes
    <2>2. st2 \in RustStates /\ RustSame(st, st2)
      BY <2>1 DEF RustStates, RustSame
    <2>3. [t |-> "auth", id |-> 0] \in RustFrames /\ [t |-> "auth", id |-> 0].t # "mut"
      BY DEF RustFrames
    <2>4. RustInv(st2)
      BY <1>3, <2>2, RustQuiet
    <2> QED BY <2>3, <2>4, RustUp
  <1>4. CASE C!ProcessRefresh
    <2>1. RustInv(C!Rest) /\ C!Rest \in RustStates
      BY <1>4, RustTook DEF C!ProcessRefresh
    <2>2. [C!Rest EXCEPT !.told = "failed"] \in RustStates /\ RustSame(C!Rest, [C!Rest EXCEPT !.told = "failed"])
      BY <2>1 DEF RustStates, RustSame
    <2>3. RustInv([C!Rest EXCEPT !.told = "failed"])
      BY <2>1, <2>2, RustQuiet
    <2>4. \/ s' = [C!Rest EXCEPT !.told = "failed"]
          \/ s' = C!Up([C!Rest EXCEPT !.refresh = [at |-> "pending", asked |-> TRUE]], [t |-> "auth", id |-> 0])
      BY <1>4 DEF C!ProcessRefresh
    <2> QED BY <1>3, <2>1, <2>3, <2>4
  <1>5. CASE C!AutoRefresh
    <2> DEFINE st == [s EXCEPT !.trouble = @ + 1]
    <2>1. s' = C!Up([st EXCEPT !.refresh = [at |-> "pending", asked |-> FALSE]], [t |-> "auth", id |-> 0])
      BY <1>0, <1>5 DEF C!AutoRefresh, RustInv, RustStates
    <2>2. RustInv(st)
      BY <1>0, RustCounts
    <2> HIDE DEF st
    <2> QED BY <1>3, <2>1, <2>2
  <1> QED BY <1>1, <1>2, <1>4, <1>5

\* A mutation command: dropped with its caller, refused when too many are
\* pending, queued without a socket, sent with one, or queued by a failed send.
LEMMA RustMutate ==
    ASSUME RustIInv, C!ProcessMutate \/ C!ProcessMutateCut
    PROVE  RustInv(s')
  <1> DEFINE m == C!Command.id
  <1>1. RustInv(C!Rest) /\ C!Rest \in RustStates /\ m \in C!Muts /\ C!Command.t = "mut" /\ C!Rest = [s EXCEPT !.cmds = Tail(s.cmds)] /\ s.cmds # <<>>
    BY RustTook DEF C!ProcessMutate, C!ProcessMutateCut, C!Took
  <1>2. /\ C!Rest.cmds = Tail(s.cmds) /\ C!Rest.mut = s.mut /\ C!Rest.call = s.call /\ C!Rest.conn = s.conn
        /\ C!Rest.up = s.up /\ C!Rest.late = s.late /\ C!Rest.applied = s.applied
    BY <1>1 DEF RustStates, RustIInv, RustInv
  <1>3. /\ m \notin RustFlight(s) /\ s.mut[m] = "none" /\ s.call[m] \in {"waiting", "dropped"}
        /\ \A k \in 1..Len(C!Rest.cmds) : C!Rest.cmds[k].t = "mut" => C!Rest.cmds[k].id # m
    BY <1>1, <1>2, RustRest DEF RustIInv, C!Command
  <1>4. m \notin RustFlight(C!Rest)
    BY <1>2, <1>3 DEF RustFlight, RustUnread
  <1> HIDE DEF m
  <1>5. ASSUME s.call[m] = "waiting", NEW at \in {"queued", "sent"}
        PROVE  /\ RustInv([C!Rest EXCEPT !.mut = [@ EXCEPT ![m] = at]])
               /\ RustInv([C!Rest EXCEPT !.mut = [@ EXCEPT ![m] = "sent"], !.up = Append(@, [t |-> "mut", id |-> m])])
    <2> DEFINE a == [C!Rest EXCEPT !.mut = [C!Rest.mut EXCEPT ![m] = at]]
               f == [t |-> "mut", id |-> m]
               up == Append(C!Rest.up, f)
               b == [C!Rest EXCEPT !.mut = [C!Rest.mut EXCEPT ![m] = "sent"], !.up = up]
    <2>0. C!Rest \in RustStates
      BY <1>1
    <2>1. a \in RustStates
      BY <2>0 DEF RustStates
    <2>2. f \in RustFrames /\ f.t = "mut" /\ f.id = m
      BY <1>1 DEF RustFrames
    <2>3. C!Rest.up \in Seq(RustFrames)
      BY <1>1 DEF RustStates
    <2> HIDE DEF f
    <2>4. up \in Seq(RustFrames) /\ \A k \in 1..Len(up) : up[k] = f \/ (k \in 1..Len(C!Rest.up) /\ up[k] = C!Rest.up[k])
      BY <2>2, <2>3
    <2> HIDE DEF up
    <2>5. b \in RustStates
      BY <2>0, <2>4 DEF RustStates
    <2>6. /\ a.cmds = C!Rest.cmds /\ a.call = C!Rest.call /\ a.applied = C!Rest.applied /\ a.late = C!Rest.late /\ a.up = C!Rest.up
          /\ a.down = C!Rest.down /\ a.sub = C!Rest.sub /\ a.kept = C!Rest.kept /\ a.window = C!Rest.window /\ a.conn = C!Rest.conn
      BY <2>0 DEF RustStates
    <2>6a. a.mut = [C!Rest.mut EXCEPT ![m] = at]
      BY <2>0 DEF RustStates
    <2>7. /\ b.cmds = C!Rest.cmds /\ b.call = C!Rest.call /\ b.applied = C!Rest.applied /\ b.late = C!Rest.late /\ b.up = up
          /\ b.down = C!Rest.down /\ b.sub = C!Rest.sub /\ b.kept = C!Rest.kept /\ b.window = C!Rest.window /\ b.conn = C!Rest.conn
      BY <2>0 DEF RustStates
    <2>7a. b.mut = [C!Rest.mut EXCEPT ![m] = "sent"]
      BY <2>0 DEF RustStates
    <2>8. a = [C!Rest EXCEPT !.mut = [@ EXCEPT ![m] = at]]
          /\ b = [C!Rest EXCEPT !.mut = [@ EXCEPT ![m] = "sent"], !.up = Append(@, [t |-> "mut", id |-> m])]
      BY <1>1 DEF RustStates, up, f
    <2> HIDE DEF a, b
    <2>8a. C!Rest.mut \in [C!Muts -> {"none", "queued", "sent"}]
      BY <2>0 DEF RustStates
    <2>9. RustFlight(a) = RustFlight(C!Rest)
      BY <2>6 DEF RustFlight, RustUnread
    <2>10. RustFlight(b) \subseteq RustFlight(C!Rest) \cup {m}
      BY <2>2, <2>4, <2>7 DEF RustFlight, RustUnread
    <2>10a. /\ a.mut[m] = at /\ b.mut[m] = "sent" /\ a.call[m] = "waiting" /\ b.call[m] = "waiting"
            /\ \A n \in C!Muts : n # m => /\ a.call[n] = C!Rest.call[n] /\ a.mut[n] = C!Rest.mut[n]
                                          /\ b.call[n] = C!Rest.call[n] /\ b.mut[n] = C!Rest.mut[n]
      BY <1>1, <1>2, <1>5, <2>6, <2>6a, <2>7, <2>7a, <2>8a
    <2>10b. RustInv(C!Rest) /\ m \in C!Muts
      BY <1>1
    <2>10c. \A k \in 1..Len(C!Rest.cmds) : C!Rest.cmds[k].t = "mut" => C!Rest.cmds[k].id # m
      BY <1>3
    <2>11. RustInv(a)
      BY <1>4, <2>1, <2>6, <2>9, <2>10a, <2>10b, <2>10c, RustMove
    <2>12. RustInv(b)
      BY <1>4, <2>5, <2>7, <2>10, <2>10a, <2>10b, <2>10c, RustMove
    <2> QED BY <2>8, <2>11, <2>12
  <1>6. ASSUME NEW st, RustInv(st), m \notin RustFlight(st), st.mut[m] = "none",
               \A k \in 1..Len(st.cmds) : st.cmds[k].t = "mut" => st.cmds[k].id # m
        PROVE  RustInv([st EXCEPT !.call[m] = "failed"])
    <2> DEFINE a == [st EXCEPT !.call[m] = "failed"]
    <2>1. st \in RustStates
      BY <1>6 DEF RustInv
    <2>2. a \in RustStates
      BY <1>1, <2>1 DEF RustStates
    <2>3. /\ a.cmds = st.cmds /\ a.mut = st.mut /\ a.applied = st.applied /\ a.late = st.late /\ a.up = st.up
          /\ a.down = st.down /\ a.sub = st.sub /\ a.kept = st.kept /\ a.window = st.window /\ a.conn = st.conn
          /\ \A n \in C!Muts : a.call[n] = IF n = m THEN "failed" ELSE st.call[n]
      BY <1>1, <2>1 DEF RustStates
    <2> HIDE DEF a
    <2>4. RustFlight(a) = RustFlight(st)
      BY <2>3 DEF RustFlight, RustUnread
    <2>5. RustInv(a)
      BY <1>1, <1>6, <2>2, <2>3, <2>4, RustMove
    <2> QED BY <2>5 DEF a
  <1>7. CASE C!ProcessMutate
    <2>1. CASE s.call[m] = "dropped"
      BY <1>1, <1>7, <2>1 DEF C!ProcessMutate, m
    <2>2. CASE s.call[m] # "dropped" /\ s' = [C!Rest EXCEPT !.call[m] = "failed"]
      BY <1>1, <1>2, <1>3, <1>4, <1>6, <2>2
    <2>3. CASE s.call[m] # "dropped" /\ s' = C!Up([C!Rest EXCEPT !.mut[m] = IF s.conn = "open" THEN "sent" ELSE "queued"], [t |-> "mut", id |-> m])
      <3>1. CASE s.conn = "open"
        <4>1. s' = [C!Rest EXCEPT !.mut = [@ EXCEPT ![m] = "sent"], !.up = Append(@, [t |-> "mut", id |-> m])]
          BY <1>1, <1>2, <2>3, <3>1 DEF C!Up, RustStates
        <4> QED BY <1>3, <1>5, <2>3, <4>1
      <3>2. CASE s.conn # "open"
        <4>1. s' = [C!Rest EXCEPT !.mut = [@ EXCEPT ![m] = "queued"]]
          BY <1>1, <1>2, <2>3, <3>2 DEF C!Up, RustStates
        <4> QED BY <1>3, <1>5, <2>3, <4>1
      <3> QED BY <3>1, <3>2
    <2> QED BY <1>7, <2>1, <2>2, <2>3 DEF C!ProcessMutate, m
  <1>8. CASE C!ProcessMutateCut
    <2>1. s.call[m] = "waiting" /\ s' = C!BeginReconnect([C!Rest EXCEPT !.mut[m] = "queued", !.faults = @ + 1])
      BY <1>2, <1>8 DEF C!ProcessMutateCut, m
    <2> DEFINE a == [C!Rest EXCEPT !.mut = [@ EXCEPT ![m] = "queued"]]
    <2>2. RustInv(a)
      BY <1>5, <2>1
    <2>3. s' = C!BeginReconnect([a EXCEPT !.faults = @ + 1])
      BY <1>1, <2>1 DEF RustStates
    <2> HIDE DEF a
    <2> QED BY <2>2, <2>3, RustCounts, RustReconnect
  <1> QED BY <1>7, <1>8

\* A subscription that is replayed or cleared has the form of one.
LEMMA RustSubForms ==
    ASSUME NEW y \in RustSubs, y.at # "none", NEW due \in BOOLEAN
    PROVE  /\ [y EXCEPT !.replayed = TRUE] \in RustSubs /\ [y EXCEPT !.replayed = TRUE].replayed
           /\ [y EXCEPT !.rows = 0, !.cookie = 0, !.due = due] \in RustSubs
           /\ [y EXCEPT !.rows = 0, !.cookie = 0, !.due = due].rows = 0
           /\ [y EXCEPT !.due = due] \in RustSubs /\ y.at = "live"
           /\ [y EXCEPT !.due = due].rows = y.rows /\ [y EXCEPT !.due = due].replayed = y.replayed
           /\ [y EXCEPT !.rows = 0, !.cookie = 0] \in RustSubs /\ [y EXCEPT !.rows = 0, !.cookie = 0].rows = 0
  <1> DEFINE L == [at : {"live"}, rows : Nat, cookie : Nat, due : BOOLEAN, replayed : BOOLEAN]
  <1>1. y \in L
    BY DEF RustSubs, C!NoSub
  <1>2. /\ [y EXCEPT !.replayed = TRUE] \in L /\ [y EXCEPT !.replayed = TRUE].replayed
        /\ [y EXCEPT !.rows = 0, !.cookie = 0, !.due = due] \in L
        /\ [y EXCEPT !.rows = 0, !.cookie = 0, !.due = due].rows = 0
        /\ [y EXCEPT !.due = due] \in L /\ y.at = "live"
        /\ [y EXCEPT !.due = due].rows = y.rows /\ [y EXCEPT !.due = due].replayed = y.replayed
        /\ [y EXCEPT !.rows = 0, !.cookie = 0] \in L /\ [y EXCEPT !.rows = 0, !.cookie = 0].rows = 0
    BY <1>1
  <1> QED BY <1>2 DEF RustSubs

\* The frame that handle_down took is of its kind, and only the wire is shorter.
LEMMA RustGot ==
    ASSUME RustIInv, NEW t, C!Got(t)
    PROVE  /\ RustInv(C!Read) /\ C!Read \in RustStates /\ C!Frame \in RustReplies /\ C!Frame.t = t
           /\ C!Read.sub = s.sub /\ C!Read.mut = s.mut /\ C!Read.refresh = s.refresh /\ C!Read.applied = s.applied
           /\ t \in {"snapshot", "refetch", "error"} => C!Frame.id \in C!Subs
           /\ t = "snapshot" => C!Frame.v \in Nat
           /\ t = "result" => C!Frame.id \in C!Muts /\ (C!Frame.ok => C!Frame.id \in s.applied)
  <1>1. s.down # <<>> /\ C!Frame.t = t /\ RustInv(s) /\ s \in RustStates
    BY DEF C!Got, RustIInv, RustInv
  <1>2. RustInv(C!Read) /\ C!Frame \in RustReplies /\ (C!Frame.t = "result" /\ C!Frame.ok => C!Frame.id \in s.applied)
    BY <1>1, RustRead DEF C!Read, C!Frame
  <1>3. C!Read.sub = s.sub /\ C!Read.mut = s.mut /\ C!Read.refresh = s.refresh /\ C!Read.applied = s.applied
    BY <1>1 DEF C!Read, RustStates
  <1>4. /\ t \in {"snapshot", "refetch", "error"} => C!Frame.id \in C!Subs
        /\ t = "snapshot" => C!Frame.v \in Nat
        /\ t = "result" => C!Frame.id \in C!Muts
    BY <1>1, <1>2 DEF RustReplies
  <1> QED BY <1>1, <1>2, <1>3, <1>4 DEF RustInv

\* Frames that subscribe and unsubscribe are no mutations.
LEMMA RustUnsubFrame ==
    ASSUME NEW i \in C!Subs
    PROVE  /\ [t |-> "unsub", id |-> i] \in RustFrames /\ [t |-> "unsub", id |-> i].t # "mut"
           /\ [t |-> "sub", id |-> i] \in RustFrames /\ [t |-> "sub", id |-> i].t # "mut"
  BY DEF RustFrames

\* A snapshot replaces the rows, or confirms them when the cookie is the same.
LEMMA RustSnapshot ==
    ASSUME RustIInv, C!HandleSnapshot
    PROVE  RustInv(s')
  <1> DEFINE i == C!Frame.id
             Rel == C!Release(C!Read, i)
  <1>0. RustMixOK /\ C!Got("snapshot")
    BY DEF RustIInv, C!HandleSnapshot
  <1>1. RustInv(C!Read) /\ C!Read \in RustStates /\ i \in C!Subs /\ C!Frame.v \in Nat /\ C!Read.sub = s.sub
    BY <1>0, RustGot
  <1>2. CASE s.sub[i].at = "none"
    BY <1>1, <1>2 DEF C!HandleSnapshot
  <1>3. CASE s.sub[i].at # "none" /\ C!SameCookie(i)
    <2> DEFINE x == [s.sub[i] EXCEPT !.replayed = TRUE]
    <2>1. x \in RustSubs /\ x.replayed
      <3>1. s.sub[i] \in RustSubs
        BY <1>1 DEF RustStates
      <3> HIDE DEF i
      <3> QED BY <1>3, <3>1, RustSubForms
    <2>2. Rel.sub = s.sub /\ s' = [Rel EXCEPT !.sub[i].replayed = TRUE]
      BY <1>1, <1>3 DEF C!HandleSnapshot, C!Release, RustStates
    <2>3. s' = [Rel EXCEPT !.sub = [@ EXCEPT ![i] = x]]
      BY <2>2
    <2> HIDE DEF x, i
    <2> QED BY <1>1, <2>1, <2>3, RustRelease
  <1>4. CASE s.sub[i].at # "none" /\ ~C!SameCookie(i)
    <2> DEFINE x == [at |-> "live", rows |-> C!Frame.v, cookie |-> C!Frame.v, due |-> FALSE, replayed |-> TRUE]
               a == [Rel EXCEPT !.sub = [@ EXCEPT ![i] = x]]
               b == [a EXCEPT !.last = C!Frame.v]
    <2>1. x \in RustSubs /\ x.replayed
      BY <1>1 DEF RustSubs
    <2>2. b = [Rel EXCEPT !.sub[i] = x, !.last = C!Frame.v]
      BY <1>1 DEF C!Release, RustStates
    <2>3. \/ s' = C!Emit(b, i)
          \/ s' = C!Up(C!Emit(b, i), [t |-> "unsub", id |-> i])
      BY <1>4, <2>2 DEF C!HandleSnapshot
    <2>4. RustInv(a)
      <3> HIDE DEF x, i
      <3> QED BY <1>1, <2>1, RustRelease
    <2>5. b \in RustStates /\ RustSame(a, b)
      <3>1. a \in RustStates
        BY <2>4 DEF RustInv
      <3> HIDE DEF a
      <3> QED BY <1>1, <3>1 DEF RustStates, RustSame
    <2> HIDE DEF a
    <2>6. RustInv(b)
      BY <2>4, <2>5, RustQuiet
    <2> HIDE DEF b, i
    <2>7. RustInv(C!Emit(b, i))
      BY <1>0, <1>1, <2>6, RustEmit
    <2> QED BY <1>1, <2>3, <2>7, RustUp, RustUnsubFrame
  <1> QED BY <1>2, <1>3, <1>4

\* A mustRefetch clears the rows, and the query is sent again now or later.
LEMMA RustRefetch ==
    ASSUME RustIInv, C!RefetchSubscription
    PROVE  RustInv(s')
  <1> DEFINE i == C!Frame.id
             Rel == C!Release(C!Read, i)
  <1>0. RustMixOK /\ C!Got("refetch")
    BY DEF RustIInv, C!RefetchSubscription
  <1>1. RustInv(C!Read) /\ C!Read \in RustStates /\ i \in C!Subs /\ C!Read.sub = s.sub
    BY <1>0, RustGot
  <1>2. CASE s.sub[i].at = "none"
    <2>1. s' = Rel
      BY <1>2 DEF C!RefetchSubscription
    <2> HIDE DEF i
    <2> QED BY <1>1, <1>2, <2>1, RustReleaseOnly
  <1>3. CASE s.sub[i].at # "none"
    <2> DEFINE x == [s.sub[i] EXCEPT !.rows = 0, !.cookie = 0, !.due = C!Backoff(i)]
               a == [Rel EXCEPT !.sub = [@ EXCEPT ![i] = x]]
    <2>1. x \in RustSubs /\ x.rows = 0
      <3>1. s.sub[i] \in RustSubs
        BY <1>1 DEF RustStates
      <3>2. C!Backoff(i) \in BOOLEAN
        BY DEF C!Backoff, C!Later
      <3> HIDE DEF i
      <3> QED BY <1>3, <3>1, <3>2, RustSubForms
    <2>2. Rel.sub = s.sub
      BY <1>1 DEF C!Release, RustStates
    <2>3. a = [Rel EXCEPT !.sub[i].rows = 0, !.sub[i].cookie = 0, !.sub[i].due = C!Backoff(i)]
      <3>1. C!Backoff(i) \in BOOLEAN
        BY DEF C!Backoff, C!Later
      <3>2. Rel \in RustStates
        <4> HIDE DEF i
        <4> QED BY <1>1 DEF C!Release, RustStates
      <3> HIDE DEF Rel, i
      <3> DEFINE d == C!Backoff(i)
      <3>3. d \in BOOLEAN
        BY <3>1
      <3>4. a = [Rel EXCEPT !.sub = [@ EXCEPT ![i] = [Rel.sub[i] EXCEPT !.rows = 0, !.cookie = 0, !.due = d]]]
        BY <2>2
      <3> HIDE DEF a, d
      <3>5. a = [Rel EXCEPT !.sub[i].rows = 0, !.sub[i].cookie = 0, !.sub[i].due = d]
        <4> DEFINE q == Rel.sub
                   u == [q EXCEPT ![i].rows = 0]
                   v == [u EXCEPT ![i].cookie = 0]
                   w == [v EXCEPT ![i].due = d]
        <4>1. q \in [C!Subs -> RustSubs]
          BY <3>2 DEF RustStates
        <4>2. w = [q EXCEPT ![i] = [q[i] EXCEPT !.rows = 0, !.cookie = 0, !.due = d]]
          <5> HIDE DEF q
          <5> QED BY <1>1, <4>1
        <4>3. [Rel EXCEPT !.sub[i].rows = 0, !.sub[i].cookie = 0, !.sub[i].due = d] = [Rel EXCEPT !.sub = w]
          BY <1>1, <3>2, <3>3 DEF RustStates
        <4>4. a = [Rel EXCEPT !.sub = [q EXCEPT ![i] = [q[i] EXCEPT !.rows = 0, !.cookie = 0, !.due = d]]]
          BY <3>4
        <4> HIDE DEF q, w
        <4> QED BY <4>2, <4>3, <4>4
      <3> QED BY <3>5 DEF d
    <2>4. \/ s' = C!Emit(a, i)
          \/ s' = C!Up(C!Emit(a, i), [t |-> "unsub", id |-> i])
          \/ s' = C!Up(C!Emit(a, i), [t |-> "sub", id |-> i])
      BY <1>3, <2>3 DEF C!RefetchSubscription
    <2>5. RustInv(a)
      <3> HIDE DEF x, i
      <3> QED BY <1>1, <2>1, RustRelease
    <2> HIDE DEF a, i
    <2>6. RustInv(C!Emit(a, i))
      BY <1>0, <1>1, <2>5, RustEmit
    <2> QED BY <1>1, <2>4, <2>6, RustUp, RustUnsubFrame
  <1> QED BY <1>2, <1>3

\* A subscription error ends the subscription, or clears it for a retry.
LEMMA RustSubError ==
    ASSUME RustIInv, C!HandleSubscriptionError
    PROVE  RustInv(s')
  <1> DEFINE i == C!Frame.id
             Rel == C!Release(C!Read, i)
  <1>0. RustMixOK /\ C!Got("error")
    BY DEF RustIInv, C!HandleSubscriptionError
  <1>1. RustInv(C!Read) /\ C!Read \in RustStates /\ i \in C!Subs /\ C!Read.sub = s.sub
    BY <1>0, RustGot
  <1>2. CASE s.sub[i].at = "none"
    <2>1. s' = Rel
      BY <1>2 DEF C!HandleSubscriptionError
    <2> HIDE DEF i
    <2> QED BY <1>1, <1>2, <2>1, RustReleaseOnly
  <1>3. CASE s.sub[i].at # "none"
    <2> DEFINE x == [s.sub[i] EXCEPT !.rows = 0, !.cookie = 0, !.due = TRUE]
               a == [Rel EXCEPT !.sub = [@ EXCEPT ![i] = x]]
    <2>1. x \in RustSubs /\ x.rows = 0
      <3>1. s.sub[i] \in RustSubs
        BY <1>1 DEF RustStates
      <3> HIDE DEF i
      <3> QED BY <1>3, <3>1, RustSubForms
    <2>2. Rel.sub = s.sub
      BY <1>1 DEF C!Release, RustStates
    <2>3. a = [Rel EXCEPT !.sub[i].rows = 0, !.sub[i].cookie = 0, !.sub[i].due = TRUE]
      <3>1. C!Backoff(i) \in BOOLEAN
        BY DEF C!Backoff, C!Later
      <3>2. Rel \in RustStates
        <4> HIDE DEF i
        <4> QED BY <1>1 DEF C!Release, RustStates
      <3> HIDE DEF Rel, i
      <3> DEFINE d == TRUE
      <3>3. d \in BOOLEAN
        BY <3>1
      <3>4. a = [Rel EXCEPT !.sub = [@ EXCEPT ![i] = [Rel.sub[i] EXCEPT !.rows = 0, !.cookie = 0, !.due = d]]]
        BY <2>2
      <3> HIDE DEF a, d
      <3>5. a = [Rel EXCEPT !.sub[i].rows = 0, !.sub[i].cookie = 0, !.sub[i].due = d]
        <4> DEFINE q == Rel.sub
                   u == [q EXCEPT ![i].rows = 0]
                   v == [u EXCEPT ![i].cookie = 0]
                   w == [v EXCEPT ![i].due = d]
        <4>1. q \in [C!Subs -> RustSubs]
          BY <3>2 DEF RustStates
        <4>2. w = [q EXCEPT ![i] = [q[i] EXCEPT !.rows = 0, !.cookie = 0, !.due = d]]
          <5> HIDE DEF q
          <5> QED BY <1>1, <4>1
        <4>3. [Rel EXCEPT !.sub[i].rows = 0, !.sub[i].cookie = 0, !.sub[i].due = d] = [Rel EXCEPT !.sub = w]
          BY <1>1, <3>2, <3>3 DEF RustStates
        <4>4. a = [Rel EXCEPT !.sub = [q EXCEPT ![i] = [q[i] EXCEPT !.rows = 0, !.cookie = 0, !.due = d]]]
          BY <3>4
        <4> HIDE DEF q, w
        <4> QED BY <4>2, <4>3, <4>4
      <3> QED BY <3>5 DEF d
    <2>4. \/ s' = C!Retire(Rel, i)
          \/ s' = a
          \/ s' = C!Emit(a, i)
      BY <1>3, <2>3 DEF C!HandleSubscriptionError
    <2>5. RustInv(a)
      <3> HIDE DEF x, i
      <3> QED BY <1>1, <2>1, RustRelease
    <2> HIDE DEF a
    <2>6. RustInv(C!Retire(Rel, i))
      <3>1. C!NoSub \in RustSubs /\ C!NoSub.at = "none"
        BY DEF C!NoSub, RustSubs
      <3> HIDE DEF i
      <3>2. RustInv([C!Release(C!Read, i) EXCEPT !.sub = [@ EXCEPT ![i] = C!NoSub]])
        BY <1>1, <3>1, RustRelease
      <3> QED BY <3>2 DEF C!Retire
    <2> HIDE DEF i, Rel
    <2>7. RustInv(C!Emit(a, i))
      BY <1>0, <1>1, <2>5, RustEmit
    <2> QED BY <2>4, <2>5, <2>6, <2>7
  <1> QED BY <1>2, <1>3

\* A result settles its mutation, if that is not settled yet.
LEMMA RustResult ==
    ASSUME RustIInv, C!SettleMutation
    PROVE  RustInv(s')
  <1> DEFINE m == C!Frame.id
             a == [C!Read EXCEPT !.last = s.v]
  <1>1. RustInv(C!Read) /\ C!Read \in RustStates /\ m \in C!Muts /\ (C!Frame.ok => m \in s.applied) /\ C!Read.mut = s.mut /\ C!Read.applied = s.applied
    BY RustGot DEF C!SettleMutation
  <1>2. s.v \in Nat
    BY DEF RustIInv, RustInv, RustStates
  <1>3. a \in RustStates /\ RustSame(C!Read, a)
    BY <1>1, <1>2 DEF RustStates, RustSame
  <1>4. RustInv(a) /\ a.mut = s.mut /\ a.applied = s.applied
    BY <1>1, <1>3, RustQuiet DEF RustSame
  <1>5. s' = IF s.mut[m] = "none" THEN C!Read ELSE C!Settle(a, m, IF C!Frame.ok THEN "ok" ELSE "refused")
    BY DEF C!SettleMutation
  <1> HIDE DEF a
  <1> QED BY <1>1, <1>4, <1>5, RustSettle

\* The answer to a refresh tells its caller, and nobody else.
LEMMA RustAuthAnswer ==
    ASSUME RustIInv, C!SettleRefresh
    PROVE  RustInv(s')
  <1>1. RustInv(C!Read) /\ C!Read \in RustStates
    BY RustGot DEF C!SettleRefresh
  <1>2. C!NoRefresh \in RustRefreshes
    BY DEF RustRefreshes
  <1>3. PICK told \in {C!Read.told, "ok"} : s' = [C!Read EXCEPT !.refresh = C!NoRefresh, !.told = told]
    BY <1>1 DEF C!SettleRefresh, RustStates
  <1>3a. told \in {"none", "waiting", "failed", "ok"}
    BY <1>1, <1>3 DEF RustStates
  <1>4. s' \in RustStates /\ RustSame(C!Read, s')
    BY <1>1, <1>2, <1>3, <1>3a DEF RustStates, RustSame
  <1> QED BY <1>1, <1>4, RustQuiet

\* The resume window ends: the rows retained in it are no longer shown.
LEMMA RustWindowEnds ==
    ASSUME RustIInv, C!ExpireResume
    PROVE  RustInv(s')
  <1> DEFINE sub == [i \in C!Subs |-> IF i \in s.kept /\ s.sub[i].at = "live" THEN C!AfterWindow(s.sub[i]) ELSE s.sub[i]]
             chan == [i \in C!Subs |-> IF i \in s.kept /\ s.sub[i].at = "live" /\ C!Deliverable(s, i) THEN s.chan[i] + 1 ELSE s.chan[i]]
             last == IF s.last = s.resume THEN 0 ELSE s.last
  <1>1. s \in RustStates /\ s.sub \in [C!Subs -> RustSubs] /\ RustMixOK /\ RustInv(s)
    BY DEF RustIInv, RustInv, RustStates
  <1>2. s' = [s EXCEPT !.sub = sub, !.chan = chan, !.last = last, !.kept = {}, !.window = FALSE, !.resume = 0] /\ s.window
    BY <1>1 DEF C!ExpireResume, RustStates
  <1>3. ASSUME NEW i \in C!Subs, i \in s.kept, s.sub[i].at = "live"
        PROVE  C!AfterWindow(s.sub[i]) \in RustSubs /\ C!AfterWindow(s.sub[i]).rows = 0
    <2>1. s.sub[i] \in RustSubs /\ s.sub[i].at # "none" /\ TRUE \in BOOLEAN
      BY <1>1, <1>3
    <2> QED BY <2>1, RustSubForms DEF C!AfterWindow
  <1>4. sub \in [C!Subs -> RustSubs] /\ \A i \in C!Subs : sub[i].at = "live" => (sub[i] = s.sub[i] /\ i \notin s.kept) \/ sub[i].rows = 0
    BY <1>1, <1>3
  <1>5. chan \in [C!Subs -> 0..mix.cap]
    <2>1. ASSUME NEW i \in C!Subs PROVE chan[i] \in 0..mix.cap
      <3>1. s.chan[i] \in 0..mix.cap /\ mix.cap \in Nat
        BY <1>1 DEF RustStates, RustMixOK
      <3>2. s.chan[i] < mix.cap => s.chan[i] + 1 \in 0..mix.cap
        BY <3>1
      <3> QED BY <3>1, <3>2 DEF C!Deliverable
    <2> QED BY <2>1
  <1>6. last \in Nat
    BY <1>1 DEF RustStates
  <1> HIDE DEF sub, chan, last
  <1>7. s' \in RustStates
    BY <1>1, <1>2, <1>4, <1>5, <1>6 DEF RustStates
  <1>8. /\ s'.cmds = s.cmds /\ s'.call = s.call /\ s'.mut = s.mut /\ s'.applied = s.applied /\ s'.late = s.late
        /\ s'.up = s.up /\ s'.down = s.down /\ s'.sub = sub /\ s'.kept = {} /\ s'.window = FALSE /\ s'.conn = s.conn
    BY <1>1, <1>2 DEF RustStates
  <1>9. RustCalls(s') /\ RustResults(s')
    BY <1>1, <1>8 DEF RustInv, RustCalls, RustResults, RustFlight, RustUnread
  <1>10. RustShown(s')
    <2>1. ASSUME NEW i \in C!Subs, s'.sub[i].at = "live", s'.sub[i].rows # 0
          PROVE  s'.sub[i].replayed
      <3>1. sub[i] = s.sub[i] /\ i \notin s.kept
        BY <1>4, <1>8, <2>1
      <3> QED BY <1>1, <1>2, <1>8, <2>1, <3>1 DEF RustInv, RustShown
    <2> QED BY <1>8, <2>1 DEF RustShown
  <1> QED BY <1>7, <1>9, <1>10 DEF RustInv

\* A back-off ends and the query is sent again.
LEMMA RustDue ==
    ASSUME RustIInv, NEW i \in C!Subs, C!SendDueRefetch(i)
    PROVE  RustInv(s')
  <1> DEFINE x == [s.sub[i] EXCEPT !.due = FALSE]
  <1>1. s \in RustStates /\ RustInv(s) /\ s.sub[i] \in RustSubs /\ s.sub[i].at = "live"
    BY DEF RustIInv, RustInv, RustStates, C!SendDueRefetch
  <1>2. x \in RustSubs /\ x.rows = s.sub[i].rows /\ x.replayed = s.sub[i].replayed
    BY <1>1, RustSubForms
  <1>3. s' = C!Up([s EXCEPT !.sub = [@ EXCEPT ![i] = x]], [t |-> "sub", id |-> i])
    BY <1>1 DEF C!SendDueRefetch, RustStates
  <1> HIDE DEF x
  <1>4. RustInv([s EXCEPT !.sub = [@ EXCEPT ![i] = x]])
    BY <1>1, <1>2, RustSetSub
  <1> QED BY <1>3, <1>4, RustUp, RustUnsubFrame

\* The frame the server took is of its kind, and only the wire is shorter.
LEMMA RustTaken ==
    ASSUME RustIInv, NEW t, C!Asked(t)
    PROVE  /\ RustInv(C!Taken) /\ C!Taken \in RustStates /\ Head(s.up) \in RustFrames /\ Head(s.up).t = t
           /\ C!Taken.applied = s.applied /\ C!Taken.v = s.v
           /\ t \in {"sub", "unsub"} => Head(s.up).id \in C!Subs
           /\ t = "mut" => Head(s.up).id \in C!Muts /\ Head(s.up).id \in RustUnread(s)
  <1>1. s.up # <<>> /\ Head(s.up).t = t /\ RustInv(s) /\ s \in RustStates
    BY DEF C!Asked, RustIInv, RustInv
  <1>2. RustInv(C!Taken) /\ Head(s.up) \in RustFrames /\ (t = "mut" => Head(s.up).id \in RustUnread(s))
    BY <1>1, RustServed DEF C!Taken
  <1>3. C!Taken.applied = s.applied /\ C!Taken.v = s.v
    BY <1>1 DEF C!Taken, RustStates
  <1>4. t \in {"sub", "unsub"} => Head(s.up).id \in C!Subs
    BY <1>1, <1>2 DEF RustFrames
  <1>5. t = "mut" => Head(s.up).id \in C!Muts
    BY <1>1, <1>2 DEF RustFrames
  <1> QED BY <1>1, <1>2, <1>3, <1>4, <1>5 DEF RustInv

\* What the server notes about registrations is its own.
LEMMA RustNotes ==
    ASSUME NEW st, RustInv(st), NEW regs \in SUBSET C!Subs, NEW i \in C!Subs, NEW n \in Nat
    PROVE  RustInv([st EXCEPT !.regs = regs]) /\ RustInv([st EXCEPT !.sent = [@ EXCEPT ![i] = n]])
  <1>1. st \in RustStates
    BY DEF RustInv
  <1>2. [st EXCEPT !.regs = regs] \in RustStates /\ RustSame(st, [st EXCEPT !.regs = regs])
    BY <1>1 DEF RustStates, RustSame
  <1>3. [st EXCEPT !.sent = [@ EXCEPT ![i] = n]] \in RustStates /\ RustSame(st, [st EXCEPT !.sent = [@ EXCEPT ![i] = n]])
    BY <1>1 DEF RustStates, RustSame
  <1> QED BY <1>2, <1>3, RustQuiet

\* The server answers a subscription with a snapshot, a refetch or an error.
LEMMA RustServeSubs ==
    ASSUME RustIInv, C!ServeSubscribe \/ C!ServeUnsubscribe
    PROVE  RustInv(s')
  <1> DEFINE i == Head(s.up).id
  <1>1. RustInv(C!Taken) /\ C!Taken \in RustStates /\ i \in C!Subs /\ s.v \in Nat
    BY RustTaken DEF C!ServeSubscribe, C!ServeUnsubscribe, RustIInv, RustInv, RustStates
  <1>2. C!Taken.regs \cup {i} \in SUBSET C!Subs /\ C!Taken.regs \ {i} \in SUBSET C!Subs
    BY <1>1 DEF RustStates
  <1> DEFINE B == C!Bothered
  <1>3. RustInv(B) /\ B.regs = C!Taken.regs
    <2>1. RustInv(B)
      BY <1>1, RustCounts DEF C!Bothered
    <2> QED BY <1>1, <2>1 DEF C!Bothered, RustStates
  <1>4. CASE C!ServeUnsubscribe
    <2>1. s' = [C!Taken EXCEPT !.regs = C!Taken.regs \ {i}]
      BY <1>4 DEF C!ServeUnsubscribe
    <2> HIDE DEF i
    <2> QED BY <1>1, <1>2, <2>1, RustNotes
  <1>5. CASE s' = C!Down([C!Taken EXCEPT !.regs = C!Taken.regs \cup {i}, !.sent[i] = s.v], [t |-> "snapshot", id |-> i, v |-> s.v])
    <2> DEFINE a == [C!Taken EXCEPT !.regs = C!Taken.regs \cup {i}]
               b == [a EXCEPT !.sent = [@ EXCEPT ![i] = s.v]]
               f == [t |-> "snapshot", id |-> i, v |-> s.v]
    <2>1. f \in RustReplies /\ f.t # "result"
      BY <1>1 DEF RustReplies
    <2>2. s' = C!Down(b, f)
      BY <1>1, <1>5 DEF RustStates
    <2> HIDE DEF i, f
    <2>3. RustInv(a)
      BY <1>1, <1>2, RustNotes
    <2> HIDE DEF a
    <2>4. RustInv(b)
      BY <1>1, <2>3, RustNotes
    <2> HIDE DEF b
    <2> QED BY <2>1, <2>2, <2>4, RustDown
  <1>6. ASSUME NEW f \in RustReplies, f.t # "result", s' = C!Down([B EXCEPT !.regs = B.regs \ {i}], f)
        PROVE  RustInv(s')
    <2> DEFINE a == [B EXCEPT !.regs = B.regs \ {i}]
    <2> HIDE DEF i, B
    <2>1. RustInv(a)
      BY <1>1, <1>2, <1>3, RustNotes
    <2> HIDE DEF a
    <2> QED BY <1>6, <2>1, RustDown DEF a
  <1>7. CASE C!ServeSubscribe
    <2>1. CASE \E reason \in {"shardsChanged", "lagged"} :
                     s' = C!Down([B EXCEPT !.regs = B.regs \ {i}], [t |-> "refetch", id |-> i, reason |-> reason])
      <3>1. PICK reason \in {"shardsChanged", "lagged"} :
                     s' = C!Down([B EXCEPT !.regs = B.regs \ {i}], [t |-> "refetch", id |-> i, reason |-> reason])
        BY <2>1
      <3>2. [t |-> "refetch", id |-> i, reason |-> reason] \in RustReplies /\ [t |-> "refetch", id |-> i, reason |-> reason].t # "result"
        BY <1>1 DEF RustReplies
      <3> QED BY <1>6, <3>1, <3>2
    <2>2. CASE \E retry \in BOOLEAN : s' = C!Down([B EXCEPT !.regs = B.regs \ {i}], [t |-> "error", id |-> i, retry |-> retry])
      <3>1. PICK retry \in BOOLEAN : s' = C!Down([B EXCEPT !.regs = B.regs \ {i}], [t |-> "error", id |-> i, retry |-> retry])
        BY <2>2
      <3>2. [t |-> "error", id |-> i, retry |-> retry] \in RustReplies /\ [t |-> "error", id |-> i, retry |-> retry].t # "result"
        BY <1>1 DEF RustReplies
      <3> QED BY <1>6, <3>1, <3>2
    <2> QED BY <1>5, <1>7, <2>1, <2>2 DEF C!ServeSubscribe
  <1> QED BY <1>4, <1>7

\* The server applies a mutation that was in flight: the flight stays the same.
LEMMA RustApply ==
    ASSUME NEW st, RustInv(st), NEW m \in RustFlight(s), NEW late \in SUBSET C!Muts, late \subseteq st.late, m \in C!Muts,
           RustInv(s), st.mut = s.mut, st.call = s.call, st.cmds = s.cmds
    PROVE  RustInv([st EXCEPT !.late = late, !.applied = @ \cup {m}])
  <1> DEFINE a == [st EXCEPT !.late = late, !.applied = st.applied \cup {m}]
  <1>1. st \in RustStates /\ st.applied \cup {m} \in SUBSET C!Muts
    BY DEF RustInv, RustStates
  <1>2. a \in RustStates
    BY <1>1 DEF RustStates
  <1>3. /\ a.cmds = st.cmds /\ a.call = st.call /\ a.mut = st.mut /\ a.applied = st.applied \cup {m} /\ a.late = late
        /\ a.up = st.up /\ a.down = st.down /\ a.sub = st.sub /\ a.kept = st.kept /\ a.window = st.window /\ a.conn = st.conn
    BY <1>1 DEF RustStates
  <1> HIDE DEF a
  <1>4. RustFlight(a) \subseteq RustFlight(st) \cup {m}
    BY <1>3 DEF RustFlight, RustUnread
  <1>5. /\ s.mut[m] = "sent" \/ (s.mut[m] = "none" /\ s.call[m] \in {"ok", "refused", "unknown", "dropped"})
        /\ \A k \in 1..Len(s.cmds) : s.cmds[k].t = "mut" => s.cmds[k].id # m
    BY DEF RustInv, RustCalls
  <1>6. RustCalls(a)
    <2>1. \A n \in C!Muts : /\ n \in RustFlight(a) => \/ a.mut[n] = "sent"
                                                      \/ a.mut[n] = "none" /\ a.call[n] \in {"ok", "refused", "unknown", "dropped"}
                            /\ a.mut[n] # "none" => a.call[n] \in {"waiting", "dropped"}
                            /\ a.call[n] = "ok" => n \in a.applied
      BY <1>3, <1>4, <1>5 DEF RustInv, RustCalls
    <2>2. ASSUME NEW k \in 1..Len(st.cmds), st.cmds[k].t = "mut"
          PROVE  /\ st.cmds[k].id \notin RustFlight(a) /\ a.mut[st.cmds[k].id] = "none"
                 /\ a.call[st.cmds[k].id] \in {"waiting", "dropped"}
      BY <1>3, <1>4, <1>5, <2>2 DEF RustInv, RustCalls
    <2> QED BY <1>3, <2>1, <2>2 DEF RustInv, RustCalls
  <1>7. RustResults(a) /\ RustShown(a)
    BY <1>3 DEF RustInv, RustResults, RustShown
  <1> QED BY <1>2, <1>6, <1>7 DEF RustInv, a

\* The server applies a mutation and says so, or refuses one it never applied.
LEMMA RustServeMutate ==
    ASSUME RustIInv, C!ServeMutate
    PROVE  RustInv(s')
  <1> DEFINE m == Head(s.up).id
  <1>1. /\ RustInv(C!Taken) /\ C!Taken \in RustStates /\ m \in C!Muts /\ m \in RustUnread(s) /\ RustInv(s) /\ s \in RustStates
    BY RustTaken DEF C!ServeMutate, RustIInv, RustInv
  <1>2. C!Taken.mut = s.mut /\ C!Taken.call = s.call /\ C!Taken.cmds = s.cmds /\ C!Taken.late \in SUBSET C!Muts
    BY <1>1 DEF C!Taken, RustStates
  <1>3. CASE s' = C!Down([C!Taken EXCEPT !.applied = @ \cup {m}], [t |-> "result", id |-> m, ok |-> TRUE])
    <2> DEFINE a == [C!Taken EXCEPT !.late = C!Taken.late, !.applied = @ \cup {m}]
               f == [t |-> "result", id |-> m, ok |-> TRUE]
    <2>1. a = [C!Taken EXCEPT !.applied = @ \cup {m}] /\ a.applied = C!Taken.applied \cup {m}
      BY <1>1 DEF RustStates
    <2>2. f \in RustReplies /\ f.id = m
      BY <1>1 DEF RustReplies
    <2>3. s' = C!Down(a, f) /\ f.id \in a.applied
      BY <1>3, <2>1, <2>2
    <2>4. m \in RustFlight(s) /\ C!Taken.late \subseteq C!Taken.late
      BY <1>1 DEF RustFlight
    <2> HIDE DEF f, m
    <2>5. RustInv(a)
      BY <1>1, <1>2, <2>4, RustApply
    <2> HIDE DEF a
    <2> QED BY <2>2, <2>3, <2>5, RustDown
  <1>4. CASE s' = C!Down(C!Bothered, [t |-> "result", id |-> m, ok |-> FALSE])
    <2>1. RustInv(C!Bothered)
      BY <1>1, RustCounts DEF C!Bothered
    <2>2. [t |-> "result", id |-> m, ok |-> FALSE] \in RustReplies /\ ~[t |-> "result", id |-> m, ok |-> FALSE].ok
      BY <1>1 DEF RustReplies
    <2> HIDE DEF m
    <2> QED BY <1>4, <2>1, <2>2, RustDown
  <1> QED BY <1>3, <1>4 DEF C!ServeMutate

\* A late frame of a lost connection is applied, versions are committed and
\* snapshots are pushed.
LEMMA RustServer ==
    ASSUME RustIInv, C!ServeAuth \/ C!Commit \/ (\E m \in C!Muts : C!ServeLate(m)) \/ (\E i \in C!Subs : C!Push(i) \/ C!PushAgain(i))
    PROVE  RustInv(s')
  <1>1. s \in RustStates /\ RustInv(s) /\ s.v \in Nat /\ s.regs \in SUBSET C!Subs /\ \A i \in C!Subs : s.sent[i] \in Nat
    BY DEF RustIInv, RustInv, RustStates
  <1>2. CASE C!ServeAuth
    <2>1. RustInv(C!Taken) /\ s' = C!Down(C!Taken, [t |-> "auth", id |-> 0])
      BY <1>2, RustTaken DEF C!ServeAuth
    <2>2. [t |-> "auth", id |-> 0] \in RustReplies /\ [t |-> "auth", id |-> 0].t # "result"
      BY DEF RustReplies
    <2> QED BY <2>1, <2>2, RustDown
  <1>3. ASSUME NEW m \in C!Muts, C!ServeLate(m) PROVE RustInv(s')
    <2>1. m \in RustFlight(s) /\ s.late \ {m} \in SUBSET C!Muts /\ s.late \ {m} \subseteq s.late
      BY <1>1, <1>3 DEF C!ServeLate, RustFlight, RustStates
    <2>2. s' = [s EXCEPT !.late = s.late \ {m}, !.applied = @ \cup {m}]
      BY <1>3 DEF C!ServeLate
    <2> QED BY <1>1, <2>1, <2>2, RustApply
  <1>4. CASE C!Commit
    <2>1. s.v + 1 \in Nat /\ s' = [s EXCEPT !.v = s.v + 1]
      BY <1>1, <1>4 DEF C!Commit
    <2>2. s' \in RustStates /\ RustSame(s, s')
      BY <1>1, <2>1 DEF RustStates, RustSame
    <2> QED BY <1>1, <2>2, RustQuiet
  <1>5. ASSUME NEW i \in C!Subs, C!Push(i) PROVE RustInv(s')
    <2> DEFINE a == [s EXCEPT !.sent = [@ EXCEPT ![i] = s.v]]
    <2>1. RustInv(a)
      BY <1>1, RustNotes
    <2>2. s' = C!Down(a, [t |-> "snapshot", id |-> i, v |-> s.v])
      BY <1>5 DEF C!Push
    <2>3. [t |-> "snapshot", id |-> i, v |-> s.v] \in RustReplies /\ [t |-> "snapshot", id |-> i, v |-> s.v].t # "result"
      BY <1>1 DEF RustReplies
    <2> HIDE DEF a
    <2> QED BY <2>1, <2>2, <2>3, RustDown
  <1>6. ASSUME NEW i \in C!Subs, C!PushAgain(i) PROVE RustInv(s')
    <2> DEFINE a == [s EXCEPT !.trouble = @ + 1]
    <2>1. RustInv(a)
      BY <1>1, RustCounts
    <2>2. s' = C!Down(a, [t |-> "snapshot", id |-> i, v |-> s.sent[i]])
      BY <1>6 DEF C!PushAgain
    <2>3. [t |-> "snapshot", id |-> i, v |-> s.sent[i]] \in RustReplies /\ [t |-> "snapshot", id |-> i, v |-> s.sent[i]].t # "result"
      BY <1>1 DEF RustReplies
    <2> HIDE DEF a
    <2> QED BY <2>1, <2>2, <2>3, RustDown
  <1> QED BY <1>2, <1>3, <1>4, <1>5, <1>6

\* No step of the client or of its server breaks the invariant: one step of the
\* proof per action.
LEMMA RustStepKeepsInv ==
    ASSUME RustIInv, C!Step
    PROVE  RustInv(s')
  <1>1. ASSUME NEW m \in C!Muts, C!BeginMutation(m) \/ C!GiveUp(m) \/ C!ExpireMutation(m) \/ C!ServeLate(m) PROVE RustInv(s')
    <2>1. CASE C!BeginMutation(m)
      BY <2>1, RustBegin
    <2>2. CASE C!GiveUp(m)
      BY <2>2, RustGiveUp
    <2>3. CASE C!ExpireMutation(m)
      BY <2>3, RustSettle DEF C!ExpireMutation, RustIInv
    <2>4. CASE C!ServeLate(m)
      BY <2>4, RustServer
    <2> QED BY <1>1, <2>1, <2>2, <2>3, <2>4
  <1>2. ASSUME NEW i \in C!Subs, C!Subscribe(i) \/ C!DropHandle(i) \/ C!Receive(i) \/ C!SendDueRefetch(i) \/ C!PushAgain(i) PROVE RustInv(s')
    <2>1. CASE C!Subscribe(i) \/ C!DropHandle(i) \/ C!Receive(i)
      BY <2>1, RustCallers
    <2>2. CASE C!SendDueRefetch(i)
      BY <2>2, RustDue
    <2>3. CASE C!PushAgain(i)
      BY <2>3, RustServer
    <2> QED BY <1>2, <2>1, <2>2, <2>3
  <1>3. CASE C!RefreshAuth \/ C!Close
    BY <1>3, RustCallers
  <1>4. CASE C!Stop \/ C!Disconnect \/ C!Rejected \/ C!ExpireRefresh
    BY <1>4, RustEnds
  <1>5. CASE C!SendSessionState \/ C!SendCut
    BY <1>5, RustSendState, RustSendCut
  <1>6. CASE C!Process \/ C!ProcessMutateCut \/ C!AutoRefresh
    BY <1>6, RustProcess, RustMutate DEF C!Process
  <1>7. CASE C!HandleDown
    BY <1>7, RustSnapshot, RustRefetch, RustSubError, RustResult, RustAuthAnswer DEF C!HandleDown
  <1>8. CASE C!ExpireResume
    BY <1>8, RustWindowEnds
  <1>9. CASE C!Serve \/ C!Commit
    <2>1. CASE C!ServeSubscribe \/ C!ServeUnsubscribe
      BY <2>1, RustServeSubs
    <2>2. CASE C!ServeMutate
      BY <2>2, RustServeMutate
    <2>3. CASE C!ServeAuth \/ C!Commit \/ (\E i \in C!Subs : C!Push(i))
      BY <2>3, RustServer
    <2> QED BY <1>9, <2>1, <2>2, <2>3 DEF C!Serve
  <1> QED BY <1>1, <1>2, <1>3, <1>4, <1>5, <1>6, <1>7, <1>8, <1>9 DEF C!Step

\* The invariant says what the run checks of the native client.
LEMMA RustInvIsSafe ==
    ASSUME RustIInv
    PROVE  C!Safe
  <1>1. RustInv(s) /\ s \in RustStates /\ RustMixOK
    BY DEF RustIInv, RustInv
  <1>2. C!TypeOK
    <2>1. \A i \in C!Subs : s.chan[i] <= mix.cap
      <3>1. ASSUME NEW i \in C!Subs PROVE s.chan[i] \in 0..mix.cap /\ mix.cap \in Nat
        BY <1>1 DEF RustStates, RustMixOK
      <3> QED BY <3>1
    <2> QED BY <1>1, <2>1 DEF C!TypeOK, RustStates, RustInv, RustShown, RustMixOK
  <1>3. C!OutcomeHonest
    <2>1. C!InFlight \cup s.applied = RustFlight(s)
      BY DEF C!InFlight, RustFlight, RustUnread
    <2> QED BY <1>1, <2>1 DEF C!OutcomeHonest, RustInv, RustCalls
  <1>4. C!WindowBoundsRows
    BY <1>1 DEF C!WindowBoundsRows, RustInv, RustShown, C!Live
  <1> QED BY <1>2, <1>3, <1>4 DEF C!Safe
-----------------------------------------------------------------------------
(* The TypeScript client: its states and its inductive invariant.          *)

W == INSTANCE WebClient WITH Mixes <- WebClientMixes

WebFrames == [t : {"mut"}, id : W!Muts] \cup [t : {"sub", "unsub"}, id : W!Subs] \cup [t : {"hello", "auth"}, id : Nat]
WebReplies == [t : {"snapshot"}, id : W!Subs, v : Nat \ {0}] \cup [t : {"refetch"}, id : W!Subs, reason : {"shardsChanged", "lagged"}]
                \cup [t : {"error"}, id : W!Subs, retry : BOOLEAN] \cup [t : {"result"}, id : W!Muts, ok : BOOLEAN]
                \cup [t : {"welcome"}, v : Nat] \cup [t : {"auth"}, id : {0}] \cup [t : {"fail"}, id : Nat]
WebSubs == {W!NoSub} \cup [at : {"pending", "live", "refetching", "error"}, rows : Nat, cookie : Nat, timer : BOOLEAN, replayed : BOOLEAN]
WebRefreshes == [for : {"refresh"}, attempt : Nat, gen : Nat, claims : Nat]
WebReads == [for : {"connect"}, attempt : Nat] \cup WebRefreshes
WebTimers == {W!None} \cup [at : {"refresh"}, attempt : Nat, claims : Nat] \cup [at : {"retry"}, read : WebRefreshes]
WebStates ==
  [state : {"connecting", "open", "reconnecting", "closed"}, why : {"none", "close", "connect", "unextended", "expired", "rejected"},
   attempt : Nat \ {0}, ws : Nat, token : Nat, reads : SUBSET WebReads, reconnect : BOOLEAN, gen : Nat, timer : WebTimers,
   deadline : {W!None} \cup [at : {"set"}, gen : Nat, attempt : Nat, claims : Nat],
   pending : {W!None} \cup [at : {"sent"}, gen : Nat, claims : Nat],
   issued : Nat \ {0}, expired : Nat, refused : Nat, opened : BOOLEAN,
   sub : [W!Subs -> WebSubs], handle : [W!Subs -> {"idle", "open", "closed"}], mut : [W!Muts -> {"none", "queued", "sent"}],
   call : [W!Muts -> {"idle", "waiting", "ok", "refused", "unknown", "unsent", "aborted"}],
   last : Nat, kept : SUBSET W!Subs, window : BOOLEAN, resume : Nat, up : Seq(WebFrames), down : Seq(WebReplies),
   regs : SUBSET W!Subs, sent : [W!Subs -> Nat], v : Nat \ {0}, auth : Nat, applied : SUBSET W!Muts, late : SUBSET W!Muts,
   faults : Nat, trouble : Nat]

WebMixOK == mix \in WebClientMixes /\ mix.subs \in Nat /\ mix.muts \in Nat
WebFlight(st) == W!Unread(st) \cup st.late \cup st.applied

\* What a caller may be told of a mutation, wherever it is.
WebCalls(st) ==
  \A m \in W!Muts : /\ m \in WebFlight(st) => st.call[m] \notin {"idle", "unsent"}
                    /\ st.mut[m] # "none" => st.call[m] = "waiting"
                    /\ st.call[m] = "ok" => m \in st.applied
WebResults(st) ==
  \A k \in 1..Len(st.down) : /\ st.down[k].t = "result" /\ st.down[k].ok => st.down[k].id \in st.applied
                             /\ st.down[k].t = "fail" => st.down[k].id <= st.expired

\* Rows are vouched for by the cookie, and without a socket bounded by the window.
WebShown(st) ==
  /\ st.window <=> st.kept # {}
  /\ \A i \in W!Subs : st.sub[i].at # "none" =>
       /\ st.sub[i].cookie = st.sub[i].rows /\ (st.sub[i].rows # 0 => st.last # 0)
       /\ st.sub[i].at = "error" => st.sub[i].rows = 0
  /\ st.window \/ st.ws = 0 =>
       \A i \in W!Subs : st.sub[i].at # "none" /\ i \notin st.kept /\ st.sub[i].rows # 0 => st.sub[i].replayed

\* One socket at a time, and nothing of one that is gone.
WebSocket(st) ==
  /\ st.ws \in {0, st.attempt}
  /\ st.ws = 0 => /\ st.up = <<>> /\ st.down = <<>> /\ st.regs = {} /\ st.state # "open"
                  /\ st.timer = W!None /\ st.deadline = W!None /\ st.pending = W!None
  /\ st.reconnect \/ st.state = "closed" => st.ws = 0
  /\ st.state = "closed" => ~st.reconnect
  /\ st.state = "reconnecting" => st.reconnect
  /\ st.why # "none" => st.state = "closed"
  /\ \A r \in st.reads : /\ r.attempt <= st.attempt
                         /\ r.for = "connect" /\ r.attempt = st.attempt => st.ws = 0 /\ ~st.reconnect

\* A token is asked for once at a time, and each longer than the one before.
WebAsk(f) == f.t \in {"hello", "auth"}
WebAck(f) == f.t \in {"welcome", "auth"}
WebAsked(st) ==
  /\ \A j, k \in 1..Len(st.up) : WebAsk(st.up[j]) /\ WebAsk(st.up[k]) => j = k
  /\ \A j, k \in 1..Len(st.down) : WebAck(st.down[j]) /\ WebAck(st.down[k]) => j = k
  /\ \A j \in 1..Len(st.up), k \in 1..Len(st.down) : ~(WebAsk(st.up[j]) /\ WebAck(st.down[k]))
  /\ \A k \in 1..Len(st.up) :
       /\ st.up[k].t = "hello" => st.state = "connecting" /\ st.up[k].id = st.token /\ st.up[k].id > st.auth
       /\ st.up[k].t = "auth" => st.pending.at = "sent" /\ st.up[k].id = st.pending.claims /\ st.up[k].id > st.auth
  /\ \A k \in 1..Len(st.down) :
       /\ st.down[k].t = "welcome" => st.state = "connecting"
       /\ st.down[k].t = "auth" => st.pending.at = "sent"

\* A refresh is of the token in use; a callback of an earlier one recognises itself.
WebCurrent(st, r) == r.for = "refresh" /\ r.gen = st.gen /\ r.attempt = st.attempt
WebIdle(st) == st.state = "open" /\ st.pending.at = "none"
WebTokens(st) ==
  /\ st.pending.at = "sent" => st.state = "open" /\ st.auth <= st.pending.claims
  /\ st.pending.at = "none" /\ st.ws # 0 => st.auth <= st.token
  /\ \A r \in st.reads : /\ r.for = "refresh" => r.gen <= st.gen
                         /\ WebCurrent(st, r) => WebIdle(st) /\ r.claims = st.token /\ st.timer.at = "none"
  /\ st.timer.at = "refresh" => st.timer.claims = st.token /\ st.pending.at = "none"
  /\ st.timer.at = "retry" => WebIdle(st) /\ WebCurrent(st, st.timer.read) /\ st.timer.read.claims = st.token
  /\ st.deadline.at = "set" => st.deadline.claims = st.token
  /\ st.why = "rejected" => st.refused <= st.expired
  /\ st.why = "expired" => st.token <= st.expired

WebInv(st) == st \in WebStates /\ WebCalls(st) /\ WebResults(st) /\ WebShown(st) /\ WebSocket(st) /\ WebAsked(st) /\ WebTokens(st)
WebIInv == WebMixOK /\ WebInv(s)

\* What two states have in common: the calls, what is shown, the connection.
WebTold(st, st2) == st2.call = st.call /\ st2.mut = st.mut /\ st2.applied = st.applied /\ st2.late = st.late
WebView(st, st2) == st2.sub = st.sub /\ st2.last = st.last /\ st2.kept = st.kept /\ st2.window = st.window
WebLink(st, st2) ==
  /\ st2.ws = st.ws /\ st2.attempt = st.attempt /\ st2.state = st.state /\ st2.reconnect = st.reconnect /\ st2.why = st.why
  /\ st2.reads = st.reads /\ st2.timer = st.timer /\ st2.deadline = st.deadline /\ st2.pending = st.pending
  /\ st2.token = st.token /\ st2.auth = st.auth /\ st2.gen = st.gen /\ st2.refused = st.refused
WebBut(st, st2) ==
  WebTold(st, st2) /\ WebView(st, st2) /\ WebLink(st, st2) /\ st2.down = st.down /\ st2.expired = st.expired /\ st2.regs = st.regs
WebSame(st, st2) ==
  /\ WebTold(st, st2) /\ WebView(st, st2) /\ WebLink(st, st2)
  /\ st2.down = st.down /\ st2.up = st.up /\ st.expired <= st2.expired

\* The client's bounds do not change while it runs.
LEMMA WebSameBounds ==
    ASSUME UNCHANGED mix
    PROVE  WebMixOK' = WebMixOK /\ WebIInv' = (WebMixOK /\ WebInv(s'))
  <1>1. W!Subs' = W!Subs /\ W!Muts' = W!Muts /\ WebMixOK' = WebMixOK
    BY DEF W!Subs, W!Muts, WebMixOK
  <1>2. WebFrames' = WebFrames /\ WebReplies' = WebReplies /\ WebSubs' = WebSubs
    BY <1>1 DEF WebFrames, WebReplies, WebSubs, W!NoSub
  <1>3. WebReads' = WebReads /\ WebTimers' = WebTimers
    BY DEF WebReads, WebTimers, WebRefreshes, W!None
  <1>4. WebStates' = WebStates
    BY <1>1, <1>2, <1>3 DEF WebStates, W!None
  <1>5. WebCalls(s)' = WebCalls(s') /\ WebShown(s)' = WebShown(s') /\ WebResults(s)' = WebResults(s')
    BY <1>1 DEF WebCalls, WebResults, WebShown, WebFlight, W!Unread
  <1>6. WebSocket(s)' = WebSocket(s') /\ WebAsked(s)' = WebAsked(s') /\ WebTokens(s)' = WebTokens(s')
    BY DEF WebSocket, WebAsked, WebTokens, WebAsk, WebAck, WebCurrent, WebIdle, W!None
  <1> QED BY <1>1, <1>4, <1>5, <1>6 DEF WebIInv, WebInv

\* A client that was just constructed (client.ts) has asked for its first token
\* and shows nothing.
LEMMA WebInitInv ==
    ASSUME WebMixOK, W!Init
    PROVE  WebIInv
  <1>1. s \in WebStates
    <2>1. <<>> \in Seq(WebFrames) /\ <<>> \in Seq(WebReplies) /\ 1 \in Nat \ {0} /\ 0 \in Nat
      OBVIOUS
    <2>2. W!NoSub \in WebSubs /\ W!None \in WebTimers /\ [for |-> "connect", attempt |-> 1] \in WebReads
      BY DEF WebSubs, WebTimers, WebReads
    <2> QED BY <2>1, <2>2 DEF W!Init, WebStates
  <1>2. /\ s.up = <<>> /\ s.down = <<>> /\ s.late = {} /\ s.applied = {} /\ s.window = FALSE /\ s.kept = {} /\ s.regs = {}
        /\ s.mut = [m \in W!Muts |-> "none"] /\ s.call = [m \in W!Muts |-> "idle"] /\ s.sub = [i \in W!Subs |-> W!NoSub]
        /\ s.ws = 0 /\ s.attempt = 1 /\ s.state = "connecting" /\ s.timer = W!None /\ s.deadline = W!None /\ s.pending = W!None
        /\ s.reconnect = FALSE /\ s.why = "none" /\ s.reads = {[for |-> "connect", attempt |-> 1]}
    BY DEF W!Init
  <1>3. WebCalls(s) /\ WebResults(s) /\ WebShown(s)
    BY <1>2 DEF WebCalls, WebResults, WebShown, WebFlight, W!Unread, W!NoSub
  <1>4. WebSocket(s) /\ WebAsked(s) /\ WebTokens(s)
    BY <1>2 DEF WebSocket, WebAsked, WebTokens, WebCurrent, W!None
  <1> QED BY <1>1, <1>3, <1>4 DEF WebIInv, WebInv

\* A handler that leaves the calls, what is shown, the connection and the frames
\* alone keeps the invariant, time may pass.
LEMMA WebPlain ==
    ASSUME NEW st, NEW st2, WebInv(st), st2 \in WebStates, WebSame(st, st2), st2.regs = st.regs \/ st.ws # 0
    PROVE  WebInv(st2)
  <1>0. st \in WebStates /\ st.expired \in Nat /\ st2.expired \in Nat /\ st.token \in Nat /\ st.refused \in Nat /\ st.expired <= st2.expired
        /\ st.down \in Seq(WebReplies)
    BY DEF WebInv, WebStates, WebSame, WebLink
  <1>1. WebCalls(st2) /\ WebShown(st2)
    <2>1. WebFlight(st2) = WebFlight(st)
      BY DEF WebSame, WebTold, WebView, WebLink, WebFlight, W!Unread
    <2>2. WebCalls(st2)
      BY <2>1 DEF WebSame, WebTold, WebView, WebLink, WebInv, WebCalls
    <2>3. WebShown(st2)
      BY DEF WebSame, WebTold, WebView, WebLink, WebInv, WebShown
    <2> QED BY <2>2, <2>3
  <1>2. WebResults(st2)
    <2>1. ASSUME NEW k \in 1..Len(st.down), st.down[k].t = "fail" PROVE st.down[k].id \in Nat
      <3>1. st.down[k] \in WebReplies
        BY <1>0
      <3> QED BY <2>1, <3>1 DEF WebReplies
    <2> QED BY <1>0, <2>1 DEF WebSame, WebTold, WebView, WebLink, WebInv, WebResults
  <1>3. WebSocket(st2) /\ WebAsked(st2)
    BY DEF WebSame, WebTold, WebView, WebLink, WebInv, WebSocket, WebAsked
  <1>4. WebTokens(st2)
    BY <1>0 DEF WebSame, WebTold, WebView, WebLink, WebInv, WebTokens, WebCurrent, WebIdle
  <1> QED BY <1>1, <1>2, <1>3, <1>4 DEF WebInv

\* The elements of a concatenation are those of its two parts.
LEMMA WebConcat ==
    ASSUME NEW S, NEW a \in Seq(S), NEW b \in Seq(S)
    PROVE  /\ a \o b \in Seq(S)
           /\ \A k \in 1..Len(a \o b) : \/ k \in 1..Len(a) /\ (a \o b)[k] = a[k]
                                        \/ k - Len(a) \in 1..Len(b) /\ (a \o b)[k] = b[k - Len(a)]
  OBVIOUS

\* Frames that ask for no token are written: a mutation among them is of a call
\* that was taken on.
LEMMA WebSend ==
    ASSUME NEW st, WebInv(st), st.ws # 0, NEW frames \in Seq(WebFrames),
           \A k \in 1..Len(frames) : /\ frames[k].t \in {"mut", "sub", "unsub"}
                                     /\ frames[k].t = "mut" => st.call[frames[k].id] \notin {"idle", "unsent"}
    PROVE  WebInv(W!Send(st, frames))
  <1> DEFINE up == st.up \o frames
             st2 == [st EXCEPT !.up = up]
  <1>1. st \in WebStates /\ st.up \in Seq(WebFrames)
    BY DEF WebInv, WebStates
  <1>2. up \in Seq(WebFrames)
    BY <1>1, WebConcat
  <1>3. \A k \in 1..Len(up) : \/ k \in 1..Len(st.up) /\ up[k] = st.up[k]
                              \/ k - Len(st.up) \in 1..Len(frames) /\ up[k] = frames[k - Len(st.up)]
    BY <1>1, WebConcat
  <1>4. W!Send(st, frames) = st2
    BY DEF W!Send
  <1> HIDE DEF up
  <1>5. st2 \in WebStates
    BY <1>1, <1>2 DEF WebStates
  <1>6. st2.up = up /\ WebBut(st, st2)
    BY <1>1 DEF WebStates, WebBut, WebTold, WebView, WebLink
  <1> HIDE DEF st2
  <1>7. \A k \in 1..Len(up) : WebAsk(up[k]) => k \in 1..Len(st.up) /\ up[k] = st.up[k]
    BY <1>3 DEF WebAsk
  <1>8. WebCalls(st2)
    <2>1. ASSUME NEW k \in 1..Len(up), up[k].t = "mut"
          PROVE  up[k].id \in W!Unread(st) \/ st.call[up[k].id] \notin {"idle", "unsent"}
      BY <1>3, <2>1 DEF W!Unread
    <2>2. ASSUME NEW m \in WebFlight(st2) PROVE m \in WebFlight(st) \/ st.call[m] \notin {"idle", "unsent"}
      BY <1>6, <2>1, <2>2 DEF WebFlight, W!Unread, WebBut, WebTold, WebView, WebLink
    <2> QED BY <1>6, <2>2 DEF WebCalls, WebInv, WebBut, WebTold, WebView, WebLink
  <1>9. WebResults(st2) /\ WebShown(st2)
    BY <1>6 DEF WebInv, WebResults, WebShown, WebBut, WebTold, WebView, WebLink
  <1>10. WebSocket(st2)
    BY <1>6 DEF WebInv, WebSocket, WebBut, WebTold, WebView, WebLink
  <1>10a. WebTokens(st2)
    BY <1>6 DEF WebInv, WebTokens, WebCurrent, WebIdle, WebBut, WebTold, WebView, WebLink
  <1>11. WebAsked(st2)
    <2>1. \A k \in 1..Len(up) : up[k].t \in {"hello", "auth"} => k \in 1..Len(st.up) /\ up[k] = st.up[k]
      BY <1>7 DEF WebAsk
    <2>2. \A j, k \in 1..Len(up) : WebAsk(up[j]) /\ WebAsk(up[k]) => j = k
      BY <1>7 DEF WebInv, WebAsked
    <2>3. \A j \in 1..Len(up), k \in 1..Len(st.down) : ~(WebAsk(up[j]) /\ WebAck(st.down[k]))
      BY <1>7 DEF WebInv, WebAsked
    <2>4. \A k \in 1..Len(up) :
             /\ up[k].t = "hello" => st.state = "connecting" /\ up[k].id = st.token /\ up[k].id > st.auth
             /\ up[k].t = "auth" => st.pending.at = "sent" /\ up[k].id = st.pending.claims /\ up[k].id > st.auth
      BY <2>1 DEF WebInv, WebAsked
    <2>5. /\ \A j, k \in 1..Len(st.down) : WebAck(st.down[j]) /\ WebAck(st.down[k]) => j = k
          /\ \A k \in 1..Len(st.down) : /\ st.down[k].t = "welcome" => st.state = "connecting"
                                        /\ st.down[k].t = "auth" => st.pending.at = "sent"
      BY DEF WebInv, WebAsked
    <2> QED BY <1>6, <2>2, <2>3, <2>4, <2>5 DEF WebAsked, WebBut, WebTold, WebView, WebLink
  <1> QED BY <1>4, <1>5, <1>8, <1>9, <1>10, <1>10a, <1>11 DEF WebInv

\* Tokens and rows stay what they are while the connection does.
LEMMA WebKept ==
    ASSUME NEW st, NEW st2, WebInv(st), WebLink(st, st2), st2.expired \in Nat, st.expired <= st2.expired
    PROVE  WebTokens(st2) /\ (WebView(st, st2) => WebShown(st2))
  <1>1. st.expired \in Nat /\ st.refused \in Nat /\ st.token \in Nat
    BY DEF WebInv, WebStates
  <1>2. WebTokens(st2)
    BY <1>1 DEF WebInv, WebTokens, WebCurrent, WebIdle, WebLink
  <1>3. WebView(st, st2) => WebShown(st2)
    BY DEF WebInv, WebShown, WebView, WebLink
  <1> QED BY <1>2, <1>3

\* The server takes a frame off the wire: a mutation in it was unread.
LEMMA WebServed ==
    ASSUME NEW st, WebInv(st), st.up # <<>>
    PROVE  /\ WebInv([st EXCEPT !.up = Tail(@)]) /\ Head(st.up) \in WebFrames /\ st.ws # 0
           /\ Head(st.up).t = "mut" => Head(st.up).id \in W!Unread(st)
  <1> DEFINE up == Tail(st.up)
             st2 == [st EXCEPT !.up = up]
  <1>1. st \in WebStates /\ st.up \in Seq(WebFrames)
    BY DEF WebInv, WebStates
  <1>2. /\ up \in Seq(WebFrames) /\ Len(up) = Len(st.up) - 1 /\ Len(st.up) \in Nat \ {0}
        /\ \A k \in 1..Len(up) : up[k] = st.up[k + 1] /\ k + 1 \in 1..Len(st.up)
        /\ Head(st.up) = st.up[1] /\ Head(st.up) \in WebFrames
    BY <1>1
  <1>2a. /\ \A k \in 1..Len(up) : up[k] = st.up[k + 1] /\ k + 1 \in 1..Len(st.up)
         /\ \A j, k \in 1..Len(up) : j + 1 = k + 1 => j = k
    BY <1>2
  <1> HIDE DEF up
  <1>3. st2 \in WebStates /\ st2 = [st EXCEPT !.up = Tail(@)]
    BY <1>1, <1>2 DEF WebStates, up
  <1>4. WebBut(st, st2) /\ st2.up = up
    BY <1>1 DEF WebStates, WebBut, WebTold, WebView, WebLink
  <1> HIDE DEF st2
  <1>5. W!Unread(st2) \subseteq W!Unread(st)
    <2>1. ASSUME NEW k \in 1..Len(up), up[k].t = "mut" PROVE up[k].id \in W!Unread(st)
      BY <1>2a, <2>1 DEF W!Unread
    <2> QED BY <1>4, <2>1 DEF W!Unread
  <1>6. WebCalls(st2)
    BY <1>4, <1>5 DEF WebInv, WebCalls, WebFlight, WebBut, WebTold
  <1>7. WebTokens(st2) /\ WebShown(st2)
    <2>1. st.expired \in Nat
      BY <1>1 DEF WebStates
    <2> QED BY <1>4, <2>1, WebKept DEF WebBut
  <1>8. WebResults(st2)
    BY <1>4 DEF WebInv, WebResults, WebBut, WebTold
  <1>9. st.ws # 0
    BY DEF WebInv, WebSocket
  <1>10. WebSocket(st2)
    BY <1>4, <1>9 DEF WebInv, WebSocket, WebBut, WebLink
  <1>11. WebAsked(st2)
    <2>1. \A j, k \in 1..Len(up) : WebAsk(up[j]) /\ WebAsk(up[k]) => j = k
      BY <1>2a DEF WebInv, WebAsked
    <2>2. \A j \in 1..Len(up), k \in 1..Len(st.down) : ~(WebAsk(up[j]) /\ WebAck(st.down[k]))
      BY <1>2a DEF WebInv, WebAsked
    <2>3. \A k \in 1..Len(up) :
             /\ up[k].t = "hello" => st.state = "connecting" /\ up[k].id = st.token /\ up[k].id > st.auth
             /\ up[k].t = "auth" => st.pending.at = "sent" /\ up[k].id = st.pending.claims /\ up[k].id > st.auth
      BY <1>2a DEF WebInv, WebAsked
    <2>4. /\ \A j, k \in 1..Len(st.down) : WebAck(st.down[j]) /\ WebAck(st.down[k]) => j = k
          /\ \A k \in 1..Len(st.down) : /\ st.down[k].t = "welcome" => st.state = "connecting"
                                        /\ st.down[k].t = "auth" => st.pending.at = "sent"
      BY DEF WebInv, WebAsked
    <2> QED BY <1>4, <2>1, <2>2, <2>3, <2>4 DEF WebAsked, WebBut, WebLink
  <1>12. Head(st.up).t = "mut" => Head(st.up).id \in W!Unread(st)
    BY <1>2 DEF W!Unread
  <1> QED BY <1>2, <1>3, <1>6, <1>7, <1>8, <1>9, <1>10, <1>11, <1>12 DEF WebInv

\* The client takes a frame off the wire: a positive result is of an applied
\* mutation, a rejection of an expired token.
LEMMA WebRead ==
    ASSUME NEW st, WebInv(st), st.down # <<>>
    PROVE  /\ WebInv([st EXCEPT !.down = Tail(@)]) /\ Head(st.down) \in WebReplies
           /\ Head(st.down).t = "result" /\ Head(st.down).ok => Head(st.down).id \in st.applied
           /\ Head(st.down).t = "fail" => Head(st.down).id <= st.expired
           /\ Head(st.down).t = "auth" => st.pending.at = "sent"
           /\ WebAck(Head(st.down)) =>
                /\ \A k \in 1..Len(st.up) : ~WebAsk(st.up[k])
                /\ \A k \in 1..Len(Tail(st.down)) : ~WebAck(Tail(st.down)[k])
  <1> DEFINE down == Tail(st.down)
             st2 == [st EXCEPT !.down = down]
  <1>1. st \in WebStates /\ st.down \in Seq(WebReplies) /\ st.expired \in Nat
    BY DEF WebInv, WebStates
  <1>2. /\ down \in Seq(WebReplies) /\ Len(down) = Len(st.down) - 1 /\ Len(st.down) \in Nat \ {0}
        /\ \A k \in 1..Len(down) : down[k] = st.down[k + 1] /\ k + 1 \in 1..Len(st.down)
        /\ Head(st.down) = st.down[1] /\ Head(st.down) \in WebReplies /\ 1 \in 1..Len(st.down)
    BY <1>1
  <1>2a. /\ \A k \in 1..Len(down) : down[k] = st.down[k + 1] /\ k + 1 \in 1..Len(st.down) /\ k + 1 # 1
         /\ \A j, k \in 1..Len(down) : j + 1 = k + 1 => j = k
    BY <1>2
  <1> HIDE DEF down
  <1>3. st2 \in WebStates /\ st2 = [st EXCEPT !.down = Tail(@)]
    BY <1>1, <1>2 DEF WebStates, down
  <1>4. /\ WebTold(st, st2) /\ WebView(st, st2) /\ WebLink(st, st2) /\ st2.up = st.up /\ st2.regs = st.regs /\ st2.expired = st.expired
        /\ st2.down = down
    BY <1>1 DEF WebStates, WebTold, WebView, WebLink
  <1> HIDE DEF st2
  <1>5. WebCalls(st2)
    <2>1. WebFlight(st2) = WebFlight(st)
      BY <1>4 DEF WebFlight, W!Unread, WebTold
    <2> QED BY <1>4, <2>1 DEF WebInv, WebCalls, WebTold
  <1>6. WebTokens(st2) /\ WebShown(st2)
    BY <1>1, <1>4, WebKept
  <1>7. WebResults(st2)
    BY <1>2a, <1>4 DEF WebInv, WebResults, WebTold
  <1>8. st.ws # 0
    BY DEF WebInv, WebSocket
  <1>9. WebSocket(st2)
    BY <1>4, <1>8 DEF WebInv, WebSocket, WebLink
  <1>10. WebAsked(st2)
    <2>1. \A j, k \in 1..Len(down) : WebAck(down[j]) /\ WebAck(down[k]) => j = k
      BY <1>2a DEF WebInv, WebAsked
    <2>2. \A j \in 1..Len(st.up), k \in 1..Len(down) : ~(WebAsk(st.up[j]) /\ WebAck(down[k]))
      BY <1>2a DEF WebInv, WebAsked
    <2>3. \A k \in 1..Len(down) : /\ down[k].t = "welcome" => st.state = "connecting"
                                  /\ down[k].t = "auth" => st.pending.at = "sent"
      BY <1>2a DEF WebInv, WebAsked
    <2>4. /\ \A j, k \in 1..Len(st.up) : WebAsk(st.up[j]) /\ WebAsk(st.up[k]) => j = k
          /\ \A k \in 1..Len(st.up) :
               /\ st.up[k].t = "hello" => st.state = "connecting" /\ st.up[k].id = st.token /\ st.up[k].id > st.auth
               /\ st.up[k].t = "auth" => st.pending.at = "sent" /\ st.up[k].id = st.pending.claims /\ st.up[k].id > st.auth
      BY DEF WebInv, WebAsked
    <2> QED BY <1>4, <2>1, <2>2, <2>3, <2>4 DEF WebAsked, WebLink
  <1>11. /\ Head(st.down).t = "result" /\ Head(st.down).ok => Head(st.down).id \in st.applied
         /\ Head(st.down).t = "fail" => Head(st.down).id <= st.expired
         /\ Head(st.down).t = "auth" => st.pending.at = "sent"
    BY <1>2 DEF WebInv, WebResults, WebAsked
  <1>12. WebAck(Head(st.down)) => /\ \A k \in 1..Len(st.up) : ~WebAsk(st.up[k])
                                  /\ \A k \in 1..Len(down) : ~WebAck(down[k])
    BY <1>2, <1>2a DEF WebInv, WebAsked
  <1> QED BY <1>2, <1>3, <1>5, <1>6, <1>7, <1>9, <1>10, <1>11, <1>12 DEF WebInv, down

\* The server sends a frame that acknowledges no token.
LEMMA WebDown ==
    ASSUME NEW st, WebInv(st), st.ws # 0, NEW f \in WebReplies, ~WebAck(f), f.t = "result" /\ f.ok => f.id \in st.applied,
           f.t = "fail" => f.id <= st.expired
    PROVE  WebInv(W!Down(st, f))
  <1> DEFINE down == Append(st.down, f)
             st2 == [st EXCEPT !.down = down]
  <1>1. st \in WebStates /\ st.down \in Seq(WebReplies) /\ st.expired \in Nat
    BY DEF WebInv, WebStates
  <1>2. /\ down \in Seq(WebReplies)
        /\ \A k \in 1..Len(down) : (k \in 1..Len(st.down) /\ down[k] = st.down[k]) \/ down[k] = f
    BY <1>1
  <1> HIDE DEF down
  <1>3. st2 \in WebStates /\ st2 = W!Down(st, f)
    BY <1>1, <1>2 DEF WebStates, down, W!Down
  <1>4. /\ WebTold(st, st2) /\ WebView(st, st2) /\ WebLink(st, st2) /\ st2.up = st.up /\ st2.regs = st.regs /\ st2.expired = st.expired
        /\ st2.down = down
    BY <1>1 DEF WebStates, WebTold, WebView, WebLink
  <1> HIDE DEF st2
  <1>5. WebCalls(st2)
    <2>1. WebFlight(st2) = WebFlight(st)
      BY <1>4 DEF WebFlight, W!Unread, WebTold
    <2> QED BY <1>4, <2>1 DEF WebInv, WebCalls, WebTold
  <1>6. WebTokens(st2) /\ WebShown(st2)
    BY <1>1, <1>4, WebKept
  <1>7. WebResults(st2)
    BY <1>2, <1>4 DEF WebInv, WebResults, WebTold
  <1>8. WebSocket(st2)
    BY <1>4 DEF WebInv, WebSocket, WebLink
  <1>9. WebAsked(st2)
    <2>1. \A k \in 1..Len(down) : WebAck(down[k]) => k \in 1..Len(st.down) /\ down[k] = st.down[k]
      BY <1>2
    <2>2. \A j, k \in 1..Len(down) : WebAck(down[j]) /\ WebAck(down[k]) => j = k
      BY <2>1 DEF WebInv, WebAsked
    <2>3. \A j \in 1..Len(st.up), k \in 1..Len(down) : ~(WebAsk(st.up[j]) /\ WebAck(down[k]))
      BY <2>1 DEF WebInv, WebAsked
    <2>4. \A k \in 1..Len(down) : /\ down[k].t = "welcome" => st.state = "connecting"
                                  /\ down[k].t = "auth" => st.pending.at = "sent"
      BY <2>1 DEF WebInv, WebAsked, WebAck
    <2>5. /\ \A j, k \in 1..Len(st.up) : WebAsk(st.up[j]) /\ WebAsk(st.up[k]) => j = k
          /\ \A k \in 1..Len(st.up) :
               /\ st.up[k].t = "hello" => st.state = "connecting" /\ st.up[k].id = st.token /\ st.up[k].id > st.auth
               /\ st.up[k].t = "auth" => st.pending.at = "sent" /\ st.up[k].id = st.pending.claims /\ st.up[k].id > st.auth
      BY DEF WebInv, WebAsked
    <2> QED BY <1>4, <2>2, <2>3, <2>4, <2>5 DEF WebAsked, WebLink
  <1> QED BY <1>3, <1>5, <1>6, <1>7, <1>8, <1>9 DEF WebInv

\* Which part of the state each conjunct of the invariant depends on.
LEMMA WebFacets ==
    ASSUME NEW st, NEW st2, WebInv(st), st2 \in WebStates
    PROVE  /\ WebTold(st, st2) /\ st2.up = st.up => WebCalls(st2)
           /\ st2.down = st.down /\ st.applied \subseteq st2.applied /\ st.expired <= st2.expired => WebResults(st2)
           /\ WebView(st, st2) /\ st2.ws = st.ws => WebShown(st2)
           /\ WebLink(st, st2) /\ st2.up = st.up /\ st2.down = st.down /\ (st2.regs = st.regs \/ st.ws # 0) => WebSocket(st2)
           /\ WebLink(st, st2) /\ st2.up = st.up /\ st2.down = st.down => WebAsked(st2)
           /\ WebLink(st, st2) /\ st.expired <= st2.expired => WebTokens(st2)
  <1>0. st.expired \in Nat /\ st2.expired \in Nat /\ st.down \in Seq(WebReplies)
    BY DEF WebInv, WebStates
  <1>1. WebTold(st, st2) /\ st2.up = st.up => WebCalls(st2)
    <2>1. WebTold(st, st2) /\ st2.up = st.up => WebFlight(st2) = WebFlight(st)
      BY DEF WebFlight, W!Unread, WebTold
    <2> QED BY <2>1 DEF WebInv, WebCalls, WebTold
  <1>2. ASSUME st2.down = st.down, st.applied \subseteq st2.applied, st.expired <= st2.expired PROVE WebResults(st2)
    <2>1. ASSUME NEW k \in 1..Len(st.down), st.down[k].t = "fail" PROVE st.down[k].id \in Nat
      <3>1. st.down[k] \in WebReplies
        BY <1>0
      <3> QED BY <2>1, <3>1 DEF WebReplies
    <2> QED BY <1>0, <1>2, <2>1 DEF WebInv, WebResults
  <1>3. WebView(st, st2) /\ st2.ws = st.ws => WebShown(st2)
    BY DEF WebInv, WebShown, WebView
  <1>4. WebLink(st, st2) /\ st2.up = st.up /\ st2.down = st.down /\ (st2.regs = st.regs \/ st.ws # 0) => WebSocket(st2)
    BY DEF WebInv, WebSocket, WebLink
  <1>5. WebLink(st, st2) /\ st2.up = st.up /\ st2.down = st.down => WebAsked(st2)
    BY DEF WebInv, WebAsked, WebLink
  <1>6. WebLink(st, st2) /\ st.expired <= st2.expired => WebTokens(st2)
    BY <1>0, WebKept
  <1> QED BY <1>1, <1>2, <1>3, <1>4, <1>5, <1>6

\* What failSession leaves of a session.
WebFailed(st, st2, cause) ==
  /\ st2.state = "closed" /\ st2.why = cause /\ ~st2.reconnect /\ st2.gen = st.gen + 1
  /\ st2.timer = W!None /\ st2.deadline = W!None /\ st2.pending = W!None /\ st2.kept = {} /\ st2.window = FALSE
  /\ st2.sub = [i \in W!Subs |-> W!NoSub] /\ st2.mut = [m \in W!Muts |-> "none"] /\ st2.call = [m \in W!Muts |-> W!Aborted(st.call[m])]
  /\ st2.ws = 0 /\ st2.up = <<>> /\ st2.down = <<>> /\ st2.regs = {} /\ st2.late = st.late \cup W!Unread(st)
  /\ st2.applied = st.applied /\ st2.reads = st.reads /\ st2.attempt = st.attempt /\ st2.token = st.token /\ st2.expired = st.expired

\* A session that ended has no socket, no timer and no subscription; a call that
\* was in flight is aborted, and what was unread may still be applied.
LEMMA WebFails ==
    ASSUME NEW st, NEW st2, NEW cause, WebInv(st), st2 \in WebStates, WebFailed(st, st2, cause),
           cause = "rejected" => st2.refused <= st.expired, cause = "expired" => st.token <= st.expired
    PROVE  WebInv(st2)
  <1>1. st.gen \in Nat /\ st.reads \in SUBSET WebReads /\ st.call \in [W!Muts -> {"idle", "waiting", "ok", "refused", "unknown", "unsent", "aborted"}]
    BY DEF WebInv, WebStates
  <1>2. \A r \in st.reads : r.for = "refresh" => r.gen \in Nat
    BY <1>1 DEF WebReads, WebRefreshes
  <1>3. WebCalls(st2)
    <2>1. WebFlight(st2) = WebFlight(st)
      BY DEF WebFailed, WebFlight, W!Unread
    <2>2. \A m \in W!Muts : st2.call[m] = st.call[m] \/ (st.call[m] = "waiting" /\ st2.call[m] = "aborted")
      BY DEF WebFailed, W!Aborted
    <2>3. \A m \in W!Muts : st2.mut[m] = "none"
      BY DEF WebFailed
    <2>4. st2.applied = st.applied
      BY DEF WebFailed
    <2> QED BY <2>1, <2>2, <2>3, <2>4 DEF WebInv, WebCalls
  <1>4. WebResults(st2) /\ WebAsked(st2)
    BY DEF WebFailed, WebResults, WebAsked
  <1>5. WebShown(st2)
    BY DEF WebFailed, WebShown, W!NoSub
  <1>6. WebSocket(st2)
    BY DEF WebFailed, WebSocket, WebInv, W!None
  <1>7. WebTokens(st2)
    <2>0. st2.gen = st.gen + 1 /\ \A r \in st.reads : r.for = "refresh" => r.gen <= st.gen
      BY DEF WebFailed, WebInv, WebTokens
    <2>1. \A r \in st.reads : r.for = "refresh" => r.gen <= st2.gen /\ r.gen # st2.gen
      BY <1>1, <1>2, <2>0
    <2>2. /\ st2.reads = st.reads /\ st2.timer = W!None /\ st2.deadline = W!None /\ st2.pending = W!None /\ st2.ws = 0 /\ st2.token = st.token
          /\ st2.expired = st.expired /\ st2.why = cause
      BY DEF WebFailed
    <2> QED BY <2>1, <2>2 DEF WebTokens, WebCurrent, W!None
  <1> QED BY <1>3, <1>4, <1>5, <1>6, <1>7 DEF WebInv

\* failSession clears every field of the session that holds work.
LEMMA WebFailTyped ==
    ASSUME NEW st \in WebStates, NEW cause \in {"none", "close", "connect", "unextended", "expired", "rejected"}
    PROVE  W!FailSession(st, cause) \in WebStates /\ WebFailed(st, W!FailSession(st, cause), cause) /\ W!FailSession(st, cause).refused = st.refused
  <1> DEFINE late == st.late \cup W!Unread(st)
             call == [m \in W!Muts |-> W!Aborted(st.call[m])]
             sub == [i \in W!Subs |-> W!NoSub]
             mut == [m \in W!Muts |-> "none"]
             gen == st.gen + 1
             st1 == [st EXCEPT !.state = "closed", !.why = cause, !.reconnect = FALSE, !.gen = gen]
             st3 == [st1 EXCEPT !.timer = W!None, !.deadline = W!None, !.pending = W!None]
             st4 == [st3 EXCEPT !.kept = {}, !.window = FALSE, !.resume = 0]
             st5 == [st4 EXCEPT !.sub = sub, !.mut = mut, !.call = call]
             st6 == [st5 EXCEPT !.ws = 0, !.up = <<>>, !.down = <<>>]
             st2 == [st6 EXCEPT !.regs = {}, !.late = late]
  <1>1. W!FailSession(st, cause) = st2
    BY DEF W!FailSession
  <1>2. W!Unread(st) \in SUBSET W!Muts
    <2>0. st.up \in Seq(WebFrames)
      BY DEF WebStates
    <2>1. ASSUME NEW k \in 1..Len(st.up), st.up[k].t = "mut" PROVE st.up[k].id \in W!Muts
      <3>1. st.up[k] \in WebFrames
        BY <2>0
      <3> QED BY <2>1, <3>1 DEF WebFrames
    <2> QED BY <2>1 DEF W!Unread
  <1>3. late \in SUBSET W!Muts
    BY <1>2 DEF WebStates
  <1>4. call \in [W!Muts -> {"idle", "waiting", "ok", "refused", "unknown", "unsent", "aborted"}]
    BY DEF WebStates, W!Aborted
  <1>5. sub \in [W!Subs -> WebSubs] /\ mut \in [W!Muts -> {"none", "queued", "sent"}]
    BY DEF WebSubs
  <1>6a. st.gen \in Nat /\ W!None \in WebTimers
    BY DEF WebStates, WebTimers
  <1>6. gen \in Nat
    BY <1>6a
  <1>8. late = st.late \cup W!Unread(st) /\ call = [m \in W!Muts |-> W!Aborted(st.call[m])] /\ sub = [i \in W!Subs |-> W!NoSub]
        /\ mut = [m \in W!Muts |-> "none"] /\ gen = st.gen + 1
    OBVIOUS
  <1> HIDE DEF late, call, sub, mut, gen
  <1>7. <<>> \in Seq(WebFrames) /\ <<>> \in Seq(WebReplies) /\ 0 \in Nat
    OBVIOUS
  <1>9. st2 \in WebStates
    <2>1. st1 \in WebStates
      BY <1>6 DEF WebStates
    <2> HIDE DEF st1
    <2>2. st3 \in WebStates
      BY <2>1, <1>6a DEF WebStates
    <2> HIDE DEF st3
    <2>3. st4 \in WebStates
      BY <2>2, <1>7 DEF WebStates
    <2> HIDE DEF st4
    <2>4. st5 \in WebStates
      BY <2>3, <1>4, <1>5 DEF WebStates
    <2> HIDE DEF st5
    <2>5. st6 \in WebStates
      BY <2>4, <1>7 DEF WebStates
    <2> HIDE DEF st6
    <2> QED BY <2>5, <1>3 DEF WebStates
  <1>10. /\ st2.state = "closed" /\ st2.why = cause /\ ~st2.reconnect /\ st2.gen = gen
         /\ st2.timer = W!None /\ st2.deadline = W!None /\ st2.pending = W!None /\ st2.kept = {} /\ st2.window = FALSE
         /\ st2.sub = sub /\ st2.mut = mut /\ st2.call = call
         /\ st2.ws = 0 /\ st2.up = <<>> /\ st2.down = <<>> /\ st2.regs = {} /\ st2.late = late
         /\ st2.applied = st.applied /\ st2.reads = st.reads /\ st2.attempt = st.attempt /\ st2.token = st.token
         /\ st2.expired = st.expired /\ st2.refused = st.refused
    BY DEF WebStates
  <1> HIDE DEF st2
  <1>11. WebFailed(st, st2, cause)
    BY <1>8, <1>10 DEF WebFailed
  <1> QED BY <1>1, <1>9, <1>10, <1>11

\* A session ends for its cause, by close, by a failed first read or by its token.
LEMMA WebFail ==
    ASSUME NEW st, WebInv(st), NEW cause \in {"close", "connect", "unextended", "expired"}, cause = "expired" => st.token <= st.expired
    PROVE  WebInv(W!FailSession(st, cause))
  <1>1. st \in WebStates
    BY DEF WebInv
  <1> QED BY <1>1, WebFailTyped, WebFails

\* A subscription whose timer or replay mark changes has the form of one.
LEMMA WebSubForms ==
    ASSUME NEW x \in WebSubs, NEW b \in BOOLEAN, x.at # "none"
    PROVE  /\ x.at \in {"pending", "live", "refetching", "error"}
           /\ x.rows \in Nat /\ x.cookie \in Nat /\ x.timer \in BOOLEAN /\ x.replayed \in BOOLEAN
           /\ [x EXCEPT !.timer = b] \in WebSubs /\ [x EXCEPT !.replayed = b] \in WebSubs
           /\ [x EXCEPT !.timer = b].at = x.at /\ [x EXCEPT !.timer = b].rows = x.rows /\ [x EXCEPT !.timer = b].cookie = x.cookie
           /\ [x EXCEPT !.timer = b].replayed = x.replayed /\ [x EXCEPT !.timer = b].timer = b
           /\ [x EXCEPT !.replayed = b].at = x.at /\ [x EXCEPT !.replayed = b].rows = x.rows
           /\ [x EXCEPT !.replayed = b].cookie = x.cookie /\ [x EXCEPT !.replayed = b].replayed = b
  <1>1. x \in [at : {"pending", "live", "refetching", "error"}, rows : Nat, cookie : Nat, timer : BOOLEAN, replayed : BOOLEAN]
    BY DEF WebSubs, W!NoSub
  <1> QED BY <1>1 DEF WebSubs

\* What the server has not read yet are mutations of this client.
LEMMA WebUnreadMuts ==
    ASSUME NEW st \in WebStates
    PROVE  W!Unread(st) \in SUBSET W!Muts
  <1>0. st.up \in Seq(WebFrames)
    BY DEF WebStates
  <1>1. ASSUME NEW k \in 1..Len(st.up), st.up[k].t = "mut" PROVE st.up[k].id \in W!Muts
    <2>1. st.up[k] \in WebFrames
      BY <1>0
    <2> QED BY <1>1, <2>1 DEF WebFrames
  <1> QED BY <1>1 DEF W!Unread

\* What revokeSocket leaves of a connection.
WebRevoked(st, st2) ==
  /\ st2.attempt = st.attempt + 1 /\ st2.gen = st.gen + 1 /\ st2.timer = W!None /\ st2.deadline = W!None /\ st2.pending = W!None
  /\ st2.ws = 0 /\ st2.up = <<>> /\ st2.down = <<>> /\ st2.regs = {} /\ st2.late = st.late \cup W!Unread(st)
  /\ st2.call = st.call /\ st2.applied = st.applied /\ st2.why = st.why /\ st2.reads = st.reads
  /\ st2.expired = st.expired /\ st2.refused = st.refused /\ st2.token = st.token /\ st2.last = st.last

\* revokeSocket takes the socket, its timers and its pending refresh away; what was
\* unread may still be applied.
LEMMA WebRevoke ==
    ASSUME NEW st \in WebStates
    PROVE  /\ W!RevokeSocket(st) \in WebStates /\ WebRevoked(st, W!RevokeSocket(st))
           /\ W!RevokeSocket(st).sub = st.sub /\ W!RevokeSocket(st).kept = st.kept /\ W!RevokeSocket(st).window = st.window
           /\ W!RevokeSocket(st).mut = st.mut
  <1> DEFINE late == st.late \cup W!Unread(st)
             gen == st.gen + 1
             attempt == st.attempt + 1
             st1 == [st EXCEPT !.attempt = attempt, !.gen = gen]
             st3 == [st1 EXCEPT !.timer = W!None, !.deadline = W!None, !.pending = W!None]
             st2 == [st3 EXCEPT !.ws = 0, !.up = <<>>, !.down = <<>>, !.regs = {}, !.late = late]
  <1>1. W!RevokeSocket(st) = st2
    BY DEF W!RevokeSocket
  <1>2a. st.late \in SUBSET W!Muts /\ st.gen \in Nat /\ st.attempt \in Nat \ {0}
    BY DEF WebStates
  <1>2. late \in SUBSET W!Muts /\ gen \in Nat /\ attempt \in Nat \ {0}
    BY <1>2a, WebUnreadMuts
  <1>3. <<>> \in Seq(WebFrames) /\ <<>> \in Seq(WebReplies) /\ 0 \in Nat /\ W!None \in WebTimers
    BY DEF WebTimers
  <1>4. late = st.late \cup W!Unread(st) /\ gen = st.gen + 1 /\ attempt = st.attempt + 1
    OBVIOUS
  <1> HIDE DEF late, gen, attempt
  <1>5. st2 \in WebStates
    <2>1. st1 \in WebStates
      BY <1>2 DEF WebStates
    <2> HIDE DEF st1
    <2>2. st3 \in WebStates
      BY <2>1, <1>3 DEF WebStates
    <2> HIDE DEF st3
    <2> QED BY <2>2, <1>2, <1>3 DEF WebStates
  <1>6. /\ st2.attempt = attempt /\ st2.gen = gen /\ st2.timer = W!None /\ st2.deadline = W!None /\ st2.pending = W!None
        /\ st2.ws = 0 /\ st2.up = <<>> /\ st2.down = <<>> /\ st2.regs = {} /\ st2.late = late
        /\ st2.call = st.call /\ st2.applied = st.applied /\ st2.why = st.why /\ st2.reads = st.reads
        /\ st2.expired = st.expired /\ st2.refused = st.refused /\ st2.token = st.token /\ st2.last = st.last
        /\ st2.sub = st.sub /\ st2.kept = st.kept /\ st2.window = st.window /\ st2.mut = st.mut
    BY DEF WebStates
  <1> HIDE DEF st2
  <1> QED BY <1>1, <1>4, <1>5, <1>6 DEF WebRevoked

\* What onClose keeps of what is shown: the rows in the resume window.
WebWindow(st, st2) ==
  /\ \A i \in W!Subs : st2.sub[i].at = st.sub[i].at
  /\ \A i \in W!Subs : st.sub[i].at # "none" => st2.sub[i].rows = st.sub[i].rows /\ st2.sub[i].cookie = st.sub[i].cookie
  /\ st.last = 0 \/ st.window =>
       /\ st2.kept = st.kept /\ st2.window = st.window
       /\ \A i \in W!Subs : st.sub[i].at # "none" => st2.sub[i].replayed = st.sub[i].replayed
  /\ ~(st.last = 0 \/ st.window) => st2.kept = W!Retained(st) /\ st2.window = (W!Retained(st) # {})

\* onClose retains the rows that are shown for the resume window, and makes the
\* sent mutations queued ones again.
LEMMA WebCloses ==
    ASSUME NEW st \in WebStates
    PROVE  /\ W!OnClose(st) \in WebStates /\ WebWindow(st, W!OnClose(st))
           /\ W!OnClose(st).state = "reconnecting" /\ W!OnClose(st).reconnect = TRUE
           /\ W!OnClose(st).mut = W!Requeued(st)
           /\ \A st1 \in WebStates : WebRevoked(st1, st) => WebRevoked(st1, W!OnClose(st))
  <1> DEFINE sub1 == [i \in W!Subs |-> IF st.sub[i].at = "none" THEN W!NoSub ELSE [st.sub[i] EXCEPT !.timer = FALSE]]
             sub2 == [i \in W!Subs |-> IF sub1[i].at = "none" THEN W!NoSub ELSE [sub1[i] EXCEPT !.replayed = FALSE]]
             quiet == [st EXCEPT !.sub = sub1]
             held == W!Retained(quiet)
             resume == IF held = {} THEN 0 ELSE st.last
             opens == held # {}
             open1 == [quiet EXCEPT !.kept = held, !.window = opens]
             open == [open1 EXCEPT !.resume = resume, !.sub = sub2]
             end == IF st.last = 0 \/ st.window THEN quiet ELSE open
             mut == W!Requeued(st)
             st2 == [end EXCEPT !.mut = mut, !.state = "reconnecting", !.reconnect = TRUE]
  <1>0. st.sub \in [W!Subs -> WebSubs] /\ FALSE \in BOOLEAN /\ st.mut \in [W!Muts -> {"none", "queued", "sent"}] /\ st.last \in Nat
    BY DEF WebStates
  <1>1. sub1 \in [W!Subs -> WebSubs]
    <2>1. ASSUME NEW i \in W!Subs, st.sub[i].at # "none" PROVE [st.sub[i] EXCEPT !.timer = FALSE] \in WebSubs
      BY <1>0, <2>1, WebSubForms
    <2> QED BY <2>1 DEF WebSubs
  <1>2. \A i \in W!Subs : /\ sub1[i].at = st.sub[i].at
                          /\ st.sub[i].at # "none" => /\ sub1[i].rows = st.sub[i].rows /\ sub1[i].cookie = st.sub[i].cookie
                                                      /\ sub1[i].replayed = st.sub[i].replayed
    <2>1. ASSUME NEW i \in W!Subs, st.sub[i].at # "none"
          PROVE  /\ sub1[i].at = st.sub[i].at /\ sub1[i].rows = st.sub[i].rows /\ sub1[i].cookie = st.sub[i].cookie
                 /\ sub1[i].replayed = st.sub[i].replayed
      <3>1. sub1[i] = [st.sub[i] EXCEPT !.timer = FALSE] /\ st.sub[i] \in WebSubs
        BY <1>0, <2>1
      <3> HIDE DEF sub1
      <3> QED BY <1>0, <2>1, <3>1, WebSubForms
    <2>2. ASSUME NEW i \in W!Subs, st.sub[i].at = "none" PROVE sub1[i].at = "none"
      BY <2>2 DEF W!NoSub
    <2> HIDE DEF sub1
    <2> QED BY <2>1, <2>2
  <1>3. quiet \in WebStates /\ quiet.sub = sub1 /\ quiet.last = st.last /\ quiet.window = st.window
    BY <1>1 DEF WebStates
  <1>4. W!BeginResumeExpiry(quiet) = end
    <2>1. CASE st.last = 0 \/ st.window
      BY <1>3, <2>1 DEF W!BeginResumeExpiry
    <2>2. CASE ~(st.last = 0 \/ st.window)
      <3>1. W!BeginResumeExpiry(quiet) = [quiet EXCEPT !.kept = W!Retained(quiet), !.window = W!Retained(quiet) # {},
                  !.resume = IF W!Retained(quiet) = {} THEN 0 ELSE quiet.last,
                  !.sub = [i \in W!Subs |-> IF quiet.sub[i].at = "none" THEN W!NoSub ELSE [quiet.sub[i] EXCEPT !.replayed = FALSE]]]
        BY <1>3, <2>2 DEF W!BeginResumeExpiry
      <3>2. [i \in W!Subs |-> IF quiet.sub[i].at = "none" THEN W!NoSub ELSE [quiet.sub[i] EXCEPT !.replayed = FALSE]] = sub2
        BY <1>3
      <3>3. (IF W!Retained(quiet) = {} THEN 0 ELSE quiet.last) = resume
        BY <1>3
      <3> HIDE DEF quiet, sub1, sub2, resume
      <3> QED BY <2>2, <3>1, <3>2, <3>3
    <2> QED BY <2>1, <2>2
  <1>5. W!OnClose(st) = st2
    BY <1>4 DEF W!OnClose, W!ScheduleReconnect
  <1>6. held = W!Retained(st) /\ held \in SUBSET W!Subs
    <2>1. W!Live(quiet) = W!Live(st)
      BY <1>2, <1>3 DEF W!Live
    <2>2. \A i \in W!Live(st) : quiet.sub[i].rows = st.sub[i].rows /\ quiet.sub[i].cookie = st.sub[i].cookie
      BY <1>2, <1>3 DEF W!Live, W!Ends
    <2> HIDE DEF quiet, sub1, sub2
    <2>3. W!Retained(quiet) = W!Retained(st)
      BY <2>1, <2>2 DEF W!Retained
    <2>4. W!Retained(quiet) \in SUBSET W!Subs
      BY DEF W!Retained, W!Live
    <2> QED BY <2>3, <2>4
  <1>7. sub2 \in [W!Subs -> WebSubs]
    <2>1. ASSUME NEW i \in W!Subs, sub1[i].at # "none" PROVE [sub1[i] EXCEPT !.replayed = FALSE] \in WebSubs
      <3> HIDE DEF sub1
      <3> QED BY <1>0, <1>1, <2>1, WebSubForms
    <2> HIDE DEF sub1
    <2> QED BY <2>1 DEF WebSubs
  <1>8. \A i \in W!Subs : /\ sub2[i].at = st.sub[i].at
                          /\ st.sub[i].at # "none" => sub2[i].rows = st.sub[i].rows /\ sub2[i].cookie = st.sub[i].cookie
    <2> HIDE DEF sub1
    <2>1. ASSUME NEW i \in W!Subs, sub1[i].at # "none"
          PROVE  sub2[i].at = sub1[i].at /\ sub2[i].rows = sub1[i].rows /\ sub2[i].cookie = sub1[i].cookie
      <3>1. sub2[i] = [sub1[i] EXCEPT !.replayed = FALSE] /\ sub1[i] \in WebSubs
        BY <1>1, <2>1
      <3> HIDE DEF sub2
      <3> QED BY <1>0, <2>1, <3>1, WebSubForms
    <2>2. ASSUME NEW i \in W!Subs, sub1[i].at = "none" PROVE sub2[i].at = "none"
      BY <2>2 DEF W!NoSub
    <2> HIDE DEF sub2
    <2> QED BY <1>2, <2>1, <2>2
  <1>9. mut \in [W!Muts -> {"none", "queued", "sent"}]
    BY <1>0 DEF W!Requeued
  <1>10. resume \in Nat
    <2> HIDE DEF held
    <2> QED BY <1>0
  <1> HIDE DEF sub1, sub2, held, resume, mut
  <1>11. end \in WebStates
    <2> HIDE DEF quiet
    <2>1. open \in WebStates
      <3>1. opens \in BOOLEAN
        OBVIOUS
      <3> HIDE DEF opens
      <3>0. quiet \in WebStates /\ held \in SUBSET W!Subs
        BY <1>3, <1>6
      <3>2. open1 \in WebStates
        BY <3>0, <3>1 DEF WebStates
      <3> HIDE DEF open1
      <3> QED BY <1>7, <1>10, <3>2 DEF WebStates
    <2> QED BY <1>3, <2>1
  <1>12. /\ end.attempt = st.attempt /\ end.gen = st.gen /\ end.timer = st.timer /\ end.deadline = st.deadline /\ end.pending = st.pending
         /\ end.ws = st.ws /\ end.up = st.up /\ end.down = st.down /\ end.regs = st.regs /\ end.late = st.late
         /\ end.call = st.call /\ end.applied = st.applied /\ end.why = st.why /\ end.reads = st.reads
         /\ end.expired = st.expired /\ end.refused = st.refused /\ end.token = st.token /\ end.last = st.last
    BY DEF WebStates
  <1>13. /\ st.last = 0 \/ st.window => end.kept = st.kept /\ end.window = st.window /\ end.sub = sub1
         /\ ~(st.last = 0 \/ st.window) => end.kept = held /\ end.window = (held # {}) /\ end.sub = sub2
    BY DEF WebStates
  <1> HIDE DEF end, open
  <1>14. st2 \in WebStates
    BY <1>9, <1>11 DEF WebStates
  <1>15. /\ st2.attempt = end.attempt /\ st2.gen = end.gen /\ st2.timer = end.timer /\ st2.deadline = end.deadline /\ st2.pending = end.pending
         /\ st2.ws = end.ws /\ st2.up = end.up /\ st2.down = end.down /\ st2.regs = end.regs /\ st2.late = end.late
         /\ st2.call = end.call /\ st2.applied = end.applied /\ st2.why = end.why /\ st2.reads = end.reads
         /\ st2.expired = end.expired /\ st2.refused = end.refused /\ st2.token = end.token /\ st2.last = end.last
         /\ st2.sub = end.sub /\ st2.kept = end.kept /\ st2.window = end.window
         /\ st2.state = "reconnecting" /\ st2.reconnect = TRUE /\ st2.mut = mut
    BY <1>11 DEF WebStates
  <1> HIDE DEF st2
  <1>16. WebWindow(st, st2)
    <2>1. CASE st.last = 0 \/ st.window
      BY <1>2, <1>13, <1>15, <2>1 DEF WebWindow
    <2>2. CASE ~(st.last = 0 \/ st.window)
      BY <1>6, <1>8, <1>13, <1>15, <2>2 DEF WebWindow
    <2> QED BY <2>1, <2>2
  <1>17. \A st1 \in WebStates : WebRevoked(st1, st) => WebRevoked(st1, st2)
    BY <1>12, <1>15 DEF WebRevoked
  <1> QED BY <1>5, <1>14, <1>15, <1>16, <1>17 DEF mut

\* A lost socket: revoked, and a new connection scheduled.
LEMMA WebLost ==
    ASSUME NEW st, WebInv(st), st.ws # 0
    PROVE  WebInv(W!OnClose(W!RevokeSocket(st)))
  <1> DEFINE q == W!RevokeSocket(st)
             st2 == W!OnClose(q)
  <1>1. st \in WebStates /\ st.gen \in Nat /\ st.attempt \in Nat \ {0} /\ st.reads \in SUBSET WebReads
    BY DEF WebInv, WebStates
  <1>2. q \in WebStates /\ WebRevoked(st, q) /\ q.sub = st.sub /\ q.kept = st.kept /\ q.window = st.window /\ q.mut = st.mut
    BY <1>1, WebRevoke
  <1> HIDE DEF q
  <1>3. /\ st2 \in WebStates /\ WebWindow(q, st2) /\ st2.state = "reconnecting" /\ st2.reconnect = TRUE /\ st2.mut = W!Requeued(q)
        /\ WebRevoked(st, st2)
    BY <1>1, <1>2, WebCloses
  <1> HIDE DEF st2
  <1>4. \A r \in st.reads : r.attempt \in Nat /\ r.attempt <= st.attempt /\ (r.for = "refresh" => r.gen \in Nat /\ r.gen <= st.gen)
    <2>1. \A r \in st.reads : r.attempt \in Nat /\ (r.for = "refresh" => r.gen \in Nat)
      BY <1>1 DEF WebReads, WebRefreshes
    <2>2. \A r \in st.reads : r.attempt <= st.attempt
      BY DEF WebInv, WebSocket
    <2>3. \A r \in st.reads : r.for = "refresh" => r.gen <= st.gen
      BY DEF WebInv, WebTokens
    <2> QED BY <2>1, <2>2, <2>3
  <1>5. WebCalls(st2)
    <2>1. WebFlight(st2) = WebFlight(st)
      BY <1>3 DEF WebRevoked, WebFlight, W!Unread
    <2>2. \A m \in W!Muts : st2.mut[m] # "none" => st.mut[m] # "none"
      BY <1>2, <1>3 DEF W!Requeued
    <2>3. st2.call = st.call /\ st2.applied = st.applied
      BY <1>3 DEF WebRevoked
    <2> QED BY <2>1, <2>2, <2>3 DEF WebInv, WebCalls
  <1>6. WebResults(st2) /\ WebAsked(st2)
    BY <1>3 DEF WebRevoked, WebResults, WebAsked
  <1>7. WebShown(st2)
    <2>1. q.last = st.last /\ st2.last = st.last
      BY <1>2, <1>3 DEF WebRevoked
    <2>2. st2.window <=> st2.kept # {}
      BY <1>2, <1>3 DEF WebWindow, WebInv, WebShown
    <2>3. \A i \in W!Subs : st2.sub[i].at # "none" =>
             /\ st2.sub[i].cookie = st2.sub[i].rows /\ (st2.sub[i].rows # 0 => st2.last # 0)
             /\ st2.sub[i].at = "error" => st2.sub[i].rows = 0
      BY <1>2, <1>3, <2>1 DEF WebWindow, WebInv, WebShown
    <2>4. ASSUME NEW i \in W!Subs, st2.sub[i].at # "none", i \notin st2.kept, st2.sub[i].rows # 0 PROVE st2.sub[i].replayed
      <3>0. st.sub[i].at # "none" /\ st.sub[i].rows = st2.sub[i].rows /\ st.last # 0 /\ q.sub = st.sub
        BY <1>2, <1>3, <2>3, <2>4, <2>1 DEF WebWindow
      <3>1. CASE st.window
        BY <1>2, <1>3, <2>1, <2>4, <3>0, <3>1 DEF WebWindow, WebInv, WebShown
      <3>2. CASE ~st.window
        <4>1. i \notin W!Retained(q)
          BY <1>2, <1>3, <2>1, <2>4, <3>0, <3>2 DEF WebWindow
        <4>2. i \in W!Live(q)
          <5>1. st.sub[i] \in WebSubs /\ st.sub[i].at # "error"
            BY <1>1, <2>4, <3>0 DEF WebStates, WebInv, WebShown
          <5>2. st.sub[i].at \in {"pending", "live", "refetching", "error"}
            BY <3>0, <5>1, WebSubForms
          <5> QED BY <3>0, <5>1, <5>2 DEF W!Live, W!Ends
        <4> QED BY <2>4, <3>0, <4>1, <4>2 DEF W!Retained
      <3> QED BY <3>1, <3>2
    <2> QED BY <2>2, <2>3, <2>4 DEF WebShown
  <1>8. WebSocket(st2)
    <2>1. st.why = "none"
      BY DEF WebInv, WebSocket
    <2>2. \A r \in st.reads : r.attempt <= st2.attempt /\ r.attempt # st2.attempt
      <3>1. st2.attempt = st.attempt + 1
        BY <1>3 DEF WebRevoked
      <3> QED BY <1>1, <1>4, <3>1
    <2> QED BY <1>3, <2>1, <2>2 DEF WebRevoked, WebSocket
  <1>9. WebTokens(st2)
    <2>1. st2.why = "none"
      BY <1>3 DEF WebInv, WebSocket, WebRevoked
    <2>2. \A r \in st.reads : r.for = "refresh" => r.gen <= st2.gen /\ r.gen # st2.gen
      <3>1. st2.gen = st.gen + 1
        BY <1>3 DEF WebRevoked
      <3> QED BY <1>1, <1>4, <3>1
    <2>3. st2.timer = W!None /\ st2.deadline = W!None /\ st2.pending = W!None /\ st2.ws = 0 /\ st2.reads = st.reads
      BY <1>3 DEF WebRevoked
    <2> QED BY <2>1, <2>2, <2>3 DEF WebTokens, WebCurrent, W!None
  <1>10. WebInv(st2)
    BY <1>3, <1>5, <1>6, <1>7, <1>8, <1>9 DEF WebInv
  <1> QED BY <1>10 DEF st2, q

\* A step that moves only the connection says nothing to a caller or a query.
LEMMA WebMoves ==
    ASSUME NEW st, NEW st2, WebInv(st), st2 \in WebStates, WebTold(st, st2), WebView(st, st2), st2.expired = st.expired,
           st2.ws = st.ws \/ st2.ws # 0, st2.down = st.down, W!Unread(st2) \subseteq W!Unread(st)
    PROVE  WebCalls(st2) /\ WebResults(st2) /\ WebShown(st2)
  <1>1. WebFlight(st2) \subseteq WebFlight(st)
    BY DEF WebFlight, WebTold
  <1>2. WebCalls(st2)
    BY <1>1 DEF WebCalls, WebInv, WebTold
  <1>3. WebResults(st2)
    BY DEF WebResults, WebInv, WebTold
  <1>4. WebShown(st2)
    BY DEF WebShown, WebInv, WebView
  <1> QED BY <1>2, <1>3, <1>4

\* A JWT read is for a connection or for a refresh, of an attempt already made.
LEMMA WebReadsTyped ==
    ASSUME NEW st, WebInv(st), NEW r \in st.reads
    PROVE  /\ r.attempt \in Nat /\ r.attempt <= st.attempt /\ r \in WebReads
           /\ r.for = "connect" => r = [for |-> "connect", attempt |-> r.attempt]
           /\ r.for = "refresh" => r.gen \in Nat /\ r.gen <= st.gen /\ r.claims \in Nat /\ r \in WebRefreshes
           /\ r.for = "refresh" => r = [for |-> "refresh", attempt |-> r.attempt, gen |-> r.gen, claims |-> r.claims]
           /\ r.for \in {"connect", "refresh"}
  <1>1. r \in WebReads
    BY DEF WebInv, WebStates
  <1>2. r.for \in {"connect", "refresh"} /\ r.attempt \in Nat
    BY <1>1 DEF WebReads, WebRefreshes
  <1>3. ASSUME r.for = "connect" PROVE r = [for |-> "connect", attempt |-> r.attempt]
    BY <1>1, <1>3 DEF WebReads, WebRefreshes
  <1>4. ASSUME r.for = "refresh"
        PROVE  /\ r.gen \in Nat /\ r.claims \in Nat /\ r \in WebRefreshes
               /\ r = [for |-> "refresh", attempt |-> r.attempt, gen |-> r.gen, claims |-> r.claims]
    BY <1>1, <1>4 DEF WebReads, WebRefreshes
  <1>5. r.attempt <= st.attempt /\ (r.for = "refresh" => r.gen <= st.gen)
    BY DEF WebInv, WebSocket, WebTokens
  <1> QED BY <1>1, <1>2, <1>3, <1>4, <1>5

\* A JWT read that arrived is no longer awaited.
LEMMA WebReadDone ==
    ASSUME WebInv(s), NEW r
    PROVE  /\ WebInv(W!ReadDone(r)) /\ W!ReadDone(r).reads = s.reads \ {r}
           /\ WebTold(s, W!ReadDone(r)) /\ WebView(s, W!ReadDone(r)) /\ W!ReadDone(r).expired = s.expired
           /\ W!ReadDone(r).up = s.up /\ W!ReadDone(r).down = s.down /\ W!ReadDone(r).regs = s.regs
           /\ W!ReadDone(r).ws = s.ws /\ W!ReadDone(r).attempt = s.attempt /\ W!ReadDone(r).state = s.state
           /\ W!ReadDone(r).reconnect = s.reconnect /\ W!ReadDone(r).why = s.why /\ W!ReadDone(r).timer = s.timer
           /\ W!ReadDone(r).deadline = s.deadline /\ W!ReadDone(r).pending = s.pending /\ W!ReadDone(r).token = s.token
           /\ W!ReadDone(r).auth = s.auth /\ W!ReadDone(r).gen = s.gen /\ W!ReadDone(r).issued = s.issued
  <1> DEFINE reads == s.reads \ {r}
             st2 == [s EXCEPT !.reads = reads]
  <1>1. s \in WebStates /\ s.reads \in SUBSET WebReads
    BY DEF WebInv, WebStates
  <1>2. reads \in SUBSET WebReads /\ reads \subseteq s.reads
    BY <1>1
  <1>3. W!ReadDone(r) = st2 /\ reads = s.reads \ {r}
    BY DEF W!ReadDone
  <1> HIDE DEF reads
  <1>4. st2 \in WebStates
    BY <1>1, <1>2 DEF WebStates
  <1>5. /\ st2.reads = reads /\ WebTold(s, st2) /\ WebView(s, st2) /\ st2.expired = s.expired /\ st2.up = s.up /\ st2.down = s.down
        /\ st2.regs = s.regs /\ st2.ws = s.ws /\ st2.attempt = s.attempt /\ st2.state = s.state /\ st2.reconnect = s.reconnect
        /\ st2.why = s.why /\ st2.timer = s.timer /\ st2.deadline = s.deadline /\ st2.pending = s.pending /\ st2.token = s.token
        /\ st2.auth = s.auth /\ st2.gen = s.gen /\ st2.refused = s.refused /\ st2.issued = s.issued
    BY <1>1 DEF WebStates, WebTold, WebView
  <1> HIDE DEF st2
  <1>6. WebCalls(st2) /\ WebResults(st2) /\ WebShown(st2)
    <2>1. W!Unread(st2) \subseteq W!Unread(s)
      BY <1>5 DEF W!Unread
    <2> QED BY <1>4, <1>5, <2>1, WebMoves
  <1>7. WebSocket(st2)
    BY <1>2, <1>5 DEF WebSocket, WebInv
  <1>8. WebAsked(st2)
    BY <1>5 DEF WebAsked, WebInv
  <1>9. WebTokens(st2)
    BY <1>2, <1>5 DEF WebTokens, WebCurrent, WebIdle, WebInv
  <1> QED BY <1>3, <1>4, <1>5, <1>6, <1>7, <1>8, <1>9 DEF WebInv

\* The reconnect timer starts a new attempt: every earlier JWT read is late now.
LEMMA WebStartConnect ==
    ASSUME WebInv(s), W!StartConnect
    PROVE  WebInv(s')
  <1> DEFINE r == [for |-> "connect", attempt |-> s.attempt + 1]
             reads == s.reads \cup {r}
             attempt == s.attempt + 1
             st2 == [s EXCEPT !.reconnect = FALSE, !.attempt = attempt, !.state = "connecting", !.reads = reads]
  <1>1. s \in WebStates /\ s.reads \in SUBSET WebReads /\ s.attempt \in Nat \ {0}
    BY DEF WebInv, WebStates
  <1>2. reads \in SUBSET WebReads /\ attempt \in Nat \ {0} /\ attempt = s.attempt + 1 /\ reads = s.reads \cup {r}
    BY <1>1 DEF WebReads
  <1>3. s' = st2 /\ s.ws = 0 /\ s.state # "closed"
    BY DEF W!StartConnect, W!Terminated, WebInv, WebSocket
  <1>4. r.for = "connect" /\ r.attempt = attempt
    OBVIOUS
  <1> HIDE DEF r, attempt, reads
  <1>5. st2 \in WebStates
    <2>1. s \in WebStates /\ attempt \in Nat \ {0} /\ reads \in SUBSET WebReads
      BY <1>1, <1>2
    <2> QED BY <2>1 DEF WebStates
  <1>6. /\ st2.reads = reads /\ WebTold(s, st2) /\ WebView(s, st2) /\ st2.expired = s.expired /\ st2.up = s.up /\ st2.down = s.down
        /\ st2.regs = s.regs /\ st2.ws = s.ws /\ st2.attempt = attempt /\ st2.state = "connecting" /\ st2.reconnect = FALSE
        /\ st2.why = s.why /\ st2.timer = s.timer /\ st2.deadline = s.deadline /\ st2.pending = s.pending /\ st2.token = s.token
        /\ st2.auth = s.auth /\ st2.gen = s.gen /\ st2.refused = s.refused
    BY <1>1 DEF WebStates, WebTold, WebView
  <1> HIDE DEF st2
  <1>7. \A q \in s.reads : q.attempt <= attempt /\ q.attempt # attempt
    BY <1>1, <1>2, WebReadsTyped
  <1>8. WebCalls(st2) /\ WebResults(st2) /\ WebShown(st2)
    <2>1. W!Unread(st2) \subseteq W!Unread(s)
      BY <1>6 DEF W!Unread
    <2> QED BY <1>5, <1>6, <2>1, WebMoves
  <1>9. s.up = <<>> /\ s.down = <<>> /\ s.regs = {} /\ s.timer = W!None /\ s.deadline = W!None /\ s.pending = W!None /\ s.why = "none"
    BY <1>3 DEF WebInv, WebSocket
  <1>10. WebSocket(st2)
    <2>1. \A q \in st2.reads : q.attempt <= attempt
      BY <1>2, <1>4, <1>6, <1>7
    <2> QED BY <1>3, <1>6, <1>9, <2>1 DEF WebSocket
  <1>11. WebAsked(st2)
    BY <1>6, <1>9 DEF WebAsked
  <1>12. WebTokens(st2)
    <2>1. \A q \in st2.reads : (q.for = "refresh" => q.gen <= st2.gen) /\ ~WebCurrent(st2, q)
      <3>1. \A q \in st2.reads : q \in s.reads \/ q = r
        BY <1>2, <1>6
      <3>2. \A q \in s.reads : q.for = "refresh" => q.gen <= s.gen
        BY DEF WebInv, WebTokens
      <3> QED BY <1>4, <1>6, <1>7, <3>1, <3>2 DEF WebCurrent
    <2> QED BY <1>3, <1>6, <1>9, <2>1 DEF WebTokens, W!None
  <1> QED BY <1>3, <1>5, <1>8, <1>10, <1>11, <1>12 DEF WebInv

\* The JWT read of the present attempt finds the client without a socket and
\* without anything of an earlier one.
LEMMA WebConnecting ==
    ASSUME WebInv(s), NEW r \in s.reads, r.for = "connect", r.attempt = s.attempt, ~W!Terminated
    PROVE  /\ s.ws = 0 /\ ~s.reconnect /\ s.state = "connecting" /\ s.why = "none" /\ s.pending = W!None /\ s.timer = W!None /\ s.deadline = W!None
           /\ s.up = <<>> /\ s.down = <<>> /\ s.regs = {}
           /\ \A q \in s.reads \ {r} : ~(q.for = "connect" /\ q.attempt = s.attempt)
           /\ \A q \in s.reads : ~WebCurrent(s, q)
  <1>1. s.ws = 0 /\ ~s.reconnect
    BY DEF WebInv, WebSocket
  <1>2. s.state \in {"connecting", "open", "reconnecting", "closed"}
    BY DEF WebInv, WebStates
  <1>3. /\ s.state = "connecting" /\ s.why = "none" /\ s.pending = W!None /\ s.timer = W!None /\ s.deadline = W!None
        /\ s.up = <<>> /\ s.down = <<>> /\ s.regs = {}
    BY <1>1, <1>2 DEF WebInv, WebSocket, W!Terminated
  <1>4. \A q \in s.reads \ {r} : ~(q.for = "connect" /\ q.attempt = s.attempt)
    BY WebReadsTyped DEF WebInv
  <1>5. \A q \in s.reads : ~WebCurrent(s, q)
    BY <1>3 DEF WebInv, WebTokens, WebIdle
  <1> QED BY <1>1, <1>3, <1>4, <1>5

\* A JWT read opens the socket with the token it read, unless it is late.
LEMMA WebConnect ==
    ASSUME WebInv(s), NEW r, W!Connect(r)
    PROVE  WebInv(s')
  <1>1. CASE W!Terminated \/ r.attempt # s.attempt
    BY <1>1, WebReadDone DEF W!Connect
  <1>2. CASE ~(W!Terminated \/ r.attempt # s.attempt)
    <2> DEFINE q == W!ReadDone(r)
               f == [t |-> "hello", id |-> s.issued]
               up == <<f>>
               st2 == [q EXCEPT !.ws = s.attempt, !.token = s.issued, !.auth = 0, !.up = up]
    <2>1. r \in s.reads /\ r.for = "connect" /\ r.attempt = s.attempt /\ ~W!Terminated /\ s' = st2
      BY <1>2 DEF W!Connect, W!Connects
    <2>2. s \in WebStates /\ s.attempt \in Nat \ {0} /\ s.issued \in Nat \ {0} /\ s.reads \in SUBSET WebReads
      BY DEF WebInv, WebStates
    <2>3. /\ s.ws = 0 /\ ~s.reconnect /\ s.state = "connecting" /\ s.why = "none" /\ s.pending = W!None /\ s.timer = W!None /\ s.deadline = W!None
          /\ s.up = <<>> /\ s.down = <<>> /\ s.regs = {}
          /\ \A p \in s.reads \ {r} : ~(p.for = "connect" /\ p.attempt = s.attempt)
          /\ \A p \in s.reads : ~WebCurrent(s, p)
      BY <2>1, WebConnecting
    <2>4. f \in WebFrames
      BY <2>2 DEF WebFrames
    <2>4a. f.t = "hello" /\ f.id = s.issued
      OBVIOUS
    <2> HIDE DEF f
    <2>5. up \in Seq(WebFrames) /\ Len(up) = 1 /\ \A k \in 1..Len(up) : k = 1 /\ up[k] = f
      BY <2>4
    <2> HIDE DEF q, up
    <2>6. /\ WebInv(q) /\ q.reads = s.reads \ {r} /\ WebTold(s, q) /\ WebView(s, q) /\ q.expired = s.expired
          /\ q.up = s.up /\ q.down = s.down /\ q.regs = s.regs /\ q.ws = s.ws /\ q.attempt = s.attempt /\ q.state = s.state
          /\ q.reconnect = s.reconnect /\ q.why = s.why /\ q.timer = s.timer /\ q.deadline = s.deadline /\ q.pending = s.pending
          /\ q.token = s.token /\ q.auth = s.auth /\ q.gen = s.gen
      BY WebReadDone DEF q
    <2>7. q \in WebStates
      BY <2>6 DEF WebInv
    <2>8. st2 \in WebStates
      <3>1. s.attempt \in Nat /\ s.issued \in Nat /\ 0 \in Nat /\ up \in Seq(WebFrames)
        BY <2>2, <2>5
      <3> QED BY <2>7, <3>1 DEF WebStates
    <2>9. /\ WebTold(q, st2) /\ WebView(q, st2) /\ st2.expired = q.expired /\ st2.up = up /\ st2.down = q.down /\ st2.regs = q.regs
          /\ st2.ws = s.attempt /\ st2.attempt = q.attempt /\ st2.state = q.state /\ st2.reconnect = q.reconnect /\ st2.why = q.why
          /\ st2.timer = q.timer /\ st2.deadline = q.deadline /\ st2.pending = q.pending /\ st2.token = s.issued /\ st2.auth = 0
          /\ st2.gen = q.gen /\ st2.reads = q.reads
      BY <2>7 DEF WebStates, WebTold, WebView
    <2> HIDE DEF st2
    <2>10. WebCalls(st2) /\ WebResults(st2) /\ WebShown(st2)
      <3>1. W!Unread(st2) \subseteq W!Unread(q)
        BY <2>4a, <2>5, <2>9 DEF W!Unread
      <3>2. st2.ws # 0
        BY <2>2, <2>9
      <3> QED BY <2>6, <2>8, <2>9, <3>1, <3>2, WebMoves
    <2>11. WebSocket(st2)
      <3>1. \A p \in q.reads : p.attempt <= s.attempt
        BY <2>6 DEF WebInv, WebSocket
      <3> QED BY <2>2, <2>3, <2>6, <2>9, <3>1 DEF WebSocket
    <2>12. WebAsked(st2)
      <3>1. \A k \in 1..Len(st2.up) : k = 1 /\ st2.up[k] = f
        BY <2>5, <2>9
      <3> QED BY <2>2, <2>3, <2>4a, <2>6, <2>9, <3>1 DEF WebAsked
    <2>13. WebTokens(st2)
      <3>1. \A p \in st2.reads : (p.for = "refresh" => p.gen <= st2.gen) /\ ~WebCurrent(st2, p)
        <4>1. \A p \in s.reads : p.for = "refresh" => p.gen <= s.gen
          BY DEF WebInv, WebTokens
        <4> QED BY <2>3, <2>6, <2>9, <4>1 DEF WebCurrent
      <3> QED BY <2>2, <2>3, <2>6, <2>9, <3>1 DEF WebTokens, W!None
    <2> QED BY <2>1, <2>8, <2>10, <2>11, <2>12, <2>13 DEF WebInv
  <1> QED BY <1>1, <1>2

\* The counters of faults are of the model only.
LEMMA WebTrouble ==
    ASSUME NEW st, WebInv(st), NEW n \in Nat
    PROVE  WebInv([st EXCEPT !.trouble = n]) /\ WebInv([st EXCEPT !.faults = n])
  <1>1. st \in WebStates /\ st.expired \in Nat
    BY DEF WebInv, WebStates
  <1>2. WebInv([st EXCEPT !.trouble = n])
    <2> DEFINE st2 == [st EXCEPT !.trouble = n]
    <2>1. st2 \in WebStates
      BY <1>1 DEF WebStates
    <2>2. WebSame(st, st2) /\ st2.regs = st.regs
      BY <1>1 DEF WebStates, WebSame, WebTold, WebView, WebLink
    <2> QED BY <2>1, <2>2, WebPlain
  <1>3. WebInv([st EXCEPT !.faults = n])
    <2> DEFINE st2 == [st EXCEPT !.faults = n]
    <2>1. st2 \in WebStates
      BY <1>1 DEF WebStates
    <2>2. WebSame(st, st2) /\ st2.regs = st.regs
      BY <1>1 DEF WebStates, WebSame, WebTold, WebView, WebLink
    <2> QED BY <2>1, <2>2, WebPlain
  <1> QED BY <1>2, <1>3

\* A failed JWT read ends a session that was never open and delays another.
LEMMA WebConnectFails ==
    ASSUME WebInv(s), NEW r, W!ConnectJwtFails(r)
    PROVE  WebInv(s')
  <1> DEFINE q == W!ReadDone(r)
             next == IF s.opened THEN W!ScheduleReconnect(q) ELSE W!FailSession(q, "connect")
  <1>1. r \in s.reads /\ r.for = "connect" /\ r.attempt = s.attempt /\ ~W!Terminated /\ s' = [next EXCEPT !.trouble = @ + 1]
    BY DEF W!ConnectJwtFails, W!Connects
  <1>3. /\ s.ws = 0 /\ ~s.reconnect /\ s.state = "connecting" /\ s.why = "none" /\ s.pending = W!None /\ s.timer = W!None /\ s.deadline = W!None
        /\ s.up = <<>> /\ s.down = <<>> /\ s.regs = {}
        /\ \A p \in s.reads \ {r} : ~(p.for = "connect" /\ p.attempt = s.attempt)
        /\ \A p \in s.reads : ~WebCurrent(s, p)
    BY <1>1, WebConnecting
  <1> HIDE DEF q
  <1>6. /\ WebInv(q) /\ q.reads = s.reads \ {r} /\ WebTold(s, q) /\ WebView(s, q) /\ q.expired = s.expired
        /\ q.up = s.up /\ q.down = s.down /\ q.regs = s.regs /\ q.ws = s.ws /\ q.attempt = s.attempt /\ q.state = s.state
        /\ q.reconnect = s.reconnect /\ q.why = s.why /\ q.timer = s.timer /\ q.deadline = s.deadline /\ q.pending = s.pending
        /\ q.token = s.token /\ q.auth = s.auth /\ q.gen = s.gen
    BY WebReadDone DEF q
  <1>7. q \in WebStates
    BY <1>6 DEF WebInv
  <1>8. WebInv(W!FailSession(q, "connect"))
    BY <1>6, WebFail
  <1>9. WebInv(W!ScheduleReconnect(q))
    <2> DEFINE st2 == [q EXCEPT !.state = "reconnecting", !.reconnect = TRUE]
    <2>1. st2 \in WebStates
      BY <1>7 DEF WebStates
    <2>2. /\ WebTold(q, st2) /\ WebView(q, st2) /\ st2.expired = q.expired /\ st2.up = q.up /\ st2.down = q.down /\ st2.regs = q.regs
          /\ st2.ws = q.ws /\ st2.attempt = q.attempt /\ st2.state = "reconnecting" /\ st2.reconnect = TRUE /\ st2.why = q.why
          /\ st2.timer = q.timer /\ st2.deadline = q.deadline /\ st2.pending = q.pending /\ st2.token = q.token /\ st2.auth = q.auth
          /\ st2.gen = q.gen /\ st2.reads = q.reads
      BY <1>7 DEF WebStates, WebTold, WebView
    <2>3. W!ScheduleReconnect(q) = st2
      BY DEF W!ScheduleReconnect
    <2> HIDE DEF st2
    <2>4. WebCalls(st2) /\ WebResults(st2) /\ WebShown(st2)
      <3>1. W!Unread(st2) \subseteq W!Unread(q)
        BY <2>2 DEF W!Unread
      <3> QED BY <1>6, <2>1, <2>2, <3>1, WebMoves
    <2>5. WebSocket(st2)
      <3>1. \A p \in q.reads : p.attempt <= q.attempt
        BY <1>6 DEF WebInv, WebSocket
      <3> QED BY <1>3, <1>6, <2>2, <3>1 DEF WebSocket
    <2>6. WebAsked(st2)
      BY <1>3, <1>6, <2>2 DEF WebAsked
    <2>7. WebTokens(st2)
      <3>1. \A p \in st2.reads : (p.for = "refresh" => p.gen <= st2.gen) /\ ~WebCurrent(st2, p)
        <4>1. \A p \in s.reads : p.for = "refresh" => p.gen <= s.gen
          BY DEF WebInv, WebTokens
        <4> QED BY <1>3, <1>6, <2>2, <4>1 DEF WebCurrent
      <3> QED BY <1>3, <1>6, <2>2, <3>1 DEF WebTokens, W!None
    <2> QED BY <2>1, <2>3, <2>4, <2>5, <2>6, <2>7 DEF WebInv
  <1>10. WebInv(next)
    BY <1>8, <1>9
  <1>11. next.trouble + 1 \in Nat
    <2>1. next \in WebStates
      BY <1>10 DEF WebInv
    <2> HIDE DEF next
    <2>2. next.trouble \in Nat
      BY <2>1 DEF WebStates
    <2> QED BY <2>2
  <1> HIDE DEF next
  <1>12. WebInv([next EXCEPT !.trouble = next.trouble + 1])
    BY <1>10, <1>11, WebTrouble
  <1> QED BY <1>1, <1>12

\* A new timer has the form of one.
LEMMA WebTimerTyped ==
    ASSUME NEW st \in WebStates, NEW timer \in WebTimers
    PROVE  [st EXCEPT !.timer = timer] \in WebStates
  BY DEF WebStates

\* The refresh timer is for the token in use, and only one refresh is under way.
LEMMA WebSchedule ==
    ASSUME NEW st, WebInv(st), st.pending = W!None, st.ws # 0, \A q \in st.reads : ~WebCurrent(st, q)
    PROVE  WebInv(W!ScheduleAuthRefresh(st, st.token))
  <1>1. CASE st.deadline.at # "none"
    BY <1>1 DEF W!ScheduleAuthRefresh
  <1>2. CASE ~(st.deadline.at # "none")
    <2> DEFINE timer == [at |-> "refresh", attempt |-> st.attempt, claims |-> st.token]
               st2 == [st EXCEPT !.timer = timer]
    <2>1. st \in WebStates /\ st.attempt \in Nat /\ st.token \in Nat
      BY DEF WebInv, WebStates
    <2>2. timer \in WebTimers /\ timer.at = "refresh" /\ timer.claims = st.token
      BY <2>1 DEF WebTimers
    <2>3. W!ScheduleAuthRefresh(st, st.token) = st2
      BY <1>2 DEF W!ScheduleAuthRefresh
    <2> HIDE DEF timer
    <2>4. st2 \in WebStates
      <3>1. st \in WebStates /\ timer \in WebTimers
        BY <2>1, <2>2
      <3> QED BY <3>1, WebTimerTyped
    <2>5. /\ WebTold(st, st2) /\ WebView(st, st2) /\ st2.expired = st.expired /\ st2.up = st.up /\ st2.down = st.down /\ st2.regs = st.regs
          /\ st2.ws = st.ws /\ st2.attempt = st.attempt /\ st2.state = st.state /\ st2.reconnect = st.reconnect /\ st2.why = st.why
          /\ st2.timer = timer /\ st2.deadline = st.deadline /\ st2.pending = st.pending /\ st2.token = st.token /\ st2.auth = st.auth
          /\ st2.gen = st.gen /\ st2.reads = st.reads /\ st2.refused = st.refused
      BY <2>1 DEF WebStates, WebTold, WebView
    <2> HIDE DEF st2
    <2>6. WebCalls(st2) /\ WebResults(st2) /\ WebShown(st2)
      <3>1. W!Unread(st2) \subseteq W!Unread(st)
        BY <2>5 DEF W!Unread
      <3> QED BY <2>4, <2>5, <3>1, WebMoves
    <2>7. WebSocket(st2)
      BY <2>5 DEF WebSocket, WebInv
    <2>8. WebAsked(st2)
      BY <2>5 DEF WebAsked, WebInv
    <2>9. WebTokens(st2)
      <3>1. \A q \in st2.reads : (q.for = "refresh" => q.gen <= st2.gen) /\ ~WebCurrent(st2, q)
        BY <2>5 DEF WebCurrent, WebInv, WebTokens
      <3>2. /\ st.pending.at = "sent" => st.state = "open" /\ st.auth <= st.pending.claims
            /\ st.pending.at = "none" /\ st.ws # 0 => st.auth <= st.token
            /\ st.deadline.at = "set" => st.deadline.claims = st.token
            /\ st.why = "rejected" => st.refused <= st.expired
            /\ st.why = "expired" => st.token <= st.expired
        BY DEF WebInv, WebTokens
      <3> QED BY <2>2, <2>5, <3>1, <3>2 DEF WebTokens, W!None
    <2> QED BY <2>3, <2>4, <2>6, <2>7, <2>8, <2>9 DEF WebInv
  <1> QED BY <1>1, <1>2

\* The refresh timer starts a JWT read with a new generation: earlier reads and
\* retries recognise themselves as late.
LEMMA WebBegin ==
    ASSUME WebInv(s), W!BeginAuthRefresh
    PROVE  WebInv(s')
  <1> DEFINE gen == s.gen + 1
             d == [at |-> "set", gen |-> gen, attempt |-> s.attempt, claims |-> s.timer.claims]
             r == [for |-> "refresh", attempt |-> s.attempt, gen |-> gen, claims |-> s.timer.claims]
             reads == s.reads \cup {r}
             st2 == [s EXCEPT !.timer = W!None, !.gen = gen, !.deadline = d, !.reads = reads]
  <1>1. s \in WebStates /\ s.attempt \in Nat /\ s.token \in Nat /\ s.gen \in Nat /\ s.reads \in SUBSET WebReads /\ s.attempt # 0
    BY DEF WebInv, WebStates
  <1>2. s.timer.claims = s.token /\ s.pending.at = "none" /\ s.state = "open" /\ s' = st2 /\ s.ws # 0
    BY DEF W!BeginAuthRefresh, W!Open, WebInv, WebTokens, WebSocket
  <1>3. /\ gen \in Nat /\ d \in [at : {"set"}, gen : Nat, attempt : Nat, claims : Nat] /\ r \in WebReads /\ gen = s.gen + 1
        /\ d.at = "set" /\ d.claims = s.token
        /\ r.for = "refresh" /\ r.attempt = s.attempt /\ r.gen = gen /\ r.claims = s.token
    BY <1>1, <1>2 DEF WebReads, WebRefreshes
  <1> HIDE DEF gen, d, r
  <1>4. reads \in SUBSET WebReads /\ \A q \in reads : q \in s.reads \/ q = r
    BY <1>1, <1>3
  <1> HIDE DEF reads
  <1>5. st2 \in WebStates
    <2>1. W!None \in WebTimers
      BY DEF WebTimers
    <2>2. gen \in Nat /\ d \in [at : {"set"}, gen : Nat, attempt : Nat, claims : Nat] /\ reads \in SUBSET WebReads
      BY <1>3, <1>4
    <2> QED BY <1>1, <2>1, <2>2 DEF WebStates
  <1>6. /\ WebTold(s, st2) /\ WebView(s, st2) /\ st2.expired = s.expired /\ st2.up = s.up /\ st2.down = s.down /\ st2.regs = s.regs
        /\ st2.ws = s.ws /\ st2.attempt = s.attempt /\ st2.state = s.state /\ st2.reconnect = s.reconnect /\ st2.why = s.why
        /\ st2.timer = W!None /\ st2.deadline = d /\ st2.pending = s.pending /\ st2.token = s.token /\ st2.auth = s.auth
        /\ st2.gen = gen /\ st2.reads = reads /\ st2.refused = s.refused
    BY <1>1 DEF WebStates, WebTold, WebView
  <1> HIDE DEF st2
  <1>7. WebCalls(st2) /\ WebResults(st2) /\ WebShown(st2)
    <2>1. W!Unread(st2) \subseteq W!Unread(s)
      BY <1>6 DEF W!Unread
    <2> QED BY <1>5, <1>6, <2>1, WebMoves
  <1>8. WebSocket(st2)
    <2>1. \A q \in reads : /\ q.attempt <= s.attempt
                           /\ q.for = "connect" /\ q.attempt = s.attempt => s.ws = 0 /\ ~s.reconnect
      BY <1>1, <1>3, <1>4 DEF WebInv, WebSocket
    <2>2. /\ s.ws \in {0, s.attempt} /\ (s.reconnect \/ s.state = "closed" => s.ws = 0)
          /\ (s.state = "closed" => ~s.reconnect) /\ (s.state = "reconnecting" => s.reconnect) /\ (s.why # "none" => s.state = "closed")
      BY DEF WebInv, WebSocket
    <2> QED BY <1>2, <1>6, <2>1, <2>2 DEF WebSocket
  <1>9. WebAsked(st2)
    BY <1>6 DEF WebAsked, WebInv
  <1>10. WebTokens(st2)
    <2>1. \A q \in s.reads : q.for = "refresh" => q.gen <= gen /\ q.gen # gen
      BY <1>1, <1>3, WebReadsTyped
    <2>2. \A q \in st2.reads : /\ q.for = "refresh" => q.gen <= st2.gen
                               /\ WebCurrent(st2, q) => q.claims = st2.token
      BY <1>3, <1>4, <1>6, <2>1 DEF WebCurrent
    <2>3. WebIdle(st2) /\ st2.timer.at = "none"
      BY <1>2, <1>6 DEF WebIdle, W!None
    <2>4. /\ s.pending.at = "none" /\ s.ws # 0 => s.auth <= s.token
          /\ s.why = "rejected" => s.refused <= s.expired
          /\ s.why = "expired" => s.token <= s.expired
      BY DEF WebInv, WebTokens
    <2> QED BY <1>2, <1>3, <1>6, <2>2, <2>3, <2>4 DEF WebTokens
  <1> QED BY <1>2, <1>5, <1>7, <1>8, <1>9, <1>10 DEF WebInv

\* A JWT read of the present refresh finds the session open with the token it is
\* to replace, and no other read of it.
LEMMA WebRefreshing ==
    ASSUME WebInv(s), NEW r, W!Refreshes(r), W!Current(r)
    PROVE  /\ r \in s.reads /\ WebCurrent(s, r) /\ WebIdle(s) /\ r.claims = s.token /\ s.timer = W!None /\ s.pending = W!None /\ s.ws # 0
           /\ s.auth <= s.token /\ r \in WebRefreshes /\ r.gen = s.gen /\ s.why = "none" /\ r.attempt = s.attempt /\ r.for = "refresh"
           /\ \A q \in s.reads \ {r} : ~WebCurrent(s, q)
           /\ \A k \in 1..Len(s.up) : ~WebAsk(s.up[k])
           /\ \A k \in 1..Len(s.down) : ~WebAck(s.down[k])
  <1>1. r \in s.reads /\ WebCurrent(s, r) /\ r.gen = s.gen /\ r.attempt = s.attempt /\ r.for = "refresh"
    BY DEF W!Refreshes, W!Current, WebCurrent
  <1>2. WebIdle(s) /\ r.claims = s.token /\ s.timer.at = "none"
    BY <1>1 DEF WebInv, WebTokens
  <1>3. s.timer = W!None /\ s.pending = W!None
    <2>1. s.timer \in WebTimers /\ s.pending \in {W!None} \cup [at : {"sent"}, gen : Nat, claims : Nat]
      BY DEF WebInv, WebStates
    <2> QED BY <1>2, <2>1 DEF WebTimers, WebIdle, W!None
  <1>4. s.ws # 0 /\ s.why = "none" /\ s.state = "open" /\ s.pending.at = "none"
    BY <1>2 DEF WebIdle, WebInv, WebSocket
  <1>5. s.auth <= s.token
    BY <1>4 DEF WebInv, WebTokens
  <1>6. r \in WebRefreshes
    BY <1>1, WebReadsTyped
  <1>7. \A q \in s.reads \ {r} : ~WebCurrent(s, q)
    <2>1. ASSUME NEW q \in s.reads, WebCurrent(s, q) PROVE q = r
      <3>1. q.for = "refresh" /\ q.gen = r.gen /\ q.attempt = r.attempt /\ q.claims = r.claims
        BY <1>1, <1>2, <2>1 DEF WebCurrent, WebInv, WebTokens
      <3> QED BY <1>1, <3>1, WebReadsTyped
    <2> QED BY <2>1
  <1>8. \A k \in 1..Len(s.up) : ~WebAsk(s.up[k])
    BY <1>4 DEF WebInv, WebAsked, WebAsk
  <1>9. \A k \in 1..Len(s.down) : ~WebAck(s.down[k])
    BY <1>4 DEF WebInv, WebAsked, WebAck
  <1> QED BY <1>1, <1>2, <1>3, <1>4, <1>5, <1>6, <1>7, <1>8, <1>9

\* A JWT read asks the server for the longer token, or ends the session when the
\* provider has none.
LEMMA WebRefresh ==
    ASSUME WebInv(s), NEW r, W!RefreshAuth(r)
    PROVE  WebInv(s')
  <1> DEFINE q == W!ReadDone(r)
  <1>0. /\ WebInv(q) /\ q.reads = s.reads \ {r} /\ WebTold(s, q) /\ WebView(s, q) /\ q.expired = s.expired
        /\ q.up = s.up /\ q.down = s.down /\ q.regs = s.regs /\ q.ws = s.ws /\ q.attempt = s.attempt /\ q.state = s.state
        /\ q.reconnect = s.reconnect /\ q.why = s.why /\ q.timer = s.timer /\ q.deadline = s.deadline /\ q.pending = s.pending
        /\ q.token = s.token /\ q.auth = s.auth /\ q.gen = s.gen
    BY WebReadDone
  <1>1. CASE ~W!Current(r)
    BY <1>0, <1>1 DEF W!RefreshAuth
  <1>2. CASE W!Current(r) /\ (s.issued <= r.claims \/ s.issued <= s.expired)
    <2>1. s' = W!FailSession(q, "unextended")
      BY <1>2 DEF W!RefreshAuth
    <2> HIDE DEF q
    <2> QED BY <1>0, <2>1, WebFail
  <1>3. CASE W!Current(r) /\ ~(s.issued <= r.claims \/ s.issued <= s.expired)
    <2> DEFINE pending == [at |-> "sent", gen |-> r.gen, claims |-> s.issued]
               f == [t |-> "auth", id |-> s.issued]
               frames == <<f>>
               up == s.up \o frames
               st1 == [q EXCEPT !.pending = pending]
               st2 == [st1 EXCEPT !.up = up]
    <2>0. W!Refreshes(r)
      BY DEF W!RefreshAuth
    <2>1. /\ r \in s.reads /\ WebCurrent(s, r) /\ WebIdle(s) /\ r.claims = s.token /\ s.timer = W!None /\ s.pending = W!None /\ s.ws # 0
          /\ s.auth <= s.token /\ r \in WebRefreshes /\ r.gen = s.gen /\ s.why = "none" /\ r.attempt = s.attempt /\ r.for = "refresh"
          /\ \A p \in s.reads \ {r} : ~WebCurrent(s, p)
          /\ \A k \in 1..Len(s.up) : ~WebAsk(s.up[k])
          /\ \A k \in 1..Len(s.down) : ~WebAck(s.down[k])
      BY <1>3, <2>0, WebRefreshing
    <2>2. /\ s.issued \in Nat /\ s.token \in Nat /\ s.auth \in Nat /\ r.gen \in Nat /\ s.up \in Seq(WebFrames) /\ s.expired \in Nat
          /\ s.gen \in Nat
      BY <2>1 DEF WebInv, WebStates
    <2>3. /\ pending \in [at : {"sent"}, gen : Nat, claims : Nat] /\ pending.at = "sent" /\ pending.claims = s.issued
          /\ f \in WebFrames /\ f.t = "auth" /\ f.id = s.issued
      BY <2>2 DEF WebFrames
    <2>4. s.issued > s.token
      BY <1>3, <2>1, <2>2
    <2> HIDE DEF f, pending
    <2>5. /\ up \in Seq(WebFrames)
          /\ \A k \in 1..Len(up) : (k \in 1..Len(s.up) /\ up[k] = s.up[k]) \/ (k = Len(s.up) + 1 /\ up[k] = f)
      BY <2>2, <2>3
    <2>6. s' = st2
      <3>1. s' = W!Send([q EXCEPT !.pending = pending], <<f>>)
        BY <1>3 DEF W!RefreshAuth, f, pending
      <3> HIDE DEF q
      <3>2. q.up = s.up /\ q \in WebStates
        BY <1>0 DEF WebInv
      <3>3. st1.up = s.up
        BY <3>2 DEF WebStates
      <3> HIDE DEF st1
      <3>4. W!Send(st1, frames) = [st1 EXCEPT !.up = up]
        BY <3>3 DEF W!Send
      <3> QED BY <3>1, <3>4 DEF st1
    <2> HIDE DEF q, up, frames
    <2>7. q \in WebStates
      BY <1>0 DEF WebInv
    <2>8. st2 \in WebStates
      <3>1. st1 \in WebStates
        BY <2>3, <2>7 DEF WebStates
      <3> HIDE DEF st1
      <3> QED BY <2>5, <3>1 DEF WebStates
    <2>9. /\ WebTold(q, st2) /\ WebView(q, st2) /\ st2.expired = q.expired /\ st2.up = up /\ st2.down = q.down /\ st2.regs = q.regs
          /\ st2.ws = q.ws /\ st2.attempt = q.attempt /\ st2.state = q.state /\ st2.reconnect = q.reconnect /\ st2.why = q.why
          /\ st2.timer = q.timer /\ st2.deadline = q.deadline /\ st2.pending = pending /\ st2.token = q.token /\ st2.auth = q.auth
          /\ st2.gen = q.gen /\ st2.reads = q.reads /\ st2.refused = q.refused
      BY <2>7 DEF WebStates, WebTold, WebView
    <2> HIDE DEF st1, st2
    <2>10. WebCalls(st2) /\ WebResults(st2) /\ WebShown(st2)
      <3>1. ASSUME NEW k \in 1..Len(up), up[k].t = "mut" PROVE up[k].id \in W!Unread(q)
        <4>1. k \in 1..Len(s.up) /\ up[k] = s.up[k]
          BY <2>3, <2>5, <3>1
        <4> QED BY <1>0, <3>1, <4>1 DEF W!Unread
      <3>2. W!Unread(st2) \subseteq W!Unread(q)
        BY <2>9, <3>1 DEF W!Unread
      <3> QED BY <1>0, <2>8, <2>9, <3>2, WebMoves
    <2>11. WebSocket(st2)
      <3>1. q.ws # 0
        BY <1>0, <2>1
      <3> QED BY <1>0, <2>9, <3>1 DEF WebSocket, WebInv
    <2>12. WebAsked(st2)
      <3>1. \A k \in 1..Len(up) : up[k].t \in {"hello", "auth"} => k = Len(s.up) + 1 /\ up[k] = f
        BY <2>1, <2>5 DEF WebAsk
      <3>2. \A k \in 1..Len(s.down) : s.down[k].t \notin {"welcome", "auth"}
        BY <2>1 DEF WebAck
      <3>3. s.issued > s.auth
        BY <2>1, <2>2, <2>4
      <3>4. \A k \in 1..Len(up) : up[k].t = "auth" => up[k].id = s.issued
        BY <2>3, <3>1
      <3>5. \A k \in 1..Len(up) : up[k].t # "hello"
        BY <2>3, <3>1
      <3>6. \A j, k \in 1..Len(up) : WebAsk(up[j]) /\ WebAsk(up[k]) => j = k
        BY <3>1 DEF WebAsk
      <3> QED BY <1>0, <2>3, <2>9, <3>2, <3>3, <3>4, <3>5, <3>6 DEF WebAsked, WebAck
    <2>13. WebTokens(st2)
      <3>1. \A p \in st2.reads : (p.for = "refresh" => p.gen <= st2.gen) /\ ~WebCurrent(st2, p)
        <4>1. \A p \in s.reads : p.for = "refresh" => p.gen <= s.gen
          BY DEF WebInv, WebTokens
        <4> QED BY <1>0, <2>1, <2>9, <4>1 DEF WebCurrent
      <3>2. s.auth <= s.issued /\ s.state = "open"
        BY <2>1, <2>2, <2>4 DEF WebIdle
      <3>3. s.deadline.at = "set" => s.deadline.claims = s.token
        BY DEF WebInv, WebTokens
      <3> QED BY <1>0, <2>1, <2>3, <2>9, <3>1, <3>2, <3>3 DEF WebTokens, W!None
    <2> QED BY <2>6, <2>8, <2>10, <2>11, <2>12, <2>13 DEF WebInv
  <1> QED BY <1>1, <1>2, <1>3

\* The frame that was taken is of its kind, and only the wire is shorter.
LEMMA WebGot ==
    ASSUME WebInv(s), NEW t, W!Got(t)
    PROVE  /\ WebInv(W!Read) /\ W!Read.down = Tail(s.down) /\ W!Frame \in WebReplies /\ W!Frame.t = t
           /\ WebTold(s, W!Read) /\ WebView(s, W!Read) /\ WebLink(s, W!Read)
           /\ W!Read.up = s.up /\ W!Read.expired = s.expired /\ W!Read.regs = s.regs
           /\ s.ws # 0 /\ s.state # "closed" /\ s.why = "none" /\ s.expired \in Nat
           /\ W!Frame.t = "result" /\ W!Frame.ok => W!Frame.id \in s.applied
           /\ W!Frame.t = "fail" => W!Frame.id <= s.expired
           /\ W!Frame.t = "auth" => s.pending.at = "sent"
           /\ WebAck(W!Frame) => /\ \A k \in 1..Len(s.up) : ~WebAsk(s.up[k])
                                 /\ \A k \in 1..Len(W!Read.down) : ~WebAck(W!Read.down[k])
  <1>1. s.ws # 0 /\ s.down # <<>> /\ W!Frame.t = t /\ s.state # "closed" /\ s.why = "none"
    BY DEF W!Got, W!Terminated, WebInv, WebSocket
  <1>2. s \in WebStates /\ s.expired \in Nat
    BY DEF WebInv, WebStates
  <1>3. W!Read = [s EXCEPT !.down = Tail(s.down)] /\ W!Frame = Head(s.down)
    BY DEF W!Read, W!Frame
  <1>4. /\ WebInv([s EXCEPT !.down = Tail(@)]) /\ Head(s.down) \in WebReplies
        /\ Head(s.down).t = "result" /\ Head(s.down).ok => Head(s.down).id \in s.applied
        /\ Head(s.down).t = "fail" => Head(s.down).id <= s.expired
        /\ Head(s.down).t = "auth" => s.pending.at = "sent"
        /\ WebAck(Head(s.down)) => /\ \A k \in 1..Len(s.up) : ~WebAsk(s.up[k])
                                   /\ \A k \in 1..Len(Tail(s.down)) : ~WebAck(Tail(s.down)[k])
    BY <1>1, WebRead
  <1> DEFINE down == Tail(s.down)
  <1> HIDE DEF down
  <1>5. LET st2 == [s EXCEPT !.down = down] IN
           /\ st2.down = down /\ WebTold(s, st2) /\ WebView(s, st2) /\ WebLink(s, st2)
           /\ st2.up = s.up /\ st2.expired = s.expired /\ st2.regs = s.regs
    BY <1>2 DEF WebStates, WebTold, WebView, WebLink
  <1>6. /\ W!Read.down = Tail(s.down) /\ WebTold(s, W!Read) /\ WebView(s, W!Read) /\ WebLink(s, W!Read)
        /\ W!Read.up = s.up /\ W!Read.expired = s.expired /\ W!Read.regs = s.regs
    BY <1>3, <1>5 DEF down
  <1> QED BY <1>1, <1>2, <1>3, <1>4, <1>6

\* A failed JWT read of a refresh is retried while its token is valid.
LEMMA WebReadFails ==
    ASSUME WebInv(s), NEW r, W!RefreshReadFails(r)
    PROVE  WebInv(s')
  <1> DEFINE q == W!ReadDone(r)
             retry == [at |-> "retry", read |-> r]
             again == [q EXCEPT !.timer = retry]
             next == IF ~W!Current(r) THEN q ELSE IF r.claims <= s.expired THEN W!FailSession(q, "expired") ELSE again
  <1>0. /\ WebInv(q) /\ q.reads = s.reads \ {r} /\ WebTold(s, q) /\ WebView(s, q) /\ q.expired = s.expired
        /\ q.up = s.up /\ q.down = s.down /\ q.regs = s.regs /\ q.ws = s.ws /\ q.attempt = s.attempt /\ q.state = s.state
        /\ q.reconnect = s.reconnect /\ q.why = s.why /\ q.timer = s.timer /\ q.deadline = s.deadline /\ q.pending = s.pending
        /\ q.token = s.token /\ q.auth = s.auth /\ q.gen = s.gen
    BY WebReadDone
  <1>1. s' = [next EXCEPT !.trouble = @ + 1] /\ W!Refreshes(r)
    BY DEF W!RefreshReadFails
  <1> HIDE DEF q
  <1>2. ASSUME W!Current(r), r.claims <= s.expired PROVE WebInv(W!FailSession(q, "expired"))
    <2>1. r.claims = s.token
      BY <1>1, <1>2, WebRefreshing
    <2> QED BY <1>0, <1>2, <2>1, WebFail
  <1>3. ASSUME W!Current(r) PROVE WebInv(again)
    <2>1. /\ r \in s.reads /\ WebCurrent(s, r) /\ WebIdle(s) /\ r.claims = s.token /\ s.timer = W!None /\ s.pending = W!None /\ s.ws # 0
          /\ r \in WebRefreshes /\ \A p \in s.reads \ {r} : ~WebCurrent(s, p)
      BY <1>1, <1>3, WebRefreshing
    <2>2. retry \in WebTimers /\ retry.at = "retry" /\ retry.read = r
      BY <2>1 DEF WebTimers
    <2> HIDE DEF retry
    <2>3. q \in WebStates
      BY <1>0 DEF WebInv
    <2>4. again \in WebStates
      BY <2>2, <2>3, WebTimerTyped
    <2>5. /\ WebTold(q, again) /\ WebView(q, again) /\ again.expired = q.expired /\ again.up = q.up /\ again.down = q.down
          /\ again.regs = q.regs /\ again.ws = q.ws /\ again.attempt = q.attempt /\ again.state = q.state
          /\ again.reconnect = q.reconnect /\ again.why = q.why /\ again.timer = retry /\ again.deadline = q.deadline
          /\ again.pending = q.pending /\ again.token = q.token /\ again.auth = q.auth /\ again.gen = q.gen
          /\ again.reads = q.reads /\ again.refused = q.refused
      BY <2>3 DEF WebStates, WebTold, WebView
    <2> HIDE DEF again
    <2>6. WebCalls(again) /\ WebResults(again) /\ WebShown(again)
      <3>1. W!Unread(again) \subseteq W!Unread(q)
        BY <2>5 DEF W!Unread
      <3> QED BY <1>0, <2>4, <2>5, <3>1, WebMoves
    <2>7. WebSocket(again)
      <3>1. q.ws # 0
        BY <1>0, <2>1
      <3> QED BY <1>0, <2>5, <3>1 DEF WebSocket, WebInv
    <2>8. WebAsked(again)
      BY <1>0, <2>5 DEF WebAsked, WebInv
    <2>9. WebTokens(again)
      <3>1. \A p \in again.reads : (p.for = "refresh" => p.gen <= again.gen) /\ ~WebCurrent(again, p)
        <4>1. \A p \in s.reads : p.for = "refresh" => p.gen <= s.gen
          BY DEF WebInv, WebTokens
        <4> QED BY <1>0, <2>1, <2>5, <4>1 DEF WebCurrent
      <3>2. WebIdle(again) /\ WebCurrent(again, again.timer.read) /\ again.timer.read.claims = again.token /\ again.timer.at = "retry"
        BY <1>0, <2>1, <2>2, <2>5 DEF WebIdle, WebCurrent
      <3>3. /\ q.pending.at = "sent" => q.state = "open" /\ q.auth <= q.pending.claims
            /\ q.pending.at = "none" /\ q.ws # 0 => q.auth <= q.token
            /\ q.deadline.at = "set" => q.deadline.claims = q.token
            /\ q.why = "rejected" => q.refused <= q.expired
            /\ q.why = "expired" => q.token <= q.expired
        BY <1>0 DEF WebInv, WebTokens
      <3> QED BY <2>5, <3>1, <3>2, <3>3 DEF WebTokens
    <2> QED BY <2>4, <2>6, <2>7, <2>8, <2>9 DEF WebInv
  <1>4. WebInv(next)
    BY <1>0, <1>2, <1>3
  <1>5. next.trouble + 1 \in Nat
    <2>1. next \in WebStates
      BY <1>4 DEF WebInv
    <2> HIDE DEF next
    <2>2. next.trouble \in Nat
      BY <2>1 DEF WebStates
    <2> QED BY <2>2
  <1> HIDE DEF next
  <1>6. WebInv([next EXCEPT !.trouble = next.trouble + 1])
    BY <1>4, <1>5, WebTrouble
  <1> QED BY <1>1, <1>6

\* The retry timer repeats the read of the refresh it belongs to.
LEMMA WebRetries ==
    ASSUME WebInv(s), W!RetryRead
    PROVE  WebInv(s')
  <1> DEFINE r == s.timer.read
             reads == s.reads \cup {r}
             st2 == [s EXCEPT !.timer = W!None, !.reads = reads]
  <1>1. s \in WebStates /\ s.reads \in SUBSET WebReads /\ s.timer \in WebTimers /\ W!None \in WebTimers
    BY DEF WebInv, WebStates, WebTimers
  <1>2. s.timer.at = "retry" /\ s' = st2
    BY DEF W!RetryRead
  <1>3. WebIdle(s) /\ WebCurrent(s, r) /\ r.claims = s.token
    BY <1>2 DEF WebInv, WebTokens
  <1>4. r \in WebRefreshes
    BY <1>1, <1>2 DEF WebTimers, W!None
  <1>5. r \in WebReads /\ r.gen = s.gen /\ r.attempt = s.attempt /\ r.for = "refresh"
    BY <1>3, <1>4 DEF WebReads, WebCurrent
  <1> HIDE DEF r
  <1>6. reads \in SUBSET WebReads /\ \A p \in reads : p \in s.reads \/ p = r
    BY <1>1, <1>5
  <1> HIDE DEF reads
  <1>7. st2 \in WebStates
    BY <1>1, <1>6 DEF WebStates
  <1>8. /\ WebTold(s, st2) /\ WebView(s, st2) /\ st2.expired = s.expired /\ st2.up = s.up /\ st2.down = s.down /\ st2.regs = s.regs
        /\ st2.ws = s.ws /\ st2.attempt = s.attempt /\ st2.state = s.state /\ st2.reconnect = s.reconnect /\ st2.why = s.why
        /\ st2.timer = W!None /\ st2.deadline = s.deadline /\ st2.pending = s.pending /\ st2.token = s.token /\ st2.auth = s.auth
        /\ st2.gen = s.gen /\ st2.reads = reads /\ st2.refused = s.refused
    BY <1>1 DEF WebStates, WebTold, WebView
  <1> HIDE DEF st2
  <1>9. WebCalls(st2) /\ WebResults(st2) /\ WebShown(st2)
    <2>1. W!Unread(st2) \subseteq W!Unread(s)
      BY <1>8 DEF W!Unread
    <2> QED BY <1>7, <1>8, <2>1, WebMoves
  <1>10. WebSocket(st2)
    <2>1. s.attempt \in Nat
      BY <1>1 DEF WebStates
    <2>2. \A p \in reads : /\ p.attempt <= s.attempt
                           /\ p.for = "connect" /\ p.attempt = s.attempt => s.ws = 0 /\ ~s.reconnect
      BY <1>5, <1>6, <2>1 DEF WebInv, WebSocket
    <2>3. /\ s.ws \in {0, s.attempt} /\ (s.reconnect \/ s.state = "closed" => s.ws = 0)
          /\ (s.state = "closed" => ~s.reconnect) /\ (s.state = "reconnecting" => s.reconnect) /\ (s.why # "none" => s.state = "closed")
          /\ s.ws # 0
      BY <1>3 DEF WebInv, WebSocket, WebIdle
    <2> QED BY <1>8, <2>2, <2>3 DEF WebSocket
  <1>11. WebAsked(st2)
    BY <1>8 DEF WebAsked, WebInv
  <1>12. WebTokens(st2)
    <2>1. s.gen \in Nat
      BY <1>1 DEF WebStates
    <2>2. \A p \in st2.reads : /\ p.for = "refresh" => p.gen <= st2.gen
                               /\ WebCurrent(st2, p) => p.claims = st2.token
      <3>1. \A p \in s.reads : /\ p.for = "refresh" => p.gen <= s.gen
                               /\ WebCurrent(s, p) => p.claims = s.token
        BY DEF WebInv, WebTokens
      <3> QED BY <1>3, <1>5, <1>6, <1>8, <2>1, <3>1 DEF WebCurrent
    <2>3. WebIdle(st2) /\ st2.timer.at = "none"
      BY <1>3, <1>8 DEF WebIdle, W!None
    <2>4. /\ s.pending.at = "none" /\ s.ws # 0 => s.auth <= s.token
          /\ s.deadline.at = "set" => s.deadline.claims = s.token
          /\ s.why = "rejected" => s.refused <= s.expired
          /\ s.why = "expired" => s.token <= s.expired
      BY DEF WebInv, WebTokens
    <2> QED BY <1>8, <2>2, <2>3, <2>4 DEF WebTokens, WebIdle
  <1> QED BY <1>2, <1>7, <1>9, <1>10, <1>11, <1>12 DEF WebInv

\* An acknowledged refresh makes the new token the one in use, and schedules the
\* next refresh for it.
LEMMA WebAuthChanged ==
    ASSUME WebInv(s), W!AuthChanged
    PROVE  WebInv(s')
  <1> DEFINE q == W!Read
  <1>1. /\ WebInv(q) /\ WebTold(s, q) /\ WebView(s, q) /\ WebLink(s, q) /\ q.up = s.up /\ q.expired = s.expired /\ q.regs = s.regs
        /\ s.ws # 0 /\ s.why = "none" /\ s.pending.at = "sent" /\ W!Frame.t = "auth"
        /\ WebAck(W!Frame) => /\ \A k \in 1..Len(s.up) : ~WebAsk(s.up[k])
                              /\ \A k \in 1..Len(q.down) : ~WebAck(q.down[k])
    BY WebGot DEF W!AuthChanged
  <1>2. /\ \A k \in 1..Len(s.up) : ~WebAsk(s.up[k])
        /\ \A k \in 1..Len(q.down) : ~WebAck(q.down[k])
    BY <1>1 DEF WebAck
  <1> DEFINE gen == s.gen + 1
             token == s.pending.claims
             st1 == [q EXCEPT !.pending = W!None, !.deadline = W!None]
             st2 == [st1 EXCEPT !.gen = gen, !.token = token]
  <1>3. s' = W!ScheduleAuthRefresh([W!Read EXCEPT !.pending = W!None, !.gen = @ + 1, !.deadline = W!None, !.token = s.pending.claims],
                                 s.pending.claims)
    BY <1>1 DEF W!AuthChanged
  <1>4. q \in WebStates /\ s \in WebStates /\ q.gen = s.gen
    BY <1>1 DEF WebInv, WebLink
  <1>5. s' = W!ScheduleAuthRefresh(st2, token)
    BY <1>3, <1>4
  <1>6. s.pending \in [at : {"sent"}, gen : Nat, claims : Nat] /\ s.gen \in Nat
    <2>1. s.pending \in {W!None} \cup [at : {"sent"}, gen : Nat, claims : Nat] /\ s.gen \in Nat /\ s.pending.at = "sent"
      BY <1>1, <1>4 DEF WebStates
    <2> QED BY <2>1 DEF W!None
  <1>7. gen \in Nat /\ token \in Nat /\ gen = s.gen + 1 /\ token = s.pending.claims
    BY <1>6
  <1> HIDE DEF q, gen, token
  <1>8. st2 \in WebStates
    <2>1. st1 \in WebStates
      BY <1>4 DEF WebStates
    <2>2. gen \in Nat /\ token \in Nat
      BY <1>7
    <2> HIDE DEF st1
    <2> QED BY <2>1, <2>2 DEF WebStates
  <1>9. /\ WebTold(q, st2) /\ WebView(q, st2) /\ st2.expired = q.expired /\ st2.up = q.up /\ st2.down = q.down /\ st2.regs = q.regs
        /\ st2.ws = q.ws /\ st2.attempt = q.attempt /\ st2.state = q.state /\ st2.reconnect = q.reconnect /\ st2.why = q.why
        /\ st2.timer = q.timer /\ st2.deadline = W!None /\ st2.pending = W!None /\ st2.token = token /\ st2.auth = q.auth
        /\ st2.gen = gen /\ st2.reads = q.reads /\ st2.refused = q.refused
    BY <1>4 DEF WebStates, WebTold, WebView
  <1> HIDE DEF st2
  <1>10. WebCalls(st2) /\ WebResults(st2) /\ WebShown(st2)
    <2>1. W!Unread(st2) \subseteq W!Unread(q)
      BY <1>9 DEF W!Unread
    <2> QED BY <1>1, <1>8, <1>9, <2>1, WebMoves
  <1>10a. q.ws # 0 /\ q.why = "none" /\ q.pending = s.pending /\ q.auth = s.auth /\ q.up = s.up
    BY <1>1 DEF WebLink
  <1>11. WebSocket(st2)
    BY <1>1, <1>9, <1>10a DEF WebInv, WebSocket
  <1>12. WebAsked(st2)
    BY <1>2, <1>9, <1>10a DEF WebAsked, WebAsk, WebAck
  <1>13. \A p \in st2.reads : (p.for = "refresh" => p.gen <= st2.gen) /\ ~WebCurrent(st2, p)
    <2>1. \A p \in s.reads : p.for = "refresh" => p.gen <= s.gen /\ p.gen \in Nat
      BY WebReadsTyped
    <2>2. st2.reads = s.reads /\ st2.gen = s.gen + 1
      BY <1>1, <1>7, <1>9 DEF WebLink
    <2> QED BY <1>6, <2>1, <2>2 DEF WebCurrent
  <1>14. WebTokens(st2)
    <2>1. s.auth <= token
      BY <1>1, <1>7 DEF WebInv, WebTokens
    <2>2. q.timer.at # "refresh" /\ q.timer.at # "retry"
      BY <1>1, <1>10a DEF WebInv, WebTokens, WebIdle
    <2> QED BY <1>9, <1>10a, <1>13, <2>1, <2>2 DEF WebTokens, W!None
  <1>15. WebInv(st2)
    BY <1>8, <1>10, <1>11, <1>12, <1>14 DEF WebInv
  <1>16. WebInv(W!ScheduleAuthRefresh(st2, st2.token))
    BY <1>9, <1>10a, <1>13, <1>15, WebSchedule
  <1> QED BY <1>5, <1>9, <1>16

\* The deadline of a refresh ends the session only with its token expired.
LEMMA WebEnds ==
    ASSUME WebInv(s), W!Deadline \/ W!Close
    PROVE  WebInv(s')
  <1>1. CASE W!Deadline
    <2>1. s.token <= s.expired /\ s' = W!FailSession(s, "expired")
      BY <1>1 DEF W!Deadline, WebInv, WebTokens
    <2> QED BY <2>1, WebFail
  <1>2. CASE W!Close
    <2>1. s' = W!FailSession(s, "close")
      BY <1>2 DEF W!Close
    <2> QED BY <2>1, WebFail
  <1> QED BY <1>1, <1>2

\* A rejection ends the session: it is of a token that has expired.
LEMMA WebRejected ==
    ASSUME WebInv(s), W!SessionError
    PROVE  WebInv(s')
  <1> DEFINE q == W!FailSession(W!Read, "rejected")
             id == W!Frame.id
             st2 == [q EXCEPT !.refused = id]
  <1>1. /\ WebInv(W!Read) /\ W!Frame \in WebReplies /\ W!Frame.t = "fail" /\ W!Frame.id <= s.expired /\ W!Read.expired = s.expired
    BY WebGot DEF W!SessionError
  <1>2. id \in Nat
    BY <1>1 DEF WebReplies
  <1>3. q \in WebStates /\ WebFailed(W!Read, q, "rejected")
    <2>1. W!Read \in WebStates
      BY <1>1 DEF WebInv
    <2> QED BY <2>1, WebFailTyped
  <1>4. s' = st2
    BY DEF W!SessionError
  <1>4a. id <= W!Read.expired
    BY <1>1
  <1> HIDE DEF q, id
  <1>5. st2 \in WebStates
    BY <1>2, <1>3 DEF WebStates
  <1>6. /\ st2.refused = id /\ st2.state = q.state /\ st2.why = q.why /\ st2.reconnect = q.reconnect /\ st2.gen = q.gen
        /\ st2.timer = q.timer /\ st2.deadline = q.deadline /\ st2.pending = q.pending /\ st2.kept = q.kept /\ st2.window = q.window
        /\ st2.sub = q.sub /\ st2.mut = q.mut /\ st2.call = q.call /\ st2.ws = q.ws /\ st2.up = q.up /\ st2.down = q.down
        /\ st2.regs = q.regs /\ st2.late = q.late /\ st2.applied = q.applied /\ st2.reads = q.reads /\ st2.attempt = q.attempt
        /\ st2.token = q.token /\ st2.expired = q.expired
    BY <1>3 DEF WebStates
  <1> HIDE DEF st2
  <1>7. WebFailed(W!Read, st2, "rejected")
    BY <1>3, <1>6 DEF WebFailed
  <1>8. st2.refused <= W!Read.expired
    BY <1>4a, <1>6
  <1> QED BY <1>1, <1>4, <1>5, <1>7, <1>8, WebFails

\* The frames of a connection's state name each subscription or mutation of the
\* set and nothing else.
LEMMA WebFramesOf ==
    ASSUME NEW type, NEW ids, IsFiniteSet(ids)
    PROVE  /\ W!Frames(type, ids) \in Seq([t : {type}, id : ids])
           /\ \A k \in 1..Len(W!Frames(type, ids)) : W!Frames(type, ids)[k].t = type /\ W!Frames(type, ids)[k].id \in ids
  <1> DEFINE n == Cardinality(ids)
             order == W!SetToSeq(ids)
  <1>1. n \in Nat /\ ExistsBijection(1..n, ids)
    BY FS_CardinalityType
  <1>2. \E g \in [1..n -> ids] : W!IsInjective(g)
    <2>1. PICK g \in Bijection(1..n, ids) : TRUE
      BY <1>1 DEF ExistsBijection
    <2>2. g \in [1..n -> ids] /\ \A a, b \in 1..n : g[a] = g[b] => a = b
      BY <2>1 DEF Bijection, Injection, IsInjective
    <2>3. W!IsInjective(g)
      BY <2>2 DEF W!IsInjective
    <2> QED BY <2>2, <2>3
  <1>c. W!Cardinality(ids) = n
    BY Zenon DEF W!Cardinality, Cardinality
  <1>3. order \in [1..n -> ids]
    BY <1>2, <1>c DEF W!SetToSeq
  <1>4. W!Frames(type, ids) = [k \in 1..n |-> [t |-> type, id |-> order[k]]]
    BY <1>c DEF W!Frames
  <1> HIDE DEF n, order
  <1> QED BY <1>1, <1>3, <1>4

\* These frames are frames of the protocol.
LEMMA WebFramesIn ==
    ASSUME NEW type, NEW ids, NEW T, IsFiniteSet(ids), [t : {type}, id : ids] \subseteq T
    PROVE  /\ W!Frames(type, ids) \in Seq(T)
           /\ \A k \in 1..Len(W!Frames(type, ids)) : W!Frames(type, ids)[k].t = type /\ W!Frames(type, ids)[k].id \in ids
  <1> DEFINE a == W!Frames(type, ids)
             S == [t : {type}, id : ids]
  <1>1. a \in Seq(S) /\ \A k \in 1..Len(a) : a[k].t = type /\ a[k].id \in ids
    BY WebFramesOf
  <1> HIDE DEF a
  <1>2. S \subseteq T
    OBVIOUS
  <1> HIDE DEF S
  <1>3. a \in Seq(T)
    <2>1. \A k \in 1..Len(a) : a[k] \in T
      BY <1>1, <1>2
    <2> QED BY <1>1, <2>1
  <1> QED BY <1>1, <1>3 DEF a

\* sendSessionState sends the subscriptions and the mutations not in flight.
LEMMA WebSendState ==
    ASSUME WebMixOK, NEW st, WebInv(st), st.ws # 0, st.mut = s.mut
    PROVE  WebInv(W!SendSessionState(st))
  <1> DEFINE sub == [i \in W!Subs |-> IF i \in W!Live(st) THEN [st.sub[i] EXCEPT !.timer = FALSE] ELSE st.sub[i]]
             mut == [m \in W!Muts |-> IF m \in W!Queued THEN "sent" ELSE st.mut[m]]
             st2 == [st EXCEPT !.sub = sub, !.mut = mut]
             subs == W!Frames("sub", W!Live(st))
             muts == W!Frames("mut", W!Queued)
  <1>1. st \in WebStates /\ st.sub \in [W!Subs -> WebSubs] /\ st.mut \in [W!Muts -> {"none", "queued", "sent"}]
    BY DEF WebInv, WebStates
  <1>2. W!SendSessionState(st) = W!Send(st2, subs \o muts)
    BY DEF W!SendSessionState
  <1>3. W!Live(st) \subseteq W!Subs /\ (\A i \in W!Live(st) : st.sub[i].at # "none") /\ W!Queued \subseteq W!Muts
    BY DEF W!Live, W!Ends, W!Queued
  <1>4. \A m \in W!Queued : st.mut[m] # "none" /\ st.call[m] = "waiting"
    <2>1. \A m \in W!Queued : m \in W!Muts /\ st.mut[m] = "queued"
      BY DEF W!Queued
    <2> QED BY <2>1 DEF WebInv, WebCalls
  <1>5. sub \in [W!Subs -> WebSubs]
    <2>1. ASSUME NEW i \in W!Live(st) PROVE [st.sub[i] EXCEPT !.timer = FALSE] \in WebSubs
      <3>1. st.sub[i] \in WebSubs /\ st.sub[i].at # "none" /\ FALSE \in BOOLEAN
        BY <1>1, <1>3
      <3> HIDE DEF sub
      <3> QED BY <3>1, WebSubForms
    <2> QED BY <1>1, <2>1
  <1>6. mut \in [W!Muts -> {"none", "queued", "sent"}] /\ \A m \in W!Muts : mut[m] = "none" <=> st.mut[m] = "none"
    BY <1>1, <1>4
  <1>7. \A i \in W!Subs : sub[i].at = st.sub[i].at /\ (st.sub[i].at # "none" =>
           sub[i].rows = st.sub[i].rows /\ sub[i].cookie = st.sub[i].cookie /\ sub[i].replayed = st.sub[i].replayed)
    <2>1. ASSUME NEW i \in W!Subs, i \in W!Live(st)
          PROVE  sub[i].at = st.sub[i].at /\ sub[i].rows = st.sub[i].rows /\ sub[i].cookie = st.sub[i].cookie
                 /\ sub[i].replayed = st.sub[i].replayed
      <3>1. sub[i] = [st.sub[i] EXCEPT !.timer = FALSE] /\ st.sub[i] \in WebSubs /\ st.sub[i].at # "none"
        BY <1>1, <1>3, <2>1
      <3> HIDE DEF sub
      <3> QED BY <3>1, WebSubForms
    <2>2. ASSUME NEW i \in W!Subs, i \notin W!Live(st) PROVE sub[i] = st.sub[i]
      BY <2>2
    <2> HIDE DEF sub
    <2> QED BY <2>1, <2>2
  <1> HIDE DEF sub, mut
  <1>8. st2 \in WebStates
    BY <1>1, <1>5, <1>6 DEF WebStates
  <1>9. /\ st2.sub = sub /\ st2.mut = mut /\ WebLink(st, st2) /\ st2.call = st.call /\ st2.applied = st.applied /\ st2.late = st.late
        /\ st2.last = st.last /\ st2.kept = st.kept /\ st2.window = st.window /\ st2.up = st.up /\ st2.down = st.down
        /\ st2.regs = st.regs /\ st2.expired = st.expired
    BY <1>1 DEF WebStates, WebLink
  <1> HIDE DEF st2
  <1>10. WebInv(st2)
    <2>1. WebResults(st2) /\ WebSocket(st2) /\ WebAsked(st2) /\ WebTokens(st2)
      <3>1. st.expired <= st2.expired
        BY <1>1, <1>9 DEF WebStates
      <3> QED BY <1>8, <1>9, <3>1, WebFacets
    <2>2. WebCalls(st2)
      <3>1. WebFlight(st2) = WebFlight(st)
        BY <1>9 DEF WebFlight, W!Unread
      <3> QED BY <1>6, <1>9, <3>1 DEF WebInv, WebCalls
    <2>3. WebShown(st2)
      <3>1. st2.ws = st.ws
        BY <1>9 DEF WebLink
      <3>2. \A i \in W!Subs : st2.sub[i].at # "none" =>
              /\ st2.sub[i].cookie = st2.sub[i].rows /\ (st2.sub[i].rows # 0 => st2.last # 0)
              /\ st2.sub[i].at = "error" => st2.sub[i].rows = 0
        BY <1>7, <1>9 DEF WebInv, WebShown
      <3>3. st2.window \/ st2.ws = 0 =>
              \A i \in W!Subs : st2.sub[i].at # "none" /\ i \notin st2.kept /\ st2.sub[i].rows # 0 => st2.sub[i].replayed
        BY <1>7, <1>9, <3>1 DEF WebInv, WebShown
      <3>4. st2.window <=> st2.kept # {}
        BY <1>9 DEF WebInv, WebShown
      <3> QED BY <3>2, <3>3, <3>4 DEF WebShown
    <2> QED BY <1>8, <2>1, <2>2, <2>3 DEF WebInv
  <1>11. IsFiniteSet(W!Live(st)) /\ IsFiniteSet(W!Queued)
    <2>1. mix.subs \in Int /\ mix.muts \in Int /\ 1 \in Int
      BY DEF WebMixOK
    <2>2. IsFiniteSet(W!Subs) /\ IsFiniteSet(W!Muts)
      BY <2>1, FS_Interval, Zenon DEF W!Subs, W!Muts
    <2> QED BY <1>3, <2>2, FS_Subset
  <1>12. subs \in Seq(WebFrames) /\ \A k \in 1..Len(subs) : subs[k].t = "sub"
    <2>1. [t : {"sub"}, id : W!Live(st)] \subseteq WebFrames
      BY <1>3 DEF WebFrames
    <2>2. IsFiniteSet(W!Live(st))
      BY <1>11
    <2> DEFINE ids == W!Live(st)
    <2>3. IsFiniteSet(ids) /\ [t : {"sub"}, id : ids] \subseteq WebFrames
      BY <2>1, <2>2
    <2> HIDE DEF ids
    <2>4. /\ W!Frames("sub", ids) \in Seq(WebFrames)
          /\ \A k \in 1..Len(W!Frames("sub", ids)) : W!Frames("sub", ids)[k].t = "sub" /\ W!Frames("sub", ids)[k].id \in ids
      BY <2>3, WebFramesIn
    <2> QED BY <2>4 DEF ids
  <1>13. muts \in Seq(WebFrames) /\ \A k \in 1..Len(muts) : muts[k].t = "mut" /\ muts[k].id \in W!Queued
    <2>1. [t : {"mut"}, id : W!Queued] \subseteq WebFrames
      BY <1>3 DEF WebFrames
    <2>2. IsFiniteSet(W!Queued)
      BY <1>11
    <2> DEFINE ids == W!Queued
    <2>3. IsFiniteSet(ids) /\ [t : {"mut"}, id : ids] \subseteq WebFrames
      BY <2>1, <2>2
    <2> HIDE DEF ids
    <2>4. /\ W!Frames("mut", ids) \in Seq(WebFrames)
          /\ \A k \in 1..Len(W!Frames("mut", ids)) : W!Frames("mut", ids)[k].t = "mut" /\ W!Frames("mut", ids)[k].id \in ids
      BY <2>3, WebFramesIn
    <2> QED BY <2>4 DEF ids
  <1> HIDE DEF subs, muts
  <1> DEFINE frames == subs \o muts
  <1>14. /\ frames \in Seq(WebFrames)
         /\ \A k \in 1..Len(frames) : \/ k \in 1..Len(subs) /\ frames[k] = subs[k]
                                      \/ k - Len(subs) \in 1..Len(muts) /\ frames[k] = muts[k - Len(subs)]
    BY <1>12, <1>13, WebConcat
  <1> HIDE DEF frames
  <1>15. \A k \in 1..Len(frames) : /\ frames[k].t \in {"mut", "sub", "unsub"}
                                   /\ frames[k].t = "mut" => frames[k].id \in W!Queued
    BY <1>12, <1>13, <1>14
  <1>16. \A k \in 1..Len(frames) : frames[k].t = "mut" => st2.call[frames[k].id] \notin {"idle", "unsent"}
    <2>1. \A m \in W!Queued : st2.call[m] \notin {"idle", "unsent"}
      BY <1>4, <1>9
    <2> QED BY <1>15, <2>1
  <1>17. st2.ws # 0
    BY <1>9 DEF WebLink
  <1> QED BY <1>2, <1>10, <1>14, <1>15, <1>16, <1>17, WebSend DEF frames

\* The welcome opens the session, schedules the refresh and sends its state.
LEMMA WebWelcome ==
    ASSUME WebMixOK, WebInv(s), W!Welcome
    PROVE  WebInv(s')
  <1> DEFINE q == W!Read
             last == IF q.last = 0 THEN W!Frame.v ELSE q.last
             st2 == [q EXCEPT !.state = "open", !.opened = TRUE, !.last = last]
  <1>1. /\ WebInv(q) /\ WebTold(s, q) /\ WebView(s, q) /\ WebLink(s, q) /\ q.up = s.up /\ q.expired = s.expired /\ q.regs = s.regs
        /\ s.ws # 0 /\ s.why = "none" /\ W!Frame.t = "welcome" /\ s.state = "connecting" /\ W!Frame \in WebReplies
        /\ WebAck(W!Frame) => /\ \A k \in 1..Len(s.up) : ~WebAsk(s.up[k])
                              /\ \A k \in 1..Len(q.down) : ~WebAck(q.down[k])
    BY WebGot DEF W!Welcome
  <1>2. /\ \A k \in 1..Len(s.up) : ~WebAsk(s.up[k])
        /\ \A k \in 1..Len(q.down) : ~WebAck(q.down[k])
    BY <1>1 DEF WebAck
  <1>3. q \in WebStates /\ q.last \in Nat
    BY <1>1 DEF WebInv, WebStates
  <1>4. s' = W!SendSessionState(W!ScheduleAuthRefresh(st2, s.token))
    BY DEF W!Welcome
  <1>5. W!Frame.v \in Nat
    BY <1>1 DEF WebReplies
  <1>6. last \in Nat /\ (q.last # 0 => last # 0)
    BY <1>3, <1>5
  <1> HIDE DEF q, last
  <1>7. st2 \in WebStates
    BY <1>3, <1>6 DEF WebStates
  <1>8. /\ WebTold(q, st2) /\ st2.sub = q.sub /\ st2.kept = q.kept /\ st2.window = q.window /\ st2.last = last
        /\ st2.expired = q.expired /\ st2.up = q.up /\ st2.down = q.down /\ st2.regs = q.regs
        /\ st2.ws = q.ws /\ st2.attempt = q.attempt /\ st2.state = "open" /\ st2.reconnect = q.reconnect /\ st2.why = q.why
        /\ st2.timer = q.timer /\ st2.deadline = q.deadline /\ st2.pending = q.pending /\ st2.token = q.token /\ st2.auth = q.auth
        /\ st2.gen = q.gen /\ st2.reads = q.reads /\ st2.refused = q.refused
    BY <1>3 DEF WebStates, WebTold
  <1> HIDE DEF st2
  <1>9. q.ws # 0 /\ q.why = "none" /\ q.state = "connecting" /\ q.token = s.token /\ q.mut = s.mut
    BY <1>1 DEF WebLink, WebTold
  <1>10. q.pending.at = "none" /\ q.pending = W!None /\ q.timer.at # "retry" /\ ~q.reconnect
    <2>1. q.pending.at # "sent" /\ q.timer.at # "retry" /\ ~q.reconnect
      BY <1>1, <1>9 DEF WebInv, WebTokens, WebIdle, WebSocket
    <2>2. q.pending \in {W!None} \cup [at : {"sent"}, gen : Nat, claims : Nat]
      BY <1>3 DEF WebStates
    <2> QED BY <2>1, <2>2 DEF W!None
  <1>11. WebCalls(st2) /\ WebResults(st2)
    <2>1. st2.ws = q.ws /\ q.applied = st2.applied /\ q.expired \in Nat /\ st2.expired = q.expired
      BY <1>3, <1>8 DEF WebTold, WebStates
    <2> QED BY <1>1, <1>7, <1>8, <2>1, WebFacets
  <1>12. WebShown(st2)
    BY <1>1, <1>6, <1>8 DEF WebInv, WebShown
  <1>13. WebSocket(st2)
    BY <1>1, <1>8, <1>9, <1>10 DEF WebInv, WebSocket
  <1>14. WebAsked(st2)
    BY <1>1, <1>2, <1>8 DEF WebAsked, WebAsk, WebAck
  <1>15. \A p \in st2.reads : (p.for = "refresh" => p.gen <= st2.gen) /\ ~WebCurrent(st2, p)
    <2>1. \A p \in q.reads : (p.for = "refresh" => p.gen <= q.gen) /\ ~WebCurrent(q, p)
      BY <1>1, <1>9 DEF WebInv, WebTokens, WebIdle
    <2> QED BY <1>8, <2>1 DEF WebCurrent
  <1>16. WebTokens(st2)
    <2>1. /\ q.pending.at = "none" /\ q.ws # 0 => q.auth <= q.token
          /\ q.timer.at = "refresh" => q.timer.claims = q.token /\ q.pending.at = "none"
          /\ q.deadline.at = "set" => q.deadline.claims = q.token
      BY <1>1 DEF WebInv, WebTokens
    <2> QED BY <1>8, <1>9, <1>10, <1>15, <2>1 DEF WebTokens
  <1>17. WebInv(st2)
    BY <1>7, <1>11, <1>12, <1>13, <1>14, <1>16 DEF WebInv
  <1>18. st2.ws # 0 /\ st2.pending = W!None /\ st2.token = s.token /\ st2.mut = s.mut
    BY <1>8, <1>9, <1>10 DEF WebTold
  <1> DEFINE next == W!ScheduleAuthRefresh(st2, s.token)
  <1>19. WebInv(next)
    BY <1>15, <1>17, <1>18, WebSchedule
  <1>20. next.ws # 0 /\ next.mut = s.mut
    <2>1. st2 \in WebStates
      BY <1>7
    <2>2. CASE st2.deadline.at # "none"
      BY <1>18, <2>2 DEF W!ScheduleAuthRefresh
    <2>3. CASE ~(st2.deadline.at # "none")
      BY <1>18, <2>1, <2>3 DEF W!ScheduleAuthRefresh, WebStates
    <2> QED BY <2>2, <2>3
  <1> HIDE DEF next
  <1> QED BY <1>4, <1>19, <1>20, WebSendState DEF next

\* What a frame of the server carries, by its kind.
LEMMA WebReplyForms ==
    ASSUME NEW f \in WebReplies
    PROVE  /\ f.t = "snapshot" => f.id \in W!Subs /\ f.v \in Nat \ {0}
           /\ f.t = "refetch" => f.id \in W!Subs
           /\ f.t = "error" => f.id \in W!Subs /\ f.retry \in BOOLEAN
           /\ f.t = "result" => f.id \in W!Muts /\ f.ok \in BOOLEAN
  BY DEF WebReplies

\* A call and its mutation change together: one still unsettled is waiting, one
\* in flight is not told unsent.
LEMMA WebSetCall ==
    ASSUME NEW st, WebInv(st), NEW m \in W!Muts, NEW n \in {"none", "queued", "sent"},
           NEW c \in {"idle", "waiting", "ok", "refused", "unknown", "unsent", "aborted"},
           n # "none" => c = "waiting", m \in WebFlight(st) => c \notin {"idle", "unsent"}, c = "ok" => m \in st.applied
    PROVE  WebInv([st EXCEPT !.mut[m] = n, !.call[m] = c])
  <1> DEFINE mut == [st.mut EXCEPT ![m] = n]
             call == [st.call EXCEPT ![m] = c]
             st2 == [st EXCEPT !.mut = mut, !.call = call]
  <1>1. st \in WebStates /\ st.mut \in [W!Muts -> {"none", "queued", "sent"}]
        /\ st.call \in [W!Muts -> {"idle", "waiting", "ok", "refused", "unknown", "unsent", "aborted"}] /\ st.expired \in Nat
    BY DEF WebInv, WebStates
  <1>2. /\ mut \in [W!Muts -> {"none", "queued", "sent"}]
        /\ call \in [W!Muts -> {"idle", "waiting", "ok", "refused", "unknown", "unsent", "aborted"}]
        /\ \A k \in W!Muts : /\ k # m => mut[k] = st.mut[k] /\ call[k] = st.call[k]
                             /\ k = m => mut[k] = n /\ call[k] = c
    BY <1>1
  <1>3. [st EXCEPT !.mut[m] = n, !.call[m] = c] = st2
    OBVIOUS
  <1> HIDE DEF mut, call
  <1>4. st2 \in WebStates
    BY <1>1, <1>2 DEF WebStates
  <1>5. /\ st2.mut = mut /\ st2.call = call /\ WebLink(st, st2) /\ WebView(st, st2) /\ st2.applied = st.applied /\ st2.late = st.late
        /\ st2.up = st.up /\ st2.down = st.down /\ st2.regs = st.regs /\ st2.expired = st.expired
    BY <1>1 DEF WebStates, WebLink, WebView
  <1> HIDE DEF st2
  <1>6. WebResults(st2) /\ WebShown(st2) /\ WebSocket(st2) /\ WebAsked(st2) /\ WebTokens(st2)
    <2>1. st.expired <= st2.expired /\ st2.ws = st.ws
      BY <1>1, <1>5 DEF WebLink
    <2> QED BY <1>4, <1>5, <2>1, WebFacets
  <1>7. WebCalls(st2)
    <2>1. WebFlight(st2) = WebFlight(st)
      BY <1>5 DEF WebFlight, W!Unread
    <2> QED BY <1>2, <1>5, <2>1 DEF WebInv, WebCalls
  <1>8. WebInv(st2)
    BY <1>4, <1>6, <1>7 DEF WebInv
  <1> QED BY <1>3, <1>8

\* An open session writes a frame that asks for no token.
LEMMA WebOpenSends ==
    ASSUME NEW st, WebInv(st), st.state = "open", NEW f \in WebFrames, f.t \in {"mut", "sub", "unsub"},
           f.t = "mut" => st.call[f.id] \notin {"idle", "unsent"}
    PROVE  WebInv(W!Send(st, <<f>>))
  <1> DEFINE frames == <<f>>
  <1>1. frames \in Seq(WebFrames) /\ Len(frames) = 1 /\ \A k \in 1..Len(frames) : frames[k] = f
    OBVIOUS
  <1>2. st.ws # 0
    BY DEF WebInv, WebSocket
  <1> HIDE DEF frames
  <1>3. \A k \in 1..Len(frames) : /\ frames[k].t \in {"mut", "sub", "unsub"}
                                  /\ frames[k].t = "mut" => st.call[frames[k].id] \notin {"idle", "unsent"}
    BY <1>1
  <1>4. WebInv(W!Send(st, frames))
    BY <1>1, <1>2, <1>3, WebSend
  <1> QED BY <1>4 DEF frames

\* A mutation is sent by an open session and queued by another.
LEMMA WebMutates ==
    ASSUME WebInv(s), NEW m \in W!Muts, W!Mutate(m)
    PROVE  WebInv(s')
  <1>1. s.call[m] = "idle" /\ m \notin WebFlight(s)
    BY DEF W!Mutate, WebInv, WebCalls
  <1>2. CASE W!Open
    <2> DEFINE st2 == [s EXCEPT !.mut[m] = "sent", !.call[m] = "waiting"]
               f == [t |-> "mut", id |-> m]
    <2>1. WebInv(st2)
      BY <1>1, WebSetCall
    <2>2. s' = W!Send(st2, <<f>>)
      <3>1. s' = W!Send([s EXCEPT !.call[m] = "waiting", !.mut[m] = "sent"], <<[t |-> "mut", id |-> m]>>)
        BY <1>2 DEF W!Mutate
      <3>2. [s EXCEPT !.call[m] = "waiting", !.mut[m] = "sent"] = st2
        OBVIOUS
      <3> QED BY <3>1, <3>2
    <2>3. st2.state = "open" /\ st2.call[m] = "waiting"
      <3>1. s \in WebStates /\ s.state = "open"
        BY <1>2 DEF WebInv, W!Open
      <3> QED BY <3>1 DEF WebStates
    <2>4. f \in WebFrames /\ f.t = "mut" /\ f.id = m
      BY DEF WebFrames
    <2> HIDE DEF st2, f
    <2> QED BY <2>1, <2>2, <2>3, <2>4, WebOpenSends
  <1>3. CASE ~W!Open
    <2>1. s' = [s EXCEPT !.mut[m] = "queued", !.call[m] = "waiting"]
      <3>1. s' = [s EXCEPT !.call[m] = "waiting", !.mut[m] = "queued"]
        BY <1>3 DEF W!Mutate
      <3> QED BY <3>1
    <2>2. WebInv([s EXCEPT !.mut[m] = "queued", !.call[m] = "waiting"])
      BY <1>1, WebSetCall
    <2> QED BY <2>1, <2>2
  <1> QED BY <1>2, <1>3

\* A mutation whose send throws is taken back: it was never in flight.
LEMMA WebNotSent ==
    ASSUME WebInv(s), NEW m \in W!Muts, W!MutateSendFails(m)
    PROVE  WebInv(s')
  <1> DEFINE st2 == [s EXCEPT !.mut[m] = "none", !.call[m] = "unsent"]
             n == s.faults + 1
  <1>1. s.call[m] = "idle" /\ m \notin WebFlight(s) /\ s \in WebStates /\ s.faults \in Nat
    BY DEF W!MutateSendFails, WebInv, WebCalls, WebStates
  <1>2. WebInv(st2)
    BY <1>1, WebSetCall
  <1>3. s' = [st2 EXCEPT !.faults = n]
    <2>1. s' = [s EXCEPT !.call[m] = "unsent", !.mut[m] = "none", !.faults = n]
      BY DEF W!MutateSendFails, W!Taken
    <2> QED BY <2>1
  <1>4. n \in Nat
    BY <1>1
  <1> HIDE DEF st2, n
  <1> QED BY <1>2, <1>3, <1>4, WebTrouble

\* The deadline of a mutation tells its caller that the outcome is unknown.
LEMMA WebTimeout ==
    ASSUME WebInv(s), NEW m \in W!Muts, W!MutationTimeout(m)
    PROVE  WebInv(s')
  <1>1. s' = [s EXCEPT !.mut[m] = "none", !.call[m] = "unknown"]
    BY DEF W!MutationTimeout
  <1>2. WebInv([s EXCEPT !.mut[m] = "none", !.call[m] = "unknown"])
    BY WebSetCall
  <1> QED BY <1>1, <1>2

\* The last version seen only grows from none to some.
LEMMA WebLast ==
    ASSUME NEW st, WebInv(st), NEW v \in Nat \ {0}
    PROVE  WebInv([st EXCEPT !.last = v])
  <1> DEFINE st2 == [st EXCEPT !.last = v]
  <1>1. st \in WebStates /\ st.expired \in Nat
    BY DEF WebInv, WebStates
  <1>2. st2 \in WebStates
    BY <1>1 DEF WebStates
  <1>3. /\ st2.last = v /\ WebLink(st, st2) /\ WebTold(st, st2) /\ st2.sub = st.sub /\ st2.kept = st.kept /\ st2.window = st.window
        /\ st2.up = st.up /\ st2.down = st.down /\ st2.regs = st.regs /\ st2.expired = st.expired
    BY <1>1 DEF WebStates, WebLink, WebTold
  <1> HIDE DEF st2
  <1>4. WebResults(st2) /\ WebCalls(st2) /\ WebSocket(st2) /\ WebAsked(st2) /\ WebTokens(st2)
    <2>1. st.expired <= st2.expired /\ st2.ws = st.ws /\ st.applied \subseteq st2.applied
      BY <1>1, <1>3 DEF WebLink, WebTold
    <2> QED BY <1>2, <1>3, <2>1, WebFacets
  <1>5. WebShown(st2)
    <2>1. st2.ws = st.ws
      BY <1>3 DEF WebLink
    <2> QED BY <1>3, <2>1 DEF WebInv, WebShown
  <1>6. WebInv(st2)
    BY <1>2, <1>4, <1>5 DEF WebInv
  <1> QED BY <1>6 DEF st2

\* A result settles its mutation, if that is not settled yet.
LEMMA WebSettle ==
    ASSUME WebInv(s), W!SettleMutation
    PROVE  WebInv(s')
  <1> DEFINE m == W!Frame.id
             c == IF W!Frame.ok THEN "ok" ELSE "refused"
             q == W!Read
  <1>1. WebInv(q) /\ WebTold(s, q) /\ W!Frame \in WebReplies /\ W!Frame.t = "result" /\ (W!Frame.ok => W!Frame.id \in s.applied)
    <2>1. W!Got("result")
      BY DEF W!SettleMutation
    <2> QED BY <2>1, WebGot
  <1>2. m \in W!Muts /\ W!Frame.ok \in BOOLEAN
    BY <1>1, WebReplyForms
  <1>3. CASE s.mut[m] = "none"
    BY <1>1, <1>3 DEF W!SettleMutation
  <1>4. CASE s.mut[m] # "none"
    <2> DEFINE st2 == [q EXCEPT !.mut[m] = "none", !.call[m] = c]
    <2>1. s' = [q EXCEPT !.mut[m] = "none", !.call[m] = c, !.last = s.v]
      BY <1>4 DEF W!SettleMutation
    <2>2. s' = [st2 EXCEPT !.last = s.v]
      BY <2>1
    <2>3. WebInv(st2)
      <3>1. c \in {"idle", "waiting", "ok", "refused", "unknown", "unsent", "aborted"} /\ c \notin {"idle", "unsent"}
            /\ (c = "ok" => W!Frame.ok)
        BY <1>2
      <3>2. c = "ok" => m \in q.applied
        BY <1>1, <3>1 DEF WebTold
      <3> HIDE DEF c, m, q
      <3> QED BY <1>1, <1>2, <3>1, <3>2, WebSetCall
    <2>4. s.v \in Nat \ {0}
      BY DEF WebInv, WebStates
    <2> HIDE DEF st2
    <2> QED BY <2>2, <2>3, <2>4, WebLast
  <1> QED BY <1>3, <1>4

\* What a subscription's leaving the resume window does not touch.
WebReleased(st, st2, i) ==
  /\ st2 \in WebStates /\ WebTold(st, st2) /\ WebLink(st, st2) /\ st2.up = st.up /\ st2.down = st.down /\ st2.regs = st.regs
  /\ st2.expired = st.expired /\ st2.sub = st.sub /\ st2.last = st.last /\ st2.handle = st.handle
  /\ (st2.window <=> st2.kept # {}) /\ (st2.window => st.window) /\ st.kept \subseteq st2.kept \cup {i}

\* A subscription leaves the resume window and nothing else changes.
LEMMA WebRelease ==
    ASSUME NEW st, WebInv(st), NEW i \in W!Subs
    PROVE  WebReleased(st, W!Release(st, i), i) /\ WebReleased(st, st, i)
  <1> DEFINE kept == st.kept \ {i}
             window == st.window /\ kept # {}
             resume == IF kept = {} THEN 0 ELSE st.resume
             st2 == [st EXCEPT !.kept = kept, !.window = window, !.resume = resume]
  <1>1. st \in WebStates /\ st.kept \in SUBSET W!Subs /\ st.window \in BOOLEAN /\ st.resume \in Nat /\ (st.window <=> st.kept # {})
    BY DEF WebInv, WebStates, WebShown
  <1>2. WebReleased(st, st, i)
    BY <1>1 DEF WebReleased, WebTold, WebLink
  <1>3. CASE i \notin st.kept
    <2>1. W!Release(st, i) = st
      BY <1>3 DEF W!Release
    <2> QED BY <1>2, <2>1
  <1>4. CASE i \in st.kept
    <2>1. W!Release(st, i) = st2
      BY <1>4 DEF W!Release
    <2>2. /\ kept \in SUBSET W!Subs /\ window \in BOOLEAN /\ resume \in Nat /\ (window <=> kept # {}) /\ (window => st.window)
          /\ st.kept \subseteq kept \cup {i}
      BY <1>1, <1>4
    <2> HIDE DEF kept, window, resume
    <2>3. st2 \in WebStates
      BY <1>1, <2>2 DEF WebStates
    <2>4. /\ WebTold(st, st2) /\ WebLink(st, st2) /\ st2.up = st.up /\ st2.down = st.down /\ st2.regs = st.regs
          /\ st2.expired = st.expired /\ st2.sub = st.sub /\ st2.last = st.last /\ st2.handle = st.handle
          /\ st2.kept = kept /\ st2.window = window
      BY <1>1 DEF WebStates, WebTold, WebLink
    <2> HIDE DEF st2
    <2>5. WebReleased(st, st2, i)
      BY <2>2, <2>3, <2>4 DEF WebReleased
    <2> QED BY <1>2, <2>1, <2>5
  <1> QED BY <1>3, <1>4

\* A subscription that left the window has rows replayed since the disconnect,
\* with their cookie.
LEMMA WebSetSub ==
    ASSUME NEW st, WebInv(st), NEW i \in W!Subs, NEW st1, WebReleased(st, st1, i), NEW x \in WebSubs,
           x.at # "none" => /\ x.cookie = x.rows /\ (x.rows # 0 => st.last # 0 /\ x.replayed)
                            /\ (x.at = "error" => x.rows = 0)
    PROVE  WebInv([st1 EXCEPT !.sub[i] = x])
  <1> DEFINE sub == [st1.sub EXCEPT ![i] = x]
             st2 == [st1 EXCEPT !.sub = sub]
  <1>1. st \in WebStates /\ st1 \in WebStates /\ st1.sub = st.sub /\ st.sub \in [W!Subs -> WebSubs]
    BY DEF WebInv, WebStates, WebReleased
  <1>2. sub \in [W!Subs -> WebSubs] /\ \A j \in W!Subs : (j # i => sub[j] = st.sub[j]) /\ (j = i => sub[j] = x)
    BY <1>1
  <1>3. [st1 EXCEPT !.sub[i] = x] = st2
    OBVIOUS
  <1> HIDE DEF sub
  <1>4. st2 \in WebStates
    BY <1>1, <1>2 DEF WebStates
  <1>5. /\ WebTold(st1, st2) /\ WebLink(st1, st2) /\ st2.up = st1.up /\ st2.down = st1.down /\ st2.regs = st1.regs
        /\ st2.expired = st1.expired /\ st2.sub = sub /\ st2.last = st1.last /\ st2.kept = st1.kept /\ st2.window = st1.window
    BY <1>1 DEF WebStates, WebTold, WebLink
  <1> HIDE DEF st2
  <1>6. WebTold(st, st2) /\ WebLink(st, st2) /\ st2.up = st.up /\ st2.down = st.down /\ st2.regs = st.regs /\ st2.expired = st.expired
    BY <1>5 DEF WebReleased, WebTold, WebLink
  <1>7. WebResults(st2) /\ WebCalls(st2) /\ WebSocket(st2) /\ WebAsked(st2) /\ WebTokens(st2)
    <2>1. st.expired <= st2.expired /\ st2.ws = st.ws /\ st.applied \subseteq st2.applied
      BY <1>1, <1>6 DEF WebLink, WebTold, WebStates
    <2> QED BY <1>4, <1>6, <2>1, WebFacets
  <1>8. WebShown(st2)
    <2>1. st2.ws = st.ws /\ st2.last = st.last /\ (st2.window <=> st2.kept # {}) /\ (st2.window => st.window)
          /\ st.kept \subseteq st2.kept \cup {i}
      BY <1>5, <1>6 DEF WebReleased, WebLink
    <2>2. \A j \in W!Subs : st2.sub[j].at # "none" =>
            /\ st2.sub[j].cookie = st2.sub[j].rows /\ (st2.sub[j].rows # 0 => st2.last # 0)
            /\ st2.sub[j].at = "error" => st2.sub[j].rows = 0
      BY <1>2, <1>5, <2>1 DEF WebInv, WebShown
    <2>3. ASSUME st2.window \/ st2.ws = 0, NEW j \in W!Subs, st2.sub[j].at # "none", j \notin st2.kept, st2.sub[j].rows # 0
          PROVE  st2.sub[j].replayed
      <3>1. CASE j = i
        BY <1>2, <1>5, <2>3, <3>1
      <3>2. CASE j # i
        <4>1. st2.sub[j] = st.sub[j] /\ j \notin st.kept /\ (st.window \/ st.ws = 0)
          BY <1>2, <1>5, <2>1, <2>3, <3>2
        <4> QED BY <2>3, <4>1 DEF WebInv, WebShown
      <3> QED BY <3>1, <3>2
    <2> QED BY <2>1, <2>2, <2>3 DEF WebShown
  <1>9. WebInv(st2)
    BY <1>4, <1>7, <1>8 DEF WebInv
  <1> QED BY <1>3, <1>9

\* A subscription's rows have their cookie and were of some version.
LEMMA WebLiveSub ==
    ASSUME NEW st, WebInv(st), NEW i \in W!Subs, st.sub[i].at # "none"
    PROVE  /\ st.sub[i] \in [at : {"pending", "live", "refetching", "error"}, rows : Nat, cookie : Nat, timer : BOOLEAN, replayed : BOOLEAN]
           /\ st.sub[i].cookie = st.sub[i].rows /\ (st.sub[i].rows # 0 => st.last # 0)
           /\ (st.sub[i].at = "error" => st.sub[i].rows = 0)
  <1>1. st.sub[i] \in WebSubs
    BY DEF WebInv, WebStates
  <1>2. st.sub[i] \in [at : {"pending", "live", "refetching", "error"}, rows : Nat, cookie : Nat, timer : BOOLEAN, replayed : BOOLEAN]
    BY <1>1 DEF WebSubs, W!NoSub
  <1> QED BY <1>2 DEF WebInv, WebShown

\* A subscription's handle is the application's own.
LEMMA WebHandle ==
    ASSUME NEW st, WebInv(st), NEW i \in W!Subs, NEW h \in {"idle", "open", "closed"}
    PROVE  /\ WebInv([st EXCEPT !.handle[i] = h])
           /\ [st EXCEPT !.handle[i] = h].last = st.last /\ [st EXCEPT !.handle[i] = h].state = st.state
  <1> DEFINE handle == [st.handle EXCEPT ![i] = h]
             st2 == [st EXCEPT !.handle = handle]
  <1>1. st \in WebStates /\ st.expired \in Nat /\ st.handle \in [W!Subs -> {"idle", "open", "closed"}]
    BY DEF WebInv, WebStates
  <1>2. handle \in [W!Subs -> {"idle", "open", "closed"}] /\ [st EXCEPT !.handle[i] = h] = st2
    BY <1>1
  <1> HIDE DEF handle
  <1>3. st2 \in WebStates
    BY <1>1, <1>2 DEF WebStates
  <1>4. WebSame(st, st2) /\ st2.regs = st.regs /\ st2.last = st.last /\ st2.state = st.state
    BY <1>1 DEF WebStates, WebSame, WebTold, WebView, WebLink
  <1> HIDE DEF st2
  <1>5. WebInv(st2)
    BY <1>3, <1>4, WebPlain
  <1> QED BY <1>2, <1>4, <1>5

\* An open session writes a frame that subscribes or unsubscribes.
LEMMA WebSubFrame ==
    ASSUME NEW st, WebInv(st), NEW i \in W!Subs, NEW type \in {"sub", "unsub"}, st.state = "open"
    PROVE  WebInv(W!Send(st, <<[t |-> type, id |-> i]>>))
  <1> DEFINE f == [t |-> type, id |-> i]
  <1>1. f \in WebFrames /\ f.t \in {"mut", "sub", "unsub"} /\ f.t # "mut"
    BY DEF WebFrames
  <1> HIDE DEF f
  <1>2. WebInv(W!Send(st, <<f>>))
    BY <1>1, WebOpenSends
  <1> QED BY <1>2 DEF f

\* subscribe starts without rows.
LEMMA WebSubscribes ==
    ASSUME WebInv(s), NEW i \in W!Subs, W!Subscribe(i)
    PROVE  WebInv(s')
  <1> DEFINE q == [s EXCEPT !.handle[i] = "open"]
             x == W!NewSub
             st2 == [q EXCEPT !.sub[i] = x]
  <1>1. WebInv(q)
    BY WebHandle
  <1>2. x \in WebSubs /\ x.cookie = x.rows /\ x.rows = 0
    BY DEF WebSubs, W!NewSub
  <1> HIDE DEF x
  <1>3. WebInv(st2)
    <2> HIDE DEF q
    <2>1. WebReleased(q, q, i)
      BY <1>1, WebRelease
    <2> QED BY <1>1, <1>2, <2>1, WebSetSub
  <1>4. [s EXCEPT !.handle[i] = "open", !.sub[i] = W!NewSub] = st2
    BY DEF x
  <1>5. CASE W!Open
    <2>1. s' = W!Send(st2, <<[t |-> "sub", id |-> i]>>)
      BY <1>4, <1>5 DEF W!Subscribe
    <2>2. st2.state = "open"
      <3>1. s \in WebStates /\ s.state = "open"
        BY <1>5 DEF WebInv, W!Open
      <3> QED BY <3>1 DEF WebStates
    <2> HIDE DEF st2
    <2> QED BY <1>3, <2>1, <2>2, WebSubFrame
  <1>6. CASE ~W!Open
    <2>1. s' = st2
      BY <1>4, <1>6 DEF W!Subscribe
    <2> HIDE DEF st2
    <2> QED BY <1>3, <2>1
  <1> QED BY <1>5, <1>6

\* unsubscribe removes the subscription with its rows.
LEMMA WebUnsubscribes ==
    ASSUME WebInv(s), NEW i \in W!Subs, W!Unsubscribe(i)
    PROVE  WebInv(s')
  <1> DEFINE q == W!Release(s, i)
             a == [q EXCEPT !.sub[i] = W!NoSub]
             st2 == [a EXCEPT !.handle[i] = "closed"]
  <1>1. WebReleased(s, q, i)
    BY WebRelease
  <1> HIDE DEF q
  <1>2. W!NoSub \in WebSubs /\ W!NoSub.at = "none"
    BY DEF WebSubs, W!NoSub
  <1>3. WebInv(a)
    BY <1>1, <1>2, WebSetSub
  <1>4. WebInv(st2)
    <2> HIDE DEF a
    <2> QED BY <1>3, WebHandle
  <1>5. [q EXCEPT !.handle[i] = "closed", !.sub[i] = W!NoSub] = st2
    OBVIOUS
  <1>6. st2.state = s.state
    <2>1. q \in WebStates /\ q.state = s.state
      BY <1>1 DEF WebReleased, WebLink
    <2> QED BY <2>1 DEF WebStates
  <1>7. CASE W!Open
    <2>1. s' = W!Send(st2, <<[t |-> "unsub", id |-> i]>>)
      BY <1>5, <1>7 DEF W!Unsubscribe, q
    <2>2. st2.state = "open"
      BY <1>6, <1>7 DEF W!Open
    <2> HIDE DEF st2
    <2> QED BY <1>4, <2>1, <2>2, WebSubFrame
  <1>8. CASE ~W!Open
    <2>1. s' = st2
      BY <1>5, <1>8 DEF W!Unsubscribe, q
    <2> HIDE DEF st2
    <2> QED BY <1>4, <2>1
  <1> QED BY <1>7, <1>8

\* The window is left before or after the subscription's state is set: the same.
LEMMA WebReleaseLast ==
    ASSUME NEW st \in WebStates, NEW i \in W!Subs, NEW x
    PROVE  W!Release([st EXCEPT !.sub[i] = x], i) = [W!Release(st, i) EXCEPT !.sub[i] = x]
  <1> DEFINE st2 == [st EXCEPT !.sub[i] = x]
             kept == st.kept \ {i}
             window == st.window /\ kept # {}
             resume == IF kept = {} THEN 0 ELSE st.resume
  <1>1. st2.kept = st.kept /\ st2.window = st.window /\ st2.resume = st.resume
    BY DEF WebStates
  <1>2. CASE i \notin st.kept
    BY <1>1, <1>2 DEF W!Release
  <1>3. CASE i \in st.kept
    <2>1. W!Release(st2, i) = [st2 EXCEPT !.kept = kept, !.window = window, !.resume = resume]
      <3>1. W!Release(st2, i) = [st2 EXCEPT !.kept = st2.kept \ {i}, !.window = st2.window /\ st2.kept \ {i} # {},
                                  !.resume = IF st2.kept \ {i} = {} THEN 0 ELSE st2.resume]
        BY <1>1, <1>3 DEF W!Release
      <3> HIDE DEF st2
      <3> QED BY <1>1, <3>1
    <2>2. W!Release(st, i) = [st EXCEPT !.kept = kept, !.window = window, !.resume = resume]
      BY <1>3 DEF W!Release
    <2> HIDE DEF kept, window, resume
    <2>3. [st2 EXCEPT !.kept = kept, !.window = window, !.resume = resume]
            = [[st EXCEPT !.kept = kept, !.window = window, !.resume = resume] EXCEPT !.sub[i] = x]
      OBVIOUS
    <2> QED BY <2>1, <2>2, <2>3
  <1> QED BY <1>2, <1>3

\* A snapshot replaces the rows, or confirms them when the cookie is the same.
LEMMA WebSnapshot ==
    ASSUME WebInv(s), W!Snapshot
    PROVE  WebInv(s')
  <1> DEFINE i == W!Frame.id
             v == W!Frame.v
             q == W!Read
  <1>1. WebInv(q) /\ WebView(s, q) /\ W!Frame \in WebReplies /\ W!Frame.t = "snapshot"
    <2>1. W!Got("snapshot")
      BY DEF W!Snapshot
    <2> QED BY <2>1, WebGot
  <1>2. i \in W!Subs /\ v \in Nat \ {0}
    BY <1>1, WebReplyForms
  <1>3. q.sub = s.sub /\ q.last = s.last /\ q \in WebStates
    BY <1>1 DEF WebView, WebInv
  <1>4. CASE i \notin W!Live(s)
    BY <1>1, <1>4 DEF W!Snapshot
  <1>5. CASE i \in W!Live(s) /\ s.sub[i].cookie = v
    <2> DEFINE r == W!Release(q, i)
               x == [s.sub[i] EXCEPT !.replayed = TRUE]
               st2 == [r EXCEPT !.sub[i] = x]
    <2>0. s.sub[i].at # "none"
      BY <1>5 DEF W!Live, W!Ends
    <2>1. s' = [r EXCEPT !.sub[i].replayed = TRUE]
      BY <1>5 DEF W!Snapshot
    <2> HIDE DEF i, v, q
    <2>2. WebReleased(q, r, i)
      BY <1>1, <1>2, WebRelease
    <2>3. r.sub = s.sub
      BY <1>3, <2>2 DEF WebReleased
    <2>4. s' = st2
      <3>1. r \in WebStates
        BY <2>2 DEF WebReleased
      <3>2. r.sub \in [W!Subs -> WebSubs]
        BY <3>1 DEF WebStates
      <3> HIDE DEF r
      <3> QED BY <1>2, <2>1, <2>3, <3>1, <3>2
    <2>5. /\ s.sub[i] \in [at : {"pending", "live", "refetching", "error"}, rows : Nat, cookie : Nat, timer : BOOLEAN, replayed : BOOLEAN]
          /\ s.sub[i].cookie = s.sub[i].rows /\ (s.sub[i].rows # 0 => s.last # 0)
          /\ (s.sub[i].at = "error" => s.sub[i].rows = 0)
      BY <1>2, <2>0, WebLiveSub
    <2>6. x \in WebSubs /\ x.cookie = x.rows /\ (x.rows # 0 => q.last # 0 /\ x.replayed) /\ (x.at = "error" => x.rows = 0)
      BY <1>3, <2>5 DEF WebSubs
    <2> HIDE DEF r, x
    <2>7. WebInv(st2)
      BY <1>1, <1>2, <2>2, <2>6, WebSetSub
    <2> QED BY <2>4, <2>7
  <1>6. CASE i \in W!Live(s) /\ s.sub[i].cookie # v
    <2> DEFINE q1 == [q EXCEPT !.last = v]
               x == [at |-> "live", rows |-> v, cookie |-> v, timer |-> FALSE, replayed |-> TRUE]
               r == W!Release(q1, i)
               st2 == [r EXCEPT !.sub[i] = x]
    <2>1. s' = W!Release([q EXCEPT !.last = v, !.sub[i] = x], i)
      BY <1>6 DEF W!Snapshot
    <2> HIDE DEF i, v, q
    <2>2. WebInv(q1)
      BY <1>1, <1>2, WebLast
    <2>3. q1.last = v /\ q1 \in WebStates
      <3>1. q1.last = v
        BY <1>3 DEF WebStates
      <3>2. q1 \in WebStates
        BY <2>2 DEF WebInv
      <3> QED BY <3>1, <3>2
    <2>4. x \in WebSubs /\ x.cookie = x.rows /\ (x.rows # 0 => q1.last # 0 /\ x.replayed) /\ (x.at = "error" => x.rows = 0)
      BY <1>2, <2>3 DEF WebSubs
    <2> HIDE DEF x
    <2>5. [q EXCEPT !.last = v, !.sub[i] = x] = [q1 EXCEPT !.sub[i] = x]
      OBVIOUS
    <2>6. s' = st2
      <3>1. s' = W!Release([q1 EXCEPT !.sub[i] = x], i)
        BY <2>1, <2>5
      <3> HIDE DEF q1
      <3>2. W!Release([q1 EXCEPT !.sub[i] = x], i) = [W!Release(q1, i) EXCEPT !.sub[i] = x]
        BY <1>2, <2>3, WebReleaseLast
      <3> QED BY <3>1, <3>2
    <2> HIDE DEF q1
    <2>7. WebReleased(q1, r, i)
      BY <1>2, <2>2, WebRelease
    <2> HIDE DEF r
    <2>8. WebInv(st2)
      BY <1>2, <2>2, <2>4, <2>7, WebSetSub
    <2> QED BY <2>6, <2>8
  <1> QED BY <1>4, <1>5, <1>6

\* A subscription that is refetched or in error shows no rows.
LEMMA WebEmptied ==
    ASSUME WebInv(s), NEW i \in W!Subs, s.sub[i].at # "none", NEW at \in {"refetching", "error"}, NEW timer \in BOOLEAN,
           WebInv(W!Read), W!Read.sub = s.sub
    PROVE  /\ WebInv([W!Release(W!Read, i) EXCEPT !.sub[i] = [s.sub[i] EXCEPT !.at = at, !.rows = 0, !.cookie = 0, !.timer = timer]])
           /\ [W!Release(W!Read, i) EXCEPT !.sub[i] = [s.sub[i] EXCEPT !.at = at, !.rows = 0, !.cookie = 0, !.timer = timer]].state = W!Read.state
  <1> DEFINE q == W!Read
             r == W!Release(q, i)
             x == [s.sub[i] EXCEPT !.at = at, !.rows = 0, !.cookie = 0, !.timer = timer]
             st2 == [r EXCEPT !.sub[i] = x]
  <1>1. s.sub[i] \in [at : {"pending", "live", "refetching", "error"}, rows : Nat, cookie : Nat, timer : BOOLEAN, replayed : BOOLEAN]
    BY WebLiveSub
  <1>2. x \in WebSubs /\ x.cookie = x.rows /\ x.rows = 0
    BY <1>1 DEF WebSubs
  <1>3. WebInv(q)
    OBVIOUS
  <1> HIDE DEF q
  <1>4. WebReleased(q, r, i)
    BY <1>3, WebRelease
  <1> HIDE DEF x, r
  <1>5. WebInv(st2)
    BY <1>2, <1>3, <1>4, WebSetSub
  <1>6. st2.state = q.state
    <2>1. r \in WebStates /\ r.state = q.state
      BY <1>4 DEF WebReleased, WebLink
    <2> QED BY <2>1 DEF WebStates
  <1> QED BY <1>5, <1>6 DEF q, r, x

\* mustRefetch clears the rows, and the query is sent again now or later.
LEMMA WebRefetches ==
    ASSUME WebInv(s), W!MustRefetch
    PROVE  WebInv(s')
  <1> DEFINE i == W!Frame.id
  <1>1. WebInv(W!Read) /\ WebView(s, W!Read) /\ W!Frame \in WebReplies /\ W!Frame.t = "refetch" /\ W!Read.ws # 0
    <2>1. W!Got("refetch")
      BY DEF W!MustRefetch
    <2> QED BY <2>1, WebGot DEF WebLink
  <1>2. i \in W!Subs /\ W!Read.sub = s.sub
    BY <1>1, WebReplyForms DEF WebView
  <1>3. CASE i \notin W!Live(s)
    BY <1>1, <1>3 DEF W!MustRefetch
  <1>4. CASE i \in W!Live(s)
    <2>0. s.sub[i].at # "none"
      BY <1>4 DEF W!Live, W!Ends
    <2> DEFINE a == W!Cleared(W!Read, i, FALSE)
               b == W!Cleared(W!Read, i, TRUE)
    <2>1. s' \in {W!Send(a, <<[t |-> "sub", id |-> i]>>), b, W!Read}
      BY <1>4 DEF W!MustRefetch
    <2> HIDE DEF i
    <2>2. WebInv(a) /\ WebInv(b) /\ a.ws # 0
      <3>1. "refetching" \in {"refetching", "error"} /\ TRUE \in BOOLEAN /\ FALSE \in BOOLEAN
        OBVIOUS
      <3>2. /\ WebInv([W!Release(W!Read, i) EXCEPT !.sub[i] = [s.sub[i] EXCEPT !.at = "refetching", !.rows = 0, !.cookie = 0, !.timer = FALSE]])
            /\ WebInv([W!Release(W!Read, i) EXCEPT !.sub[i] = [s.sub[i] EXCEPT !.at = "refetching", !.rows = 0, !.cookie = 0, !.timer = TRUE]])
        BY <1>1, <1>2, <2>0, <3>1, WebEmptied
      <3>3. WebReleased(W!Read, W!Release(W!Read, i), i)
        BY <1>1, <1>2, WebRelease
      <3>4. W!Release(W!Read, i) \in WebStates /\ W!Release(W!Read, i).ws # 0
        BY <1>1, <3>3 DEF WebReleased, WebLink
      <3>5. a.ws = W!Release(W!Read, i).ws
        BY <3>4 DEF W!Cleared, WebStates
      <3> QED BY <3>2, <3>4, <3>5 DEF W!Cleared
    <2> DEFINE f == [t |-> "sub", id |-> i]
               frames == <<f>>
    <2>3. f \in WebFrames /\ f.t = "sub"
      BY <1>2 DEF WebFrames
    <2> HIDE DEF f, a, b
    <2>4. frames \in Seq(WebFrames) /\ \A k \in 1..Len(frames) : frames[k].t = "sub"
      BY <2>3
    <2> HIDE DEF frames
    <2>5. WebInv(W!Send(a, frames))
      BY <2>2, <2>4, WebSend
    <2> QED BY <1>1, <2>1, <2>2, <2>5 DEF frames, f
  <1> QED BY <1>3, <1>4

\* A subscription error ends the subscription, or clears it for a retry.
LEMMA WebSubError ==
    ASSUME WebInv(s), W!ApplySubscriptionError
    PROVE  WebInv(s')
  <1> DEFINE i == W!Frame.id
  <1>1. WebInv(W!Read) /\ WebView(s, W!Read) /\ W!Frame \in WebReplies /\ W!Frame.t = "error"
    <2>1. W!Got("error")
      BY DEF W!ApplySubscriptionError
    <2> QED BY <2>1, WebGot
  <1>2. i \in W!Subs /\ W!Read.sub = s.sub
    BY <1>1, WebReplyForms DEF WebView
  <1>3. CASE i \notin W!Live(s)
    BY <1>1, <1>3 DEF W!ApplySubscriptionError
  <1>4. CASE i \in W!Live(s)
    <2>0. s.sub[i].at # "none"
      BY <1>4 DEF W!Live, W!Ends
    <2> DEFINE a == [W!Release(W!Read, i) EXCEPT !.sub[i] = [s.sub[i] EXCEPT !.at = "error", !.rows = 0, !.cookie = 0, !.timer = FALSE]]
               b == [W!Release(W!Read, i) EXCEPT !.sub[i] = [s.sub[i] EXCEPT !.at = "refetching", !.rows = 0, !.cookie = 0, !.timer = TRUE]]
    <2>1. s' \in {a, b}
      BY <1>4 DEF W!ApplySubscriptionError, W!Cleared
    <2> HIDE DEF i
    <2>2. WebInv(a)
      BY <1>1, <1>2, <2>0, WebEmptied
    <2>3. WebInv(b)
      BY <1>1, <1>2, <2>0, WebEmptied
    <2> HIDE DEF a, b
    <2> QED BY <2>1, <2>2, <2>3
  <1> QED BY <1>3, <1>4

\* A retry timer sends the query again, if it is still wanted.
LEMMA WebSubRetry ==
    ASSUME WebInv(s), NEW i \in W!Subs, W!SubscriptionRetry(i)
    PROVE  WebInv(s')
  <1> DEFINE x == [s.sub[i] EXCEPT !.timer = FALSE]
             st2 == [s EXCEPT !.sub[i] = x]
  <1>1. s.sub[i].at # "none" /\ s \in WebStates /\ s.sub \in [W!Subs -> WebSubs]
    BY DEF W!SubscriptionRetry, WebInv, WebStates
  <1>2. [s EXCEPT !.sub[i].timer = FALSE] = st2
    BY <1>1
  <1>3. WebInv(st2)
    <2> DEFINE sub2 == [s.sub EXCEPT ![i] = x]
    <2>1. x \in WebSubs /\ x.at = s.sub[i].at /\ x.rows = s.sub[i].rows /\ x.cookie = s.sub[i].cookie /\ x.replayed = s.sub[i].replayed
      <3>1. s.sub[i] \in WebSubs /\ FALSE \in BOOLEAN
        BY <1>1
      <3> QED BY <1>1, <3>1, WebSubForms
    <2> HIDE DEF x
    <2>2. sub2 \in [W!Subs -> WebSubs] /\ \A j \in W!Subs : (j # i => sub2[j] = s.sub[j]) /\ (j = i => sub2[j] = x)
      BY <1>1, <2>1
    <2>3. st2 = [s EXCEPT !.sub = sub2]
      OBVIOUS
    <2> HIDE DEF sub2
    <2> DEFINE st3 == [s EXCEPT !.sub = sub2]
    <2>4. st3 \in WebStates
      BY <1>1, <2>2 DEF WebStates
    <2>5. /\ st3.sub = sub2 /\ WebTold(s, st3) /\ WebLink(s, st3) /\ st3.up = s.up /\ st3.down = s.down /\ st3.regs = s.regs
          /\ st3.expired = s.expired /\ st3.last = s.last /\ st3.kept = s.kept /\ st3.window = s.window
      BY <1>1 DEF WebStates, WebTold, WebLink
    <2> HIDE DEF st3
    <2>6. WebResults(st3) /\ WebCalls(st3) /\ WebSocket(st3) /\ WebAsked(st3) /\ WebTokens(st3)
      <3>1. s.expired <= st3.expired /\ st3.ws = s.ws /\ s.applied \subseteq st3.applied
        BY <1>1, <2>5 DEF WebLink, WebTold, WebStates
      <3> QED BY <2>4, <2>5, <3>1, WebFacets
    <2>7. WebShown(st3)
      <3>1. st3.ws = s.ws
        BY <2>5 DEF WebLink
      <3>2. \A j \in W!Subs : st3.sub[j].at = s.sub[j].at /\ st3.sub[j].rows = s.sub[j].rows /\ st3.sub[j].cookie = s.sub[j].cookie
                            /\ st3.sub[j].replayed = s.sub[j].replayed
        BY <2>1, <2>2, <2>5
      <3> QED BY <2>5, <3>1, <3>2 DEF WebInv, WebShown
    <2>8. WebInv(st3)
      BY <2>4, <2>6, <2>7 DEF WebInv
    <2> QED BY <2>3, <2>8 DEF st3
  <1>4. st2.state = s.state
    BY <1>1 DEF WebStates
  <1>5. s' = st2 \/ (s' = W!Send(st2, <<[t |-> "sub", id |-> i]>>) /\ W!Open)
    BY <1>2 DEF W!SubscriptionRetry
  <1> HIDE DEF st2
  <1>6. CASE s' = W!Send(st2, <<[t |-> "sub", id |-> i]>>) /\ W!Open
    <2>1. st2.state = "open"
      BY <1>4, <1>6 DEF W!Open
    <2> QED BY <1>3, <1>6, <2>1, WebSubFrame
  <1> QED BY <1>3, <1>5, <1>6

\* The resume window ends: retained rows go, the last version stays only if
\* another subscription or a later frame vouches for it.
LEMMA WebWindowEnds ==
    ASSUME WebInv(s), W!ExpireRetainedResumeState
    PROVE  WebInv(s')
  <1> DEFINE outside == \E i \in W!Live(s) \ s.kept : s.sub[i].at = "live" \/ s.sub[i].cookie # 0
             advanced == s.last # 0 /\ s.last # s.resume
             last == IF advanced \/ outside THEN s.last ELSE 0
             sub == [i \in W!Subs |-> IF i \in s.kept /\ i \in W!Live(s) THEN W!AfterWindow(s.sub[i]) ELSE s.sub[i]]
             st2 == [s EXCEPT !.last = last, !.sub = sub, !.kept = {}, !.window = FALSE, !.resume = 0]
  <1>1. s \in WebStates /\ s.sub \in [W!Subs -> WebSubs] /\ s.last \in Nat /\ s.expired \in Nat
    BY DEF WebInv, WebStates
  <1>2. s' = st2 /\ s.window
    BY DEF W!ExpireRetainedResumeState
  <1>3. last \in Nat /\ (outside => last = s.last)
    BY <1>1
  <1>4. \A i \in W!Subs : \/ i \in s.kept /\ i \in W!Live(s) /\ sub[i] \in WebSubs /\ sub[i].rows = 0 /\ sub[i].cookie = 0
                          \/ ~(i \in s.kept /\ i \in W!Live(s)) /\ sub[i] = s.sub[i]
    <2>1. ASSUME NEW i \in W!Subs, i \in s.kept, i \in W!Live(s)
          PROVE  sub[i] \in WebSubs /\ sub[i].rows = 0 /\ sub[i].cookie = 0
      <3>1. s.sub[i].at # "none"
        BY <2>1 DEF W!Live, W!Ends
      <3>2. s.sub[i] \in [at : {"pending", "live", "refetching", "error"}, rows : Nat, cookie : Nat, timer : BOOLEAN, replayed : BOOLEAN]
        BY <3>1, WebLiveSub
      <3>3. sub[i] = [s.sub[i] EXCEPT !.at = "refetching", !.rows = 0, !.cookie = 0]
        BY <2>1 DEF W!AfterWindow
      <3> DEFINE x == [s.sub[i] EXCEPT !.at = "refetching", !.rows = 0, !.cookie = 0]
      <3>4. x \in WebSubs /\ x.rows = 0 /\ x.cookie = 0
        BY <3>2 DEF WebSubs
      <3> HIDE DEF sub
      <3> QED BY <3>3, <3>4
    <2>2. ASSUME NEW i \in W!Subs, ~(i \in s.kept /\ i \in W!Live(s)) PROVE sub[i] = s.sub[i]
      BY <2>2
    <2> HIDE DEF sub
    <2> QED BY <2>1, <2>2
  <1>5. sub \in [W!Subs -> WebSubs]
    <2>1. \A i \in W!Subs : sub[i] \in WebSubs
      <3> HIDE DEF sub
      <3> QED BY <1>1, <1>4
    <2>2. sub = [i \in W!Subs |-> sub[i]]
      OBVIOUS
    <2> HIDE DEF sub
    <2> QED BY <2>1, <2>2
  <1>6. \A i \in W!Subs : sub[i].at # "none" /\ sub[i].rows # 0 => s.sub[i] = sub[i] /\ last # 0 /\ sub[i].replayed
    <2>1. ASSUME NEW i \in W!Subs, sub[i].at # "none", sub[i].rows # 0 PROVE s.sub[i] = sub[i] /\ last # 0 /\ sub[i].replayed
      <3>1. s.sub[i] = sub[i] /\ ~(i \in s.kept /\ i \in W!Live(s))
        <4> HIDE DEF sub
        <4> QED BY <1>4, <2>1
      <3> HIDE DEF sub
      <3>2. s.sub[i].cookie = s.sub[i].rows /\ s.sub[i].at # "error" /\ s.last # 0 /\ s.sub[i].at \in {"pending", "live", "refetching", "error"}
        BY <2>1, <3>1, WebLiveSub
      <3>3. i \in W!Live(s)
        BY <3>2 DEF W!Live, W!Ends
      <3>4. outside
        BY <2>1, <3>1, <3>2, <3>3
      <3>5. s.sub[i].replayed
        BY <1>2, <2>1, <3>1, <3>3 DEF WebInv, WebShown
      <3> HIDE DEF last, outside
      <3> QED BY <1>3, <3>1, <3>2, <3>4, <3>5
    <2> QED BY <2>1
  <1>7. \A i \in W!Subs : sub[i].at # "none" => sub[i].cookie = sub[i].rows /\ (sub[i].at = "error" => sub[i].rows = 0)
    <2> HIDE DEF sub
    <2>1. \A i \in W!Subs : s.sub[i].at # "none" => s.sub[i].cookie = s.sub[i].rows /\ (s.sub[i].at = "error" => s.sub[i].rows = 0)
      BY DEF WebInv, WebShown
    <2> QED BY <1>4, <2>1
  <1>8. last \in Nat
    BY <1>3
  <1> HIDE DEF outside, advanced, last, sub
  <1>9. st2 \in WebStates
    BY <1>1, <1>5, <1>8 DEF WebStates
  <1>10. /\ WebTold(s, st2) /\ WebLink(s, st2) /\ st2.up = s.up /\ st2.down = s.down /\ st2.regs = s.regs
         /\ st2.expired = s.expired /\ st2.sub = sub /\ st2.last = last /\ st2.kept = {} /\ st2.window = FALSE
    BY <1>1 DEF WebStates, WebTold, WebLink
  <1> HIDE DEF st2
  <1>11. WebResults(st2) /\ WebCalls(st2) /\ WebSocket(st2) /\ WebAsked(st2) /\ WebTokens(st2)
    <2>1. s.expired <= st2.expired /\ s.applied \subseteq st2.applied
      BY <1>1, <1>10 DEF WebTold
    <2> QED BY <1>9, <1>10, <2>1, WebFacets
  <1>12. WebShown(st2)
    BY <1>6, <1>7, <1>10 DEF WebShown
  <1> QED BY <1>2, <1>9, <1>11, <1>12 DEF WebInv

\* The frame the server took is of its kind, and only the wire is shorter.
LEMMA WebServing ==
    ASSUME WebInv(s), s.up # <<>>
    PROVE  /\ WebInv(W!Served) /\ Head(s.up) \in WebFrames /\ s.ws # 0 /\ W!Served.ws # 0
           /\ WebTold(s, W!Served) /\ WebView(s, W!Served) /\ WebLink(s, W!Served) /\ W!Served.up = Tail(s.up) /\ W!Served.down = s.down
           /\ W!Served.regs = s.regs /\ W!Served.expired = s.expired /\ W!Served.sent = s.sent /\ W!Served.v = s.v /\ W!Served.trouble = s.trouble
           /\ Head(s.up).t = "mut" => s.call[Head(s.up).id] \notin {"idle", "unsent"} /\ Head(s.up).id \in W!Muts
           /\ Head(s.up).t \in {"sub", "unsub"} => Head(s.up).id \in W!Subs
  <1> DEFINE up == Tail(s.up)
             st2 == [s EXCEPT !.up = up]
  <1>1. s \in WebStates
    BY DEF WebInv
  <1>2. W!Served = st2
    BY DEF W!Served
  <1>3. /\ WebInv(st2) /\ Head(s.up) \in WebFrames /\ s.ws # 0
        /\ Head(s.up).t = "mut" => Head(s.up).id \in W!Unread(s)
    BY WebServed
  <1>4. up = Tail(s.up)
    OBVIOUS
  <1> HIDE DEF up
  <1>5. /\ WebTold(s, st2) /\ WebView(s, st2) /\ WebLink(s, st2) /\ st2.up = up /\ st2.down = s.down
        /\ st2.regs = s.regs /\ st2.expired = s.expired /\ st2.sent = s.sent /\ st2.v = s.v /\ st2.trouble = s.trouble
    BY <1>1 DEF WebStates, WebTold, WebView, WebLink
  <1> HIDE DEF st2
  <1>6. st2.ws # 0
    BY <1>3, <1>5 DEF WebLink
  <1>7. /\ Head(s.up).t = "mut" => Head(s.up).id \in W!Muts
        /\ Head(s.up).t \in {"sub", "unsub"} => Head(s.up).id \in W!Subs
    BY <1>3 DEF WebFrames
  <1>8. Head(s.up).t = "mut" => s.call[Head(s.up).id] \notin {"idle", "unsent"}
    BY <1>3, <1>7 DEF WebInv, WebCalls, WebFlight
  <1> QED BY <1>2, <1>3, <1>4, <1>5, <1>6, <1>7, <1>8

\* What the server notes about registrations is its own.
LEMMA WebRegisters ==
    ASSUME NEW st, WebInv(st), st.ws # 0
    PROVE  /\ \A regs \in SUBSET W!Subs : WebInv([st EXCEPT !.regs = regs]) /\ [st EXCEPT !.regs = regs].ws # 0
           /\ \A i \in W!Subs, v \in Nat : WebInv([st EXCEPT !.sent[i] = v]) /\ [st EXCEPT !.sent[i] = v].ws # 0
  <1>0. st \in WebStates /\ st.expired \in Nat /\ st.sent \in [W!Subs -> Nat]
    BY DEF WebInv, WebStates
  <1>1. ASSUME NEW regs \in SUBSET W!Subs PROVE WebInv([st EXCEPT !.regs = regs]) /\ [st EXCEPT !.regs = regs].ws # 0
    <2> DEFINE st2 == [st EXCEPT !.regs = regs]
    <2>1. st2 \in WebStates
      BY <1>0 DEF WebStates
    <2>2. WebSame(st, st2) /\ st2.ws = st.ws
      BY <1>0 DEF WebStates, WebSame, WebTold, WebView, WebLink
    <2> HIDE DEF st2
    <2>3. WebInv(st2) /\ st2.ws # 0
      BY <2>1, <2>2, WebPlain
    <2> QED BY <2>3 DEF st2
  <1>2. ASSUME NEW i \in W!Subs, NEW v \in Nat PROVE WebInv([st EXCEPT !.sent[i] = v]) /\ [st EXCEPT !.sent[i] = v].ws # 0
    <2> DEFINE sent == [st.sent EXCEPT ![i] = v]
               st2 == [st EXCEPT !.sent = sent]
    <2>1. sent \in [W!Subs -> Nat] /\ [st EXCEPT !.sent[i] = v] = st2
      BY <1>0
    <2> HIDE DEF sent
    <2>2. st2 \in WebStates
      BY <1>0, <2>1 DEF WebStates
    <2>3. WebSame(st, st2) /\ st2.ws = st.ws
      BY <1>0 DEF WebStates, WebSame, WebTold, WebView, WebLink
    <2> HIDE DEF st2
    <2>4. WebInv(st2) /\ st2.ws # 0
      BY <2>2, <2>3, WebPlain
    <2> QED BY <2>1, <2>4
  <1> QED BY <1>1, <1>2

\* The server answers a subscription with a snapshot, a refetch or an error.
LEMMA WebServeSubscribe ==
    ASSUME WebInv(s), W!ServeSubscribe
    PROVE  WebInv(s')
  <1> DEFINE i == Head(s.up).id
             q == W!Served
             b == W!Bothered
             less == s.regs \ {i}
  <1>1. s.up # <<>> /\ Head(s.up).t = "sub"
    BY DEF W!ServeSubscribe, W!Asked
  <1>2. WebInv(q) /\ q.ws # 0 /\ i \in W!Subs /\ q.regs = s.regs
    BY <1>1, WebServing
  <1>3. s.v \in Nat \ {0} /\ s.regs \in SUBSET W!Subs
    BY DEF WebInv, WebStates
  <1>4. WebInv(b) /\ b.ws # 0 /\ b.regs = s.regs
    <2>1. q \in WebStates
      BY <1>2 DEF WebInv
    <2> DEFINE n == q.trouble + 1
    <2>2. b = [q EXCEPT !.trouble = n]
      BY DEF W!Bothered
    <2> HIDE DEF q, b
    <2>3. n \in Nat
      BY <2>1 DEF WebStates
    <2> HIDE DEF n
    <2>4. [q EXCEPT !.trouble = n].ws = q.ws /\ [q EXCEPT !.trouble = n].regs = q.regs
      BY <2>1 DEF WebStates
    <2> QED BY <1>2, <2>2, <2>3, <2>4, WebTrouble
  <1>5. less \in SUBSET W!Subs
    BY <1>3
  <1> DEFINE c == [b EXCEPT !.regs = less]
  <1>6. WebInv(c) /\ c.ws # 0
    <2> HIDE DEF b, less
    <2> QED BY <1>4, <1>5, WebRegisters
  <1>7. CASE s' = W!Down([W!Served EXCEPT !.regs = @ \cup {i}, !.sent[i] = s.v], [t |-> "snapshot", id |-> i, v |-> s.v])
    <2> DEFINE more == s.regs \cup {i}
               a == [q EXCEPT !.regs = more]
               a2 == [a EXCEPT !.sent[i] = s.v]
               f == [t |-> "snapshot", id |-> i, v |-> s.v]
    <2>1. more \in SUBSET W!Subs
      BY <1>2, <1>3
    <2>2. s' = W!Down([q EXCEPT !.regs = more, !.sent[i] = s.v], f)
      BY <1>2, <1>7
    <2>3. [q EXCEPT !.regs = more, !.sent[i] = s.v] = a2
      <3> HIDE DEF q, more, i
      <3> QED OBVIOUS
    <2>4. f \in WebReplies /\ f.t = "snapshot"
      BY <1>2, <1>3 DEF WebReplies
    <2>4a. s' = W!Down(a2, f)
      BY <2>2, <2>3
    <2> HIDE DEF q, more, f, i
    <2>5. WebInv(a) /\ a.ws # 0
      BY <1>2, <2>1, WebRegisters
    <2> HIDE DEF a
    <2>6. WebInv(a2) /\ a2.ws # 0
      BY <1>2, <1>3, <2>5, WebRegisters
    <2> HIDE DEF a2
    <2>7. ~WebAck(f)
      BY <2>4 DEF WebAck
    <2> QED BY <2>4, <2>4a, <2>6, <2>7, WebDown
  <1>8. ASSUME NEW reason \in {"shardsChanged", "lagged"},
               s' = W!Down([W!Bothered EXCEPT !.regs = @ \ {i}], [t |-> "refetch", id |-> i, reason |-> reason])
        PROVE  WebInv(s')
    <2> DEFINE f == [t |-> "refetch", id |-> i, reason |-> reason]
    <2>1. s' = W!Down(c, f)
      BY <1>4, <1>8
    <2>2. f \in WebReplies /\ f.t = "refetch"
      BY <1>2 DEF WebReplies
    <2> HIDE DEF c, f
    <2>3. ~WebAck(f)
      BY <2>2 DEF WebAck
    <2> QED BY <1>6, <2>1, <2>2, <2>3, WebDown
  <1>9. ASSUME NEW retry \in BOOLEAN,
               s' = W!Down([W!Bothered EXCEPT !.regs = @ \ {i}], [t |-> "error", id |-> i, retry |-> retry])
        PROVE  WebInv(s')
    <2> DEFINE f == [t |-> "error", id |-> i, retry |-> retry]
    <2>1. s' = W!Down(c, f)
      BY <1>4, <1>9
    <2>2. f \in WebReplies /\ f.t = "error"
      BY <1>2 DEF WebReplies
    <2> HIDE DEF c, f
    <2>3. ~WebAck(f)
      BY <2>2 DEF WebAck
    <2> QED BY <1>6, <2>1, <2>2, <2>3, WebDown
  <1> QED BY <1>7, <1>8, <1>9 DEF W!ServeSubscribe

\* The server ends a registration.
LEMMA WebServeUnsubscribe ==
    ASSUME WebInv(s), W!ServeUnsubscribe
    PROVE  WebInv(s')
  <1> DEFINE less == s.regs \ {Head(s.up).id}
  <1>1. s.up # <<>> /\ s' = [W!Served EXCEPT !.regs = @ \ {Head(s.up).id}]
    BY DEF W!ServeUnsubscribe, W!Asked
  <1>2. WebInv(W!Served) /\ W!Served.ws # 0 /\ W!Served.regs = s.regs
    BY <1>1, WebServing
  <1>3. s' = [W!Served EXCEPT !.regs = less]
    BY <1>1, <1>2
  <1>4. less \in SUBSET W!Subs
    BY DEF WebInv, WebStates
  <1> HIDE DEF less
  <1> QED BY <1>2, <1>3, <1>4, WebRegisters

\* The server applies a mutation of a call that was taken on.
LEMMA WebApply ==
    ASSUME NEW st, WebInv(st), NEW m \in W!Muts, st.call[m] \notin {"idle", "unsent"}, NEW late \in SUBSET st.late
    PROVE  WebInv([st EXCEPT !.applied = @ \cup {m}, !.late = late])
  <1> DEFINE applied == st.applied \cup {m}
             st2 == [st EXCEPT !.applied = applied, !.late = late]
  <1>1. st \in WebStates /\ st.expired \in Nat /\ st.applied \in SUBSET W!Muts /\ st.late \in SUBSET W!Muts
    BY DEF WebInv, WebStates
  <1>2. applied \in SUBSET W!Muts /\ late \in SUBSET W!Muts /\ st.applied \subseteq applied /\ applied = st.applied \cup {m}
    BY <1>1
  <1> HIDE DEF applied
  <1>3. st2 \in WebStates
    <2>1. applied \in SUBSET W!Muts /\ late \in SUBSET W!Muts
      BY <1>2
    <2> QED BY <1>1, <2>1 DEF WebStates
  <1>4. /\ st2.applied = applied /\ st2.late = late /\ st2.call = st.call /\ st2.mut = st.mut /\ WebView(st, st2) /\ WebLink(st, st2)
        /\ st2.up = st.up /\ st2.down = st.down /\ st2.regs = st.regs /\ st2.expired = st.expired
    BY <1>1 DEF WebStates, WebView, WebLink
  <1> HIDE DEF st2
  <1>5. WebResults(st2) /\ WebShown(st2) /\ WebSocket(st2) /\ WebAsked(st2) /\ WebTokens(st2)
    <2>1. st.expired <= st2.expired /\ st2.ws = st.ws /\ st.applied \subseteq st2.applied
      BY <1>1, <1>2, <1>4 DEF WebLink
    <2> QED BY <1>3, <1>4, <2>1, WebFacets
  <1>6. WebCalls(st2)
    <2>1. \A k \in W!Muts : k \in WebFlight(st2) => k \in WebFlight(st) \/ k = m
      BY <1>2, <1>4 DEF WebFlight, W!Unread
    <2> QED BY <1>2, <1>4, <2>1 DEF WebInv, WebCalls
  <1>7. WebInv(st2)
    BY <1>3, <1>5, <1>6 DEF WebInv
  <1> QED BY <1>7 DEF st2, applied

\* The server applies a mutation and says so, or refuses one it never applied.
LEMMA WebServeMutate ==
    ASSUME WebInv(s), W!ServeMutate
    PROVE  WebInv(s')
  <1> DEFINE m == Head(s.up).id
             q == W!Served
             b == W!Bothered
  <1>1. s.up # <<>> /\ Head(s.up).t = "mut"
    BY DEF W!ServeMutate, W!Asked
  <1>2. WebInv(q) /\ q.ws # 0 /\ m \in W!Muts /\ s.call[m] \notin {"idle", "unsent"} /\ q.call = s.call /\ q \in WebStates
    BY <1>1, WebServing DEF WebTold, WebInv
  <1>3. CASE s' = W!Down([W!Served EXCEPT !.applied = @ \cup {m}], [t |-> "result", id |-> m, ok |-> TRUE])
    <2> DEFINE f == [t |-> "result", id |-> m, ok |-> TRUE]
               a == [q EXCEPT !.applied = @ \cup {m}]
    <2>1. s' = W!Down(a, f)
      BY <1>3
    <2>2. f \in WebReplies /\ f.t = "result" /\ f.id = m
      BY <1>2 DEF WebReplies
    <2> HIDE DEF f, q, m
    <2>3. a = [q EXCEPT !.applied = @ \cup {m}, !.late = q.late]
      BY <1>2 DEF WebStates
    <2>4. WebInv([q EXCEPT !.applied = @ \cup {m}, !.late = q.late])
      <3>1. q.call[m] \notin {"idle", "unsent"} /\ q.late \in SUBSET q.late
        BY <1>2
      <3> QED BY <1>2, <3>1, WebApply
    <2>5. WebInv(a) /\ a.ws = q.ws /\ m \in a.applied
      <3>1. a.ws = q.ws /\ a.applied = q.applied \cup {m}
        BY <1>2 DEF WebStates
      <3>2. WebInv(a)
        BY <2>3, <2>4
      <3> QED BY <3>1, <3>2
    <2>6. ~WebAck(f)
      BY <2>2 DEF WebAck
    <2> HIDE DEF a
    <2> QED BY <1>2, <2>1, <2>2, <2>5, <2>6, WebDown
  <1>4. CASE s' = W!Down(W!Bothered, [t |-> "result", id |-> m, ok |-> FALSE])
    <2> DEFINE f == [t |-> "result", id |-> m, ok |-> FALSE]
    <2>1. f \in WebReplies /\ f.t = "result" /\ ~f.ok
      BY <1>2 DEF WebReplies
    <2>2. WebInv(b) /\ b.ws # 0
      <3> DEFINE n == q.trouble + 1
      <3>2. b = [q EXCEPT !.trouble = n]
        BY DEF W!Bothered
      <3> HIDE DEF q, b, m
      <3>3. n \in Nat
        BY <1>2 DEF WebStates
      <3> HIDE DEF n
      <3>4. [q EXCEPT !.trouble = n].ws = q.ws
        BY <1>2 DEF WebStates
      <3> QED BY <1>2, <3>2, <3>3, <3>4, WebTrouble
    <2> HIDE DEF f
    <2>3. ~WebAck(f)
      BY <2>1 DEF WebAck
    <2>4. s' = W!Down(b, f)
      BY <1>4 DEF f
    <2> HIDE DEF b
    <2> QED BY <2>1, <2>2, <2>3, <2>4, WebDown
  <1> QED BY <1>3, <1>4 DEF W!ServeMutate

\* A late frame of a lost connection is applied.
LEMMA WebServeLate ==
    ASSUME WebInv(s), NEW m \in W!Muts, W!ServeLate(m)
    PROVE  WebInv(s')
  <1> DEFINE late == s.late \ {m}
  <1>1. m \in s.late /\ s' = [s EXCEPT !.late = late, !.applied = @ \cup {m}]
    BY DEF W!ServeLate
  <1>2. s.call[m] \notin {"idle", "unsent"}
    BY <1>1 DEF WebInv, WebCalls, WebFlight
  <1>3. late \in SUBSET s.late
    OBVIOUS
  <1> HIDE DEF late
  <1>4. WebInv([s EXCEPT !.applied = @ \cup {m}, !.late = late])
    BY <1>2, <1>3, WebApply
  <1>5. s' = [s EXCEPT !.applied = @ \cup {m}, !.late = late]
    BY <1>1
  <1> QED BY <1>4, <1>5

\* The server pushes a newer version to a registration.
LEMMA WebPush ==
    ASSUME WebInv(s), NEW i \in W!Subs, W!Push(i)
    PROVE  WebInv(s')
  <1> DEFINE a == [s EXCEPT !.sent[i] = s.v]
             f == [t |-> "snapshot", id |-> i, v |-> s.v]
  <1>1. s' = W!Down(a, f) /\ s.ws # 0
    BY DEF W!Push, WebInv, WebSocket
  <1>2. s.v \in Nat \ {0}
    BY DEF WebInv, WebStates
  <1>3. f \in WebReplies /\ f.t = "snapshot"
    BY <1>2 DEF WebReplies
  <1>4. WebInv(a) /\ a.ws # 0
    BY <1>1, <1>2, WebRegisters
  <1> HIDE DEF a, f
  <1>5. ~WebAck(f)
    BY <1>3 DEF WebAck
  <1> QED BY <1>1, <1>3, <1>4, <1>5, WebDown

\* Versions are committed, tokens issued and tokens expire.
LEMMA WebClock ==
    ASSUME WebInv(s), W!Commit \/ W!Issue \/ W!Expire
    PROVE  WebInv(s')
  <1> DEFINE v == s.v + 1
             issued == s.issued + 1
             expired == s.expired + 1
  <1>0. s \in WebStates /\ s.v \in Nat \ {0} /\ s.issued \in Nat \ {0} /\ s.expired \in Nat
    BY DEF WebInv, WebStates
  <1>1. v \in Nat \ {0} /\ issued \in Nat \ {0} /\ expired \in Nat /\ s.expired <= expired /\ s.expired <= s.expired
    BY <1>0
  <1>2. s' = [s EXCEPT !.v = v] \/ s' = [s EXCEPT !.issued = issued] \/ s' = [s EXCEPT !.expired = expired]
    BY DEF W!Commit, W!Issue, W!Expire
  <1> HIDE DEF v, issued, expired
  <1>3. s' \in WebStates
    <2>1. v \in Nat \ {0} /\ issued \in Nat \ {0} /\ expired \in Nat
      BY <1>1
    <2>5. s \in WebStates
      BY <1>0
    <2>2. [s EXCEPT !.v = v] \in WebStates
      BY <2>5, <2>1 DEF WebStates
    <2>3. [s EXCEPT !.issued = issued] \in WebStates
      BY <2>5, <2>1 DEF WebStates
    <2>4. [s EXCEPT !.expired = expired] \in WebStates
      BY <2>5, <2>1 DEF WebStates
    <2> QED BY <1>2, <2>2, <2>3, <2>4
  <1>4. WebSame(s, s') /\ s'.regs = s.regs
    <2>2. CASE s' = [s EXCEPT !.v = v]
      BY <1>0, <1>1, <2>2 DEF WebStates, WebSame, WebTold, WebView, WebLink
    <2>3. CASE s' = [s EXCEPT !.issued = issued]
      BY <1>0, <1>1, <2>3 DEF WebStates, WebSame, WebTold, WebView, WebLink
    <2>4. CASE s' = [s EXCEPT !.expired = expired]
      BY <1>0, <1>1, <2>4 DEF WebStates, WebSame, WebTold, WebView, WebLink
    <2> QED BY <1>2, <2>2, <2>3, <2>4
  <1> QED BY <1>3, <1>4, WebPlain

\* The server admits a token longer than the one before, and rejects only one
\* that has expired: the client never asks with an older one.
LEMMA WebServeAuth ==
    ASSUME WebInv(s), W!ServeAuth
    PROVE  WebInv(s')
  <1> DEFINE h == Head(s.up)
             token == h.id
             q == W!Served
             reply == IF token <= s.expired \/ token <= s.auth THEN [t |-> "fail", id |-> token]
                      ELSE IF h.t = "hello" THEN [t |-> "welcome", v |-> s.v] ELSE [t |-> "auth", id |-> 0]
  <1>1. s.up # <<>> /\ h.t \in {"hello", "auth"} /\ s' = [W!Down(W!Served, reply) EXCEPT !.auth = IF reply.t = "fail" THEN @ ELSE token]
    BY DEF W!ServeAuth
  <1>2. /\ WebInv(q) /\ h \in WebFrames /\ q.ws # 0
        /\ WebTold(s, q) /\ WebView(s, q) /\ WebLink(s, q) /\ q.up = Tail(s.up) /\ q.down = s.down /\ q.regs = s.regs /\ q.expired = s.expired
    BY <1>1, WebServing
  <1>3. s \in WebStates /\ q \in WebStates /\ s.up \in Seq(WebFrames) /\ s.down \in Seq(WebReplies) /\ s.v \in Nat /\ s.expired \in Nat
        /\ s.auth \in Nat /\ s.token \in Nat
    BY <1>2 DEF WebInv, WebStates
  <1>4. token \in Nat
    BY <1>1, <1>2 DEF WebFrames
  <1>5. Len(s.up) \in Nat \ {0} /\ s.up[1] = h
    BY <1>1, <1>3
  <1>6. token > s.auth
    <2>1. WebAsked(s) /\ 1 \in 1..Len(s.up)
      BY <1>5 DEF WebInv
    <2> HIDE DEF h
    <2> QED BY <2>1, <1>1, <1>5 DEF WebAsked
  <1>7. CASE token <= s.expired
    <2> DEFINE f == [t |-> "fail", id |-> token]
    <2>1. reply = f /\ f \in WebReplies /\ f.t = "fail" /\ f.id = token
      BY <1>4, <1>7 DEF WebReplies
    <2>2. ~WebAck(f) /\ f.t # "result"
      BY <2>1 DEF WebAck
    <2>3. s' = [W!Down(q, f) EXCEPT !.auth = W!Down(q, f).auth]
      BY <1>1, <2>1
    <2> HIDE DEF f, q, reply, token
    <2>4. WebInv(W!Down(q, f))
      BY <1>2, <1>3, <1>7, <2>1, <2>2, WebDown
    <2> DEFINE d == W!Down(q, f)
    <2>5. d \in WebStates
      BY <2>4 DEF WebInv
    <2> HIDE DEF d
    <2>6. [d EXCEPT !.auth = d.auth] = d
      BY <2>5 DEF WebStates
    <2> QED BY <2>3, <2>4, <2>6 DEF d
  <1>8. CASE ~(token <= s.expired)
    <2> DEFINE down == Append(s.down, reply)
               st2 == [q EXCEPT !.down = down, !.auth = token]
    <2>1. /\ reply \in WebReplies /\ WebAck(reply) /\ reply.t # "fail" /\ reply.t # "result"
          /\ reply.t = "welcome" <=> h.t = "hello"
          /\ reply.t = "auth" <=> h.t = "auth"
      <3>1. reply = IF h.t = "hello" THEN [t |-> "welcome", v |-> s.v] ELSE [t |-> "auth", id |-> 0]
        BY <1>3, <1>4, <1>6, <1>8
      <3> QED BY <1>1, <1>3, <3>1 DEF WebReplies, WebAck
    <2>2. s' = st2
      <3>1. s' = [W!Down(q, reply) EXCEPT !.auth = token]
        BY <1>1, <2>1
      <3> HIDE DEF q, reply, token
      <3> QED BY <1>2, <3>1 DEF W!Down
    <2>3. /\ Len(down) = Len(s.down) + 1 /\ down \in Seq(WebReplies)
          /\ \A k \in 1..Len(down) : IF k <= Len(s.down) THEN down[k] = s.down[k] ELSE k = Len(down) /\ down[k] = reply
      <3> HIDE DEF reply
      <3> QED BY <1>3, <2>1
    <2> HIDE DEF q, reply, token, down
    <2>4. st2 \in WebStates
      <3>1. q \in WebStates /\ down \in Seq(WebReplies) /\ token \in Nat
        BY <1>3, <1>4, <2>3
      <3> QED BY <3>1 DEF WebStates
    <2>5. /\ st2.down = down /\ st2.auth = token /\ st2.up = q.up /\ st2.regs = q.regs /\ st2.expired = q.expired
          /\ WebTold(q, st2) /\ WebView(q, st2)
          /\ st2.ws = q.ws /\ st2.attempt = q.attempt /\ st2.state = q.state /\ st2.reconnect = q.reconnect /\ st2.why = q.why
          /\ st2.reads = q.reads /\ st2.timer = q.timer /\ st2.deadline = q.deadline /\ st2.pending = q.pending
          /\ st2.token = q.token /\ st2.gen = q.gen /\ st2.refused = q.refused
      BY <1>3 DEF WebStates, WebTold, WebView
    <2> HIDE DEF st2
    <2>6. WebCalls(st2) /\ WebShown(st2)
      BY <1>2, <2>4, <2>5, WebFacets
    <2>7. WebResults(st2)
      <3>1. WebResults(q) /\ st2.applied = q.applied
        BY <1>2, <2>5 DEF WebInv, WebTold
      <3> QED BY <1>2, <2>1, <2>3, <2>5, <3>1, <1>3 DEF WebResults
    <2>8. WebSocket(st2)
      <3>1. WebSocket(q) /\ q.ws # 0
        BY <1>2 DEF WebInv
      <3> QED BY <2>5, <3>1 DEF WebSocket
    <2>9. /\ h.t = "hello" => s.state = "connecting" /\ token = s.token
          /\ h.t = "auth" => s.pending.at = "sent" /\ token = s.pending.claims
      <3>1. WebAsked(s) /\ 1 \in 1..Len(s.up)
        BY <1>5 DEF WebInv
      <3>2. token = h.id
        BY DEF token
      <3> HIDE DEF h
      <3> QED BY <3>1, <3>2, <1>5 DEF WebAsked
    <2>10. WebAsked(st2)
      <3>1. WebAsked(s)
        BY DEF WebInv
      <3>2. \A k \in 1..Len(s.down) : ~WebAck(s.down[k])
        <4>1. WebAsk(s.up[1]) /\ 1 \in 1..Len(s.up)
          BY <1>1, <1>5 DEF WebAsk
        <4> QED BY <3>1, <4>1 DEF WebAsked
      <3>3. \A k \in 1..Len(st2.up) : ~WebAsk(st2.up[k])
        <4>1. Len(q.up) = Len(s.up) - 1 /\ \A k \in 1..Len(q.up) : q.up[k] = s.up[k + 1] /\ k + 1 \in 1..Len(s.up)
          BY <1>1, <1>2, <1>3
        <4>2. WebAsk(s.up[1]) /\ 1 \in 1..Len(s.up)
          BY <1>1, <1>5 DEF WebAsk
        <4>3. \A j, k \in 1..Len(s.up) : WebAsk(s.up[j]) /\ WebAsk(s.up[k]) => j = k
          BY <3>1 DEF WebAsked
        <4>4. ASSUME NEW k \in 1..Len(q.up), WebAsk(q.up[k]) PROVE FALSE
          <5>1. k + 1 = 1
            BY <4>1, <4>2, <4>3, <4>4
          <5> QED BY <5>1, <4>4
        <4> QED BY <2>5, <4>4
      <3>4. st2.state = s.state /\ st2.pending = s.pending
        BY <1>2, <2>5 DEF WebLink
      <3>5. \A k \in 1..Len(down) : WebAck(down[k]) => k = Len(down) /\ down[k] = reply
        BY <2>3, <3>2, <1>3
      <3>6. \A k \in 1..Len(st2.up) : st2.up[k].t \notin {"hello", "auth"}
        BY <3>3 DEF WebAsk
      <3>7. \A k \in 1..Len(st2.down) : /\ st2.down[k].t = "welcome" => st2.state = "connecting"
                                        /\ st2.down[k].t = "auth" => st2.pending.at = "sent"
        <4>1. \A k \in 1..Len(down) : down[k].t \in {"welcome", "auth"} => down[k] = reply
          BY <3>5 DEF WebAck
        <4> QED BY <1>1, <2>1, <2>5, <2>9, <3>4, <4>1
      <3>8. \A j, k \in 1..Len(st2.down) : WebAck(st2.down[j]) /\ WebAck(st2.down[k]) => j = k
        BY <2>5, <3>5
      <3> QED BY <3>3, <3>6, <3>7, <3>8 DEF WebAsked
    <2>11. WebTokens(st2)
      <3>1. WebTokens(q) /\ WebSocket(s) /\ WebTokens(s) /\ s.ws # 0
        BY <1>2 DEF WebInv, WebLink
      <3>2. q.pending = s.pending /\ q.token = s.token /\ q.state = s.state /\ q.ws = s.ws
        BY <1>2 DEF WebLink
      <3>3. s.pending.at = "sent" => token <= s.pending.claims
        <4>1. s.pending.at = "sent" => s.state = "open"
          BY <3>1 DEF WebTokens
        <4> QED BY <1>1, <2>9, <4>1, <1>4
      <3>4. s.pending.at = "none" => token <= s.token
        BY <1>1, <2>9, <1>4
      <3>5. \A r : WebCurrent(st2, r) <=> WebCurrent(q, r)
        BY <2>5 DEF WebCurrent
      <3>6. WebIdle(st2) <=> WebIdle(q)
        BY <2>5 DEF WebIdle
      <3> QED BY <2>5, <3>1, <3>2, <3>3, <3>4, <3>5, <3>6 DEF WebTokens
    <2>12. WebInv(st2)
      BY <2>4, <2>6, <2>7, <2>8, <2>10, <2>11 DEF WebInv
    <2> QED BY <2>2, <2>12 DEF st2
  <1> QED BY <1>7, <1>8

\* The socket is lost at any moment.
LEMMA WebDisconnect ==
    ASSUME WebInv(s), W!Disconnect
    PROVE  WebInv(s')
  <1> DEFINE st2 == W!OnClose(W!RevokeSocket(s))
             n == s.faults + 1
  <1>1. WebInv(st2)
    BY WebLost DEF W!Disconnect
  <1>2. s' = [st2 EXCEPT !.faults = st2.faults + 1]
    BY DEF W!Disconnect
  <1> HIDE DEF st2, n
  <1>3. st2.faults + 1 \in Nat
    <2>1. st2 \in WebStates
      BY <1>1 DEF WebInv
    <2>2. st2.faults \in Nat
      BY <2>1 DEF WebStates
    <2> QED BY <2>2
  <1> QED BY <1>1, <1>2, <1>3, WebTrouble

\* No step of the client, its timers, its JWT reads or the server breaks the
\* invariant: one step of the proof per action.
LEMMA WebStepKeepsInv ==
    ASSUME WebIInv, W!Step
    PROVE  WebInv(s')
  <1>0. WebMixOK /\ WebInv(s)
    BY DEF WebIInv
  <1>1. ASSUME NEW m \in W!Muts, W!Mutate(m) \/ W!MutateSendFails(m) \/ W!MutationTimeout(m) \/ W!ServeLate(m) PROVE WebInv(s')
    BY <1>0, <1>1, WebMutates, WebNotSent, WebTimeout, WebServeLate
  <1>2. ASSUME NEW i \in W!Subs, W!Subscribe(i) \/ W!Unsubscribe(i) PROVE WebInv(s')
    BY <1>0, <1>2, WebSubscribes, WebUnsubscribes
  <1>3. ASSUME NEW r \in s.reads, W!ConnectJwtFails(r) \/ W!RefreshReadFails(r) PROVE WebInv(s')
    BY <1>0, <1>3, WebConnectFails, WebReadFails
  <1>4. CASE W!Jwt
    BY <1>0, <1>4, WebConnect, WebRefresh DEF W!Jwt
  <1>5. CASE W!Timers
    BY <1>0, <1>5, WebStartConnect, WebRetries, WebSubRetry DEF W!Timers
  <1>6. CASE W!BeginAuthRefresh \/ W!Deadline \/ W!ExpireRetainedResumeState
    BY <1>0, <1>6, WebBegin, WebEnds, WebWindowEnds
  <1>7. CASE W!Disconnect \/ W!Close
    BY <1>0, <1>7, WebDisconnect, WebEnds
  <1>8. CASE W!HandleDown
    BY <1>0, <1>8, WebWelcome, WebAuthChanged, WebRejected, WebSettle, WebSnapshot, WebRefetches, WebSubError DEF W!HandleDown
  <1>9. CASE W!Serve
    BY <1>0, <1>9, WebServeAuth, WebServeSubscribe, WebServeUnsubscribe, WebServeMutate, WebPush DEF W!Serve
  <1>10. CASE W!Commit \/ W!Issue \/ W!Expire
    BY <1>0, <1>10, WebClock
  <1> QED BY <1>1, <1>2, <1>3, <1>4, <1>5, <1>6, <1>7, <1>8, <1>9, <1>10 DEF W!Step

\* The invariant says what the run checks of the TypeScript client.
LEMMA WebInvIsSafe == WebIInv => W!Safe
  <1> SUFFICES ASSUME WebIInv PROVE W!Safe
    OBVIOUS
  <1>0. WebInv(s) /\ mix \in WebClientMixes /\ s \in WebStates
    BY DEF WebIInv, WebMixOK, WebInv
  <1>1. W!TypeOK
    <2>1. s.state \in {"connecting", "open", "reconnecting", "closed"} /\ s.mut \in [W!Muts -> {"none", "queued", "sent"}]
      BY <1>0 DEF WebStates
    <2> QED BY <1>0, <2>1 DEF W!TypeOK, WebInv, WebSocket, WebShown
  <1>2. W!NotSentIsFinal
    BY <1>0 DEF W!NotSentIsFinal, WebInv, WebCalls, WebFlight
  <1>3. W!WindowBoundsRows
    <2>1. ASSUME s.ws = 0, ~s.window, NEW i \in W!Live(s), s.sub[i].rows # 0 PROVE s.sub[i].replayed
      <3>1. i \in W!Subs /\ s.sub[i].at # "none" /\ i \notin s.kept
        BY <1>0, <2>1 DEF W!Live, W!Ends, WebInv, WebShown
      <3> QED BY <1>0, <2>1, <3>1 DEF WebInv, WebShown
    <2> QED BY <2>1 DEF W!WindowBoundsRows
  <1>4. W!EndsForCause
    BY <1>0 DEF W!EndsForCause, WebInv, WebTokens
  <1> QED BY <1>1, <1>2, <1>3, <1>4 DEF W!Safe
=============================================================================
