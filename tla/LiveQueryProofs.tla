--------------------------- MODULE LiveQueryProofs ---------------------------
(***************************************************************************)
(* A live query for every number of registration ids, changes, epochs and  *)
(* faults, with or without a movement and slow calls.                      *)
(*                                                                         *)
(* The argument about registrations: an id is handed out only when nothing *)
(* remembers it, so what a task, a call in the network or a Cdb knows of   *)
(* it belongs to one life of the id.  The head names the one generation    *)
(* that is being installed or active; a Cdb's row is dropped only for a    *)
(* generation that is marked for cleanup, and such a one is never          *)
(* activated.                                                              *)
(***************************************************************************)
EXTENDS LiveQuery, TLAPS

Early == {"queued", "auth", "install"}
Waiting == {"send", "rpc", "ok", "absent", "throws"}

TaskRecs == [at : SubscribeSteps, cancelled : BOOLEAN, conn : {0} \cup Conns, shard : Shards,
             auth : Nat, ok : BOOLEAN, seq : Nat, replay : BOOLEAN]
GenRecs == [life : {"none", "installing", "active", "retiring"},
            cdb : {"none", "pending", "active", "retiring"},
            conn : Nat, shard : Shards, auth : Nat, dirty : Nat, delivered : Nat,
            initial : BOOLEAN, token : {0} \cup Tokens, target : Nat]
SnapRecs == [rows : 0..mix.rows, target : Nat, claim : {0} \cup Tokens]
Sights == {"none", "fresh", "changed", "refetch", "retire"}
RunRecs == [g : Gens, tok : Tokens, target : Nat,
            at : {"auth", "query", "ok", "stale", "bad", "stage", "failed"},
            shard : Shards, auth : Nat, see : Sights, rows : 0..mix.rows]
SendRecs == [g : Gens, tok : Tokens, target : Nat, rows : 0..mix.rows, shard : Shards, auth : Nat,
             see : Sights]
DelivRecs == [c : Shards, g : Gens, seq : Nat, at : {"sent", "answered"}]
Frames == [k : {"sub", "unsub", "ack", "snap", "lagged", "refetch", "retry", "error"}, c : Cookies]
Calls == [g : Gens, shard : Shards]
Replays == [c : Cookies, shard : Shards, auth : Nat]

-----------------------------------------------------------------------------
(* The types, by what changes together.                                    *)

MixT == mix \in Mixes
CdbT == /\ rows \in 1..mix.rows
        /\ clock \in [Shards -> Nat]
        /\ sub \in [Shards -> [Gens -> {"absent", "active", "retired"}]]
        /\ out \in [Shards -> [Gens -> Nat]]
        /\ fenced \in {"open", "closed", "gone"}
AuthT == /\ epoch \in Nat /\ granted \in BOOLEAN
         /\ authTo \in [Shards -> Nat]
         /\ authCall \in [Shards -> [at : {"none", "sent", "answered"}, epoch : Nat]]
         /\ authSeen \in [Shards -> Nat]
GwT == /\ head \in 0..mix.gens
       /\ gen \in [Gens -> GenRecs]
       /\ snap \in [Gens -> SnapRecs]
       /\ replay \in Replays
TaskT == task \in [Gens -> TaskRecs] /\ late \subseteq Calls
WorkT == clean \in [Gens -> 0..2] /\ runs \subseteq RunRecs /\ sends \subseteq SendRecs
DelivT == deliv \subseteq DelivRecs
SockT == sock \in {0} \cup Conns /\ listed \in BOOLEAN /\ resume \in {"no", "try", "told"} /\ base \in Cookies
FrameT == down \in Seq(Frames) /\ up \in Seq(Frames)
ClientT == /\ cst \in {"closed", "pending", "live", "refetching", "error"}
           /\ shown \in 0..mix.rows /\ cookie \in Cookies /\ last \in Cookies
           /\ kept \in BOOLEAN /\ timer \in BOOLEAN
FaultT == faults \in 0..mix.faults

\* A delivery never carries more than the clock of its Cdb.
DelivOK == \A d \in deliv : d.seq <= clock[d.c]
OutOK == \A c \in Shards, g \in Gens : out[c][g] <= clock[c]

Typed == MixT /\ CdbT /\ AuthT /\ GwT /\ TaskT /\ WorkT /\ DelivT /\ SockT /\ FrameT /\ ClientT /\ FaultT

-----------------------------------------------------------------------------
(* Registrations.                                                          *)

LateOf(g) == {l \in late : l.g = g}

\* The head is the one generation that is being installed or active.
HeadOK(g) ==
  /\ head = g <=> gen[g].life \in {"installing", "active"}
  /\ gen[g].life = "none" => gen[g].cdb = "none"
  /\ gen[g].life = "installing" => gen[g].cdb = "pending"
  /\ gen[g].life = "active" => gen[g].cdb = "active"
  /\ gen[g].life = "retiring" => gen[g].cdb \in {"pending", "retiring"}

\* A cleanup under way is one of a generation marked for it.
CleanOK(g) == clean[g] # 0 => ToClean(g)

\* What is known of a generation outside of the Gateway is at its own shard.
ShardOK(g) ==
  gen[g].life # "none" =>
     /\ task[g].at \in Waiting => task[g].shard = gen[g].shard
     /\ \A l \in LateOf(g) : l.shard = gen[g].shard
     /\ \A c \in Shards : sub[c][g] # "absent" => c = gen[g].shard

\* Nobody knows an id that is not installed yet.
EarlyOK(g) ==
  /\ task[g].at \in Early => gen[g].life = "none" /\ \A c \in Shards : sub[c][g] = "absent"
  /\ task[g].at \in Early \cup {"send", "rpc"} => LateOf(g) = {}

\* A generation that may be activated, and one that is active, is registered.
ActiveOK(g) ==
  /\ task[g].at = "ok" /\ gen[g].cdb = "pending" => sub[task[g].shard][g] = "active"
  /\ gen[g].life = "active" => sub[gen[g].shard][g] = "active"

\* Without slow calls a call under way belongs to a generation whose state at
\* the Cdb the Gateway does not know, and what a Cdb registers is known.
QuietOK(g) ==
  ~mix.slow =>
     /\ task[g].at \in Waiting => gen[g].cdb = "pending"
     /\ task[g].at \in {"send", "rpc", "absent"} => \A c \in Shards : sub[c][g] = "absent"
     /\ LateOf(g) # {} => task[g].at = "idle" /\ gen[g].cdb = "pending"
     /\ \A c \in Shards : sub[c][g] = "active" => gen[g].life # "none" /\ clean[g] = 0

RegOK(g) == HeadOK(g) /\ CleanOK(g) /\ ShardOK(g) /\ EarlyOK(g) /\ ActiveOK(g) /\ QuietOK(g)
Registered == \A g \in Gens : RegOK(g)

RInv == Typed /\ DelivOK /\ OutOK /\ Registered

-----------------------------------------------------------------------------
(* What a step that changes one group leaves of the others.                *)

LEMMA SameBounds ==
    ASSUME UNCHANGED mix
    PROVE  /\ Gens' = Gens /\ Conns' = Conns /\ Cookies' = Cookies /\ TaskRecs' = TaskRecs /\ GenRecs' = GenRecs
           /\ SnapRecs' = SnapRecs /\ RunRecs' = RunRecs /\ SendRecs' = SendRecs /\ DelivRecs' = DelivRecs
           /\ Frames' = Frames /\ Calls' = Calls /\ Replays' = Replays
  BY DEF Gens, Conns, Cookies, TaskRecs, GenRecs, SnapRecs, RunRecs, SendRecs, DelivRecs, Frames, Calls, Replays

LEMMA Bounds ==
    ASSUME MixT
    PROVE  /\ mix.gens \in Nat /\ mix.gens > 0 /\ mix.rows \in Nat /\ mix.rows > 0 /\ mix.epochs \in Nat
           /\ mix.faults \in Nat /\ mix.moves \in BOOLEAN /\ mix.slow \in BOOLEAN
           /\ Source \in Shards /\ Dest \in Shards /\ Source # Dest /\ 0 \notin Gens /\ Gens \subseteq Nat
  BY LiveBounds DEF MixT, Shards, Source, Dest, Gens

LEMMA TypeFrames ==
    ASSUME Typed, UNCHANGED mix
    PROVE  /\ MixT'
           /\ UNCHANGED <<rows, clock, sub, out, fenced>> => CdbT'
           /\ UNCHANGED <<epoch, granted, authTo, authCall, authSeen>> => AuthT'
           /\ UNCHANGED <<head, gen, snap, replay>> => GwT'
           /\ UNCHANGED <<task, late>> => TaskT'
           /\ UNCHANGED <<clean, runs, sends>> => WorkT'
           /\ UNCHANGED deliv => DelivT'
           /\ UNCHANGED <<sock, listed, resume, base>> => SockT'
           /\ UNCHANGED <<down, up>> => FrameT'
           /\ UNCHANGED <<cst, shown, cookie, last, kept, timer>> => ClientT'
           /\ UNCHANGED faults => FaultT'
  BY SameBounds, SMTT(30) DEF Typed, MixT, CdbT, AuthT, GwT, TaskT, WorkT, DelivT, SockT, FrameT, ClientT, FaultT

\* A fault is one of a bounded number.
LEMMA FaultFrame ==
    ASSUME Typed, UNCHANGED mix, Fault
    PROVE  FaultT'
  BY Bounds DEF Typed, FaultT, Fault

\* What is known of a registration does not change.
LEMMA SameReg ==
    ASSUME Typed, UNCHANGED mix, NEW g \in Gens, RegOK(g), (head' = g) <=> (head = g),
           gen'[g].life = gen[g].life, gen'[g].cdb = gen[g].cdb, gen'[g].shard = gen[g].shard,
           task'[g].at = task[g].at, task'[g].shard = task[g].shard, LateOf(g)' = LateOf(g),
           \A c \in Shards : sub'[c][g] = sub[c][g], clean'[g] = clean[g]
    PROVE  RegOK(g)'
  <1>1. HeadOK(g)' /\ CleanOK(g)'
    BY DEF RegOK, HeadOK, CleanOK, ToClean
  <1>2. ShardOK(g)' /\ EarlyOK(g)'
    BY DEF RegOK, ShardOK, EarlyOK
  <1>3. ActiveOK(g)'
    <2>1. gen[g].shard \in Shards /\ task[g].shard \in Shards
      BY DEF Typed, GwT, TaskT, GenRecs, TaskRecs
    <2> QED BY <2>1 DEF RegOK, ActiveOK
  <1>4. QuietOK(g)'
    BY DEF RegOK, QuietOK
  <1> QED BY <1>1, <1>2, <1>3, <1>4 DEF RegOK

LEMMA RegFrame ==
    ASSUME Typed, Registered, UNCHANGED <<mix, head, task, late, sub, clean>>,
           \A g \in Gens : gen'[g].life = gen[g].life /\ gen'[g].cdb = gen[g].cdb /\ gen'[g].shard = gen[g].shard
    PROVE  Registered'
  <1>1. ASSUME NEW g \in Gens PROVE RegOK(g)'
    <2>1. RegOK(g) /\ LateOf(g)' = LateOf(g)
      BY DEF Registered, LateOf
    <2> QED BY <2>1, SameReg
  <1> QED BY <1>1, SameBounds DEF Registered

-----------------------------------------------------------------------------
(* Changes of the data, of its place and of the authority over it.         *)

LEMMA Enqueues ==
    ASSUME Typed, DelivOK, OutOK, UNCHANGED <<mix, deliv>>, NEW c \in Shards, NEW regs,
           Enqueue(c, regs) \/ EnqueueIfAny(c, regs)
    PROVE  clock' \in [Shards -> Nat] /\ out' \in [Shards -> [Gens -> Nat]] /\ DelivOK' /\ OutOK'
  <1>0. clock \in [Shards -> Nat] /\ out \in [Shards -> [Gens -> Nat]] /\ deliv \subseteq DelivRecs
    BY DEF Typed, CdbT, DelivT
  <1>1. CASE UNCHANGED <<clock, out>>
    BY <1>0, <1>1, SameBounds DEF DelivOK, OutOK
  <1>2. CASE Enqueue(c, regs)
    <2>1. clock' = [clock EXCEPT ![c] = clock[c] + 1]
      BY <1>2 DEF Enqueue
    <2>2. PICK q : q = Enqueued(c, regs)
      OBVIOUS
    <2>3. out' = [out EXCEPT ![c] = q]
      BY <1>2, <2>2 DEF Enqueue
    <2>4. q \in [Gens -> Nat] /\ \A g \in Gens : q[g] <= clock[c] + 1
      BY <1>0, <2>2 DEF Enqueued, OutOK
    <2>5. \A x \in Shards : clock'[x] \in Nat /\ clock'[x] >= clock[x]
      BY <1>0, <2>1
    <2>6. DelivOK'
      BY <1>0, <2>5 DEF DelivOK, DelivRecs
    <2>7. OutOK'
      BY <1>0, <2>1, <2>3, <2>4, SameBounds DEF OutOK
    <2> QED BY <1>0, <2>1, <2>3, <2>4, <2>6, <2>7
  <1> QED BY <1>1, <1>2 DEF EnqueueIfAny

\* A change that is not the Gateway's, nor of the registrations.
GatewayStays == UNCHANGED <<gwVars, taskVars, workVars, deliv, sockVars, down, up, clientVars>>

LEMMA OutsideChange ==
    ASSUME RInv, UNCHANGED <<mix, sub>>, GatewayStays, FaultT', CdbT', AuthT', DelivOK', OutOK'
    PROVE  RInv'
  <1>1. Typed /\ Registered
    BY DEF RInv
  <1>2. Registered'
    BY <1>1, RegFrame DEF GatewayStays, gwVars, taskVars, workVars
  <1>3. MixT' /\ GwT' /\ TaskT' /\ WorkT' /\ DelivT' /\ SockT' /\ FrameT' /\ ClientT'
    BY <1>1, TypeFrames DEF GatewayStays, gwVars, taskVars, workVars, sockVars, clientVars
  <1> QED BY <1>2, <1>3 DEF RInv, Typed

LEMMA DataSteps ==
    ASSUME RInv, UNCHANGED mix, DoMutate \/ DoFence \/ DoCancelFence \/ DoCutover
    PROVE  RInv'
  <1>0. Typed /\ DelivOK /\ OutOK /\ CdbT
    BY DEF RInv, Typed
  <1>1. GatewayStays /\ UNCHANGED <<sub, authSeen, epoch, granted, authTo, authCall>>
    BY DEF DoMutate, DoFence, DoCancelFence, DoCutover, Mutate, ActivateRoutingFence, CancelRoutingFence, CutoverRoute,
           gatewayVars, GatewayStays, catalogVars
  <1>2. UNCHANGED faults \/ Fault
    BY DEF DoMutate, DoFence, DoCancelFence, DoCutover, gatewayVars
  <1>3. FaultT' /\ AuthT' /\ deliv' = deliv
    BY <1>0, <1>1, <1>2, TypeFrames, FaultFrame DEF GatewayStays
  <1>4. CASE DoMutate
    <2>1. rows' \in 1..mix.rows
      BY <1>0, <1>4, Bounds DEF DoMutate, Mutate, CdbT, Typed
    <2>2. /\ Route \in Shards /\ Enqueue(Route, Active(Route)) /\ fenced' = fenced
      BY <1>4 DEF DoMutate, Mutate, Route, Shards
    <2>3. clock' \in [Shards -> Nat] /\ out' \in [Shards -> [Gens -> Nat]] /\ DelivOK' /\ OutOK'
      BY <1>0, <1>3, <2>2, Enqueues
    <2>4. CdbT'
      BY <1>0, <1>1, <2>1, <2>2, <2>3, SameBounds DEF CdbT
    <2> QED BY <1>1, <1>3, <2>3, <2>4, OutsideChange
  <1>5. CASE DoFence
    <2>1. EnqueueIfAny(Source, Active(Source)) /\ fenced' = "closed" /\ rows' = rows /\ Source \in Shards
      BY <1>5 DEF DoFence, ActivateRoutingFence, Shards
    <2>2. clock' \in [Shards -> Nat] /\ out' \in [Shards -> [Gens -> Nat]] /\ DelivOK' /\ OutOK'
      BY <1>0, <1>3, <2>1, Enqueues
    <2>3. CdbT'
      BY <1>0, <1>1, <2>1, <2>2, SameBounds DEF CdbT
    <2> QED BY <1>1, <1>3, <2>2, <2>3, OutsideChange
  <1>6. CASE DoCancelFence \/ DoCutover
    <2>1. UNCHANGED <<rows, clock, out>> /\ fenced' \in {"open", "gone"}
      BY <1>6 DEF DoCancelFence, DoCutover, CancelRoutingFence, CutoverRoute
    <2>2. CdbT' /\ DelivOK' /\ OutOK'
      BY <1>0, <1>1, <1>3, <2>1, SameBounds DEF CdbT, DelivOK, OutOK
    <2> QED BY <1>1, <1>3, <2>2, OutsideChange
  <1> QED BY <1>4, <1>5, <1>6

LEMMA AuthSteps ==
    ASSUME RInv, UNCHANGED mix, NEW c \in Shards, DoMutateAuth \/ DoAuthStep(c) \/ DoDeferAuth(c) \/ DoPruneAuth(c)
    PROVE  RInv'
  <1>0. Typed /\ DelivOK /\ OutOK /\ CdbT /\ AuthT
    BY DEF RInv, Typed
  <1>1. GatewayStays /\ UNCHANGED <<sub, rows, fenced>>
    BY DEF DoMutateAuth, DoAuthStep, DoDeferAuth, DoPruneAuth, MutateAuth, SendAuthInvalidation, InvalidateAuthScope,
           CompleteAuthTarget, DeferAuthTarget, PruneInactiveScopes, gatewayVars, GatewayStays
  <1>2. UNCHANGED faults \/ Fault
    BY DEF DoMutateAuth, DoAuthStep, DoDeferAuth, DoPruneAuth, gatewayVars
  <1>3. FaultT' /\ deliv' = deliv
    BY <1>0, <1>1, <1>2, TypeFrames, FaultFrame DEF GatewayStays
  <1>4. CASE UNCHANGED <<clock, out>>
    <2>1. CdbT' /\ DelivOK' /\ OutOK'
      BY <1>0, <1>1, <1>3, <1>4, SameBounds DEF CdbT, DelivOK, OutOK
    <2>2. CASE DoMutateAuth
      <3>1. PICK still \in BOOLEAN, targets \in AuthTargets :
              /\ epoch' = epoch + 1 /\ granted' = still
              /\ authTo' = [x \in Shards |-> IF x \in targets THEN epoch + 1 ELSE authTo[x]]
              /\ authSeen' = authSeen /\ authCall' = authCall
        BY <2>2 DEF DoMutateAuth, MutateAuth
      <3>2. AuthT'
        BY <1>0, <3>1 DEF AuthT
      <3> QED BY <1>1, <1>3, <2>1, <3>2, OutsideChange
    <2>3. CASE DoAuthStep(c) \/ DoDeferAuth(c) \/ DoPruneAuth(c)
      <3>1. AuthT'
        <4>1. CASE SendAuthInvalidation(c)
          BY <1>0, <4>1 DEF AuthT, SendAuthInvalidation
        <4>2. CASE InvalidateAuthScope(c)
          BY <1>0, <4>2 DEF AuthT, InvalidateAuthScope
        <4>3. CASE CompleteAuthTarget(c)
          BY <1>0, <4>3 DEF AuthT, CompleteAuthTarget, NoCall
        <4>4. CASE DeferAuthTarget(c)
          BY <1>0, <4>4 DEF AuthT, DeferAuthTarget, NoCall, catalogVars
        <4>5. CASE PruneInactiveScopes(c)
          BY <1>0, <4>5 DEF AuthT, PruneInactiveScopes, catalogVars
        <4> QED BY <2>3, <4>1, <4>2, <4>3, <4>4, <4>5 DEF DoAuthStep, DoDeferAuth, DoPruneAuth
      <3> QED BY <1>1, <1>3, <2>1, <3>1, OutsideChange
    <2> QED BY <2>2, <2>3
  <1>5. CASE ~UNCHANGED <<clock, out>>
    <2>1. InvalidateAuthScope(c) /\ EnqueueIfAny(c, Active(c)) /\ authSeen[c] < authCall[c].epoch
      <3>1. InvalidateAuthScope(c)
        BY <1>5 DEF DoMutateAuth, DoAuthStep, DoDeferAuth, DoPruneAuth, MutateAuth, SendAuthInvalidation,
                    CompleteAuthTarget, DeferAuthTarget, PruneInactiveScopes
      <3>2. authSeen[c] \in Nat /\ authCall[c].epoch \in Nat
        BY <1>0 DEF AuthT
      <3> QED BY <1>5, <3>1, <3>2 DEF InvalidateAuthScope
    <2>2. clock' \in [Shards -> Nat] /\ out' \in [Shards -> [Gens -> Nat]] /\ DelivOK' /\ OutOK'
      BY <1>0, <1>3, <2>1, Enqueues
    <2>3. CdbT'
      BY <1>0, <1>1, <2>2, SameBounds DEF CdbT
    <2>4. AuthT'
      BY <1>0, <2>1 DEF AuthT, InvalidateAuthScope
    <2> QED BY <1>1, <1>3, <2>2, <2>3, <2>4, OutsideChange
  <1> QED BY <1>4, <1>5

-----------------------------------------------------------------------------
(* What the transactions of the Gateway's store do to the registrations.   *)

SameLives ==
  /\ head' = head
  /\ \A g \in Gens : gen'[g].life = gen[g].life /\ gen'[g].cdb = gen[g].cdb /\ gen'[g].shard = gen[g].shard

\* Changes of the versions and of the leases of a generation.
LEMMA GenKeeps ==
    ASSUME Typed, UNCHANGED <<mix, head>>, NEW g \in Gens, NEW r \in GenRecs, gen' = [gen EXCEPT ![g] = r],
           r.life = gen[g].life, r.cdb = gen[g].cdb, r.shard = gen[g].shard, snap' \in [Gens -> SnapRecs],
           replay' \in Replays
    PROVE  GwT' /\ SameLives
  <1>1. gen \in [Gens -> GenRecs] /\ head \in 0..mix.gens
    BY DEF Typed, GwT
  <1>2. gen' \in [Gens -> GenRecs]
    BY <1>1
  <1>3. SameLives
    BY <1>1 DEF SameLives
  <1> QED BY <1>1, <1>2, <1>3, SameBounds DEF GwT

LEMMA Generation ==
    ASSUME Typed, NEW g \in Gens
    PROVE  /\ gen[g] \in GenRecs /\ snap[g] \in SnapRecs /\ task[g] \in TaskRecs
           /\ gen \in [Gens -> GenRecs] /\ snap \in [Gens -> SnapRecs] /\ replay \in Replays
  BY DEF Typed, GwT, TaskT

LEMMA InvalidateKeeps ==
    ASSUME Typed, UNCHANGED mix, NEW g \in Gens, NEW seq \in Nat, Invalidate(g, seq)
    PROVE  GwT' /\ SameLives
  <1>1. CASE UNCHANGED gwVars
    BY <1>1, TypeFrames DEF gwVars, SameLives
  <1>2. CASE gen' = [gen EXCEPT ![g].dirty = IF seq > @ THEN seq ELSE @] /\ UNCHANGED <<head, snap, replay>>
    <2>1. PICK r : r = [gen[g] EXCEPT !.dirty = IF seq > @ THEN seq ELSE @]
      OBVIOUS
    <2>2. r \in GenRecs /\ r.life = gen[g].life /\ r.cdb = gen[g].cdb /\ r.shard = gen[g].shard
      BY <2>1, Generation DEF GenRecs
    <2>3. gen' = [gen EXCEPT ![g] = r]
      BY <1>2, <2>1, Generation
    <2> QED BY <1>2, <2>2, <2>3, Generation, GenKeeps
  <1> QED BY <1>1, <1>2 DEF Invalidate, gwVars

LEMMA ClaimDirtyKeeps ==
    ASSUME Typed, UNCHANGED mix, NEW g \in Gens, NEW t \in Tokens, ClaimDirty(g, t)
    PROVE  GwT' /\ SameLives
  <1>1. PICK r : r = [gen[g] EXCEPT !.token = t, !.target = gen[g].dirty]
    OBVIOUS
  <1>2. r \in GenRecs /\ r.life = gen[g].life /\ r.cdb = gen[g].cdb /\ r.shard = gen[g].shard
    BY <1>1, Generation DEF GenRecs
  <1>3. gen' = [gen EXCEPT ![g] = r] /\ UNCHANGED <<head, snap, replay>>
    BY <1>1, Generation DEF ClaimDirty
  <1> QED BY <1>2, <1>3, Generation, GenKeeps

LEMMA FailRunKeeps ==
    ASSUME Typed, UNCHANGED mix, NEW g \in Gens, NEW t, FailRun(g, t)
    PROVE  GwT' /\ SameLives
  <1>1. CASE UNCHANGED gwVars
    BY <1>1, TypeFrames DEF gwVars, SameLives
  <1>2. CASE gen' = [gen EXCEPT ![g].token = 0, ![g].target = 0] /\ UNCHANGED <<head, snap, replay>>
    <2>1. PICK r : r = [gen[g] EXCEPT !.token = 0, !.target = 0]
      OBVIOUS
    <2>2. r \in GenRecs /\ r.life = gen[g].life /\ r.cdb = gen[g].cdb /\ r.shard = gen[g].shard
      BY <2>1, Generation DEF GenRecs
    <2>3. gen' = [gen EXCEPT ![g] = r]
      BY <1>2, <2>1, Generation
    <2> QED BY <1>2, <2>2, <2>3, Generation, GenKeeps
  <1> QED BY <1>1, <1>2 DEF FailRun, gwVars

LEMMA StageKeeps ==
    ASSUME Typed, UNCHANGED mix, NEW g \in Gens, NEW target \in Nat, NEW version \in 0..mix.rows, NEW auth \in Nat,
           Stage(g, target, version, auth)
    PROVE  GwT' /\ SameLives
  <1>1. PICK r : r = [gen[g] EXCEPT !.token = 0, !.target = 0, !.auth = auth]
    OBVIOUS
  <1>2. r \in GenRecs /\ r.life = gen[g].life /\ r.cdb = gen[g].cdb /\ r.shard = gen[g].shard
    BY <1>1, Generation DEF GenRecs
  <1>3. gen' = [gen EXCEPT ![g] = r] /\ UNCHANGED <<head, replay>>
    BY <1>1, Generation DEF Stage
  <1>4. [rows |-> version, target |-> target, claim |-> 0] \in SnapRecs
    BY DEF SnapRecs
  <1>5. snap' \in [Gens -> SnapRecs]
    BY <1>4, Generation DEF Stage
  <1> QED BY <1>2, <1>3, <1>5, Generation, GenKeeps

\* Changes of the staged snapshots alone.
LEMMA NoSnapTyped ==
    ASSUME Typed
    PROVE  NoSnap \in SnapRecs
  BY Bounds DEF NoSnap, SnapRecs, Typed

LEMMA SnapKeeps ==
    ASSUME Typed, UNCHANGED mix, NEW g \in Gens, NEW t \in {0} \cup Tokens, Claim(g, t) \/ FailSend(g, t) \/ Discard(g, t)
    PROVE  GwT' /\ SameLives
  <1>1. UNCHANGED <<head, gen, replay>>
    BY DEF Claim, FailSend, Discard
  <1>2. snap' \in [Gens -> SnapRecs]
    <2>1. [snap EXCEPT ![g].claim = t] \in [Gens -> SnapRecs] /\ [snap EXCEPT ![g].claim = 0] \in [Gens -> SnapRecs]
      BY Generation DEF SnapRecs
    <2>2. [snap EXCEPT ![g] = NoSnap] \in [Gens -> SnapRecs]
      BY NoSnapTyped, Generation
    <2> QED BY <2>1, <2>2, Generation DEF Claim, FailSend, Discard
  <1> QED BY <1>1, <1>2, SameBounds DEF GwT, SameLives, Typed

LEMMA AcknowledgeKeeps ==
    ASSUME Typed, UNCHANGED mix, NEW conn, NEW m \in Cookies, AcknowledgeSnapshot(conn, m)
    PROVE  GwT' /\ SameLives
  <1>1. NoReplay \in Replays
    BY Bounds DEF NoReplay, NoCookie, Replays, Cookies, Typed
  <1>2. CASE AckCounts(conn, m)
    <2>1. m.g \in Gens /\ m.target \in Nat
      BY <1>2 DEF AckCounts, Cookies, Gens
    <2>6. gen[m.g] \in GenRecs
      BY <2>1, Generation
    <2>2. PICK r : r = [gen[m.g] EXCEPT !.delivered = m.target, !.initial = FALSE]
      OBVIOUS
    <2>3. r \in GenRecs /\ r.life = gen[m.g].life /\ r.cdb = gen[m.g].cdb /\ r.shard = gen[m.g].shard
      BY <2>1, <2>2, <2>6 DEF GenRecs
    <2>4. gen' = [gen EXCEPT ![m.g] = r] /\ snap' = [snap EXCEPT ![m.g] = NoSnap] /\ replay' = NoReplay /\ head' = head
      BY <1>2, <2>1, <2>2, Generation DEF AcknowledgeSnapshot
    <2>5. snap' \in [Gens -> SnapRecs]
      BY <2>1, <2>4, NoSnapTyped, Generation
    <2> QED BY <1>1, <2>1, <2>3, <2>4, <2>5, GenKeeps
  <1>3. CASE ~AckCounts(conn, m)
    <2>1. replay' \in Replays /\ UNCHANGED <<head, gen, snap>>
      BY <1>1, <1>3 DEF AcknowledgeSnapshot, Typed, GwT
    <2> QED BY <2>1, SameBounds DEF GwT, SameLives, Typed
  <1> QED BY <1>2, <1>3

-----------------------------------------------------------------------------
(* Invalidations, query runs and deliveries: the registrations stay.       *)

LEMMA KeepsRegs ==
    ASSUME RInv, UNCHANGED <<mix, task, late, sub, clean>>, SameLives
    PROVE  Registered'
  BY RegFrame DEF RInv, SameLives

LEMMA ClockStays ==
    ASSUME RInv, UNCHANGED <<mix, clock>>
    PROVE  (UNCHANGED deliv => DelivOK') /\ (UNCHANGED out => OutOK')
  BY SameBounds DEF RInv, DelivOK, OutOK

LEMMA DelivSteps ==
    ASSUME RInv, UNCHANGED mix,
           \/ \E c \in Shards, g \in Gens : SendInvalidation(c, g)
           \/ \E d \in deliv : DelivStep(d) \/ InvalidationFails(d)
    PROVE  RInv'
  <1>0. Typed /\ DelivOK /\ OutOK /\ CdbT /\ DelivT /\ deliv \subseteq DelivRecs
    BY DEF RInv, Typed, DelivT
  <1>1. /\ UNCHANGED <<task, late, sub, clean, runs, sends, sock, listed, resume, base, down, up>>
        /\ UNCHANGED <<cst, shown, cookie, last, kept, timer, rows, clock, fenced, epoch, granted, authTo, authCall, authSeen>>
    BY DEF SendInvalidation, DelivStep, InvalidateSubscriptions, AcknowledgeInvalidation, InvalidationFails, liveVars,
           catalogVars, taskVars, workVars, sockVars, clientVars
  <1>2. UNCHANGED faults \/ Fault
    BY DEF SendInvalidation, DelivStep, InvalidateSubscriptions, AcknowledgeInvalidation, InvalidationFails
  <1>3. MixT' /\ AuthT' /\ TaskT' /\ WorkT' /\ SockT' /\ FrameT' /\ ClientT' /\ FaultT'
    BY <1>0, <1>1, <1>2, TypeFrames, FaultFrame
  <1>4. GwT' /\ SameLives
    <2>1. CASE UNCHANGED gwVars
      BY <1>0, <2>1, TypeFrames DEF gwVars, SameLives
    <2>2. CASE \E d \in deliv : InvalidateSubscriptions(d)
      BY <1>0, <2>2, InvalidateKeeps DEF InvalidateSubscriptions, DelivRecs
    <2> QED BY <2>1, <2>2 DEF SendInvalidation, DelivStep, AcknowledgeInvalidation, InvalidationFails
  <1>5. out' \in [Shards -> [Gens -> Nat]] /\ OutOK'
    <2>1. CASE UNCHANGED out
      BY <1>0, <1>1, <2>1, ClockStays DEF CdbT
    <2>2. CASE \E d \in deliv : AcknowledgeInvalidation(d)
      <3>1. PICK d \in deliv : out' = [out EXCEPT ![d.c][d.g] = IF @ = d.seq THEN 0 ELSE @]
        BY <2>2 DEF AcknowledgeInvalidation, Acknowledge
      <3>2. d.c \in Shards /\ d.g \in Gens /\ out \in [Shards -> [Gens -> Nat]]
        BY <1>0, <3>1 DEF DelivRecs, CdbT
      <3>3. /\ out' \in [Shards -> [Gens -> Nat]]
            /\ \A c \in Shards, g \in Gens : out'[c][g] = out[c][g] \/ out'[c][g] = 0
        BY <3>1, <3>2
      <3>4. \A c \in Shards : clock'[c] \in Nat /\ clock'[c] = clock[c]
        BY <1>0, <1>1 DEF CdbT
      <3> QED BY <1>0, <3>3, <3>4, SameBounds DEF OutOK
    <2> QED BY <2>1, <2>2 DEF SendInvalidation, DelivStep, InvalidateSubscriptions, InvalidationFails, liveVars
  <1>6. DelivT' /\ DelivOK'
    <2>1. PICK d \in DelivRecs : deliv' \subseteq deliv \cup {d} /\ d.seq <= clock[d.c]
      <3>1. CASE \E c \in Shards, g \in Gens : SendInvalidation(c, g)
        <4>1. PICK c \in Shards, g \in Gens : SendInvalidation(c, g)
          BY <3>1
        <4>2. PICK d : d = [c |-> c, g |-> g, seq |-> out[c][g], at |-> "sent"]
          OBVIOUS
        <4>3. d \in DelivRecs /\ d.seq <= clock[d.c] /\ deliv' = deliv \cup {d}
          BY <1>0, <4>1, <4>2 DEF SendInvalidation, OutOK, DelivRecs, CdbT
        <4> QED BY <4>3
      <3>2. CASE \E d \in deliv : InvalidateSubscriptions(d)
        <4>1. PICK d \in deliv : InvalidateSubscriptions(d)
          BY <3>2
        <4>2. PICK e : e = [d EXCEPT !.at = "answered"]
          OBVIOUS
        <4>3. d \in DelivRecs /\ d.seq <= clock[d.c]
          BY <1>0 DEF DelivOK
        <4>4. e \in DelivRecs /\ e.seq <= clock[e.c] /\ deliv' = (deliv \ {d}) \cup {e}
          BY <4>1, <4>2, <4>3 DEF InvalidateSubscriptions, DelivRecs
        <4> QED BY <4>4
      <3>3. CASE \E d \in deliv : AcknowledgeInvalidation(d) \/ InvalidationFails(d)
        BY <1>0, <3>3 DEF AcknowledgeInvalidation, InvalidationFails, DelivOK
      <3> QED BY <3>1, <3>2, <3>3 DEF DelivStep
    <2> QED BY <1>0, <1>1, <2>1, SameBounds DEF DelivT, DelivOK
  <1>7. CdbT'
    BY <1>0, <1>1, <1>5, SameBounds DEF CdbT
  <1>8. Registered'
    BY <1>1, <1>4, KeepsRegs
  <1> QED BY <1>3, <1>4, <1>5, <1>6, <1>7, <1>8 DEF RInv, Typed

\* A step of the Gateway and the client that leaves the lives of the generations.
LEMMA SmallChange ==
    ASSUME RInv, UNCHANGED <<mix, liveVars, taskVars, clean, deliv>>, SameLives,
           GwT', WorkT', SockT', FrameT', ClientT', FaultT'
    PROVE  RInv'
  <1>0. Typed
    BY DEF RInv
  <1>1. MixT' /\ CdbT' /\ AuthT' /\ TaskT' /\ DelivT'
    BY <1>0, TypeFrames DEF liveVars, catalogVars, taskVars
  <1>2. DelivOK' /\ OutOK'
    BY ClockStays DEF liveVars
  <1>3. Registered'
    BY KeepsRegs DEF liveVars, taskVars
  <1> QED BY <1>1, <1>2, <1>3 DEF RInv, Typed

LEMMA RunSteps ==
    ASSUME RInv, UNCHANGED mix,
           \/ \E g \in Gens : RunClaim(g)
           \/ \E r \in runs : RunAuth(r) \/ RunQuery(r) \/ RunFresh(r) \/ RunFails(r)
    PROVE  RInv'
  <1>0. Typed /\ runs \subseteq RunRecs /\ WorkT
    BY DEF RInv, Typed, WorkT
  <1>1. /\ UNCHANGED <<liveVars, taskVars, clean, sends, deliv, sock, listed, resume, base, down, up>>
        /\ UNCHANGED <<cst, shown, cookie, last, kept, timer>>
    BY DEF RunClaim, RunAuth, RunQuery, RunFresh, RunFails, sockVars, clientVars
  <1>2. UNCHANGED faults \/ Fault
    BY DEF RunClaim, LeaseOver, RunAuth, RunQuery, RunFresh, RunFails
  <1>3. SockT' /\ FrameT' /\ ClientT' /\ FaultT'
    BY <1>0, <1>1, <1>2, TypeFrames, FaultFrame
  <1>4. GwT' /\ SameLives
    <2>1. CASE UNCHANGED gwVars
      BY <1>0, <2>1, TypeFrames DEF gwVars, SameLives
    <2>2. CASE \E g \in Gens : RunClaim(g)
      BY <1>0, <2>2, ClaimDirtyKeeps DEF RunClaim
    <2>3. CASE \E r \in runs : RunFails(r)
      BY <1>0, <2>3, FailRunKeeps DEF RunFails, RunRecs
    <2> QED BY <2>1, <2>2, <2>3 DEF RunAuth, RunQuery, RunFresh
  <1>5. runs' \subseteq RunRecs
    <2>1. CASE \E g \in Gens : RunClaim(g)
      <3>1. PICK g \in Gens, t \in Tokens :
              runs' = runs \cup {[g |-> g, tok |-> t, target |-> gen[g].dirty, at |-> "auth",
                                  shard |-> gen[g].shard, auth |-> 0, see |-> "none", rows |-> 0]}
        BY <2>1 DEF RunClaim
      <3>2. gen[g].dirty \in Nat /\ gen[g].shard \in Shards /\ 0 \in 0..mix.rows
        BY <1>0, Generation, Bounds DEF GenRecs, Typed
      <3> QED BY <1>0, <3>1, <3>2 DEF RunRecs, Sights
    <2>2. CASE \E r \in runs : RunFails(r)
      BY <1>0, <2>2 DEF RunFails
    <2>3. CASE \E r \in runs : RunAuth(r) \/ RunQuery(r) \/ RunFresh(r)
      <3>1. PICK r \in runs : RunAuth(r) \/ RunQuery(r) \/ RunFresh(r)
        BY <2>3
      <3>2. r \in RunRecs /\ epoch \in Nat /\ rows \in 0..mix.rows
        BY <1>0, Bounds DEF Typed, AuthT, CdbT
      <3>3. \A a \in Nat : Freshness(r.shard, a) \in Sights
        BY Zenon DEF Freshness, Sights
      <3>4. QueryAnswer(r.shard, r.g) \in {"ok", "stale", "bad"}
        BY Zenon DEF QueryAnswer
      <3>5. PICK q \in RunRecs : runs' = (runs \ {r}) \cup {q}
        <4>1. CASE RunAuth(r)
          <5>1. PICK see : see = Freshness(r.shard, epoch)
            OBVIOUS
          <5>2. [r EXCEPT !.at = "query", !.auth = epoch, !.see = see] \in RunRecs
            BY <3>2, <3>3, <5>1 DEF RunRecs
          <5> QED BY <4>1, <5>1, <5>2 DEF RunAuth, RunTo
        <4>2. CASE RunQuery(r)
          <5>1. PICK at : at = QueryAnswer(r.shard, r.g)
            OBVIOUS
          <5>2. [r EXCEPT !.at = at, !.rows = rows] \in RunRecs
            BY <3>2, <3>4, <5>1 DEF RunRecs
          <5> QED BY <4>2, <5>1, <5>2 DEF RunQuery, RunTo
        <4>3. CASE RunFresh(r)
          <5>1. PICK see : see = Freshness(r.shard, r.auth)
            OBVIOUS
          <5>2. PICK at : at = IF r.at = "ok" THEN "stage" ELSE "failed"
            OBVIOUS
          <5>3. [r EXCEPT !.at = at, !.see = see] \in RunRecs
            BY <3>2, <3>3, <5>1, <5>2 DEF RunRecs
          <5> QED BY <4>3, <5>1, <5>2, <5>3 DEF RunFresh, RunTo
        <4> QED BY <3>1, <4>1, <4>2, <4>3
      <3> QED BY <1>0, <3>5
    <2> QED BY <2>1, <2>2, <2>3
  <1>6. WorkT'
    BY <1>0, <1>1, <1>5, SameBounds DEF WorkT
  <1> QED BY <1>1, <1>3, <1>4, <1>6, SmallChange

LEMMA SendSteps ==
    ASSUME RInv, UNCHANGED mix,
           \/ \E g \in Gens : SendClaim(g)
           \/ \E x \in sends : SendCheck(x) \/ SendFails(x)
    PROVE  RInv'
  <1>0. Typed /\ sends \subseteq SendRecs /\ WorkT
    BY DEF RInv, Typed, WorkT
  <1>1. /\ UNCHANGED <<liveVars, taskVars, clean, runs, deliv, sock, listed, resume, base, down, up>>
        /\ UNCHANGED <<cst, shown, cookie, last, kept, timer>>
    BY DEF SendClaim, SendCheck, SendFails, sockVars, clientVars
  <1>2. UNCHANGED faults \/ Fault
    BY DEF SendClaim, ClaimOver, SendCheck, SendFails
  <1>3. SockT' /\ FrameT' /\ ClientT' /\ FaultT'
    BY <1>0, <1>1, <1>2, TypeFrames, FaultFrame
  <1>4. GwT' /\ SameLives
    <2>1. CASE UNCHANGED gwVars
      BY <1>0, <2>1, TypeFrames DEF gwVars, SameLives
    <2>2. CASE \E g \in Gens : SendClaim(g)
      BY <1>0, <2>2, SnapKeeps DEF SendClaim
    <2>3. CASE \E x \in sends : SendFails(x)
      BY <1>0, <2>3, SnapKeeps DEF SendFails, SendRecs
    <2> QED BY <2>1, <2>2, <2>3 DEF SendCheck
  <1>5. sends' \subseteq SendRecs
    <2>1. CASE \E g \in Gens : SendClaim(g)
      <3>1. PICK g \in Gens, t \in Tokens :
              sends' = sends \cup {[g |-> g, tok |-> t, target |-> snap[g].target, rows |-> snap[g].rows,
                                    shard |-> gen[g].shard, auth |-> gen[g].auth, see |-> "none"]}
        BY <2>1 DEF SendClaim
      <3>2. /\ snap[g].target \in Nat /\ snap[g].rows \in 0..mix.rows
            /\ gen[g].shard \in Shards /\ gen[g].auth \in Nat
        BY <1>0, Generation DEF GenRecs, SnapRecs
      <3> QED BY <1>0, <3>1, <3>2 DEF SendRecs, Sights
    <2>2. CASE \E x \in sends : SendFails(x)
      BY <1>0, <2>2 DEF SendFails
    <2>3. CASE \E x \in sends : SendCheck(x)
      <3>1. PICK x \in sends : SendCheck(x)
        BY <2>3
      <3>2. PICK see : see = Freshness(x.shard, x.auth)
        OBVIOUS
      <3>3. see \in Sights
        BY <3>2, Zenon DEF Freshness, Sights
      <3>4. x \in SendRecs /\ [x EXCEPT !.see = see] \in SendRecs
        BY <1>0, <3>1, <3>3 DEF SendRecs
      <3> QED BY <1>0, <3>1, <3>2, <3>4 DEF SendCheck
    <2> QED BY <2>1, <2>2, <2>3
  <1>6. WorkT'
    BY <1>0, <1>1, <1>5, SameBounds DEF WorkT
  <1> QED BY <1>1, <1>3, <1>4, <1>6, SmallChange

-----------------------------------------------------------------------------
(* The client.                                                             *)

LEMMA CookieTypes ==
    ASSUME Typed
    PROVE  NoCookie \in Cookies /\ BaseCookie \in Cookies /\ NoReplay \in Replays
  <1>1. 0 \in 0..mix.gens /\ 0 \in 0..mix.rows /\ 1 \in 0..mix.rows
    BY Bounds DEF Typed
  <1>2. NoCookie \in Cookies /\ BaseCookie \in Cookies
    BY <1>1 DEF NoCookie, BaseCookie, Cookies
  <1> QED BY <1>2 DEF NoReplay, Replays, Shards

LEMMA FrameTypes ==
    ASSUME Typed, NEW k \in {"sub", "unsub", "ack", "snap", "lagged", "refetch", "retry", "error"}
    PROVE  /\ Frame(k) \in Frames /\ Append(down, Frame(k)) \in Seq(Frames) /\ Append(up, Frame(k)) \in Seq(Frames)
           /\ \A c \in Cookies : [k |-> k, c |-> c] \in Frames
  <1>1. \A c \in Cookies : [k |-> k, c |-> c] \in Frames
    BY DEF Frames
  <1>2. Frame(k) \in Frames
    BY <1>1, CookieTypes DEF Frame
  <1> QED BY <1>1, <1>2 DEF Typed, FrameT

LEMMA Arrival ==
    ASSUME Typed, NEW s \in Seq(Frames), s # <<>>
    PROVE  Head(s) \in Frames /\ Head(s).c \in Cookies /\ Tail(s) \in Seq(Frames)
  <1>1. Head(s) \in Frames /\ Tail(s) \in Seq(Frames)
    OBVIOUS
  <1> QED BY <1>1 DEF Frames

\* The ways a client takes a frame.
LEMMA Receipts ==
    ASSUME ClientReceive
    PROVE  /\ down # <<>> /\ down' = Tail(down) /\ Idle /\ UNCHANGED faults
           /\ \/ UNCHANGED <<clientVars, up>>
              \/ Head(down).k = "snap" /\ ShowSnapshot(Head(down).c)
              \/ Reset("refetching") /\ timer' = FALSE /\ up' = Append(up, Frame("sub"))
              \/ Reset("refetching") /\ timer' = TRUE /\ UNCHANGED up
              \/ Reset("error") /\ timer' = FALSE /\ UNCHANGED up
  <1> DEFINE m == Head(down)
  <1>1. CASE cst \in {"closed", "error"} \/ (m.k = "refetch" /\ timer)
    BY <1>1 DEF ClientReceive
  <1>2. CASE ~(cst \in {"closed", "error"} \/ (m.k = "refetch" /\ timer))
    <2>1. CASE m.k = "snap"
      BY <1>2, <2>1 DEF ClientReceive
    <2>2. CASE m.k = "lagged"
      BY <1>2, <2>2 DEF ClientReceive
    <2>3. CASE m.k \in {"refetch", "retry"}
      BY <1>2, <2>3 DEF ClientReceive
    <2>4. CASE m.k \notin {"snap", "lagged", "refetch", "retry"}
      BY <1>2, <2>4 DEF ClientReceive
    <2> QED BY <2>1, <2>2, <2>3, <2>4
  <1> QED BY <1>1, <1>2

LEMMA ClientSteps ==
    ASSUME RInv, UNCHANGED mix,
           ClientReceive \/ Reconnect \/ RetrySubscription \/ ClientUnsubscribe \/ ExpireRetainedResumeState
    PROVE  RInv'
  <1>0. Typed /\ FrameT /\ ClientT /\ SockT
    BY DEF RInv, Typed
  <1>1. UNCHANGED <<liveVars, gwVars, taskVars, workVars, deliv, listed>>
    BY Receipts DEF Reconnect, RetrySubscription, ClientUnsubscribe, ExpireRetainedResumeState, Idle, sockVars
  <1>2. UNCHANGED faults
    BY Receipts DEF Reconnect, RetrySubscription, ClientUnsubscribe, ExpireRetainedResumeState
  <1>3. SameLives /\ GwT' /\ WorkT' /\ FaultT' /\ UNCHANGED clean
    BY <1>0, <1>1, <1>2, TypeFrames DEF gwVars, workVars, SameLives
  <1>4. 0 \in 0..mix.rows
    BY <1>0, Bounds DEF Typed
  <1>5. SockT' /\ FrameT' /\ ClientT'
    <2>1. CASE ClientReceive
      <3>1. UNCHANGED <<sock, resume, base>> /\ down # <<>> /\ down' = Tail(down)
        BY <2>1, Receipts DEF Idle, sockVars
      <3>2. Head(down).c \in Cookies /\ down' \in Seq(Frames)
        BY <1>0, <3>1, Arrival DEF FrameT
      <3>3. CASE UNCHANGED <<clientVars, up>>
        BY <1>0, <1>1, <3>1, <3>2, <3>3, SameBounds DEF SockT, FrameT, ClientT, clientVars
      <3>4. CASE ShowSnapshot(Head(down).c)
        <4>1. PICK c \in Cookies : c = Head(down).c
          BY <3>2
        <4>2. up' \in Seq(Frames)
          BY <1>0, <3>4, <4>1, FrameTypes DEF ShowSnapshot, FrameT
        <4>3. ClientT'
          BY <1>0, <3>4, <4>1, SameBounds DEF ShowSnapshot, ClientT, Cookies
        <4> QED BY <1>0, <1>1, <3>1, <3>2, <4>2, <4>3, SameBounds DEF SockT, FrameT
      <3>5. CASE (Reset("refetching") \/ Reset("error")) /\ timer' \in BOOLEAN /\ (up' = Append(up, Frame("sub")) \/ UNCHANGED up)
        <4>1. up' \in Seq(Frames)
          BY <1>0, <3>5, FrameTypes DEF FrameT
        <4>2. ClientT'
          BY <1>0, <1>4, <3>5, CookieTypes, SameBounds DEF Reset, ClientT
        <4> QED BY <1>0, <1>1, <3>1, <3>2, <4>1, <4>2, SameBounds DEF SockT, FrameT
      <3> QED BY <2>1, <3>3, <3>4, <3>5, Receipts
    <2>2. CASE Reconnect
      <3>1. sock' \in Conns /\ base' \in Cookies /\ last' \in Cookies /\ resume' \in {"no", "try"}
        BY <1>0, <2>2, CookieTypes DEF Reconnect, NewConns, ClientT
      <3>2. up' \in Seq(Frames)
        BY <1>0, <2>2, FrameTypes DEF Reconnect
      <3> QED BY <1>0, <1>1, <2>2, <3>1, <3>2, SameBounds DEF Reconnect, SockT, FrameT, ClientT
    <2>3. CASE RetrySubscription
      <3>1. up' \in Seq(Frames)
        BY <1>0, <2>3, FrameTypes DEF RetrySubscription
      <3> QED BY <1>0, <1>1, <2>3, <3>1, SameBounds DEF RetrySubscription, Idle, sockVars, SockT, FrameT, ClientT
    <2>4. CASE ClientUnsubscribe
      <3>1. up' \in Seq(Frames)
        BY <1>0, <2>4, FrameTypes DEF ClientUnsubscribe, FrameT
      <3> QED BY <1>0, <1>1, <1>4, <2>4, <3>1, CookieTypes, SameBounds
              DEF ClientUnsubscribe, Idle, sockVars, SockT, FrameT, ClientT
    <2>5. CASE ExpireRetainedResumeState
      BY <1>0, <1>1, <1>4, <2>5, CookieTypes, SameBounds
      DEF ExpireRetainedResumeState, Idle, sockVars, SockT, FrameT, ClientT
    <2> QED BY <2>1, <2>2, <2>3, <2>4, <2>5
  <1> QED BY <1>1, <1>3, <1>5, SmallChange

LEMMA AckStep ==
    ASSUME RInv, UNCHANGED mix, OnAck
    PROVE  RInv'
  <1>0. Typed /\ FrameT /\ SockT
    BY DEF RInv, Typed
  <1>1. up # <<>> /\ up' = Tail(up) /\ AcknowledgeSnapshot(sock, Head(up).c)
    BY DEF OnAck, Arrives
  <1>2. Head(up).c \in Cookies /\ up' \in Seq(Frames)
    BY <1>0, <1>1, Arrival DEF FrameT
  <1>3. GwT' /\ SameLives
    BY <1>0, <1>1, <1>2, AcknowledgeKeeps
  <1>4. /\ UNCHANGED <<liveVars, taskVars, clean, runs, sends, deliv, sock, listed, resume, down>>
        /\ UNCHANGED <<cst, shown, cookie, last, kept, timer, faults>>
    BY DEF OnAck, workVars, clientVars
  <1>5. base' \in Cookies
    BY <1>0, <1>2 DEF OnAck, SockT
  <1>6. WorkT' /\ ClientT' /\ FaultT'
    BY <1>0, <1>4, TypeFrames
  <1>7. SockT' /\ FrameT'
    BY <1>0, <1>2, <1>4, <1>5, SameBounds DEF SockT, FrameT
  <1> QED BY <1>3, <1>4, <1>6, <1>7, SmallChange

-----------------------------------------------------------------------------
(* Cleanup.                                                                *)

\* A step about one generation leaves what is known of every other one.
SameAt(g) ==
  /\ (head' = g) <=> (head = g)
  /\ gen'[g].life = gen[g].life /\ gen'[g].cdb = gen[g].cdb /\ gen'[g].shard = gen[g].shard
  /\ task'[g].at = task[g].at /\ task'[g].shard = task[g].shard /\ LateOf(g)' = LateOf(g)
  /\ (\A c \in Shards : sub'[c][g] = sub[c][g]) /\ clean'[g] = clean[g]

LEMMA OneChanges ==
    ASSUME RInv, UNCHANGED mix, NEW g \in Gens, \A h \in Gens \ {g} : SameAt(h), RegOK(g)'
    PROVE  Registered'
  <1>1. ASSUME NEW h \in Gens PROVE RegOK(h)'
    <2>1. CASE h = g
      BY <2>1
    <2>2. CASE h # g
      <3>1. SameAt(h) /\ RegOK(h) /\ Typed
        BY <2>2 DEF RInv, Registered
      <3> QED BY <3>1, SameReg DEF SameAt
    <2> QED BY <2>1, <2>2
  <1> QED BY <1>1, SameBounds DEF Registered

LEMMA GenerationOK ==
    ASSUME RInv, NEW g \in Gens
    PROVE  /\ RegOK(g) /\ Typed /\ gen[g].shard \in Shards /\ task[g].shard \in Shards /\ clean \in [Gens -> 0..2]
           /\ sub \in [Shards -> [Gens -> {"absent", "active", "retired"}]]
  BY DEF RInv, Registered, Typed, WorkT, CdbT, GwT, TaskT, GenRecs, TaskRecs

LEMMA CleanSteps ==
    ASSUME RInv, UNCHANGED mix, NEW g \in Gens, CleanStep(g) \/ CleanFails(g)
    PROVE  RInv'
  <1>0. Typed /\ CdbT /\ WorkT /\ OutOK /\ RegOK(g) /\ gen[g].shard \in Shards
    BY GenerationOK DEF RInv, Typed
  <1>1. /\ UNCHANGED <<rows, clock, fenced, epoch, granted, authTo, authCall, authSeen, head, snap, replay>>
        /\ UNCHANGED <<task, late, runs, sends, deliv, sock, listed, resume, base, down, up>>
        /\ UNCHANGED <<cst, shown, cookie, last, kept, timer>>
    BY DEF CleanStep, CleanUnsubscribe, CleanFinalize, CleanDelete, CleanFails, DeleteRetired, liveVars, gwVars,
           catalogVars, taskVars, sockVars, clientVars
  <1>2. UNCHANGED faults \/ Fault
    BY DEF CleanStep, CleanUnsubscribe, CleanFinalize, CleanDelete, CleanFails
  <1>3. MixT' /\ AuthT' /\ TaskT' /\ DelivT' /\ SockT' /\ FrameT' /\ ClientT' /\ FaultT'
    BY <1>0, <1>1, <1>2, TypeFrames, FaultFrame
  <1>4. DelivOK'
    BY <1>1, ClockStays
  <1>5. ToClean(g) /\ \A h \in Gens : LateOf(h)' = LateOf(h)
    BY <1>0, <1>1 DEF CleanStep, CleanUnsubscribe, CleanFinalize, CleanDelete, CleanFails, RegOK, CleanOK, LateOf
  <1>6. PICK n \in 0..2 : clean' = [clean EXCEPT ![g] = n] /\ (n = 0 \/ CleanUnsubscribe(g) \/ CleanFinalize(g))
    BY DEF CleanStep, CleanUnsubscribe, CleanFinalize, CleanDelete, CleanFails
  <1>7. WorkT' /\ clean'[g] = n /\ \A h \in Gens \ {g} : clean'[h] = clean[h]
    BY <1>0, <1>1, <1>6, SameBounds DEF WorkT
  <1> DEFINE c == gen[g].shard
  <1>8. CASE CleanUnsubscribe(g) \/ CleanFinalize(g)
    <2>1. PICK v \in {"absent", "retired"} : sub' = [sub EXCEPT ![c][g] = v]
      BY <1>8 DEF CleanUnsubscribe, CleanFinalize, Unsubscribe, FinalizeUnsubscribe
    <2>2. out' = out \/ out' = [out EXCEPT ![c][g] = 0]
      BY <1>8 DEF CleanUnsubscribe, CleanFinalize, Unsubscribe
    <2>3. gen' = gen
      BY <1>8 DEF CleanUnsubscribe, CleanFinalize, gwVars
    <2>4. out' \in [Shards -> [Gens -> Nat]] /\ \A x \in Shards, h \in Gens : out'[x][h] = out[x][h] \/ out'[x][h] = 0
      <3>1. out \in [Shards -> [Gens -> Nat]] /\ c \in Shards
        BY <1>0 DEF CdbT
      <3> HIDE DEF c
      <3>2. CASE out' = out
        BY <3>1, <3>2
      <3>3. CASE out' = [out EXCEPT ![c][g] = 0]
        BY <3>1, <3>3
      <3> QED BY <2>2, <3>2, <3>3
    <2>5. \A x \in Shards : clock'[x] \in Nat /\ clock'[x] = clock[x]
      BY <1>0, <1>1 DEF CdbT
    <2>6. OutOK'
      BY <1>0, <2>4, <2>5, SameBounds DEF OutOK
    <2>7. /\ sub' \in [Shards -> [Gens -> {"absent", "active", "retired"}]] /\ sub'[c][g] = v
          /\ \A x \in Shards, h \in Gens : x # c \/ h # g => sub'[x][h] = sub[x][h]
      BY <1>0, <2>1 DEF CdbT
    <2>8. CdbT'
      BY <1>0, <1>1, <2>4, <2>7, SameBounds DEF CdbT
    <2>9. \A h \in Gens \ {g} : SameAt(h)
      BY <1>1, <1>5, <1>7, <2>3, <2>7 DEF SameAt
    <2>10. RegOK(g)'
      <3>1. ToClean(g)' /\ HeadOK(g)' /\ CleanOK(g)'
        BY <1>0, <1>1, <1>5, <2>3 DEF RegOK, HeadOK, CleanOK, ToClean
      <3>2. \A x \in Shards : sub'[x][g] # "absent" => x = c
        BY <1>0, <1>5, <2>7 DEF RegOK, ShardOK, ToClean
      <3>3. ShardOK(g)' /\ EarlyOK(g)' /\ ActiveOK(g)'
        BY <1>0, <1>1, <1>5, <2>3, <3>2 DEF RegOK, ShardOK, EarlyOK, ActiveOK, ToClean
      <3>4. QuietOK(g)'
        BY <1>0, <1>1, <1>5, <2>3, <2>7, <3>2 DEF RegOK, QuietOK, ToClean, Waiting
      <3> QED BY <3>1, <3>3, <3>4 DEF RegOK
    <2>11. GwT'
      BY <1>0, <1>1, <2>3, TypeFrames
    <2> QED BY <1>3, <1>4, <1>7, <2>6, <2>8, <2>9, <2>10, <2>11, OneChanges DEF RInv, Typed
  <1>9. CASE CleanDelete(g) \/ CleanFails(g)
    <2>1. UNCHANGED <<sub, out>> /\ n = 0
      BY <1>0, <1>7, <1>9 DEF CleanDelete, CleanFails, liveVars, WorkT
    <2>2. CdbT' /\ OutOK'
      BY <1>0, <1>1, <2>1, TypeFrames, ClockStays
    <2>3. gen' = gen \/ (gen' = [gen EXCEPT ![g] = NoGen] /\ clean[g] = 2)
      BY <1>9 DEF CleanDelete, CleanFails, DeleteRetired, gwVars
    <2>4. NoGen \in GenRecs /\ NoGen.life = "none" /\ NoGen.cdb = "none"
      BY DEF NoGen, GenRecs, Shards
    <2>5. GwT'
      BY <1>0, <1>1, <2>3, <2>4, SameBounds DEF Typed, GwT
    <2>6. gen[g] \in GenRecs /\ gen'[g] \in {gen[g], NoGen} /\ \A h \in Gens \ {g} : gen'[h] = gen[h]
      BY <1>0, <2>3, Generation
    <2>7. \A h \in Gens \ {g} : SameAt(h)
      BY <1>1, <1>5, <1>7, <2>1, <2>6 DEF SameAt
    <2>8. RegOK(g)'
      <3>1. CASE gen' = gen
        <4>1. HeadOK(g)' /\ CleanOK(g)' /\ ShardOK(g)' /\ EarlyOK(g)' /\ ActiveOK(g)'
          BY <1>0, <1>1, <1>5, <1>7, <2>1, <3>1 DEF RegOK, HeadOK, CleanOK, ShardOK, EarlyOK, ActiveOK
        <4>2. QuietOK(g)'
          BY <1>0, <1>1, <1>5, <1>7, <2>1, <3>1 DEF RegOK, QuietOK
        <4> QED BY <4>1, <4>2 DEF RegOK
      <3>2. CASE gen'[g] = NoGen /\ clean[g] = 2
        <4>1. HeadOK(g)' /\ CleanOK(g)' /\ ShardOK(g)'
          BY <1>0, <1>1, <1>5, <1>7, <2>1, <2>4, <3>2 DEF RegOK, HeadOK, CleanOK, ShardOK, ToClean
        <4>2. EarlyOK(g)' /\ ActiveOK(g)'
          BY <1>0, <1>1, <1>5, <2>1, <2>4, <3>2 DEF RegOK, EarlyOK, ActiveOK, ToClean
        <4>3. QuietOK(g)'
          BY <1>0, <1>1, <1>5, <1>7, <2>1, <2>4, <3>2 DEF RegOK, QuietOK, ToClean
        <4> QED BY <4>1, <4>2, <4>3 DEF RegOK
      <3> QED BY <1>0, <2>3, <2>6, <3>1, <3>2, Generation
    <2> QED BY <1>3, <1>4, <1>7, <2>2, <2>5, <2>7, <2>8, OneChanges DEF RInv, Typed
  <1> QED BY <1>8, <1>9 DEF CleanStep

-----------------------------------------------------------------------------
(* Retirement, recovery, activation and installation.                      *)

\* What a step about generation g does outside of the Gateway's store: its
\* task may end.
TasksKeep(g) ==
  /\ UNCHANGED <<late, sub, clean>>
  /\ \A h \in Gens : \/ task'[h].at = task[h].at /\ task'[h].shard = task[h].shard
                     \/ h = g /\ task'[h].at = "idle" /\ task'[h].shard \in Shards

LEMMA RetiredTyped ==
    ASSUME Typed, NEW g \in Gens
    PROVE  /\ Retired(gen[g]) \in GenRecs /\ Retired(gen[g]).life = "retiring" /\ Retired(gen[g]).shard = gen[g].shard
           /\ Retired(gen[g]).cdb = IF gen[g].cdb = "pending" THEN "pending" ELSE "retiring"
  <1>1. gen[g] \in GenRecs
    BY Generation
  <1>2. PICK k : k = IF gen[g].cdb = "pending" THEN "pending" ELSE "retiring"
    OBVIOUS
  <1>3. NoGen \in GenRecs
    BY DEF NoGen, GenRecs, Shards
  <1>4. Retired(gen[g]) = [NoGen EXCEPT !.life = "retiring", !.conn = gen[g].conn, !.shard = gen[g].shard, !.cdb = k]
    BY <1>2 DEF Retired
  <1> QED BY <1>1, <1>2, <1>3, <1>4 DEF GenRecs

LEMMA RetainedTyped ==
    ASSUME Typed
    PROVE  Retained \in Replays
  <1>1. CASE head # 0 /\ Serving(head) /\ Staged(head) /\ snap[head].claim # 0
    <2>1. head \in Gens /\ head \in 0..mix.gens
      BY <1>1, Bounds DEF Typed, GwT, Gens
    <2>2. gen[head].shard \in Shards /\ gen[head].auth \in Nat /\ snap[head].target \in Nat /\ snap[head].rows \in 0..mix.rows
      BY <2>1, Generation DEF GenRecs, SnapRecs
    <2> QED BY <1>1, <2>1, <2>2 DEF Retained, Replays, Cookies
  <1>2. CASE ~(head # 0 /\ Serving(head) /\ Staged(head) /\ snap[head].claim # 0)
    BY <1>2 DEF Retained, Typed, GwT
  <1> QED BY <1>1, <1>2

\* Nothing but the end of a task.
LEMMA EndsRegs ==
    ASSUME RInv, UNCHANGED <<mix, gwVars>>, NEW g \in Gens, TasksKeep(g)
    PROVE  GwT' /\ Registered'
  <1>0. Typed /\ RegOK(g) /\ gen[g].shard \in Shards
    BY GenerationOK
  <1>1. GwT'
    BY <1>0, TypeFrames DEF gwVars
  <1>2. \A h \in Gens : LateOf(h)' = LateOf(h)
    BY DEF TasksKeep, LateOf
  <1>3. \A h \in Gens \ {g} : SameAt(h)
    BY <1>2 DEF TasksKeep, SameAt, gwVars
  <1>4. CASE task'[g].at = task[g].at /\ task'[g].shard = task[g].shard
    <2>1. SameAt(g)
      BY <1>2, <1>4 DEF TasksKeep, SameAt, gwVars
    <2>2. RegOK(g)'
      BY <1>0, <2>1, SameReg DEF SameAt
    <2> QED BY <1>1, <1>3, <2>2, OneChanges
  <1>5. CASE task'[g].at = "idle"
    <2>1. HeadOK(g)' /\ CleanOK(g)' /\ ShardOK(g)' /\ EarlyOK(g)' /\ ActiveOK(g)'
      BY <1>0, <1>2, <1>5 DEF TasksKeep, gwVars, RegOK, HeadOK, CleanOK, ToClean, ShardOK, EarlyOK, ActiveOK, Waiting, Early
    <2>2. QuietOK(g)'
      BY <1>0, <1>2, <1>5 DEF TasksKeep, gwVars, RegOK, QuietOK, Waiting
    <2> QED BY <1>1, <1>3, <2>1, <2>2, OneChanges DEF RegOK
  <1> QED BY <1>4, <1>5 DEF TasksKeep

LEMMA RetireRegs ==
    ASSUME RInv, UNCHANGED mix, NEW g \in Gens, head = g, NEW r \in Replays, RetireKeeping(g, r), TasksKeep(g)
    PROVE  GwT' /\ Registered'
  <1>0. Typed /\ RegOK(g) /\ gen[g].shard \in Shards
    BY GenerationOK
  <1> DEFINE q == Retired(gen[g])
  <1>1. /\ q \in GenRecs /\ q.life = "retiring" /\ q.shard = gen[g].shard
        /\ q.cdb = IF gen[g].cdb = "pending" THEN "pending" ELSE "retiring"
    BY <1>0, RetiredTyped
  <1>2. head' = 0 /\ gen' = [gen EXCEPT ![g] = q] /\ snap' = [snap EXCEPT ![g] = NoSnap] /\ replay' = r
    BY DEF RetireKeeping
  <1> HIDE DEF q
  <1>3. gen'[g] = q /\ (\A h \in Gens \ {g} : gen'[h] = gen[h]) /\ gen' \in [Gens -> GenRecs]
    BY <1>0, <1>1, <1>2, Generation
  <1>4. snap' \in [Gens -> SnapRecs]
    BY <1>0, <1>2, NoSnapTyped, Generation
  <1>5. GwT'
    <2>1. head' \in 0..mix.gens
      BY <1>0, <1>2, Bounds DEF Typed
    <2>2. replay' \in Replays
      BY <1>2
    <2> QED BY <1>3, <1>4, <2>1, <2>2, SameBounds DEF GwT
  <1>6. (\A h \in Gens : LateOf(h)' = LateOf(h)) /\ 0 \notin Gens
    BY <1>0, Bounds DEF TasksKeep, LateOf, Typed
  <1>7. \A h \in Gens \ {g} : SameAt(h)
    BY <1>2, <1>3, <1>6 DEF TasksKeep, SameAt
  <1>8. gen[g].life \in {"installing", "active"}
    BY <1>0 DEF RegOK, HeadOK
  <1>9. HeadOK(g)' /\ CleanOK(g)' /\ ShardOK(g)' /\ EarlyOK(g)'
    BY <1>0, <1>1, <1>2, <1>3, <1>6, <1>8
    DEF TasksKeep, RegOK, HeadOK, CleanOK, ToClean, ShardOK, EarlyOK, Waiting, Early
  <1>10. ActiveOK(g)' /\ QuietOK(g)'
    <2>1. ActiveOK(g)'
      BY <1>0, <1>1, <1>3, <1>6, <1>8 DEF TasksKeep, RegOK, ActiveOK
    <2>2. QuietOK(g)'
      BY <1>0, <1>1, <1>3, <1>6, <1>8 DEF TasksKeep, RegOK, QuietOK, Waiting
    <2> QED BY <2>1, <2>2
  <1> QED BY <1>5, <1>7, <1>9, <1>10, OneChanges DEF RegOK

LEMMA MarkRegs ==
    ASSUME RInv, UNCHANGED mix, NEW g \in Gens, gen[g].cdb = "pending", MarkAmbiguous(g), TasksKeep(g),
           mix.slow \/ (task'[g].at = "idle" /\ LateOf(g) = {})
    PROVE  GwT' /\ Registered'
  <1>0. Typed /\ RegOK(g) /\ gen[g].shard \in Shards
    BY GenerationOK
  <1> DEFINE q == [Retired(gen[g]) EXCEPT !.cdb = "retiring"]
  <1>1. q \in GenRecs /\ q.life = "retiring" /\ q.shard = gen[g].shard /\ q.cdb = "retiring"
    <2>1. Retired(gen[g]) \in GenRecs /\ Retired(gen[g]).life = "retiring" /\ Retired(gen[g]).shard = gen[g].shard
      BY <1>0, RetiredTyped
    <2> QED BY <2>1 DEF GenRecs
  <1>2. /\ head' = (IF head = g THEN 0 ELSE head) /\ gen' = [gen EXCEPT ![g] = q]
        /\ snap' = [snap EXCEPT ![g] = NoSnap] /\ replay' = replay
    BY DEF MarkAmbiguous
  <1> HIDE DEF q
  <1>3. gen'[g] = q /\ (\A h \in Gens \ {g} : gen'[h] = gen[h]) /\ gen' \in [Gens -> GenRecs]
    BY <1>0, <1>1, <1>2, Generation
  <1>4. snap' \in [Gens -> SnapRecs] /\ replay' \in Replays /\ head' \in 0..mix.gens
    BY <1>0, <1>2, NoSnapTyped, Generation, Bounds DEF Typed, GwT
  <1>5. GwT'
    BY <1>3, <1>4, SameBounds DEF GwT
  <1>6. (\A h \in Gens : LateOf(h)' = LateOf(h)) /\ 0 \notin Gens
    BY <1>0, Bounds DEF TasksKeep, LateOf, Typed
  <1>7. \A h \in Gens \ {g} : SameAt(h)
    BY <1>2, <1>3, <1>6 DEF TasksKeep, SameAt
  <1>8. HeadOK(g)' /\ CleanOK(g)'
    BY <1>0, <1>1, <1>2, <1>3, <1>6 DEF TasksKeep, RegOK, HeadOK, CleanOK, ToClean
  <1>9. ShardOK(g)' /\ EarlyOK(g)' /\ ActiveOK(g)'
    BY <1>0, <1>1, <1>3, <1>6
    DEF TasksKeep, RegOK, HeadOK, ShardOK, EarlyOK, ActiveOK, Waiting, Early
  <1>10. QuietOK(g)'
    BY <1>0, <1>1, <1>3, <1>6 DEF TasksKeep, RegOK, QuietOK, CleanOK, ToClean, Waiting
  <1> QED BY <1>5, <1>7, <1>8, <1>9, <1>10, OneChanges DEF RegOK

LEMMA DeleteRegs ==
    ASSUME RInv, UNCHANGED mix, NEW g \in Gens, DeleteNeverRegistered(g), TasksKeep(g), task'[g].at = "idle",
           ~mix.slow => LateOf(g) = {} /\ \A c \in Shards : sub[c][g] # "active"
    PROVE  GwT' /\ Registered'
  <1>0. Typed /\ RegOK(g) /\ gen[g].shard \in Shards
    BY GenerationOK
  <1>1. CASE UNCHANGED gwVars
    BY <1>1, EndsRegs
  <1>2. CASE gen[g].cdb = "pending"
    <2>1. /\ head' = (IF head = g THEN 0 ELSE head) /\ gen' = [gen EXCEPT ![g] = NoGen]
          /\ snap' = [snap EXCEPT ![g] = NoSnap] /\ replay' = replay
      BY <1>2 DEF DeleteNeverRegistered
    <2>2. NoGen \in GenRecs /\ NoGen.life = "none" /\ NoGen.cdb = "none"
      BY DEF NoGen, GenRecs, Shards
    <2>3. gen'[g] = NoGen /\ (\A h \in Gens \ {g} : gen'[h] = gen[h]) /\ gen' \in [Gens -> GenRecs]
      BY <1>0, <2>1, <2>2, Generation
    <2>4. snap' \in [Gens -> SnapRecs] /\ replay' \in Replays /\ head' \in 0..mix.gens
      BY <1>0, <2>1, NoSnapTyped, Generation, Bounds DEF Typed, GwT
    <2>5. GwT'
      BY <2>3, <2>4, SameBounds DEF GwT
    <2>6. (\A h \in Gens : LateOf(h)' = LateOf(h)) /\ 0 \notin Gens
      BY <1>0, Bounds DEF TasksKeep, LateOf, Typed
    <2>7. \A h \in Gens \ {g} : SameAt(h)
      BY <2>1, <2>3, <2>6 DEF TasksKeep, SameAt
    <2>8. HeadOK(g)' /\ CleanOK(g)' /\ ShardOK(g)' /\ EarlyOK(g)' /\ ActiveOK(g)'
      BY <1>0, <1>2, <2>1, <2>2, <2>3, <2>6
      DEF TasksKeep, RegOK, HeadOK, CleanOK, ToClean, ShardOK, EarlyOK, ActiveOK, Waiting, Early
    <2>9. QuietOK(g)'
      BY <1>0, <2>2, <2>3, <2>6 DEF TasksKeep, RegOK, QuietOK, Waiting
    <2> QED BY <2>5, <2>7, <2>8, <2>9, OneChanges DEF RegOK
  <1> QED BY <1>1, <1>2 DEF DeleteNeverRegistered

LEMMA ActivateRegs ==
    ASSUME RInv, UNCHANGED mix, NEW g \in Gens, CanActivate(g), task[g].at = "ok", NEW seq \in Nat, Activate(g, seq),
           TasksKeep(g), task'[g].at = "idle"
    PROVE  GwT' /\ Registered'
  <1>0. Typed /\ RegOK(g) /\ gen[g].shard \in Shards /\ task[g].shard \in Shards /\ gen[g] \in GenRecs
    BY GenerationOK, Generation
  <1>1. PICK r : r = [gen[g] EXCEPT !.life = "active", !.cdb = "active", !.initial = TRUE,
                                    !.dirty = IF seq > @ THEN seq ELSE @]
    OBVIOUS
  <1>2. r \in GenRecs /\ r.life = "active" /\ r.cdb = "active" /\ r.shard = gen[g].shard
    BY <1>0, <1>1 DEF GenRecs
  <1>3. gen' = [gen EXCEPT ![g] = r] /\ UNCHANGED <<head, snap, replay>>
    BY <1>0, <1>1, Generation DEF Activate
  <1>4. gen'[g] = r /\ (\A h \in Gens \ {g} : gen'[h] = gen[h]) /\ gen' \in [Gens -> GenRecs]
    BY <1>0, <1>2, <1>3, Generation
  <1>5. GwT'
    BY <1>0, <1>3, <1>4, SameBounds DEF GwT, Typed
  <1>6. \A h \in Gens : LateOf(h)' = LateOf(h)
    BY DEF TasksKeep, LateOf
  <1>7. \A h \in Gens \ {g} : SameAt(h)
    BY <1>3, <1>4, <1>6 DEF TasksKeep, SameAt
  <1>8. HeadOK(g)' /\ CleanOK(g)' /\ ShardOK(g)' /\ EarlyOK(g)'
    BY <1>0, <1>2, <1>3, <1>4, <1>6
    DEF TasksKeep, CanActivate, RegOK, HeadOK, CleanOK, ToClean, ShardOK, EarlyOK, Waiting, Early
  <1>9. ActiveOK(g)'
    <2>1. sub[gen[g].shard][g] = "active"
      BY <1>0 DEF CanActivate, RegOK, ShardOK, ActiveOK, Waiting
    <2> QED BY <1>2, <1>4, <2>1 DEF TasksKeep, ActiveOK
  <1>10. QuietOK(g)'
    BY <1>0, <1>2, <1>4, <1>6 DEF TasksKeep, CanActivate, RegOK, QuietOK, Waiting
  <1> QED BY <1>5, <1>7, <1>8, <1>9, <1>10, OneChanges DEF RegOK

\* An installation takes the head from the generation it supersedes.
LEMMA InstallRegs ==
    ASSUME RInv, UNCHANGED <<mix, late, sub, clean>>, NEW g \in Gens, NEW conn \in Nat, NEW auth \in Nat,
           task[g].at = "install", Install(g, conn, task[g].shard, auth),
           task' = [task EXCEPT ![g].at = "send"]
    PROVE  GwT' /\ Registered'
  <1>0. /\ Typed /\ RegOK(g) /\ gen \in [Gens -> GenRecs] /\ task[g].shard \in Shards /\ gen[g].life = "none"
        /\ task \in [Gens -> TaskRecs] /\ head # g
    BY GenerationOK, Generation DEF Typed, TaskT, RegOK, EarlyOK, HeadOK, Early
  <1> DEFINE q == Installing(conn, task[g].shard, auth)
  <1>1. q \in GenRecs /\ q.life = "installing" /\ q.cdb = "pending" /\ q.shard = task[g].shard
    <2>1. NoGen \in GenRecs
      BY DEF NoGen, GenRecs, Shards
    <2> QED BY <1>0, <2>1 DEF Installing, GenRecs
  <1>2. \A h \in Gens : /\ Retired(gen[h]) \in GenRecs /\ Retired(gen[h]).life = "retiring"
                        /\ Retired(gen[h]).shard = gen[h].shard
                        /\ Retired(gen[h]).cdb = IF gen[h].cdb = "pending" THEN "pending" ELSE "retiring"
    BY <1>0, RetiredTyped
  <1>3. /\ head' = g
        /\ gen' = [h \in Gens |-> IF h = g THEN q ELSE IF h = head THEN Retired(gen[h]) ELSE gen[h]]
        /\ snap' = [h \in Gens |-> IF h = head THEN NoSnap ELSE snap[h]] /\ replay' = Retained
    BY DEF Install
  <1> HIDE DEF q
  <1>4. gen' \in [Gens -> GenRecs]
    BY <1>0, <1>1, <1>2, <1>3
  <1>5. snap' \in [Gens -> SnapRecs] /\ replay' \in Replays
    BY <1>0, <1>3, NoSnapTyped, RetainedTyped, Generation
  <1>6. head' \in 0..mix.gens
    BY <1>0, <1>3, Bounds DEF Gens, Typed
  <1>7. GwT'
    BY <1>4, <1>5, <1>6, SameBounds DEF GwT
  <1>8. /\ \A h \in Gens : LateOf(h)' = LateOf(h)
        /\ task'[g].at = "send" /\ task'[g].shard = task[g].shard
        /\ \A h \in Gens \ {g} : task'[h] = task[h]
    BY <1>0 DEF LateOf, TaskRecs
  <1>9. RegOK(g)'
    <2>1. gen'[g] = q
      BY <1>3
    <2>2. \A c \in Shards : sub'[c][g] = "absent"
      BY <1>0 DEF RegOK, EarlyOK, Early
    <2>3. LateOf(g)' = {}
      BY <1>0, <1>8 DEF RegOK, EarlyOK, Early
    <2>4. clean'[g] = 0
      BY <1>0 DEF RegOK, CleanOK, ToClean
    <2>5. HeadOK(g)' /\ CleanOK(g)'
      BY <1>1, <1>3, <2>1, <2>4 DEF HeadOK, CleanOK
    <2>6. ShardOK(g)' /\ EarlyOK(g)'
      BY <1>1, <1>8, <2>1, <2>2, <2>3 DEF ShardOK, EarlyOK, Early
    <2>7. ActiveOK(g)'
      BY <1>1, <1>8, <2>1 DEF ActiveOK
    <2>8. QuietOK(g)'
      BY <1>1, <1>8, <2>1, <2>2, <2>3, <2>4 DEF QuietOK
    <2> QED BY <2>5, <2>6, <2>7, <2>8 DEF RegOK
  <1>10. ASSUME NEW h \in Gens, h # g PROVE RegOK(h)'
    <2>0. RegOK(h) /\ gen[h].shard \in Shards /\ task[h].shard \in Shards
      BY GenerationOK
    <2>1. CASE h # head
      <3>1. gen'[h] = gen[h]
        BY <1>3, <1>10, <2>1
      <3>2. SameAt(h)
        BY <1>3, <1>8, <1>10, <2>1, <3>1 DEF SameAt
      <3> QED BY <1>0, <2>0, <3>2, SameReg DEF SameAt
    <2>2. CASE h = head
      <3>1. gen'[h] = Retired(gen[h])
        BY <1>3, <1>10, <2>2
      <3>2. gen[h].life \in {"installing", "active"}
        BY <2>0, <2>2 DEF RegOK, HeadOK
      <3>3. HeadOK(h)' /\ CleanOK(h)' /\ ShardOK(h)' /\ EarlyOK(h)'
        BY <1>2, <1>3, <1>8, <1>10, <2>0, <3>1, <3>2
        DEF RegOK, HeadOK, CleanOK, ToClean, ShardOK, EarlyOK, Waiting, Early
      <3>4. ActiveOK(h)'
        BY <1>2, <1>8, <1>10, <2>0, <3>1, <3>2 DEF RegOK, ActiveOK
      <3>5. QuietOK(h)'
        BY <1>2, <1>8, <1>10, <2>0, <3>1, <3>2 DEF RegOK, QuietOK, Waiting
      <3> QED BY <3>3, <3>4, <3>5 DEF RegOK
    <2> QED BY <2>1, <2>2
  <1> QED BY <1>7, <1>9, <1>10, SameBounds DEF Registered

-----------------------------------------------------------------------------
(* Subscribing.                                                            *)

\* A step of the Gateway.
LEMMA GatewayChange ==
    ASSUME RInv, UNCHANGED <<mix, liveVars, deliv>>, GwT', TaskT', WorkT', SockT', FrameT', ClientT', FaultT', Registered'
    PROVE  RInv'
  <1>0. Typed
    BY DEF RInv
  <1>1. MixT' /\ CdbT' /\ AuthT' /\ DelivT'
    BY <1>0, TypeFrames DEF liveVars, catalogVars
  <1>2. DelivOK' /\ OutOK'
    BY ClockStays DEF liveVars
  <1> QED BY <1>1, <1>2 DEF RInv, Typed

LEMMA IdleTyped ==
    ASSUME Typed
    PROVE  IdleTask \in TaskRecs /\ IdleTask.at = "idle" /\ IdleTask.shard \in Shards
  BY DEF IdleTask, TaskRecs, Shards, SubscribeSteps

\* One task changes.
LEMMA OneTask ==
    ASSUME Typed, UNCHANGED mix, NEW g \in Gens, NEW t \in TaskRecs, task' = [task EXCEPT ![g] = t], late' \subseteq Calls
    PROVE  TaskT' /\ task'[g] = t /\ \A h \in Gens \ {g} : task'[h] = task[h]
  <1>1. task \in [Gens -> TaskRecs]
    BY DEF Typed, TaskT
  <1>2. task' \in [Gens -> TaskRecs] /\ task'[g] = t /\ \A h \in Gens \ {g} : task'[h] = task[h]
    BY <1>1
  <1> QED BY <1>2, SameBounds DEF TaskT

\* A task that ends, or goes on before its installation.
LEMMA EarlyTask ==
    ASSUME RInv, UNCHANGED <<mix, gwVars, late, sub, clean>>, NEW g \in Gens, NEW t \in TaskRecs,
           task' = [task EXCEPT ![g] = t], task[g].at \in Early, t.at \in Early \cup {"idle"}
    PROVE  GwT' /\ TaskT' /\ Registered'
  <1>0. Typed /\ RegOK(g) /\ late \subseteq Calls
    BY GenerationOK DEF Typed, TaskT
  <1>1. TaskT' /\ task'[g] = t /\ \A h \in Gens \ {g} : task'[h] = task[h]
    BY <1>0, OneTask
  <1>2. \A h \in Gens : LateOf(h)' = LateOf(h)
    BY DEF LateOf
  <1>3. \A h \in Gens \ {g} : SameAt(h)
    BY <1>1, <1>2 DEF SameAt, gwVars
  <1>4. HeadOK(g)' /\ CleanOK(g)' /\ ShardOK(g)' /\ EarlyOK(g)' /\ ActiveOK(g)'
    BY <1>0, <1>1, <1>2 DEF gwVars, RegOK, HeadOK, CleanOK, ToClean, ShardOK, EarlyOK, ActiveOK, Waiting, Early
  <1>5. QuietOK(g)'
    BY <1>0, <1>1, <1>2 DEF gwVars, RegOK, QuietOK, EarlyOK, Waiting, Early
  <1>6. GwT'
    BY <1>0, TypeFrames DEF gwVars
  <1> QED BY <1>1, <1>3, <1>4, <1>5, <1>6, OneChanges DEF RegOK

LEMMA DequeueStep ==
    ASSUME RInv, UNCHANGED mix, NEW g \in Gens, Dequeue(g) \/ SubAuth(g)
    PROVE  RInv'
  <1>0. Typed /\ task[g] \in TaskRecs /\ task \in [Gens -> TaskRecs]
    BY Generation DEF RInv, Typed, TaskT
  <1>1. UNCHANGED <<liveVars, gwVars, late, workVars, deliv, sockVars, down, up, clientVars, faults>>
    BY DEF Dequeue, SubAuth
  <1>2. PICK t \in TaskRecs : task' = [task EXCEPT ![g] = t] /\ t.at \in Early \cup {"idle"} /\ task[g].at \in Early
    <2>1. CASE Dequeue(g)
      <3>1. PICK t : t = IF task[g].cancelled THEN IdleTask ELSE [task[g] EXCEPT !.at = "auth"]
        OBVIOUS
      <3>2. t \in TaskRecs /\ t.at \in Early \cup {"idle"}
        BY <1>0, <3>1, IdleTyped DEF TaskRecs, SubscribeSteps, Early
      <3>3. task' = [task EXCEPT ![g] = t]
        BY <1>0, <2>1, <3>1 DEF Dequeue
      <3> QED BY <2>1, <3>2, <3>3 DEF Dequeue, Early
    <2>2. CASE SubAuth(g)
      <3>1. PICK t : t = [task[g] EXCEPT !.at = "install", !.auth = epoch, !.ok = granted, !.shard = Route]
        OBVIOUS
      <3>2. Route \in Shards /\ epoch \in Nat /\ granted \in BOOLEAN
        BY <1>0 DEF Route, Shards, Typed, AuthT
      <3>3. t \in TaskRecs /\ t.at = "install"
        BY <1>0, <3>1, <3>2 DEF TaskRecs, SubscribeSteps
      <3>4. task' = [task EXCEPT ![g] = t]
        BY <1>0, <2>2, <3>1 DEF SubAuth
      <3> QED BY <2>2, <3>3, <3>4 DEF SubAuth, Early
    <2> QED BY <2>1, <2>2
  <1>3. GwT' /\ TaskT' /\ Registered'
    BY <1>1, <1>2, EarlyTask DEF liveVars, workVars
  <1>4. WorkT' /\ SockT' /\ FrameT' /\ ClientT' /\ FaultT'
    BY <1>0, <1>1, TypeFrames DEF workVars, sockVars, clientVars
  <1> QED BY <1>1, <1>3, <1>4, GatewayChange

LEMMA TellTyped ==
    ASSUME Typed, NEW conn, NEW k \in {"lagged", "refetch", "retry", "error"}, Tell(conn, k) \/ UNCHANGED down, UNCHANGED mix
    PROVE  down' \in Seq(Frames)
  BY FrameTypes DEF Tell, Typed, FrameT

LEMMA SubInstallStep ==
    ASSUME RInv, UNCHANGED mix, NEW g \in Gens, SubInstall(g)
    PROVE  RInv'
  <1>0. /\ Typed /\ task[g] \in TaskRecs /\ task \in [Gens -> TaskRecs] /\ task[g].at = "install" /\ late \subseteq Calls
        /\ FrameT /\ SockT
    BY Generation DEF RInv, Typed, TaskT, SubInstall
  <1>1. UNCHANGED <<liveVars, late, workVars, deliv, sock, listed, base, up, clientVars, faults>>
    BY DEF SubInstall
  <1>2. WorkT' /\ ClientT' /\ FaultT'
    BY <1>0, <1>1, TypeFrames DEF workVars, clientVars
  <1>3. /\ down' \in Seq(Frames) /\ resume' \in {"no", "try", "told"}
    BY <1>0, TellTyped DEF SubInstall, SockT
  <1>4. SockT' /\ FrameT'
    BY <1>0, <1>1, <1>3, SameBounds DEF SockT, FrameT
  <1>5. CASE EndTask(g) /\ UNCHANGED <<head, gen, snap>> /\ replay' \in Replays
    <2>1. task' = [task EXCEPT ![g] = IdleTask] /\ IdleTask \in TaskRecs /\ IdleTask.at = "idle"
      BY <1>0, <1>5, IdleTyped DEF EndTask
    <2>2. GwT'
      BY <1>0, <1>5, SameBounds DEF Typed, GwT
    <2>3. TaskT' /\ task'[g] = IdleTask /\ \A h \in Gens \ {g} : task'[h] = task[h]
      BY <1>0, <1>1, <2>1, OneTask
    <2>4. \A h \in Gens : LateOf(h)' = LateOf(h)
      BY <1>1 DEF LateOf
    <2>5. \A h \in Gens \ {g} : SameAt(h)
      BY <1>1, <1>5, <2>3, <2>4 DEF SameAt, liveVars, workVars
    <2>6. RegOK(g) /\ UNCHANGED <<sub, clean>>
      BY <1>1, GenerationOK DEF liveVars, workVars
    <2>7. HeadOK(g)' /\ CleanOK(g)' /\ ShardOK(g)' /\ EarlyOK(g)' /\ ActiveOK(g)'
      BY <1>0, <1>5, <2>1, <2>3, <2>4, <2>6 DEF RegOK, HeadOK, CleanOK, ToClean, ShardOK, EarlyOK, ActiveOK, Waiting, Early
    <2>8. QuietOK(g)'
      BY <1>0, <1>5, <2>1, <2>3, <2>4, <2>6 DEF RegOK, QuietOK, EarlyOK, Waiting, Early
    <2> QED BY <1>1, <1>2, <1>4, <2>2, <2>3, <2>5, <2>7, <2>8, OneChanges, GatewayChange DEF RegOK
  <1>6. CASE Install(g, task[g].conn, task[g].shard, task[g].auth) /\ task' = [task EXCEPT ![g].at = "send"]
    <2>1. task[g].conn \in Nat /\ task[g].auth \in Nat
      <3>1. task[g].conn \in {0} \cup Conns /\ task[g].auth \in Nat
        BY <1>0 DEF TaskRecs
      <3> QED BY <1>0, <3>1, Bounds DEF Conns, Typed
    <2>2. GwT' /\ Registered'
      BY <1>0, <1>1, <1>6, <2>1, InstallRegs DEF liveVars, workVars
    <2>3. [task[g] EXCEPT !.at = "send"] \in TaskRecs
      BY <1>0 DEF TaskRecs, SubscribeSteps
    <2>4. task' = [task EXCEPT ![g] = [task[g] EXCEPT !.at = "send"]]
      BY <1>0, <1>6
    <2>5. TaskT'
      BY <1>0, <1>1, <2>3, <2>4, OneTask
    <2> QED BY <1>1, <1>2, <1>4, <2>2, <2>5, GatewayChange
  <1>7. NoReplay \in Replays /\ replay \in Replays /\ Retained \in Replays
    BY <1>0, CookieTypes, RetainedTyped DEF Typed, GwT
  <1> QED BY <1>5, <1>6, <1>7 DEF SubInstall, gwVars

LEMMA EndingTask ==
    ASSUME RInv, UNCHANGED <<mix, late, sub, clean>>, NEW g \in Gens, EndTask(g)
    PROVE  TaskT' /\ TasksKeep(g) /\ task'[g].at = "idle"
  <1>0. Typed /\ late \subseteq Calls /\ IdleTask \in TaskRecs /\ IdleTask.at = "idle" /\ IdleTask.shard \in Shards
    BY IdleTyped DEF RInv, Typed, TaskT
  <1>1. task' = [task EXCEPT ![g] = IdleTask]
    BY DEF EndTask
  <1>2. TaskT' /\ task'[g] = IdleTask /\ \A h \in Gens \ {g} : task'[h] = task[h]
    BY <1>0, <1>1, OneTask
  <1> QED BY <1>0, <1>2 DEF TasksKeep

LEMMA SubSendStep ==
    ASSUME RInv, UNCHANGED mix, NEW g \in Gens, SubSend(g)
    PROVE  RInv'
  <1>0. Typed /\ RegOK(g) /\ task[g] \in TaskRecs /\ task \in [Gens -> TaskRecs] /\ task[g].at = "send" /\ late \subseteq Calls
    BY Generation, GenerationOK DEF RInv, Typed, TaskT, SubSend
  <1>1. UNCHANGED <<liveVars, late, workVars, deliv, sockVars, down, up, clientVars, faults>>
    BY DEF SubSend
  <1>2. WorkT' /\ ClientT' /\ FaultT' /\ SockT' /\ FrameT'
    BY <1>0, <1>1, TypeFrames DEF workVars, clientVars, sockVars
  <1>3. CASE EndTask(g) /\ DeleteNeverRegistered(g)
    <2>1. UNCHANGED <<late, sub, clean>>
      BY <1>1 DEF liveVars, workVars
    <2>2. TaskT' /\ TasksKeep(g) /\ task'[g].at = "idle"
      BY <1>3, <2>1, EndingTask
    <2>3. ~mix.slow => LateOf(g) = {} /\ \A c \in Shards : sub[c][g] # "active"
      BY <1>0 DEF RegOK, EarlyOK, QuietOK
    <2>4. GwT' /\ Registered'
      BY <1>3, <2>2, <2>3, DeleteRegs
    <2> QED BY <1>1, <1>2, <2>2, <2>4, GatewayChange
  <1>4. CASE task' = [task EXCEPT ![g].at = "rpc"] /\ UNCHANGED gwVars
    <2>1. PICK t : t = [task[g] EXCEPT !.at = "rpc"]
      OBVIOUS
    <2>2. t \in TaskRecs /\ t.at = "rpc" /\ t.shard = task[g].shard
      BY <1>0, <2>1 DEF TaskRecs, SubscribeSteps
    <2>3. task' = [task EXCEPT ![g] = t]
      BY <1>0, <1>4, <2>1
    <2>4. TaskT' /\ task'[g] = t /\ \A h \in Gens \ {g} : task'[h] = task[h]
      BY <1>0, <1>1, <2>2, <2>3, OneTask
    <2>5. (\A h \in Gens : LateOf(h)' = LateOf(h)) /\ UNCHANGED <<sub, clean>>
      BY <1>1 DEF LateOf, liveVars, workVars
    <2>6. \A h \in Gens \ {g} : SameAt(h)
      BY <1>4, <2>4, <2>5 DEF SameAt, gwVars
    <2>7. HeadOK(g)' /\ CleanOK(g)' /\ ShardOK(g)' /\ EarlyOK(g)' /\ ActiveOK(g)'
      BY <1>0, <1>4, <2>2, <2>4, <2>5
      DEF gwVars, RegOK, HeadOK, CleanOK, ToClean, ShardOK, EarlyOK, ActiveOK, Waiting, Early
    <2>8. QuietOK(g)'
      BY <1>0, <1>4, <2>2, <2>4, <2>5 DEF gwVars, RegOK, QuietOK, EarlyOK, Waiting
    <2>9. GwT'
      BY <1>0, <1>4, TypeFrames DEF gwVars
    <2> QED BY <1>1, <1>2, <2>4, <2>6, <2>7, <2>8, <2>9, OneChanges, GatewayChange DEF RegOK
  <1> QED BY <1>3, <1>4 DEF SubSend

\* The Cdb registers g, or refuses to.
LEMMA Subscribes ==
    ASSUME RInv, UNCHANGED <<mix, rows, clock, out, fenced>>, NEW c \in Shards, NEW g \in Gens, Subscribe(c, g)
    PROVE  /\ CdbT' /\ OutOK'
           /\ \A x \in Shards, h \in Gens : x # c \/ h # g => sub'[x][h] = sub[x][h]
           /\ SubscribeAnswer(c, g) = "ok" => sub'[c][g] = "active"
           /\ SubscribeAnswer(c, g) # "ok" => sub'[c][g] = sub[c][g]
           /\ SubscribeAnswer(c, g) \in {"ok", "absent", "throws"}
  <1>0. sub \in [Shards -> [Gens -> {"absent", "active", "retired"}]] /\ CdbT
    BY DEF RInv, Typed, CdbT
  <1>1. SubscribeAnswer(c, g) \in {"ok", "absent", "throws"}
    BY Zenon DEF SubscribeAnswer
  <1>2. PICK b : b = SubscribeAnswer(c, g)
    OBVIOUS
  <1>3. sub' = IF b = "ok" THEN [sub EXCEPT ![c][g] = "active"] ELSE sub
    BY <1>2 DEF Subscribe
  <1>4. /\ sub' \in [Shards -> [Gens -> {"absent", "active", "retired"}]]
        /\ \A x \in Shards, h \in Gens : x # c \/ h # g => sub'[x][h] = sub[x][h]
        /\ b = "ok" => sub'[c][g] = "active"
        /\ b # "ok" => sub'[c][g] = sub[c][g]
    BY <1>0, <1>3
  <1>5. CdbT'
    BY <1>0, <1>4, SameBounds DEF CdbT
  <1>6. OutOK'
    BY ClockStays
  <1> QED BY <1>1, <1>2, <1>4, <1>5, <1>6

\* A step of the Cdb's registrations.
LEMMA RegistrationChange ==
    ASSUME RInv, UNCHANGED <<mix, rows, clock, out, fenced, authSeen, catalogVars, gwVars, clean, runs, sends, deliv>>,
           UNCHANGED <<sockVars, down, up, clientVars>>, CdbT', OutOK', TaskT', FaultT', Registered'
    PROVE  RInv'
  <1>0. Typed
    BY DEF RInv
  <1>1. MixT' /\ AuthT' /\ DelivT' /\ GwT' /\ WorkT' /\ SockT' /\ FrameT' /\ ClientT'
    BY <1>0, TypeFrames DEF catalogVars, gwVars, sockVars, clientVars
  <1>2. DelivOK'
    BY ClockStays
  <1> QED BY <1>1, <1>2 DEF RInv, Typed

LEMMA CdbSubscribeStep ==
    ASSUME RInv, UNCHANGED mix, NEW g \in Gens, CdbSubscribe(g)
    PROVE  RInv'
  <1>0. /\ Typed /\ RegOK(g) /\ task[g] \in TaskRecs /\ task \in [Gens -> TaskRecs] /\ task[g].at = "rpc" /\ late \subseteq Calls
        /\ gen[g].shard \in Shards
    BY Generation, GenerationOK DEF RInv, Typed, TaskT, CdbSubscribe
  <1>1. /\ UNCHANGED <<rows, clock, out, fenced, authSeen, catalogVars, gwVars, late, clean, runs, sends, deliv>>
        /\ UNCHANGED <<sockVars, down, up, clientVars, faults>>
    BY DEF CdbSubscribe, workVars
  <1>2. PICK c \in Shards : c = task[g].shard
    BY <1>0 DEF TaskRecs
  <1>3. PICK b : b = SubscribeAnswer(c, g)
    OBVIOUS
  <1>4. /\ CdbT' /\ OutOK'
        /\ \A x \in Shards, h \in Gens : x # c \/ h # g => sub'[x][h] = sub[x][h]
        /\ b = "ok" => sub'[c][g] = "active"
        /\ b # "ok" => sub'[c][g] = sub[c][g]
        /\ b \in {"ok", "absent", "throws"}
    BY <1>1, <1>2, <1>3, Subscribes DEF CdbSubscribe
  <1>5. PICK t : t = [task[g] EXCEPT !.at = b, !.seq = clock[c]]
    OBVIOUS
  <1>6. t \in TaskRecs /\ t.at = b /\ t.shard = c
    <2>1. clock[c] \in Nat
      BY <1>0 DEF Typed, CdbT
    <2> QED BY <1>0, <1>2, <1>4, <1>5, <2>1 DEF TaskRecs, SubscribeSteps
  <1>7. task' = [task EXCEPT ![g] = t]
    BY <1>0, <1>2, <1>3, <1>5 DEF CdbSubscribe
  <1>8. TaskT' /\ task'[g] = t /\ \A h \in Gens \ {g} : task'[h] = task[h]
    BY <1>0, <1>1, <1>6, <1>7, OneTask
  <1>9. \A h \in Gens : LateOf(h)' = LateOf(h)
    BY <1>1 DEF LateOf
  <1>10. \A h \in Gens \ {g} : SameAt(h)
    BY <1>1, <1>4, <1>8, <1>9 DEF SameAt, gwVars
  <1>11. LateOf(g) = {} /\ UNCHANGED <<head, gen, clean>>
    BY <1>0, <1>1 DEF RegOK, EarlyOK, gwVars
  <1>12. HeadOK(g)' /\ CleanOK(g)' /\ EarlyOK(g)'
    BY <1>0, <1>4, <1>6, <1>8, <1>9, <1>11 DEF RegOK, HeadOK, CleanOK, ToClean, EarlyOK, Early
  <1>13. ShardOK(g)' /\ ActiveOK(g)'
    BY <1>0, <1>2, <1>4, <1>6, <1>8, <1>9, <1>11 DEF RegOK, ShardOK, ActiveOK, Waiting
  <1>14. QuietOK(g)'
    <2>1. ~mix.slow => gen[g].cdb = "pending" /\ gen[g].life # "none" /\ clean[g] = 0 /\ \A x \in Shards : sub[x][g] = "absent"
      BY <1>0 DEF RegOK, QuietOK, HeadOK, CleanOK, ToClean, Waiting
    <2> QED BY <1>2, <1>4, <1>6, <1>8, <1>9, <1>11, <2>1 DEF QuietOK, Waiting
  <1>15. FaultT'
    BY <1>0, <1>1, TypeFrames
  <1> QED BY <1>1, <1>4, <1>8, <1>10, <1>12, <1>13, <1>14, <1>15, OneChanges, RegistrationChange DEF RegOK

LEMMA LateSubscribeStep ==
    ASSUME RInv, UNCHANGED mix, NEW l \in late, CdbSubscribeLate(l)
    PROVE  RInv'
  <1>0. l \in Calls /\ late \subseteq Calls /\ Typed
    BY DEF RInv, Typed, TaskT
  <1>1. PICK g \in Gens, c \in Shards : g = l.g /\ c = l.shard
    BY <1>0 DEF Calls
  <1>2. /\ UNCHANGED <<rows, clock, out, fenced, authSeen, catalogVars, gwVars, task, clean, runs, sends, deliv>>
        /\ UNCHANGED <<sockVars, down, up, clientVars, faults>> /\ late' = late \ {l}
    BY DEF CdbSubscribeLate, workVars
  <1>3. RegOK(g) /\ gen[g].shard \in Shards /\ task[g].shard \in Shards
    BY GenerationOK
  <1>4. /\ CdbT' /\ OutOK'
        /\ \A x \in Shards, h \in Gens : x # c \/ h # g => sub'[x][h] = sub[x][h]
        /\ sub'[c][g] = "active" \/ sub'[c][g] = sub[c][g]
    BY <1>1, <1>2, Subscribes DEF CdbSubscribeLate
  <1>5. TaskT' /\ FaultT'
    BY <1>0, <1>2, TypeFrames, SameBounds DEF Typed, TaskT
  <1>6. l \in LateOf(g) /\ LateOf(g)' \subseteq LateOf(g) /\ \A h \in Gens \ {g} : LateOf(h)' = LateOf(h)
    BY <1>1, <1>2 DEF LateOf
  <1>7. \A h \in Gens \ {g} : SameAt(h)
    BY <1>2, <1>4, <1>6 DEF SameAt, gwVars
  <1>8. task[g].at \notin Early \cup {"send", "rpc"}
    BY <1>3, <1>6 DEF RegOK, EarlyOK
  <1>9. HeadOK(g)' /\ CleanOK(g)' /\ EarlyOK(g)'
    BY <1>2, <1>3, <1>8 DEF gwVars, RegOK, HeadOK, CleanOK, ToClean, EarlyOK, Early
  <1>10. ShardOK(g)'
    BY <1>1, <1>2, <1>3, <1>4, <1>6 DEF gwVars, RegOK, ShardOK
  <1>11. ActiveOK(g)'
    BY <1>2, <1>3, <1>4 DEF gwVars, RegOK, ActiveOK
  <1>12. QuietOK(g)'
    BY <1>2, <1>3, <1>4, <1>6 DEF gwVars, RegOK, QuietOK, HeadOK, CleanOK, ToClean, Waiting
  <1> QED BY <1>2, <1>4, <1>5, <1>7, <1>9, <1>10, <1>11, <1>12, OneChanges, RegistrationChange DEF RegOK

LEMMA CallFailsStep ==
    ASSUME RInv, UNCHANGED mix, NEW g \in Gens, SubCallFails(g)
    PROVE  RInv'
  <1>0. /\ Typed /\ RegOK(g) /\ task[g] \in TaskRecs /\ task \in [Gens -> TaskRecs] /\ late \subseteq Calls
        /\ task[g].at \in {"rpc", "ok", "absent"} /\ task[g].shard \in Shards
    BY Generation, GenerationOK DEF RInv, Typed, TaskT, SubCallFails
  <1>1. UNCHANGED <<liveVars, gwVars, workVars, deliv, sockVars, down, up, clientVars>> /\ Fault
    BY DEF SubCallFails
  <1>2. late' = late \/ (mix.slow /\ late' = late \cup {Call(g)})
    BY DEF SubCallFails
  <1>3. PICK t : t = [task[g] EXCEPT !.at = "throws"]
    OBVIOUS
  <1>4. t \in TaskRecs /\ t.at = "throws" /\ t.shard = task[g].shard
    BY <1>0, <1>3 DEF TaskRecs, SubscribeSteps
  <1>5. task' = [task EXCEPT ![g] = t]
    BY <1>0, <1>3 DEF SubCallFails
  <1>6. Call(g) \in Calls /\ Call(g).g = g /\ Call(g).shard = task[g].shard
    BY <1>0 DEF Call, Calls
  <1>7. TaskT' /\ task'[g] = t /\ \A h \in Gens \ {g} : task'[h] = task[h]
    BY <1>0, <1>2, <1>4, <1>5, <1>6, OneTask
  <1>8. /\ \A h \in Gens \ {g} : LateOf(h)' = LateOf(h)
        /\ LateOf(g)' \subseteq LateOf(g) \cup {Call(g)}
        /\ ~mix.slow => LateOf(g)' = LateOf(g)
    BY <1>2, <1>6 DEF LateOf
  <1>9. UNCHANGED <<head, gen, sub, clean>>
    BY <1>1 DEF liveVars, gwVars, workVars
  <1>10. \A h \in Gens \ {g} : SameAt(h)
    BY <1>7, <1>8, <1>9 DEF SameAt
  <1>11. HeadOK(g)' /\ CleanOK(g)' /\ EarlyOK(g)' /\ ActiveOK(g)'
    BY <1>0, <1>4, <1>7, <1>9 DEF RegOK, HeadOK, CleanOK, ToClean, EarlyOK, ActiveOK, Early
  <1>12. ShardOK(g)'
    BY <1>0, <1>4, <1>6, <1>7, <1>8, <1>9 DEF RegOK, ShardOK, Waiting
  <1>13. QuietOK(g)'
    BY <1>0, <1>4, <1>7, <1>8, <1>9 DEF RegOK, QuietOK, Waiting
  <1>14. GwT' /\ WorkT' /\ SockT' /\ FrameT' /\ ClientT' /\ FaultT'
    BY <1>0, <1>1, TypeFrames, FaultFrame DEF gwVars, workVars, sockVars, clientVars
  <1> QED BY <1>1, <1>7, <1>10, <1>11, <1>12, <1>13, <1>14, OneChanges, GatewayChange DEF RegOK

LEMMA RecoverStep ==
    ASSUME RInv, UNCHANGED mix, NEW g \in Gens, Recover(g)
    PROVE  RInv'
  <1>0. Typed
    BY DEF RInv
  <1>1. UNCHANGED <<liveVars, taskVars, workVars, deliv, sockVars, down, up, clientVars, faults>> /\ gen[g].cdb = "pending"
    BY DEF Recover
  <1>2. TasksKeep(g)
    BY <1>1 DEF TasksKeep, liveVars, taskVars, workVars
  <1>3. mix.slow \/ (task'[g].at = "idle" /\ LateOf(g) = {})
    BY <1>1 DEF Recover, LateOf, taskVars
  <1>4. GwT' /\ Registered'
    BY <1>1, <1>2, <1>3, MarkRegs DEF Recover
  <1>5. TaskT' /\ WorkT' /\ SockT' /\ FrameT' /\ ClientT' /\ FaultT'
    BY <1>0, <1>1, TypeFrames DEF taskVars, workVars, sockVars, clientVars
  <1> QED BY <1>1, <1>4, <1>5, GatewayChange

LEMMA Settles ==
    ASSUME NEW g \in Gens, SettleAmbiguous(g)
    PROVE  \/ gen[g].cdb = "pending" /\ MarkAmbiguous(g)
           \/ head = g /\ Retire(g)
           \/ UNCHANGED gwVars
  <1>1. CASE gen[g].cdb = "pending"
    BY <1>1 DEF SettleAmbiguous
  <1>2. CASE gen[g].cdb # "pending" /\ head = g
    BY <1>2 DEF SettleAmbiguous
  <1>3. CASE gen[g].cdb # "pending" /\ head # g
    BY <1>3 DEF SettleAmbiguous
  <1> QED BY <1>1, <1>2, <1>3

\* The ways an answer is handled.
LEMMA Answers ==
    ASSUME NEW g \in Gens, SubAnswer(g)
    PROVE  /\ task[g].at \in {"ok", "absent", "throws"} /\ EndTask(g)
           /\ UNCHANGED <<liveVars, late, workVars, deliv, sock, base, up, clientVars, faults>>
           /\ \/ /\ SettleAmbiguous(g) /\ UNCHANGED <<listed, resume>>
                 /\ UNCHANGED down \/ Tell(task[g].conn, "retry")
              \/ /\ task[g].at = "absent" /\ DeleteNeverRegistered(g) /\ UNCHANGED <<listed, resume>>
                 /\ UNCHANGED down \/ Tell(task[g].conn, "refetch")
              \/ /\ task[g].at = "ok" /\ ~task[g].cancelled /\ CanActivate(g) /\ Activate(g, task[g].seq) /\ listed' = TRUE
                 /\ resume' = IF resume = "told" /\ ~task[g].replay THEN "try" ELSE resume
                 /\ down' = IF task[g].replay THEN Append(down, [k |-> "snap", c |-> base]) ELSE down
  <1>0. task[g].at \in {"ok", "absent", "throws"}
    BY DEF SubAnswer
  <1>1. CASE task[g].at = "throws"
    BY <1>1 DEF SubAnswer
  <1>2. CASE task[g].at = "absent"
    BY <1>2 DEF SubAnswer
  <1>3. CASE task[g].at = "ok" /\ (task[g].cancelled \/ ~CanActivate(g))
    BY <1>3 DEF SubAnswer
  <1>4. CASE task[g].at = "ok" /\ ~(task[g].cancelled \/ ~CanActivate(g))
    BY <1>4 DEF SubAnswer
  <1> QED BY <1>0, <1>1, <1>2, <1>3, <1>4

LEMMA SubAnswerStep ==
    ASSUME RInv, UNCHANGED mix, NEW g \in Gens, SubAnswer(g)
    PROVE  RInv'
  <1>0. Typed /\ RegOK(g) /\ task[g] \in TaskRecs /\ SockT /\ FrameT
    BY Generation, GenerationOK DEF RInv, Typed
  <1>1. /\ task[g].at \in {"ok", "absent", "throws"} /\ EndTask(g)
        /\ UNCHANGED <<liveVars, late, workVars, deliv, sock, base, up, clientVars, faults>>
    BY Answers
  <1>2. UNCHANGED <<late, sub, clean>>
    BY <1>1 DEF liveVars, workVars
  <1>3. TaskT' /\ TasksKeep(g) /\ task'[g].at = "idle"
    BY <1>1, <1>2, EndingTask
  <1>4. WorkT' /\ ClientT' /\ FaultT'
    BY <1>0, <1>1, TypeFrames DEF workVars, clientVars
  <1>5. SockT' /\ FrameT'
    <2>1. listed' \in BOOLEAN /\ resume' \in {"no", "try", "told"}
      BY <1>0, Answers DEF SockT
    <2>2. Append(down, [k |-> "snap", c |-> base]) \in Seq(Frames)
      BY <1>0, FrameTypes DEF SockT, FrameT
    <2>3. down' \in Seq(Frames)
      BY <1>0, <2>2, Answers, TellTyped
    <2> QED BY <1>0, <1>1, <2>1, <2>3, SameBounds DEF SockT, FrameT
  <1>6. ~mix.slow => LateOf(g) = {}
    BY <1>0, <1>1 DEF RegOK, QuietOK
  <1>7. GwT' /\ Registered'
    <2>1. CASE SettleAmbiguous(g)
      <3>1. CASE gen[g].cdb = "pending" /\ MarkAmbiguous(g)
        <4>1. mix.slow \/ (task'[g].at = "idle" /\ LateOf(g) = {})
          BY <1>3, <1>6
        <4> QED BY <1>3, <3>1, <4>1, MarkRegs
      <3>2. CASE head = g /\ Retire(g)
        BY <1>0, <1>3, <3>2, RetireRegs DEF Retire, Typed, GwT
      <3>3. CASE UNCHANGED gwVars
        BY <1>3, <3>3, EndsRegs
      <3> QED BY <2>1, <3>1, <3>2, <3>3, Settles
    <2>2. CASE task[g].at = "absent" /\ DeleteNeverRegistered(g)
      <3>1. ~mix.slow => LateOf(g) = {} /\ \A c \in Shards : sub[c][g] # "active"
        BY <1>0, <1>6, <2>2 DEF RegOK, QuietOK
      <3> QED BY <1>3, <2>2, <3>1, DeleteRegs
    <2>3. CASE task[g].at = "ok" /\ CanActivate(g) /\ Activate(g, task[g].seq)
      <3>1. task[g].seq \in Nat
        BY <1>0 DEF TaskRecs
      <3> QED BY <1>3, <2>3, <3>1, ActivateRegs
    <2> QED BY <2>1, <2>2, <2>3, Answers
  <1> QED BY <1>1, <1>3, <1>4, <1>5, <1>7, GatewayChange

-----------------------------------------------------------------------------
(* Retirement by a run, a send, the alarm, a socket or the client.         *)

LEMMA SettleTyped ==
    ASSUME Typed, UNCHANGED mix, NEW conn, NEW k \in {"refetch", "error"},
           SettleRetired(conn, k) \/ UNCHANGED <<listed, down>>
    PROVE  listed' \in BOOLEAN /\ down' \in Seq(Frames)
  BY FrameTypes DEF SettleRetired, Typed, SockT, FrameT

\* No task changes.
LEMMA NoTask ==
    ASSUME UNCHANGED <<task, late, sub, clean>>, NEW g \in Gens
    PROVE  TasksKeep(g)
  BY DEF TasksKeep

LEMMA AbandonedStep ==
    ASSUME RInv, UNCHANGED mix, NEW g \in Gens, RunAbandoned(g) \/ ReconcileAbandoned(g)
    PROVE  RInv'
  <1>0. Typed
    BY DEF RInv
  <1>1. /\ UNCHANGED <<liveVars, taskVars, workVars, deliv, sockVars, down, up, clientVars, faults>> /\ head = g
        /\ Retire(g) \/ RetireKeeping(g, Retained)
    BY DEF RunAbandoned, ReconcileAbandoned, Due, Serving
  <1>2. TasksKeep(g)
    BY <1>1, NoTask DEF liveVars, taskVars, workVars
  <1>3. GwT' /\ Registered'
    BY <1>0, <1>1, <1>2, RetainedTyped, RetireRegs DEF Retire, Typed, GwT
  <1>4. TaskT' /\ WorkT' /\ SockT' /\ FrameT' /\ ClientT' /\ FaultT'
    BY <1>0, <1>1, TypeFrames DEF taskVars, workVars, sockVars, clientVars
  <1> QED BY <1>1, <1>3, <1>4, GatewayChange

\* A settlement that retires, or leaves the lives of the generations.
LEMMA SettlementRegs ==
    ASSUME RInv, UNCHANGED <<mix, task, late, sub, clean>>, NEW g \in Gens,
           (head = g /\ Retire(g)) \/ (GwT' /\ SameLives) \/ UNCHANGED gwVars
    PROVE  GwT' /\ Registered'
  <1>1. CASE head = g /\ Retire(g)
    BY <1>1, NoTask, RetireRegs DEF Retire, RInv, Typed, GwT
  <1>2. CASE GwT' /\ SameLives
    BY <1>2, KeepsRegs
  <1>3. CASE UNCHANGED gwVars
    BY <1>3, NoTask, EndsRegs
  <1> QED BY <1>1, <1>2, <1>3

LEMMA RunSettleStep ==
    ASSUME RInv, UNCHANGED mix, NEW r \in runs, RunSettle(r)
    PROVE  RInv'
  <1>0. Typed /\ r \in RunRecs /\ WorkT /\ SockT /\ FrameT
    BY DEF RInv, Typed, WorkT
  <1>1. r.g \in Gens /\ r.target \in Nat /\ r.rows \in 0..mix.rows /\ r.auth \in Nat
    BY <1>0 DEF RunRecs
  <1>2. UNCHANGED <<liveVars, taskVars, clean, sends, deliv, sock, resume, base, up, clientVars, faults>> /\ runs' = runs \ {r}
    BY DEF RunSettle
  <1>3. /\ listed' \in BOOLEAN /\ down' \in Seq(Frames)
    BY <1>0, SettleTyped DEF RunSettle, RetireRun, Typed, SockT, FrameT
  <1>4. \/ head = r.g /\ Retire(r.g)
        \/ Stage(r.g, r.target, r.rows, r.auth)
        \/ FailRun(r.g, r.tok)
        \/ UNCHANGED gwVars
    BY DEF RunSettle, RetireRun, StageRun, OwnsRun, Serving
  <1>5. (head = r.g /\ Retire(r.g)) \/ (GwT' /\ SameLives) \/ UNCHANGED gwVars
    BY <1>0, <1>1, <1>4, StageKeeps, FailRunKeeps
  <1>6. GwT' /\ Registered'
    BY <1>1, <1>2, <1>5, SettlementRegs DEF liveVars, taskVars
  <1>7. TaskT' /\ ClientT' /\ FaultT'
    BY <1>0, <1>2, TypeFrames DEF taskVars, clientVars
  <1>8. WorkT' /\ SockT' /\ FrameT'
    BY <1>0, <1>2, <1>3, SameBounds DEF WorkT, SockT, FrameT
  <1> QED BY <1>2, <1>6, <1>7, <1>8, GatewayChange

LEMMA SendSettleStep ==
    ASSUME RInv, UNCHANGED mix, NEW x \in sends, SendSettle(x)
    PROVE  RInv'
  <1>0. Typed /\ x \in SendRecs /\ WorkT /\ SockT /\ FrameT
    BY DEF RInv, Typed, WorkT
  <1>1. x.g \in Gens /\ x.tok \in Tokens
    BY <1>0 DEF SendRecs
  <1>2. UNCHANGED <<liveVars, taskVars, clean, runs, deliv, sock, resume, base, up, clientVars, faults>> /\ sends' = sends \ {x}
    BY DEF SendSettle
  <1>3. SnapshotFrame(x) \in Frames
    BY <1>0 DEF SnapshotFrame, Frames, Cookies, SendRecs, Gens
  <1>4. /\ listed' \in BOOLEAN /\ down' \in Seq(Frames)
    <2>1. CASE RetireSend(x, "error") \/ RetireSend(x, "refetch")
      BY <1>0, <2>1, SettleTyped DEF RetireSend, Typed, SockT, FrameT
    <2>2. CASE UNCHANGED listed /\ (UNCHANGED down \/ down' = Append(down, SnapshotFrame(x)))
      BY <1>0, <1>3, <2>2 DEF SockT, FrameT
    <2> QED BY <2>1, <2>2 DEF SendSettle
  <1>5. \/ head = x.g /\ Retire(x.g)
        \/ Discard(x.g, x.tok)
        \/ UNCHANGED gwVars
    BY DEF SendSettle, RetireSend, OwnsSend, Serving
  <1>6. (head = x.g /\ Retire(x.g)) \/ (GwT' /\ SameLives) \/ UNCHANGED gwVars
    BY <1>0, <1>1, <1>5, SnapKeeps
  <1>7. GwT' /\ Registered'
    BY <1>1, <1>2, <1>6, SettlementRegs DEF liveVars, taskVars
  <1>8. TaskT' /\ ClientT' /\ FaultT'
    BY <1>0, <1>2, TypeFrames DEF taskVars, clientVars
  <1>9. WorkT' /\ SockT' /\ FrameT'
    BY <1>0, <1>2, <1>4, SameBounds DEF WorkT, SockT, FrameT
  <1> QED BY <1>2, <1>7, <1>8, <1>9, GatewayChange

LEMMA Cancels ==
    ASSUME RInv, UNCHANGED <<mix, late, sub, clean>>, NEW conn, task' = Cancel(conn)
    PROVE  TaskT' /\ \A g \in Gens : TasksKeep(g)
  <1>0. task \in [Gens -> TaskRecs] /\ late \subseteq Calls
    BY DEF RInv, Typed, TaskT
  <1>1. \A g \in Gens : task'[g] = IF task[g].at # "idle" /\ task[g].conn = conn
                                   THEN [task[g] EXCEPT !.cancelled = TRUE] ELSE task[g]
    BY DEF Cancel
  <1>2. ASSUME NEW g \in Gens PROVE task'[g] \in TaskRecs /\ task'[g].at = task[g].at /\ task'[g].shard = task[g].shard
    <2>1. task[g] \in TaskRecs
      BY <1>0
    <2>2. [task[g] EXCEPT !.cancelled = TRUE] \in TaskRecs
      BY <2>1 DEF TaskRecs
    <2> QED BY <1>1, <2>1, <2>2 DEF TaskRecs
  <1>3. task' \in [Gens -> TaskRecs]
    BY <1>2 DEF Cancel
  <1> QED BY <1>0, <1>2, <1>3, SameBounds DEF TaskT, TasksKeep

\* The generation of a connection retires.
LEMMA ConnectionRegs ==
    ASSUME RInv, UNCHANGED mix, \A g \in Gens : TasksKeep(g), NEW r \in Replays, RetireConnection(r)
    PROVE  GwT' /\ Registered'
  <1>0. Typed /\ Registered
    BY DEF RInv
  <1>1. CASE head # 0 /\ RetireKeeping(head, r)
    <2>1. head \in Gens
      BY <1>0, <1>1, Bounds DEF Typed, GwT, Gens
    <2> QED BY <1>1, <2>1, RetireRegs
  <1>2. CASE UNCHANGED <<head, gen, snap>> /\ replay' = r
    <2>1. GwT'
      BY <1>0, <1>2, SameBounds DEF Typed, GwT
    <2>2. ASSUME NEW g \in Gens PROVE RegOK(g)'
      <3>1. LateOf(g)' = LateOf(g) /\ sub' = sub /\ clean' = clean
        BY DEF TasksKeep, LateOf
      <3>2. RegOK(g) /\ gen[g].shard \in Shards
        BY GenerationOK
      <3>3. CASE task'[g].at = task[g].at /\ task'[g].shard = task[g].shard
        <4>1. SameAt(g)
          BY <1>2, <3>1, <3>3 DEF SameAt
        <4> QED BY <1>0, <3>2, <4>1, SameReg DEF SameAt
      <3>4. CASE task'[g].at = "idle"
        <4>1. HeadOK(g)' /\ CleanOK(g)' /\ ShardOK(g)' /\ EarlyOK(g)' /\ ActiveOK(g)'
          BY <1>2, <3>1, <3>2, <3>4 DEF RegOK, HeadOK, CleanOK, ToClean, ShardOK, EarlyOK, ActiveOK, Waiting, Early
        <4>2. QuietOK(g)'
          BY <1>2, <3>1, <3>2, <3>4 DEF RegOK, QuietOK, Waiting
        <4> QED BY <4>1, <4>2 DEF RegOK
      <3> QED BY <3>3, <3>4 DEF TasksKeep
    <2> QED BY <2>1, <2>2, SameBounds DEF Registered
  <1> QED BY <1>1, <1>2 DEF RetireConnection

LEMMA UnsubStep ==
    ASSUME RInv, UNCHANGED mix, OnUnsub
    PROVE  RInv'
  <1>0. Typed /\ SockT /\ FrameT
    BY DEF RInv, Typed
  <1>1. UNCHANGED <<liveVars, late, workVars, deliv, sock, base, down, clientVars, faults>> /\ task' = Cancel(sock)
    BY DEF OnUnsub
  <1>2. TaskT' /\ \A g \in Gens : TasksKeep(g)
    BY <1>1, Cancels DEF liveVars, workVars
  <1>3. GwT' /\ Registered'
    BY <1>0, <1>2, CookieTypes, ConnectionRegs DEF OnUnsub
  <1>4. WorkT' /\ ClientT' /\ FaultT'
    BY <1>0, <1>1, TypeFrames DEF workVars, clientVars
  <1>5. up # <<>> /\ up' = Tail(up) /\ listed' = FALSE /\ resume' = IF resume = "told" THEN "try" ELSE resume
    BY DEF OnUnsub, Arrives
  <1>6. SockT' /\ FrameT'
    <2>1. up' \in Seq(Frames)
      BY <1>0, <1>5, Arrival DEF FrameT
    <2> QED BY <1>0, <1>1, <1>5, <2>1, SameBounds DEF SockT, FrameT
  <1> QED BY <1>1, <1>2, <1>3, <1>4, <1>6, GatewayChange

LEMMA Breaks ==
    ASSUME Typed, UNCHANGED mix, Break
    PROVE  SockT' /\ FrameT' /\ ClientT'
  <1>1. ClientT'
    BY SameBounds DEF Typed, ClientT, Break, ClientClose
  <1>2. SockT'
    BY CookieTypes, SameBounds DEF Break, SockT
  <1>3. FrameT'
    <2>1. down' = <<>> /\ up' = <<>>
      BY DEF Break
    <2>2. down' \in Seq(Frames) /\ up' \in Seq(Frames)
      BY <2>1
    <2> QED BY <2>2, SameBounds DEF FrameT
  <1> QED BY <1>1, <1>2, <1>3

LEMMA CloseStep ==
    ASSUME RInv, UNCHANGED mix, CleanupGatewaySocket
    PROVE  RInv'
  <1>0. Typed
    BY DEF RInv
  <1>1. UNCHANGED <<liveVars, late, workVars, deliv>> /\ task' = Cancel(sock) /\ Break /\ Fault
    BY DEF CleanupGatewaySocket
  <1>2. TaskT' /\ \A g \in Gens : TasksKeep(g)
    BY <1>1, Cancels DEF liveVars, workVars
  <1>3. PICK r \in Replays : RetireConnection(r)
    BY <1>0, RetainedTyped DEF CleanupGatewaySocket, Typed, GwT
  <1>4. GwT' /\ Registered'
    BY <1>2, <1>3, ConnectionRegs
  <1>5. WorkT' /\ FaultT'
    BY <1>0, <1>1, TypeFrames, FaultFrame DEF workVars
  <1> QED BY <1>0, <1>1, <1>2, <1>4, <1>5, Breaks, GatewayChange

LEMMA RestartStep ==
    ASSUME RInv, UNCHANGED mix, Restart
    PROVE  RInv'
  <1>0. Typed /\ Registered /\ TaskT /\ WorkT /\ DelivT /\ DelivOK
    BY DEF RInv, Typed
  <1>1. UNCHANGED <<liveVars, gwVars>> /\ Fault /\ Break
    BY DEF Restart
  <1>2. PICK back : /\ late' = late \cup {Call(g) : g \in back} /\ back \subseteq Gens
                    /\ \A g \in back : task[g].at = "rpc"
    <2>1. CASE late' = late
      <3> DEFINE b == {}
      <3>1. late' = late \cup {Call(g) : g \in b} /\ b \subseteq Gens /\ \A g \in b : task[g].at = "rpc"
        BY <2>1
      <3> HIDE DEF b
      <3> QED BY <3>1
    <2>2. CASE late' = late \cup {Call(g) : g \in {h \in Gens : task[h].at = "rpc"}}
      <3> DEFINE b == {h \in Gens : task[h].at = "rpc"}
      <3>1. late' = late \cup {Call(g) : g \in b} /\ b \subseteq Gens /\ \A g \in b : task[g].at = "rpc"
        BY <2>2
      <3> HIDE DEF b
      <3> QED BY <3>1
    <2> QED BY <2>1, <2>2 DEF Restart
  <1>3. \A g \in Gens : Call(g) \in Calls /\ Call(g).g = g /\ Call(g).shard = task[g].shard
    BY <1>0, GenerationOK DEF Call, Calls
  <1>4. task' = [g \in Gens |-> IdleTask] /\ clean' = [g \in Gens |-> 0] /\ runs' = {} /\ sends' = {} /\ deliv' \subseteq deliv
    BY DEF Restart
  <1>5. TaskT' /\ WorkT' /\ DelivT'
    <2>1. task' \in [Gens -> TaskRecs]
      BY <1>0, <1>4, IdleTyped
    <2>2. late' \subseteq Calls
      BY <1>0, <1>2, <1>3 DEF TaskT
    <2> QED BY <1>0, <1>4, <2>1, <2>2, SameBounds DEF TaskT, WorkT, DelivT
  <1>6. MixT' /\ CdbT' /\ AuthT' /\ GwT' /\ SockT' /\ FrameT' /\ ClientT' /\ FaultT'
    BY <1>0, <1>1, TypeFrames, FaultFrame, Breaks DEF liveVars, catalogVars, gwVars
  <1>7. DelivOK' /\ OutOK'
    BY <1>0, <1>1, <1>4, ClockStays DEF liveVars, DelivOK
  <1>8. ASSUME NEW g \in Gens PROVE RegOK(g)'
    <2>1. RegOK(g) /\ gen[g].shard \in Shards /\ UNCHANGED <<head, gen, sub>>
      BY <1>1, GenerationOK DEF liveVars, gwVars
    <2>2. task'[g].at = "idle" /\ clean'[g] = 0
      BY <1>0, <1>4, IdleTyped
    <2>3. \A l \in LateOf(g)' : l \in LateOf(g) \/ (task[g].at = "rpc" /\ l = Call(g))
      BY <1>2, <1>3 DEF LateOf
    <2>4. HeadOK(g)' /\ CleanOK(g)' /\ EarlyOK(g)' /\ ActiveOK(g)'
      BY <2>1, <2>2 DEF RegOK, HeadOK, CleanOK, EarlyOK, ActiveOK, Early
    <2>5. ShardOK(g)'
      BY <1>3, <2>1, <2>2, <2>3 DEF RegOK, ShardOK, Waiting
    <2>6. QuietOK(g)'
      BY <2>1, <2>2, <2>3 DEF RegOK, QuietOK, Waiting
    <2> QED BY <2>4, <2>5, <2>6 DEF RegOK
  <1>9. Registered'
    BY <1>8, SameBounds DEF Registered
  <1> QED BY <1>5, <1>6, <1>7, <1>9 DEF RInv, Typed

\* A new id is one that nobody remembers.
LEMMA OnSubStep ==
    ASSUME RInv, UNCHANGED mix, OnSub
    PROVE  RInv'
  <1>0. Typed /\ Registered /\ TaskT /\ task \in [Gens -> TaskRecs] /\ SockT /\ FrameT
    BY DEF RInv, Typed, TaskT
  <1>1. UNCHANGED <<liveVars, gwVars, workVars, deliv, sockVars, clientVars, faults>> /\ up # <<>> /\ up' = Tail(up)
    BY DEF OnSub, Arrives
  <1>2. down' \in Seq(Frames)
    BY <1>0, TellTyped DEF OnSub
  <1>3. up' \in Seq(Frames)
    BY <1>0, <1>1, Arrival DEF FrameT
  <1>4. FrameT' /\ GwT' /\ WorkT' /\ SockT' /\ ClientT' /\ FaultT'
    BY <1>0, <1>1, <1>2, <1>3, TypeFrames, SameBounds DEF FrameT, gwVars, workVars, sockVars, clientVars
  <1>5. late' = late /\ UNCHANGED <<head, gen, sub, clean>> /\ \A g \in Gens : LateOf(g)' = LateOf(g)
    BY <1>1 DEF OnSub, taskVars, LateOf, liveVars, gwVars, workVars
  <1>6. CASE UNCHANGED taskVars
    <2>1. TaskT'
      BY <1>0, <1>6, TypeFrames DEF taskVars
    <2>2. Registered'
      BY <1>0, <1>5, <1>6, RegFrame DEF taskVars
    <2> QED BY <1>1, <1>4, <2>1, <2>2, GatewayChange
  <1>7. CASE /\ \E g \in Gens : Unused(g)
             /\ task' = [g \in Gens |->
                   IF g = NextGen
                   THEN [IdleTask EXCEPT !.conn = sock, !.replay = (resume = "try" /\ ~listed),
                           !.at = IF \E h \in Gens : task[h].at # "idle" /\ task[h].conn = sock
                                  THEN "queued" ELSE "auth"]
                   ELSE IF g \in Pending THEN [task[g] EXCEPT !.cancelled = TRUE]
                   ELSE task[g]]
    <2>1. PICK i \in Gens : i = NextGen /\ Unused(i)
      BY <1>7 DEF NextGen
    <2>2. PICK n : n = [IdleTask EXCEPT !.conn = sock, !.replay = (resume = "try" /\ ~listed),
                           !.at = IF \E h \in Gens : task[h].at # "idle" /\ task[h].conn = sock THEN "queued" ELSE "auth"]
      OBVIOUS
    <2>3. n \in TaskRecs /\ n.at \in {"queued", "auth"}
      <3>1. PICK at \in {"queued", "auth"} :
              at = IF \E h \in Gens : task[h].at # "idle" /\ task[h].conn = sock THEN "queued" ELSE "auth"
        OBVIOUS
      <3>2. PICK b \in BOOLEAN : b = (resume = "try" /\ ~listed)
        OBVIOUS
      <3>3. n = [IdleTask EXCEPT !.conn = sock, !.replay = b, !.at = at]
        BY <2>2, <3>1, <3>2, Zenon
      <3> QED BY <1>0, <3>3, IdleTyped DEF TaskRecs, SubscribeSteps, SockT
    <2>4. \A g \in Gens : task'[g] = IF g = i THEN n
                                     ELSE IF g \in Pending THEN [task[g] EXCEPT !.cancelled = TRUE] ELSE task[g]
      BY <1>7, <2>1, <2>2, Zenon
    <2>5. \A g \in Gens : task'[g] \in TaskRecs
      <3>1. \A g \in Gens : [task[g] EXCEPT !.cancelled = TRUE] \in TaskRecs
        BY <1>0 DEF TaskRecs
      <3> QED BY <1>0, <2>3, <2>4, <3>1
    <2>6. TaskT'
      <3>1. task' = [g \in Gens |-> task'[g]]
        BY <1>7
      <3> QED BY <1>0, <1>5, <2>5, <3>1, SameBounds DEF TaskT
    <2>7. \A g \in Gens \ {i} : task'[g].at = task[g].at /\ task'[g].shard = task[g].shard
      BY <1>0, <2>4 DEF TaskRecs
    <2>8. \A g \in Gens \ {i} : SameAt(g)
      BY <1>5, <2>7 DEF SameAt
    <2>9. /\ RegOK(i) /\ gen[i].life = "none" /\ gen[i].cdb = "none" /\ LateOf(i) = {}
          /\ \A c \in Shards : sub[c][i] = "absent"
      BY <2>1, GenerationOK DEF Unused, NoGen, LateOf
    <2>10. task'[i].at \in {"queued", "auth"}
      BY <2>1, <2>3, <2>4
    <2>11. RegOK(i)'
      <3>1. HeadOK(i)' /\ CleanOK(i)' /\ ShardOK(i)' /\ EarlyOK(i)' /\ ActiveOK(i)'
        BY <1>5, <2>1, <2>9, <2>10 DEF RegOK, HeadOK, CleanOK, ToClean, ShardOK, EarlyOK, ActiveOK, Waiting, Early
      <3>2. QuietOK(i)'
        BY <1>5, <2>1, <2>9, <2>10 DEF RegOK, QuietOK, Waiting
      <3> QED BY <3>1, <3>2 DEF RegOK
    <2>12. Registered'
      BY <2>1, <2>8, <2>11, OneChanges
    <2> QED BY <1>1, <1>4, <2>6, <2>12, GatewayChange
  <1> QED BY <1>6, <1>7 DEF OnSub

-----------------------------------------------------------------------------
(* The whole system.                                                       *)

LEMMA InitInv ==
    ASSUME Init
    PROVE  RInv
  <1>1. MixT /\ mix.gens > 0
    BY Bounds DEF Init, LiveInit, MixT
  <1>2. CdbT /\ AuthT
    BY <1>1, Bounds DEF Init, LiveInit, CdbT, AuthT, NoCall
  <1>3. NoCookie \in Cookies /\ BaseCookie \in Cookies /\ NoReplay \in Replays /\ 1 \in Conns
    <2>1. 0 \in 0..mix.gens /\ 0 \in 0..mix.rows /\ 1 \in 0..mix.rows
      BY <1>1, Bounds
    <2>2. NoCookie \in Cookies /\ BaseCookie \in Cookies
      BY <2>1 DEF NoCookie, BaseCookie, Cookies
    <2> QED BY <1>1, <2>2, Bounds DEF NoReplay, Replays, Shards, Conns
  <1>4. GwT
    <2>1. NoGen \in GenRecs /\ NoSnap \in SnapRecs
      BY <1>1, Bounds DEF NoGen, GenRecs, Shards, NoSnap, SnapRecs
    <2> QED BY <1>1, <1>3, <2>1, Bounds DEF Init, GwInit, GwT
  <1>5. TaskT /\ WorkT /\ DelivT /\ FaultT
    <2>1. IdleTask \in TaskRecs
      BY DEF IdleTask, TaskRecs, Shards, SubscribeSteps
    <2> QED BY <1>1, <2>1, Bounds DEF Init, TaskT, WorkT, DelivT, FaultT
  <1>6. SockT /\ ClientT
    <2>1. SockT
      BY <1>3 DEF Init, SockT
    <2>2. 0 \in 0..mix.rows
      BY <1>1, Bounds
    <2>3. ClientT
      BY <1>3, <2>2 DEF Init, ClientT
    <2> QED BY <2>1, <2>3
  <1>7. FrameT
    <2>1. Frame("sub") \in Frames
      BY <1>3 DEF Frame, Frames
    <2> QED BY <2>1 DEF Init, FrameT
  <1>8. DelivOK /\ OutOK
    BY DEF Init, LiveInit, DelivOK, OutOK
  <1>9. ASSUME NEW g \in Gens PROVE RegOK(g)
    <2>1. /\ head # g /\ gen[g].life = "none" /\ gen[g].cdb = "none" /\ task[g].at = "idle" /\ clean[g] = 0
          /\ LateOf(g) = {} /\ \A c \in Shards : sub[c][g] = "absent"
      BY <1>1, Bounds DEF Init, LiveInit, GwInit, NoGen, IdleTask, LateOf
    <2>2. HeadOK(g) /\ CleanOK(g) /\ ShardOK(g) /\ EarlyOK(g) /\ ActiveOK(g)
      BY <2>1 DEF HeadOK, CleanOK, ShardOK, EarlyOK, ActiveOK, Early
    <2>3. QuietOK(g)
      BY <2>1 DEF QuietOK, Waiting
    <2> QED BY <2>2, <2>3 DEF RegOK
  <1> QED BY <1>1, <1>2, <1>4, <1>5, <1>6, <1>7, <1>8, <1>9 DEF RInv, Typed, Registered

LEMMA StepKeepsInv ==
    ASSUME RInv, [Next]_vars
    PROVE  RInv'
  <1>1. CASE Next
    <2>1. UNCHANGED mix
      BY <1>1 DEF Next
    <2>2. CASE DoMutate \/ DoFence \/ DoCancelFence \/ DoCutover
      BY <2>1, <2>2, DataSteps
    <2>3. CASE DoMutateAuth \/ \E c \in Shards : DoAuthStep(c) \/ DoDeferAuth(c) \/ DoPruneAuth(c)
      BY <2>1, <2>3, AuthSteps DEF Shards
    <2>4. CASE OnSub \/ OnUnsub \/ OnAck
      BY <2>1, <2>4, OnSubStep, UnsubStep, AckStep
    <2>5. CASE ClientReceive \/ Reconnect \/ RetrySubscription \/ ClientUnsubscribe \/ ExpireRetainedResumeState
      BY <2>1, <2>5, ClientSteps
    <2>6. CASE CleanupGatewaySocket \/ Restart
      BY <2>1, <2>6, CloseStep, RestartStep
    <2>7. ASSUME NEW g \in Gens, SubStep(g) \/ SubCallFails(g) \/ Recover(g) PROVE RInv'
      BY <2>1, <2>7, DequeueStep, SubInstallStep, SubSendStep, CdbSubscribeStep, SubAnswerStep, CallFailsStep, RecoverStep
      DEF SubStep
    <2>8. ASSUME NEW g \in Gens, CleanStep(g) \/ CleanFails(g) PROVE RInv'
      BY <2>1, <2>8, CleanSteps
    <2>9. ASSUME NEW g \in Gens, RunAbandoned(g) \/ RunClaim(g) \/ SendClaim(g) \/ ReconcileAbandoned(g) PROVE RInv'
      BY <2>1, <2>9, AbandonedStep, RunSteps, SendSteps
    <2>10. CASE \E l \in late : CdbSubscribeLate(l)
      BY <2>1, <2>10, LateSubscribeStep
    <2>11. CASE \/ \E c \in Shards, g \in Gens : SendInvalidation(c, g)
                \/ \E d \in deliv : DelivStep(d) \/ InvalidationFails(d)
      BY <2>1, <2>11, DelivSteps
    <2>12. CASE \E r \in runs : RunStep(r) \/ RunFails(r)
      BY <2>1, <2>12, RunSteps, RunSettleStep DEF RunStep
    <2>13. CASE \E x \in sends : SendStep(x) \/ SendFails(x)
      BY <2>1, <2>13, SendSteps, SendSettleStep DEF SendStep
    <2> QED BY <1>1, <2>2, <2>3, <2>4, <2>5, <2>6, <2>7, <2>8, <2>9, <2>10, <2>11, <2>12, <2>13 DEF Next
  <1>2. CASE UNCHANGED vars
    <2>1. UNCHANGED <<mix, liveVars, gwVars, taskVars, workVars, deliv, sockVars, down, up, clientVars, faults>>
      BY <1>2 DEF vars, state
    <2>2. Typed /\ Registered /\ CdbT
      BY DEF RInv, Typed
    <2>3. Typed'
      BY <2>1, <2>2, TypeFrames
      DEF Typed, liveVars, catalogVars, gwVars, taskVars, workVars, sockVars, clientVars
    <2>4. DelivOK' /\ OutOK'
      BY <2>1, ClockStays DEF liveVars
    <2>5. Registered'
      BY <2>1, <2>2, RegFrame DEF liveVars, gwVars, taskVars, workVars
    <2> QED BY <2>3, <2>4, <2>5 DEF RInv
  <1> QED BY <1>1, <1>2

\* Every variable keeps its type, and no invalidation under way is newer than
\* the change clock of its Cdb (the tables of cdb.ts and gateway.ts).
THEOREM LiveTypes == Spec => []TypeOK
  <1>1. RInv => TypeOK
    <2>1. ASSUME Typed, DelivOK PROVE TypeOK
      <3>1. LiveTypeOK
        BY <2>1 DEF Typed, MixT, CdbT, AuthT, LiveTypeOK
      <3>2. GwTypeOK
        BY <2>1 DEF Typed, GwT, GwTypeOK, GenRecs, SnapRecs, Replays
      <3>3. /\ \A r \in runs : r.g \in Gens /\ r.tok \in Tokens
            /\ \A x \in sends : x.g \in Gens /\ x.tok \in Tokens
            /\ \A d \in deliv : d.c \in Shards /\ d.g \in Gens /\ d.seq <= clock[d.c]
        BY <2>1 DEF Typed, WorkT, DelivT, RunRecs, SendRecs, DelivRecs, DelivOK
      <3>4. /\ task \in [Gens -> TaskRecs] /\ late \subseteq Calls /\ clean \in [Gens -> 0..2]
        BY <2>1 DEF Typed, TaskT, WorkT
      <3>5. /\ sock \in {0} \cup Conns /\ listed \in BOOLEAN /\ resume \in {"no", "try", "told"} /\ base \in Cookies
            /\ cst \in {"closed", "pending", "live", "refetching", "error"} /\ shown \in 0..mix.rows
            /\ cookie \in Cookies /\ last \in Cookies /\ kept \in BOOLEAN /\ timer \in BOOLEAN /\ faults \in 0..mix.faults
        BY <2>1 DEF Typed, SockT, ClientT, FaultT
      <3> QED BY <3>1, <3>2, <3>3, <3>4, <3>5 DEF TypeOK, TaskRecs, Calls
    <2> QED BY <2>1 DEF RInv
  <1> QED BY <1>1, InitInv, StepKeepsInv, PTL DEF Spec

\* An active generation is the current one and registered at its Cdb; without
\* slow calls no Cdb serves one the Gateway does not know (activateGatewaySubscription,
\* markPendingGatewaySubscriptionAmbiguous, deleteNeverRegisteredGatewaySubscription).
THEOREM RegistrationsHold == Spec => []RegistrationsAgree
  <1>1. RInv => RegistrationsAgree
    <2>1. ASSUME RInv PROVE ActiveIsCurrent
      BY <2>1 DEF ActiveIsCurrent, RInv, Registered, RegOK, HeadOK, ActiveOK
    <2>2. ASSUME RInv PROVE NoOrphan
      BY <2>2 DEF NoOrphan, RInv, Registered, RegOK, QuietOK, ShardOK
    <2> QED BY <2>1, <2>2 DEF RegistrationsAgree
  <1> QED BY <1>1, InitInv, StepKeepsInv, PTL DEF Spec

-----------------------------------------------------------------------------
(***************************************************************************)
(* A stale client is owed a refresh, for every number of registration ids, *)
(* changes, epochs and faults, with or without a movement and slow calls.  *)
(*                                                                         *)
(* The argument follows the rows of a serving generation from the query    *)
(* run that reads them to the staged snapshot, the frame and the cookie of *)
(* the client.  At each place they carry the dirty version they answer     *)
(* for, and are either what the client may see now or are owed again: an   *)
(* auth epoch on its way to the Cdb, a newer entry of its outbox, a newer  *)
(* dirty version.  The frames of one connection arrive in order, so what   *)
(* the client shows is at least as new as what it has acknowledged.        *)
(***************************************************************************)

\* The Catalog has an auth epoch for the Cdb that it is still to act on.
AuthPending(c) ==
  /\ authTo[c] > authSeen[c]
  /\ ~(authCall[c].at = "answered" /\ authCall[c].epoch = authTo[c])

\* A refresh of generation g is owed past the version t.
Owed(g, t) ==
  \/ AuthPending(gen[g].shard)
  \/ out[gen[g].shard][g] > t
  \/ gen[g].dirty > t

\* Rows v read at Cdb c are not those of today, or not for this principal.
RowsBad(v, c) == v # rows \/ ~Admits(c)
Bad(v, c) == RowsBad(v, c) \/ ~granted

\* Rows v that answer for the version t, on their way to the client of g.
Good(g, v, t) ==
  Serving(g) => /\ t <= gen[g].dirty
                /\ Bad(v, gen[g].shard) => Owed(g, t)

-----------------------------------------------------------------------------
(* Epochs, places, clocks.                                                 *)

EpochOK == \A c \in Shards : authSeen[c] <= epoch /\ authTo[c] <= epoch /\ authCall[c].epoch <= epoch

\* The range is at the destination of its movement only after the cutover.
PlaceOK == \A g \in Gens : task[g].shard = Dest \/ gen[g].shard = Dest => fenced = "gone"

Lives == {"installing", "active"}
ClockOK(g) ==
  /\ gen[g].life \in Lives => gen[g].dirty <= clock[gen[g].shard]
  /\ task[g].at = "ok" => task[g].seq <= clock[task[g].shard]
  /\ \A c \in Shards : sub[c][g] # "active" => out[c][g] = 0

\* An invalidation under way is from the generation's Cdb; an accepted one has made it dirty.
DelivG(d) ==
  /\ gen[d.g].life # "none" => d.c = gen[d.g].shard
  /\ d.at = "answered" /\ gen[d.g].life \in Lives => gen[d.g].dirty >= d.seq
  /\ task[d.g].at \notin Early

\* The generations that a frame, a run, an attempt or a cookie names.
NamesDown == {down[i].c.g : i \in DOMAIN down}
NamesUp == {up[i].c.g : i \in DOMAIN up}
NamesWork == {r.g : r \in runs} \cup {x.g : x \in sends}
NamesHeld == {cookie.g, last.g, base.g, replay.c.g}
Names == NamesDown \cup NamesUp \cup NamesWork \cup NamesHeld

\* A generation that has not served yet is named nowhere.
ToServe(g) == task[g].at \in Early \/ gen[g].life = "installing"
NewOK(g) == ToServe(g) => g \notin Names

\* Only an active generation has a run or a staged snapshot, and one at a time.
PartsOK(g) ==
  /\ Staged(g) => gen[g].life = "active"
  /\ gen[g].token # 0 => gen[g].life = "active" /\ ~Staged(g)
  /\ gen[g].life = "installing" => gen[g].delivered = 0 /\ gen[g].target = 0

-----------------------------------------------------------------------------
(* The rows on their way.                                                  *)

\* The run that owns the lease answers for the version it was claimed with.
RunOK(r) ==
  OwnsRun(r.g, r.tok) =>
    /\ r.target = gen[r.g].target /\ r.shard = gen[r.g].shard
    /\ r.at \in {"ok", "stage"} /\ RowsBad(r.rows, r.shard) => Owed(r.g, r.target)
    /\ r.at = "stage" /\ r.see = "fresh" /\ ~granted => Owed(r.g, r.target)

\* The attempt that owns the claim sends what is staged.
SendOK(x) == OwnsSend(x.g, x.tok) => x.target = snap[x.g].target /\ x.rows = snap[x.g].rows

LeaseOK(g) == Serving(g) => gen[g].target <= gen[g].dirty
SnapOK(g) == Staged(g) => Good(g, snap[g].rows, snap[g].target)
DownOK == \A i \in DOMAIN down : down[i].k = "snap" => /\ down[i].c.g \in Gens
                                                       /\ Good(down[i].c.g, down[i].c.rows, down[i].c.target)
CookieOK == cookie.g \in Gens => Good(cookie.g, cookie.rows, cookie.target)
LiveOK == cst = "live" => cookie.g # 0 /\ shown = cookie.rows

-----------------------------------------------------------------------------
(* The connection.                                                         *)

SockOK ==
  /\ \A g \in Gens : /\ task[g].at # "idle" => task[g].conn # 0 /\ (task[g].cancelled \/ task[g].conn = sock)
                     /\ task[g].at \in Waiting /\ ~task[g].cancelled /\ task[g].replay => base.g # 0
                     /\ gen[g].life \in Lives => gen[g].conn # 0
  /\ down # <<>> \/ up # <<>> \/ listed => sock # 0
  /\ sock # 0 => base # NoCookie
  /\ replay.c.g = 0 => replay.c = NoCookie

\* The client has had rows of g on this connection.
AckOf(g, i) == up[i].k = "ack" /\ up[i].c.g = g
Received(g) == ~gen[g].initial \/ cookie.g = g \/ \E i \in DOMAIN up : AckOf(g, i)

\* A version the client of g has had.
Had(g, t) ==
  \/ t = gen[g].delivered
  \/ cookie.g = g /\ t = cookie.target
  \/ \E i \in DOMAIN up : AckOf(g, i) /\ t = up[i].c.target

\* The versions that leave for the client, from now on, are not before t.
Ahead(g, t) ==
  /\ Staged(g) => t <= snap[g].target
  /\ gen[g].token # 0 => t <= gen[g].target
  /\ t <= gen[g].dirty

StreamOK(g) ==
  Serving(g) /\ gen[g].conn = sock =>
    /\ Received(g) => /\ cookie.g \in {0, g}
                      /\ \A i \in DOMAIN down : down[i].k = "snap" => down[i].c.g = g
    /\ \A t \in Nat : Had(g, t) => /\ Ahead(g, t)
                                   /\ cookie.g = g => t <= cookie.target
                                   /\ \A i \in DOMAIN down : down[i].k = "snap" /\ down[i].c.g = g => t <= down[i].c.target
    /\ \A i \in DOMAIN down : down[i].k = "snap" /\ down[i].c.g = g =>
          /\ Ahead(g, down[i].c.target)
          /\ \A j \in DOMAIN down : i < j /\ down[j].k = "snap" => down[j].c.g = g /\ down[i].c.target <= down[j].c.target

Outside == EpochOK /\ PlaceOK /\ (\A g \in Gens : ClockOK(g)) /\ \A d \in deliv : DelivG(d)
Rows ==
  /\ \A g \in Gens : NewOK(g) /\ PartsOK(g) /\ LeaseOK(g) /\ SnapOK(g)
  /\ \A r \in runs : RunOK(r)
  /\ \A x \in sends : SendOK(x)
  /\ DownOK /\ CookieOK /\ LiveOK
Streams == SockOK /\ \A g \in Gens : StreamOK(g)

SInv == RInv /\ Outside /\ Rows /\ Streams
-----------------------------------------------------------------------------
(* What most steps leave of it.                                            *)

WorldStays == UNCHANGED <<mix, rows, clock, fenced, epoch, granted, authTo, authCall, authSeen>>

\* A generation that serves after the step served before, and owes as much.
Calm(g) ==
  Serving(g)' =>
    /\ Serving(g)
    /\ gen'[g].shard = gen[g].shard /\ gen'[g].conn = gen[g].conn
    /\ gen'[g].dirty >= gen[g].dirty
    /\ gen'[g].delivered = gen[g].delivered /\ gen'[g].initial = gen[g].initial
    /\ gen'[g].token # 0 => gen'[g].token = gen[g].token /\ gen'[g].target = gen[g].target
    /\ gen'[g].target \in {0, gen[g].target}
    /\ Staged(g)' => snap'[g].rows = snap[g].rows /\ snap'[g].target = snap[g].target
    /\ snap'[g].claim # 0 => snap'[g].claim = snap[g].claim

\* The same, in parts: its place and its version, its lease, its snapshot.
Serves(g) ==
  Serving(g)' => /\ Serving(g) /\ gen'[g].shard = gen[g].shard /\ gen'[g].conn = gen[g].conn
                 /\ gen'[g].dirty >= gen[g].dirty
Leases(g) ==
  Serving(g)' => /\ gen'[g].token # 0 => gen'[g].token = gen[g].token /\ gen'[g].target = gen[g].target
                 /\ gen'[g].target \in {0, gen[g].target}
Sends(g) ==
  Serving(g)' => /\ Staged(g)' => snap'[g].rows = snap[g].rows /\ snap'[g].target = snap[g].target
                 /\ snap'[g].claim # 0 => snap'[g].claim = snap[g].claim

Debt(g) ==
  Serving(g)' => \/ out'[gen[g].shard][g] >= out[gen[g].shard][g]
                 \/ gen'[g].dirty >= out[gen[g].shard][g]

\* No new life, no move, no version newer than the clock.
Stays(g) ==
  /\ gen'[g].life # "none" => gen[g].life # "none" /\ gen'[g].shard = gen[g].shard
  /\ gen'[g].life \in Lives => gen[g].life \in Lives /\ gen'[g].conn = gen[g].conn
  /\ gen'[g].life \in Lives => \/ gen'[g].dirty = gen[g].dirty
                               \/ gen'[g].dirty >= gen[g].dirty /\ gen'[g].dirty <= clock[gen[g].shard]
  /\ gen'[g].life = "installing" => gen[g].life = "installing"
  /\ gen'[g].shard \in {Source, gen[g].shard}

TaskStays(g) ==
  /\ task'[g].at \in Early => task[g].at \in Early
  /\ task'[g].at \in Waiting => task[g].at \in Waiting
  /\ task'[g].at = "ok" => \/ task[g].at = "ok" /\ task'[g].seq = task[g].seq /\ task'[g].shard = task[g].shard
                           \/ task'[g].seq <= clock[task'[g].shard]
  /\ task'[g].at # "idle" => task[g].at # "idle" /\ task'[g].conn = task[g].conn /\ task'[g].replay = task[g].replay
  /\ task'[g].at # "idle" /\ ~task'[g].cancelled => ~task[g].cancelled
  /\ task'[g].shard = Dest => task[g].shard = Dest \/ fenced = "gone"

GwCalm == \A g \in Gens : Calm(g) /\ Stays(g) /\ PartsOK(g)'
OutCalm == \A c \in Shards, g \in Gens : sub'[c][g] # "active" => out'[c][g] = 0

\* The frames to the client, the frames from it and its cookie say no more than before.
DownQuiet == \A i \in DOMAIN down' : \/ i \in DOMAIN down /\ down'[i] = down[i]
                                     \/ down'[i].k # "snap" /\ down'[i].c.g = 0
DownFrom == \A i \in DOMAIN down' : down'[i].k = "snap" => \E n \in DOMAIN down : down[n] = down'[i]
UpQuiet == \A i \in DOMAIN up' : (\E n \in DOMAIN up : up[n] = up'[i]) \/ (up'[i].k # "ack" /\ up'[i].c.g = 0)
LastQuiet == last' = last \/ last' = NoCookie
CookieQuiet == cookie' = cookie \/ cookie' = NoCookie

Actives == {g \in Gens : gen[g].life = "active"}
NamesQuiet == Names' \subseteq Names \cup {0} \cup Actives

\* The values of one generation, before and after the step.
Values(g) ==
  /\ gen[g].shard \in Shards /\ gen[g].dirty \in Nat /\ gen[g].delivered \in Nat /\ gen[g].target \in Nat
  /\ gen[g].token \in {0} \cup Tokens /\ gen[g].conn \in Nat /\ gen[g].initial \in BOOLEAN
  /\ snap[g].rows \in 0..mix.rows /\ snap[g].target \in Nat /\ snap[g].claim \in {0} \cup Tokens
  /\ \A c \in Shards : out[c][g] \in Nat /\ clock[c] \in Nat

LEMMA ValuesTyped ==
    ASSUME Typed, NEW g \in Gens
    PROVE  Values(g)
  <1>1. gen[g] \in GenRecs /\ snap[g] \in SnapRecs
    BY Generation
  <1>2. \A c \in Shards : out[c][g] \in Nat /\ clock[c] \in Nat
    BY DEF Typed, CdbT
  <1> QED BY <1>1, <1>2 DEF Values, GenRecs, SnapRecs

LEMMA ValuesAfter ==
    ASSUME Typed', UNCHANGED mix, NEW g \in Gens
    PROVE  Values(g)'
  <1>1. gen'[g] \in GenRecs' /\ snap'[g] \in SnapRecs'
    BY SameBounds DEF Typed, GwT
  <1>2. \A c \in Shards : out'[c][g] \in Nat /\ clock'[c] \in Nat
    BY SameBounds DEF Typed, CdbT
  <1> QED BY <1>1, <1>2 DEF Values, GenRecs, SnapRecs

LEMMA OwedKeeps ==
    ASSUME Typed, Typed', WorldStays, NEW g \in Gens, Serves(g), Debt(g), Serving(g)', NEW t \in Nat, Owed(g, t)
    PROVE  Owed(g, t)'
  <1>0. /\ Gens' = Gens /\ gen[g].shard \in Shards /\ gen[g].dirty \in Nat /\ gen'[g].dirty \in Nat
        /\ out[gen[g].shard][g] \in Nat /\ out'[gen[g].shard][g] \in Nat
    BY ValuesTyped, ValuesAfter, SameBounds DEF Values, WorldStays
  <1>1. gen'[g].shard = gen[g].shard /\ gen'[g].dirty >= gen[g].dirty
    BY DEF Serves
  <1>2. AuthPending(gen[g].shard)' <=> AuthPending(gen[g].shard)
    BY <1>1 DEF AuthPending, WorldStays
  <1> QED BY <1>0, <1>1, <1>2 DEF Owed, Debt, WorldStays

\* Good rows stay good.
LEMMA GoodKeeps ==
    ASSUME Typed, Typed', WorldStays, NEW g \in Gens, Serves(g), Debt(g), NEW v, NEW t \in Nat, Good(g, v, t)
    PROVE  Good(g, v, t)'
  <1>1. ASSUME Serving(g)' PROVE t <= gen'[g].dirty /\ (Bad(v, gen[g].shard)' => Owed(g, t)')
    <2>1. Serving(g) /\ gen'[g].shard = gen[g].shard /\ gen'[g].dirty >= gen[g].dirty
      BY <1>1 DEF Serves
    <2>2. gen[g].dirty \in Nat /\ gen'[g].dirty \in Nat
      BY ValuesTyped, ValuesAfter DEF Values, WorldStays
    <2>3. Bad(v, gen[g].shard)' => Bad(v, gen[g].shard)
      BY <2>1 DEF Bad, RowsBad, Admits, WorldStays
    <2> QED BY <1>1, <2>1, <2>2, <2>3, OwedKeeps DEF Good
  <1>2. Serving(g)' => gen'[g].shard = gen[g].shard
    BY DEF Serves
  <1> QED BY <1>1, <1>2 DEF Good
-----------------------------------------------------------------------------
(* Each part of the invariant, where the step is quiet about it.           *)

LEMMA NewKeeps ==
    ASSUME RInv, NamesQuiet, UNCHANGED mix, \A g \in Gens : NewOK(g),
           \A g \in Gens : ToServe(g)' => ToServe(g) \/ (g \notin Names /\ gen[g].life # "active")
    PROVE  \A g \in Gens : NewOK(g)'
  <1>1. ASSUME NEW g \in Gens, ToServe(g)' PROVE g \notin Names'
    <2>1. g \notin Names
      BY <1>1 DEF NewOK
    <2>2. gen[g].life # "active"
      <3>1. CASE ToServe(g)
        BY <3>1 DEF ToServe, RInv, Registered, RegOK, EarlyOK
      <3> QED BY <1>1, <3>1
    <2>3. g # 0
      BY Bounds DEF RInv, Typed
    <2> QED BY <2>1, <2>2, <2>3 DEF NamesQuiet, Actives
  <1> QED BY <1>1 DEF NewOK

LEMMA LeaseKeeps ==
    ASSUME Typed, Typed', UNCHANGED mix, NEW g \in Gens, Serves(g), Leases(g), LeaseOK(g)
    PROVE  LeaseOK(g)'
  BY ValuesTyped, ValuesAfter DEF Values, LeaseOK, Serves, Leases

LEMMA StagedKeeps ==
    ASSUME Typed, Typed', WorldStays, NEW g \in Gens, Serves(g), Sends(g), Debt(g), SnapOK(g)
    PROVE  SnapOK(g)'
  <1>1. ASSUME Staged(g)', Serving(g)' PROVE Good(g, snap[g].rows, snap[g].target)'
    <2>1. snap'[g].rows = snap[g].rows /\ snap'[g].target = snap[g].target
      BY <1>1 DEF Sends
    <2>2. Staged(g)
      BY <1>1, <2>1 DEF Staged
    <2>3. Good(g, snap[g].rows, snap[g].target)
      BY <2>2 DEF SnapOK
    <2>4. snap[g].target \in Nat
      BY ValuesTyped DEF Values
    <2>5. PICK v, t : v = snap[g].rows /\ t = snap[g].target
      OBVIOUS
    <2>6. Good(g, v, t)'
      BY <2>3, <2>4, <2>5, GoodKeeps
    <2> QED BY <2>1, <2>5, <2>6
  <1> QED BY <1>1 DEF SnapOK, Good

LEMMA RunKeeps ==
    ASSUME Typed, Typed', WorldStays, NEW r \in RunRecs, Serves(r.g), Leases(r.g), Debt(r.g), RunOK(r)
    PROVE  RunOK(r)'
  <1>0. r.g \in Gens /\ r.tok # 0 /\ r.target \in Nat
    BY DEF RunRecs, Tokens
  <1>1. SUFFICES ASSUME OwnsRun(r.g, r.tok)'
                 PROVE  /\ r.target = gen'[r.g].target /\ r.shard = gen'[r.g].shard
                        /\ r.at \in {"ok", "stage"} /\ RowsBad(r.rows, r.shard)' => Owed(r.g, r.target)'
                        /\ r.at = "stage" /\ r.see = "fresh" /\ ~granted' => Owed(r.g, r.target)'
    BY DEF RunOK
  <1>2. Serving(r.g)' /\ gen'[r.g].token = r.tok
    BY <1>1 DEF OwnsRun
  <1>3. OwnsRun(r.g, r.tok) /\ gen'[r.g].target = gen[r.g].target /\ gen'[r.g].shard = gen[r.g].shard
    BY <1>0, <1>2 DEF Serves, Leases, OwnsRun
  <1>4. Owed(r.g, r.target) => Owed(r.g, r.target)'
    BY <1>0, <1>2, OwedKeeps
  <1>5. RowsBad(r.rows, r.shard)' => RowsBad(r.rows, r.shard)
    BY DEF RowsBad, Admits, WorldStays
  <1>6. granted' = granted
    BY DEF WorldStays
  <1> QED BY <1>3, <1>4, <1>5, <1>6 DEF RunOK

LEMMA SendKeeps ==
    ASSUME Typed, NEW x \in SendRecs, Serves(x.g), Sends(x.g), SendOK(x)
    PROVE  SendOK(x)'
  <1>0. x.g \in Gens /\ x.tok # 0
    BY DEF SendRecs, Tokens
  <1>1. ASSUME OwnsSend(x.g, x.tok)' PROVE x.target = snap'[x.g].target /\ x.rows = snap'[x.g].rows
    <2>1. Serving(x.g)' /\ Staged(x.g)' /\ snap'[x.g].claim = x.tok
      BY <1>1 DEF OwnsSend
    <2>2. snap'[x.g].rows = snap[x.g].rows /\ snap'[x.g].target = snap[x.g].target /\ snap[x.g].claim = x.tok /\ Serving(x.g)
      BY <1>0, <2>1 DEF Serves, Sends
    <2>3. Staged(x.g)
      BY <2>1, <2>2 DEF Staged
    <2> QED BY <2>2, <2>3 DEF SendOK, OwnsSend
  <1> QED BY <1>1 DEF SendOK

LEMMA DownKeeps ==
    ASSUME Typed, Typed', WorldStays, \A g \in Gens : Serves(g) /\ Debt(g), DownOK, DownFrom
    PROVE  DownOK'
  <1>1. ASSUME NEW i \in DOMAIN down', down'[i].k = "snap"
        PROVE  down'[i].c.g \in Gens /\ Good(down[i].c.g, down[i].c.rows, down[i].c.target)'
    <2>1. PICK n \in DOMAIN down : down[n] = down'[i]
      BY <1>1 DEF DownFrom
    <2>2. down[n].c.g \in Gens /\ Good(down[n].c.g, down[n].c.rows, down[n].c.target)
      BY <1>1, <2>1 DEF DownOK
    <2>3. down[n] \in Frames
      BY DEF Typed, FrameT
    <2>4. down[n].c.target \in Nat
      BY <2>3 DEF Frames, Cookies
    <2>5. PICK m : m = down[n].c
      OBVIOUS
    <2>6. Good(m.g, m.rows, m.target)'
      BY <2>2, <2>4, <2>5, GoodKeeps
    <2> QED BY <2>1, <2>2, <2>5, <2>6
  <1>2. Gens' = Gens
    BY SameBounds DEF WorldStays
  <1> QED BY <1>1, <1>2 DEF DownOK

LEMMA CookieKeeps ==
    ASSUME Typed, Typed', WorldStays, \A g \in Gens : Serves(g) /\ Debt(g), CookieOK, CookieQuiet
    PROVE  CookieOK'
  <1>1. Gens' = Gens /\ 0 \notin Gens
    BY SameBounds, Bounds DEF WorldStays, Typed
  <1>2. CASE cookie' = cookie /\ cookie.g \in Gens
    <2>1. cookie.target \in Nat
      BY DEF Typed, ClientT, Cookies
    <2>2. PICK m : m = cookie
      OBVIOUS
    <2>3. Good(m.g, m.rows, m.target)'
      BY <1>2, <2>1, <2>2, GoodKeeps DEF CookieOK
    <2> QED BY <1>2, <2>2, <2>3 DEF CookieOK
  <1> QED BY <1>1, <1>2 DEF CookieOK, CookieQuiet, NoCookie
\* The connection of a serving generation is quiet about its versions.
LEMMA StreamKeeps ==
    ASSUME NEW g \in Gens, StreamOK(g), DownQuiet, CookieQuiet, g # 0,
           Serving(g)' /\ gen'[g].conn = sock' =>
              /\ Serving(g) /\ gen[g].conn = sock
              /\ Received(g)' => Received(g)
              /\ \A t \in Nat : Had(g, t)' => Had(g, t)
              /\ \A t \in Nat : Ahead(g, t) => Ahead(g, t)',
           down' \in Seq(Frames')
    PROVE  StreamOK(g)'
  <1>1. SUFFICES ASSUME Serving(g)', gen'[g].conn = sock'
        PROVE  /\ Received(g)' => /\ cookie'.g \in {0, g}
                                  /\ \A i \in DOMAIN down' : down'[i].k = "snap" => down'[i].c.g = g
               /\ \A t \in Nat : Had(g, t)' => /\ Ahead(g, t)'
                                               /\ cookie'.g = g => t <= cookie'.target
                                               /\ \A i \in DOMAIN down' : down'[i].k = "snap" /\ down'[i].c.g = g => t <= down'[i].c.target
               /\ \A i \in DOMAIN down' : down'[i].k = "snap" /\ down'[i].c.g = g =>
                    /\ Ahead(g, down[i].c.target)'
                    /\ \A j \in DOMAIN down' : i < j /\ down'[j].k = "snap" =>
                          down'[j].c.g = g /\ down'[i].c.target <= down'[j].c.target
    BY DEF StreamOK
  <1>2. Serving(g) /\ gen[g].conn = sock
    BY <1>1
  <1>3. \A i \in DOMAIN down' : down'[i].k = "snap" \/ down'[i].c.g = g => i \in DOMAIN down /\ down'[i] = down[i]
    BY DEF DownQuiet
  <1>4. cookie'.g = g => cookie' = cookie
    BY DEF CookieQuiet, NoCookie
  <1>5. Received(g)' => /\ cookie'.g \in {0, g}
                        /\ \A i \in DOMAIN down' : down'[i].k = "snap" => down'[i].c.g = g
    BY <1>1, <1>2, <1>3 DEF StreamOK, CookieQuiet, NoCookie
  <1>6. ASSUME NEW t \in Nat, Had(g, t)'
        PROVE  /\ Ahead(g, t)'
               /\ cookie'.g = g => t <= cookie'.target
               /\ \A i \in DOMAIN down' : down'[i].k = "snap" /\ down'[i].c.g = g => t <= down'[i].c.target
    <2>1. Had(g, t) /\ Ahead(g, t) /\ Ahead(g, t)'
      BY <1>1, <1>2, <1>6 DEF StreamOK
    <2> QED BY <1>2, <1>3, <1>4, <2>1 DEF StreamOK
  <1>7. ASSUME NEW i \in DOMAIN down', down'[i].k = "snap", down'[i].c.g = g
        PROVE  /\ Ahead(g, down[i].c.target)'
               /\ \A j \in DOMAIN down' : i < j /\ down'[j].k = "snap" =>
                     down'[j].c.g = g /\ down'[i].c.target <= down'[j].c.target
    <2>1. i \in DOMAIN down /\ down'[i] = down[i] /\ down[i].k = "snap" /\ down[i].c.g = g
      BY <1>3, <1>7
    <2>2. PICK t : t = down[i].c.target
      OBVIOUS
    <2>3. t \in Nat
      <3>1. down'[i] \in Frames'
        BY <1>7
      <3> QED BY <2>1, <2>2, <3>1 DEF Frames, Cookies
    <2>4. Ahead(g, t)
      BY <1>2, <2>1, <2>2 DEF StreamOK
    <2>5. Ahead(g, t)'
      BY <1>1, <2>3, <2>4
    <2>6. ASSUME NEW j \in DOMAIN down', i < j, down'[j].k = "snap"
          PROVE  down'[j].c.g = g /\ down'[i].c.target <= down'[j].c.target
      BY <1>2, <1>3, <2>1, <2>6 DEF StreamOK
    <2> QED BY <2>1, <2>2, <2>5, <2>6
  <1> QED BY <1>5, <1>6, <1>7
LEMMA CalmStreams ==
    ASSUME Typed, Typed', UNCHANGED mix, NEW g \in Gens, StreamOK(g), Calm(g), DownQuiet, UpQuiet, CookieQuiet,
           Serving(g)' /\ gen'[g].conn = sock' => gen[g].conn = sock
    PROVE  StreamOK(g)'
  <1>1. g # 0 /\ down' \in Seq(Frames')
    BY Bounds DEF Typed, FrameT
  <1>2. Values(g) /\ Values(g)'
    BY ValuesTyped, ValuesAfter
  <1>3. SUFFICES ASSUME Serving(g)', gen'[g].conn = sock'
                 PROVE  /\ Serving(g) /\ gen[g].conn = sock
                        /\ Received(g)' => Received(g)
                        /\ \A t \in Nat : Had(g, t)' => Had(g, t)
                        /\ \A t \in Nat : Ahead(g, t) => Ahead(g, t)'
    BY <1>1, StreamKeeps
  <1>4. /\ Serving(g) /\ gen'[g].delivered = gen[g].delivered /\ gen'[g].initial = gen[g].initial
        /\ gen'[g].dirty >= gen[g].dirty
        /\ gen'[g].token # 0 => gen'[g].token = gen[g].token /\ gen'[g].target = gen[g].target
        /\ Staged(g)' => snap'[g].rows = snap[g].rows /\ snap'[g].target = snap[g].target
    BY <1>3 DEF Calm
  <1>5. cookie'.g = g => cookie' = cookie
    BY <1>1 DEF CookieQuiet, NoCookie
  <1>6. ASSUME NEW i \in DOMAIN up', AckOf(g, i)' PROVE \E n \in DOMAIN up : AckOf(g, n) /\ up[n] = up'[i]
    BY <1>6 DEF UpQuiet, AckOf
  <1>7. Received(g)' => Received(g)
    BY <1>4, <1>5, <1>6 DEF Received
  <1>8. ASSUME NEW t \in Nat PROVE Had(g, t)' => Had(g, t)
    BY <1>4, <1>5, <1>6 DEF Had
  <1>9. ASSUME NEW t \in Nat, Ahead(g, t) PROVE Ahead(g, t)'
    BY <1>2, <1>4, <1>9 DEF Ahead, Values, Staged
  <1> QED BY <1>3, <1>4, <1>7, <1>8, <1>9

-----------------------------------------------------------------------------
(* The Cdbs and their invalidations.                                       *)

LEMMA ClockKeeps ==
    ASSUME Typed, Typed', WorldStays, NEW g \in Gens, ClockOK(g), Stays(g), TaskStays(g), OutCalm
    PROVE  ClockOK(g)'
  <1>1. gen'[g].life \in Lives => gen'[g].dirty <= clock'[gen'[g].shard]
    BY DEF ClockOK, Stays, Lives, WorldStays
  <1>2. task'[g].at = "ok" => task'[g].seq <= clock'[task'[g].shard]
    BY DEF ClockOK, TaskStays, WorldStays
  <1>3. \A c \in Shards : sub'[c][g] # "active" => out'[c][g] = 0
    BY DEF OutCalm
  <1> QED BY <1>1, <1>2, <1>3 DEF ClockOK

LEMMA PlaceKeeps ==
    ASSUME WorldStays, PlaceOK, \A g \in Gens : Stays(g) /\ TaskStays(g)
    PROVE  PlaceOK'
  BY SameBounds DEF PlaceOK, Stays, TaskStays, WorldStays, Source, Dest

LEMMA DelivKeeps ==
    ASSUME Typed, Typed', UNCHANGED mix, NEW d \in deliv, DelivG(d), Stays(d.g), TaskStays(d.g)
    PROVE  DelivG(d)'
  <1>1. d.g \in Gens /\ d.seq \in Nat
    BY DEF Typed, DelivT, DelivRecs
  <1>2. gen[d.g].dirty \in Nat /\ gen'[d.g].dirty \in Nat
    BY <1>1, ValuesTyped, ValuesAfter DEF Values
  <1> QED BY <1>1, <1>2 DEF DelivG, Stays, TaskStays, Lives

LEMMA EpochKeeps ==
    ASSUME WorldStays, EpochOK
    PROVE  EpochOK'
  BY DEF EpochOK, WorldStays

DelivCalm == \A d \in deliv' \ deliv : DelivG(d)'
TasksCalm == \A g \in Gens : TaskStays(g)

\* Nothing leaves for the client and nothing comes from the Cdbs.
LEMMA CalmOutside ==
    ASSUME Typed, Typed', WorldStays, Outside, \A g \in Gens : Stays(g), TasksCalm, OutCalm, DelivCalm
    PROVE  Outside'
  <1>1. EpochOK' /\ PlaceOK'
    BY EpochKeeps, PlaceKeeps DEF Outside, TasksCalm
  <1>2. \A g \in Gens : ClockOK(g)'
    BY ClockKeeps DEF Outside, TasksCalm
  <1>3. ASSUME NEW d \in deliv PROVE DelivG(d)'
    <2>1. d.g \in Gens
      BY DEF Typed, DelivT, DelivRecs
    <2>2. mix' = mix
      BY DEF WorldStays
    <2> QED BY <2>1, <2>2, DelivKeeps DEF Outside, TasksCalm
  <1>4. Gens' = Gens
    BY SameBounds DEF WorldStays
  <1> QED BY <1>1, <1>2, <1>3, <1>4 DEF Outside, DelivCalm

LEMMA CalmParts ==
    ASSUME NEW g, Calm(g)
    PROVE  Serves(g) /\ Leases(g) /\ Sends(g)
  BY DEF Calm, Serves, Leases, Sends

\* The rows on their way, from what the step says of each.
LEMMA RowsFrom ==
    ASSUME RInv, RInv', WorldStays, Rows, \A g \in Gens : Serves(g) /\ PartsOK(g)' /\ Debt(g) /\ LeaseOK(g)' /\ SnapOK(g)',
           \A g \in Gens : ToServe(g)' => ToServe(g) \/ (g \notin Names /\ gen[g].life # "active"),
           \A r \in runs' : RunOK(r)', \A x \in sends' : SendOK(x)',
           DownFrom \/ DownOK', CookieQuiet \/ CookieOK', NamesQuiet, LiveOK'
    PROVE  Rows'
  <1>0. Typed /\ Typed' /\ mix' = mix /\ Gens' = Gens
    BY SameBounds DEF RInv, WorldStays
  <1>1. \A g \in Gens : NewOK(g)'
    BY <1>0, NewKeeps DEF Rows
  <1>2. DownOK' /\ CookieOK'
    BY <1>0, DownKeeps, CookieKeeps DEF Rows
  <1> QED BY <1>0, <1>1, <1>2 DEF Rows

LEMMA CalmRows ==
    ASSUME RInv, RInv', WorldStays, Rows,
           \A g \in Gens : Serves(g) /\ Leases(g) /\ Sends(g) /\ PartsOK(g)' /\ Debt(g),
           \A g \in Gens : ToServe(g)' => ToServe(g) \/ (g \notin Names /\ gen[g].life # "active"),
           runs' \subseteq runs, sends' \subseteq sends, DownFrom, CookieQuiet \/ CookieOK', NamesQuiet, LiveOK'
    PROVE  Rows'
  <1>0. Typed /\ Typed' /\ mix' = mix
    BY DEF RInv, WorldStays
  <1>1. \A g \in Gens : LeaseOK(g)' /\ SnapOK(g)'
    BY <1>0, LeaseKeeps, StagedKeeps DEF Rows
  <1>2. ASSUME NEW r \in runs PROVE RunOK(r)'
    <2>1. r \in RunRecs /\ r.g \in Gens
      BY <1>0 DEF Typed, WorkT, RunRecs
    <2> QED BY <1>0, <2>1, RunKeeps DEF Rows
  <1>3. ASSUME NEW x \in sends PROVE SendOK(x)'
    <2>1. x \in SendRecs /\ x.g \in Gens
      BY <1>0 DEF Typed, WorkT, SendRecs
    <2> QED BY <1>0, <2>1, SendKeeps DEF Rows
  <1> QED BY <1>1, <1>2, <1>3, RowsFrom

\* The socket and its tasks: a step on the same connection, or on none.
LEMMA SockKeeps ==
    ASSUME UNCHANGED <<mix, sock, base>>, SockOK, \A g \in Gens : Stays(g), TasksCalm,
           down' # <<>> \/ up' # <<>> \/ listed' => sock # 0,
           replay'.c.g = 0 => replay'.c = NoCookie
    PROVE  SockOK'
  <1>1. ASSUME NEW g \in Gens
        PROVE  /\ task'[g].at # "idle" => task'[g].conn # 0 /\ (task'[g].cancelled \/ task'[g].conn = sock')
               /\ task'[g].at \in Waiting /\ ~task'[g].cancelled /\ task'[g].replay => base'.g # 0
               /\ gen'[g].life \in Lives => gen'[g].conn # 0
    <2>1. TaskStays(g) /\ Stays(g)
      BY DEF TasksCalm
    <2>2. task'[g].at \in Waiting => task'[g].at # "idle"
      BY DEF Waiting
    <2> QED BY <2>1, <2>2 DEF SockOK, TaskStays, Stays
  <1>2. sock' # 0 => base' # NoCookie
    BY DEF SockOK
  <1> QED BY <1>1, <1>2, SameBounds DEF SockOK

ReplayQuiet == replay' = replay \/ replay' = NoReplay \/ replay' = Retained

LEMMA ReplayKeeps ==
    ASSUME Typed, SockOK, ReplayQuiet
    PROVE  replay'.c.g = 0 => replay'.c = NoCookie
  <1>1. Retained = replay \/ Retained.c.g # 0
    BY DEF Retained
  <1> QED BY <1>1 DEF ReplayQuiet, NoReplay, NoCookie, SockOK

\* A step of the Gateway's tasks that tells the client nothing new.
CalmFrames == /\ DownQuiet /\ UpQuiet
              /\ UNCHANGED <<sock, base>>
              /\ (down' # <<>> \/ up' # <<>> \/ listed' => sock # 0)
              /\ ReplayQuiet

CalmServers == /\ WorldStays /\ GwCalm /\ TasksCalm /\ OutCalm /\ \A g \in Gens : Debt(g)
               /\ DelivCalm /\ runs' \subseteq runs /\ sends' \subseteq sends

\* An active generation may be named again, in the replay of what it sent.
LEMMA CalmNames ==
    ASSUME RInv, DownQuiet, UpQuiet, CookieQuiet, LastQuiet, ReplayQuiet, base'.g \in {0, base.g, last.g},
           NamesWork' \subseteq NamesWork \cup Actives
    PROVE  NamesQuiet
  <1>1. NamesDown' \subseteq NamesDown \cup {0}
    BY DEF DownQuiet, NamesDown
  <1>2. NamesUp' \subseteq NamesUp \cup {0}
    BY DEF UpQuiet, NamesUp
  <1>3. Retained = replay \/ Retained.c.g \in Actives
    <2>1. CASE head # 0 /\ Serving(head) /\ Staged(head) /\ snap[head].claim # 0
      <3>1. Retained.c.g = head
        BY <2>1 DEF Retained
      <3>2. head \in Gens /\ gen[head].life = "active"
        BY <2>1, Bounds DEF RInv, Typed, GwT, Gens, Serving
      <3> QED BY <3>1, <3>2 DEF Actives
    <2> QED BY <2>1 DEF Retained
  <1>4. NamesHeld' \subseteq NamesHeld \cup {0} \cup Actives
    BY <1>3 DEF NamesHeld, CookieQuiet, LastQuiet, ReplayQuiet, NoReplay, NoCookie
  <1> QED BY <1>1, <1>2, <1>4 DEF NamesQuiet, Names

ClientQuiet == CookieQuiet /\ LastQuiet /\ LiveOK'

LEMMA CalmStep ==
    ASSUME SInv, RInv', CalmServers, CalmFrames, ClientQuiet
    PROVE  SInv'
  <1>0. Typed /\ Typed' /\ mix' = mix /\ Gens' = Gens /\ RInv
    BY SameBounds DEF SInv, RInv, CalmServers, WorldStays
  <1>1. Outside'
    BY <1>0, CalmOutside DEF SInv, CalmServers, GwCalm
  <1>2. ASSUME NEW g \in Gens, ToServe(g)' PROVE ToServe(g)
    BY <1>2 DEF ToServe, CalmServers, GwCalm, TasksCalm, Stays, TaskStays
  <1>3. DownFrom
    BY DEF CalmFrames, DownQuiet, DownFrom
  <1>8. NamesQuiet
    <2>1. NamesWork' \subseteq NamesWork
      BY DEF CalmServers, NamesWork
    <2> QED BY <1>0, <2>1, CalmNames DEF CalmFrames, ClientQuiet
  <1>4. Rows'
    BY <1>0, <1>2, <1>3, <1>8, CalmRows, CalmParts DEF SInv, CalmServers, CalmFrames, ClientQuiet, GwCalm
  <1>5. replay'.c.g = 0 => replay'.c = NoCookie
    BY <1>0, ReplayKeeps DEF SInv, Streams, CalmFrames
  <1>6. SockOK'
    BY <1>0, <1>5, SockKeeps DEF SInv, Streams, CalmServers, CalmFrames, GwCalm
  <1>7. ASSUME NEW g \in Gens PROVE StreamOK(g)'
    <2>1. Calm(g) /\ StreamOK(g)
      BY DEF SInv, Streams, CalmServers, GwCalm
    <2>2. Serving(g)' /\ gen'[g].conn = sock' => gen[g].conn = sock
      BY <2>1 DEF Calm, CalmFrames
    <2> QED BY <1>0, <2>1, <2>2, CalmStreams DEF CalmFrames, ClientQuiet
  <1> QED BY <1>0, <1>1, <1>4, <1>6, <1>7 DEF SInv, Streams
-----------------------------------------------------------------------------
(* What the transactions of the Gateway's store leave.                     *)

LEMMA InvParts ==
    ASSUME SInv
    PROVE  /\ RInv /\ Typed /\ \A g \in Gens : /\ RegOK(g) /\ Values(g) /\ PartsOK(g) /\ NewOK(g) /\ LeaseOK(g) /\ SnapOK(g)
                                               /\ ClockOK(g) /\ StreamOK(g)
  <1>1. RInv /\ Typed
    BY DEF SInv, RInv
  <1> QED BY <1>1, ValuesTyped DEF SInv, RInv, Registered, Outside, Rows, Streams

\* A generation that is not touched.
LEMMA OneSame ==
    ASSUME SInv, UNCHANGED mix, NEW g \in Gens, gen'[g] = gen[g], snap'[g] = snap[g], head' = g => head = g
    PROVE  Calm(g) /\ Stays(g) /\ PartsOK(g)'
  <1>1. PartsOK(g) /\ Values(g)
    BY InvParts
  <1>2. PartsOK(g)' /\ Stays(g)
    BY <1>1 DEF PartsOK, Staged, Stays
  <1>3. Calm(g)
    BY <1>1 DEF Calm, Serving, Values
  <1> QED BY <1>2, <1>3

LEMMA GwSame ==
    ASSUME SInv, UNCHANGED <<mix, head, gen, snap>>
    PROVE  GwCalm
  BY OneSame DEF GwCalm

\* A generation that ends.
LEMMA OneGone ==
    ASSUME SInv, UNCHANGED mix, NEW g \in Gens, NEW r, gen' = [gen EXCEPT ![g] = r],
           r.life \in {"none", "retiring"}, r.life = "retiring" => gen[g].life # "none",
           r.shard = gen[g].shard \/ (r.life = "none" /\ r.shard = Source), r.token = 0,
           \A h \in Gens \ {g} : snap'[h] = snap[h], snap'[g].rows = 0, head' \in {0, head}, head' # g
    PROVE  GwCalm
  <1>0. gen \in [Gens -> GenRecs]
    BY InvParts, Generation, GenerationOK DEF Typed, GwT
  <1>1. gen'[g] = r /\ \A h \in Gens \ {g} : gen'[h] = gen[h]
    BY <1>0
  <1>2. 0 \notin Gens
    BY InvParts, Bounds DEF Typed
  <1>3. ASSUME NEW h \in Gens \ {g} PROVE Calm(h) /\ Stays(h) /\ PartsOK(h)'
    BY <1>1, <1>2, OneSame
  <1>4. Calm(g)
    BY DEF Calm, Serving
  <1>5. Stays(g)
    BY <1>1 DEF Stays, Lives
  <1>6. PartsOK(g)'
    BY <1>1 DEF PartsOK, Staged
  <1> QED BY <1>3, <1>4, <1>5, <1>6 DEF GwCalm

\* A generation whose lease ends.
LEMMA OneTouched ==
    ASSUME SInv, UNCHANGED <<mix, head>>, NEW g \in Gens, NEW r, gen' = [gen EXCEPT ![g] = r],
           r.life = gen[g].life, r.cdb = gen[g].cdb, r.shard = gen[g].shard, r.conn = gen[g].conn,
           r.dirty = gen[g].dirty, r.delivered = gen[g].delivered, r.initial = gen[g].initial,
           r.token = 0, r.target = 0, snap' = snap
    PROVE  GwCalm
  <1>0. gen \in [Gens -> GenRecs]
    BY InvParts DEF Typed, GwT
  <1>1. gen'[g] = r /\ \A h \in Gens \ {g} : gen'[h] = gen[h]
    BY <1>0
  <1>2. PartsOK(g) /\ Values(g)
    BY InvParts
  <1>3. ASSUME NEW h \in Gens \ {g} PROVE Calm(h) /\ Stays(h) /\ PartsOK(h)'
    BY <1>1, OneSame
  <1>4. Calm(g)
    BY <1>1, <1>2 DEF Calm, Serving, Values
  <1>5. Stays(g)
    BY <1>1 DEF Stays
  <1>6. PartsOK(g)'
    BY <1>1, <1>2 DEF PartsOK, Staged
  <1> QED BY <1>3, <1>4, <1>5, <1>6 DEF GwCalm

LEMMA FailRunCalm ==
    ASSUME SInv, UNCHANGED mix, NEW g \in Gens, NEW t, FailRun(g, t)
    PROVE  GwCalm
  <1>1. CASE UNCHANGED gen
    BY <1>1, GwSame DEF FailRun
  <1>2. CASE gen' = [gen EXCEPT ![g].token = 0, ![g].target = 0]
    <2>1. PICK r : r = [gen[g] EXCEPT !.token = 0, !.target = 0]
      OBVIOUS
    <2>2. gen[g] \in GenRecs
      BY InvParts, Generation
    <2>3. /\ r.life = gen[g].life /\ r.cdb = gen[g].cdb /\ r.shard = gen[g].shard /\ r.conn = gen[g].conn
          /\ r.dirty = gen[g].dirty /\ r.delivered = gen[g].delivered /\ r.initial = gen[g].initial
          /\ r.token = 0 /\ r.target = 0
      BY <2>1, <2>2 DEF GenRecs
    <2>4. gen' = [gen EXCEPT ![g] = r]
      BY <1>2, <2>1, InvParts, Generation
    <2> QED BY <2>3, <2>4, OneTouched DEF FailRun
  <1> QED BY <1>1, <1>2 DEF FailRun

\* A claim that ends, with its snapshot or without.
LEMMA SnapCalm ==
    ASSUME SInv, UNCHANGED mix, NEW g \in Gens, NEW t, FailSend(g, t) \/ Discard(g, t)
    PROVE  GwCalm
  <1>0. UNCHANGED <<head, gen>> /\ snap \in [Gens -> SnapRecs]
    BY InvParts, Generation DEF FailSend, Discard, Typed, GwT
  <1>1. CASE UNCHANGED snap
    BY <1>0, <1>1, GwSame
  <1>2. CASE snap' = [snap EXCEPT ![g].claim = 0] \/ snap' = [snap EXCEPT ![g] = NoSnap]
    <2>1. \A h \in Gens \ {g} : snap'[h] = snap[h]
      BY <1>0, <1>2
    <2>2. /\ snap'[g].claim = 0
          /\ snap'[g].rows # 0 => snap'[g].rows = snap[g].rows /\ snap'[g].target = snap[g].target
      BY <1>0, <1>2 DEF NoSnap, SnapRecs
    <2>3. \A h \in Gens \ {g} : Calm(h) /\ Stays(h) /\ PartsOK(h)'
      BY <1>0, <2>1, OneSame
    <2>4. PartsOK(g) /\ Values(g)
      BY InvParts
    <2>5. Calm(g)
      BY <1>0, <2>2, <2>4 DEF Calm, Serving, Staged, Values
    <2>6. Stays(g)
      BY <1>0 DEF Stays
    <2>7. PartsOK(g)'
      BY <1>0, <2>2, <2>4 DEF PartsOK, Staged
    <2> QED BY <2>3, <2>5, <2>6, <2>7 DEF GwCalm
  <1> QED BY <1>1, <1>2 DEF FailSend, Discard

LEMMA RetireCalm ==
    ASSUME SInv, UNCHANGED mix, NEW g \in Gens, head = g, NEW p, RetireKeeping(g, p)
    PROVE  GwCalm
  <1>0. Typed /\ RegOK(g)
    BY InvParts
  <1>1. PICK r : r = Retired(gen[g])
    OBVIOUS
  <1>2. r.life = "retiring" /\ r.shard = gen[g].shard /\ r.token = 0
    BY <1>1 DEF Retired, NoGen
  <1>3. head' = 0 /\ gen' = [gen EXCEPT ![g] = r] /\ snap' = [snap EXCEPT ![g] = NoSnap]
    BY <1>1 DEF RetireKeeping
  <1>4. gen[g].life # "none" /\ g # 0
    BY <1>0, Bounds DEF RegOK, HeadOK, Typed
  <1>5. (\A h \in Gens \ {g} : snap'[h] = snap[h]) /\ snap'[g].rows = 0
    BY <1>0, <1>3, Generation DEF NoSnap
  <1> QED BY <1>2, <1>3, <1>4, <1>5, OneGone

LEMMA MarkCalm ==
    ASSUME SInv, UNCHANGED mix, NEW g \in Gens, gen[g].cdb = "pending", MarkAmbiguous(g)
    PROVE  GwCalm
  <1>0. Typed /\ RegOK(g)
    BY InvParts
  <1>1. PICK r : r = [Retired(gen[g]) EXCEPT !.cdb = "retiring"]
    OBVIOUS
  <1>2. r.life = "retiring" /\ r.shard = gen[g].shard /\ r.token = 0
    BY <1>1 DEF Retired, NoGen
  <1>3. /\ head' = (IF head = g THEN 0 ELSE head) /\ gen' = [gen EXCEPT ![g] = r]
        /\ snap' = [snap EXCEPT ![g] = NoSnap]
    BY <1>1 DEF MarkAmbiguous
  <1>4. gen[g].life # "none" /\ g # 0
    BY <1>0, Bounds DEF RegOK, HeadOK, Typed
  <1>5. (\A h \in Gens \ {g} : snap'[h] = snap[h]) /\ snap'[g].rows = 0
    BY <1>0, <1>3, Generation DEF NoSnap
  <1> QED BY <1>2, <1>3, <1>4, <1>5, OneGone

LEMMA DeleteCalm ==
    ASSUME SInv, UNCHANGED mix, NEW g \in Gens,
           DeleteNeverRegistered(g) \/ (gen[g].life = "retiring" /\ DeleteRetired(g))
    PROVE  GwCalm
  <1>0. Typed /\ RegOK(g) /\ PartsOK(g) /\ g # 0
    BY InvParts, Bounds DEF Typed
  <1>1. CASE UNCHANGED gwVars
    BY <1>1, GwSame DEF gwVars
  <1>2. CASE gen' = [gen EXCEPT ![g] = NoGen] /\ snap' = [snap EXCEPT ![g] = NoSnap] /\ head' = (IF head = g THEN 0 ELSE head)
    <2>1. (\A h \in Gens \ {g} : snap'[h] = snap[h]) /\ snap'[g].rows = 0
      BY <1>0, <1>2, Generation DEF NoSnap
    <2>2. PICK r : r = NoGen
      OBVIOUS
    <2>3. r.life = "none" /\ r.shard = Source /\ r.token = 0
      BY <2>2 DEF NoGen
    <2> QED BY <1>0, <1>2, <2>1, <2>2, <2>3, OneGone
  <1>3. CASE gen[g].life = "retiring" /\ DeleteRetired(g)
    <2>1. (\A h \in Gens \ {g} : snap'[h] = snap[h]) /\ snap'[g].rows = 0
      BY <1>0, <1>3 DEF DeleteRetired, PartsOK, Staged
    <2>2. PICK r : r = NoGen
      OBVIOUS
    <2>3. r.life = "none" /\ r.shard = Source /\ r.token = 0
      BY <2>2 DEF NoGen
    <2>4. head' = head /\ head # g
      BY <1>0, <1>3 DEF DeleteRetired, RegOK, HeadOK
    <2> QED BY <1>3, <2>1, <2>2, <2>3, <2>4, OneGone DEF DeleteRetired
  <1> QED BY <1>1, <1>2, <1>3 DEF DeleteNeverRegistered
LEMMA ConnectionCalm ==
    ASSUME SInv, UNCHANGED mix, NEW p, RetireConnection(p)
    PROVE  GwCalm /\ replay' = p
  <1>1. CASE head # 0 /\ gen[head].conn = sock
    <2>1. head \in Gens
      BY <1>1, InvParts, Bounds DEF Typed, GwT, Gens
    <2> QED BY <1>1, <2>1, RetireCalm DEF RetireConnection, RetireKeeping
  <1>2. CASE ~(head # 0 /\ gen[head].conn = sock)
    BY <1>2, GwSame DEF RetireConnection
  <1> QED BY <1>1, <1>2

\* What does not change is quiet.
LEMMA LiveStays ==
    ASSUME SInv, UNCHANGED <<mix, liveVars>>
    PROVE  WorldStays /\ OutCalm /\ \A g \in Gens : Debt(g)
  <1>1. WorldStays /\ UNCHANGED <<sub, out>>
    BY DEF WorldStays, liveVars, catalogVars
  <1>2. OutCalm
    BY <1>1, InvParts DEF OutCalm, ClockOK
  <1>3. \A g \in Gens : Debt(g)
    BY <1>1, InvParts DEF Debt, Values
  <1> QED BY <1>1, <1>2, <1>3

LEMMA TasksSame ==
    ASSUME UNCHANGED task
    PROVE  TasksCalm
  BY DEF TasksCalm, TaskStays

\* A task that goes on or ends.
LEMMA OneTaskCalm ==
    ASSUME Typed, NEW g \in Gens, NEW t, task' = [task EXCEPT ![g] = t],
           t.at = "idle" \/ (t.conn = task[g].conn /\ t.replay = task[g].replay /\ (~t.cancelled => ~task[g].cancelled)),
           t.at # "idle" => task[g].at # "idle", t.at \in Early => task[g].at \in Early,
           t.at \in Waiting => task[g].at \in Waiting, t.at = "ok" => t.seq <= clock[t.shard],
           t.shard = Dest => task[g].shard = Dest \/ fenced = "gone"
    PROVE  TasksCalm
  <1>1. task \in [Gens -> TaskRecs]
    BY DEF Typed, TaskT
  <1>2. task'[g] = t /\ \A h \in Gens \ {g} : task'[h] = task[h]
    BY <1>1
  <1>3. \A h \in Gens \ {g} : TaskStays(h)
    BY <1>2 DEF TaskStays
  <1>4. TaskStays(g)
    BY <1>2 DEF TaskStays
  <1> QED BY <1>3, <1>4 DEF TasksCalm

LEMMA EndTaskCalm ==
    ASSUME Typed, NEW g \in Gens, EndTask(g)
    PROVE  TasksCalm
  <1>1. PICK t : t = IdleTask
    OBVIOUS
  <1>2. t.at = "idle" /\ t.shard # Dest
    BY <1>1 DEF IdleTask, Source, Dest
  <1>3. task' = [task EXCEPT ![g] = t]
    BY <1>1 DEF EndTask
  <1> QED BY <1>2, <1>3, OneTaskCalm DEF Early, Waiting

\* The sequences of frames.
LEMMA Appended ==
    ASSUME NEW S, NEW s \in Seq(S), NEW e
    PROVE  /\ Append(s, e) # <<>>
           /\ \A i \in DOMAIN Append(s, e) : \/ i \in DOMAIN s /\ Append(s, e)[i] = s[i]
                                             \/ i = Len(s) + 1 /\ Append(s, e)[i] = e
           /\ \A i \in DOMAIN s : i \in DOMAIN Append(s, e) /\ Append(s, e)[i] = s[i] /\ i < Len(s) + 1
           /\ Len(s) + 1 \in DOMAIN Append(s, e) /\ Append(s, e)[Len(s) + 1] = e
  OBVIOUS

LEMMA Tailed ==
    ASSUME NEW S, NEW s \in Seq(S), s # <<>>
    PROVE  /\ Head(s) = s[1] /\ 1 \in DOMAIN s
           /\ \A i \in DOMAIN Tail(s) : i \in Nat /\ i + 1 \in DOMAIN s /\ Tail(s)[i] = s[i + 1] /\ 1 < i + 1
  OBVIOUS

\* A plain frame says nothing of a generation.
LEMMA PlainDown ==
    ASSUME Typed, NEW k, k # "snap", down' = Append(down, Frame(k)) \/ UNCHANGED down
    PROVE  DownQuiet
  <1>1. down \in Seq(Frames) /\ Frame(k).k = k /\ Frame(k).c.g = 0
    BY DEF Typed, FrameT, Frame, NoCookie
  <1>2. PICK e : e = Frame(k)
    OBVIOUS
  <1>3. CASE down' = Append(down, e)
    BY <1>1, <1>2, <1>3, Appended DEF DownQuiet
  <1> QED BY <1>2, <1>3 DEF DownQuiet

LEMMA PlainUp ==
    ASSUME Typed, NEW k, k # "ack", up' = Append(up, Frame(k)) \/ UNCHANGED up
    PROVE  UpQuiet
  <1>1. up \in Seq(Frames) /\ Frame(k).k = k /\ Frame(k).c.g = 0
    BY DEF Typed, FrameT, Frame, NoCookie
  <1>2. PICK e : e = Frame(k)
    OBVIOUS
  <1>3. CASE up' = Append(up, e)
    BY <1>1, <1>2, <1>3, Appended DEF UpQuiet
  <1> QED BY <1>2, <1>3 DEF UpQuiet

LEMMA ReadUp ==
    ASSUME Typed, up # <<>>, up' = Tail(up)
    PROVE  UpQuiet
  <1>1. up \in Seq(Frames)
    BY DEF Typed, FrameT
  <1> QED BY <1>1, Tailed DEF UpQuiet
LEMMA ClientSame ==
    ASSUME SInv, UNCHANGED clientVars
    PROVE  ClientQuiet
  BY DEF SInv, Rows, LiveOK, ClientQuiet, CookieQuiet, LastQuiet, clientVars

LEMMA Connected ==
    ASSUME SInv
    PROVE  /\ down # <<>> \/ up # <<>> \/ listed => sock # 0
           /\ \A g \in Gens : task[g].at # "idle" => task[g].conn # 0 /\ (task[g].cancelled \/ task[g].conn = sock)
  BY DEF SInv, Streams, SockOK

LEMMA Tells ==
    ASSUME SInv, NEW conn, conn # 0, NEW k, k # "snap", Tell(conn, k) \/ UNCHANGED down
    PROVE  DownQuiet /\ (down' # <<>> => sock # 0)
  <1>1. down' = Append(down, Frame(k)) \/ UNCHANGED down
    BY DEF Tell
  <1>2. DownQuiet
    BY <1>1, InvParts, PlainDown
  <1>3. down' # <<>> => sock # 0
    BY Connected DEF Tell
  <1> QED BY <1>2, <1>3

LEMMA SettlesQuiet ==
    ASSUME SInv, NEW conn, NEW k, k # "snap", SettleRetired(conn, k) \/ UNCHANGED <<listed, down>>
    PROVE  DownQuiet /\ (down' # <<>> \/ listed' => sock # 0)
  <1>1. down' = Append(down, Frame(k)) \/ UNCHANGED down
    BY DEF SettleRetired
  <1>2. DownQuiet
    BY <1>1, InvParts, PlainDown
  <1>3. down' # <<>> \/ listed' => sock # 0
    BY Connected DEF SettleRetired, Ready
  <1> QED BY <1>2, <1>3

\* A step of the Gateway on its own.
LEMMA GatewayStep ==
    ASSUME SInv, RInv', UNCHANGED <<mix, liveVars, clientVars, sock, base>>, GwCalm, TasksCalm,
           deliv' \subseteq deliv, runs' \subseteq runs, sends' \subseteq sends, DownQuiet, UpQuiet, ReplayQuiet,
           down' # <<>> \/ listed' => sock # 0, up' # <<>> => up # <<>>
    PROVE  SInv'
  <1>1. WorldStays /\ OutCalm /\ \A g \in Gens : Debt(g)
    BY LiveStays
  <1>2. ClientQuiet
    BY ClientSame
  <1>3. up' # <<>> => sock # 0
    BY Connected
  <1> QED BY <1>1, <1>2, <1>3, CalmStep DEF CalmServers, CalmFrames, DelivCalm

LEMMA SameUp == ASSUME UNCHANGED up PROVE UpQuiet
  BY DEF UpQuiet
LEMMA SameDown == ASSUME SInv, UNCHANGED <<down, listed>> PROVE DownQuiet /\ (down' # <<>> \/ listed' => sock # 0)
  BY Connected DEF DownQuiet

-----------------------------------------------------------------------------
(* The steps of the Gateway's tasks.                                       *)

LEMMA DequeueKeeps ==
    ASSUME SInv, RInv', UNCHANGED mix, NEW g \in Gens, Dequeue(g)
    PROVE  SInv'
  <1>0. task \in [Gens -> TaskRecs]
    BY InvParts DEF Typed, TaskT
  <1>1. PICK t : t = IF task[g].cancelled THEN IdleTask ELSE [task[g] EXCEPT !.at = "auth"]
    OBVIOUS
  <1>2. task' = [task EXCEPT ![g] = t] /\ task[g].at = "queued"
    BY <1>0, <1>1 DEF Dequeue
  <1>3. TasksCalm
    <2>1. CASE task[g].cancelled
      <3>1. t.at = "idle" /\ t.shard # Dest
        BY <1>1, <2>1 DEF IdleTask, Source, Dest
      <3> QED BY <1>2, <3>1, InvParts, OneTaskCalm DEF Early, Waiting
    <2>2. CASE ~task[g].cancelled
      <3>1. /\ t.at = "auth" /\ t.shard = task[g].shard /\ t.conn = task[g].conn /\ t.replay = task[g].replay
            /\ t.cancelled = task[g].cancelled
        BY <1>0, <1>1, <2>2 DEF TaskRecs
      <3> QED BY <1>2, <3>1, InvParts, OneTaskCalm DEF Early, Waiting
    <2> QED BY <2>1, <2>2
  <1>4. GwCalm
    BY GwSame DEF Dequeue, gwVars
  <1> QED BY <1>3, <1>4, GatewayStep, SameUp, SameDown DEF Dequeue, gwVars, workVars, sockVars, ReplayQuiet

LEMMA SubSendKeeps ==
    ASSUME SInv, RInv', UNCHANGED mix, NEW g \in Gens, SubSend(g)
    PROVE  SInv'
  <1>0. task \in [Gens -> TaskRecs] /\ Typed
    BY InvParts DEF Typed, TaskT
  <1>1. CASE task[g].cancelled
    <2>1. GwCalm /\ replay' = replay
      BY <1>1, DeleteCalm DEF SubSend, DeleteNeverRegistered, gwVars
    <2>2. TasksCalm
      BY <1>0, <1>1, EndTaskCalm DEF SubSend
    <2> QED BY <2>1, <2>2, GatewayStep, SameUp, SameDown DEF SubSend, workVars, sockVars, ReplayQuiet
  <1>2. CASE ~task[g].cancelled
    <2>1. PICK t : t = [task[g] EXCEPT !.at = "rpc"]
      OBVIOUS
    <2>2. task' = [task EXCEPT ![g] = t] /\ task[g].at = "send"
      BY <1>0, <1>2, <2>1 DEF SubSend
    <2>3. /\ t.at = "rpc" /\ t.shard = task[g].shard /\ t.conn = task[g].conn /\ t.replay = task[g].replay
          /\ t.cancelled = task[g].cancelled
      BY <1>0, <2>1 DEF TaskRecs
    <2>4. TasksCalm
      BY <1>0, <2>2, <2>3, OneTaskCalm DEF Early, Waiting
    <2>5. GwCalm
      BY <1>2, GwSame DEF SubSend, gwVars
    <2> QED BY <1>2, <2>4, <2>5, GatewayStep, SameUp, SameDown DEF SubSend, gwVars, workVars, sockVars, ReplayQuiet
  <1> QED BY <1>1, <1>2

LEMMA CallFailsKeeps ==
    ASSUME SInv, RInv', UNCHANGED mix, NEW g \in Gens, SubCallFails(g)
    PROVE  SInv'
  <1>0. task \in [Gens -> TaskRecs] /\ Typed
    BY InvParts DEF Typed, TaskT
  <1>1. PICK t : t = [task[g] EXCEPT !.at = "throws"]
    OBVIOUS
  <1>2. task' = [task EXCEPT ![g] = t] /\ task[g].at \in {"rpc", "ok", "absent"}
    BY <1>0, <1>1 DEF SubCallFails
  <1>3. /\ t.at = "throws" /\ t.shard = task[g].shard /\ t.conn = task[g].conn /\ t.replay = task[g].replay
        /\ t.cancelled = task[g].cancelled
    BY <1>0, <1>1 DEF TaskRecs
  <1>4. TasksCalm
    BY <1>0, <1>2, <1>3, OneTaskCalm DEF Early, Waiting
  <1>5. GwCalm
    BY GwSame DEF SubCallFails, gwVars
  <1> QED BY <1>4, <1>5, GatewayStep, SameUp, SameDown DEF SubCallFails, gwVars, workVars, sockVars, ReplayQuiet

LEMMA RecoverKeeps ==
    ASSUME SInv, RInv', UNCHANGED mix, NEW g \in Gens, Recover(g)
    PROVE  SInv'
  <1>1. GwCalm /\ replay' = replay
    BY MarkCalm DEF Recover, MarkAmbiguous
  <1>2. TasksCalm
    BY TasksSame DEF Recover, taskVars
  <1> QED BY <1>1, <1>2, GatewayStep, SameUp, SameDown DEF Recover, workVars, sockVars, ReplayQuiet

LEMMA AbandonedKeeps ==
    ASSUME SInv, RInv', UNCHANGED mix, NEW g \in Gens, RunAbandoned(g) \/ ReconcileAbandoned(g)
    PROVE  SInv'
  <1>1. head = g
    BY DEF RunAbandoned, ReconcileAbandoned, Due, Serving
  <1>2. RetireKeeping(g, replay) \/ RetireKeeping(g, Retained)
    BY DEF RunAbandoned, ReconcileAbandoned, Retire
  <1>3. GwCalm /\ ReplayQuiet
    BY <1>1, <1>2, RetireCalm DEF RetireKeeping, ReplayQuiet
  <1>4. TasksCalm
    BY TasksSame DEF RunAbandoned, ReconcileAbandoned, taskVars
  <1> QED BY <1>3, <1>4, GatewayStep, SameUp, SameDown DEF RunAbandoned, ReconcileAbandoned, workVars, sockVars
LEMMA SubAuthKeeps ==
    ASSUME SInv, RInv', UNCHANGED mix, NEW g \in Gens, SubAuth(g)
    PROVE  SInv'
  <1>0. task \in [Gens -> TaskRecs] /\ Typed
    BY InvParts DEF Typed, TaskT
  <1>1. PICK t : t = [task[g] EXCEPT !.at = "install", !.auth = epoch, !.ok = granted, !.shard = Route]
    OBVIOUS
  <1>2. task' = [task EXCEPT ![g] = t] /\ task[g].at = "auth"
    BY <1>0, <1>1 DEF SubAuth
  <1>3. /\ t.at = "install" /\ t.shard = Route /\ t.conn = task[g].conn /\ t.replay = task[g].replay
        /\ t.cancelled = task[g].cancelled
    BY <1>0, <1>1 DEF TaskRecs
  <1>4. Route = Dest => fenced = "gone"
    BY DEF Route, Source, Dest
  <1>5. TasksCalm
    BY <1>0, <1>2, <1>3, <1>4, OneTaskCalm DEF Early, Waiting
  <1>6. GwCalm
    BY GwSame DEF SubAuth, gwVars
  <1> QED BY <1>5, <1>6, GatewayStep, SameUp, SameDown DEF SubAuth, gwVars, workVars, sockVars, ReplayQuiet

\* A step that changes the registrations at the Cdbs.
LEMMA CdbStep ==
    ASSUME SInv, RInv', UNCHANGED <<mix, rows, clock, fenced, authSeen, catalogVars, gwVars, sockVars, down, up, clientVars>>,
           TasksCalm, OutCalm, \A g \in Gens : Debt(g), DelivCalm, runs' \subseteq runs, sends' \subseteq sends
    PROVE  SInv'
  <1>1. WorldStays
    BY DEF WorldStays, catalogVars
  <1>2. ClientQuiet /\ GwCalm
    BY ClientSame, GwSame DEF gwVars
  <1>3. CalmFrames
    BY SameUp, SameDown, Connected DEF CalmFrames, sockVars, gwVars, ReplayQuiet
  <1> QED BY <1>1, <1>2, <1>3, CalmStep DEF CalmServers

LEMMA DebtSame ==
    ASSUME SInv, UNCHANGED out
    PROVE  \A g \in Gens : Debt(g)
  BY InvParts DEF Debt, Values

LEMMA SubscribedCalm ==
    ASSUME SInv, UNCHANGED <<mix, rows, clock, out, fenced>>, NEW c \in Shards, NEW g \in Gens, Subscribe(c, g)
    PROVE  OutCalm
  <1>1. ASSUME NEW x \in Shards, NEW h \in Gens, sub'[x][h] # "active" PROVE sub[x][h] # "active"
    BY <1>1, InvParts, Subscribes
  <1> QED BY <1>1, InvParts DEF OutCalm, ClockOK

LEMMA CdbSubscribeKeeps ==
    ASSUME SInv, RInv', UNCHANGED mix, NEW g \in Gens, CdbSubscribe(g)
    PROVE  SInv'
  <1>0. task \in [Gens -> TaskRecs] /\ Typed
    BY InvParts DEF Typed, TaskT
  <1>1. PICK a, n : a = SubscribeAnswer(task[g].shard, g) /\ n = clock[task[g].shard]
    OBVIOUS
  <1>2. PICK t : t = [task[g] EXCEPT !.at = a, !.seq = n]
    OBVIOUS
  <1>3. task' = [task EXCEPT ![g] = t] /\ task[g].at = "rpc"
    BY <1>0, <1>1, <1>2 DEF CdbSubscribe
  <1>4. a \in {"ok", "absent", "throws"}
    BY <1>1 DEF SubscribeAnswer
  <1>5. /\ t.at = a /\ t.shard = task[g].shard /\ t.conn = task[g].conn /\ t.replay = task[g].replay
        /\ t.cancelled = task[g].cancelled /\ t.seq = n
    BY <1>0, <1>2 DEF TaskRecs
  <1>6. task[g].shard \in Shards /\ n <= clock[t.shard]
    BY <1>0, <1>1, <1>5, InvParts DEF TaskRecs, Values
  <1>7. TasksCalm
    BY <1>0, <1>3, <1>4, <1>5, <1>6, OneTaskCalm DEF Early, Waiting
  <1>8. OutCalm
    BY <1>6, SubscribedCalm DEF CdbSubscribe
  <1> QED BY <1>7, <1>8, DebtSame, CdbStep DEF CdbSubscribe, workVars, DelivCalm

LEMMA LateSubscribeKeeps ==
    ASSUME SInv, RInv', UNCHANGED mix, NEW l \in late, CdbSubscribeLate(l)
    PROVE  SInv'
  <1>1. l.shard \in Shards /\ l.g \in Gens
    BY InvParts DEF Typed, TaskT, Calls
  <1>2. OutCalm
    BY <1>1, SubscribedCalm DEF CdbSubscribeLate
  <1>3. TasksCalm
    BY TasksSame DEF CdbSubscribeLate
  <1> QED BY <1>2, <1>3, DebtSame, CdbStep DEF CdbSubscribeLate, workVars, DelivCalm

LEMMA CleanKeeps ==
    ASSUME SInv, RInv', UNCHANGED mix, NEW g \in Gens, CleanStep(g) \/ CleanFails(g)
    PROVE  SInv'
  <1>0. Typed /\ RegOK(g) /\ gen[g].shard \in Shards /\ CdbT
    BY InvParts, GenerationOK DEF Typed
  <1>1. CASE CleanFails(g)
    <2>1. GwCalm /\ TasksCalm
      BY <1>1, GwSame, TasksSame DEF CleanFails, gwVars, taskVars
    <2> QED BY <1>1, <2>1, GatewayStep, SameUp, SameDown DEF CleanFails, gwVars, sockVars, ReplayQuiet
  <1>2. CASE CleanDelete(g)
    <2>1. gen[g].life = "retiring"
      BY <1>0, <1>2 DEF CleanDelete, RegOK, CleanOK, ToClean
    <2>2. GwCalm /\ TasksCalm /\ replay' = replay
      BY <1>2, <2>1, DeleteCalm, TasksSame DEF CleanDelete, DeleteRetired, taskVars
    <2> QED BY <1>2, <2>2, GatewayStep, SameUp, SameDown DEF CleanDelete, sockVars, ReplayQuiet
  <1>3. CASE CleanUnsubscribe(g)
    <2>1. gen[g].life = "retiring" /\ TasksCalm
      BY <1>3, TasksSame DEF CleanUnsubscribe, ToClean, taskVars
    <2>2. PICK c \in Shards : c = gen[g].shard
      BY <1>0
    <2>3. /\ sub' = [sub EXCEPT ![c][g] = "retired"] /\ out' = [out EXCEPT ![c][g] = 0]
      BY <1>3, <2>2 DEF CleanUnsubscribe, Unsubscribe
    <2>4. \A x \in Shards, h \in Gens : x # c \/ h # g => sub'[x][h] = sub[x][h] /\ out'[x][h] = out[x][h]
      BY <1>0, <2>3 DEF CdbT
    <2>5. out'[c][g] = 0
      BY <1>0, <2>3 DEF CdbT
    <2>6. OutCalm
      BY <2>4, <2>5, InvParts DEF OutCalm, ClockOK
    <2>7. ASSUME NEW h \in Gens PROVE Debt(h)
      <3>1. CASE h = g
        BY <1>3, <2>1, <3>1 DEF Debt, Serving, CleanUnsubscribe, gwVars
      <3>2. CASE h # g
        BY <2>4, <3>2, InvParts DEF Debt, Values
      <3> QED BY <3>1, <3>2
    <2> QED BY <1>3, <2>1, <2>6, <2>7, CdbStep DEF CleanUnsubscribe, DelivCalm
  <1>4. CASE CleanFinalize(g)
    <2>1. TasksCalm
      BY <1>4, TasksSame DEF CleanFinalize, taskVars
    <2>2. PICK c \in Shards : c = gen[g].shard
      BY <1>0
    <2>3. sub' = [sub EXCEPT ![c][g] = "absent"] /\ sub[c][g] # "active" /\ out' = out
      BY <1>4, <2>2 DEF CleanFinalize, FinalizeUnsubscribe, FinalizeUnsubscribeOk
    <2>4. \A x \in Shards, h \in Gens : x # c \/ h # g => sub'[x][h] = sub[x][h]
      BY <1>0, <2>3 DEF CdbT
    <2>5. OutCalm
      BY <2>3, <2>4, InvParts DEF OutCalm, ClockOK
    <2> QED BY <1>4, <2>1, <2>3, <2>5, DebtSame, CdbStep DEF CleanFinalize, DelivCalm
  <1> QED BY <1>1, <1>2, <1>3, <1>4 DEF CleanStep
-----------------------------------------------------------------------------
(* Invalidations on their way.                                             *)

LEMMA InvalidateCalm ==
    ASSUME SInv, UNCHANGED mix, NEW g \in Gens, NEW n \in Nat, Invalidate(g, n), gen[g].life # "none" => n <= clock[gen[g].shard]
    PROVE  GwCalm /\ (gen'[g].life \in Lives => gen'[g].dirty >= n)
  <1>0. RegOK(g) /\ Values(g) /\ PartsOK(g) /\ gen \in [Gens -> GenRecs]
    BY InvParts, Generation
  <1>1. CASE ~(head = g /\ gen[g].life # "retiring")
    <2>1. gen' = gen /\ gen[g].life \notin Lives
      BY <1>0, <1>1 DEF Invalidate, RegOK, HeadOK, Lives
    <2> QED BY <2>1, GwSame DEF Invalidate
  <1>2. CASE head = g /\ gen[g].life # "retiring"
    <2>1. PICK m : m = IF n > gen[g].dirty THEN n ELSE gen[g].dirty
      OBVIOUS
    <2>2. gen' = [gen EXCEPT ![g].dirty = m] /\ UNCHANGED <<head, snap, replay>>
      BY <1>0, <1>2, <2>1 DEF Invalidate
    <2>3. PICK r : r = [gen[g] EXCEPT !.dirty = m]
      OBVIOUS
    <2>4. gen' = [gen EXCEPT ![g] = r]
      BY <1>0, <2>2, <2>3
    <2>5. /\ r.life = gen[g].life /\ r.cdb = gen[g].cdb /\ r.shard = gen[g].shard /\ r.conn = gen[g].conn
          /\ r.dirty = m /\ r.delivered = gen[g].delivered /\ r.initial = gen[g].initial
          /\ r.token = gen[g].token /\ r.target = gen[g].target
      <3>1. gen[g] \in GenRecs
        BY <1>0
      <3> QED BY <2>3, <3>1 DEF GenRecs
    <2>6. gen'[g] = r /\ \A h \in Gens \ {g} : gen'[h] = gen[h]
      BY <1>0, <2>4
    <2>7. gen[g].life # "none" /\ m \in Nat /\ m >= gen[g].dirty /\ m >= n
      BY <1>0, <1>2, <2>1 DEF RegOK, HeadOK, Values
    <2>8. \A h \in Gens \ {g} : Calm(h) /\ Stays(h) /\ PartsOK(h)'
      BY <2>2, <2>6, OneSame
    <2>9. Calm(g)
      BY <2>2, <2>5, <2>6, <2>7 DEF Calm, Serving
    <2>10. Stays(g)
      BY <2>1, <2>5, <2>6, <2>7 DEF Stays
    <2>11. PartsOK(g)'
      BY <1>0, <2>2, <2>5, <2>6 DEF PartsOK, Staged
    <2> QED BY <2>5, <2>6, <2>7, <2>8, <2>9, <2>10, <2>11 DEF GwCalm
  <1> QED BY <1>1, <1>2

LEMMA DelivKeepsInv ==
    ASSUME SInv, RInv', UNCHANGED mix,
           \/ \E c \in Shards, g \in Gens : SendInvalidation(c, g)
           \/ \E d \in deliv : DelivStep(d) \/ InvalidationFails(d)
    PROVE  SInv'
  <1>0. Typed /\ DelivOK /\ deliv \subseteq DelivRecs
    BY InvParts DEF RInv, Typed, DelivT
  <1>1. ASSUME NEW c \in Shards, NEW g \in Gens, SendInvalidation(c, g) PROVE SInv'
    <2>1. PICK d : d = [c |-> c, g |-> g, seq |-> out[c][g], at |-> "sent"]
      OBVIOUS
    <2>2. deliv' = deliv \cup {d} /\ out[c][g] # 0
      BY <1>1, <2>1 DEF SendInvalidation
    <2>3. d.c = c /\ d.g = g /\ d.at = "sent"
      BY <2>1
    <2>4. sub[c][g] = "active"
      BY <2>2, InvParts DEF ClockOK
    <2>5. (gen[g].life # "none" => c = gen[g].shard) /\ task[g].at \notin Early
      BY <2>4, InvParts DEF RegOK, ShardOK, EarlyOK
    <2>6. DelivG(d)'
      BY <1>1, <2>3, <2>5 DEF DelivG, SendInvalidation, gwVars, taskVars
    <2>7. DelivCalm
      BY <2>2, <2>6 DEF DelivCalm
    <2>8. TasksCalm /\ OutCalm /\ \A h \in Gens : Debt(h)
      BY <1>1, TasksSame, LiveStays DEF SendInvalidation, taskVars
    <2> QED BY <1>1, <2>7, <2>8, CdbStep DEF SendInvalidation, liveVars, workVars
  <1>2. ASSUME NEW d \in deliv, InvalidateSubscriptions(d) PROVE SInv'
    <2>1. d.g \in Gens /\ d.seq \in Nat /\ d.c \in Shards /\ DelivG(d) /\ d.seq <= clock[d.c]
      BY <1>0 DEF DelivRecs, SInv, Outside, DelivOK
    <2>2. GwCalm /\ (gen'[d.g].life \in Lives => gen'[d.g].dirty >= d.seq)
      BY <1>2, <2>1, InvalidateCalm DEF InvalidateSubscriptions, DelivG
    <2>3. PICK e : e = [d EXCEPT !.at = "answered"]
      OBVIOUS
    <2>4. e.c = d.c /\ e.g = d.g /\ e.seq = d.seq /\ e.at = "answered"
      BY <1>0, <2>3 DEF DelivRecs
    <2>5. deliv' = (deliv \ {d}) \cup {e}
      BY <1>2, <2>3 DEF InvalidateSubscriptions
    <2>6. task'[d.g].at \notin Early
      BY <1>2, <2>1 DEF InvalidateSubscriptions, taskVars, DelivG
    <2>7. gen'[d.g].life # "none" => d.c = gen'[d.g].shard
      BY <2>1, <2>2 DEF GwCalm, Stays, DelivG
    <2>8. DelivG(e)'
      BY <2>2, <2>4, <2>6, <2>7 DEF DelivG
    <2>9. DelivCalm
      BY <2>5, <2>8 DEF DelivCalm
    <2>10. TasksCalm /\ OutCalm /\ WorldStays /\ \A h \in Gens : Debt(h)
      BY <1>2, TasksSame, LiveStays DEF InvalidateSubscriptions, taskVars
    <2>11. CalmFrames /\ ClientQuiet
      BY <1>2, SameUp, SameDown, Connected, ClientSame
      DEF CalmFrames, InvalidateSubscriptions, Invalidate, sockVars, gwVars, ReplayQuiet
    <2>12. CalmServers
      BY <1>2, <2>2, <2>9, <2>10 DEF CalmServers, InvalidateSubscriptions, workVars
    <2> QED BY <2>11, <2>12, CalmStep
  <1>3. ASSUME NEW d \in deliv, AcknowledgeInvalidation(d) PROVE SInv'
    <2>1. d.g \in Gens /\ d.seq \in Nat /\ d.c \in Shards /\ DelivG(d)
      BY <1>0 DEF DelivRecs, SInv, Outside
    <2>2. /\ out' = [out EXCEPT ![d.c][d.g] = IF out[d.c][d.g] = d.seq THEN 0 ELSE out[d.c][d.g]] /\ d.at = "answered"
      BY <1>0, <1>3, <2>1 DEF AcknowledgeInvalidation, Acknowledge, Typed, CdbT
    <2>3. /\ \A x \in Shards, h \in Gens : x # d.c \/ h # d.g => out'[x][h] = out[x][h]
          /\ out'[d.c][d.g] \in {0, out[d.c][d.g]} /\ (out[d.c][d.g] # d.seq => out'[d.c][d.g] = out[d.c][d.g])
      BY <1>0, <2>1, <2>2 DEF Typed, CdbT
    <2>4. OutCalm
      BY <1>3, <2>3, InvParts DEF OutCalm, ClockOK, AcknowledgeInvalidation
    <2>5. UNCHANGED <<head, gen, snap>>
      BY <1>3 DEF AcknowledgeInvalidation, gwVars
    <2>6. ASSUME NEW h \in Gens PROVE Debt(h)
      <3>1. CASE out'[gen[h].shard][h] = out[gen[h].shard][h]
        BY <3>1, InvParts DEF Debt, Values
      <3>2. CASE h = d.g /\ gen[h].shard = d.c /\ out[d.c][d.g] = d.seq
        <4>1. Serving(h) => gen[h].dirty >= d.seq
          BY <2>1, <2>2, <3>2 DEF DelivG, Serving, Lives
        <4> QED BY <2>5, <3>2, <4>1 DEF Debt, Serving
      <3>3. gen[h].shard \in Shards
        BY InvParts DEF Values
      <3> QED BY <2>3, <3>1, <3>2, <3>3
    <2>7. TasksCalm /\ DelivCalm
      BY <1>3, TasksSame DEF AcknowledgeInvalidation, taskVars, DelivCalm
    <2> QED BY <1>3, <2>4, <2>6, <2>7, CdbStep DEF AcknowledgeInvalidation, workVars
  <1>4. ASSUME NEW d \in deliv, InvalidationFails(d) PROVE SInv'
    <2>1. GwCalm /\ TasksCalm
      BY <1>4, GwSame, TasksSame DEF InvalidationFails, gwVars, taskVars
    <2> QED BY <1>4, <2>1, GatewayStep, SameUp, SameDown DEF InvalidationFails, gwVars, sockVars, workVars, ReplayQuiet
  <1> QED BY <1>1, <1>2, <1>3, <1>4 DEF DelivStep
-----------------------------------------------------------------------------
(* Installation and activation.                                            *)

LEMMA ReplayedCookie ==
    ASSUME SInv, NEW g \in Gens, task[g].at = "install", ~task[g].cancelled, task[g].replay, Replayable(task[g])
    PROVE  base.g # 0
  <1>1. base = Retained.c
    <2>1. [c |-> base, shard |-> task[g].shard, auth |-> task[g].auth].c = base
      OBVIOUS
    <2> QED BY <2>1 DEF Replayable
  <1>2. base # NoCookie /\ SockOK
    BY Connected DEF SInv, Streams, SockOK
  <1>3. Retained.c.g = 0 => Retained.c = NoCookie
    <2>1. replay.c.g = 0 => replay.c = NoCookie
      BY <1>2 DEF SockOK
    <2> QED BY <2>1 DEF Retained
  <1> QED BY <1>1, <1>2, <1>3

LEMMA InstallKeeps ==
    ASSUME SInv, RInv', UNCHANGED <<mix, liveVars, late, workVars, deliv, sock, listed, base, up, down, resume, clientVars>>,
           NEW g \in Gens, task[g].at = "install", ~task[g].cancelled, task[g].replay => Replayable(task[g]),
           Install(g, task[g].conn, task[g].shard, task[g].auth), task' = [task EXCEPT ![g].at = "send"]
    PROVE  SInv'
  <1>0. /\ Typed /\ Typed' /\ RegOK(g) /\ PartsOK(g) /\ NewOK(g) /\ Gens' = Gens /\ 0 \notin Gens
        /\ task \in [Gens -> TaskRecs]
    BY InvParts, SameBounds, Bounds DEF RInv, Typed, TaskT
  <1>1. PICK q : q = Installing(task[g].conn, task[g].shard, task[g].auth)
    OBVIOUS
  <1>2. /\ q.life = "installing" /\ q.conn = task[g].conn /\ q.shard = task[g].shard /\ q.dirty = 0
        /\ q.delivered = 0 /\ q.target = 0 /\ q.token = 0
    BY <1>1 DEF Installing, NoGen
  <1>3. gen[g].life = "none" /\ head # g /\ snap[g].rows = 0
    BY <1>0 DEF RegOK, EarlyOK, HeadOK, Early, PartsOK, Staged
  <1>4. /\ head' = g /\ gen'[g] = q /\ snap'[g].rows = 0
        /\ \A h \in Gens \ {g} : /\ h = head => gen'[h] = Retired(gen[h]) /\ snap'[h] = NoSnap
                                 /\ h # head => gen'[h] = gen[h] /\ snap'[h] = snap[h]
    BY <1>1, <1>3 DEF Install
  <1>5. \A h \in Gens : ~Serving(h)'
    BY <1>2, <1>4 DEF Serving
  <1>6. \A h \in Gens : Calm(h) /\ Debt(h)
    BY <1>5 DEF Calm, Debt
  <1>7. ASSUME NEW h \in Gens \ {g}
        PROVE  Stays(h) /\ PartsOK(h)' /\ gen'[h].life \notin Lives
    <2>1. RegOK(h) /\ PartsOK(h)
      BY InvParts
    <2>2. CASE h = head
      <3>1. gen'[h].life = "retiring" /\ gen'[h].shard = gen[h].shard /\ gen'[h].token = 0 /\ snap'[h].rows = 0
        <4>1. PICK r : r = Retired(gen[h])
          OBVIOUS
        <4>2. r.life = "retiring" /\ r.shard = gen[h].shard /\ r.token = 0
          BY <4>1 DEF Retired, NoGen
        <4> QED BY <1>4, <2>2, <4>1, <4>2 DEF NoSnap
      <3>2. gen[h].life # "none"
        BY <2>1, <2>2 DEF RegOK, HeadOK
      <3> QED BY <3>1, <3>2 DEF Stays, PartsOK, Staged, Lives
    <2>3. CASE h # head
      <3>1. gen'[h] = gen[h] /\ snap'[h] = snap[h] /\ gen[h].life \notin Lives
        BY <1>4, <2>1, <2>3 DEF RegOK, HeadOK, Lives
      <3> QED BY <2>1, <3>1 DEF Stays, PartsOK, Staged, Lives
    <2> QED BY <2>2, <2>3
  <1>8. PartsOK(g)'
    BY <1>2, <1>4 DEF PartsOK, Staged
  <1>9. WorldStays /\ OutCalm
    BY LiveStays
  <1>10. /\ task'[g].at = "send" /\ task'[g].shard = task[g].shard /\ task'[g].conn = task[g].conn
         /\ task'[g].cancelled = task[g].cancelled /\ task'[g].replay = task[g].replay
         /\ \A h \in Gens \ {g} : task'[h] = task[h]
    BY <1>0 DEF TaskRecs
  <1>11. Outside'
    <2>1. EpochOK'
      BY <1>9, EpochKeeps DEF SInv, Outside
    <2>2. PlaceOK'
      <3>1. \A h \in Gens : task'[h].shard = Dest \/ gen'[h].shard = Dest => fenced = "gone"
        BY <1>2, <1>4, <1>7, <1>10 DEF SInv, Outside, PlaceOK, Stays, Source, Dest
      <3> QED BY <1>0, <1>9, <3>1 DEF PlaceOK, WorldStays
    <2>3. ASSUME NEW h \in Gens PROVE ClockOK(h)'
      <3>1. CASE h = g
        <4>1. 0 <= clock[task[g].shard]
          <5>1. task[g].shard \in Shards
            BY <1>0 DEF TaskRecs
          <5> QED BY <1>0, <5>1, InvParts DEF Values
        <4> QED BY <1>2, <1>4, <1>9, <1>10, <3>1, <4>1 DEF ClockOK, OutCalm, WorldStays
      <3>2. CASE h # g
        BY <1>7, <1>9, <1>10, <3>2, InvParts DEF ClockOK, OutCalm, WorldStays
      <3> QED BY <3>1, <3>2
    <2>4. ASSUME NEW d \in deliv PROVE DelivG(d)'
      <3>1. d.g \in Gens /\ DelivG(d) /\ d.g # g
        BY <1>0 DEF Typed, DelivT, DelivRecs, SInv, Outside, DelivG, Early
      <3> QED BY <1>7, <1>10, <3>1 DEF DelivG, Stays
    <2> QED BY <1>0, <2>1, <2>2, <2>3, <2>4 DEF Outside
  <1>12. DownQuiet /\ UpQuiet /\ ReplayQuiet /\ ClientQuiet /\ DownFrom
    BY SameUp, SameDown, ClientSame DEF Install, ReplayQuiet, DownFrom
  <1>13. NamesQuiet
    BY <1>12, CalmNames, InvParts DEF ClientQuiet, NamesWork, workVars
  <1>14. \A h \in Gens : ToServe(h)' => ToServe(h)
    BY <1>0, <1>7, <1>10 DEF ToServe, Early, Lives
  <1>15. Rows'
    BY <1>0, <1>6, <1>7, <1>8, <1>9, <1>12, <1>13, <1>14, CalmRows, CalmParts, InvParts DEF SInv, workVars, ClientQuiet
  <1>16. SockOK'
    <2>1. replay'.c.g = 0 => replay'.c = NoCookie
      BY <1>0, <1>12, ReplayKeeps DEF SInv, Streams
    <2>2. task'[g].conn # 0 /\ (task'[g].cancelled \/ task'[g].conn = sock)
      BY <1>10, Connected
    <2>3. task'[g].replay => base.g # 0
      BY <1>10, ReplayedCookie
    <2>4. ASSUME NEW h \in Gens
          PROVE  /\ task'[h].at # "idle" => task'[h].conn # 0 /\ (task'[h].cancelled \/ task'[h].conn = sock')
                 /\ task'[h].at \in Waiting /\ ~task'[h].cancelled /\ task'[h].replay => base'.g # 0
                 /\ gen'[h].life \in Lives => gen'[h].conn # 0
      BY <1>2, <1>4, <1>7, <1>10, <2>2, <2>3 DEF SInv, Streams, SockOK
    <2> QED BY <1>0, <2>1, <2>4 DEF SInv, Streams, SockOK
  <1>17. ASSUME NEW h \in Gens PROVE StreamOK(h)'
    BY <1>5 DEF StreamOK
  <1> QED BY <1>0, <1>11, <1>15, <1>16, <1>17 DEF SInv, Streams

LEMMA SubInstallKeeps ==
    ASSUME SInv, RInv', UNCHANGED mix, NEW g \in Gens, SubInstall(g)
    PROVE  SInv'
  <1>0. task[g].at = "install" /\ Typed /\ task[g].conn # 0
    BY InvParts, Connected DEF SubInstall
  <1>1. CASE EndTask(g) /\ UNCHANGED <<head, gen, snap>>
    <2>1. TasksCalm /\ GwCalm
      BY <1>0, <1>1, EndTaskCalm, GwSame
    <2>2. DownQuiet /\ (down' # <<>> => sock # 0)
      BY <1>0, Tells, Connected DEF SubInstall
    <2>3. ReplayQuiet
      BY DEF SubInstall, Install, ReplayQuiet, gwVars
    <2> QED BY <2>1, <2>2, <2>3, Connected, GatewayStep, SameUp DEF SubInstall, workVars
  <1>2. CASE /\ ~task[g].cancelled /\ (task[g].replay => Replayable(task[g])) /\ UNCHANGED <<down, resume>>
             /\ Install(g, task[g].conn, task[g].shard, task[g].auth) /\ task' = [task EXCEPT ![g].at = "send"]
    BY <1>0, <1>2, InstallKeeps DEF SubInstall
  <1> QED BY <1>1, <1>2 DEF SubInstall, gwVars
\* Nobody has rows of the generation that begins to serve.
LEMMA ActivateKeeps ==
    ASSUME SInv, RInv', UNCHANGED <<mix, liveVars, late, workVars, deliv, sock, base, up, clientVars>>,
           NEW g \in Gens, task[g].at = "ok", ~task[g].cancelled, CanActivate(g), Activate(g, task[g].seq), EndTask(g),
           down' = IF task[g].replay THEN Append(down, [k |-> "snap", c |-> base]) ELSE down
    PROVE  SInv'
  <1>0. /\ RInv /\ Typed /\ Typed' /\ RegOK(g) /\ PartsOK(g) /\ Values(g) /\ Gens' = Gens /\ 0 \notin Gens
        /\ task \in [Gens -> TaskRecs] /\ gen \in [Gens -> GenRecs]
    BY InvParts, SameBounds, Bounds DEF RInv, Typed, TaskT, GwT
  <1>1. head = g /\ head' = g /\ gen[g].life = "installing" /\ ~Staged(g) /\ gen[g].token = 0 /\ gen[g].target = 0 /\ gen[g].delivered = 0
    BY <1>0 DEF CanActivate, Activate, PartsOK
  <1>2. g \notin Names
    BY <1>1, InvParts DEF NewOK, ToServe
  <1>3. PICK m : m = IF task[g].seq > gen[g].dirty THEN task[g].seq ELSE gen[g].dirty
    OBVIOUS
  <1>4. m \in Nat /\ m >= gen[g].dirty /\ m <= clock[gen[g].shard]
    <2>1. task[g].seq \in Nat /\ gen[g].dirty \in Nat
      BY <1>0 DEF TaskRecs, Values
    <2>2. task[g].seq <= clock[task[g].shard] /\ gen[g].dirty <= clock[gen[g].shard]
      BY <1>1, InvParts DEF ClockOK, Lives
    <2>3. task[g].shard = gen[g].shard
      BY <1>0, <1>1 DEF RegOK, ShardOK, Waiting
    <2> QED BY <1>3, <2>1, <2>2, <2>3
  <1>5. PICK r : r = [gen[g] EXCEPT !.life = "active", !.cdb = "active", !.initial = TRUE, !.dirty = m]
    OBVIOUS
  <1>6. gen' = [gen EXCEPT ![g] = r]
    BY <1>0, <1>3, <1>5 DEF Activate
  <1>7. /\ r.life = "active" /\ r.cdb = "active" /\ r.shard = gen[g].shard /\ r.conn = gen[g].conn /\ r.initial = TRUE
        /\ r.dirty = m /\ r.delivered = 0 /\ r.token = 0 /\ r.target = 0
    <2>1. gen[g] \in GenRecs
      BY <1>0
    <2> QED BY <1>1, <1>5, <2>1 DEF GenRecs
  <1>8. gen'[g] = r /\ \A h \in Gens \ {g} : gen'[h] = gen[h]
    BY <1>0, <1>6
  <1>9. snap' = snap /\ replay' = replay
    BY DEF Activate
  <1>10. \A h \in Gens \ {g} : ~Serving(h)'
    BY <1>1 DEF Serving
  <1>11. Stays(g)
    BY <1>1, <1>4, <1>7, <1>8 DEF Stays, Lives
  <1>12. \A h \in Gens \ {g} : Stays(h) /\ PartsOK(h)'
    BY <1>1, <1>8, <1>9, OneSame
  <1>13. PartsOK(g)'
    BY <1>1, <1>7, <1>8, <1>9 DEF PartsOK, Staged
  <1>14. WorldStays /\ OutCalm /\ TasksCalm /\ ClientQuiet
    BY <1>0, LiveStays, EndTaskCalm, ClientSame
  <1>15. Outside'
    BY <1>0, <1>11, <1>12, <1>14, CalmOutside DEF SInv, DelivCalm
  <1>16. base \in Cookies /\ base # NoCookie /\ sock # 0 /\ (task[g].replay => base.g # 0)
    BY <1>0, Connected DEF SInv, Streams, SockOK, Typed, SockT, Waiting
  <1>17. PICK e : e = [k |-> "snap", c |-> base]
    OBVIOUS
  <1>18. \A i \in DOMAIN down' : \/ i \in DOMAIN down /\ down'[i] = down[i]
                                 \/ down'[i].c = base /\ base.g # 0
    <2>1. down \in Seq(Frames) /\ e.c = base
      BY <1>0, <1>17 DEF Typed, FrameT
    <2>2. CASE down' = Append(down, e) /\ task[g].replay
      BY <1>16, <2>1, <2>2, Appended
    <2> QED BY <1>17, <2>2
  <1>19. \A i \in DOMAIN down' : down'[i].c.g # g
    BY <1>2, <1>18 DEF Names, NamesDown, NamesHeld
  <1>20. NamesQuiet
    <2>1. NamesDown' \subseteq NamesDown \cup NamesHeld
      BY <1>18 DEF NamesDown, NamesHeld
    <2> QED BY <1>9, <2>1 DEF NamesQuiet, Names, NamesUp, NamesWork, NamesHeld, workVars, clientVars
  <1>21. ASSUME NEW v, NEW t, NEW h \in Gens \ {g} PROVE Good(h, v, t)'
    BY <1>10 DEF Good
  <1>22. Rows'
    <2>1. \A h \in Gens : ToServe(h)' => ToServe(h)
      BY <1>7, <1>8, <1>14 DEF ToServe, TasksCalm, TaskStays
    <2>2. \A h \in Gens : NewOK(h)'
      BY <1>0, <1>20, <2>1, NewKeeps DEF SInv, Rows
    <2>3. \A h \in Gens : LeaseOK(h)' /\ SnapOK(h)'
      BY <1>1, <1>4, <1>7, <1>8, <1>9, <1>10 DEF LeaseOK, SnapOK, Staged, Good
    <2>4. ASSUME NEW x \in runs PROVE RunOK(x)'
      <3>1. x.g \in Gens \ {g}
        BY <1>0, <1>2 DEF Typed, WorkT, RunRecs, Names, NamesWork
      <3> QED BY <1>10, <3>1 DEF RunOK, OwnsRun
    <2>5. ASSUME NEW x \in sends PROVE SendOK(x)'
      <3>1. x.g \in Gens \ {g}
        BY <1>0, <1>2 DEF Typed, WorkT, SendRecs, Names, NamesWork
      <3> QED BY <1>10, <3>1 DEF SendOK, OwnsSend
    <2>6. DownOK'
      <3>1. ASSUME NEW i \in DOMAIN down', down'[i].k = "snap"
            PROVE  down'[i].c.g \in Gens /\ Good(down[i].c.g, down[i].c.rows, down[i].c.target)'
        <4>1. down'[i].c.g \in Gens
          BY <1>16, <1>18, <3>1 DEF SInv, Rows, DownOK, Cookies, Gens
        <4>2. PICK c : c = down'[i].c
          OBVIOUS
        <4>3. Good(c.g, c.rows, c.target)'
          BY <1>19, <1>21, <4>1, <4>2
        <4> QED BY <4>1, <4>2, <4>3
      <3> QED BY <1>0, <3>1 DEF DownOK
    <2>7. CookieOK'
      <3>1. cookie' = cookie /\ cookie.g # g
        BY <1>2 DEF clientVars, Names, NamesHeld
      <3>2. PICK c : c = cookie
        OBVIOUS
      <3>3. c.g \in Gens => Good(c.g, c.rows, c.target)'
        BY <1>21, <3>1, <3>2
      <3> QED BY <1>0, <3>1, <3>2, <3>3 DEF CookieOK
    <2> QED BY <1>0, <1>12, <1>13, <1>14, <2>2, <2>3, <2>4, <2>5, <2>6, <2>7 DEF Rows, workVars, ClientQuiet
  <1>23. SockOK'
    BY <1>9, <1>11, <1>12, <1>14, <1>16, SockKeeps, ReplayKeeps DEF SInv, Streams, SockOK
  <1>24. StreamOK(g)'
    <2>1. ~Received(g)'
      <3>1. cookie' = cookie /\ cookie.g # g /\ up' = up
        BY <1>2 DEF clientVars, Names, NamesHeld
      <3>2. \A i \in DOMAIN up : up[i].c.g # g
        BY <1>2 DEF Names, NamesUp
      <3> QED BY <1>7, <1>8, <3>1, <3>2 DEF Received, AckOf
    <2>2. ASSUME NEW t \in Nat, Had(g, t)' PROVE t = 0
      <3>1. cookie' = cookie /\ cookie.g # g /\ up' = up
        BY <1>2 DEF clientVars, Names, NamesHeld
      <3>2. \A i \in DOMAIN up : up[i].c.g # g
        BY <1>2 DEF Names, NamesUp
      <3> QED BY <1>7, <1>8, <2>2, <3>1, <3>2 DEF Had, AckOf
    <2>3. Ahead(g, 0)'
      BY <1>1, <1>4, <1>7, <1>8, <1>9 DEF Ahead, Staged
    <2>4. cookie'.g # g
      BY <1>2 DEF clientVars, Names, NamesHeld
    <2> QED BY <1>19, <2>1, <2>2, <2>3, <2>4 DEF StreamOK
  <1>25. \A h \in Gens \ {g} : StreamOK(h)'
    BY <1>10 DEF StreamOK
  <1> QED BY <1>0, <1>15, <1>22, <1>23, <1>24, <1>25 DEF SInv, Streams

LEMMA SubAnswerKeeps ==
    ASSUME SInv, RInv', UNCHANGED mix, NEW g \in Gens, SubAnswer(g)
    PROVE  SInv'
  <1>0. Typed /\ task[g].conn # 0 /\ EndTask(g) /\ TasksCalm
    BY InvParts, Connected, Answers, EndTaskCalm
  <1>1. /\ UNCHANGED <<liveVars, late, workVars, deliv, sock, base, up, clientVars>>
        /\ task[g].at \in {"ok", "absent", "throws"}
    BY Answers
  <1>2. CASE /\ SettleAmbiguous(g) /\ UNCHANGED <<listed, resume>>
             /\ UNCHANGED down \/ Tell(task[g].conn, "retry")
    <2>1. GwCalm /\ ReplayQuiet
      <3>1. CASE gen[g].cdb = "pending" /\ MarkAmbiguous(g)
        BY <3>1, MarkCalm DEF MarkAmbiguous, ReplayQuiet
      <3>2. CASE head = g /\ Retire(g)
        BY <3>2, RetireCalm DEF Retire, RetireKeeping, ReplayQuiet
      <3>3. CASE UNCHANGED gwVars
        BY <3>3, GwSame DEF gwVars, ReplayQuiet
      <3> QED BY <1>2, <3>1, <3>2, <3>3, Settles
    <2>2. DownQuiet /\ (down' # <<>> => sock # 0)
      <3>1. PICK conn, k : conn = task[g].conn /\ k = "retry"
        OBVIOUS
      <3>2. conn # 0 /\ k # "snap" /\ (Tell(conn, k) \/ UNCHANGED down)
        BY <1>0, <1>2, <3>1
      <3> QED BY <3>2, Tells
    <2> QED BY <1>0, <1>1, <1>2, <2>1, <2>2, Connected, GatewayStep, SameUp DEF workVars
  <1>3. CASE /\ DeleteNeverRegistered(g) /\ UNCHANGED <<listed, resume>>
             /\ UNCHANGED down \/ Tell(task[g].conn, "refetch")
    <2>1. GwCalm /\ ReplayQuiet
      BY <1>3, DeleteCalm DEF DeleteNeverRegistered, gwVars, ReplayQuiet
    <2>2. DownQuiet /\ (down' # <<>> => sock # 0)
      <3>1. PICK conn, k : conn = task[g].conn /\ k = "refetch"
        OBVIOUS
      <3>2. conn # 0 /\ k # "snap" /\ (Tell(conn, k) \/ UNCHANGED down)
        BY <1>0, <1>3, <3>1
      <3> QED BY <3>2, Tells
    <2> QED BY <1>0, <1>1, <1>3, <2>1, <2>2, Connected, GatewayStep, SameUp DEF workVars
  <1>4. CASE /\ task[g].at = "ok" /\ ~task[g].cancelled /\ CanActivate(g) /\ Activate(g, task[g].seq)
             /\ down' = IF task[g].replay THEN Append(down, [k |-> "snap", c |-> base]) ELSE down
    BY <1>0, <1>1, <1>4, ActivateKeeps
  <1> QED BY <1>2, <1>3, <1>4, Answers

-----------------------------------------------------------------------------
(* Frames of the client, sockets that break.                               *)

\* A new id is one that no frame, run, attempt, cookie or invalidation names.
LEMMA OnSubKeeps ==
    ASSUME SInv, RInv', UNCHANGED mix, OnSub
    PROVE  SInv'
  <1>0. /\ RInv /\ Typed /\ Typed' /\ Gens' = Gens /\ 0 \notin Gens /\ task \in [Gens -> TaskRecs]
        /\ sock # 0 /\ up # <<>> /\ up' = Tail(up)
        /\ UNCHANGED <<liveVars, gwVars, workVars, deliv, sockVars, clientVars, faults>>
    BY InvParts, SameBounds, Bounds, Connected DEF RInv, Typed, TaskT, OnSub, Arrives
  <1>1. UpQuiet /\ GwCalm /\ ReplayQuiet /\ ClientQuiet /\ WorldStays /\ OutCalm /\ \A g \in Gens : Debt(g)
    BY <1>0, ReadUp, GwSame, ClientSame, LiveStays DEF gwVars, ReplayQuiet
  <1>2. CASE Tell(sock, "retry") /\ UNCHANGED taskVars
    <2>1. DownQuiet
      <3>1. PICK k : k = "retry"
        OBVIOUS
      <3> QED BY <1>0, <1>2, <3>1, Tells
    <2> QED BY <1>0, <1>1, <1>2, <2>1, TasksSame, GatewayStep DEF taskVars, workVars, sockVars
  <1>3. CASE /\ \E g \in Gens : Unused(g)
             /\ task' = [g \in Gens |->
                   IF g = NextGen
                   THEN [IdleTask EXCEPT !.conn = sock, !.replay = (resume = "try" /\ ~listed),
                           !.at = IF \E h \in Gens : task[h].at # "idle" /\ task[h].conn = sock
                                  THEN "queued" ELSE "auth"]
                   ELSE IF g \in Pending THEN [task[g] EXCEPT !.cancelled = TRUE]
                   ELSE task[g]]
             /\ UNCHANGED <<late, down>>
    <2>1. PICK i \in Gens : i = NextGen /\ Unused(i)
      BY <1>3 DEF NextGen
    <2>2. PICK n : n = [IdleTask EXCEPT !.conn = sock, !.replay = (resume = "try" /\ ~listed),
                           !.at = IF \E h \in Gens : task[h].at # "idle" /\ task[h].conn = sock THEN "queued" ELSE "auth"]
      OBVIOUS
    <2>3. n.at \in {"queued", "auth"} /\ n.conn = sock /\ n.shard = Source
      BY <2>2 DEF IdleTask
    <2>4. \A g \in Gens : task'[g] = IF g = i THEN n
                                     ELSE IF g \in Pending THEN [task[g] EXCEPT !.cancelled = TRUE] ELSE task[g]
      BY <1>3, <2>1, <2>2, Zenon
    <2>5. task'[i] = n
      BY <2>4
    <2>6. ASSUME NEW g \in Gens \ {i} PROVE TaskStays(g)
      <3>1. task[g] \in TaskRecs
        BY <1>0
      <3>2. task'[g] = [task[g] EXCEPT !.cancelled = TRUE] \/ task'[g] = task[g]
        BY <2>4
      <3> QED BY <3>1, <3>2 DEF TaskStays, TaskRecs
    <2>7. gen[i].life = "none" /\ gen[i].shard = Source /\ i \notin Names /\ \A d \in deliv : d.g # i
      <3>1. gen[i] = NoGen /\ \A d \in deliv : d.g # i
        BY <2>1 DEF Unused
      <3>2. i \notin Names
        BY <2>1 DEF Unused, Names, NamesDown, NamesUp, NamesWork, NamesHeld
      <3> QED BY <3>1, <3>2 DEF NoGen
    <2>8. UNCHANGED <<head, gen, snap, deliv, base, sock, sub, out>>
      BY <1>0 DEF gwVars, sockVars, liveVars
    <2>9. Outside'
      <3>1. EpochOK'
        BY <1>1, EpochKeeps DEF SInv, Outside
      <3>2. ASSUME NEW g \in Gens, task'[g].shard = Dest \/ gen'[g].shard = Dest PROVE fenced' = "gone"
        BY <1>1, <2>3, <2>5, <2>6, <2>7, <2>8, <3>2 DEF SInv, Outside, PlaceOK, TaskStays, WorldStays, Source, Dest
      <3>3. ASSUME NEW g \in Gens PROVE ClockOK(g)'
        <4>1. Stays(g) /\ ClockOK(g)
          BY <1>1, InvParts DEF GwCalm
        <4>2. CASE g = i
          BY <1>1, <2>3, <2>5, <2>7, <2>8, <4>1, <4>2 DEF ClockOK, Lives, OutCalm
        <4> QED BY <1>0, <1>1, <2>6, <4>1, <4>2, ClockKeeps
      <3>4. ASSUME NEW d \in deliv PROVE DelivG(d)'
        <4>1. d.g \in Gens \ {i} /\ Stays(d.g) /\ DelivG(d)
          BY <1>0, <1>1, <2>7 DEF Typed, DelivT, DelivRecs, GwCalm, SInv, Outside
        <4> QED BY <1>0, <2>6, <4>1, DelivKeeps
      <3> QED BY <1>0, <2>8, <3>1, <3>2, <3>3, <3>4 DEF Outside, PlaceOK
    <2>10. DownQuiet /\ DownFrom
      BY <1>3, SameDown, <1>0 DEF DownQuiet, DownFrom
    <2>11. NamesQuiet
      BY <1>0, <1>1, <2>8, <2>10, CalmNames DEF ClientQuiet, NamesWork, workVars
    <2>12. \A g \in Gens : ToServe(g)' => ToServe(g) \/ (g \notin Names /\ gen[g].life # "active")
      BY <2>6, <2>7, <2>8 DEF ToServe, TaskStays
    <2>13. Rows'
      BY <1>0, <1>1, <2>10, <2>11, <2>12, CalmRows, CalmParts DEF SInv, ClientQuiet, GwCalm, workVars
    <2>14. SockOK'
      <3>1. replay' = replay /\ listed' = listed /\ up' # <<>> => sock # 0
        BY <1>0 DEF gwVars, sockVars
      <3>2. ASSUME NEW g \in Gens
            PROVE  /\ task'[g].at # "idle" => task'[g].conn # 0 /\ (task'[g].cancelled \/ task'[g].conn = sock')
                   /\ task'[g].at \in Waiting /\ ~task'[g].cancelled /\ task'[g].replay => base'.g # 0
                   /\ gen'[g].life \in Lives => gen'[g].conn # 0
        <4>1. CASE g = i
          BY <1>0, <2>3, <2>5, <2>7, <2>8, <4>1 DEF Waiting, Lives
        <4>2. CASE g # i
          BY <2>6, <2>8, <4>2 DEF TaskStays, SInv, Streams, SockOK, Waiting
        <4> QED BY <4>1, <4>2
      <3> QED BY <1>0, <1>3, <2>8, <3>1, <3>2 DEF SInv, Streams, SockOK, gwVars, sockVars
    <2>15. ASSUME NEW g \in Gens PROVE StreamOK(g)'
      BY <1>0, <1>1, <2>8, <2>10, InvParts, CalmStreams DEF GwCalm, ClientQuiet
    <2> QED BY <1>0, <2>9, <2>13, <2>14, <2>15 DEF SInv, Streams
  <1> QED BY <1>2, <1>3 DEF OnSub

LEMMA CancelCalm ==
    ASSUME SInv, NEW conn, task' = Cancel(conn)
    PROVE  /\ TasksCalm
           /\ \A g \in Gens : task'[g].at # "idle" /\ task[g].conn = conn => task'[g].cancelled
  <1>0. task \in [Gens -> TaskRecs]
    BY InvParts DEF Typed, TaskT
  <1>1. \A g \in Gens : task'[g] = IF task[g].at # "idle" /\ task[g].conn = conn
                                   THEN [task[g] EXCEPT !.cancelled = TRUE] ELSE task[g]
    BY DEF Cancel
  <1>2. ASSUME NEW g \in Gens
        PROVE  TaskStays(g) /\ (task'[g].at # "idle" /\ task[g].conn = conn => task'[g].cancelled)
    <2>1. task[g] \in TaskRecs
      BY <1>0
    <2> QED BY <1>1, <2>1 DEF TaskStays, TaskRecs
  <1> QED BY <1>2 DEF TasksCalm

LEMMA OnUnsubKeeps ==
    ASSUME SInv, RInv', UNCHANGED mix, OnUnsub
    PROVE  SInv'
  <1>1. GwCalm /\ ReplayQuiet
    BY ConnectionCalm DEF OnUnsub, ReplayQuiet
  <1>2. TasksCalm
    BY CancelCalm DEF OnUnsub
  <1>3. up # <<>> /\ up' = Tail(up)
    BY DEF OnUnsub, Arrives
  <1>4. UpQuiet /\ DownQuiet /\ (down' # <<>> \/ listed' => sock # 0)
    BY <1>3, InvParts, ReadUp, Connected DEF OnUnsub, DownQuiet
  <1> QED BY <1>1, <1>2, <1>3, <1>4, GatewayStep DEF OnUnsub, workVars

\* Nothing is on its way on a connection that is gone.
LEMMA BreakKeeps ==
    ASSUME SInv, RInv', UNCHANGED <<mix, liveVars>>, Break, GwCalm, TasksCalm, ReplayQuiet,
           \A g \in Gens : task'[g].at # "idle" => task'[g].cancelled,
           deliv' \subseteq deliv, runs' \subseteq runs, sends' \subseteq sends
    PROVE  SInv'
  <1>0. /\ RInv /\ Typed /\ Typed' /\ Gens' = Gens /\ sock' = 0 /\ listed' = FALSE /\ down' = <<>> /\ up' = <<>>
        /\ base' = NoCookie /\ UNCHANGED <<cst, shown, cookie, last>>
    BY InvParts, SameBounds DEF RInv, Break, ClientClose
  <1>1. WorldStays /\ OutCalm /\ \A g \in Gens : Debt(g)
    BY LiveStays
  <1>2. DownQuiet /\ UpQuiet /\ DownFrom
    BY <1>0 DEF DownQuiet, UpQuiet, DownFrom
  <1>3. CookieQuiet /\ LastQuiet /\ LiveOK'
    BY <1>0 DEF CookieQuiet, LastQuiet, LiveOK, SInv, Rows
  <1>4. Outside'
    BY <1>0, <1>1, CalmOutside DEF SInv, GwCalm, DelivCalm
  <1>5. NamesQuiet
    <2>1. base'.g = 0
      BY <1>0 DEF NoCookie
    <2> QED BY <1>0, <1>2, <1>3, <2>1, CalmNames DEF NamesWork
  <1>6. \A g \in Gens : ToServe(g)' => ToServe(g)
    BY DEF ToServe, GwCalm, TasksCalm, Stays, TaskStays
  <1>7. Rows'
    BY <1>0, <1>1, <1>2, <1>3, <1>5, <1>6, CalmRows, CalmParts DEF SInv, GwCalm
  <1>8. ASSUME NEW g \in Gens, gen'[g].life \in Lives PROVE gen'[g].conn # 0
    BY <1>8 DEF GwCalm, Stays, SInv, Streams, SockOK
  <1>9. SockOK'
    <2>1. replay'.c.g = 0 => replay'.c = NoCookie
      BY <1>0, ReplayKeeps DEF SInv, Streams
    <2>2. ASSUME NEW g \in Gens
          PROVE  /\ task'[g].at # "idle" => task'[g].conn # 0 /\ (task'[g].cancelled \/ task'[g].conn = sock')
                 /\ task'[g].at \in Waiting /\ ~task'[g].cancelled /\ task'[g].replay => base'.g # 0
      <3>1. task'[g].at # "idle" => task[g].at # "idle" /\ task'[g].conn = task[g].conn
        BY DEF TasksCalm, TaskStays
      <3>2. task'[g].at \in Waiting => task'[g].at # "idle"
        BY DEF Waiting
      <3> QED BY <3>1, <3>2, Connected
    <2> QED BY <1>0, <1>8, <2>1, <2>2 DEF SockOK
  <1>10. ASSUME NEW g \in Gens PROVE StreamOK(g)'
    BY <1>0, <1>8 DEF StreamOK, Serving, Lives
  <1> QED BY <1>0, <1>4, <1>7, <1>9, <1>10 DEF SInv, Streams

LEMMA CloseKeeps ==
    ASSUME SInv, RInv', UNCHANGED mix, CleanupGatewaySocket \/ Restart
    PROVE  SInv'
  <1>0. Typed /\ task \in [Gens -> TaskRecs]
    BY InvParts DEF Typed, TaskT
  <1>1. CASE CleanupGatewaySocket
    <2>1. GwCalm /\ ReplayQuiet
      BY <1>1, ConnectionCalm DEF CleanupGatewaySocket, ReplayQuiet
    <2>2. TasksCalm /\ \A g \in Gens : task'[g].at # "idle" /\ task[g].conn = sock => task'[g].cancelled
      BY <1>1, CancelCalm DEF CleanupGatewaySocket
    <2>3. ASSUME NEW g \in Gens, task'[g].at # "idle" PROVE task'[g].cancelled
      <3>1. task[g].at # "idle" /\ (task[g].cancelled \/ task[g].conn = sock)
        BY <2>2, <2>3, Connected DEF TasksCalm, TaskStays
      <3>2. task[g].conn # sock => task'[g] = task[g]
        BY <1>1 DEF CleanupGatewaySocket, Cancel
      <3> QED BY <2>2, <2>3, <3>1, <3>2
    <2> QED BY <1>1, <2>1, <2>2, <2>3, BreakKeeps DEF CleanupGatewaySocket, workVars
  <1>2. CASE Restart
    <2>1. GwCalm /\ ReplayQuiet
      BY <1>2, GwSame DEF Restart, gwVars, ReplayQuiet
    <2>2. ASSUME NEW g \in Gens PROVE TaskStays(g) /\ task'[g].at = "idle"
      <3>1. task'[g] = IdleTask
        BY <1>2 DEF Restart
      <3>2. task'[g].at = "idle" /\ task'[g].shard = Source
        BY <3>1 DEF IdleTask
      <3> QED BY <3>2 DEF TaskStays, Early, Waiting, Source, Dest
    <2> QED BY <1>2, <2>1, <2>2, BreakKeeps DEF Restart, TasksCalm
  <1> QED BY <1>1, <1>2

\* A new connection, of which no generation and no task is.
LEMMA ReconnectKeeps ==
    ASSUME SInv, RInv', UNCHANGED mix, Reconnect
    PROVE  SInv'
  <1>0. /\ RInv /\ Typed /\ Typed' /\ Gens' = Gens /\ sock = 0 /\ down = <<>> /\ ~listed
        /\ UNCHANGED <<liveVars, gwVars, taskVars, workVars, deliv, listed, down, cst, shown, cookie, kept, timer, faults>>
    BY InvParts, SameBounds, Connected DEF RInv, Reconnect
  <1>1. PICK c \in NewConns : sock' = c
    BY DEF Reconnect
  <1>2. sock' # 0 /\ \A g \in Gens : gen[g].conn # sock' /\ task[g].conn # sock'
    <2>1. mix.gens \in Nat
      BY <1>0, Bounds DEF Typed
    <2> QED BY <1>1, <2>1 DEF NewConns, Conns
  <1>3. base' = (IF last = NoCookie THEN BaseCookie ELSE last) /\ last' = base'
    BY DEF Reconnect
  <1>4. base' # NoCookie /\ base'.g \in {0, last.g} /\ last'.g \in {0, last.g}
    BY <1>3 DEF NoCookie, BaseCookie
  <1>5. WorldStays /\ OutCalm /\ GwCalm /\ TasksCalm /\ ReplayQuiet /\ \A g \in Gens : Debt(g)
    BY <1>0, LiveStays, GwSame, TasksSame DEF gwVars, taskVars, ReplayQuiet
  <1>6. UpQuiet
    <2>1. up' = <<Frame("sub")>> /\ Frame("sub").k = "sub" /\ Frame("sub").c.g = 0
      BY DEF Reconnect, Frame, NoCookie
    <2> QED BY <2>1 DEF UpQuiet
  <1>7. DownQuiet /\ DownFrom /\ CookieQuiet /\ LiveOK'
    BY <1>0 DEF DownQuiet, DownFrom, CookieQuiet, LiveOK, SInv, Rows
  <1>8. Outside'
    BY <1>0, <1>5, CalmOutside DEF SInv, GwCalm, DelivCalm
  <1>9. NamesQuiet
    <2>1. NamesDown' = NamesDown /\ NamesWork' = NamesWork
      BY <1>0 DEF NamesDown, NamesWork, workVars
    <2>2. NamesUp' \subseteq NamesUp \cup {0}
      BY <1>6 DEF UpQuiet, NamesUp
    <2>3. NamesHeld' \subseteq NamesHeld \cup {0}
      BY <1>0, <1>4 DEF NamesHeld, gwVars
    <2> QED BY <2>1, <2>2, <2>3 DEF NamesQuiet, Names
  <1>10. \A g \in Gens : ToServe(g)' => ToServe(g)
    BY <1>0 DEF ToServe, gwVars, taskVars
  <1>11. Rows'
    BY <1>0, <1>5, <1>7, <1>9, <1>10, CalmRows, CalmParts DEF SInv, GwCalm, workVars
  <1>12. SockOK'
    <2>1. ASSUME NEW g \in Gens
          PROVE  /\ task[g].at # "idle" => task[g].conn # 0 /\ task[g].cancelled
                 /\ task[g].at \in Waiting => task[g].at # "idle"
                 /\ gen[g].life \in Lives => gen[g].conn # 0
      BY <1>0, Connected DEF SInv, Streams, SockOK, Waiting
    <2>2. replay.c.g = 0 => replay.c = NoCookie
      BY DEF SInv, Streams, SockOK
    <2> QED BY <1>0, <1>2, <1>4, <2>1, <2>2 DEF SockOK, gwVars, taskVars
  <1>13. ASSUME NEW g \in Gens PROVE StreamOK(g)'
    BY <1>0, <1>2 DEF StreamOK, gwVars
  <1> QED BY <1>0, <1>8, <1>11, <1>12, <1>13 DEF SInv, Streams

-----------------------------------------------------------------------------
(* The client.                                                             *)

\* The Gateway's side does not move.
LEMMA GatewayIdle ==
    ASSUME SInv, Idle, UNCHANGED mix
    PROVE  /\ WorldStays /\ OutCalm /\ GwCalm /\ TasksCalm /\ ReplayQuiet /\ DelivCalm /\ \A g \in Gens : Debt(g)
           /\ UNCHANGED <<runs, sends, deliv, gen, head, snap, replay, sock, listed, base>>
  BY LiveStays, GwSame, TasksSame DEF Idle, gwVars, taskVars, workVars, sockVars, ReplayQuiet, DelivCalm

\* The client asks, or forgets.
LEMMA ClientStepKeeps ==
    ASSUME SInv, RInv', Idle, UNCHANGED <<mix, down>>, UpQuiet, CookieQuiet, LastQuiet, LiveOK', up' # <<>> => sock # 0
    PROVE  SInv'
  <1>1. CalmServers
    BY GatewayIdle DEF CalmServers
  <1>2. DownQuiet /\ (down' # <<>> \/ listed' => sock # 0)
    BY GatewayIdle, SameDown
  <1> QED BY <1>1, <1>2, GatewayIdle, CalmStep DEF CalmFrames, ClientQuiet

LEMMA AsksKeeps ==
    ASSUME SInv, RInv', UNCHANGED mix, RetrySubscription \/ ClientUnsubscribe \/ ExpireRetainedResumeState
    PROVE  SInv'
  <1>1. Idle /\ UNCHANGED down /\ CookieQuiet /\ LastQuiet
    BY DEF RetrySubscription, ClientUnsubscribe, ExpireRetainedResumeState, CookieQuiet, LastQuiet
  <1>2. LiveOK'
    BY DEF RetrySubscription, ClientUnsubscribe, ExpireRetainedResumeState, LiveOK, SInv, Rows
  <1>3. up' # <<>> => sock # 0
    BY Connected DEF RetrySubscription, ClientUnsubscribe, ExpireRetainedResumeState
  <1>4. UpQuiet
    <2>1. PICK k : k # "ack" /\ (up' = Append(up, Frame(k)) \/ UNCHANGED up)
      <3>1. "sub" # "ack" /\ "unsub" # "ack"
        OBVIOUS
      <3> QED BY <3>1 DEF RetrySubscription, ClientUnsubscribe, ExpireRetainedResumeState
    <2> QED BY <2>1, InvParts, PlainUp
  <1> QED BY <1>1, <1>2, <1>3, <1>4, ClientStepKeeps

\* The first frame is read: what the rest says of a connection stays in order.
LEMMA ReadStreams ==
    ASSUME SInv, Typed', UNCHANGED <<mix, gen, head, snap, sock>>, down # <<>>, down' = Tail(down), NEW g \in Gens,
           Serving(g) /\ gen[g].conn = sock /\ Received(g)' =>
              cookie'.g \in {0, g} /\ \A i \in DOMAIN down' : down'[i].k = "snap" => down'[i].c.g = g,
           \A t \in Nat : Serving(g) /\ gen[g].conn = sock /\ Had(g, t)' =>
              \/ Had(g, t) /\ (cookie'.g = g => t <= cookie'.target)
              \/ down[1].k = "snap" /\ down[1].c.g = g /\ t = down[1].c.target /\ (cookie'.g = g => t <= cookie'.target)
    PROVE  StreamOK(g)'
  <1>0. Typed /\ down \in Seq(Frames) /\ StreamOK(g)
    BY InvParts DEF Typed, FrameT
  <1>a. Serving(g)' /\ gen'[g].conn = sock' => Serving(g) /\ gen[g].conn = sock
    BY DEF Serving
  <1>1. SUFFICES ASSUME Serving(g)', gen'[g].conn = sock'
        PROVE  /\ \A t \in Nat : Had(g, t)' => /\ Ahead(g, t)'
                                               /\ cookie'.g = g => t <= cookie'.target
                                               /\ \A i \in DOMAIN down' : down'[i].k = "snap" /\ down'[i].c.g = g => t <= down'[i].c.target
               /\ \A i \in DOMAIN down' : down'[i].k = "snap" /\ down'[i].c.g = g =>
                    /\ Ahead(g, down[i].c.target)'
                    /\ \A j \in DOMAIN down' : i < j /\ down'[j].k = "snap" =>
                          down'[j].c.g = g /\ down'[i].c.target <= down'[j].c.target
    BY <1>a DEF StreamOK
  <1>2. Serving(g) /\ gen[g].conn = sock
    BY <1>1, <1>a
  <1>3. /\ 1 \in DOMAIN down
        /\ \A i \in DOMAIN down' : i \in Nat /\ i + 1 \in DOMAIN down /\ down'[i] = down[i + 1] /\ 1 < i + 1
    BY <1>0, Tailed
  <1>4. ASSUME NEW t, Ahead(g, t) PROVE Ahead(g, t)'
    BY <1>4 DEF Ahead, Staged
  <1>5. \A i \in DOMAIN down : down[i].k = "snap" /\ down[i].c.g = g =>
          /\ Ahead(g, down[i].c.target)
          /\ \A j \in DOMAIN down : i < j /\ down[j].k = "snap" => down[j].c.g = g /\ down[i].c.target <= down[j].c.target
    BY <1>0, <1>2 DEF StreamOK
  <1>6. ASSUME NEW t \in Nat, Had(g, t)'
        PROVE  /\ Ahead(g, t)'
               /\ cookie'.g = g => t <= cookie'.target
               /\ \A i \in DOMAIN down' : down'[i].k = "snap" /\ down'[i].c.g = g => t <= down'[i].c.target
    <2>1. CASE Had(g, t) /\ (cookie'.g = g => t <= cookie'.target)
      <3>1. Ahead(g, t) /\ \A i \in DOMAIN down : down[i].k = "snap" /\ down[i].c.g = g => t <= down[i].c.target
        BY <1>0, <1>2, <2>1 DEF StreamOK
      <3> QED BY <1>3, <1>4, <2>1, <3>1
    <2>2. CASE down[1].k = "snap" /\ down[1].c.g = g /\ t = down[1].c.target /\ (cookie'.g = g => t <= cookie'.target)
      <3>1. Ahead(g, t) /\ \A j \in DOMAIN down : 1 < j /\ down[j].k = "snap" => t <= down[j].c.target
        BY <1>3, <1>5, <2>2
      <3> QED BY <1>3, <1>4, <2>2, <3>1
    <2> QED BY <1>2, <1>6, <2>1, <2>2
  <1>7. ASSUME NEW i \in DOMAIN down', down'[i].k = "snap", down'[i].c.g = g
        PROVE  /\ Ahead(g, down[i].c.target)'
               /\ \A j \in DOMAIN down' : i < j /\ down'[j].k = "snap" =>
                     down'[j].c.g = g /\ down'[i].c.target <= down'[j].c.target
    <2>1. i \in Nat /\ i + 1 \in DOMAIN down /\ down'[i] = down[i + 1]
      BY <1>3
    <2>2. PICK t : t = down[i + 1].c.target
      OBVIOUS
    <2>3. Ahead(g, t)'
      BY <1>4, <1>5, <1>7, <2>1, <2>2
    <2>4. ASSUME NEW j \in DOMAIN down', i < j, down'[j].k = "snap"
          PROVE  down'[j].c.g = g /\ down'[i].c.target <= down'[j].c.target
      <3>1. j \in Nat /\ j + 1 \in DOMAIN down /\ down'[j] = down[j + 1] /\ i + 1 < j + 1
        BY <1>3, <2>1, <2>4
      <3> QED BY <1>5, <1>7, <2>1, <2>4, <3>1
    <2> QED BY <2>1, <2>2, <2>3, <2>4
  <1> QED BY <1>6, <1>7

\* The first frame is read.
LEMMA ReadDown ==
    ASSUME SInv, RInv', Idle, UNCHANGED mix, down # <<>>, down' = Tail(down), CookieOK', NamesQuiet, LiveOK',
           \A g \in Gens : StreamOK(g)'
    PROVE  SInv'
  <1>0. /\ RInv /\ Typed /\ Typed' /\ Gens' = Gens /\ down \in Seq(Frames) /\ sock # 0
        /\ UNCHANGED <<runs, sends, deliv, gen, head, snap, replay, sock, listed, base>>
    BY InvParts, SameBounds, Connected, GatewayIdle DEF RInv, Typed, FrameT
  <1>1. DownFrom
    BY <1>0, Tailed DEF DownFrom
  <1>2. Outside'
    BY <1>0, GatewayIdle, CalmOutside DEF SInv, GwCalm
  <1>3. \A g \in Gens : ToServe(g)' => ToServe(g)
    BY <1>0 DEF ToServe, Idle, taskVars
  <1>4. Rows'
    BY <1>0, <1>1, <1>3, GatewayIdle, CalmRows, CalmParts DEF SInv, GwCalm
  <1>5. SockOK'
    BY <1>0, GatewayIdle, SockKeeps, ReplayKeeps DEF SInv, Streams, GwCalm
  <1> QED BY <1>0, <1>2, <1>4, <1>5 DEF SInv, Streams

\* A frame that shows nothing.
LEMMA ReadQuietly ==
    ASSUME SInv, RInv', Idle, UNCHANGED mix, down # <<>>, down' = Tail(down), CookieQuiet, UpQuiet, LastQuiet, LiveOK'
    PROVE  SInv'
  <1>0. /\ RInv /\ Typed /\ Typed' /\ Gens' = Gens /\ 0 \notin Gens /\ down \in Seq(Frames)
        /\ UNCHANGED <<runs, sends, deliv, gen, head, snap, replay, sock, listed, base>>
    BY InvParts, SameBounds, Bounds, GatewayIdle DEF RInv, Typed, FrameT
  <1>1. CookieOK'
    BY <1>0, GatewayIdle, CookieKeeps, CalmParts DEF SInv, Rows, GwCalm
  <1>2. \A i \in DOMAIN down' : i \in Nat /\ i + 1 \in DOMAIN down /\ down'[i] = down[i + 1]
    BY <1>0, Tailed
  <1>3. NamesQuiet
    <2>1. NamesDown' \subseteq NamesDown
      BY <1>2 DEF NamesDown
    <2>2. NamesUp' \subseteq NamesUp \cup {0}
      BY DEF UpQuiet, NamesUp
    <2>3. NamesHeld' \subseteq NamesHeld \cup {0}
      BY <1>0 DEF NamesHeld, CookieQuiet, LastQuiet, NoCookie
    <2>4. NamesWork' = NamesWork
      BY <1>0 DEF NamesWork
    <2> QED BY <2>1, <2>2, <2>3, <2>4 DEF NamesQuiet, Names
  <1>4. ASSUME NEW g \in Gens PROVE StreamOK(g)'
    <2>0. g # 0
      BY <1>0
    <2>1. cookie'.g = g => cookie' = cookie
      BY <2>0 DEF CookieQuiet, NoCookie
    <2>2. \A i \in DOMAIN up' : AckOf(g, i)' => \E n \in DOMAIN up : AckOf(g, n) /\ up[n] = up'[i]
      BY DEF UpQuiet, AckOf
    <2>3. Received(g)' => Received(g)
      BY <1>0, <2>1, <2>2 DEF Received
    <2>4. ASSUME NEW t \in Nat, Had(g, t)' PROVE Had(g, t)
      BY <1>0, <2>1, <2>2, <2>4 DEF Had
    <2>5. StreamOK(g)
      BY InvParts
    <2>6. Serving(g) /\ gen[g].conn = sock /\ Received(g)' =>
             cookie'.g \in {0, g} /\ \A i \in DOMAIN down' : down'[i].k = "snap" => down'[i].c.g = g
      BY <1>2, <2>3, <2>5 DEF StreamOK, CookieQuiet, NoCookie
    <2>7. ASSUME NEW t \in Nat, Serving(g), gen[g].conn = sock, Had(g, t)'
          PROVE  Had(g, t) /\ (cookie'.g = g => t <= cookie'.target)
      BY <2>1, <2>4, <2>5, <2>7 DEF StreamOK
    <2> QED BY <1>0, <2>6, <2>7, ReadStreams
  <1> QED BY <1>1, <1>3, <1>4, ReadDown

\* The snapshot that the client shows and acknowledges.
LEMMA ShowKeeps ==
    ASSUME SInv, RInv', Idle, UNCHANGED mix, down # <<>>, down' = Tail(down), down[1].k = "snap", ShowSnapshot(down[1].c)
    PROVE  SInv'
  <1>0. /\ RInv /\ Typed /\ Typed' /\ Gens' = Gens /\ 0 \notin Gens /\ down \in Seq(Frames) /\ up \in Seq(Frames)
        /\ UNCHANGED <<runs, sends, deliv, gen, head, snap, replay, sock, listed, base>>
    BY InvParts, SameBounds, Bounds, GatewayIdle DEF RInv, Typed, FrameT
  <1>1. /\ 1 \in DOMAIN down
        /\ \A i \in DOMAIN down' : i \in Nat /\ i + 1 \in DOMAIN down /\ down'[i] = down[i + 1] /\ 1 < i + 1
    BY <1>0, Tailed
  <1>2. PICK m : m = down[1].c
    OBVIOUS
  <1>3. m.g \in Gens /\ m.target \in Nat /\ Good(m.g, m.rows, m.target)
    <2>1. down[1] \in Frames
      BY <1>0, <1>1
    <2> QED BY <1>1, <1>2, <2>1 DEF SInv, Rows, DownOK, Frames, Cookies
  <1>4. cookie' = m /\ ((cst' = "live" /\ shown' = m.rows) \/ UNCHANGED <<cst, shown, cookie>>) /\ last' \in {last, m}
    BY <1>2 DEF ShowSnapshot
  <1>5. CookieOK'
    <2>1. Good(m.g, m.rows, m.target)'
      BY <1>0, <1>3, GatewayIdle, GoodKeeps, CalmParts DEF GwCalm
    <2> QED BY <1>4, <2>1 DEF CookieOK
  <1>6. LiveOK'
    BY <1>0, <1>3, <1>4 DEF LiveOK, SInv, Rows
  <1>7. PICK e : e = [k |-> "ack", c |-> m]
    OBVIOUS
  <1>8. e.k = "ack" /\ e.c = m /\ up' = Append(up, e)
    BY <1>2, <1>7 DEF ShowSnapshot
  <1>9. \A i \in DOMAIN up' : (i \in DOMAIN up /\ up'[i] = up[i]) \/ up'[i] = e
    BY <1>0, <1>8, Appended
  <1>10. NamesQuiet
    <2>1. NamesDown' \subseteq NamesDown
      BY <1>1 DEF NamesDown
    <2>2. NamesUp' \subseteq NamesUp \cup NamesDown
      BY <1>1, <1>2, <1>8, <1>9 DEF NamesUp, NamesDown
    <2>3. NamesHeld' \subseteq NamesHeld \cup NamesDown
      BY <1>0, <1>1, <1>2, <1>4 DEF NamesHeld, NamesDown
    <2>4. NamesWork' = NamesWork
      BY <1>0 DEF NamesWork
    <2> QED BY <2>1, <2>2, <2>3, <2>4 DEF NamesQuiet, Names
  <1>11. ASSUME NEW g \in Gens PROVE StreamOK(g)'
    <2>1. StreamOK(g)
      BY InvParts
    <2>2. \A i \in DOMAIN up' : AckOf(g, i)' => (i \in DOMAIN up /\ AckOf(g, i) /\ up'[i] = up[i]) \/ (g = m.g /\ up'[i].c = m)
      BY <1>8, <1>9 DEF AckOf
    <2>3. ASSUME Serving(g), gen[g].conn = sock, g # m.g PROVE ~Received(g)
      BY <1>1, <1>2, <2>1, <2>3 DEF StreamOK
    <2>4. Serving(g) /\ gen[g].conn = sock /\ Received(g)' => g = m.g
      BY <1>0, <1>4, <2>2, <2>3 DEF Received
    <2>5. ASSUME Serving(g), gen[g].conn = sock, Received(g)'
          PROVE  cookie'.g \in {0, g} /\ \A i \in DOMAIN down' : down'[i].k = "snap" => down'[i].c.g = g
      BY <1>1, <1>2, <1>4, <2>1, <2>4, <2>5 DEF StreamOK
    <2>6. ASSUME NEW t \in Nat, Serving(g), gen[g].conn = sock, Had(g, t)'
          PROVE  \/ Had(g, t) /\ (cookie'.g = g => t <= cookie'.target)
                 \/ down[1].k = "snap" /\ down[1].c.g = g /\ t = down[1].c.target /\ (cookie'.g = g => t <= cookie'.target)
      <3>1. Had(g, t) \/ (g = m.g /\ t = m.target)
        BY <1>0, <1>4, <2>2, <2>6 DEF Had
      <3>2. CASE Had(g, t)
        BY <1>1, <1>2, <1>4, <2>1, <2>6, <3>2 DEF StreamOK
      <3>3. CASE g = m.g /\ t = m.target
        BY <1>2, <1>3, <1>4, <3>3
      <3> QED BY <3>1, <3>2, <3>3
    <2> QED BY <1>0, <2>5, <2>6, ReadStreams
  <1> QED BY <1>5, <1>6, <1>10, <1>11, ReadDown

LEMMA ReceiveKeeps ==
    ASSUME SInv, RInv', UNCHANGED mix, ClientReceive
    PROVE  SInv'
  <1>0. down # <<>> /\ down' = Tail(down) /\ Idle /\ Typed /\ down \in Seq(Frames)
    BY Receipts, InvParts DEF Typed, FrameT
  <1>1. CASE UNCHANGED <<clientVars, up>>
    BY <1>0, <1>1, ClientSame, SameUp, ReadQuietly DEF ClientQuiet
  <1>2. CASE Head(down).k = "snap" /\ ShowSnapshot(Head(down).c)
    <2>1. Head(down) = down[1]
      BY <1>0
    <2> QED BY <1>0, <1>2, <2>1, ShowKeeps
  <1>3. CASE (Reset("refetching") \/ Reset("error")) /\ (up' = Append(up, Frame("sub")) \/ UNCHANGED up)
    <2>1. CookieQuiet /\ LastQuiet /\ LiveOK'
      BY <1>3 DEF Reset, CookieQuiet, LastQuiet, LiveOK
    <2>2. UpQuiet
      <3>1. PICK k : k = "sub" /\ k # "ack"
        OBVIOUS
      <3> QED BY <1>0, <1>3, <3>1, PlainUp
    <2> QED BY <1>0, <2>1, <2>2, ReadQuietly
  <1> QED BY <1>1, <1>2, <1>3, Receipts

-----------------------------------------------------------------------------
(* Query runs and send attempts.                                           *)

\* A step of the materializer or of the delivery.
LEMMA WorkStep ==
    ASSUME SInv, RInv', UNCHANGED <<mix, liveVars, clientVars, taskVars, deliv, sock, base, up>>,
           \A g \in Gens : /\ Serves(g) /\ Stays(g)
                           /\ PartsOK(g)' /\ LeaseOK(g)' /\ SnapOK(g)' /\ StreamOK(g)',
           \A r \in runs' : RunOK(r)', \A x \in sends' : SendOK(x)', DownFrom \/ DownOK', NamesQuiet, ReplayQuiet,
           down' # <<>> \/ listed' => sock # 0
    PROVE  SInv'
  <1>0. RInv /\ Typed /\ Typed' /\ Gens' = Gens
    BY InvParts, SameBounds DEF RInv
  <1>1. WorldStays /\ OutCalm /\ TasksCalm /\ ClientQuiet /\ \A g \in Gens : Debt(g)
    BY LiveStays, TasksSame, ClientSame DEF taskVars
  <1>2. Outside'
    BY <1>0, <1>1, CalmOutside DEF SInv, DelivCalm
  <1>3. \A g \in Gens : ToServe(g)' => ToServe(g)
    BY DEF ToServe, Stays, taskVars
  <1>4. Rows'
    BY <1>0, <1>1, <1>3, RowsFrom DEF SInv, ClientQuiet
  <1>5. SockOK'
    BY <1>0, <1>1, Connected, SockKeeps, ReplayKeeps DEF SInv, Streams
  <1> QED BY <1>0, <1>2, <1>4, <1>5 DEF SInv, Streams

\* A run or an attempt goes on: the store is not touched.
LEMMA GoesOn ==
    ASSUME SInv, RInv', UNCHANGED <<mix, liveVars, clientVars, taskVars, deliv, gwVars, sockVars, up>>,
           \A r \in runs' : r \in runs \/ RunOK(r), \A x \in sends' : x \in sends \/ SendOK(x),
           DownQuiet \/ (DownOK' /\ \A g \in Gens : StreamOK(g)'), down' # <<>> => sock # 0,
           NamesWork' \subseteq NamesWork, NamesDown' \subseteq NamesDown \cup {0} \cup Actives
    PROVE  SInv'
  <1>0. /\ RInv /\ Typed /\ Typed' /\ mix' = mix /\ Gens' = Gens /\ RunRecs' = RunRecs /\ SendRecs' = SendRecs
        /\ Rows /\ UNCHANGED <<head, gen, snap, replay, sock, base, listed>>
    BY InvParts, SameBounds DEF RInv, SInv, gwVars, sockVars
  <1>1. WorldStays /\ GwCalm /\ \A g \in Gens : Debt(g)
    BY <1>0, LiveStays, GwSame
  <1>2. ASSUME NEW g \in Gens PROVE /\ Serves(g) /\ Leases(g) /\ Sends(g) /\ Calm(g) /\ Stays(g)
                                    /\ PartsOK(g)' /\ LeaseOK(g)' /\ SnapOK(g)'
    <2>1. Calm(g) /\ Stays(g) /\ PartsOK(g)' /\ Serves(g) /\ Leases(g) /\ Sends(g)
      BY <1>1, CalmParts DEF GwCalm
    <2>2. LeaseOK(g)' /\ SnapOK(g)'
      BY <1>0, <1>1, <2>1, LeaseKeeps, StagedKeeps DEF Rows
    <2> QED BY <2>1, <2>2
  <1>3. ASSUME NEW r \in runs' PROVE RunOK(r)'
    <2>1. r \in RunRecs /\ r.g \in Gens /\ RunOK(r)
      BY <1>0 DEF Typed, WorkT, RunRecs, Rows
    <2> QED BY <1>0, <1>1, <1>2, <2>1, RunKeeps
  <1>4. ASSUME NEW x \in sends' PROVE SendOK(x)'
    <2>1. x \in SendRecs /\ x.g \in Gens /\ SendOK(x)
      BY <1>0 DEF Typed, WorkT, SendRecs, Rows
    <2> QED BY <1>0, <1>2, <2>1, SendKeeps
  <1>5. ASSUME NEW g \in Gens PROVE StreamOK(g)'
    <2>1. CASE DownQuiet
      BY <1>0, <1>2, <2>1, InvParts, CalmStreams, ClientSame, SameUp DEF ClientQuiet
    <2> QED BY <2>1
  <1>6. DownFrom \/ DownOK'
    BY DEF DownQuiet, DownFrom
  <1>7. NamesQuiet
    <2>1. NamesHeld' = NamesHeld /\ NamesUp' = NamesUp
      BY <1>0 DEF NamesHeld, NamesUp, clientVars
    <2> QED BY <2>1 DEF NamesQuiet, Names
  <1> QED BY <1>0, <1>2, <1>3, <1>4, <1>5, <1>6, <1>7, Connected, WorkStep DEF ReplayQuiet

\* One generation's lease or snapshot changes.
LEMMA OneWork ==
    ASSUME SInv, RInv', UNCHANGED <<mix, liveVars, clientVars, taskVars, deliv, sockVars, up, down, head, replay>>,
           NEW g \in Gens, NEW p, gen' = [gen EXCEPT ![g] = p], NEW q, snap' = [snap EXCEPT ![g] = q],
           p.life = gen[g].life, p.cdb = gen[g].cdb, p.shard = gen[g].shard, p.conn = gen[g].conn,
           p.dirty = gen[g].dirty, p.delivered = gen[g].delivered, p.initial = gen[g].initial,
           PartsOK(g)', LeaseOK(g)', SnapOK(g)', \A t \in Nat : Ahead(g, t) => Ahead(g, t)',
           \A r \in runs' : (r \in runs /\ r.g # g) \/ RunOK(r)', \A x \in sends' : (x \in sends /\ x.g # g) \/ SendOK(x)',
           NamesWork' \subseteq NamesWork \cup Actives
    PROVE  SInv'
  <1>0. /\ RInv /\ Typed /\ Typed' /\ mix' = mix /\ Gens' = Gens /\ RunRecs' = RunRecs /\ SendRecs' = SendRecs
        /\ Rows /\ UNCHANGED <<sock, base, listed, cookie>> /\ gen \in [Gens -> GenRecs] /\ snap \in [Gens -> SnapRecs]
    BY InvParts, SameBounds DEF RInv, SInv, sockVars, clientVars, Typed, GwT
  <1>1. WorldStays /\ DownQuiet /\ CookieQuiet /\ \A h \in Gens : Debt(h)
    BY <1>0, LiveStays DEF DownQuiet, CookieQuiet
  <1>2. /\ gen'[g] = p /\ snap'[g] = q
        /\ \A h \in Gens \ {g} : gen'[h] = gen[h] /\ snap'[h] = snap[h]
    BY <1>0
  <1>3. Values(g)
    BY InvParts
  <1>4. Serves(g) /\ Stays(g)
    BY <1>2, <1>3 DEF Serves, Stays, Serving, Values
  <1>5. ASSUME NEW h \in Gens \ {g}
        PROVE  /\ Serves(h) /\ Leases(h) /\ Sends(h) /\ Calm(h) /\ Stays(h)
               /\ PartsOK(h)' /\ LeaseOK(h)' /\ SnapOK(h)'
    <2>1. Calm(h) /\ Stays(h) /\ PartsOK(h)' /\ Serves(h) /\ Leases(h) /\ Sends(h)
      BY <1>2, OneSame, CalmParts
    <2>2. LeaseOK(h)' /\ SnapOK(h)'
      BY <1>0, <1>1, <2>1, LeaseKeeps, StagedKeeps DEF Rows
    <2> QED BY <2>1, <2>2
  <1>6. ASSUME NEW r \in runs' PROVE RunOK(r)'
    <2>1. CASE r \in runs /\ r.g # g
      <3>1. r \in RunRecs /\ r.g \in Gens \ {g} /\ RunOK(r)
        BY <1>0, <2>1 DEF Typed, WorkT, RunRecs, Rows
      <3> QED BY <1>0, <1>1, <1>5, <3>1, RunKeeps
    <2> QED BY <2>1
  <1>7. ASSUME NEW x \in sends' PROVE SendOK(x)'
    <2>1. CASE x \in sends /\ x.g # g
      <3>1. x \in SendRecs /\ x.g \in Gens \ {g} /\ SendOK(x)
        BY <1>0, <2>1 DEF Typed, WorkT, SendRecs, Rows
      <3> QED BY <1>0, <1>5, <3>1, SendKeeps
    <2> QED BY <2>1
  <1>8. StreamOK(g)'
    <2>1. StreamOK(g) /\ g # 0 /\ down' \in Seq(Frames')
      BY <1>0, InvParts, Bounds DEF Typed, FrameT
    <2>2. (Received(g)' => Received(g)) /\ \A t \in Nat : Had(g, t)' => Had(g, t)
      BY <1>0, <1>2 DEF Received, Had, AckOf
    <2>3. Serving(g)' => Serving(g) /\ gen'[g].conn = gen[g].conn
      BY <1>4 DEF Serves
    <2> QED BY <1>0, <1>1, <2>1, <2>2, <2>3, StreamKeeps
  <1>9. ASSUME NEW h \in Gens \ {g} PROVE StreamOK(h)'
    BY <1>0, <1>1, <1>2, <1>5, InvParts, CalmStreams, SameUp
  <1>10. NamesQuiet
    <2>1. NamesDown' = NamesDown /\ NamesHeld' = NamesHeld /\ NamesUp' = NamesUp
      BY <1>0 DEF NamesDown, NamesHeld, NamesUp, clientVars
    <2> QED BY <2>1 DEF NamesQuiet, Names
  <1> QED BY <1>0, <1>1, <1>4, <1>5, <1>6, <1>7, <1>8, <1>9, <1>10, Connected, WorkStep DEF ReplayQuiet, DownQuiet, DownFrom

LEMMA RunMoves ==
    ASSUME SInv, RInv', UNCHANGED <<mix, liveVars, clientVars, taskVars, deliv, gwVars, sockVars, up, down, sends>>,
           NEW r \in runs, NEW n, runs' = (runs \ {r}) \cup {n}, n.g = r.g, RunOK(n)
    PROVE  SInv'
  <1>1. DownQuiet /\ NamesDown' = NamesDown /\ (down' # <<>> => sock # 0)
    BY Connected DEF DownQuiet, NamesDown
  <1>2. NamesWork' \subseteq NamesWork
    BY DEF NamesWork
  <1> QED BY <1>1, <1>2, GoesOn

LEMMA RunStepsKeep ==
    ASSUME SInv, RInv', UNCHANGED mix, NEW r \in runs, RunAuth(r) \/ RunQuery(r) \/ RunFresh(r)
    PROVE  SInv'
  <1>0. /\ Typed /\ r \in RunRecs /\ RunOK(r)
        /\ UNCHANGED <<liveVars, gwVars, taskVars, sends, deliv, sockVars, down, up, clientVars>>
    BY InvParts DEF Typed, WorkT, SInv, Rows, RunAuth, RunQuery, RunFresh
  <1>1. CASE RunAuth(r)
    <2>1. PICK n : n = [r EXCEPT !.at = "query", !.auth = epoch, !.see = Freshness(r.shard, epoch)]
      OBVIOUS
    <2>2. n.g = r.g /\ n.tok = r.tok /\ n.target = r.target /\ n.shard = r.shard /\ n.at = "query"
      BY <1>0, <2>1 DEF RunRecs
    <2>3. runs' = (runs \ {r}) \cup {n} /\ RunOK(n)
      BY <1>0, <1>1, <2>1, <2>2 DEF RunAuth, RunTo, RunOK
    <2> QED BY <1>0, <2>2, <2>3, RunMoves
  <1>2. CASE RunQuery(r)
    <2>1. PICK a : a = QueryAnswer(r.shard, r.g)
      OBVIOUS
    <2>2. a \in {"ok", "stale", "bad"} /\ (a = "ok" => Admits(r.shard))
      BY <2>1 DEF QueryAnswer
    <2>3. PICK n : n = [r EXCEPT !.at = a, !.rows = rows]
      OBVIOUS
    <2>4. n.g = r.g /\ n.tok = r.tok /\ n.target = r.target /\ n.shard = r.shard /\ n.at = a /\ n.rows = rows
      BY <1>0, <2>3 DEF RunRecs
    <2>5. runs' = (runs \ {r}) \cup {n}
      BY <1>2, <2>1, <2>3 DEF RunQuery, RunTo
    <2>6. RunOK(n)
      BY <1>0, <2>2, <2>4 DEF RunOK, RowsBad
    <2> QED BY <1>0, <2>4, <2>5, <2>6, RunMoves
  <1>3. CASE RunFresh(r)
    <2>1. PICK a : a = IF r.at = "ok" THEN "stage" ELSE "failed"
      OBVIOUS
    <2>2. PICK f : f = Freshness(r.shard, r.auth)
      OBVIOUS
    <2>3. f = "fresh" => granted
      BY <2>2 DEF Freshness
    <2>4. PICK n : n = [r EXCEPT !.at = a, !.see = f]
      OBVIOUS
    <2>5. /\ n.g = r.g /\ n.tok = r.tok /\ n.target = r.target /\ n.shard = r.shard /\ n.at = a /\ n.rows = r.rows
          /\ n.see = f
      BY <1>0, <2>4 DEF RunRecs
    <2>6. runs' = (runs \ {r}) \cup {n}
      BY <1>3, <2>1, <2>2, <2>4 DEF RunFresh, RunTo
    <2>7. RunOK(n)
      BY <1>0, <2>1, <2>3, <2>5 DEF RunOK
    <2> QED BY <1>0, <2>5, <2>6, <2>7, RunMoves
  <1> QED BY <1>1, <1>2, <1>3

\* The claim: the run answers for the version known now.
LEMMA RunClaimKeeps ==
    ASSUME SInv, RInv', UNCHANGED mix, NEW g \in Gens, RunClaim(g)
    PROVE  SInv'
  <1>0. /\ Typed /\ Values(g) /\ gen \in [Gens -> GenRecs] /\ snap \in [Gens -> SnapRecs]
        /\ Serving(g) /\ ~Staged(g)
        /\ UNCHANGED <<liveVars, taskVars, clean, sends, deliv, sockVars, down, up, clientVars>>
    BY InvParts DEF Typed, GwT, RunClaim, Due
  <1>1. PICK t \in Tokens \ ({gen[g].token} \cup RunsOf(g)) :
          /\ ClaimDirty(g, t)
          /\ runs' = runs \cup {[g |-> g, tok |-> t, target |-> gen[g].dirty, at |-> "auth",
                                 shard |-> gen[g].shard, auth |-> 0, see |-> "none", rows |-> 0]}
    BY DEF RunClaim
  <1>2. PICK n : n = [g |-> g, tok |-> t, target |-> gen[g].dirty, at |-> "auth",
                      shard |-> gen[g].shard, auth |-> 0, see |-> "none", rows |-> 0]
    OBVIOUS
  <1>3. PICK p : p = [gen[g] EXCEPT !.token = t, !.target = gen[g].dirty]
    OBVIOUS
  <1>4. PICK q : q = snap[g]
    OBVIOUS
  <1>5. /\ gen' = [gen EXCEPT ![g] = p] /\ snap' = [snap EXCEPT ![g] = q] /\ UNCHANGED <<head, replay, snap>>
        /\ runs' = runs \cup {n}
    BY <1>0, <1>1, <1>2, <1>3, <1>4 DEF ClaimDirty
  <1>6. /\ p.life = gen[g].life /\ p.cdb = gen[g].cdb /\ p.shard = gen[g].shard /\ p.conn = gen[g].conn
        /\ p.dirty = gen[g].dirty /\ p.delivered = gen[g].delivered /\ p.initial = gen[g].initial
        /\ p.token = t /\ p.target = gen[g].dirty
    <2>1. gen[g] \in GenRecs
      BY <1>0
    <2> QED BY <1>3, <2>1 DEF GenRecs
  <1>7. gen'[g] = p /\ t # 0
    BY <1>0, <1>1, <1>5 DEF Tokens
  <1>8. PartsOK(g)' /\ LeaseOK(g)' /\ SnapOK(g)'
    BY <1>0, <1>5, <1>6, <1>7 DEF PartsOK, LeaseOK, SnapOK, Staged, Serving, Values
  <1>9. ASSUME NEW u \in Nat, Ahead(g, u) PROVE Ahead(g, u)'
    BY <1>0, <1>5, <1>6, <1>7, <1>9 DEF Ahead, Staged
  <1>10. ASSUME NEW r \in runs', ~(r \in runs /\ r.g # g) PROVE RunOK(r)'
    <2>1. CASE r \in runs /\ r.g = g
      <3>1. r.tok # t
        BY <1>1, <2>1 DEF RunsOf
      <3> QED BY <1>6, <1>7, <2>1, <3>1 DEF RunOK, OwnsRun
    <2>2. CASE r = n
      <3>1. r.g = g /\ r.target = gen[g].dirty /\ r.shard = gen[g].shard /\ r.at = "auth"
        BY <1>2, <2>2
      <3> QED BY <1>6, <1>7, <3>1 DEF RunOK
    <2> QED BY <1>5, <1>10, <2>1, <2>2
  <1>11. ASSUME NEW x \in sends' PROVE (x \in sends /\ x.g # g) \/ SendOK(x)'
    BY <1>0, <1>5 DEF SendOK, OwnsSend, Staged
  <1>12. NamesWork' \subseteq NamesWork \cup Actives
    <2>1. n.g = g /\ sends' = sends /\ g \in Actives
      BY <1>0, <1>2 DEF Actives, Serving
    <2> QED BY <1>5, <2>1 DEF NamesWork
  <1> QED BY <1>0, <1>5, <1>6, <1>8, <1>9, <1>10, <1>11, <1>12, OneWork

\* What was read for the version of the lease is staged under that version.
LEMMA StagingKeeps ==
    ASSUME SInv, RInv', UNCHANGED <<mix, liveVars, clientVars, taskVars, clean, sends, deliv, sockVars, up, down>>,
           NEW r \in runs, r.at = "stage", r.see = "fresh", runs' = runs \ {r}, CanStage(r.g, r.tok, r.target),
           Stage(r.g, r.target, r.rows, r.auth)
    PROVE  SInv'
  <1>0. /\ Typed /\ Typed' /\ r \in RunRecs /\ RunOK(r) /\ gen \in [Gens -> GenRecs] /\ snap \in [Gens -> SnapRecs]
        /\ runs \subseteq RunRecs /\ sends \subseteq SendRecs
    BY InvParts DEF RInv, Typed, WorkT, GwT, SInv, Rows
  <1>1. PICK g \in Gens : g = r.g
    BY <1>0 DEF RunRecs
  <1>2. /\ Values(g) /\ Serving(g) /\ gen[g].token = r.tok /\ gen[g].target = r.target /\ ~Staged(g) /\ r.tok # 0
        /\ r.target \in Nat /\ gen[g].shard = r.shard /\ PartsOK(g) /\ LeaseOK(g)
    BY <1>0, <1>1, InvParts DEF CanStage, OwnsRun, RunRecs, Tokens, RunOK
  <1>3. PICK p : p = [gen[g] EXCEPT !.token = 0, !.target = 0, !.auth = r.auth]
    OBVIOUS
  <1>4. PICK q : q = [rows |-> r.rows, target |-> r.target, claim |-> 0]
    OBVIOUS
  <1>5. gen' = [gen EXCEPT ![g] = p] /\ snap' = [snap EXCEPT ![g] = q] /\ UNCHANGED <<head, replay>>
    BY <1>0, <1>1, <1>3, <1>4 DEF Stage
  <1>6. /\ p.life = gen[g].life /\ p.cdb = gen[g].cdb /\ p.shard = gen[g].shard /\ p.conn = gen[g].conn
        /\ p.dirty = gen[g].dirty /\ p.delivered = gen[g].delivered /\ p.initial = gen[g].initial
        /\ p.token = 0 /\ p.target = 0
    <2>1. gen[g] \in GenRecs
      BY <1>0
    <2> QED BY <1>3, <2>1 DEF GenRecs
  <1>7. gen'[g] = p /\ snap'[g] = q /\ q.rows = r.rows /\ q.target = r.target /\ q.claim = 0
    BY <1>0, <1>4, <1>5
  <1>8. Good(g, r.rows, r.target)
    <2>1. r.target <= gen[g].dirty
      BY <1>2 DEF LeaseOK
    <2>2. OwnsRun(r.g, r.tok)
      BY DEF CanStage
    <2>3. Bad(r.rows, gen[g].shard) => Owed(g, r.target)
      BY <1>0, <1>1, <1>2, <2>2 DEF RunOK, Bad
    <2> QED BY <2>1, <2>3 DEF Good
  <1>9. PartsOK(g)' /\ LeaseOK(g)'
    BY <1>2, <1>5, <1>6, <1>7 DEF PartsOK, LeaseOK, Staged, Serving, Values
  <1>10. SnapOK(g)'
    <2>1. WorldStays /\ Debt(g)
      BY <1>1, LiveStays
    <2>2. Serves(g)
      BY <1>2, <1>5, <1>6, <1>7 DEF Serves, Serving, Values
    <2>3. PICK v, t : v = r.rows /\ t = r.target
      OBVIOUS
    <2>4. Good(g, v, t)'
      BY <1>0, <1>2, <1>8, <2>1, <2>2, <2>3, GoodKeeps
    <2> QED BY <1>7, <2>3, <2>4 DEF SnapOK
  <1>11. ASSUME NEW u \in Nat, Ahead(g, u) PROVE Ahead(g, u)'
    BY <1>2, <1>5, <1>6, <1>7, <1>11 DEF Ahead, Staged
  <1>12. ASSUME NEW x \in runs', ~(x \in runs /\ x.g # g) PROVE RunOK(x)'
    <2>1. x \in RunRecs
      BY <1>0
    <2>2. x.g = g /\ x.tok # 0
      BY <1>12, <2>1 DEF RunRecs, Tokens
    <2> QED BY <1>6, <1>7, <2>2 DEF RunOK, OwnsRun
  <1>13. ASSUME NEW x \in sends', ~(x \in sends /\ x.g # g) PROVE SendOK(x)'
    <2>1. x \in SendRecs
      BY <1>0
    <2>2. x.g = g /\ x.tok # 0
      BY <1>13, <2>1 DEF SendRecs, Tokens
    <2> QED BY <1>7, <2>2 DEF SendOK, OwnsSend
  <1>14. NamesWork' \subseteq NamesWork \cup Actives
    BY DEF NamesWork
  <1> QED BY <1>1, <1>5, <1>6, <1>9, <1>10, <1>11, <1>12, <1>13, <1>14, OneWork

LEMMA RunSettleKeeps ==
    ASSUME SInv, RInv', UNCHANGED mix, NEW r \in runs, RunSettle(r) \/ RunFails(r)
    PROVE  SInv'
  <1>0. /\ Typed /\ r.g \in Gens /\ runs' = runs \ {r}
        /\ UNCHANGED <<liveVars, taskVars, clean, sends, deliv, sock, resume, base, up, clientVars>>
    BY InvParts DEF Typed, WorkT, RunRecs, RunSettle, RunFails, sockVars
  <1>1. TasksCalm /\ UpQuiet
    BY <1>0, TasksSame, SameUp DEF taskVars
  <1>2. CASE Retire(r.g) /\ OwnsRun(r.g, r.tok) /\ (UNCHANGED <<listed, down>> \/ \E k \in {"error", "refetch"} : SettleRetired(gen[r.g].conn, k))
    <2>1. GwCalm /\ ReplayQuiet
      BY <1>0, <1>2, RetireCalm DEF Retire, RetireKeeping, OwnsRun, Serving, ReplayQuiet
    <2>2. PICK k : k # "snap" /\ (UNCHANGED <<listed, down>> \/ SettleRetired(gen[r.g].conn, k))
      BY <1>2
    <2>3. DownQuiet /\ (down' # <<>> \/ listed' => sock # 0)
      BY <2>2, SettlesQuiet
    <2> QED BY <1>0, <1>1, <2>1, <2>3, GatewayStep
  <1>3. CASE UNCHANGED <<gwVars, listed, down>>
    <2>1. GwCalm /\ ReplayQuiet
      BY <1>3, GwSame DEF gwVars, ReplayQuiet
    <2> QED BY <1>0, <1>1, <1>3, <2>1, SameDown, GatewayStep
  <1>4. CASE FailRun(r.g, r.tok) /\ UNCHANGED <<listed, down>>
    <2>1. GwCalm /\ ReplayQuiet
      BY <1>0, <1>4, FailRunCalm DEF FailRun, ReplayQuiet
    <2> QED BY <1>0, <1>1, <1>4, <2>1, SameDown, GatewayStep
  <1>5. CASE /\ r.at = "stage" /\ r.see = "fresh" /\ CanStage(r.g, r.tok, r.target)
             /\ Stage(r.g, r.target, r.rows, r.auth) /\ UNCHANGED <<listed, down>>
    BY <1>0, <1>5, StagingKeeps DEF sockVars
  <1> QED BY <1>2, <1>3, <1>4, <1>5 DEF RunSettle, RunFails, RetireRun, StageRun, sockVars

LEMMA SendClaimKeeps ==
    ASSUME SInv, RInv', UNCHANGED mix, NEW g \in Gens, SendClaim(g)
    PROVE  SInv'
  <1>0. /\ Typed /\ Values(g) /\ PartsOK(g) /\ LeaseOK(g) /\ SnapOK(g) /\ Serving(g) /\ Staged(g)
        /\ gen \in [Gens -> GenRecs] /\ snap \in [Gens -> SnapRecs] /\ sends \subseteq SendRecs /\ runs \subseteq RunRecs
        /\ UNCHANGED <<liveVars, taskVars, clean, runs, deliv, sockVars, down, up, clientVars, head, gen, replay>>
    BY InvParts DEF Typed, GwT, WorkT, SendClaim, Claim
  <1>1. PICK t \in Tokens \ ({snap[g].claim} \cup SendsOf(g)) :
          /\ Claim(g, t)
          /\ sends' = sends \cup {[g |-> g, tok |-> t, target |-> snap[g].target,
                                   rows |-> snap[g].rows, shard |-> gen[g].shard,
                                   auth |-> gen[g].auth, see |-> "none"]}
    BY DEF SendClaim
  <1>2. PICK n : n = [g |-> g, tok |-> t, target |-> snap[g].target, rows |-> snap[g].rows, shard |-> gen[g].shard,
                      auth |-> gen[g].auth, see |-> "none"]
    OBVIOUS
  <1>3. PICK p : p = gen[g]
    OBVIOUS
  <1>4. PICK q : q = [snap[g] EXCEPT !.claim = t]
    OBVIOUS
  <1>5. gen' = [gen EXCEPT ![g] = p] /\ snap' = [snap EXCEPT ![g] = q] /\ sends' = sends \cup {n}
    BY <1>0, <1>1, <1>2, <1>3, <1>4 DEF Claim
  <1>6. gen'[g] = gen[g] /\ snap'[g] = q /\ q.rows = snap[g].rows /\ q.target = snap[g].target /\ q.claim = t
    <2>1. snap[g] \in SnapRecs
      BY <1>0
    <2> QED BY <1>0, <1>4, <1>5, <2>1 DEF SnapRecs
  <1>7. WorldStays /\ Debt(g)
    BY <1>0, LiveStays
  <1>8. Serves(g) /\ Leases(g)
    BY <1>0, <1>6 DEF Serves, Leases, Serving, Values
  <1>9. PartsOK(g)' /\ LeaseOK(g)'
    BY <1>0, <1>6 DEF PartsOK, LeaseOK, Staged, Serving
  <1>10. SnapOK(g)'
    <2>1. PICK v, u : v = snap[g].rows /\ u = snap[g].target
      OBVIOUS
    <2>2. Typed' /\ u \in Nat /\ Good(g, v, u)
      BY <1>0, <2>1 DEF RInv, Values, SnapOK
    <2>3. Good(g, v, u)'
      BY <1>0, <1>7, <1>8, <2>2, GoodKeeps
    <2> QED BY <1>6, <2>1, <2>3 DEF SnapOK
  <1>11. ASSUME NEW u \in Nat, Ahead(g, u) PROVE Ahead(g, u)'
    BY <1>6, <1>11 DEF Ahead, Staged
  <1>12. ASSUME NEW r \in runs', ~(r \in runs /\ r.g # g) PROVE RunOK(r)'
    <2>1. r \in runs /\ r \in RunRecs /\ r.g = g /\ Typed'
      BY <1>0, <1>12 DEF RInv
    <2> QED BY <1>0, <1>7, <1>8, <2>1, RunKeeps DEF SInv, Rows
  <1>13. ASSUME NEW x \in sends', ~(x \in sends /\ x.g # g) PROVE SendOK(x)'
    <2>1. CASE x \in sends /\ x.g = g
      <3>1. x.tok # t
        BY <1>1, <2>1 DEF SendsOf
      <3> QED BY <1>6, <2>1, <3>1 DEF SendOK, OwnsSend
    <2>2. CASE x = n
      <3>1. x.g = g /\ x.target = snap[g].target /\ x.rows = snap[g].rows
        BY <1>2, <2>2
      <3> QED BY <1>6, <3>1 DEF SendOK
    <2> QED BY <1>5, <1>13, <2>1, <2>2
  <1>14. NamesWork' \subseteq NamesWork \cup Actives
    <2>1. n.g = g /\ runs' = runs /\ g \in Actives
      BY <1>0, <1>2 DEF Actives, Serving
    <2> QED BY <1>5, <2>1 DEF NamesWork
  <1> QED BY <1>0, <1>3, <1>5, <1>9, <1>10, <1>11, <1>12, <1>13, <1>14, OneWork

LEMMA SendCheckKeeps ==
    ASSUME SInv, RInv', UNCHANGED mix, NEW x \in sends, SendCheck(x)
    PROVE  SInv'
  <1>1. PICK n : n = [x EXCEPT !.see = Freshness(x.shard, x.auth)]
    OBVIOUS
  <1>2. x \in SendRecs /\ SendOK(x)
    BY InvParts DEF Typed, WorkT, SInv, Rows
  <1>3. n.g = x.g /\ n.tok = x.tok /\ n.target = x.target /\ n.rows = x.rows
    BY <1>1, <1>2 DEF SendRecs
  <1>4. sends' = (sends \ {x}) \cup {n} /\ SendOK(n)
    BY <1>1, <1>2, <1>3 DEF SendCheck, SendOK
  <1>5. NamesWork' \subseteq NamesWork /\ NamesDown' = NamesDown /\ DownQuiet
    BY <1>3, <1>4 DEF NamesWork, NamesDown, DownQuiet, SendCheck
  <1> QED BY <1>4, <1>5, Connected, GoesOn DEF SendCheck

\* The frame of a snapshot leaves after those before it.
LEMMA SentKeeps ==
    ASSUME SInv, RInv', UNCHANGED <<mix, liveVars, clientVars, taskVars, deliv, gwVars, sockVars, up, runs>>,
           NEW x \in sends, sends' = sends \ {x}, OwnsSend(x.g, x.tok), sock = gen[x.g].conn, sock # 0,
           down' = Append(down, SnapshotFrame(x))
    PROVE  SInv'
  <1>0. /\ Typed /\ Typed' /\ mix' = mix /\ Gens' = Gens /\ x \in SendRecs /\ SendOK(x) /\ down \in Seq(Frames) /\ DownOK
        /\ UNCHANGED <<head, gen, snap, sock, cookie>>
    BY InvParts, SameBounds DEF RInv, Typed, WorkT, FrameT, SInv, Rows, gwVars, sockVars, clientVars
  <1>1. PICK g \in Gens : g = x.g
    BY <1>0 DEF SendRecs
  <1>2. /\ Values(g) /\ PartsOK(g) /\ SnapOK(g) /\ StreamOK(g) /\ Serving(g) /\ Staged(g) /\ head = g
        /\ x.target = snap[g].target /\ x.rows = snap[g].rows
    BY <1>0, <1>1, InvParts DEF OwnsSend, SendOK, Serving
  <1>3. PICK e : e = SnapshotFrame(x)
    OBVIOUS
  <1>4. e.k = "snap" /\ e.c.g = g /\ e.c.target = snap[g].target /\ e.c.rows = snap[g].rows
    BY <1>1, <1>2, <1>3 DEF SnapshotFrame
  <1>5. /\ \A i \in DOMAIN down' : (i \in DOMAIN down /\ down'[i] = down[i]) \/ (i = Len(down) + 1 /\ down'[i] = e)
        /\ \A i \in DOMAIN down : i < Len(down) + 1
    BY <1>0, <1>3, Appended
  <1>6. WorldStays /\ GwCalm /\ \A h \in Gens : Debt(h)
    BY <1>0, LiveStays, GwSame
  <1>7. DownOK'
    <2>1. ASSUME NEW i \in DOMAIN down', down'[i].k = "snap"
          PROVE  down'[i].c.g \in Gens /\ Good(down[i].c.g, down[i].c.rows, down[i].c.target)'
      <3>1. PICK m : m = down'[i].c
        OBVIOUS
      <3>2. m.g \in Gens /\ Good(m.g, m.rows, m.target)
        <4>1. CASE i \in DOMAIN down /\ down'[i] = down[i]
          BY <1>0, <2>1, <3>1, <4>1 DEF DownOK
        <4>2. CASE down'[i] = e
          BY <1>2, <1>4, <3>1, <4>2 DEF SnapOK
        <4> QED BY <1>5, <4>1, <4>2
      <3>3. m.target \in Nat
        <4>1. down'[i] \in Frames'
          BY <1>0 DEF Typed, FrameT
        <4> QED BY <3>1, <4>1 DEF Frames, Cookies
      <3>4. Good(m.g, m.rows, m.target)'
        BY <1>0, <1>6, <3>2, <3>3, GoodKeeps, CalmParts DEF GwCalm
      <3> QED BY <3>1, <3>2, <3>4
    <2> QED BY <1>0, <2>1 DEF DownOK
  <1>8. ASSUME NEW h \in Gens \ {g} PROVE StreamOK(h)'
    BY <1>0, <1>2 DEF StreamOK, Serving
  <1>9. Ahead(g, snap[g].target)
    <2>1. snap[g].target <= gen[g].dirty
      BY <1>2 DEF SnapOK, Good
    <2> QED BY <1>2, <2>1 DEF Ahead, PartsOK, Values
  <1>10. \A t \in Nat : (Ahead(g, t)' <=> Ahead(g, t)) /\ (Had(g, t)' <=> Had(g, t)) /\ (Ahead(g, t) => t <= snap[g].target)
    BY <1>0, <1>2 DEF Ahead, Staged, Had, AckOf
  <1>11. StreamOK(g)'
    <2>1. Received(g)' <=> Received(g)
      BY <1>0 DEF Received, AckOf
    <2>2. /\ Received(g) => cookie.g \in {0, g} /\ \A i \in DOMAIN down : down[i].k = "snap" => down[i].c.g = g
          /\ \A t \in Nat : Had(g, t) => /\ Ahead(g, t)
                                         /\ cookie.g = g => t <= cookie.target
                                         /\ \A i \in DOMAIN down : down[i].k = "snap" /\ down[i].c.g = g => t <= down[i].c.target
          /\ \A i \in DOMAIN down : down[i].k = "snap" /\ down[i].c.g = g =>
                /\ Ahead(g, down[i].c.target)
                /\ \A j \in DOMAIN down : i < j /\ down[j].k = "snap" => down[j].c.g = g /\ down[i].c.target <= down[j].c.target
      BY <1>1, <1>2 DEF StreamOK
    <2>3. Received(g)' => /\ cookie'.g \in {0, g}
                          /\ \A i \in DOMAIN down' : down'[i].k = "snap" => down'[i].c.g = g
      BY <1>0, <1>4, <1>5, <2>1, <2>2
    <2>4. ASSUME NEW t \in Nat, Had(g, t)'
          PROVE  /\ Ahead(g, t)'
                 /\ cookie'.g = g => t <= cookie'.target
                 /\ \A i \in DOMAIN down' : down'[i].k = "snap" /\ down'[i].c.g = g => t <= down'[i].c.target
      BY <1>0, <1>4, <1>5, <1>10, <2>2, <2>4
    <2>5. ASSUME NEW i \in DOMAIN down', down'[i].k = "snap", down'[i].c.g = g
          PROVE  /\ Ahead(g, down[i].c.target)'
                 /\ \A j \in DOMAIN down' : i < j /\ down'[j].k = "snap" =>
                       down'[j].c.g = g /\ down'[i].c.target <= down'[j].c.target
      <3>1. PICK t : t = down'[i].c.target
        OBVIOUS
      <3>2. t \in Nat
        <4>1. down'[i] \in Frames'
          BY <1>0 DEF Typed, FrameT
        <4> QED BY <3>1, <4>1 DEF Frames, Cookies
      <3>3. Ahead(g, t)
        BY <1>4, <1>5, <1>9, <2>2, <2>5, <3>1
      <3>4. Ahead(g, t)' /\ t <= snap[g].target
        BY <1>10, <3>2, <3>3
      <3>5. ASSUME NEW j \in DOMAIN down', i < j, down'[j].k = "snap"
            PROVE  down'[j].c.g = g /\ down'[i].c.target <= down'[j].c.target
        <4>1. CASE down'[j] = e
          BY <1>4, <3>1, <3>4, <4>1
        <4>2. CASE j \in DOMAIN down /\ down'[j] = down[j]
          <5>1. i \in DOMAIN down /\ down'[i] = down[i]
            BY <1>0, <1>5, <3>5, <4>2
          <5> QED BY <2>2, <2>5, <3>5, <4>2, <5>1
        <4> QED BY <1>5, <4>1, <4>2
      <3> QED BY <3>1, <3>4, <3>5
    <2> QED BY <2>3, <2>4, <2>5 DEF StreamOK
  <1>12. NamesDown' \subseteq NamesDown \cup {0} \cup Actives
    <2>1. g \in Actives
      BY <1>2 DEF Actives, Serving
    <2> QED BY <1>4, <1>5, <2>1 DEF NamesDown
  <1>13. NamesWork' \subseteq NamesWork
    BY DEF NamesWork
  <1> QED BY <1>7, <1>8, <1>11, <1>12, <1>13, GoesOn

LEMMA SendSettleKeeps ==
    ASSUME SInv, RInv', UNCHANGED mix, NEW x \in sends, SendSettle(x) \/ SendFails(x)
    PROVE  SInv'
  <1>0. /\ Typed /\ x.g \in Gens /\ sends' = sends \ {x}
        /\ UNCHANGED <<liveVars, taskVars, clean, runs, deliv, sock, resume, base, up, clientVars>>
    BY InvParts DEF Typed, WorkT, SendRecs, SendSettle, SendFails, sockVars
  <1>1. TasksCalm /\ UpQuiet
    BY <1>0, TasksSame, SameUp DEF taskVars
  <1>2. CASE Retire(x.g) /\ OwnsSend(x.g, x.tok) /\ (UNCHANGED <<listed, down>> \/ \E k \in {"error", "refetch"} : SettleRetired(gen[x.g].conn, k))
    <2>1. GwCalm /\ ReplayQuiet
      BY <1>0, <1>2, RetireCalm DEF Retire, RetireKeeping, OwnsSend, Serving, ReplayQuiet
    <2>2. PICK k : k # "snap" /\ (UNCHANGED <<listed, down>> \/ SettleRetired(gen[x.g].conn, k))
      BY <1>2
    <2>3. DownQuiet /\ (down' # <<>> \/ listed' => sock # 0)
      BY <2>2, SettlesQuiet
    <2> QED BY <1>0, <1>1, <2>1, <2>3, GatewayStep
  <1>3. CASE UNCHANGED <<gwVars, listed, down>>
    <2>1. GwCalm /\ ReplayQuiet
      BY <1>3, GwSame DEF gwVars, ReplayQuiet
    <2> QED BY <1>0, <1>1, <1>3, <2>1, SameDown, GatewayStep
  <1>4. CASE (FailSend(x.g, x.tok) \/ Discard(x.g, x.tok)) /\ UNCHANGED <<listed, down>>
    <2>1. GwCalm /\ ReplayQuiet
      BY <1>0, <1>4, SnapCalm DEF FailSend, Discard, ReplayQuiet
    <2> QED BY <1>0, <1>1, <1>4, <2>1, SameDown, GatewayStep
  <1>5. CASE /\ Ready(gen[x.g].conn) /\ OwnsSend(x.g, x.tok) /\ down' = Append(down, SnapshotFrame(x))
             /\ UNCHANGED <<gwVars, listed>>
    BY <1>0, <1>5, SentKeeps, Connected DEF Ready, sockVars
  <1> QED BY <1>2, <1>3, <1>4, <1>5 DEF SendSettle, SendFails, RetireSend, sockVars

\* The acknowledgement of what was sent: the client has had it.
LEMMA AcknowledgedKeeps ==
    ASSUME SInv, RInv', UNCHANGED <<mix, liveVars, taskVars, workVars, deliv, sock, listed, down, clientVars>>,
           up # <<>>, up' = Tail(up), up[1].k = "ack", NEW m, m = up[1].c, AckCounts(sock, m), AcknowledgeSnapshot(sock, m),
           base' = m
    PROVE  SInv'
  <1>0. /\ RInv /\ Typed /\ Typed' /\ mix' = mix /\ Gens' = Gens /\ 0 \notin Gens /\ up \in Seq(Frames) /\ sock # 0
        /\ gen \in [Gens -> GenRecs] /\ snap \in [Gens -> SnapRecs]
    BY InvParts, SameBounds, Bounds, Connected DEF RInv, Typed, FrameT, GwT
  <1>1. 1 \in DOMAIN up /\ \A i \in DOMAIN up' : i + 1 \in DOMAIN up /\ up'[i] = up[i + 1]
    BY <1>0, Tailed
  <1>2. PICK g \in Gens : g = m.g
    <2>1. up[1] \in Frames
      BY <1>0, <1>1
    <2> QED BY <1>0, <2>1, Bounds DEF AckCounts, Frames, Cookies, Gens, Typed
  <1>3. /\ Values(g) /\ PartsOK(g) /\ StreamOK(g) /\ Serving(g) /\ head = g /\ gen[g].conn = sock
    BY <1>2, InvParts DEF AckCounts, Serving
  <1>4. PICK p : p = [gen[g] EXCEPT !.delivered = m.target, !.initial = FALSE]
    OBVIOUS
  <1>5. /\ gen' = [gen EXCEPT ![g] = p] /\ snap' = [snap EXCEPT ![g] = NoSnap] /\ replay' = NoReplay /\ head' = head
    BY <1>0, <1>2, <1>4 DEF AcknowledgeSnapshot
  <1>6. /\ p.life = gen[g].life /\ p.cdb = gen[g].cdb /\ p.shard = gen[g].shard /\ p.conn = gen[g].conn
        /\ p.dirty = gen[g].dirty /\ p.delivered = m.target /\ p.initial = FALSE
        /\ p.token = gen[g].token /\ p.target = gen[g].target
    <2>1. gen[g] \in GenRecs
      BY <1>0
    <2> QED BY <1>4, <2>1 DEF GenRecs
  <1>7. /\ gen'[g] = p /\ snap'[g].rows = 0 /\ snap'[g].claim = 0
        /\ \A h \in Gens \ {g} : gen'[h] = gen[h] /\ snap'[h] = snap[h]
    BY <1>0, <1>5 DEF NoSnap
  <1>8. ASSUME NEW h \in Gens PROVE Serves(h) /\ Leases(h) /\ Sends(h) /\ Stays(h) /\ PartsOK(h)'
    <2>1. CASE h = g
      BY <1>3, <1>5, <1>6, <1>7, <2>1 DEF Serves, Leases, Sends, Stays, PartsOK, Serving, Staged, Values
    <2>2. CASE h # g
      BY <1>5, <1>7, <2>2, OneSame, CalmParts
    <2> QED BY <2>1, <2>2
  <1>9. WorldStays /\ OutCalm /\ TasksCalm /\ ClientQuiet /\ \A h \in Gens : Debt(h)
    BY LiveStays, TasksSame, ClientSame DEF taskVars
  <1>10. Outside'
    BY <1>0, <1>8, <1>9, CalmOutside DEF SInv, DelivCalm
  <1>11. NamesQuiet
    <2>1. NamesDown' = NamesDown /\ NamesWork' = NamesWork
      BY DEF NamesDown, NamesWork, workVars
    <2>2. NamesUp' \subseteq NamesUp
      BY <1>1 DEF NamesUp
    <2>3. NamesHeld' \subseteq NamesHeld \cup NamesUp \cup {0}
      BY <1>1, <1>5 DEF NamesHeld, NamesUp, NoReplay, NoCookie, clientVars
    <2> QED BY <2>1, <2>2, <2>3 DEF NamesQuiet, Names
  <1>12. \A h \in Gens : ToServe(h)' => ToServe(h)
    BY <1>8 DEF ToServe, Stays, taskVars
  <1>13. Rows'
    BY <1>0, <1>8, <1>9, <1>11, <1>12, CalmRows DEF SInv, workVars, DownFrom, ClientQuiet
  <1>14. SockOK'
    <2>1. m # NoCookie /\ m.g # 0
      BY <1>0, <1>2 DEF NoCookie
    <2>2. ASSUME NEW h \in Gens PROVE gen'[h].life \in Lives => gen'[h].conn # 0
      BY <1>8, <2>2 DEF SInv, Streams, SockOK, Stays
    <2> QED BY <1>0, <1>5, <2>1, <2>2 DEF SInv, Streams, SockOK, NoReplay, taskVars
  <1>15. ASSUME NEW h \in Gens PROVE StreamOK(h)'
    <2>1. CASE h = g
      <3>1. AckOf(g, 1)
        BY <1>2 DEF AckOf
      <3>2. Received(g)
        BY <1>1, <3>1 DEF Received
      <3>3. \A t \in Nat : Had(g, t)' => Had(g, t)
        BY <1>1, <1>6, <1>7, <3>1 DEF Had, AckOf, clientVars
      <3>4. \A t \in Nat : Ahead(g, t) => Ahead(g, t)'
        BY <1>6, <1>7 DEF Ahead, Staged
      <3>5. DownQuiet /\ CookieQuiet /\ down' \in Seq(Frames')
        BY <1>0, <1>9 DEF ClientQuiet, DownQuiet, Typed, FrameT
      <3> QED BY <1>0, <1>3, <2>1, <3>2, <3>3, <3>4, <3>5, StreamKeeps
    <2>2. CASE h # g
      BY <1>3, <1>5, <2>2 DEF StreamOK, Serving
    <2> QED BY <2>1, <2>2
  <1> QED BY <1>0, <1>10, <1>13, <1>14, <1>15 DEF SInv, Streams

LEMMA OnAckKeeps ==
    ASSUME SInv, RInv', UNCHANGED mix, OnAck
    PROVE  SInv'
  <1>0. /\ up # <<>> /\ up' = Tail(up) /\ Head(up).k = "ack" /\ Head(up) = up[1] /\ Typed
        /\ UNCHANGED <<liveVars, taskVars, workVars, deliv, sock, listed, resume, down, clientVars, faults>>
    <2>1. up \in Seq(Frames)
      BY InvParts DEF Typed, FrameT
    <2> QED BY <2>1, InvParts, Tailed DEF OnAck, Arrives
  <1>1. PICK m : m = up[1].c
    OBVIOUS
  <1>2. AcknowledgeSnapshot(sock, m) /\ base' = IF AckCounts(sock, m) THEN m ELSE base
    BY <1>0, <1>1 DEF OnAck
  <1>3. CASE AckCounts(sock, m)
    BY <1>0, <1>1, <1>2, <1>3, AcknowledgedKeeps
  <1>4. CASE ~AckCounts(sock, m)
    <2>1. UNCHANGED <<head, gen, snap, base>> /\ replay' \in {NoReplay, replay}
      BY <1>2, <1>4 DEF AcknowledgeSnapshot
    <2>2. GwCalm /\ ReplayQuiet /\ TasksCalm /\ UpQuiet
      BY <1>0, <2>1, GwSame, TasksSame, ReadUp DEF ReplayQuiet, taskVars
    <2> QED BY <1>0, <2>1, <2>2, SameDown, GatewayStep DEF workVars
  <1> QED BY <1>3, <1>4

-----------------------------------------------------------------------------
(* Changes of the data, of its place and of the authority over it.         *)

\* What a change leaves owed, and what it owes for what it makes bad.
Owes(g, t) ==
  /\ Owed(g, t) => Owed(g, t)'
  /\ \A v : RowsBad(v, gen[g].shard)' => RowsBad(v, gen[g].shard) \/ Owed(g, t)'
  /\ ~granted' => ~granted \/ ~Admits(gen[g].shard) \/ Owed(g, t)'

LEMMA OwedGood ==
    ASSUME UNCHANGED gwVars, NEW g, NEW v, NEW t, Good(g, v, t), Serving(g) /\ t <= gen[g].dirty => Owes(g, t)
    PROVE  Good(g, v, t)'
  <1>1. Serving(g)' => Serving(g)
    BY DEF Serving, gwVars
  <1>2. gen' = gen
    BY DEF gwVars
  <1> QED BY <1>1, <1>2 DEF Good, Bad, RowsBad, Owes

LEMMA OutsideStep ==
    ASSUME SInv, RInv', UNCHANGED <<mix, sub>>, GatewayStays, EpochOK', fenced = "gone" => fenced' = "gone",
           \A c \in Shards : clock'[c] >= clock[c], \A c \in Shards, g \in Gens : sub[c][g] # "active" => out'[c][g] = 0,
           \A g \in Gens, t \in Nat : Serving(g) /\ t <= gen[g].dirty => Owes(g, t)
    PROVE  SInv'
  <1>0. /\ RInv /\ Typed /\ Typed' /\ Gens' = Gens /\ Rows /\ Outside /\ Streams
        /\ UNCHANGED <<gwVars, head, gen, snap, replay, task, late, runs, sends, deliv, sock, listed, base, down, up,
                       cst, shown, cookie, last>>
    BY InvParts, SameBounds DEF RInv, SInv, GatewayStays, gwVars, taskVars, workVars, sockVars, clientVars
  <1>1. Outside'
    <2>1. PlaceOK'
      BY <1>0 DEF Outside, PlaceOK
    <2>2. ASSUME NEW g \in Gens PROVE ClockOK(g)'
      <3>1. ClockOK(g) /\ Values(g) /\ Values(g)' /\ task[g] \in TaskRecs
        BY <1>0, ValuesTyped, ValuesAfter DEF Outside, Typed, TaskT
      <3>2. task[g].shard \in Shards /\ task[g].seq \in Nat
        BY <3>1 DEF TaskRecs
      <3> QED BY <1>0, <3>1, <3>2 DEF ClockOK, Values
    <2>3. ASSUME NEW d \in deliv PROVE DelivG(d)'
      BY <1>0 DEF Outside, DelivG
    <2> QED BY <1>0, <2>1, <2>2, <2>3 DEF Outside
  <1>2. ASSUME NEW g \in Gens, NEW v, NEW t \in Nat, Good(g, v, t) PROVE Good(g, v, t)'
    BY <1>0, <1>2, OwedGood
  <1>3. ASSUME NEW g \in Gens PROVE NewOK(g)' /\ PartsOK(g)' /\ LeaseOK(g)' /\ SnapOK(g)'
    <2>1. NewOK(g) /\ PartsOK(g) /\ LeaseOK(g) /\ SnapOK(g) /\ Values(g)
      BY InvParts
    <2>2. NewOK(g)'
      BY <1>0, <2>1 DEF NewOK, ToServe, Names, NamesDown, NamesUp, NamesWork, NamesHeld
    <2>3. PartsOK(g)' /\ LeaseOK(g)'
      BY <1>0, <2>1 DEF PartsOK, LeaseOK, Staged, Serving
    <2>4. ASSUME Staged(g) PROVE SnapOK(g)'
      <3>1. PICK v, t : v = snap[g].rows /\ t = snap[g].target
        OBVIOUS
      <3>2. Good(g, v, t)'
        BY <1>2, <2>1, <2>4, <3>1 DEF SnapOK, Values
      <3> QED BY <1>0, <3>1, <3>2 DEF SnapOK
    <2>5. ~Staged(g) => SnapOK(g)'
      BY <1>0 DEF SnapOK, Staged
    <2> QED BY <2>2, <2>3, <2>4, <2>5
  <1>4. ASSUME NEW r \in runs PROVE RunOK(r)'
    <2>1. r.g \in Gens /\ RunOK(r) /\ Values(r.g)
      BY <1>0, InvParts DEF Typed, WorkT, RunRecs, Rows
    <2>2. PICK g, t, c, v : g = r.g /\ t = r.target /\ c = r.shard /\ v = r.rows
      OBVIOUS
    <2>3. SUFFICES ASSUME OwnsRun(g, r.tok)
          PROVE  /\ t = gen[g].target /\ c = gen[g].shard
                 /\ r.at \in {"ok", "stage"} /\ RowsBad(v, c)' => Owed(g, t)'
                 /\ r.at = "stage" /\ r.see = "fresh" /\ ~granted' => Owed(g, t)'
      BY <1>0, <2>2 DEF RunOK, OwnsRun, Serving
    <2>4. /\ g \in Gens /\ t = gen[g].target /\ c = gen[g].shard
          /\ r.at \in {"ok", "stage"} /\ RowsBad(v, c) => Owed(g, t)
          /\ r.at = "stage" /\ r.see = "fresh" /\ ~granted => Owed(g, t)
      BY <2>1, <2>2, <2>3 DEF RunOK
    <2>5. t \in Nat /\ Serving(g) /\ t <= gen[g].dirty
      BY <2>3, <2>4, InvParts DEF Values, OwnsRun, LeaseOK
    <2>6. Owes(g, t)
      BY <2>4, <2>5
    <2>7. gen' = gen
      BY <1>0 DEF gwVars
    <2>8. RowsBad(v, c)' => RowsBad(v, c) \/ Owed(g, t)'
      BY <2>4, <2>6, <2>7 DEF Owes, RowsBad, Admits
    <2>10. ~granted' => ~granted \/ RowsBad(v, c) \/ Owed(g, t)'
      BY <2>4, <2>6 DEF Owes, RowsBad
    <2>9. Owed(g, t) => Owed(g, t)'
      BY <2>6 DEF Owes
    <2> QED BY <2>4, <2>8, <2>9, <2>10
  <1>5. ASSUME NEW x \in sends PROVE SendOK(x)'
    BY <1>0 DEF Rows, SendOK, OwnsSend, Serving, Staged
  <1>6. DownOK'
    <2>1. ASSUME NEW i \in DOMAIN down, down[i].k = "snap"
          PROVE  down[i].c.g \in Gens /\ Good(down[i].c.g, down[i].c.rows, down[i].c.target)'
      <3>1. PICK m : m = down[i].c
        OBVIOUS
      <3>2. down[i] \in Frames
        BY <1>0 DEF Typed, FrameT
      <3>3. m.g \in Gens /\ m.target \in Nat /\ Good(m.g, m.rows, m.target)
        BY <1>0, <2>1, <3>1, <3>2 DEF Rows, DownOK, Frames, Cookies
      <3>4. Good(m.g, m.rows, m.target)'
        BY <1>2, <3>3
      <3> QED BY <1>0, <3>1, <3>3, <3>4
    <2> QED BY <1>0, <2>1 DEF DownOK
  <1>7. CookieOK'
    <2>1. PICK m : m = cookie
      OBVIOUS
    <2>2. m.target \in Nat /\ (m.g \in Gens => Good(m.g, m.rows, m.target))
      BY <1>0, <2>1 DEF Typed, ClientT, Cookies, Rows, CookieOK
    <2>3. m.g \in Gens => Good(m.g, m.rows, m.target)'
      BY <1>2, <2>2
    <2> QED BY <1>0, <2>1, <2>3 DEF CookieOK
  <1>8. Rows'
    BY <1>0, <1>3, <1>4, <1>5, <1>6, <1>7 DEF Rows, LiveOK
  <1>9. SockOK'
    BY <1>0 DEF Streams, SockOK
  <1>10. ASSUME NEW g \in Gens PROVE StreamOK(g)'
    <2>1. StreamOK(g)
      BY <1>0 DEF Streams
    <2>2. Received(g)' <=> Received(g)
      BY <1>0 DEF Received, AckOf
    <2>3. \A t : (Had(g, t)' <=> Had(g, t)) /\ (Ahead(g, t)' <=> Ahead(g, t))
      BY <1>0 DEF Had, AckOf, Ahead, Staged
    <2> QED BY <1>0, <2>1, <2>2, <2>3 DEF StreamOK, Serving
  <1> QED BY <1>0, <1>1, <1>8, <1>9, <1>10 DEF SInv, Streams

\* An entry of the outbox, and the one for a serving generation.
LEMMA EnqueueFacts ==
    ASSUME SInv, UNCHANGED mix, NEW c \in Shards, Enqueue(c, Active(c)) \/ EnqueueIfAny(c, Active(c))
    PROVE  /\ \A x \in Shards : clock'[x] >= clock[x]
           /\ \A x \in Shards, g \in Gens : out'[x][g] >= out[x][g]
           /\ \A x \in Shards, g \in Gens : sub[x][g] # "active" => out'[x][g] = 0
           /\ \A g \in Active(c) : out'[c][g] = clock[c] + 1
  <1>0. /\ clock \in [Shards -> Nat] /\ out \in [Shards -> [Gens -> Nat]]
        /\ \A x \in Shards, g \in Gens : out[x][g] <= clock[x] /\ (sub[x][g] # "active" => out[x][g] = 0)
    BY DEF SInv, RInv, Typed, CdbT, OutOK, Outside, ClockOK
  <1>1. CASE UNCHANGED <<clock, out>> /\ Active(c) = {}
    BY <1>0, <1>1
  <1>2. CASE Enqueue(c, Active(c))
    <2>1. PICK q : q = Enqueued(c, Active(c))
      OBVIOUS
    <2>2. clock' = [clock EXCEPT ![c] = clock[c] + 1] /\ out' = [out EXCEPT ![c] = q]
      BY <1>2, <2>1 DEF Enqueue
    <2>3. \A g \in Gens : /\ sub[c][g] = "active" => q[g] = clock[c] + 1
                          /\ sub[c][g] # "active" => q[g] = out[c][g]
      BY <2>1 DEF Enqueued, Active
    <2>4. \A x \in Shards, g \in Gens : out'[x][g] = IF x = c THEN q[g] ELSE out[x][g]
      BY <1>0, <2>2
    <2>5. \A g \in Gens : q[g] >= out[c][g] /\ (sub[c][g] # "active" => q[g] = 0)
      BY <1>0, <2>3
    <2>6. \A x \in Shards, g \in Gens : out'[x][g] >= out[x][g]
      BY <1>0, <2>4, <2>5
    <2>7. \A x \in Shards, g \in Gens : sub[x][g] # "active" => out'[x][g] = 0
      BY <1>0, <2>4, <2>5
    <2>8. \A x \in Shards : clock'[x] >= clock[x]
      BY <1>0, <2>2
    <2> QED BY <2>3, <2>4, <2>6, <2>7, <2>8 DEF Active
  <1> QED BY <1>1, <1>2 DEF EnqueueIfAny

LEMMA ServingParts ==
    ASSUME SInv, NEW g \in Gens, Serving(g)
    PROVE  /\ gen[g].shard \in Shards /\ gen[g].dirty \in Nat /\ g \in Active(gen[g].shard)
           /\ clock[gen[g].shard] \in Nat /\ gen[g].dirty <= clock[gen[g].shard]
           /\ gen[g].shard = Dest => fenced = "gone"
  <1>1. Values(g) /\ RegOK(g) /\ ClockOK(g) /\ PlaceOK
    BY InvParts DEF SInv, RInv, Registered, Outside
  <1>2. gen[g].life = "active" /\ sub[gen[g].shard][g] = "active"
    BY <1>1 DEF Serving, RegOK, ActiveOK
  <1> QED BY <1>1, <1>2 DEF Values, ClockOK, PlaceOK, Lives, Active

LEMMA EnqueueOwes ==
    ASSUME SInv, UNCHANGED <<mix, gen>>, NEW g \in Gens, Serving(g), NEW t \in Nat, t <= gen[g].dirty,
           NEW c \in Shards, c = gen[g].shard, Enqueue(c, Active(c)) \/ EnqueueIfAny(c, Active(c))
    PROVE  Owed(g, t)'
  <1>1. g \in Active(c) /\ clock[c] \in Nat /\ gen[g].dirty \in Nat /\ gen[g].dirty <= clock[c]
    BY ServingParts
  <1>2. out'[c][g] = clock[c] + 1
    BY <1>1, EnqueueFacts
  <1>3. out'[c][g] > t
    BY <1>1, <1>2
  <1> QED BY <1>3 DEF Owed

\* An entry of the outbox takes no debt away.
LEMMA OwedGrows ==
    ASSUME SInv, NEW g \in Gens, Serving(g), NEW t \in Nat, gen' = gen, Owed(g, t),
           AuthPending(gen[g].shard) => AuthPending(gen[g].shard)',
           out' \in [Shards -> [Gens -> Nat]], \A x \in Shards, h \in Gens : out'[x][h] >= out[x][h]
    PROVE  Owed(g, t)'
  <1>1. PICK c : c = gen[g].shard
    OBVIOUS
  <1>2. c \in Shards /\ out[c][g] \in Nat /\ out'[c][g] \in Nat /\ out'[c][g] >= out[c][g]
    BY <1>1, ServingParts DEF SInv, RInv, Typed, CdbT
  <1>3. AuthPending(c) => AuthPending(c)'
    BY <1>1
  <1> QED BY <1>1, <1>2, <1>3 DEF Owed

LEMMA DataKeeps ==
    ASSUME SInv, RInv', UNCHANGED mix, DoMutate \/ DoFence \/ DoCancelFence \/ DoCutover
    PROVE  SInv'
  <1>0. /\ GatewayStays /\ UNCHANGED <<gen, sub, authSeen, epoch, granted, authTo, authCall>>
        /\ Gens' = Gens /\ out' \in [Shards -> [Gens -> Nat]]
    <2>1. GatewayStays /\ UNCHANGED <<sub, authSeen, epoch, granted, authTo, authCall>>
      BY DEF DoMutate, DoFence, DoCancelFence, DoCutover, Mutate, ActivateRoutingFence, CancelRoutingFence, CutoverRoute,
             gatewayVars, GatewayStays, catalogVars
    <2> QED BY <2>1, SameBounds DEF RInv, Typed, CdbT, GatewayStays, gwVars
  <1>1. EpochOK' /\ PlaceOK
    BY <1>0 DEF SInv, Outside, EpochOK
  <1>2. \A c : AuthPending(c)' <=> AuthPending(c)
    BY <1>0 DEF AuthPending
  <1>3. \A c \in Shards : clock[c] \in Nat /\ \A g \in Gens : out[c][g] \in Nat /\ (sub[c][g] # "active" => out[c][g] = 0)
    BY DEF SInv, RInv, Typed, CdbT, Outside, ClockOK
  <1>4. CASE DoMutate
    <2>1. /\ Route \in Shards /\ Enqueue(Route, Active(Route)) /\ fenced' = fenced
      BY <1>4 DEF DoMutate, Mutate, Route, Shards
    <2>2. /\ \A x \in Shards : clock'[x] >= clock[x]
          /\ \A x \in Shards, g \in Gens : out'[x][g] >= out[x][g]
          /\ \A x \in Shards, g \in Gens : sub[x][g] # "active" => out'[x][g] = 0
      BY <2>1, EnqueueFacts
    <2>3. ASSUME NEW g \in Gens, NEW t \in Nat, Serving(g), t <= gen[g].dirty PROVE Owes(g, t)
      <3>1. Owed(g, t) => Owed(g, t)'
        BY <1>0, <1>2, <2>2, <2>3, OwedGrows
      <3>2. CASE gen[g].shard = Route
        <4>1. Owed(g, t)'
          BY <1>0, <2>1, <2>3, <3>2, EnqueueOwes
        <4> QED BY <4>1 DEF Owes
      <3>3. CASE gen[g].shard # Route
        <4>1. gen[g].shard = Source /\ fenced = "gone"
          BY <2>3, <3>3, ServingParts DEF Route, Shards, Source, Dest
        <4>2. ~Admits(gen[g].shard)
          BY <4>1 DEF Admits, Source, Dest
        <4> QED BY <1>0, <3>1, <4>2 DEF Owes, RowsBad
      <3> QED BY <3>2, <3>3
    <2> QED BY <1>0, <1>1, <2>1, <2>2, <2>3, OutsideStep
  <1>5. CASE DoFence
    <2>1. EnqueueIfAny(Source, Active(Source)) /\ fenced' = "closed" /\ fenced = "open" /\ rows' = rows /\ Source \in Shards
      BY <1>5 DEF DoFence, ActivateRoutingFence, Shards
    <2>2. /\ \A x \in Shards : clock'[x] >= clock[x]
          /\ \A x \in Shards, g \in Gens : out'[x][g] >= out[x][g]
          /\ \A x \in Shards, g \in Gens : sub[x][g] # "active" => out'[x][g] = 0
      BY <2>1, EnqueueFacts
    <2>3. ASSUME NEW g \in Gens, NEW t \in Nat, Serving(g), t <= gen[g].dirty PROVE Owes(g, t)
      <3>1. Owed(g, t) => Owed(g, t)'
        BY <1>0, <1>2, <2>2, <2>3, OwedGrows
      <3>2. gen[g].shard = Source
        BY <2>1, <2>3, ServingParts DEF Shards
      <3>3. Owed(g, t)'
        BY <1>0, <2>1, <2>3, <3>2, EnqueueOwes
      <3> QED BY <3>3 DEF Owes
    <2> QED BY <1>0, <1>1, <2>1, <2>2, <2>3, OutsideStep
  <1>6. CASE DoCancelFence \/ DoCutover
    <2>1. UNCHANGED <<rows, clock, out>> /\ fenced = "closed" /\ fenced' \in {"open", "gone"}
      BY <1>6 DEF DoCancelFence, DoCutover, CancelRoutingFence, CutoverRoute
    <2>2. \A c : Admits(c) => Admits(c)'
      BY <2>1 DEF Admits
    <2>3. ASSUME NEW g \in Gens, NEW t \in Nat, Serving(g), t <= gen[g].dirty PROVE Owes(g, t)
      <3>1. Owed(g, t) => Owed(g, t)'
        BY <1>0, <1>2, <1>3, <2>1, <2>3, OwedGrows
      <3> QED BY <1>0, <2>1, <2>2, <3>1 DEF Owes, RowsBad
    <2> QED BY <1>0, <1>1, <1>3, <2>1, <2>3, OutsideStep
  <1> QED BY <1>4, <1>5, <1>6

\* A change of the authority over the rows, in order of what it touches.
LEMMA RevokeKeeps ==
    ASSUME SInv, RInv', UNCHANGED mix, DoMutateAuth
    PROVE  SInv'
  <1>0. /\ GatewayStays /\ UNCHANGED <<gen, sub, rows, clock, out, fenced, authSeen, authCall>> /\ granted
        /\ Gens' = Gens /\ out' \in [Shards -> [Gens -> Nat]]
    <2>1. GatewayStays /\ UNCHANGED <<sub, rows, clock, out, fenced, authSeen, authCall>> /\ granted
      BY DEF DoMutateAuth, MutateAuth, gatewayVars, GatewayStays
    <2> QED BY <2>1, SameBounds DEF RInv, Typed, CdbT, GatewayStays, gwVars
  <1>1. PICK targets \in AuthTargets :
          epoch' = epoch + 1 /\ authTo' = [c \in Shards |-> IF c \in targets THEN epoch + 1 ELSE authTo[c]]
    BY DEF DoMutateAuth, MutateAuth
  <1>2. targets \in {{Route}, Shards}
    BY <1>1 DEF AuthTargets
  <1>3. /\ epoch \in Nat
        /\ \A c \in Shards : /\ authTo[c] \in Nat /\ authSeen[c] \in Nat /\ authCall[c].epoch \in Nat
                             /\ authSeen[c] <= epoch /\ authTo[c] <= epoch /\ authCall[c].epoch <= epoch
    BY DEF SInv, RInv, Typed, AuthT, Outside, EpochOK
  <1>4. EpochOK'
    BY <1>0, <1>1, <1>3 DEF EpochOK
  <1>5. \A c \in Shards : c \in targets => AuthPending(c)'
    BY <1>0, <1>1, <1>3 DEF AuthPending
  <1>6. \A c \in Shards : AuthPending(c) => AuthPending(c)'
    <2>1. ASSUME NEW c \in Shards, c \notin targets, AuthPending(c) PROVE AuthPending(c)'
      BY <1>0, <1>1, <2>1 DEF AuthPending
    <2> QED BY <1>5, <2>1
  <1>7. \A c \in Shards : clock[c] \in Nat /\ \A g \in Gens : out[c][g] \in Nat /\ (sub[c][g] # "active" => out[c][g] = 0)
    BY DEF SInv, RInv, Typed, CdbT, Outside, ClockOK
  <1>8. ASSUME NEW g \in Gens, NEW t \in Nat, Serving(g), t <= gen[g].dirty PROVE Owes(g, t)
    <2>0. PICK c : c = gen[g].shard
      OBVIOUS
    <2>1. c \in Shards /\ (c = Dest => fenced = "gone")
      BY <1>8, <2>0, ServingParts
    <2>2. AuthPending(gen[g].shard) => AuthPending(gen[g].shard)'
      BY <1>0, <1>6, <2>0, <2>1
    <2>3. Owed(g, t) => Owed(g, t)'
      BY <1>0, <1>7, <1>8, <2>2, OwedGrows
    <2>4. CASE c \in targets
      <3>1. Owed(g, t)'
        BY <1>0, <1>5, <2>0, <2>1, <2>4 DEF Owed
      <3> QED BY <3>1 DEF Owes
    <2>5. CASE c \notin targets
      <3>1. targets = {Route} /\ c # Route
        BY <1>2, <2>1, <2>5
      <3>2. c = Source /\ fenced = "gone"
        BY <2>1, <3>1 DEF Route, Shards, Source, Dest
      <3>3. ~Admits(gen[g].shard)
        BY <2>0, <3>2 DEF Admits, Source, Dest
      <3>4. \A v : RowsBad(v, gen[g].shard)' => RowsBad(v, gen[g].shard)
        BY <3>3 DEF RowsBad
      <3> QED BY <2>3, <3>3, <3>4 DEF Owes
    <2> QED BY <2>4, <2>5
  <1> QED BY <1>0, <1>4, <1>7, <1>8, OutsideStep

\* A step of the Catalog's deliveries that keeps what serving generations wait for.
LEMMA TellingKeeps ==
    ASSUME SInv, RInv', UNCHANGED <<mix, sub, rows, fenced, granted>>, GatewayStays, EpochOK',
           \A x \in Shards : clock'[x] >= clock[x],
           \A x \in Shards, g \in Gens : out'[x][g] >= out[x][g] /\ (sub[x][g] # "active" => out'[x][g] = 0),
           \A g \in Gens, t \in Nat : Serving(g) /\ t <= gen[g].dirty /\ AuthPending(gen[g].shard) =>
              AuthPending(gen[g].shard)' \/ Owed(g, t)'
    PROVE  SInv'
  <1>0. gen' = gen /\ out' \in [Shards -> [Gens -> Nat]]
    BY SameBounds DEF RInv, Typed, CdbT, GatewayStays, gwVars
  <1>1. ASSUME NEW g \in Gens, NEW t \in Nat, Serving(g), t <= gen[g].dirty PROVE Owes(g, t)
    <2>1. Owed(g, t) => Owed(g, t)'
      <3>1. CASE Owed(g, t)'
        BY <3>1
      <3>2. CASE ~Owed(g, t)'
        BY <1>0, <1>1, <3>2, OwedGrows
      <3> QED BY <3>1, <3>2
    <2> QED BY <1>0, <2>1 DEF Owes, RowsBad, Admits
  <1> QED BY <1>1, OutsideStep

LEMMA AuthKeeps ==
    ASSUME SInv, RInv', UNCHANGED mix, NEW c \in Shards, DoAuthStep(c) \/ DoDeferAuth(c) \/ DoPruneAuth(c)
    PROVE  SInv'
  <1>0. /\ GatewayStays /\ UNCHANGED <<gen, sub, rows, fenced, epoch, granted>> /\ Gens' = Gens
        /\ authTo' \in [Shards -> Nat] /\ authSeen' \in [Shards -> Nat]
    <2>1. GatewayStays /\ UNCHANGED <<sub, rows, fenced, epoch, granted>>
      BY DEF DoAuthStep, DoDeferAuth, DoPruneAuth, SendAuthInvalidation, InvalidateAuthScope,
             CompleteAuthTarget, DeferAuthTarget, PruneInactiveScopes, gatewayVars, GatewayStays, catalogVars
    <2> QED BY <2>1, SameBounds DEF RInv, Typed, AuthT, GatewayStays, gwVars
  <1>1. /\ epoch \in Nat /\ authTo \in [Shards -> Nat] /\ authSeen \in [Shards -> Nat]
        /\ authCall \in [Shards -> [at : {"none", "sent", "answered"}, epoch : Nat]]
        /\ \A x \in Shards : authSeen[x] <= epoch /\ authTo[x] <= epoch /\ authCall[x].epoch <= epoch
    BY DEF SInv, RInv, Typed, AuthT, Outside, EpochOK
  <1>2. \A x \in Shards : clock[x] \in Nat /\ \A g \in Gens : out[x][g] \in Nat /\ (sub[x][g] # "active" => out[x][g] = 0)
    BY DEF SInv, RInv, Typed, CdbT, Outside, ClockOK
  <1>3. CASE SendAuthInvalidation(c)
    <2>1. /\ UNCHANGED <<clock, out, authSeen, authTo>>
          /\ authCall' = [authCall EXCEPT ![c] = [at |-> "sent", epoch |-> authTo[c]]]
      BY <1>3 DEF SendAuthInvalidation
    <2>2. EpochOK'
      BY <1>0, <1>1, <2>1 DEF EpochOK
    <2>3. \A x \in Shards : AuthPending(x) => AuthPending(x)'
      BY <1>1, <2>1 DEF AuthPending
    <2>4. \A g \in Gens : Serving(g) /\ AuthPending(gen[g].shard) => AuthPending(gen[g].shard)'
      BY <1>0, <2>3, ServingParts
    <2> QED BY <1>0, <1>2, <2>1, <2>2, <2>4, TellingKeeps
  <1>4. CASE InvalidateAuthScope(c) /\ authSeen[c] >= authCall[c].epoch
    <2>1. /\ UNCHANGED <<clock, out, authSeen, authTo>>
          /\ authCall' = [authCall EXCEPT ![c].at = "answered"]
      BY <1>4 DEF InvalidateAuthScope
    <2>2. /\ authCall'[c].epoch = authCall[c].epoch /\ \A x \in Shards \ {c} : authCall'[x] = authCall[x]
      BY <1>1, <2>1
    <2>3. EpochOK'
      BY <1>0, <1>1, <2>1, <2>2 DEF EpochOK
    <2>4. \A x \in Shards : AuthPending(x) => AuthPending(x)'
      BY <1>1, <1>4, <2>1, <2>2 DEF AuthPending
    <2>5. \A g \in Gens : Serving(g) /\ AuthPending(gen[g].shard) => AuthPending(gen[g].shard)'
      BY <1>0, <2>4, ServingParts
    <2> QED BY <1>0, <1>2, <2>1, <2>3, <2>5, TellingKeeps
  <1>5. CASE InvalidateAuthScope(c) /\ ~(authSeen[c] >= authCall[c].epoch)
    <2>1. /\ EnqueueIfAny(c, Active(c)) /\ authTo' = authTo
          /\ authSeen' = [authSeen EXCEPT ![c] = authCall[c].epoch]
          /\ authCall' = [authCall EXCEPT ![c].at = "answered"]
      BY <1>5 DEF InvalidateAuthScope
    <2>2. /\ authCall'[c].epoch = authCall[c].epoch /\ authSeen'[c] = authCall[c].epoch
          /\ \A x \in Shards \ {c} : authCall'[x] = authCall[x] /\ authSeen'[x] = authSeen[x]
      BY <1>1, <2>1
    <2>3. EpochOK'
      BY <1>0, <1>1, <2>1, <2>2 DEF EpochOK
    <2>4. \A x \in Shards \ {c} : AuthPending(x) => AuthPending(x)'
      BY <2>1, <2>2 DEF AuthPending
    <2>5. ASSUME NEW g \in Gens, NEW t \in Nat, Serving(g), t <= gen[g].dirty, AuthPending(gen[g].shard)
          PROVE  AuthPending(gen[g].shard)' \/ Owed(g, t)'
      <3>1. CASE gen[g].shard = c
        BY <1>0, <2>1, <2>5, <3>1, EnqueueOwes
      <3>2. CASE gen[g].shard # c
        BY <1>0, <2>4, <2>5, <3>2, ServingParts
      <3> QED BY <3>1, <3>2
    <2>6. /\ \A x \in Shards : clock'[x] >= clock[x]
          /\ \A x \in Shards, g \in Gens : out'[x][g] >= out[x][g]
          /\ \A x \in Shards, g \in Gens : sub[x][g] # "active" => out'[x][g] = 0
      BY <2>1, EnqueueFacts
    <2> QED BY <1>0, <2>3, <2>5, <2>6, TellingKeeps
  <1>6. CASE CompleteAuthTarget(c)
    <2>1. /\ UNCHANGED <<clock, out, authSeen>> /\ authCall[c].at = "answered"
          /\ authTo' = [authTo EXCEPT ![c] = IF @ = authCall[c].epoch THEN 0 ELSE @]
          /\ authCall' = [authCall EXCEPT ![c] = NoCall]
      BY <1>6 DEF CompleteAuthTarget
    <2>2. /\ authTo'[c] \in {0, authTo[c]} /\ authCall'[c] = NoCall
          /\ authTo[c] # authCall[c].epoch => authTo'[c] = authTo[c]
          /\ \A x \in Shards \ {c} : authCall'[x] = authCall[x] /\ authTo'[x] = authTo[x]
      BY <1>1, <2>1
    <2>3. EpochOK'
      BY <1>0, <1>1, <2>1, <2>2 DEF EpochOK, NoCall
    <2>4. \A x \in Shards : AuthPending(x) => AuthPending(x)'
      BY <2>1, <2>2 DEF AuthPending, NoCall
    <2>5. \A g \in Gens : Serving(g) /\ AuthPending(gen[g].shard) => AuthPending(gen[g].shard)'
      BY <1>0, <2>4, ServingParts
    <2> QED BY <1>0, <1>2, <2>1, <2>3, <2>5, TellingKeeps
  <1>7. CASE DeferAuthTarget(c)
    <2>1. /\ UNCHANGED <<clock, out, authSeen, authTo>> /\ authCall' = [authCall EXCEPT ![c] = NoCall]
      BY <1>7 DEF DeferAuthTarget
    <2>2. EpochOK'
      BY <1>0, <1>1, <2>1 DEF EpochOK, NoCall
    <2>3. \A x \in Shards : AuthPending(x) => AuthPending(x)'
      BY <1>1, <2>1 DEF AuthPending, NoCall
    <2>4. \A g \in Gens : Serving(g) /\ AuthPending(gen[g].shard) => AuthPending(gen[g].shard)'
      BY <1>0, <2>3, ServingParts
    <2> QED BY <1>0, <1>2, <2>1, <2>2, <2>4, TellingKeeps
  <1>8. CASE PruneInactiveScopes(c)
    <2>1. /\ UNCHANGED <<clock, out, authTo, authCall>> /\ Active(c) = {} /\ authSeen' = [authSeen EXCEPT ![c] = 0]
      BY <1>8 DEF PruneInactiveScopes, catalogVars
    <2>2. EpochOK'
      BY <1>0, <1>1, <2>1 DEF EpochOK
    <2>3. \A x \in Shards \ {c} : AuthPending(x) => AuthPending(x)'
      BY <1>1, <2>1 DEF AuthPending
    <2>4. \A g \in Gens : Serving(g) /\ AuthPending(gen[g].shard) => AuthPending(gen[g].shard)'
      BY <1>0, <2>1, <2>3, ServingParts
    <2> QED BY <1>0, <1>2, <2>1, <2>2, <2>4, TellingKeeps
  <1> QED BY <1>3, <1>4, <1>5, <1>6, <1>7, <1>8 DEF DoAuthStep, DoDeferAuth, DoPruneAuth

-----------------------------------------------------------------------------
(* The invariant holds at first, and every step keeps it.                  *)

LEMMA InitSInv ==
    ASSUME Init
    PROVE  SInv
  <1>0. /\ head = 0 /\ gen = [g \in Gens |-> NoGen] /\ snap = [g \in Gens |-> NoSnap] /\ replay = NoReplay
        /\ task = [g \in Gens |-> IdleTask] /\ runs = {} /\ sends = {} /\ deliv = {} /\ sock = 1 /\ base = BaseCookie
        /\ down = <<>> /\ cst = "pending" /\ cookie = NoCookie
        /\ out = [c \in Shards |-> [g \in Gens |-> 0]]
        /\ epoch = 0 /\ authTo = [c \in Shards |-> 0] /\ authSeen = [c \in Shards |-> 0]
        /\ authCall = [c \in Shards |-> NoCall]
    BY DEF Init, LiveInit, GwInit
  <1>1. RInv /\ 0 \notin Gens
    BY InitInv, Bounds DEF RInv, Typed
  <1>2. Outside
    <2>1. EpochOK
      BY <1>0 DEF EpochOK, NoCall
    <2>2. PlaceOK /\ \A g \in Gens : ClockOK(g)
      BY <1>0 DEF PlaceOK, ClockOK, NoGen, IdleTask, Lives, Source, Dest
    <2> QED BY <1>0, <2>1, <2>2 DEF Outside
  <1>3. Rows
    <2>1. \A g \in Gens : ~ToServe(g) /\ ~Staged(g) /\ ~Serving(g) /\ PartsOK(g)
      BY <1>0, <1>1 DEF ToServe, Early, Staged, Serving, PartsOK, NoGen, NoSnap, IdleTask
    <2>2. DownOK /\ CookieOK /\ LiveOK
      BY <1>0, <1>1 DEF DownOK, CookieOK, LiveOK, NoCookie
    <2> QED BY <1>0, <2>1, <2>2 DEF Rows, NewOK, LeaseOK, SnapOK
  <1>4. Streams
    <2>1. SockOK
      BY <1>0 DEF SockOK, IdleTask, NoGen, Waiting, Lives, BaseCookie, NoCookie, NoReplay
    <2>2. \A g \in Gens : ~Serving(g)
      BY <1>0, <1>1 DEF Serving
    <2> QED BY <2>1, <2>2 DEF Streams, StreamOK
  <1> QED BY <1>1, <1>2, <1>3, <1>4 DEF SInv

LEMMA StutterKeeps ==
    ASSUME SInv, RInv', UNCHANGED vars
    PROVE  SInv'
  <1>0. UNCHANGED <<mix, liveVars, gwVars, taskVars, workVars, deliv, sockVars, down, up, clientVars>>
    BY DEF vars, state
  <1>1. UNCHANGED <<mix, sub, rows, clock, out, fenced, authSeen, epoch, granted, authTo, authCall>> /\ GatewayStays
    BY <1>0 DEF liveVars, catalogVars, GatewayStays
  <1>2. EpochOK'
    BY <1>1 DEF SInv, Outside, EpochOK
  <1>3. \A c \in Shards : clock[c] \in Nat /\ \A g \in Gens : out[c][g] \in Nat /\ (sub[c][g] # "active" => out[c][g] = 0)
    BY DEF SInv, RInv, Typed, CdbT, Outside, ClockOK
  <1>4. gen' = gen /\ \A c : AuthPending(c) => AuthPending(c)'
    BY <1>0, <1>1 DEF AuthPending, gwVars
  <1>5. \A g \in Gens : Serving(g) /\ AuthPending(gen[g].shard) => AuthPending(gen[g].shard)'
    BY <1>4
  <1> QED BY <1>1, <1>2, <1>3, <1>5, TellingKeeps

LEMMA StepKeepsSInv ==
    ASSUME SInv, [Next]_vars
    PROVE  SInv'
  <1>0. RInv'
    BY StepKeepsInv DEF SInv
  <1>1. CASE Next
    <2>1. UNCHANGED mix
      BY <1>1 DEF Next
    <2>2. CASE DoMutate \/ DoFence \/ DoCancelFence \/ DoCutover
      BY <1>0, <2>1, <2>2, DataKeeps
    <2>3. CASE DoMutateAuth \/ \E c \in Shards : DoAuthStep(c) \/ DoDeferAuth(c) \/ DoPruneAuth(c)
      BY <1>0, <2>1, <2>3, RevokeKeeps, AuthKeeps
    <2>4. CASE OnSub \/ OnUnsub \/ OnAck
      BY <1>0, <2>1, <2>4, OnSubKeeps, OnUnsubKeeps, OnAckKeeps
    <2>5. CASE ClientReceive \/ Reconnect \/ RetrySubscription \/ ClientUnsubscribe \/ ExpireRetainedResumeState
      BY <1>0, <2>1, <2>5, ReceiveKeeps, ReconnectKeeps, AsksKeeps
    <2>6. CASE CleanupGatewaySocket \/ Restart
      BY <1>0, <2>1, <2>6, CloseKeeps
    <2>7. ASSUME NEW g \in Gens, SubStep(g) \/ SubCallFails(g) \/ Recover(g) PROVE SInv'
      <3>1. CASE Dequeue(g) \/ SubAuth(g) \/ SubInstall(g) \/ SubSend(g)
        BY <1>0, <2>1, <3>1, DequeueKeeps, SubAuthKeeps, SubInstallKeeps, SubSendKeeps
      <3>2. CASE CdbSubscribe(g) \/ SubAnswer(g) \/ SubCallFails(g) \/ Recover(g)
        BY <1>0, <2>1, <3>2, CdbSubscribeKeeps, SubAnswerKeeps, CallFailsKeeps, RecoverKeeps
      <3> QED BY <2>7, <3>1, <3>2 DEF SubStep
    <2>8. ASSUME NEW g \in Gens, CleanStep(g) \/ CleanFails(g) PROVE SInv'
      BY <1>0, <2>1, <2>8, CleanKeeps
    <2>9. ASSUME NEW g \in Gens, RunAbandoned(g) \/ RunClaim(g) \/ SendClaim(g) \/ ReconcileAbandoned(g) PROVE SInv'
      BY <1>0, <2>1, <2>9, AbandonedKeeps, RunClaimKeeps, SendClaimKeeps
    <2>10. CASE \E l \in late : CdbSubscribeLate(l)
      BY <1>0, <2>1, <2>10, LateSubscribeKeeps
    <2>11. CASE \/ \E c \in Shards, g \in Gens : SendInvalidation(c, g)
                \/ \E d \in deliv : DelivStep(d) \/ InvalidationFails(d)
      BY <1>0, <2>1, <2>11, DelivKeepsInv
    <2>12. CASE \E r \in runs : RunStep(r) \/ RunFails(r)
      BY <1>0, <2>1, <2>12, RunStepsKeep, RunSettleKeeps DEF RunStep
    <2>13. CASE \E x \in sends : SendStep(x) \/ SendFails(x)
      BY <1>0, <2>1, <2>13, SendCheckKeeps, SendSettleKeeps DEF SendStep
    <2> QED BY <1>1, <2>2, <2>3, <2>4, <2>5, <2>6, <2>7, <2>8, <2>9, <2>10, <2>11, <2>12, <2>13 DEF Next
  <1>2. CASE UNCHANGED vars
    BY <1>0, <1>2, StutterKeeps
  <1> QED BY <1>1, <1>2

\* A live client that shows rows which have changed, or that it may no longer
\* see, is owed a refresh: an auth epoch, an entry of the Cdb's outbox, a dirty
\* version or the first snapshot (enqueueInvalidations, invalidateAuthScope,
\* acknowledgeInvalidations, stageGatewaySnapshot, acknowledgeGatewaySnapshot).
THEOREM StaleHolds == Spec => []StaleIsOwed
  <1>1. ASSUME SInv PROVE StaleIsOwed
    <2>1. SUFFICES ASSUME NEW g \in Gens, NEW c, c = gen[g].shard, Serving(g), Ready(gen[g].conn),
                          cst = "live", shown # rows \/ ~granted, ~gen[g].initial
                   PROVE  authTo[c] > authSeen[c] \/ out[c][g] # 0 \/ gen[g].dirty > gen[g].delivered
      BY DEF StaleIsOwed
    <2>2. StreamOK(g) /\ LiveOK /\ CookieOK /\ Values(g) /\ cookie \in Cookies
      BY <1>1, InvParts DEF SInv, Streams, Rows, RInv, Typed, ClientT
    <2>3. Received(g) /\ gen[g].conn = sock
      BY <2>1 DEF Received, Ready
    <2>4. cookie.g = g /\ shown = cookie.rows
      BY <2>1, <2>2, <2>3 DEF StreamOK, LiveOK
    <2>5. Owed(g, cookie.target)
      BY <2>1, <2>2, <2>4 DEF CookieOK, Good, Bad, RowsBad
    <2>6. gen[g].delivered <= cookie.target /\ gen[g].delivered \in Nat /\ cookie.target \in Nat
      <3>1. gen[g].delivered \in Nat /\ cookie.target \in Nat
        BY <2>2 DEF Values, Cookies
      <3>2. Had(g, gen[g].delivered)
        BY DEF Had
      <3> QED BY <2>1, <2>2, <2>3, <2>4, <3>1, <3>2 DEF StreamOK
    <2>7. gen[g].dirty \in Nat /\ out[c][g] \in Nat
      BY <2>1, <2>2 DEF Values
    <2> QED BY <2>1, <2>5, <2>6, <2>7 DEF Owed, AuthPending
  <1>2. SInv /\ [Next]_vars => SInv'
    BY StepKeepsSInv
  <1> QED BY <1>1, <1>2, InitSInv, PTL DEF Spec
=============================================================================
