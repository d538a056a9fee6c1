--------------------------- MODULE ResourcesProofs ---------------------------
(***************************************************************************)
(* The safety theorems of the components of Resources, for the             *)
(* specification the runs check.  The invariants of the files, their       *)
(* movement, the schema and the clients are proved in modules of their     *)
(* own, the one of an organization's deletion here; a step of another      *)
(* component is one in whose behaviour the component has no state at all.  *)
(*                                                                         *)
(* The deletion reaches the shard that owns the organization, for every    *)
(* number of organizations, movements and failures: it is complete only    *)
(* after a shard that owned the organization fenced it; ownership is with  *)
(* the shard of the Catalog's route or, during a handoff, with nobody; and *)
(* what the source fenced is on the destination before the route moves.    *)
(***************************************************************************)
EXTENDS Resources, TLAPS

-----------------------------------------------------------------------------
(* Every behaviour belongs to one component.                               *)

\* A step keeps the mix, and is one of the component whose mix it is.
LEMMA StepOfPart ==
    ASSUME [Next]_<<mix, s>>
    PROVE  /\ mix' = mix
           /\ mix.part = "org_deletion" => [O!Next]_<<mix, s>>
           /\ mix.part = "schema" => [M!Next]_<<mix, s>>
           /\ mix.part = "files" => [F!Next]_<<mix, s>>
           /\ mix.part = "file_reshard" => [G!Next]_<<mix, s>>
           /\ mix.part = "rust_client" => [C!Next]_<<mix, s>>
           /\ mix.part = "web_client" => [W!Next]_<<mix, s>>
  BY DEF Next, V!Next, R!Next, F!Next, G!Next, O!Next, C!Next, W!Next, M!Next, H!Next,
         V!On, R!On, F!On, G!On, O!On, C!On, W!On, M!On, H!On

\* An initial state is one of the component whose mix it is.
LEMMA InitOfPart ==
    ASSUME Init
    PROVE  /\ mix.part = "org_deletion" => O!Init
           /\ mix.part = "schema" => M!Init
           /\ mix.part = "files" => F!Init
           /\ mix.part = "file_reshard" => G!Init
           /\ mix.part = "rust_client" => C!Init
           /\ mix.part = "web_client" => W!Init
  BY PartsAssumption DEF Init, V!Init, R!Init, F!Init, G!Init, O!Init, C!Init, W!Init, M!Init, H!Init

-----------------------------------------------------------------------------
(* The deletion of an organization.                                        *)

OrgPairs == O!Orgs \X O!Shards
OrgPhases == {"none", "copy", "caught_up", "fenced", "converged", "cut_over", "draining", "aborted"}
OrgTurns == {O!Idle} \cup [at : {"sending"}, todo : SUBSET OrgPairs, ok : SUBSET OrgPairs, all : SUBSET OrgPairs]
OrgRequests == {O!Idle} \cup [at : {"write"}, o : O!Orgs, h : O!Shards]
OrgQuestions ==
  {O!Idle} \cup [at : {"read"}, o : O!Orgs, done : BOOLEAN, shard : O!Shards, retried : BOOLEAN]
         \cup [at : {"compare"}, o : O!Orgs, done : BOOLEAN, shard : O!Shards, retried : BOOLEAN,
               found : {"refused", "yes", "no"}]
OrgBarriers == {O!Unbarred} \cup [at : {"active"}, watermark : Nat]

OrgStates ==
  [auth : [O!Orgs -> {"live", "gone"}], del : [O!Orgs -> {"none", "pending", "complete"}], order : Seq(O!Orgs),
   hand : [O!Orgs -> [O!Shards -> {"none", "pending", "complete"}]], legacy : BOOLEAN,
   route : O!Shards, owner : {0} \cup O!Shards, tomb : [O!Shards -> SUBSET O!Orgs], data : [O!Shards -> SUBSET O!Orgs],
   phase : OrgPhases, moves : 0..mix.moves, barrier : OrgBarriers, captured : BOOLEAN,
   turn : OrgTurns, req : OrgRequests, ask : OrgQuestions, broken : BOOLEAN, faults : Nat, late : SUBSET O!Orgs]

\* Where the range is in each phase of a movement: owned by the shard the
\* Catalog routes it to, or by nobody between the fence and the activation.
OrgPlaced ==
  /\ s.phase # "none" => s.moves > 0
  /\ s.phase \in {"copy", "caught_up", "fenced", "converged", "aborted"} => s.route = O!From
  /\ s.phase \in {"none", "cut_over", "draining"} => s.route = O!To
  /\ s.owner = IF s.phase \in {"fenced", "converged", "cut_over"} THEN 0 ELSE s.route

\* What a complete or answered deletion has fenced, and what a movement copied.
OrgFencesHold ==
  /\ \A o \in O!Orgs : s.auth[o] = "live" => s.del[o] = "none"
  /\ \A o \in O!Orgs : s.del[o] = "complete" => o \in s.tomb[O!RouteOf(o)]
  /\ s.turn.at = "sending" => /\ \A p \in s.turn.ok : p[1] \in s.tomb[O!RouteOf(p[1])]
                             /\ \A p \in s.turn.todo \cup s.turn.ok : s.auth[p[1]] = "gone"
  /\ s.phase = "converged" => s.tomb[O!From] \cap O!Moving \subseteq s.tomb[O!To]

\* What the operator's status already knows stays true while it is compared.
OrgStatusHolds ==
  /\ s.ask.at \in {"read", "compare"} => (s.ask.done => s.del[s.ask.o] = "complete")
  /\ s.ask.at = "compare" => (s.ask.done => s.ask.found # "no")
  /\ ~s.broken

OrgMixOK == mix \in OrgDeletionMixes /\ mix.orgs \in Nat \ {0} /\ mix.moves \in Nat
OrgIInv == OrgMixOK /\ s \in OrgStates /\ OrgPlaced /\ OrgFencesHold /\ OrgStatusHolds /\ s.late = {}

USE DEF O!RouteOf, O!Owns, O!InRange, O!From, O!To, O!Moving

\* No organization is deleted and no range moves: the initial state is safe.
LEMMA OrgInitInv ==
    ASSUME O!MixesOK, O!Init, O!On
    PROVE  OrgIInv
  <1>1. OrgMixOK
    BY DEF O!MixesOK, OrgMixOK, O!Init, O!On
  <1>2. s \in OrgStates
    BY <1>1 DEF O!MixesOK, OrgMixOK, O!Init, O!On, OrgStates, O!Shards, O!Orgs, OrgPhases, OrgTurns, OrgRequests, OrgQuestions, OrgBarriers, O!Idle, O!Unbarred
  <1>3. OrgPlaced /\ OrgFencesHold /\ OrgStatusHolds /\ s.late = {}
    BY <1>1 DEF OrgMixOK, O!Init, OrgPlaced, OrgFencesHold, OrgStatusHolds, O!Shards, O!Orgs, O!Idle
  <1> QED BY <1>1, <1>2, <1>3 DEF OrgIInv

\* The bounds of a behaviour do not change.
LEMMA OrgSameBounds ==
    ASSUME UNCHANGED mix
    PROVE  /\ O!Orgs' = O!Orgs /\ O!Shards' = O!Shards /\ OrgPairs' = OrgPairs /\ OrgStates' = OrgStates
           /\ OrgTurns' = OrgTurns /\ OrgRequests' = OrgRequests /\ OrgQuestions' = OrgQuestions /\ OrgBarriers' = OrgBarriers
           /\ O!Moving' = O!Moving /\ OrgMixOK' = OrgMixOK
  BY DEF O!Orgs, O!Shards, OrgPairs, OrgStates, OrgTurns, OrgRequests, OrgQuestions, OrgBarriers, OrgPhases, O!Idle, O!Unbarred, OrgMixOK

\* Catalog: an organization that is still live has no deletion to be complete.
LEMMA OrgDeleteKeepsInv ==
    ASSUME OrgIInv, UNCHANGED mix, NEW o \in O!Orgs, O!DeleteOrganization(o)
    PROVE  OrgIInv'
  <1>0. s \in OrgStates /\ OrgPlaced /\ OrgFencesHold /\ OrgStatusHolds /\ s.late = {} /\ s.auth[o] = "live" /\ O!RouteOf(o) \in O!Shards
    BY DEF OrgIInv, O!DeleteOrganization, OrgStates, OrgMixOK, O!Shards
  <1>1. PICK shards \in SUBSET O!Shards, legacy \in BOOLEAN : s' = [O!Recorded(o, shards) EXCEPT !.legacy = legacy]
    <2>1. CASE s' = O!Recorded(o, {O!RouteOf(o)})
      <3>1. O!Recorded(o, {O!RouteOf(o)}) = [O!Recorded(o, {O!RouteOf(o)}) EXCEPT !.legacy = s.legacy]
        BY <1>0 DEF O!Recorded, OrgStates
      <3> QED BY <1>0, <2>1, <3>1 DEF OrgStates
    <2>2. CASE s' = [O!Recorded(o, {}) EXCEPT !.legacy = FALSE]
      BY <2>2
    <2> QED BY <2>1, <2>2 DEF O!DeleteOrganization
  <1>2. PICK hand \in [O!Orgs -> [O!Shards -> {"none", "pending", "complete"}]] :
          s' = [s EXCEPT !.auth = [s.auth EXCEPT ![o] = "gone"], !.del = [s.del EXCEPT ![o] = "pending"],
                         !.order = Append(s.order, o), !.hand = hand, !.legacy = legacy]
    <2> DEFINE hand == [s.hand EXCEPT ![o] = [h \in O!Shards |-> IF h \in shards THEN "pending" ELSE @[h]]]
    <2>1. hand \in [O!Orgs -> [O!Shards -> {"none", "pending", "complete"}]]
      BY <1>0 DEF OrgStates
    <2>2. s' = [s EXCEPT !.auth = [s.auth EXCEPT ![o] = "gone"], !.del = [s.del EXCEPT ![o] = "pending"],
                         !.order = Append(s.order, o), !.hand = hand, !.legacy = legacy]
      BY <1>0, <1>1 DEF O!Recorded, OrgStates
    <2> HIDE DEF hand
    <2> QED BY <2>1, <2>2
  <1> DEFINE auth == [s.auth EXCEPT ![o] = "gone"]
             del == [s.del EXCEPT ![o] = "pending"]
  <1>3. s' \in OrgStates
    <2>1. auth \in [O!Orgs -> {"live", "gone"}] /\ del \in [O!Orgs -> {"none", "pending", "complete"}]
      BY <1>0 DEF OrgStates
    <2>2. Append(s.order, o) \in Seq(O!Orgs)
      BY <1>0 DEF OrgStates
    <2> HIDE DEF auth, del
    <2> QED BY <1>0, <1>2, <2>1, <2>2 DEF OrgStates
  <1>4. OrgPlaced'
    BY <1>0, <1>2 DEF OrgPlaced, OrgStates
  <1>5. /\ s'.auth = auth /\ s'.del = del /\ s'.turn = s.turn /\ s'.tomb = s.tomb /\ s'.route = s.route
        /\ s'.phase = s.phase /\ s'.moves = s.moves /\ s'.ask = s.ask /\ s'.broken = s.broken
    BY <1>0, <1>2 DEF OrgStates
  <1>6. OrgFencesHold'
    BY <1>0, <1>5, OrgSameBounds DEF OrgFencesHold, OrgStates, OrgPlaced
  <1>7. OrgStatusHolds'
    BY <1>0, <1>5 DEF OrgStatusHolds, OrgFencesHold, OrgQuestions, O!Idle, OrgStates
  <1> QED BY <1>0, <1>2, <1>3, <1>4, <1>6, <1>7, OrgSameBounds DEF OrgIInv, OrgStates

\* Steps that leave deletions, fences, handoffs in flight and the range alone.
LEMMA OrgFrame ==
    ASSUME OrgIInv, UNCHANGED mix, s'.auth = s.auth, s'.del = s.del, s'.tomb = s.tomb, s'.route = s.route,
           s'.owner = s.owner, s'.phase = s.phase, s'.moves = s.moves, s'.turn = s.turn
    PROVE  OrgPlaced' /\ OrgFencesHold'
  BY OrgSameBounds DEF OrgIInv, OrgPlaced, OrgFencesHold

\* Steps that leave deletions and the operator's question alone.
LEMMA OrgStatusFrame ==
    ASSUME OrgIInv, s'.ask = s.ask, s'.del = s.del, s'.broken = s.broken
    PROVE  OrgStatusHolds'
  BY DEF OrgIInv, OrgStatusHolds

\* The alarm: what it sends and what it forgets.
LEMMA OrgTurnKeepsInv ==
    ASSUME OrgIInv, UNCHANGED mix, (\E o \in O!Orgs : O!RecordShards(o)) \/ O!StartTurn \/ O!CatalogCrash
    PROVE  OrgIInv'
  <1>0. s \in OrgStates
    BY DEF OrgIInv
  <1>1. CASE \E o \in O!Orgs : O!RecordShards(o)
    <2>1. PICK o \in O!Orgs : O!RecordShards(o)
      BY <1>1
    <2> DEFINE hand == [s.hand EXCEPT ![o] = [@ EXCEPT ![O!RouteOf(o)] = "pending"]]
    <2>2. hand \in [O!Orgs -> [O!Shards -> {"none", "pending", "complete"}]]
      BY <1>0 DEF OrgStates
    <2>3. s' = [s EXCEPT !.hand = hand]
      BY <1>0, <2>1 DEF O!RecordShards, OrgStates
    <2> HIDE DEF hand
    <2>4. s' \in OrgStates
      BY <1>0, <2>2, <2>3 DEF OrgStates
    <2> QED BY <1>0, <2>3, <2>4, OrgFrame, OrgStatusFrame, OrgSameBounds DEF OrgIInv, OrgStates
  <1>2. CASE O!StartTurn
    <2>1. PICK todo \in SUBSET O!Sendable : s' = [s EXCEPT !.turn = [at |-> "sending", todo |-> todo, ok |-> {}, all |-> todo]]
      BY <1>2 DEF O!StartTurn
    <2> DEFINE turn == [at |-> "sending", todo |-> todo, ok |-> {}, all |-> todo]
    <2>2. turn \in OrgTurns /\ turn.ok = {}
      BY DEF OrgTurns, O!Sendable, OrgPairs
    <2>6. \A p \in turn.todo : s.auth[p[1]] = "gone"
      BY <1>0 DEF O!Sendable, OrgIInv, OrgFencesHold, OrgStates
    <2>3. s' = [s EXCEPT !.turn = turn]
      BY <2>1
    <2> HIDE DEF turn
    <2>4. s' \in OrgStates
      BY <1>0, <2>2, <2>3 DEF OrgStates
    <2>5. OrgPlaced' /\ OrgFencesHold'
      BY <1>0, <2>2, <2>3, <2>6, OrgSameBounds DEF OrgStates, OrgIInv, OrgPlaced, OrgFencesHold
    <2> QED BY <1>0, <2>3, <2>4, <2>5, OrgStatusFrame, OrgSameBounds DEF OrgIInv, OrgStates
  <1>3. CASE O!CatalogCrash
    <2> DEFINE faults == s.faults + 1
    <2>1. s' = [s EXCEPT !.turn = O!Idle, !.faults = faults]
      BY <1>3 DEF O!CatalogCrash
    <2>3. faults \in Nat
      BY <1>0 DEF OrgStates
    <2> HIDE DEF faults
    <2>2. O!Idle \in OrgTurns /\ O!Idle.at # "sending"
      BY DEF OrgTurns, O!Idle
    <2>4. s' \in OrgStates
      BY <1>0, <2>1, <2>2, <2>3 DEF OrgStates
    <2>5. /\ s'.auth = s.auth /\ s'.del = s.del /\ s'.tomb = s.tomb /\ s'.route = s.route /\ s'.owner = s.owner
          /\ s'.phase = s.phase /\ s'.moves = s.moves /\ s'.turn.at # "sending"
      BY <1>0, <2>1, <2>2 DEF OrgStates
    <2>6. OrgPlaced' /\ OrgFencesHold'
      BY <2>5, OrgSameBounds DEF OrgIInv, OrgPlaced, OrgFencesHold
    <2> QED BY <1>0, <2>1, <2>4, <2>6, OrgStatusFrame, OrgSameBounds DEF OrgIInv, OrgStates
  <1> QED BY <1>1, <1>2, <1>3

\* The shard: a fence is written only by the owner, which is where the
\* Catalog routes the organization.
LEMMA OrgDeliverKeepsInv ==
    ASSUME OrgIInv, UNCHANGED mix, NEW p \in OrgPairs, O!Deliver(p) \/ O!AnswerLost(p)
    PROVE  OrgIInv'
  <1>0. s \in OrgStates /\ OrgPlaced /\ OrgFencesHold /\ s.turn.at = "sending" /\ p[1] \in O!Orgs /\ p[2] \in O!Shards
    BY DEF OrgIInv, O!Deliver, O!AnswerLost, OrgPairs
  <1> DEFINE tomb == [s.tomb EXCEPT ![p[2]] = IF O!Owns(p[2], p[1]) THEN @ \cup {p[1]} ELSE @]
             ok == IF O!Owns(p[2], p[1]) /\ ~O!AnswerLost(p) THEN s.turn.ok \cup {p} ELSE s.turn.ok
  <1>1. s.turn \in [at : {"sending"}, todo : SUBSET OrgPairs, ok : SUBSET OrgPairs, all : SUBSET OrgPairs]
    BY <1>0 DEF OrgStates, OrgTurns, O!Idle
  <1>2. tomb \in [O!Shards -> SUBSET O!Orgs] /\ ok \in SUBSET OrgPairs
    BY <1>0, <1>1 DEF OrgStates
  <1>3. PICK turn \in OrgTurns, faults \in Nat :
          /\ s' = [s EXCEPT !.tomb = tomb, !.turn = turn, !.faults = faults]
          /\ turn.ok \subseteq ok /\ turn.todo \cup turn.ok \subseteq s.turn.todo \cup s.turn.ok
    <2>1. CASE O!Deliver(p) /\ O!Owns(p[2], p[1]) /\ ~O!AnswerLost(p)
      <3>1. s' = [s EXCEPT !.tomb = [s.tomb EXCEPT ![p[2]] = @ \cup {p[1]}],
                           !.turn = [s.turn EXCEPT !.todo = @ \ {p}, !.ok = @ \cup {p}], !.faults = s.faults]
        BY <1>0, <1>1, <2>1 DEF O!Deliver, OrgStates
      <3>2. /\ [s.turn EXCEPT !.todo = @ \ {p}, !.ok = @ \cup {p}] \in OrgTurns
            /\ [s.turn EXCEPT !.todo = @ \ {p}, !.ok = @ \cup {p}].ok = s.turn.ok \cup {p}
            /\ [s.turn EXCEPT !.todo = @ \ {p}, !.ok = @ \cup {p}].todo = s.turn.todo \ {p}
        BY <1>1 DEF OrgTurns
      <3> DEFINE turn == [s.turn EXCEPT !.todo = @ \ {p}, !.ok = @ \cup {p}]
      <3>3. p \in s.turn.todo
        BY <2>1 DEF O!Deliver
      <3>4. turn.ok \subseteq ok /\ turn.todo \cup turn.ok \subseteq s.turn.todo \cup s.turn.ok
        BY <2>1, <3>2, <3>3
      <3>5. tomb = [s.tomb EXCEPT ![p[2]] = @ \cup {p[1]}] /\ turn \in OrgTurns /\ s.faults \in Nat
        BY <1>0, <2>1, <3>2 DEF OrgStates
      <3> HIDE DEF turn
      <3> QED BY <3>1, <3>4, <3>5 DEF turn
    <2>2. CASE O!Deliver(p) /\ ~O!Owns(p[2], p[1])
      <3>1. s' = [s EXCEPT !.tomb = s.tomb, !.turn = [s.turn EXCEPT !.todo = @ \ {p}], !.faults = s.faults]
        BY <1>0, <1>1, <2>2 DEF O!Deliver, OrgStates
      <3>2. /\ [s.turn EXCEPT !.todo = @ \ {p}] \in OrgTurns /\ [s.turn EXCEPT !.todo = @ \ {p}].ok = s.turn.ok
            /\ [s.turn EXCEPT !.todo = @ \ {p}].todo = s.turn.todo \ {p}
        BY <1>1 DEF OrgTurns
      <3>3. tomb = s.tomb
        BY <1>0, <2>2 DEF OrgStates
      <3> QED BY <1>0, <2>2, <3>1, <3>2, <3>3 DEF OrgStates
    <2>3. CASE O!AnswerLost(p)
      <3> DEFINE faults == s.faults + 1
      <3>1. s' = [s EXCEPT !.tomb = tomb, !.turn = [s.turn EXCEPT !.todo = @ \ {p}], !.faults = faults]
        BY <1>0, <1>1, <2>3 DEF O!AnswerLost, OrgStates
      <3>3. faults \in Nat
        BY <1>0 DEF OrgStates
      <3> HIDE DEF faults
      <3>2. /\ [s.turn EXCEPT !.todo = @ \ {p}] \in OrgTurns /\ [s.turn EXCEPT !.todo = @ \ {p}].ok = s.turn.ok
            /\ [s.turn EXCEPT !.todo = @ \ {p}].todo = s.turn.todo \ {p}
        BY <1>1 DEF OrgTurns
      <3> QED BY <1>0, <2>3, <3>1, <3>2, <3>3 DEF OrgStates
    <2> QED BY <2>1, <2>2, <2>3
  <1>4. s' \in OrgStates
    <2> HIDE DEF tomb, ok
    <2> QED BY <1>0, <1>2, <1>3 DEF OrgStates
  <1>5. OrgPlaced'
    BY <1>0, <1>3 DEF OrgStates, OrgPlaced
  <1>6. OrgFencesHold'
    <2>1. /\ s'.tomb = tomb /\ s'.turn = turn /\ s'.del = s.del /\ s'.auth = s.auth /\ s'.route = s.route
          /\ s'.phase = s.phase /\ s'.moves = s.moves
      BY <1>0, <1>3 DEF OrgStates
    <2>2. \A h \in O!Shards : s.tomb[h] \subseteq tomb[h]
      BY <1>0 DEF OrgStates
    <2>3. O!Owns(p[2], p[1]) => p[2] = O!RouteOf(p[1]) /\ p[1] \in tomb[p[2]]
      <3>1. O!Owns(p[2], p[1]) => p[1] \in tomb[p[2]]
        BY <1>0 DEF OrgStates
      <3>2. O!Owns(p[2], p[1]) => p[2] = O!RouteOf(p[1])
        BY <1>0 DEF OrgPlaced, O!Shards
      <3> QED BY <3>1, <3>2
    <2>4. \A o \in O!Orgs : O!RouteOf(o) \in O!Shards
      BY <1>0 DEF OrgStates, OrgIInv, OrgMixOK, O!Shards
    <2>5. \A q \in ok : q[1] \in tomb[O!RouteOf(q[1])]
      BY <1>0, <1>1, <2>2, <2>3, <2>4 DEF OrgFencesHold, OrgPairs
    <2>6. s.phase = "converged" => tomb[O!From] \cap O!Moving \subseteq tomb[O!To]
      <3> SUFFICES ASSUME s.phase = "converged" PROVE tomb[O!From] \cap O!Moving \subseteq tomb[O!To]
        OBVIOUS
      <3>1. O!Owns(p[2], p[1]) => p[1] \notin O!Moving
        BY <1>0 DEF OrgPlaced, O!Shards
      <3>2. \A h \in O!Shards : tomb[h] \cap O!Moving = s.tomb[h] \cap O!Moving
        BY <1>0, <3>1 DEF OrgStates
      <3>3. O!From \in O!Shards /\ O!To \in O!Shards
        BY <1>0 DEF OrgPlaced, OrgStates, OrgIInv, OrgMixOK, O!Shards
      <3> HIDE DEF tomb
      <3> QED BY <1>0, <3>2, <3>3 DEF OrgFencesHold
    <2> HIDE DEF tomb, ok
    <2>7. \A o \in O!Orgs : O!RouteOf(o)' = O!RouteOf(o)
      BY <2>1
    <2>8. /\ \A o \in O!Orgs : s'.auth[o] = "live" => s'.del[o] = "none"
          /\ \A o \in O!Orgs : s'.del[o] = "complete" => o \in s'.tomb[O!RouteOf(o)]
      BY <1>0, <2>1, <2>2, <2>4 DEF OrgFencesHold
    <2>9. \A q \in s'.turn.ok : q \in OrgPairs /\ q[1] \in O!Orgs /\ q[1] \in s'.tomb[O!RouteOf(q[1])]
      BY <1>2, <1>3, <2>1, <2>5 DEF OrgPairs
    <2>11. \A q \in s'.turn.todo \cup s'.turn.ok : s'.auth[q[1]] = "gone"
      BY <1>0, <1>3, <2>1 DEF OrgFencesHold
    <2>10. s'.phase = "converged" => s'.tomb[O!From] \cap O!Moving \subseteq s'.tomb[O!To]
      BY <2>1, <2>6
    <2> QED BY <2>1, <2>7, <2>8, <2>9, <2>10, <2>11, OrgSameBounds DEF OrgFencesHold
  <1>7. OrgStatusHolds'
    BY <1>0, <1>3, <1>4, OrgStatusFrame DEF OrgIInv, OrgStates
  <1>8. OrgMixOK'
    BY <1>0, OrgSameBounds DEF OrgIInv
  <1>9. (s \in OrgStates)'
    BY <1>0, <1>4, OrgSameBounds
  <1>10. s'.late = {}
    BY <1>0, <1>3 DEF OrgIInv
  <1> QED BY <1>5, <1>6, <1>7, <1>8, <1>9, <1>10 DEF OrgIInv

\* The answers of a turn: a deletion becomes complete only with a handoff
\* that was answered, and that one is fenced where the Catalog routes.
LEMMA OrgFinishKeepsInv ==
    ASSUME OrgIInv, UNCHANGED mix, O!FinishTurn
    PROVE  OrgIInv'
  <1>0. s \in OrgStates /\ OrgPlaced /\ OrgFencesHold /\ s.turn.at = "sending"
    BY DEF OrgIInv, O!FinishTurn
  <1> DEFINE Done(o) == (\E h \in O!Shards : <<o, h>> \in O!Answered)
             hand == [o \in O!Orgs |-> [h \in O!Shards |-> IF <<o, h>> \in O!Answered THEN "complete" ELSE s.hand[o][h]]]
             del == [o \in O!Orgs |-> IF Done(o) /\ (\A h \in O!Shards : hand[o][h] # "pending") THEN "complete" ELSE s.del[o]]
  <1>1. s' = [s EXCEPT !.hand = hand, !.turn = O!Idle, !.del = del]
    BY <1>0 DEF O!FinishTurn, OrgStates
  <1>2. hand \in [O!Orgs -> [O!Shards -> {"none", "pending", "complete"}]]
    BY <1>0 DEF OrgStates
  <1>3. del \in [O!Orgs -> {"none", "pending", "complete"}]
    <2> HIDE DEF hand
    <2> QED BY <1>0 DEF OrgStates
  <1>4. O!Idle \in OrgTurns /\ O!Idle.at # "sending"
    BY DEF OrgTurns, O!Idle
  <1>5. \A o \in O!Orgs : Done(o) => o \in s.tomb[O!RouteOf(o)]
    BY <1>0 DEF OrgFencesHold, O!Answered
  <1>6. \A o \in O!Orgs : del[o] = "complete" => s.del[o] = "complete" \/ Done(o)
    <2> HIDE DEF hand, Done
    <2> QED OBVIOUS
  <1>7. \A o \in O!Orgs : s.del[o] = "complete" => del[o] = "complete"
    <2> HIDE DEF hand, Done
    <2> QED OBVIOUS
  <1>13. \A o \in O!Orgs : del[o] # "complete" => del[o] = s.del[o]
    <2> HIDE DEF hand, Done
    <2> QED OBVIOUS
  <1>8. \A o \in O!Orgs : s.auth[o] = "live" => ~Done(o)
    <2>1. \A p \in s.turn.ok : s.auth[p[1]] = "gone"
      BY <1>0 DEF OrgFencesHold
    <2> QED BY <2>1 DEF O!Answered
  <1> HIDE DEF hand, del, Done
  <1>9. s' \in OrgStates
    BY <1>0, <1>1, <1>2, <1>3, <1>4 DEF OrgStates
  <1>10. /\ s'.auth = s.auth /\ s'.del = del /\ s'.tomb = s.tomb /\ s'.route = s.route /\ s'.owner = s.owner
         /\ s'.phase = s.phase /\ s'.moves = s.moves /\ s'.turn.at # "sending" /\ s'.ask = s.ask
         /\ s'.broken = s.broken /\ s'.late = s.late
    BY <1>0, <1>1, <1>4 DEF OrgStates
  <1>11. OrgPlaced' /\ OrgFencesHold'
    <2>1. OrgPlaced'
      BY <1>0, <1>10 DEF OrgPlaced
    <2>2. \A o \in O!Orgs : s'.auth[o] = "live" => s'.del[o] = "none"
      BY <1>0, <1>3, <1>6, <1>8, <1>10, <1>13 DEF OrgFencesHold
    <2>3. \A o \in O!Orgs : s'.del[o] = "complete" => o \in s'.tomb[O!RouteOf(o)']
      BY <1>0, <1>5, <1>6, <1>10 DEF OrgFencesHold
    <2>4. s'.phase = "converged" => (s.tomb[O!From] \cap O!Moving \subseteq s.tomb[O!To])'
      BY <1>0, <1>10, OrgSameBounds DEF OrgFencesHold
    <2> QED BY <1>10, <2>1, <2>2, <2>3, <2>4, OrgSameBounds DEF OrgFencesHold
  <1>12. OrgStatusHolds'
    <2>1. s.ask.at \in {"read", "compare"} => s.ask.o \in O!Orgs
      BY <1>0 DEF OrgStates, OrgQuestions, O!Idle
    <2> QED BY <1>7, <1>10, <2>1 DEF OrgStatusHolds, OrgIInv
  <1> QED BY <1>9, <1>10, <1>11, <1>12, OrgSameBounds DEF OrgIInv

\* A member's request: the shard admits nothing of an organization whose
\* deletion is complete, because the owner has its fence.
LEMMA OrgWriteKeepsInv ==
    ASSUME OrgIInv, UNCHANGED mix, (\E o \in O!Orgs : O!Authorize(o)) \/ O!Write
    PROVE  OrgIInv'
  <1>0. s \in OrgStates
    BY DEF OrgIInv
  <1>1. CASE \E o \in O!Orgs : O!Authorize(o)
    <2>1. PICK o \in O!Orgs : s' = [s EXCEPT !.req = [at |-> "write", o |-> o, h |-> O!RouteOf(o)]]
      BY <1>1 DEF O!Authorize
    <2> DEFINE req == [at |-> "write", o |-> o, h |-> O!RouteOf(o)]
    <2>2. O!RouteOf(o) \in O!Shards
      BY <1>0 DEF OrgStates, OrgIInv, OrgMixOK, O!Shards
    <2>3. req \in OrgRequests
      BY <2>2 DEF OrgRequests
    <2>4. s' = [s EXCEPT !.req = req]
      BY <2>1
    <2> HIDE DEF req
    <2>5. s' \in OrgStates
      BY <1>0, <2>3, <2>4 DEF OrgStates
    <2> QED BY <1>0, <2>4, <2>5, OrgFrame, OrgStatusFrame, OrgSameBounds DEF OrgIInv, OrgStates
  <1>2. CASE O!Write
    <2> DEFINE o == s.req.o
               h == s.req.h
    <2>1. o \in O!Orgs /\ h \in O!Shards
      BY <1>0, <1>2 DEF O!Write, OrgStates, OrgRequests, O!Idle
    <2>2. O!Idle \in OrgRequests
      BY DEF OrgRequests
    <2>3. O!Admits(h, o) => s.del[o] # "complete"
      BY <1>0, <2>1 DEF O!Admits, OrgIInv, OrgFencesHold, OrgPlaced, O!Shards
    <2> DEFINE data == IF O!Admits(h, o) THEN [s.data EXCEPT ![h] = @ \cup {o}] ELSE s.data
    <2>4. s' = [s EXCEPT !.req = O!Idle, !.data = data]
      <3>1. CASE O!Admits(h, o)
        <4>1. s' = [s EXCEPT !.req = O!Idle, !.data[h] = @ \cup {o}, !.late = s.late]
          BY <1>0, <1>2, <2>3, <3>1 DEF O!Write, OrgStates
        <4> QED BY <1>0, <3>1, <4>1 DEF OrgStates
      <3>2. CASE ~O!Admits(h, o)
        BY <1>0, <1>2, <3>2 DEF O!Write, OrgStates
      <3> QED BY <3>1, <3>2
    <2>5. data \in [O!Shards -> SUBSET O!Orgs]
      BY <1>0, <2>1 DEF OrgStates
    <2> HIDE DEF data
    <2>6. s' \in OrgStates
      BY <1>0, <2>2, <2>4, <2>5 DEF OrgStates
    <2> QED BY <1>0, <2>4, <2>6, OrgFrame, OrgStatusFrame, OrgSameBounds DEF OrgIInv, OrgStates
  <1> QED BY <1>1, <1>2

\* Purging the rows of a fenced organization.
LEMMA OrgPurgeKeepsInv ==
    ASSUME OrgIInv, UNCHANGED mix, NEW h \in O!Shards, NEW o \in O!Orgs, O!Purge(h, o)
    PROVE  OrgIInv'
  <1>0. s \in OrgStates
    BY DEF OrgIInv
  <1> DEFINE data == [s.data EXCEPT ![h] = @ \ {o}]
  <1>1. data \in [O!Shards -> SUBSET O!Orgs]
    BY <1>0 DEF OrgStates
  <1>2. s' = [s EXCEPT !.data = data]
    BY DEF O!Purge
  <1> HIDE DEF data
  <1>3. s' \in OrgStates
    BY <1>0, <1>1, <1>2 DEF OrgStates
  <1> QED BY <1>0, <1>2, <1>3, OrgFrame, OrgStatusFrame, OrgSameBounds DEF OrgIInv, OrgStates

\* A question may change to one whose knowledge is true.
LEMMA OrgAskKeepsInv ==
    ASSUME OrgIInv, UNCHANGED mix, NEW ask \in OrgQuestions, s' = [s EXCEPT !.ask = ask],
           ask.at \in {"read", "compare"} => (ask.done => s.del[ask.o] = "complete"),
           ask.at = "compare" => (ask.done => ask.found # "no")
    PROVE  OrgIInv'
  <1>0. s \in OrgStates /\ OrgStatusHolds
    BY DEF OrgIInv
  <1>1. s' \in OrgStates
    BY <1>0 DEF OrgStates
  <1>2. OrgStatusHolds'
    BY <1>0 DEF OrgStates, OrgStatusHolds
  <1> QED BY <1>0, <1>1, <1>2, OrgFrame, OrgSameBounds DEF OrgIInv, OrgStates

\* The operator's status: an answer of the owner about a deletion that was
\* already complete names its fence, so a missing one is never reported.
LEMMA OrgStatusKeepsInv ==
    ASSUME OrgIInv, UNCHANGED mix, (\E o \in O!Orgs : O!Ask(o)) \/ O!ReadStatus \/ O!Report
    PROVE  OrgIInv'
  <1>0. s \in OrgStates /\ OrgFencesHold /\ OrgStatusHolds /\ OrgPlaced
    BY DEF OrgIInv
  <1>1. \A o \in O!Orgs : O!RouteOf(o) \in O!Shards
    BY <1>0 DEF OrgStates, OrgIInv, OrgMixOK, O!Shards
  <1>2. CASE \E o \in O!Orgs : O!Ask(o)
    <2>1. PICK o \in O!Orgs : O!Ask(o)
      BY <1>2
    <2> DEFINE ask == [at |-> "read", o |-> o, done |-> s.del[o] = "complete", shard |-> O!RouteOf(o), retried |-> FALSE]
    <2>2. ask \in OrgQuestions /\ ask.at = "read" /\ ask.o = o /\ (ask.done => s.del[o] = "complete")
      BY <1>1 DEF OrgQuestions
    <2>3. s' = [s EXCEPT !.ask = ask]
      BY <2>1 DEF O!Ask
    <2> HIDE DEF ask
    <2> QED BY <2>2, <2>3, OrgAskKeepsInv
  <1>3. CASE O!ReadStatus
    <2> DEFINE h == s.ask.shard
               o == s.ask.o
               found == IF ~O!Owns(h, o) THEN "refused" ELSE IF o \in s.tomb[h] THEN "yes" ELSE "no"
               ask == [at |-> "compare", o |-> o, done |-> s.ask.done, shard |-> h, retried |-> s.ask.retried,
                       found |-> found]
    <2>1. s.ask.at = "read" /\ s.ask \in [at : {"read"}, o : O!Orgs, done : BOOLEAN, shard : O!Shards, retried : BOOLEAN]
      BY <1>0, <1>3 DEF O!ReadStatus, OrgStates, OrgQuestions, O!Idle
    <2>2. s.ask.done => found # "no"
      BY <1>0, <2>1 DEF OrgStatusHolds, OrgFencesHold, OrgPlaced, O!Shards
    <2>3. found \in {"refused", "yes", "no"}
      OBVIOUS
    <2>4. s' = [s EXCEPT !.ask = ask]
      BY <1>3 DEF O!ReadStatus
    <2> HIDE DEF found
    <2>5. ask \in OrgQuestions /\ ask.at = "compare" /\ ask.o = s.ask.o /\ ask.done = s.ask.done /\ ask.found = found
      BY <2>1, <2>3 DEF OrgQuestions
    <2>6. ask.done => s.del[ask.o] = "complete"
      BY <1>0, <2>1, <2>5 DEF OrgStatusHolds
    <2> HIDE DEF ask
    <2> QED BY <2>2, <2>4, <2>5, <2>6, OrgAskKeepsInv
  <1>4. CASE O!Report
    <2>1. s.ask.at = "compare" /\ s.ask \in [at : {"compare"}, o : O!Orgs, done : BOOLEAN, shard : O!Shards, retried : BOOLEAN,
                                               found : {"refused", "yes", "no"}]
      BY <1>0, <1>4 DEF O!Report, OrgStates, OrgQuestions, O!Idle
    <2>2. O!Idle \in OrgQuestions /\ O!Idle.at = "idle"
      BY DEF OrgQuestions, O!Idle
    <2>3. /\ O!AskAgain \in OrgQuestions /\ O!AskAgain.at = "read" /\ O!AskAgain.o = s.ask.o
          /\ O!AskAgain.done = s.ask.done
      BY <1>1, <2>1 DEF O!AskAgain, OrgQuestions
    <2>4. ~(s.ask.done /\ s.ask.found = "no") /\ s.broken = FALSE
      BY <1>0, <2>1 DEF OrgStatusHolds, OrgStates
    <2>5. CASE s' = [s EXCEPT !.ask = O!Idle]
      BY <2>2, <2>5, OrgAskKeepsInv
    <2>6. CASE s' = [s EXCEPT !.ask = O!AskAgain]
      <3>1. O!AskAgain.done => s.del[O!AskAgain.o] = "complete"
        BY <1>0, <2>1, <2>3 DEF OrgStatusHolds
      <3> QED BY <2>3, <2>6, <3>1, OrgAskKeepsInv
    <2>7. O!SameRoute => s' = [s EXCEPT !.ask = O!Idle]
      <3>1. O!SameRoute => s' = [s EXCEPT !.ask = O!Idle, !.broken = s.broken]
        BY <1>0, <1>4, <2>4 DEF O!Report, OrgStates
      <3>2. s \in OrgStates
        BY <1>0
      <3>3. [s EXCEPT !.ask = O!Idle, !.broken = s.broken] = [s EXCEPT !.ask = O!Idle]
        BY <3>2 DEF OrgStates
      <3> QED BY <3>1, <3>3
    <2> QED BY <1>4, <2>5, <2>6, <2>7 DEF O!Report
  <1> QED BY <1>2, <1>3, <1>4

\* The movement, up to its fence: the source goes on to own the range.
LEMMA OrgCopyKeepsInv ==
    ASSUME OrgIInv, UNCHANGED mix, O!BeginMovement \/ O!BeginBarrier \/ O!Fence
    PROVE  OrgIInv'
  <1>0. s \in OrgStates /\ OrgPlaced /\ OrgFencesHold
    BY DEF OrgIInv
  <1>1. CASE O!BeginMovement
    <2> DEFINE moves == s.moves + 1
    <2>1. s' = [s EXCEPT !.phase = "copy", !.moves = moves]
      BY <1>1 DEF O!BeginMovement
    <2>2. moves \in 0..mix.moves /\ "copy" \in OrgPhases
      BY <1>0, <1>1 DEF O!BeginMovement, OrgStates, OrgIInv, OrgMixOK, OrgPhases
    <2> HIDE DEF moves
    <2>3. s' \in OrgStates
      BY <1>0, <2>1, <2>2 DEF OrgStates
    <2>4. OrgPlaced'
      BY <1>0, <1>1 DEF O!BeginMovement, OrgStates, OrgPlaced
    <2>5. OrgFencesHold'
      BY <1>0, <2>1, OrgSameBounds DEF OrgStates, OrgFencesHold
    <2> QED BY <1>0, <2>1, <2>3, <2>4, <2>5, OrgStatusFrame, OrgSameBounds DEF OrgIInv, OrgStates
  <1>2. CASE O!BeginBarrier
    <2> DEFINE barrier == [at |-> "active", watermark |-> Len(s.order)]
    <2>1. barrier \in OrgBarriers
      BY <1>0 DEF OrgStates, OrgBarriers
    <2>2. s' = [s EXCEPT !.barrier = barrier]
      BY <1>2 DEF O!BeginBarrier
    <2> HIDE DEF barrier
    <2>3. s' \in OrgStates
      BY <1>0, <2>1, <2>2 DEF OrgStates
    <2> QED BY <1>0, <2>2, <2>3, OrgFrame, OrgStatusFrame, OrgSameBounds DEF OrgIInv, OrgStates
  <1>3. CASE O!Fence
    <2>1. s' = [s EXCEPT !.phase = "fenced", !.owner = 0] /\ s.phase = "caught_up"
      BY <1>3 DEF O!Fence
    <2>2. s' \in OrgStates
      BY <1>0, <2>1 DEF OrgStates, OrgPhases
    <2>3. OrgPlaced'
      BY <1>0, <2>1 DEF OrgStates, OrgPlaced
    <2>4. OrgFencesHold'
      BY <1>0, <2>1, OrgSameBounds DEF OrgStates, OrgFencesHold
    <2> QED BY <1>0, <2>1, <2>2, <2>3, <2>4, OrgStatusFrame, OrgSameBounds DEF OrgIInv, OrgStates
  <1> QED BY <1>1, <1>2, <1>3

\* Copying to the fresh destination, and emptying it when a copy is given up:
\* no organization is routed there yet.  After the fence the copy is final.
LEMMA OrgDestinationKeepsInv ==
    ASSUME OrgIInv, UNCHANGED mix, O!Replay \/ O!Abort
    PROVE  OrgIInv'
  <1>0. s \in OrgStates /\ OrgPlaced /\ OrgFencesHold
    BY DEF OrgIInv
  <1>1. s.phase \in {"copy", "fenced", "caught_up"} /\ s.route = O!From /\ O!From \in O!Shards /\ O!To \in O!Shards
        /\ s.owner = (IF s.phase = "fenced" THEN 0 ELSE O!From)
    BY <1>0 DEF O!Replay, O!Abort, OrgPlaced, OrgIInv, OrgMixOK, O!Shards, OrgStates
  <1>2. PICK to \in SUBSET O!Orgs, todata \in SUBSET O!Orgs, phase \in OrgPhases, faults \in Nat :
          /\ s' = [s EXCEPT !.tomb = [s.tomb EXCEPT ![O!To] = to], !.data = [s.data EXCEPT ![O!To] = todata],
                            !.phase = phase, !.faults = faults]
          /\ phase = IF O!Abort THEN "aborted" ELSE IF s.phase = "copy" THEN "caught_up" ELSE "converged"
          /\ phase = "converged" => s.tomb[O!From] \cap O!Moving \subseteq to
    <2>1. CASE O!Abort
      <3> DEFINE faults == s.faults + 1
      <3>1. s' = [s EXCEPT !.tomb = [s.tomb EXCEPT ![O!To] = {}], !.data = [s.data EXCEPT ![O!To] = {}],
                           !.phase = "aborted", !.faults = faults]
        BY <2>1 DEF O!Abort
      <3>2. faults \in Nat /\ "aborted" \in OrgPhases /\ "aborted" # "converged" /\ {} \in SUBSET O!Orgs
        BY <1>0 DEF OrgStates, OrgPhases
      <3>3. "aborted" = IF O!Abort THEN "aborted" ELSE IF s.phase = "copy" THEN "caught_up" ELSE "converged"
        BY <2>1
      <3>4. "aborted" = "converged" => s.tomb[O!From] \cap O!Moving \subseteq {}
        BY <3>2
      <3> HIDE DEF faults
      <3> QED BY <3>1, <3>2, <3>3, <3>4, Zenon
    <2>2. CASE O!Replay /\ ~O!Abort
      <3> DEFINE to == s.tomb[O!From] \cap O!Moving
                 todata == s.data[O!From] \cap O!Moving
                 phase == IF s.phase = "copy" THEN "caught_up" ELSE "converged"
      <3>1. s' = [s EXCEPT !.tomb = [s.tomb EXCEPT ![O!To] = to], !.data = [s.data EXCEPT ![O!To] = todata],
                           !.phase = phase, !.faults = s.faults]
        BY <1>0, <2>2 DEF O!Replay, OrgStates
      <3>2. to \in SUBSET O!Orgs /\ todata \in SUBSET O!Orgs /\ phase \in OrgPhases /\ s.faults \in Nat
        BY <1>0, <1>1 DEF OrgStates, OrgPhases
      <3>3. phase = "converged" => s.tomb[O!From] \cap O!Moving \subseteq to
        OBVIOUS
      <3>4. phase = IF O!Abort THEN "aborted" ELSE IF s.phase = "copy" THEN "caught_up" ELSE "converged"
        BY <2>2
      <3> HIDE DEF to, todata, phase
      <3> QED BY <3>1, <3>2, <3>3, <3>4, Zenon
    <2> QED BY <2>1, <2>2
  <1> DEFINE tomb == [s.tomb EXCEPT ![O!To] = to]
             data == [s.data EXCEPT ![O!To] = todata]
  <1>3. tomb \in [O!Shards -> SUBSET O!Orgs] /\ data \in [O!Shards -> SUBSET O!Orgs]
    BY <1>0, <1>1 DEF OrgStates
  <1>4. \A o \in O!Orgs : O!RouteOf(o) \in O!Shards /\ O!RouteOf(o) # O!To
    BY <1>0, <1>1 DEF OrgIInv, OrgMixOK, O!Shards, OrgStates
  <1>5. /\ \A o \in O!Orgs : tomb[O!RouteOf(o)] = s.tomb[O!RouteOf(o)]
        /\ tomb[O!To] = to /\ tomb[O!From] = s.tomb[O!From]
    BY <1>0, <1>1, <1>4 DEF OrgStates
  <1> HIDE DEF tomb, data
  <1>6. s' = [s EXCEPT !.tomb = tomb, !.data = data, !.phase = phase, !.faults = faults]
    BY <1>2 DEF tomb, data
  <1>7. s' \in OrgStates
    <2>1. s \in OrgStates
      BY <1>0
    <2>2. phase \in OrgPhases /\ faults \in Nat
      BY <1>2
    <2> QED BY <1>3, <1>6, <2>1, <2>2 DEF OrgStates
  <1>8. /\ s'.auth = s.auth /\ s'.del = s.del /\ s'.tomb = tomb /\ s'.route = s.route /\ s'.owner = s.owner
        /\ s'.phase = phase /\ s'.moves = s.moves /\ s'.turn = s.turn /\ s'.ask = s.ask
        /\ s'.broken = s.broken /\ s'.late = s.late
    BY <1>0, <1>6 DEF OrgStates
  <1>9. OrgPlaced'
    BY <1>0, <1>1, <1>2, <1>8 DEF OrgPlaced, O!Abort, O!Replay
  <1>10. OrgFencesHold'
    <2>1. \A o \in O!Orgs : s'.tomb[O!RouteOf(o)'] = s.tomb[O!RouteOf(o)]
      BY <1>5, <1>8
    <2>2. \A p \in s.turn.ok : s.turn.at = "sending" => p[1] \in O!Orgs
      BY <1>0 DEF OrgStates, OrgTurns, OrgPairs, O!Idle
    <2>3. s'.phase = "converged" => (s.tomb[O!From] \cap O!Moving \subseteq s.tomb[O!To])'
      BY <1>2, <1>5, <1>8, OrgSameBounds
    <2> QED BY <1>0, <1>8, <2>1, <2>2, <2>3, OrgSameBounds DEF OrgFencesHold
  <1> QED BY <1>0, <1>7, <1>8, <1>9, <1>10, OrgStatusFrame, OrgSameBounds DEF OrgIInv

\* The route moves when the destination has every fence of the source, and
\* the ownership follows it.
LEMMA OrgCutoverKeepsInv ==
    ASSUME OrgIInv, UNCHANGED mix, O!Cutover \/ O!Activate
    PROVE  OrgIInv'
  <1>0. s \in OrgStates /\ OrgPlaced /\ OrgFencesHold
    BY DEF OrgIInv
  <1>1. CASE O!Cutover
    <2> DEFINE to == O!To
    <2>1. s' = [s EXCEPT !.phase = "cut_over", !.route = to, !.barrier = O!Unbarred] /\ s.phase = "converged"
      BY <1>1 DEF O!Cutover
    <2>2. to \in O!Shards /\ O!Unbarred \in OrgBarriers /\ "cut_over" \in OrgPhases
      BY <1>0 DEF OrgStates, OrgIInv, OrgMixOK, O!Shards, OrgBarriers, OrgPhases
    <2>3. s' \in OrgStates
      <3> HIDE DEF to
      <3> QED BY <1>0, <2>1, <2>2 DEF OrgStates
    <2>4. /\ s'.auth = s.auth /\ s'.del = s.del /\ s'.tomb = s.tomb /\ s'.route = to /\ s'.owner = s.owner
          /\ s'.phase = "cut_over" /\ s'.moves = s.moves /\ s'.turn = s.turn /\ s'.ask = s.ask
          /\ s'.broken = s.broken /\ s'.late = s.late
      BY <1>0, <2>1 DEF OrgStates
    <2>5. OrgPlaced'
      BY <1>0, <2>1, <2>4 DEF OrgPlaced
    <2>6. \A o \in O!Orgs : o \in s.tomb[O!RouteOf(o)] => o \in s'.tomb[O!RouteOf(o)']
      BY <1>0, <2>1, <2>4 DEF OrgFencesHold, OrgPlaced
    <2>7. \A p \in s.turn.ok : s.turn.at = "sending" => p[1] \in O!Orgs
      BY <1>0 DEF OrgStates, OrgTurns, OrgPairs, O!Idle
    <2>8. OrgFencesHold'
      <3> HIDE DEF to
      <3> QED BY <1>0, <2>4, <2>6, <2>7, OrgSameBounds DEF OrgFencesHold
    <2> QED BY <1>0, <2>3, <2>4, <2>5, <2>8, OrgStatusFrame, OrgSameBounds DEF OrgIInv
  <1>2. CASE O!Activate
    <2> DEFINE to == O!To
    <2>1. s' = [s EXCEPT !.phase = "draining", !.owner = to] /\ s.phase = "cut_over"
      BY <1>2 DEF O!Activate
    <2>2. to \in O!Shards /\ "draining" \in OrgPhases
      BY <1>0 DEF OrgStates, OrgIInv, OrgMixOK, O!Shards, OrgPhases
    <2>3. s' \in OrgStates
      <3> HIDE DEF to
      <3> QED BY <1>0, <2>1, <2>2 DEF OrgStates
    <2>4. OrgPlaced'
      BY <1>0, <2>1 DEF OrgPlaced, OrgStates
    <2>5. OrgFencesHold'
      BY <1>0, <2>1, OrgSameBounds DEF OrgStates, OrgFencesHold
    <2> QED BY <1>0, <2>1, <2>3, <2>4, <2>5, OrgStatusFrame, OrgSameBounds DEF OrgIInv, OrgStates
  <1> QED BY <1>1, <1>2

\* The source forgets a range that is routed elsewhere.
LEMMA OrgDrainKeepsInv ==
    ASSUME OrgIInv, UNCHANGED mix, O!Drain
    PROVE  OrgIInv'
  <1>0. s \in OrgStates /\ OrgPlaced /\ OrgFencesHold /\ s.phase = "draining"
    BY DEF OrgIInv, O!Drain
  <1> DEFINE tomb == [s.tomb EXCEPT ![O!From] = @ \ O!Moving]
             data == [s.data EXCEPT ![O!From] = @ \ O!Moving]
  <1>1. O!From \in O!Shards /\ \A o \in O!Orgs : O!RouteOf(o) \in O!Shards
    BY <1>0 DEF OrgStates, OrgIInv, OrgMixOK, OrgPlaced, O!Shards
  <1>2. tomb \in [O!Shards -> SUBSET O!Orgs] /\ data \in [O!Shards -> SUBSET O!Orgs]
    BY <1>0, <1>1 DEF OrgStates
  <1>3. \A o \in O!Orgs : o \in s.tomb[O!RouteOf(o)] => o \in tomb[O!RouteOf(o)]
    BY <1>0, <1>1 DEF OrgStates, OrgPlaced
  <1>4. s' = [s EXCEPT !.phase = "none", !.tomb = tomb, !.data = data]
    BY DEF O!Drain
  <1> HIDE DEF tomb, data
  <1>5. s' \in OrgStates
    BY <1>0, <1>2, <1>4 DEF OrgStates, OrgPhases
  <1>6. /\ s'.auth = s.auth /\ s'.del = s.del /\ s'.tomb = tomb /\ s'.route = s.route /\ s'.owner = s.owner
        /\ s'.phase = "none" /\ s'.moves = s.moves /\ s'.turn = s.turn /\ s'.ask = s.ask
        /\ s'.broken = s.broken /\ s'.late = s.late
    BY <1>0, <1>4 DEF OrgStates
  <1>7. OrgPlaced'
    BY <1>0, <1>6 DEF OrgPlaced
  <1>8. OrgFencesHold'
    <2>1. \A o \in O!Orgs : o \in s.tomb[O!RouteOf(o)] => o \in s'.tomb[O!RouteOf(o)']
      BY <1>3, <1>6
    <2>2. \A p \in s.turn.ok : s.turn.at = "sending" => p[1] \in O!Orgs
      BY <1>0 DEF OrgStates, OrgTurns, OrgPairs, O!Idle
    <2> QED BY <1>0, <1>6, <2>1, <2>2, OrgSameBounds DEF OrgFencesHold
  <1> QED BY <1>0, <1>5, <1>6, <1>7, <1>8, OrgStatusFrame, OrgSameBounds DEF OrgIInv

\* Every step keeps the invariant.
LEMMA OrgStepKeepsInv ==
    ASSUME O!On => OrgIInv, [O!Next]_O!vars
    PROVE  (O!On => OrgIInv)'
  <1>1. CASE UNCHANGED O!vars
    BY <1>1, OrgSameBounds DEF O!vars, O!On, OrgIInv, OrgMixOK, OrgPlaced, OrgFencesHold, OrgStatusHolds
  <1>2. CASE O!Next
    <2>1. UNCHANGED mix /\ O!On /\ OrgIInv /\ O!Step
      BY <1>2 DEF O!Next
    <2> QED BY <2>1, OrgDeleteKeepsInv, OrgTurnKeepsInv, OrgDeliverKeepsInv, OrgFinishKeepsInv, OrgWriteKeepsInv, OrgPurgeKeepsInv,
               OrgStatusKeepsInv, OrgCopyKeepsInv, OrgDestinationKeepsInv, OrgCutoverKeepsInv, OrgDrainKeepsInv
            DEF O!Step, O!Alarm, O!Drive, OrgPairs
  <1> QED BY <1>1, <1>2

\* What the invariant says of deletions.
LEMMA OrgInvIsSafe == OrgIInv => O!Safe
  BY DEF OrgIInv, OrgMixOK, OrgStates, OrgFencesHold, OrgStatusHolds, O!Safe, O!TypeOK, O!HandoffIsAtOwner, O!NothingAfterHandoff

-----------------------------------------------------------------------------
(* The theorems.                                                           *)

\* A deletion that is reported complete has its fence where the Catalog
\* routes the organization (the handoff of catalog-organization-deletions.ts,
\* across every movement of the range), and no shard admits a write after it.
THEOREM DeletionIsSafe == Spec => []DeletionSafe
  <1> DEFINE Inv == O!On => OrgIInv
  <1>1. Init => Inv
    <2> SUFFICES ASSUME Init, O!On PROVE OrgIInv
      OBVIOUS
    <2>1. O!Init
      BY InitOfPart DEF O!On
    <2> QED BY <2>1, MixesAssumption, OrgInitInv
  <1>2. Inv /\ [Next]_<<mix, s>> => Inv'
    <2> SUFFICES ASSUME Inv, [Next]_<<mix, s>>, O!On' PROVE OrgIInv'
      OBVIOUS
    <2>1. O!On /\ [O!Next]_<<mix, s>>
      BY StepOfPart DEF O!On
    <2> QED BY <2>1, OrgStepKeepsInv DEF O!vars
  <1>3. Inv => DeletionSafe
    BY OrgInvIsSafe DEF DeletionSafe, O!DeletionSafe
  <1> QED BY <1>1, <1>2, <1>3, PTL DEF Spec

\* For every number of shards, movements, commands, versions and failures: the
\* Catalog and every shard that owns a range agree on the schema, the tables
\* are those of the version and the steps recorded, and once a version served
\* a request none is served under an earlier one (catalog.ts, cdb.ts).
THEOREM SchemaIsSafe == Spec => []SchemaSafe
  <1> DEFINE Inv == M!On => SchemaIInv
  <1>1. Init => Inv
    <2> SUFFICES ASSUME Init, M!On PROVE SchemaIInv
      OBVIOUS
    <2>1. M!Init
      BY InitOfPart DEF M!On
    <2> QED BY <2>1, MixesAssumption, SchemaInitInv
  <1>2. Inv /\ [Next]_<<mix, s>> => Inv'
    <2> SUFFICES ASSUME Inv, [Next]_<<mix, s>>, M!On' PROVE SchemaIInv'
      OBVIOUS
    <2>1. M!On /\ [M!Next]_<<mix, s>>
      BY StepOfPart DEF M!On
    <2> QED BY <2>1, SchemaStepKeepsInv
  <1>3. Inv => SchemaSafe
    BY SchemaInvIsSafe DEF SchemaSafe, M!SchemaSafe
  <1> QED BY <1>1, <1>2, <1>3, PTL DEF Spec

\* For every number of names, contents, rows, uploads, instants, movements and
\* faults: each row of a living organization owns the file it names and its
\* bytes are in the bucket, two uploads answered with success in one life of a
\* name carried the same bytes, no stale download is served, and whatever waits
\* for cleanup is covered by an alarm or a turn (cdb-file-store.ts).
THEOREM FilesAreSafe == Spec => []FilesSafe
  <1> DEFINE Inv == F!On => F!IInv
  <1>1. Init => Inv
    <2> SUFFICES ASSUME Init, F!On PROVE F!IInv
      OBVIOUS
    <2>1. F!Init
      BY InitOfPart DEF F!On
    <2> QED BY <2>1, MixesAssumption, F!InitInv
  <1>2. Inv /\ [Next]_<<mix, s>> => Inv'
    <2> SUFFICES ASSUME Inv, [Next]_<<mix, s>>, F!On' PROVE F!IInv'
      OBVIOUS
    <2>1. F!On /\ [F!Next]_<<mix, s>>
      BY StepOfPart DEF F!On
    <2> QED BY <2>1, F!NextKeepsInv DEF F!vars
  <1>3. Inv => FilesSafe
    BY F!InvIsSafe DEF FilesSafe, F!On
  <1> QED BY <1>1, <1>2, <1>3, PTL DEF Spec

\* For every number of files, page size, activity and faults: no page, replayed
\* change, comparison or cleanup step of a movement is refused, the range never
\* has two owners, the destination takes over exactly the rows the source was
\* fenced with, and an abort leaves nothing behind (resharder.ts, cdb.ts).
THEOREM FileMovesAreSafe == Spec => []FileMoveSafe
  <1> DEFINE Inv == G!On => G!IInv
  <1>1. Init => Inv
    <2> SUFFICES ASSUME Init, G!On PROVE G!IInv
      OBVIOUS
    <2>1. G!Init
      BY InitOfPart DEF G!On
    <2> QED BY <2>1, MixesAssumption, G!InitInv
  <1>2. Inv /\ [Next]_<<mix, s>> => Inv'
    <2> SUFFICES ASSUME Inv, [Next]_<<mix, s>>, G!On' PROVE G!IInv'
      OBVIOUS
    <2>1. G!On /\ [G!Next]_<<mix, s>>
      BY StepOfPart DEF G!On
    <2> QED BY <2>1, G!NextKeepsInv
  <1>3. Inv => FileMoveSafe
    BY G!InvIsSafe DEF FileMoveSafe, G!On
  <1> QED BY <1>1, <1>2, <1>3, PTL DEF Spec

\* For every number of mutations, subscriptions, versions, tokens and faults:
\* a caller is told that its mutation failed, or was not sent, only when it was
\* not and will not be applied, and ok only when it was; rows shown offline are
\* bounded by the resume window; and a session of the TypeScript client ends for
\* its token only when that has expired (session.rs, client.ts).
THEOREM ClientsAreHonest == Spec => []ClientsHonest
  <1> DEFINE Inv == (C!On => RustIInv) /\ (W!On => WebIInv)
  <1>1. Init => Inv
    <2>1. ASSUME Init, C!On PROVE RustIInv
      <3>1. C!Init
        BY <2>1, InitOfPart DEF C!On
      <3>2. RustMixOK
        BY <3>1, MixesAssumption DEF RustMixOK, C!MixesOK, C!Init
      <3> QED BY <3>1, <3>2, RustInitInv
    <2>2. ASSUME Init, W!On PROVE WebIInv
      <3>1. W!Init
        BY <2>2, InitOfPart DEF W!On
      <3>2. WebMixOK
        BY <3>1, MixesAssumption DEF WebMixOK, W!MixesOK, W!Init
      <3> QED BY <3>1, <3>2, WebInitInv
    <2> QED BY <2>1, <2>2
  <1>2. Inv /\ [Next]_<<mix, s>> => Inv'
    <2> SUFFICES ASSUME Inv, [Next]_<<mix, s>> PROVE Inv'
      OBVIOUS
    <2>1. UNCHANGED mix
      BY StepOfPart
    <2>2. ASSUME C!On' PROVE RustIInv'
      <3>1. C!On /\ RustIInv /\ (C!Step \/ UNCHANGED <<mix, s>>)
        BY <2>1, <2>2, StepOfPart DEF C!On, C!Next
      <3>2. CASE C!Step
        BY <2>1, <3>1, <3>2, RustStepKeepsInv, RustSameBounds DEF RustIInv
      <3>3. CASE UNCHANGED <<mix, s>>
        <4>1. RustInv(s') /\ RustMixOK
          BY <3>1, <3>3 DEF RustIInv
        <4> QED BY <2>1, <4>1, RustSameBounds
      <3> QED BY <3>1, <3>2, <3>3
    <2>3. ASSUME W!On' PROVE WebIInv'
      <3>1. W!On /\ WebIInv /\ (W!Step \/ UNCHANGED <<mix, s>>)
        BY <2>1, <2>3, StepOfPart DEF W!On, W!Next
      <3>2. CASE W!Step
        BY <2>1, <3>1, <3>2, WebStepKeepsInv, WebSameBounds DEF WebIInv
      <3>3. CASE UNCHANGED <<mix, s>>
        <4>1. WebInv(s') /\ WebMixOK
          BY <3>1, <3>3 DEF WebIInv
        <4> QED BY <2>1, <4>1, WebSameBounds
      <3> QED BY <3>1, <3>2, <3>3
    <2> QED BY <2>2, <2>3
  <1>3. Inv => ClientsHonest
    BY RustInvIsSafe, WebInvIsSafe DEF ClientsHonest, C!On, W!On
  <1> QED BY <1>1, <1>2, <1>3, PTL DEF Spec
=============================================================================
