------------------------------- MODULE Vectors -------------------------------
(***************************************************************************)
(* One vector of an organization: its SQLite head, its outbox row, its     *)
(* ledger of physical versions that were ever sent, the delivery turn      *)
(* (CdbVectorRuntime.maintain) and the Vectorize index it talks to.        *)
(*                                                                         *)
(* A physical record is named by the version number alone: the vector id   *)
(* is a hash of resource, organization and row, and a row that is deleted  *)
(* and written again starts at version 1.  `inc` counts such lives of one  *)
(* vector, so that a record of an earlier life can be told apart.          *)
(*                                                                         *)
(* Time is abstracted to the deadlines that pass: a lease that is over, an *)
(* attempt whose settlement (120 s) is over.  The settlement assumption of *)
(* the code is explicit: an upsert request the provider has not accepted   *)
(* by then is never accepted.  mix.linger = FALSE adds that a delete       *)
(* request does not outlive the lease (30 s) of its claim.                 *)
(***************************************************************************)
EXTENDS Naturals, Sequences, FiniteSets

CONSTANT Mixes  \* bounds and faults: see MCResources

VARIABLES mix, s

vars == <<mix, s>>
On == mix.part = "vectors"

Vers == 1..mix.ops
NoAttempt == [sent |-> FALSE]
Null == {0}
Attempt == [settled : BOOLEAN, visible : BOOLEAN, amb : BOOLEAN, gone : BOOLEAN, tok : BOOLEAN]
Sent(st) == {v \in DOMAIN st.att : st.att[v] # NoAttempt}
NoOutbox == [op |-> "none"]
Fresh(op) == [op |-> op, phase |-> "submit", mid |-> 0, ids |-> Null, lease |-> "none",
              attempts |-> 0, accSettled |-> TRUE, defer |-> FALSE, terminal |-> FALSE]
Idle == [at |-> "idle"]
Searchable(st) == IF st.head.st = "ready" THEN <<st.head.inc, st.head.ver>> ELSE <<0, 0>>

Init ==
  /\ mix \in Mixes
  /\ s = [head |-> [st |-> "none", ver |-> 0, del |-> 0, inc |-> 0], out |-> NoOutbox,
          att |-> [v \in Vers |-> NoAttempt], dead |-> FALSE, turns |-> 0, run |-> Idle,
          store |-> [v \in Vers |-> 0], queue |-> <<>>, mark |-> 0, wire |-> {},
          ops |-> 0, faults |-> 0, owed |-> FALSE, seen |-> <<0, 0>>,
          search |-> [at |-> "idle"]]

-----------------------------------------------------------------------------
(* Staging, in the user's transaction. *)

Coalesce(st, op) ==
  [st EXCEPT !.out = Fresh(op),
             !.att = [v \in DOMAIN st.att |-> IF st.att[v] = NoAttempt THEN NoAttempt
                                              ELSE [st.att[v] EXCEPT !.tok = FALSE]]]

StageUpsert(st) ==
  LET h == st.head IN
  Coalesce([st EXCEPT !.head = IF h.st = "none"
              THEN [st |-> "pending", ver |-> 1, del |-> 0, inc |-> h.inc + 1]
              ELSE [h EXCEPT !.st = "pending", !.ver = @ + 1]], "upsert")

StageDelete(st) ==
  IF st.head.st = "deleting" THEN st
  ELSE Coalesce([st EXCEPT !.head.st = "deleting", !.head.ver = @ + 1], "delete")

(* A vector change that was visible to searches wakes the live searches. *)
WakesNever(st) == st.owed
Wakes(st) == st.owed \/ (mix.search /\ st.head.st = "ready")

SetVector ==
  /\ s.ops < mix.ops /\ ~s.dead
  /\ s' = [StageUpsert(s) EXCEPT !.ops = @ + 1, !.owed = Wakes(s)]

DeleteVector ==
  /\ s.ops < mix.ops /\ ~s.dead /\ s.head.st \in {"pending", "ready"}
  /\ s' = [StageDelete(s) EXCEPT !.ops = @ + 1, !.owed = Wakes(s)]

FenceOrganization ==
  /\ mix.purge /\ ~s.dead
  /\ s' = [s EXCEPT !.dead = TRUE]

FailedUnproven(st) == st.dead /\ st.head.st = "deleting" /\ st.out # NoOutbox /\ st.out.terminal

StagePage ==
  /\ s.dead /\ ~FailedUnproven(s) /\ s.head.st \in {"pending", "ready"}
  /\ s' = StageDelete(s)

-----------------------------------------------------------------------------
(* claimNext and the claim transaction of maintain. *)

RelevantAll(st) == {v \in Sent(st) : ~st.att[v].gone}
Relevant(st) ==                                  \* what this delete is about
  {v \in Sent(st) : ~st.att[v].gone /\ (st.head.st = "ready" => v < st.head.ver)}
Lowest(set, n) == {v \in set : Cardinality({w \in set : w <= v}) <= n}
AllSettledAlways(st, set) == TRUE
AllSettled(st, set) == \A v \in set : st.att[v].settled
Cap(n) == IF n > mix.polls + 1 THEN mix.polls + 1 ELSE n

Due(st) ==
  /\ st.out # NoOutbox /\ ~st.out.terminal
  /\ st.out.lease \in {"none", "expired"}
  /\ st.out.defer => st.out.accSettled /\ AllSettled(st, Relevant(st))

Claim(st, ids, proven) ==
  [op |-> st.out.op, phase |-> st.out.phase, mid |-> st.out.mid, tgt |-> st.head.ver,
   inc |-> st.head.inc, ids |-> ids, proven |-> proven,
   mode |-> IF st.head.st = "ready" THEN "cleanup" ELSE "delete", attempt |-> Cap(st.out.attempts + 1)]

Leased(st, ids, proven) ==
  [st EXCEPT !.out.lease = "held", !.out.attempts = Cap(@ + 1), !.out.defer = FALSE,
             !.run = [at |-> "claimed", claim |-> Claim(st, ids, proven),
                      receipt |-> "none", visible |-> "none"]]

ClaimUpsert ==
  /\ s.run = Idle /\ Due(s) /\ s.out.op = "upsert" /\ ~s.dead
  /\ LET v == s.head.ver
         known == s.att[v] # NoAttempt IN
     /\ s.out.phase = "submit" => known \/ Cardinality(Sent(s)) < mix.ledger
     /\ s' = [Leased(s, {}, FALSE) EXCEPT
                !.att[v] = IF s.out.phase = "verify" THEN @
                           ELSE [settled |-> FALSE, gone |-> FALSE, tok |-> FALSE,
                                 visible |-> known /\ s.att[v].visible, amb |-> known /\ s.att[v].amb]]

ClaimDelete ==
  /\ s.run = Idle /\ Due(s) /\ s.out.op = "delete"
  /\ LET first == s.out.ids = Null
         ids == IF first THEN Lowest(Relevant(s), mix.page) ELSE s.out.ids
         proven == ~first /\ ids # {} /\ \A v \in ids : s.att[v].gone
         mine == IF proven THEN {} ELSE ids IN
     /\ first => AllSettled(s, Relevant(s))
     /\ s' = [Leased(s, mine, proven) EXCEPT
                !.out.ids = ids,
                !.att = [v \in DOMAIN s.att |-> IF s.att[v] = NoAttempt THEN NoAttempt
                                                ELSE [s.att[v] EXCEPT !.tok = v \in mine]]]

-----------------------------------------------------------------------------
(* The external call. *)

Request(c) == [op |-> c.op, vers |-> IF c.op = "upsert" THEN {c.tgt} ELSE c.ids, inc |-> c.inc, late |-> FALSE]
Goto(st, at) == [st EXCEPT !.run.at = at]

Deliver ==
  /\ s.run.at = "claimed"
  /\ LET c == s.run.claim IN
     s' = CASE c.op = "upsert" /\ s.dead -> Goto(s, "error")
            [] c.phase = "submit" /\ c.op = "delete" /\ c.ids = {} ->
                 [Goto(s, "settle") EXCEPT !.run.receipt = "processed"]
            [] c.phase = "submit" -> [Goto(s, "wait") EXCEPT !.wire = @ \cup {Request(c)}]
            [] c.proven -> Goto(s, "settle")
            [] c.op = "delete" -> Goto(s, "describe")
            [] OTHER -> Goto(s, "get")

Apply(store, r) == [v \in DOMAIN store |-> IF v \notin r.vers THEN store[v]
                                           ELSE IF r.op = "upsert" THEN r.inc ELSE 0]

Awaited(st, r) == st.run.at = "wait" /\ r = Request(st.run.claim)

(* Mutation ids only need to differ from every id that is remembered. *)
UsedIds(st) == {st.mark} \cup {st.queue[i].id : i \in DOMAIN st.queue}
               \cup (IF st.out = NoOutbox THEN {} ELSE {st.out.mid})
               \cup (IF st.run = Idle THEN {} ELSE {st.run.claim.mid})
NewId(st) == CHOOSE n \in 1..(Cardinality(UsedIds(st)) + 1) : n \notin UsedIds(st)

(* The provider takes a request. *)
Taken(st, r) ==
  IF mix.v1 THEN [st EXCEPT !.wire = @ \ {r}, !.store = Apply(@, r)]
  ELSE [st EXCEPT !.wire = @ \ {r}, 
                  !.queue = Append(@, [req |-> r, id |-> NewId(st)])]

Accept(r) ==
  /\ Awaited(s, r)
  /\ s' = [Goto(Taken(s, r), "settle") EXCEPT
              !.run.receipt = IF mix.v1 THEN "processed" ELSE "accepted",
              !.run.claim.mid = IF mix.v1 THEN @ ELSE NewId(s)]

LoseAnswer(r) ==
  /\ Awaited(s, r) /\ s.faults < mix.faults
  /\ s' = [Taken(s, r) EXCEPT !.faults = @ + 1]

AcceptLate(r) == ~Awaited(s, r) /\ s' = Taken(s, r)

Drop(r) ==
  /\ r \in s.wire /\ s.faults < mix.faults
  /\ s' = [s EXCEPT !.wire = @ \ {r}, !.faults = @ + 1]

Process ==
  /\ s.queue # <<>>
  /\ s' = [s EXCEPT !.store = Apply(@, Head(s.queue).req), !.mark = Head(s.queue).id, !.queue = Tail(@)]

(* A mutation of another vector of the index is processed. *)
OtherMutation ==
  /\ mix.busy /\ s.mark # 0
  /\ s' = [s EXCEPT !.mark = 0]

Describe ==
  /\ s.run.at = "describe"
  /\ s' = IF s.mark = s.run.claim.mid THEN Goto(s, "get")
          ELSE [Goto(s, "settle") EXCEPT !.run.visible = "no"]

GetByIds ==
  /\ s.run.at = "get"
  /\ LET c == s.run.claim
         found == {v \in Request(c).vers : s.store[v] # 0} IN
     s' = CASE c.op = "upsert" /\ found # {} /\ s.store[c.tgt] # c.inc -> Goto(s, "error")
            [] OTHER -> [Goto(s, "settle") EXCEPT
                           !.run.visible = IF (found = {}) = (c.op = "delete") THEN "yes" ELSE "no"]

(* The call fails at once, or is abandoned at the lease deadline. *)
Expire(out) == IF out # NoOutbox /\ out.lease = "held" THEN [out EXCEPT !.lease = "expired"] ELSE out
Lingers(st) == \E r \in st.wire : r.op = "delete" /\ ~mix.linger

CallFails ==
  /\ s.run.at \in {"describe", "get"} \/ (s.run.at = "wait" /\ Request(s.run.claim) \in s.wire)
  /\ s.faults < mix.faults
  /\ \E late \in BOOLEAN :
       s' = [Goto(s, "error") EXCEPT !.out = IF late THEN Expire(@) ELSE @, !.faults = @ + 1,
               !.wire = IF mix.linger THEN @ ELSE {r \in @ : r.op = "upsert"}]

CallTimesOut ==
  /\ s.run.at = "wait" /\ Request(s.run.claim) \notin s.wire
  /\ s' = [Goto(s, "error") EXCEPT !.out = Expire(@)]

-----------------------------------------------------------------------------
(* Settlement. *)

Owns(st) == st.out # NoOutbox /\ st.out.lease = "held"
Ends(st) == [st EXCEPT !.run = Idle, !.wire = {[r EXCEPT !.late = TRUE] : r \in @}]
Untok(st) == [v \in DOMAIN st.att |-> IF st.att[v] = NoAttempt THEN NoAttempt
                                      ELSE [st.att[v] EXCEPT !.tok = FALSE]]

UnsettledNever(st) == FALSE

Unsettled(st) ==
  LET c == st.run.claim IN
  \/ \E v \in Sent(st) : v < c.tgt /\ ~st.att[v].gone /\ ~st.att[v].settled
  \/ c.phase = "verify" /\ ~st.out.accSettled

Uncertain(st) == \E v \in Sent(st) : LET a == st.att[v] IN
                   a.tok /\ ~a.gone /\ (~a.visible \/ a.amb)

AcceptSubmissionUnrecorded(st) == [st EXCEPT !.out.lease = "none"]
AcceptSubmission(st) ==
  [st EXCEPT !.att = Untok(st), !.out.phase = "verify", !.out.mid = st.run.claim.mid,
             !.out.accSettled = FALSE, !.out.lease = "none", !.out.defer = FALSE,
             !.out.ids = IF st.run.claim.op = "delete" THEN st.run.claim.ids ELSE Null]

FailClaim(st, defer) ==
  LET c == st.run.claim
      a == Untok(st) IN
  [st EXCEPT !.out.lease = "none", !.out.defer = defer,
             !.att = IF c.op = "upsert" /\ c.phase = "submit" THEN [a EXCEPT ![c.tgt].amb = TRUE] ELSE a]

Terminal(st) == [st EXCEPT !.att = Untok(st), !.out.lease = "none", !.out.terminal = TRUE]

RecordUnprovenTurn(st) ==
  IF st.dead THEN [st EXCEPT !.turns = IF @ < mix.turns THEN @ + 1 ELSE @] ELSE st
NeverTerminal(st) == FALSE
UnprovenTurnIsTerminal(st) ==
  LET c == st.run.claim IN
  IF st.dead THEN RecordUnprovenTurn(st).turns = mix.turns
  ELSE c.phase = "verify" /\ c.attempt >= mix.polls + 1

AcknowledgeUpsert(st) ==
  LET c == st.run.claim
      done == [st EXCEPT !.head.st = "ready", !.head.del = c.tgt, !.att[c.tgt].visible = TRUE,
                         !.owed = mix.search] IN
  [done EXCEPT !.out = IF \E v \in Sent(st) : v < c.tgt /\ ~st.att[v].gone THEN Fresh("delete")
                       ELSE NoOutbox]

AcknowledgeDeleteKeepsOutbox(st) == [st EXCEPT !.head.st = "none", !.out.lease = "none"]

AcknowledgeDelete(st) ==
  LET c == st.run.claim
      gone == [v \in DOMAIN st.att |-> IF v \in c.ids THEN [st.att[v] EXCEPT !.gone = TRUE, !.tok = FALSE]
                                       ELSE st.att[v]]
      kept == [v \in DOMAIN gone |-> IF c.mode = "cleanup" /\ v < c.tgt /\ gone[v] # NoAttempt /\ gone[v].gone
                                     THEN NoAttempt ELSE gone[v]]
      after == [st EXCEPT !.att = kept] IN
  IF Relevant(after) # {} THEN [after EXCEPT !.out = [Fresh("delete") EXCEPT !.attempts = st.out.attempts]]
  ELSE IF c.mode = "cleanup" THEN [after EXCEPT !.out = NoOutbox]
  ELSE [after EXCEPT !.out = NoOutbox, !.head.st = "none", !.head.ver = 0, !.head.del = 0,
                     !.att = [v \in DOMAIN kept |-> NoAttempt], !.owed = mix.search]

Proven(r) == r.claim.op = "delete" /\ (r.claim.proven \/ r.receipt = "processed" \/ r.visible = "yes")

(* The first transaction: the proof is durable before it is used. *)
NeedsProof(r) == Proven(r) /\ r.claim.phase = "verify" /\ ~r.claim.proven /\ r.claim.ids # {}

RecordDeleteProof ==
  /\ s.run.at = "settle" /\ NeedsProof(s.run)
  /\ s' = IF ~Owns(s) THEN Goto(s, "error")
          ELSE [s EXCEPT !.att = [v \in DOMAIN s.att |->
                                    IF v \in s.run.claim.ids THEN [s.att[v] EXCEPT !.gone = TRUE, !.tok = FALSE]
                                    ELSE s.att[v]],
                         !.run.claim.proven = TRUE, !.run.claim.ids = {}]

Settled(st) ==
  LET r == st.run
      c == r.claim
      open == c.op = "delete" /\ ~Proven(r) IN
  CASE r.receipt = "accepted" -> AcceptSubmission(st)
    [] open /\ Unsettled(st) -> FailClaim(st, TRUE)
    [] open /\ Uncertain(st) -> Terminal(RecordUnprovenTurn(st))
    [] r.visible = "no" /\ open /\ UnprovenTurnIsTerminal(st) -> Terminal(RecordUnprovenTurn(st))
    [] r.visible = "no" -> FailClaim(IF open THEN RecordUnprovenTurn(st) ELSE st, FALSE)
    [] c.op = "upsert" -> AcknowledgeUpsert(st)
    [] OTHER -> AcknowledgeDelete(st)

Settle ==
  /\ s.run.at = "settle" /\ ~NeedsProof(s.run)
  /\ s' = IF ~Owns(s) \/ (s.run.claim.op = "upsert" /\ s.dead) THEN Goto(s, "error")
          ELSE Ends(Settled(s))

Failed(st) ==
  LET c == st.run.claim
      open == c.op = "delete" /\ ~Proven(st.run) IN
  CASE st.out = NoOutbox \/ (c.op = "upsert" /\ st.dead) -> st
    [] st.out.lease \notin {"held", "expired"} \/ (open /\ st.out.lease = "expired") -> st
    [] open /\ Unsettled(st) -> FailClaim(st, TRUE)
    [] open /\ UnprovenTurnIsTerminal(st) -> Terminal(RecordUnprovenTurn(st))
    [] OTHER -> FailClaim(IF open THEN RecordUnprovenTurn(st) ELSE st, FALSE)

HandleError == s.run.at = "error" /\ s' = Ends(Failed(s))

-----------------------------------------------------------------------------
(* Restarts and time. *)

Crash ==
  /\ s.run # Idle /\ s.faults < mix.faults
  /\ s' = [Ends(s) EXCEPT !.faults = @ + 1]

LeaseExpires ==
  /\ s.out # NoOutbox /\ s.out.lease = "held" /\ ~Lingers(s)
  /\ s.run.at \notin {"wait", "describe", "get"}          \* there it is CallFails
  /\ s.run # Idle => s.faults < mix.faults
  /\ s' = [s EXCEPT !.out.lease = "expired", !.faults = IF s.run = Idle THEN @ ELSE @ + 1]

Settles(v) ==
  /\ v \in Sent(s) /\ ~s.att[v].settled
  /\ ~\E r \in s.wire : r.op = "upsert" /\ v \in r.vers
  /\ s.run # Idle => s.run.claim.op = "delete" \/ s.run.claim.tgt # v
  /\ s' = [s EXCEPT !.att[v].settled = TRUE]

AcceptedSettles ==
  /\ s.out # NoOutbox /\ ~s.out.accSettled
  /\ s' = [s EXCEPT !.out.accSettled = TRUE]

-----------------------------------------------------------------------------
(* Searches. *)

Query ==
  /\ mix.search /\ s.search.at = "idle"
  /\ s' = [s EXCEPT !.search = [at |-> "asked", since |-> <<s.head.inc, s.head.ver>>,
                                ids |-> {v \in DOMAIN s.store : s.store[v] # 0}, found |-> <<0, 0>>]]

ValidateStale(st) == {v \in st.search.ids : st.head.st = "ready"}
ValidateMatches(st) == {v \in st.search.ids : st.head.st = "ready" /\ st.head.ver = v /\ st.head.del = v}

Resolve ==
  /\ s.search.at = "asked" /\ ~s.dead
  /\ s' = [s EXCEPT !.search.at = "done",
                    !.search.found = IF ValidateMatches(s) = {} THEN <<0, 0>>
                                     ELSE <<s.head.inc, CHOOSE v \in ValidateMatches(s) : TRUE>>]

(* A live search is told of the change and fetches again. *)
Refetch ==
  /\ s.owed
  /\ s' = [s EXCEPT !.owed = FALSE, !.seen = Searchable(s)]

-----------------------------------------------------------------------------
Work == Deliver \/ Describe \/ GetByIds \/ RecordDeleteProof \/ Settle \/ HandleError
Provider == \E r \in s.wire : Accept(r) \/ AcceptLate(r)

Step ==
  \/ SetVector \/ DeleteVector \/ FenceOrganization \/ StagePage
  \/ ClaimUpsert \/ ClaimDelete \/ Deliver \/ Describe \/ GetByIds
  \/ RecordDeleteProof \/ Settle \/ HandleError
  \/ (\E r \in s.wire : Accept(r) \/ LoseAnswer(r) \/ AcceptLate(r) \/ Drop(r))
  \/ Process \/ OtherMutation \/ CallFails \/ CallTimesOut \/ Crash \/ LeaseExpires
  \/ (\E v \in DOMAIN s.att : Settles(v)) \/ AcceptedSettles
  \/ Query \/ Resolve \/ Refetch

Next == On /\ Step /\ UNCHANGED mix
Spec == Init /\ [][Next]_vars

(* The alarm runs until nothing is due, deadlines pass, the provider takes *)
(* and processes what reaches it.  Refetch is the Cdb's own outbox.        *)
Fairness ==
  /\ WF_s(On /\ (ClaimUpsert \/ ClaimDelete)) /\ WF_s(On /\ Work)
  /\ WF_s(On /\ Provider) /\ WF_s(On /\ Process) /\ WF_s(On /\ CallTimesOut)
  /\ WF_s(On /\ LeaseExpires) /\ WF_s(On /\ AcceptedSettles) /\ WF_s(On /\ StagePage)
  /\ WF_s(On /\ \E v \in DOMAIN s.att : Settles(v))

FairSpec == Spec /\ Fairness

-----------------------------------------------------------------------------
(* Upserts of version v that the index holds or may still take. *)
Upserts(v) ==
  {s.store[v]} \cup {r.inc : r \in {q \in s.wire : q.op = "upsert" /\ v \in q.vers}}
  \cup {s.queue[i].req.inc : i \in {k \in DOMAIN s.queue : s.queue[k].req.op = "upsert" /\ v \in s.queue[k].req.vers}}

TypeOK ==
  /\ mix \in Mixes
  /\ s.head.st \in {"none", "pending", "ready", "deleting"}
  /\ s.head.st # "none" => s.head.ver \in 1..(mix.ops + 1) /\ (s.head.st = "ready" <=> s.head.del = s.head.ver)
  /\ s.out # NoOutbox => s.head.st # "none" /\ s.out.lease \in {"none", "held", "expired"}
  /\ \A v \in Vers : s.att[v] = NoAttempt \/ s.att[v] \in Attempt
  /\ s.run.at \in {"idle", "claimed", "wait", "describe", "get", "settle", "error"}

(* A head that reads `ready` is in the index under its own version with    *)
(* its own values, and stays there: no clean-up of older versions, repeated *)
(* or late request and no earlier life of the row takes it out.            *)
ReadyIsSearchable ==
  s.head.st = "ready" => s.store[s.head.ver] = s.head.inc

(* Whatever the index holds, or may still take in, is an attempt of the    *)
(* current life of the vector in the ledger, so a deletion will find it;   *)
(* a vector whose head is gone has left nothing behind.                    *)
Accounted ==
  \A v \in Vers : \A i \in Upserts(v) \ {0} :
    /\ s.head.st # "none" /\ i = s.head.inc
    /\ s.att[v] # NoAttempt /\ ~s.att[v].gone

(* Manual intervention is asked for only once no upsert of a version that  *)
(* is to be removed can reach the index any more, and an accepted deletion *)
(* has had its own settlement time.                                        *)
TerminalIsSettled ==
  s.out # NoOutbox /\ s.out.terminal =>
    /\ ~\E r \in s.wire : r.op = "upsert" /\ \E v \in r.vers : v < s.head.ver
    /\ s.out.accSettled

(* A search never returns a version older than the one that was current    *)
(* when it started, although its candidates were fetched before the head   *)
(* is read.                                                                *)
SearchNeverOlder ==
  s.search.at = "done" /\ s.search.found # <<0, 0>> =>
    \/ s.search.found[1] > s.search.since[1]
    \/ s.search.found[1] = s.search.since[1] /\ s.search.found[2] >= s.search.since[2]

(* A live search shows what a search would find now, or is owed a refetch. *)
LiveSearchOwed == mix.search /\ ~s.dead /\ ~s.owed => s.seen = Searchable(s)

(* A staged vector becomes searchable unless it is changed again. *)
PendingEnds ==
  (On /\ s.head.st = "pending") ~> (On /\ s.head.st # "pending")

(* A deletion ends with nothing left or with a reported terminal failure,  *)
(* unless the row is written again.                                        *)
DeletionEnds ==
  (On /\ s.head.st = "deleting") ~> (On /\ (s.head.st # "deleting" \/ s.out.terminal))

(* What the outbox claims of the index holds of the index. *)
Safe == TypeOK /\ ReadyIsSearchable /\ Accounted /\ TerminalIsSettled /\ SearchNeverOlder /\ LiveSearchOwed

(* Whatever it takes on ends. *)
AllEnds == PendingEnds /\ DeletionEnds
=============================================================================
