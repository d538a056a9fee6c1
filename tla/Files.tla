-------------------------------- MODULE Files --------------------------------
(***************************************************************************)
(* The files of one organization: uploads that reserve a name, store       *)
(* content-addressed bytes and mark the name ready, rows that attach and   *)
(* release ready files inside their own transactions, downloads that read  *)
(* the row twice around the object, the fence of a deleted organization,   *)
(* and the maintenance turn that expires and deletes.                      *)
(*                                                                         *)
(* A file's name is the digest of caller, column and idempotency key, so a *)
(* retry after the file has been deleted starts a new life of the same     *)
(* name.  Bytes are their digest.  An instant is one turn of the Cdb;      *)
(* mix.ttl stands for CDB_FILE_PENDING_TTL_MS.                             *)
(***************************************************************************)
EXTENDS Naturals, FiniteSets, Sequences, SequencesExt, FiniteSetsExt

CONSTANT Mixes  \* bounds and faults: see MCResources

VARIABLES mix, s

vars == <<mix, s>>
On == mix.part = "files"

Names == 1..mix.names
Contents == 1..mix.contents
Rows == 1..mix.rows
Uploads == 1..mix.uploads
None == 0
Never == mix.time + mix.ttl + 1                   \* no alarm

NoFile == [st |-> "none", hash |-> None, row |-> None, at |-> 0]
Idle == [at |-> "idle"]
Turns == {"alarm", "mutation"}

Init ==
  /\ mix \in Mixes
  /\ s = [files |-> [f \in Names |-> NoFile], rows |-> [r \in Rows |-> None], life |-> [f \in Names |-> 0],
          deleted |-> FALSE, retained |-> {}, epoch |-> 1, clock |-> 0, alarm |-> Never, asleep |-> FALSE,
          up |-> [u \in Uploads |-> Idle], down |-> Idle, turn |-> [t \in Turns |-> Idle],
          answers |-> {}, served |-> {}, faults |-> 0, muts |-> 0, broken |-> FALSE]

File(f) == s.files[f]
Fault == s.faults < mix.faults
ScheduleNoLaterThan(st, at) == [st EXCEPT !.alarm = IF at < @ THEN at ELSE @]

-----------------------------------------------------------------------------
(* An upload request.  Its clock is read once; the route is refreshed      *)
(* after the bytes are stored, and a stale route is retried once.          *)

StartUpload(u) ==
  /\ s.up[u].at = "idle" /\ s.clock + mix.ttl <= mix.time
  /\ \A v \in Uploads : v < u => s.up[v].at # "idle"      \* numbered in the order they start
  /\ \E f \in Names, h \in Contents :
       s' = [s EXCEPT !.up[u] = [at |-> "reserve", f |-> f, h |-> h, now |-> s.clock, route |-> s.epoch, tries |-> 1]]

Ends(st, u) == [st EXCEPT !.up[u] = [at |-> "ended"]]
Stale(st, u) ==
  IF st.up[u].tries = 1
  THEN [st EXCEPT !.up[u] = [@ EXCEPT !.at = "reserve", !.route = st.epoch, !.tries = 2]]
  ELSE Ends(st, u)

Pending == Cardinality({f \in Names : File(f).st = "pending"})
Materialized(f) == File(f).st \in {"ready", "attached"}

(* reserve: a name that is not being deleted is reserved again, and a      *)
(* pending one gets its lease renewed.                                     *)
Reserve(u) ==
  LET p == s.up[u]
      new == [st |-> "pending", hash |-> None, row |-> None, at |-> p.now]
      reserved == CASE File(p.f).st = "none" -> [s EXCEPT !.files[p.f] = new, !.life[p.f] = @ + 1]
                    [] File(p.f).st = "pending" -> [s EXCEPT !.files[p.f].at = IF p.now > @ THEN p.now ELSE @]
                    [] OTHER -> s IN
  /\ p.at = "reserve"
  /\ s' = IF p.route # s.epoch THEN Stale(s, u)
          ELSE IF s.deleted \/ File(p.f).st = "deleting" \/ (File(p.f).st = "none" /\ Pending >= mix.pending) THEN Ends(s, u)
          ELSE ScheduleNoLaterThan([reserved EXCEPT !.up[u].at = "put"], p.now + mix.ttl)

PutSkipped(u) ==
  /\ s.up[u].at = "put"
  /\ s' = [s EXCEPT !.up[u].at = "refresh"]
Put(u) ==
  /\ s.up[u].at = "put"
  /\ s' = [s EXCEPT !.retained = @ \cup {s.up[u].h}, !.up[u].at = "refresh"]

PutFails(u) ==
  /\ s.up[u].at = "put" /\ Fault
  /\ s' = [Ends(s, u) EXCEPT !.faults = @ + 1]

Refresh(u) ==
  /\ s.up[u].at = "refresh"
  /\ s' = IF s.up[u].route = s.epoch THEN [s EXCEPT !.up[u].at = "ready"] ELSE Stale(s, u)

Later(a, b) == IF a > b THEN a ELSE b
MarkReadyAgain(f, h) == Materialized(f)
SameContent(f, h) == Materialized(f) /\ File(f).hash = h
(* markReady: of two contents under one name the first one ready wins. *)
MarkReady(u) ==
  LET p == s.up[u]
      answered == [Ends(s, u) EXCEPT !.answers = @ \cup {[f |-> p.f, life |-> s.life[p.f], h |-> p.h]}] IN
  /\ p.at = "ready"
  /\ s' = IF p.route # s.epoch THEN Stale(s, u)
          ELSE IF s.deleted \/ File(p.f).st \in {"none", "deleting"} THEN Ends(s, u)
          ELSE IF Materialized(p.f) THEN IF SameContent(p.f, p.h) THEN answered ELSE Ends(s, u)
          ELSE [answered EXCEPT !.files[p.f].st = "ready", !.files[p.f].hash = p.h, !.files[p.f].at = Later(@, p.now)]

-----------------------------------------------------------------------------
(* Mutations.  The alarm is armed before the transaction; the triggers     *)
(* attach and release files inside it; maintenance runs after it.          *)

Attachable(f) == File(f).st = "ready" /\ ~s.deleted
ReleaseRow(files, r) ==
  IF s.rows[r] = None THEN files
  ELSE [files EXCEPT ![s.rows[r]] = IF @.st = "attached" /\ @.row = r THEN [@ EXCEPT !.st = "deleting", !.at = s.clock]
                                    ELSE @]
Committed(st) == ScheduleNoLaterThan([st EXCEPT !.muts = @ + 1, !.asleep = FALSE, !.turn["mutation"] = [at |-> "expire"]],
                                     s.clock)
Writes == s.muts < mix.muts /\ s.turn["mutation"].at = "idle" /\ ~s.deleted

SetFile(r, f) ==
  /\ Writes /\ Attachable(f)
  /\ s' = Committed([s EXCEPT !.rows[r] = f,
                              !.files = [ReleaseRow(s.files, r) EXCEPT ![f].st = "attached", ![f].row = r, ![f].at = s.clock]])

ClearFile(r) ==
  /\ Writes /\ s.rows[r] # None
  /\ s' = Committed([s EXCEPT !.rows[r] = None, !.files = ReleaseRow(s.files, r)])

(* The fence of a deleted organization queues one batch; pending uploads   *)
(* keep their lease.                                                       *)
Older(x, y) == File(x).at < File(y).at \/ (File(x).at = File(y).at /\ x < y)
Batch(set) == {x \in set : Cardinality({y \in set : Older(y, x)}) < mix.batch}
Deleting(files, set) == [f \in Names |-> IF f \in set THEN [files[f] EXCEPT !.st = "deleting", !.at = Later(@, s.clock)]
                                         ELSE files[f]]
FenceOrganization ==
  /\ mix.purge /\ ~s.deleted
  /\ s' = ScheduleNoLaterThan([s EXCEPT !.deleted = TRUE, !.asleep = FALSE,
                                        !.files = Deleting(@, Batch({f \in Names : Materialized(f)}))], s.clock + 1)

-----------------------------------------------------------------------------
(* The maintenance turn.  The expiry transitions and the list of objects   *)
(* to delete are one synchronous step; every object is then deleted across *)
(* a call to the bucket, and its row is read again before it is released.  *)

ExpiredNever(f) == File(f).st = "pending" /\ File(f).at + mix.ttl <= s.clock
Expired(f) == File(f).st \in {"pending", "ready"} /\ File(f).at + mix.ttl <= s.clock
Tombstoned(f) == s.deleted /\ Materialized(f)
UnattachedPending(files) == {f \in Names : files[f].st = "pending"}
Unattached(files) == {f \in Names : files[f].st \in {"pending", "ready"}}
NextExpiry(files) == IF Unattached(files) = {} THEN Never ELSE Min({files[f].at + mix.ttl : f \in Unattached(files)})

(* The last instant of the clock stands for every later one. *)
Due == IF s.clock = mix.time THEN s.alarm # Never ELSE s.alarm <= s.clock
AlarmFires ==
  /\ s.turn["alarm"].at = "idle" /\ Due
  /\ s' = [s EXCEPT !.alarm = Never, !.turn["alarm"] = [at |-> "expire"]]

Expire(t) ==
  /\ s.turn[t].at = "expire"
  /\ LET files == Deleting(s.files, Batch({f \in Names : Expired(f) \/ Tombstoned(f)}))
         due == {f \in Names : files[f].st = "deleting"} IN
     s' = [s EXCEPT !.files = files, !.asleep = FALSE,
                    !.turn[t] = [at |-> "delete", now |-> s.clock, next |-> NextExpiry(files), retry |-> FALSE,
                                 todo |-> {x \in due : Cardinality({y \in due : y < x}) < mix.batch}]]

(* deleteRecoverableFile keeps the retained copy and drops the live key. *)
DeleteObject(t, f) ==
  /\ s.turn[t].at = "delete" /\ f \in s.turn[t].todo
  /\ s' = [s EXCEPT !.turn[t] = [at |-> "release", now |-> @.now, next |-> @.next, retry |-> @.retry, todo |-> @.todo, f |-> f]]

DeleteFails(t, f) ==
  /\ s.turn[t].at = "delete" /\ f \in s.turn[t].todo /\ Fault
  /\ s' = [s EXCEPT !.turn[t].todo = @ \ {f}, !.turn[t].retry = TRUE, !.faults = @ + 1]

ReleaseAny(f) == File(f).st # "none"
ReleaseOk(f) == File(f).st = "deleting"
CompleteDelete(t) ==
  /\ s.turn[t].at = "release"
  /\ LET f == s.turn[t].f IN
     s' = [s EXCEPT !.files[f] = IF ReleaseOk(f) THEN NoFile ELSE @,
                    !.turn[t] = [at |-> "delete", now |-> @.now, next |-> @.next, retry |-> @.retry, todo |-> @.todo \ {f}]]

Remaining == \E f \in Names : File(f).st = "deleting" \/ Tombstoned(f)
FinishTurn(t) ==
  /\ s.turn[t].at = "delete" /\ s.turn[t].todo = {}
  /\ LET again == IF s.turn[t].retry \/ Remaining THEN ScheduleNoLaterThan(s, s.turn[t].now + 1) ELSE s
         later == IF s.turn[t].next = Never THEN again
                  ELSE ScheduleNoLaterThan(again, Later(s.turn[t].now + 1, s.turn[t].next)) IN
     s' = [later EXCEPT !.turn[t] = Idle]

(* The object is evicted: a running alarm is delivered again. *)
Crash ==
  /\ Fault /\ \E t \in Turns : s.turn[t].at # "idle"
  /\ s' = [s EXCEPT !.turn = [t \in Turns |-> Idle], !.faults = @ + 1,
                    !.alarm = IF s.turn["alarm"].at # "idle" /\ s.clock < @ THEN s.clock ELSE @]

-----------------------------------------------------------------------------
(* A download: row and file are resolved together, the object is read, and *)
(* both are resolved again.                                                *)

Resolve(r) == IF s.rows[r] = None THEN [ok |-> TRUE, f |-> None, file |-> NoFile]
              ELSE [ok |-> TRUE, f |-> s.rows[r], file |-> File(s.rows[r])]
Matches(r) == s.rows[r] # None => File(s.rows[r]).st = "attached" /\ File(s.rows[r]).row = r

StartDownload(r) ==
  /\ mix.reads /\ s.down.at = "idle" /\ ~s.deleted /\ s.rows[r] # None
  /\ s' = IF Matches(r) THEN [s EXCEPT !.down = [at |-> "read", r |-> r, route |-> s.epoch, got |-> Resolve(r)]]
          ELSE [s EXCEPT !.broken = TRUE]

ReadObject ==
  /\ s.down.at = "read"
  /\ s' = IF s.down.got.file.hash \in s.retained THEN [s EXCEPT !.down.at = "again"]
          ELSE [s EXCEPT !.down = Idle, !.broken = TRUE]

ServeUnchecked ==
  /\ s.down.at = "again"
  /\ s' = [s EXCEPT !.down = Idle,
                    !.served = {[r |-> s.down.r, f |-> s.down.got.f, h |-> s.down.got.file.hash, stale |->
                                 s.deleted \/ s.rows[s.down.r] # s.down.got.f]}]
Serve ==
  /\ s.down.at = "again"
  /\ LET d == s.down
         same == ~s.deleted /\ d.route = s.epoch /\ Matches(d.r) /\ Resolve(d.r) = d.got IN
     s' = [s EXCEPT !.down = Idle,
                    !.served = IF same THEN {[r |-> d.r, f |-> d.got.f, h |-> d.got.file.hash, stale |->
                                              s.deleted \/ s.rows[d.r] # d.got.f]} ELSE @]

-----------------------------------------------------------------------------
Tick == s.clock < mix.time /\ s' = [s EXCEPT !.clock = @ + 1]

(* The organization's range moves: the metadata is the same on the new     *)
(* owner (FileReshard), old routes are stale there, its alarm is not armed *)
(* by the activation and the turns of the old owner stop.                  *)
Move ==
  /\ s.epoch <= mix.moves
  /\ s' = [s EXCEPT !.epoch = @ + 1, !.alarm = Never, !.asleep = TRUE, !.turn = [t \in Turns |-> Idle]]

Turn(t) == Expire(t) \/ (\E f \in Names : DeleteObject(t, f)) \/ CompleteDelete(t) \/ FinishTurn(t)
Uploading(u) == Reserve(u) \/ Put(u) \/ Refresh(u) \/ MarkReady(u)

Step ==
  \/ \E u \in Uploads : StartUpload(u) \/ Uploading(u) \/ PutFails(u)
  \/ \E r \in Rows : (\E f \in Names : SetFile(r, f)) \/ ClearFile(r) \/ StartDownload(r)
  \/ FenceOrganization \/ AlarmFires \/ (\E t \in Turns : Turn(t)) \/ (\E t \in Turns, f \in Names : DeleteFails(t, f))
  \/ Crash \/ ReadObject \/ Serve \/ Tick \/ Move

Next == On /\ Step /\ UNCHANGED mix
Spec == Init /\ [][Next]_vars

(* Alarms are delivered, a started turn ends or is started again, uploads  *)
(* end, and time passes.                                                   *)
Fairness ==
  /\ WF_s(On /\ AlarmFires) /\ WF_s(On /\ Tick)
  /\ WF_s(On /\ \E t \in Turns : Turn(t)) /\ WF_s(On /\ \E u \in Uploads : Uploading(u))
FairSpec == Spec /\ Fairness

-----------------------------------------------------------------------------
TypeOK ==
  /\ mix \in Mixes
  /\ s.files \in [Names -> [st : {"none", "pending", "ready", "attached", "deleting"}, hash : {None} \cup Contents,
                            row : {None} \cup Rows, at : Nat]]
  /\ s.rows \in [Rows -> {None} \cup Names] /\ s.retained \subseteq Contents
  /\ Pending <= mix.pending /\ s.clock \in 0..mix.time /\ s.alarm \in 0..Never

(* While the organization lives, every row that names a file owns it: no   *)
(* expiry, stale maintenance turn, re-upload under the same name or        *)
(* replacement takes the file of a row away, and no two rows share one.    *)
(* (resolveDownload answers CDB_INVARIANT otherwise.)                      *)
RowOwnsFile ==
  /\ ~s.broken
  /\ ~s.deleted => \A r \in Rows : Matches(r)

(* A ready or attached file's bytes are in the bucket: what is visible in  *)
(* SQLite can be downloaded, whatever uploads failed in between.           *)
VisibleIsStored == \A f \in Names : Materialized(f) => File(f).hash \in s.retained

(* Two uploads under one idempotency key that were both answered with      *)
(* success in the same life of the name carried the same bytes, and those  *)
(* are the bytes the file has.                                             *)
OneContent ==
  /\ \A a, b \in s.answers : a.f = b.f /\ a.life = b.life => a.h = b.h
  /\ \A a \in s.answers : s.life[a.f] = a.life /\ Materialized(a.f) => File(a.f).hash = a.h

(* No download returns bytes of a file its row no longer names or of an    *)
(* organization deleted before the second resolution.                      *)
NothingStaleServed == \A d \in s.served : ~d.stale

(* Cleanup is never forgotten: while a file waits for deletion, for its    *)
(* lease to end or for the purge of its organization, an alarm is armed no *)
(* later than that, or a maintenance turn runs that will arm it.  The      *)
(* exception is a range that has just moved: nothing wakes the new owner   *)
(* for the files it received before its next mutation, upload or fence.    *)
CleanupIsArmed ==
  \A f \in Names : \/ File(f).st = "none" \/ (File(f).st = "attached" /\ ~s.deleted) \/ s.asleep
                   \/ s.turn["alarm"].at # "idle" \/ s.turn["mutation"].at # "idle"
                   \/ s.alarm <= (IF File(f).st \in {"pending", "ready"} /\ ~Tombstoned(f)
                                  THEN Later(s.clock + 1, File(f).at + mix.ttl) ELSE s.clock + 1)

Waiting(f) == f \in Names /\ File(f).st \in {"pending", "ready", "deleting"}
(* Every file that is not attached ends, and so does every file of a       *)
(* deleted organization.                                                   *)
CleanupEnds ==
  /\ \A f \in 1..2 : (On /\ Waiting(f)) ~> (On => ~Waiting(f))
  /\ (On /\ s.deleted) ~> (On => \A f \in Names : File(f).st = "none")

(* A visible file has its bytes, one content and one owner, and the rest is cleaned up. *)
Safe == TypeOK /\ RowOwnsFile /\ VisibleIsStored /\ OneContent /\ NothingStaleServed /\ CleanupIsArmed

(* What the bounds are made of. *)
MixesOK ==
  \A m \in Mixes : /\ m.names \in Nat /\ m.contents \in Nat /\ m.rows \in Nat /\ m.uploads \in Nat
                   /\ m.time \in Nat /\ m.ttl \in Nat /\ m.pending \in Nat
=============================================================================
