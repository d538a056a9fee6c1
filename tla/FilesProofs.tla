------------------------------ MODULE FilesProofs ------------------------------
(***************************************************************************)
(* The files of an organization, for every number of names, contents,      *)
(* rows, uploads, instants, movements and faults.                          *)
(*                                                                         *)
(* The argument: a file belongs to a row from the mutation that attaches   *)
(* it to the one that releases it, because expiry takes only files without *)
(* a row, a mutation attaches only ready ones, and a turn that comes back  *)
(* from the bucket reads the row again (RowOwnsFile).  An upload has its   *)
(* bytes stored before it may become ready (UploadsOK), and what it was    *)
(* answered is about one life of the name (AnswersOK).  Everything that    *)
(* waits is covered by the alarm, or by the turn of a delivered alarm that *)
(* remembers the end of the next lease (ArmedOK).                          *)
(***************************************************************************)
EXTENDS Files, FiniteSetTheorems, WellFoundedInduction, TLAPS

-----------------------------------------------------------------------------
(* The types.                                                              *)

FileTypes == [st : {"none", "pending", "ready", "attached", "deleting"}, hash : {None} \cup Contents,
              row : {None} \cup Rows, at : Nat]
Busy == {"reserve", "put", "refresh", "ready"}
UploadTypes == {Idle} \cup [at : {"ended"}]
                 \cup [at : Busy, f : Names, h : Contents, now : Nat, route : Nat, tries : Nat]
Deletes == [at : {"delete"}, now : Nat, next : Nat, retry : BOOLEAN, todo : SUBSET Names]
Releases == [at : {"release"}, now : Nat, next : Nat, retry : BOOLEAN, todo : SUBSET Names, f : Names]
TurnTypes == {Idle} \cup [at : {"expire"}] \cup Deletes \cup Releases
Found == [ok : BOOLEAN, f : {None} \cup Names, file : FileTypes]
Downloads == {Idle} \cup [at : {"read", "again"}, r : Rows, route : Nat, got : Found]
Answers == [f : Names, life : Nat, h : Contents]
Served == [r : Rows, f : {None} \cup Names, h : {None} \cup Contents, stale : BOOLEAN]

States ==
  [files : [Names -> FileTypes], rows : [Rows -> {None} \cup Names], life : [Names -> Nat], deleted : BOOLEAN,
   retained : SUBSET Contents, epoch : Nat, clock : 0..mix.time, alarm : 0..Never, asleep : BOOLEAN,
   up : [Uploads -> UploadTypes], down : Downloads, turn : [Turns -> TurnTypes],
   answers : SUBSET Answers, served : SUBSET Served, faults : Nat, muts : Nat, broken : BOOLEAN]

-----------------------------------------------------------------------------
(* The inductive invariant.                                                *)

\* An upload has its clock and, once past the bucket, its bytes stored.
UploadsOK ==
  \A u \in Uploads : s.up[u].at \in Busy => /\ s.up[u].now <= s.clock /\ s.up[u].now + mix.ttl <= mix.time
                                            /\ s.up[u].at \in {"refresh", "ready"} => s.up[u].h \in s.retained
BytesOK ==
  /\ VisibleIsStored
  /\ s.down.at = "read" => s.down.got.file.hash \in s.retained

\* What was answered in the present life of a name is its content.
AnswersOK ==
  /\ \A a, b \in s.answers : a.f = b.f /\ a.life = b.life => a.h = b.h
  /\ \A a \in s.answers : /\ a.life <= s.life[a.f]
                          /\ s.life[a.f] = a.life => s.files[a.f].st # "pending" /\ (Materialized(a.f) => File(a.f).hash = a.h)

\* The alarm covers the leases and the deletions, or its own turn is still to.
Leased(f) == File(f).st \in {"pending", "ready"}
LeaseCovered(f) ==
  \/ s.asleep
  \/ s.alarm <= Later(s.clock + 1, File(f).at + mix.ttl)
  \/ s.turn["alarm"].at = "expire"
  \/ s.turn["alarm"].at \in {"delete", "release"} /\ s.turn["alarm"].next <= File(f).at + mix.ttl
DeletionCovered == s.asleep \/ s.alarm <= s.clock + 1 \/ s.turn["alarm"].at # "idle"
ArmedOK ==
  /\ s.asleep => s.turn["mutation"].at = "idle"
  /\ \A t \in Turns : s.turn[t].at \in {"delete", "release"} => s.turn[t].now <= s.clock
  /\ \A f \in Names : /\ Leased(f) => File(f).at + mix.ttl <= mix.time
                      /\ Leased(f) /\ ~Tombstoned(f) => LeaseCovered(f)
                      /\ File(f).st = "deleting" \/ Tombstoned(f) => DeletionCovered

MixOK ==
  /\ mix \in Mixes /\ mix.names \in Nat /\ mix.contents \in Nat /\ mix.rows \in Nat /\ mix.uploads \in Nat
  /\ mix.time \in Nat /\ mix.ttl \in Nat /\ mix.pending \in Nat
IInv ==
  /\ MixOK /\ s \in States /\ Pending <= mix.pending
  /\ UploadsOK /\ BytesOK /\ RowOwnsFile /\ AnswersOK /\ NothingStaleServed /\ ArmedOK


-----------------------------------------------------------------------------
\* A step keeps the bounds of its behaviour, and with them the names, contents,
\* rows, uploads and states there are.
LEMMA SameBounds ==
    ASSUME UNCHANGED mix
    PROVE  /\ Names' = Names /\ Contents' = Contents /\ Rows' = Rows /\ Uploads' = Uploads /\ Never' = Never
           /\ States' = States /\ MixOK' = MixOK
  BY DEF Names, Contents, Rows, Uploads, Never, States, MixOK, FileTypes, UploadTypes, TurnTypes, Downloads, Answers,
         Served, Deletes, Releases, Found, Idle, None, Busy, Turns

\* An empty organization: no row has a file, no alarm is needed.
LEMMA InitInv ==
    ASSUME MixesOK, Init, On
    PROVE  IInv
  <1>1. MixOK
    BY DEF MixOK, MixesOK, Init
  <1>2. s \in States
    BY <1>1 DEF MixOK, Init, States, FileTypes, UploadTypes, TurnTypes, Downloads, Idle, NoFile, None, Never
  <1>3. Pending <= mix.pending
    <2>1. {f \in Names : File(f).st = "pending"} = {}
      BY <1>1 DEF Init, File, NoFile
    <2> QED BY <2>1, <1>1, FS_EmptySet DEF Pending, MixOK
  <1>4. UploadsOK /\ BytesOK /\ RowOwnsFile /\ AnswersOK /\ NothingStaleServed /\ ArmedOK
    BY <1>1 DEF Init, UploadsOK, BytesOK, RowOwnsFile, AnswersOK, NothingStaleServed, ArmedOK, VisibleIsStored, Materialized,
      Matches, File, NoFile, Idle, Busy, Leased, Tombstoned, Turns
  <1> QED BY <1>1, <1>2, <1>3, <1>4 DEF IInv

\* The pending limit of CdbFiles holds across a step that makes no file pending.
LEMMA PendingKeeps ==
    ASSUME IInv, UNCHANGED mix, \A f \in Names : s'.files[f].st = "pending" => s.files[f].st = "pending"
    PROVE  Pending' <= mix.pending
  <1> DEFINE A == {f \in Names : File(f).st = "pending"}
             B == {f \in Names : s'.files[f].st = "pending"}
  <1>1. Names' = Names
    BY SameBounds
  <1>2. Pending' = Cardinality(B)
    BY <1>1 DEF Pending, File
  <1>3. IsFiniteSet(A)
    <2>1. IsFiniteSet(Names)
      <3>1. mix.names \in Int /\ 1 \in Int
        BY DEF IInv, MixOK
      <3>2. IsFiniteSet(1..mix.names)
        BY <3>1, FS_Interval, Zenon
      <3> QED BY <3>2 DEF Names
    <2> QED BY <2>1, FS_Subset
  <1>4. B \subseteq A
    BY DEF File
  <1>5. Cardinality(A) <= mix.pending /\ mix.pending \in Nat
    BY DEF IInv, Pending, MixOK
  <1> HIDE DEF A, B
  <1>6. Cardinality(B) <= Cardinality(A) /\ Cardinality(A) \in Nat /\ Cardinality(B) \in Nat
    BY <1>3, <1>4, FS_Subset, FS_CardinalityType
  <1> QED BY <1>2, <1>5, <1>6

-----------------------------------------------------------------------------
(* Uploads.                                                                *)

\* An upload reads its clock when it starts, and every lease it asks for ends
\* before the last instant.
LEMMA StartUploadKeepsInv ==
    ASSUME IInv, UNCHANGED mix, NEW u \in Uploads, StartUpload(u)
    PROVE  IInv'
  <1>1. PICK f \in Names, h \in Contents :
          s' = [s EXCEPT !.up[u] = [at |-> "reserve", f |-> f, h |-> h, now |-> s.clock, route |-> s.epoch, tries |-> 1]]
    BY DEF StartUpload
  <1>2. s \in States /\ MixOK
    BY DEF IInv
  <1>3. s' \in States
    <2> DEFINE p == [at |-> "reserve", f |-> f, h |-> h, now |-> s.clock, route |-> s.epoch, tries |-> 1]
               up == [s.up EXCEPT ![u] = p]
    <2>1. s.clock \in Nat /\ s.epoch \in Nat /\ s.up \in [Uploads -> UploadTypes]
      BY <1>2 DEF States, MixOK
    <2>2. p \in UploadTypes
      BY <2>1 DEF UploadTypes, Busy
    <2>3. s' = [s EXCEPT !.up = up]
      BY <1>1
    <2> HIDE DEF p
    <2>4. up \in [Uploads -> UploadTypes]
      BY <2>1, <2>2
    <2> HIDE DEF up
    <2>5. [s EXCEPT !.up = up] \in States
      BY <1>2, <2>4 DEF States
    <2> QED BY <2>3, <2>5
  <1>4. Pending' <= mix.pending
    BY <1>1, <1>2, PendingKeeps DEF States
  <1>5. UploadsOK'
    BY <1>1, <1>2, SameBounds DEF IInv, UploadsOK, States, StartUpload, Busy, MixOK
  <1>6. BytesOK' /\ RowOwnsFile' /\ AnswersOK' /\ NothingStaleServed' /\ ArmedOK'
    BY <1>1, <1>2, SameBounds DEF IInv, States, BytesOK, RowOwnsFile, AnswersOK, NothingStaleServed, ArmedOK, VisibleIsStored, Materialized,
      Matches, File, Leased, LeaseCovered, DeletionCovered, Tombstoned
  <1> QED BY <1>2, <1>3, <1>4, <1>5, <1>6, SameBounds DEF IInv

\* The bytes of an upload are stored, or the bucket refuses them: no file changes.
LEMMA PutKeepsInv ==
    ASSUME IInv, UNCHANGED mix, NEW u \in Uploads, Put(u) \/ PutFails(u)
    PROVE  IInv'
  <1>2. s \in States /\ MixOK /\ s.up[u].at = "put"
    BY DEF IInv, Put, PutFails
  <1>0. s.up[u] \in [at : Busy, f : Names, h : Contents, now : Nat, route : Nat, tries : Nat]
    BY <1>2 DEF States, UploadTypes, Idle
  <1>1. PICK p \in UploadTypes, retained \in SUBSET Contents, faults \in Nat :
          /\ s' = [s EXCEPT !.up = [s.up EXCEPT ![u] = p], !.retained = retained, !.faults = faults]
          /\ s.retained \subseteq retained
          /\ p.at \in Busy => p.at = "refresh" /\ p.now = s.up[u].now /\ p.h = s.up[u].h /\ p.h \in retained
    <2>1. CASE Put(u)
      <3> DEFINE p == [s.up[u] EXCEPT !.at = "refresh"]
                 r == s.retained \cup {s.up[u].h}
      <3>1. p \in UploadTypes /\ r \in SUBSET Contents
        BY <1>0, <1>2 DEF UploadTypes, Busy, States
      <3>2. s' = [s EXCEPT !.up = [s.up EXCEPT ![u] = p], !.retained = r, !.faults = s.faults]
        BY <1>2, <2>1 DEF Put, States
      <3>3. p.now = s.up[u].now /\ p.h = s.up[u].h /\ p.at = "refresh"
        BY <1>0
      <3> QED BY <3>1, <3>2, <3>3, <1>2 DEF States
    <2>2. CASE PutFails(u)
      <3>1. [at |-> "ended"] \in UploadTypes
        BY DEF UploadTypes
      <3>2. s' = [s EXCEPT !.up = [s.up EXCEPT ![u] = [at |-> "ended"]], !.retained = s.retained, !.faults = s.faults + 1]
        BY <1>2, <2>2 DEF PutFails, Ends, States
      <3>3. s.faults + 1 \in Nat /\ s.retained \in SUBSET Contents /\ [at |-> "ended"].at \notin Busy
        BY <1>2 DEF States, Busy
      <3> QED BY <3>1, <3>2, <3>3
    <2> QED BY <2>1, <2>2
  <1>3. s' \in States
    BY <1>1, <1>2 DEF States, MixOK
  <1>4. Pending' <= mix.pending
    BY <1>1, <1>2, PendingKeeps DEF States
  <1>5. UploadsOK'
    BY <1>1, <1>2, SameBounds DEF IInv, UploadsOK, States, Busy, MixOK
  <1>6. BytesOK' /\ RowOwnsFile' /\ AnswersOK' /\ NothingStaleServed' /\ ArmedOK'
    BY <1>1, <1>2, SameBounds DEF IInv, States, BytesOK, RowOwnsFile, AnswersOK, NothingStaleServed, ArmedOK, VisibleIsStored, Materialized,
      Matches, File, Leased, LeaseCovered, DeletionCovered, Tombstoned
  <1> QED BY <1>2, <1>3, <1>4, <1>5, <1>6, SameBounds DEF IInv

\* An upload that found its route stale starts again or ends: no file changes.
LEMMA StaleKeepsInv ==
    ASSUME IInv, UNCHANGED mix, NEW u \in Uploads, s.up[u].at \in Busy,
           s' = Stale(s, u) \/ s' = Ends(s, u) \/ s' = [s EXCEPT !.up[u].at = IF s.up[u].at = "refresh" THEN "ready" ELSE @]
    PROVE  IInv'
  <1>2. s \in States /\ MixOK
    BY DEF IInv
  <1>0. s.up[u] \in [at : Busy, f : Names, h : Contents, now : Nat, route : Nat, tries : Nat]
    BY <1>2 DEF States, UploadTypes, Idle, Busy
  <1>1. PICK p \in UploadTypes :
          /\ s' = [s EXCEPT !.up = [s.up EXCEPT ![u] = p]]
          /\ p.at \in Busy => /\ p.now = s.up[u].now /\ p.h = s.up[u].h
                              /\ p.at \in {"refresh", "ready"} => s.up[u].at \in {"refresh", "ready"}
    <2>1. CASE s' = Ends(s, u)
      <3>1. [at |-> "ended"] \in UploadTypes
        BY DEF UploadTypes
      <3>2. s' = [s EXCEPT !.up = [s.up EXCEPT ![u] = [at |-> "ended"]]]
        BY <1>2, <2>1 DEF Ends, States
      <3> QED BY <1>2, <3>1, <3>2 DEF States, Busy
    <2>2. CASE s' = Stale(s, u) /\ s.up[u].tries = 1
      <3> DEFINE p == [s.up[u] EXCEPT !.at = "reserve", !.route = s.epoch, !.tries = 2]
      <3>1. p \in UploadTypes /\ p.now = s.up[u].now /\ p.h = s.up[u].h /\ p.at = "reserve"
        BY <1>0, <1>2 DEF States, UploadTypes, Busy
      <3>2. s' = [s EXCEPT !.up = [s.up EXCEPT ![u] = p]]
        BY <1>2, <2>2 DEF Stale, States
      <3> HIDE DEF p
      <3> QED BY <3>1, <3>2
    <2>3. CASE s' = [s EXCEPT !.up[u].at = IF s.up[u].at = "refresh" THEN "ready" ELSE @]
      <3> DEFINE p == [s.up[u] EXCEPT !.at = IF s.up[u].at = "refresh" THEN "ready" ELSE @]
      <3>1. /\ p \in UploadTypes /\ p.now = s.up[u].now /\ p.h = s.up[u].h
            /\ p.at \in {"refresh", "ready"} => s.up[u].at \in {"refresh", "ready"}
        BY <1>0, <1>2 DEF States, UploadTypes, Busy
      <3>2. s' = [s EXCEPT !.up = [s.up EXCEPT ![u] = p]]
        BY <1>2, <2>3 DEF States
      <3> HIDE DEF p
      <3> QED BY <3>1, <3>2
    <2> QED BY <2>1, <2>2, <2>3 DEF Stale
  <1>3. s' \in States
    BY <1>1, <1>2 DEF States, MixOK
  <1>4. Pending' <= mix.pending
    BY <1>1, <1>2, PendingKeeps DEF States
  <1>5. UploadsOK'
    BY <1>1, <1>2, SameBounds DEF IInv, UploadsOK, States, Busy, MixOK
  <1>6. BytesOK' /\ RowOwnsFile' /\ AnswersOK' /\ NothingStaleServed' /\ ArmedOK'
    BY <1>1, <1>2, SameBounds DEF IInv, States, BytesOK, RowOwnsFile, AnswersOK, NothingStaleServed, ArmedOK, VisibleIsStored, Materialized,
      Matches, File, Leased, LeaseCovered, DeletionCovered, Tombstoned
  <1> QED BY <1>2, <1>3, <1>4, <1>5, <1>6, SameBounds DEF IInv

\* Below the limit, reserve may make one more file pending.
LEMMA PendingGrows ==
    ASSUME IInv, UNCHANGED mix, Pending < mix.pending, NEW f \in Names,
           \A g \in Names : s'.files[g].st = "pending" => s.files[g].st = "pending" \/ g = f
    PROVE  Pending' <= mix.pending
  <1> DEFINE A == {g \in Names : File(g).st = "pending"}
             B == {g \in Names : s'.files[g].st = "pending"}
  <1>1. Names' = Names
    BY SameBounds
  <1>2. Pending' = Cardinality(B)
    BY <1>1 DEF Pending, File
  <1>3. IsFiniteSet(A)
    <2>1. mix.names \in Int /\ 1 \in Int
      BY DEF IInv, MixOK
    <2>2. IsFiniteSet(1..mix.names)
      BY <2>1, FS_Interval, Zenon
    <2>3. IsFiniteSet(Names)
      BY <2>2 DEF Names
    <2> QED BY <2>3, FS_Subset
  <1>4. B \subseteq A \cup {f}
    BY DEF File
  <1>5. Cardinality(A) < mix.pending /\ mix.pending \in Nat
    BY DEF IInv, Pending, MixOK
  <1> HIDE DEF A, B
  <1>6. IsFiniteSet(A \cup {f}) /\ Cardinality(A \cup {f}) <= Cardinality(A) + 1
    <2>1. Cardinality(A) \in Nat
      BY <1>3, FS_CardinalityType
    <2>2. /\ IsFiniteSet(A \cup {f})
          /\ Cardinality(A \cup {f}) = IF f \in A THEN Cardinality(A) ELSE Cardinality(A) + 1
      BY <1>3, FS_AddElement, Zenon
    <2> QED BY <2>1, <2>2
  <1>7. Cardinality(B) <= Cardinality(A \cup {f}) /\ Cardinality(A) \in Nat /\ Cardinality(B) \in Nat /\ Cardinality(A \cup {f}) \in Nat
    BY <1>3, <1>4, <1>6, FS_Subset, FS_CardinalityType
  <1> QED BY <1>2, <1>5, <1>6, <1>7

\* The number of pending files is one.
LEMMA PendingNat == ASSUME IInv PROVE Pending \in Nat
  <1>1. mix.names \in Int /\ 1 \in Int
    BY DEF IInv, MixOK
  <1>2. IsFiniteSet(1..mix.names)
    BY <1>1, FS_Interval, Zenon
  <1>3. IsFiniteSet(Names)
    BY <1>2 DEF Names
  <1>4. IsFiniteSet({f \in Names : File(f).st = "pending"})
    BY <1>3, FS_Subset
  <1> QED BY <1>4, FS_CardinalityType DEF Pending

\* scheduleNoLaterThan never moves the alarm back.
LEMMA ScheduleLowers ==
    ASSUME MixOK, NEW st, st \in States, NEW at \in Nat
    PROVE  \E a \in 0..Never : /\ ScheduleNoLaterThan(st, at) = [st EXCEPT !.alarm = a]
                               /\ a <= st.alarm /\ a <= at
  <1> DEFINE a == IF at < st.alarm THEN at ELSE st.alarm
  <1>1. st.alarm \in 0..Never /\ Never \in Nat
    BY DEF States, MixOK, Never
  <1>2. a \in 0..Never /\ a <= st.alarm /\ a <= at
    BY <1>1
  <1>3. ScheduleNoLaterThan(st, at) = [st EXCEPT !.alarm = a]
    BY DEF ScheduleNoLaterThan, States
  <1> HIDE DEF a
  <1> QED BY <1>2, <1>3

\* What a reservation may do to a file: a new life, or a longer lease.
Reserved(old, file, now) ==
  /\ file \in FileTypes /\ file.st = IF old.st = "none" THEN "pending" ELSE old.st
  /\ file.st = "pending" => file.at >= now /\ file.at + mix.ttl <= mix.time
  /\ file.st # "pending" => file = old
  /\ file.st = old.st => file.hash = old.hash /\ file.row = old.row /\ file.at >= old.at

\* A reservation that is granted: the name gets a new life or a longer lease, and
\* the alarm covers that lease.
LEMMA ReserveStep ==
    ASSUME IInv, NEW u \in Uploads, Reserve(u), ~(s' = Stale(s, u) \/ s' = Ends(s, u))
    PROVE  \E f \in Names, now \in Nat, file \in FileTypes, life \in Nat, p \in UploadTypes, a \in 0..Never :
              /\ ~s.deleted /\ File(f).st # "deleting" /\ now = s.up[u].now /\ p.at = "put" /\ p.now = now
              /\ File(f).st = "none" => Pending < mix.pending
              /\ Reserved(File(f), file, now)
              /\ life = IF File(f).st = "none" THEN s.life[f] + 1 ELSE s.life[f]
              /\ a <= s.alarm /\ a <= now + mix.ttl
              /\ s' = [s EXCEPT !.files = [s.files EXCEPT ![f] = file], !.life = [s.life EXCEPT ![f] = life],
                                !.up = [s.up EXCEPT ![u] = p], !.alarm = a]
  <1>2. s \in States /\ MixOK /\ s.up[u].at = "reserve"
    BY DEF IInv, Reserve
  <1>0. s.up[u] \in [at : Busy, f : Names, h : Contents, now : Nat, route : Nat, tries : Nat]
    BY <1>2 DEF States, UploadTypes, Idle
  <1>1. PICK f \in Names, now \in Nat : f = s.up[u].f /\ now = s.up[u].now
    BY <1>0
  <1>3. /\ ~(s.deleted \/ File(f).st = "deleting")
        /\ ~(File(f).st = "none" /\ Pending >= mix.pending)
        /\ s.up[u].route = s.epoch
    BY <1>1 DEF Reserve
  <1>4. Pending \in Nat /\ mix.pending \in Nat
    BY <1>2, PendingNat DEF MixOK, IInv
  <1>5. ~s.deleted /\ File(f).st # "deleting" /\ (File(f).st = "none" => Pending < mix.pending)
    BY <1>3, <1>4
  <1>6. now + mix.ttl <= mix.time /\ now + mix.ttl \in Nat
    BY <1>1, <1>2 DEF IInv, UploadsOK, Busy, MixOK
  <1>7. File(f) \in FileTypes /\ mix.ttl \in Nat /\ mix.time \in Nat /\ (File(f).st = "pending" => File(f).at + mix.ttl <= mix.time)
    BY <1>2 DEF States, File, IInv, ArmedOK, Leased, MixOK
  <1> DEFINE p == [s.up[u] EXCEPT !.at = "put"]
  <1>8. p \in UploadTypes /\ p.at = "put" /\ p.now = now
    BY <1>0, <1>1 DEF UploadTypes, Busy
  <1>9. PICK file \in FileTypes, life \in Nat :
          /\ Reserved(File(f), file, now) /\ (life = IF File(f).st = "none" THEN s.life[f] + 1 ELSE s.life[f])
          /\ s' = ScheduleNoLaterThan([s EXCEPT !.files = [s.files EXCEPT ![f] = file], !.life = [s.life EXCEPT ![f] = life],
                                               !.up = [s.up EXCEPT ![u] = p]], now + mix.ttl)
    <2> DEFINE new == [st |-> "pending", hash |-> None, row |-> None, at |-> now]
               longer == [File(f) EXCEPT !.at = IF now > @ THEN now ELSE @]
    <2>1. CASE File(f).st = "none"
      <3>1. new \in FileTypes /\ Reserved(File(f), new, now) /\ s.life[f] + 1 \in Nat
        BY <1>2, <1>6, <2>1 DEF FileTypes, Reserved, States
      <3>2. s' = ScheduleNoLaterThan([[s EXCEPT !.files[f] = new, !.life[f] = @ + 1] EXCEPT !.up[u].at = "put"], now + mix.ttl)
        BY <1>1, <1>3, <2>1 DEF Reserve
      <3>3. [[s EXCEPT !.files[f] = new, !.life[f] = @ + 1] EXCEPT !.up[u].at = "put"]
              = [s EXCEPT !.files = [s.files EXCEPT ![f] = new], !.life = [s.life EXCEPT ![f] = s.life[f] + 1], !.up = [s.up EXCEPT ![u] = p]]
        BY <1>2 DEF States
      <3> HIDE DEF new, p
      <3> QED BY <2>1, <3>1, <3>2, <3>3
    <2>2. CASE File(f).st = "pending"
      <3>1. longer \in FileTypes /\ Reserved(File(f), longer, now) /\ s.life[f] \in Nat
        BY <1>2, <1>6, <1>7, <2>2 DEF FileTypes, Reserved, States
      <3>2. s' = ScheduleNoLaterThan([[s EXCEPT !.files[f].at = IF now > @ THEN now ELSE @] EXCEPT !.up[u].at = "put"], now + mix.ttl)
        BY <1>1, <1>3, <2>2 DEF Reserve
      <3>3. [[s EXCEPT !.files[f].at = IF now > @ THEN now ELSE @] EXCEPT !.up[u].at = "put"]
              = [s EXCEPT !.files = [s.files EXCEPT ![f] = longer], !.life = [s.life EXCEPT ![f] = s.life[f]], !.up = [s.up EXCEPT ![u] = p]]
        BY <1>2 DEF States, File
      <3> HIDE DEF longer, p
      <3> QED BY <2>2, <3>1, <3>2, <3>3
    <2>3. CASE File(f).st \notin {"none", "pending"}
      <3>1. File(f) \in FileTypes /\ Reserved(File(f), File(f), now) /\ s.life[f] \in Nat
        BY <1>2, <1>7, <2>3 DEF FileTypes, Reserved, States
      <3>2. s' = ScheduleNoLaterThan([s EXCEPT !.up[u].at = "put"], now + mix.ttl)
        BY <1>1, <1>3, <2>3 DEF Reserve
      <3>3. [s EXCEPT !.up[u].at = "put"]
              = [s EXCEPT !.files = [s.files EXCEPT ![f] = File(f)], !.life = [s.life EXCEPT ![f] = s.life[f]], !.up = [s.up EXCEPT ![u] = p]]
        BY <1>2 DEF States, File
      <3> HIDE DEF p
      <3> QED BY <2>3, <3>1, <3>2, <3>3
    <2> QED BY <2>1, <2>2, <2>3
  <1> HIDE DEF p
  <1> DEFINE base == [s EXCEPT !.files = [s.files EXCEPT ![f] = file], !.life = [s.life EXCEPT ![f] = life],
                               !.up = [s.up EXCEPT ![u] = p]]
  <1>10. base \in States /\ base.alarm = s.alarm
    BY <1>2, <1>8, <1>9 DEF States
  <1>11. PICK a \in 0..Never : s' = [base EXCEPT !.alarm = a] /\ a <= s.alarm /\ a <= now + mix.ttl
    BY <1>2, <1>6, <1>9, <1>10, ScheduleLowers
  <1>12. s' = [s EXCEPT !.files = [s.files EXCEPT ![f] = file], !.life = [s.life EXCEPT ![f] = life],
                        !.up = [s.up EXCEPT ![u] = p], !.alarm = a]
    BY <1>9, <1>11, <1>2 DEF States
  <1> HIDE DEF base
  <1>13. /\ ~s.deleted /\ File(f).st # "deleting" /\ now = s.up[u].now /\ p.at = "put" /\ p.now = now
         /\ File(f).st = "none" => Pending < mix.pending
         /\ Reserved(File(f), file, now)
         /\ life = IF File(f).st = "none" THEN s.life[f] + 1 ELSE s.life[f]
         /\ a <= s.alarm /\ a <= now + mix.ttl
    BY <1>1, <1>5, <1>8, <1>9, <1>11
  <1>14. f \in Names /\ now \in Nat /\ file \in FileTypes /\ life \in Nat /\ p \in UploadTypes /\ a \in 0..Never
    BY <1>8
  <1> QED BY <1>12, <1>13, <1>14, Zenon

\* reserve: the limit is checked before a new life begins, an answer of an earlier
\* life says nothing of the new one, and the alarm covers the lease.
LEMMA ReserveKeepsInv ==
    ASSUME IInv, UNCHANGED mix, NEW u \in Uploads, Reserve(u)
    PROVE  IInv'
  <1>2. s \in States /\ MixOK /\ s.up[u].at = "reserve"
    BY DEF IInv, Reserve
  <1>3. CASE s' = Stale(s, u) \/ s' = Ends(s, u)
    BY <1>2, <1>3, StaleKeepsInv DEF Busy
  <1>4. CASE ~(s' = Stale(s, u) \/ s' = Ends(s, u))
    <2>1. PICK f \in Names, now \in Nat, file \in FileTypes, life \in Nat, p \in UploadTypes, a \in 0..Never :
              /\ ~s.deleted /\ File(f).st # "deleting" /\ now = s.up[u].now /\ p.at = "put" /\ p.now = now
              /\ File(f).st = "none" => Pending < mix.pending
              /\ Reserved(File(f), file, now)
              /\ life = IF File(f).st = "none" THEN s.life[f] + 1 ELSE s.life[f]
              /\ a <= s.alarm /\ a <= now + mix.ttl
              /\ s' = [s EXCEPT !.files = [s.files EXCEPT ![f] = file], !.life = [s.life EXCEPT ![f] = life],
                                !.up = [s.up EXCEPT ![u] = p], !.alarm = a]
      BY <1>4, ReserveStep
    <2>2. /\ s'.files = [s.files EXCEPT ![f] = file] /\ s'.life = [s.life EXCEPT ![f] = life] /\ s'.up = [s.up EXCEPT ![u] = p]
          /\ s'.alarm = a /\ s'.rows = s.rows /\ s'.deleted = s.deleted /\ s'.retained = s.retained /\ s'.clock = s.clock
          /\ s'.asleep = s.asleep /\ s'.down = s.down /\ s'.turn = s.turn /\ s'.answers = s.answers /\ s'.served = s.served
          /\ s'.broken = s.broken
      BY <1>2, <2>1 DEF States
    <2>9. s' \in States
      BY <1>2, <2>1 DEF States
    <2>10. Pending' <= mix.pending
      <3>1. CASE File(f).st # "none"
        <4>1. \A g \in Names : s'.files[g].st = "pending" => s.files[g].st = "pending"
          BY <1>2, <2>1, <2>2, <3>1 DEF States, File, Reserved
        <4> QED BY <4>1, PendingKeeps
      <3>2. CASE File(f).st = "none"
        <4>1. \A g \in Names : s'.files[g].st = "pending" => s.files[g].st = "pending" \/ g = f
          BY <1>2, <2>2 DEF States
        <4> QED BY <2>1, <3>2, <4>1, PendingGrows
      <3> QED BY <3>1, <3>2
    <2>11. UploadsOK'
      BY <1>2, <2>1, <2>2, SameBounds DEF IInv, UploadsOK, States, Busy, MixOK
    <2>12. BytesOK' /\ NothingStaleServed'
      BY <1>2, <2>1, <2>2, SameBounds DEF IInv, States, BytesOK, NothingStaleServed, VisibleIsStored, Materialized, File, Reserved
    <2>13. RowOwnsFile'
      <3>1. \A r \in Rows : Matches(r) => Matches(r)'
        BY <1>2, <2>1, <2>2 DEF States, Matches, File, Reserved, None
      <3> QED BY <3>1, <2>1, <2>2, SameBounds DEF IInv, RowOwnsFile
    <2>14. AnswersOK'
      <3>1. \A x \in s.answers : x.f \in Names /\ x.life \in Nat /\ x.life <= s.life[x.f] /\ s.life[x.f] \in Nat
        BY <1>2 DEF IInv, AnswersOK, States, Answers
      <3>2. ASSUME NEW x \in s.answers, s'.life[x.f] = x.life
            PROVE  s'.files[x.f].st # "pending" /\ (Materialized(x.f)' => s'.files[x.f].hash = x.h)
        <4>1. CASE x.f # f
          BY <1>2, <2>2, <3>1, <3>2, <4>1 DEF IInv, AnswersOK, States, Materialized, File
        <4>2. CASE x.f = f /\ File(f).st = "none"
          BY <1>2, <2>1, <2>2, <3>1, <3>2, <4>2 DEF States
        <4>3. CASE x.f = f /\ File(f).st # "none"
          BY <1>2, <2>1, <2>2, <3>1, <3>2, <4>3 DEF IInv, AnswersOK, States, Materialized, File, Reserved
        <4> QED BY <4>1, <4>2, <4>3
      <3>3. \A x \in s.answers : x.life <= s'.life[x.f]
        BY <1>2, <2>1, <2>2, <3>1 DEF States
      <3> QED BY <2>2, <3>2, <3>3 DEF IInv, AnswersOK, File
    <2>15. ArmedOK'
      <3>1. /\ s.clock \in Nat /\ mix.ttl \in Nat /\ s.alarm \in Nat /\ a \in Nat /\ \A g \in Names : s.files[g].at \in Nat
        BY <1>2 DEF States, MixOK, FileTypes, Never
      <3>2. \A g \in Names : g # f => s'.files[g] = s.files[g]
        BY <1>2, <2>2 DEF States
      <3>3. s'.files[f] = file
        BY <1>2, <2>2 DEF States
      <3>4. ASSUME NEW g \in Names
            PROVE  /\ Leased(g)' => File(g)'.at + mix.ttl <= mix.time
                   /\ Leased(g)' /\ ~Tombstoned(g)' => LeaseCovered(g)'
                   /\ File(g)'.st = "deleting" \/ Tombstoned(g)' => DeletionCovered'
        <4>1. CASE g # f
          BY <2>1, <2>2, <3>1, <3>2, <4>1 DEF IInv, ArmedOK, File, Leased, LeaseCovered, DeletionCovered, Tombstoned, Later, Materialized
        <4>2. CASE g = f /\ file.st = "pending"
          BY <2>1, <2>2, <3>1, <3>3, <4>2 DEF IInv, ArmedOK, File, Leased, LeaseCovered, DeletionCovered, Tombstoned, Later, Materialized, Reserved, FileTypes
        <4>3. CASE g = f /\ file.st # "pending"
          BY <2>1, <2>2, <3>1, <3>3, <4>3 DEF IInv, ArmedOK, File, Leased, LeaseCovered, DeletionCovered, Tombstoned, Later, Materialized, Reserved, FileTypes
        <4> QED BY <4>1, <4>2, <4>3
      <3> QED BY <3>4, <2>2, SameBounds DEF IInv, ArmedOK, File
    <2> QED BY <1>2, <2>9, <2>10, <2>11, <2>12, <2>13, <2>14, <2>15, SameBounds DEF IInv
  <1> QED BY <1>3, <1>4

\* An upload that is answered: its bytes are stored, and the name had them already
\* or becomes ready with them.
LEMMA MarkReadyStep ==
    ASSUME IInv, NEW u \in Uploads, MarkReady(u), ~(s' = Stale(s, u) \/ s' = Ends(s, u))
    PROVE  \E f \in Names, h \in Contents, file \in FileTypes, p \in UploadTypes :
              /\ ~s.deleted /\ p.at = "ended" /\ h \in s.retained
              /\ \/ Materialized(f) /\ File(f).hash = h /\ file = File(f)
                 \/ /\ File(f).st = "pending" /\ file.st = "ready" /\ file.hash = h /\ file.at >= File(f).at
                    /\ file.at + mix.ttl <= mix.time
              /\ s' = [s EXCEPT !.files = [s.files EXCEPT ![f] = file], !.up = [s.up EXCEPT ![u] = p],
                                !.answers = s.answers \cup {[f |-> f, life |-> s.life[f], h |-> h]}]
  <1>2. s \in States /\ MixOK /\ s.up[u].at = "ready"
    BY DEF IInv, MarkReady
  <1>0. s.up[u] \in [at : Busy, f : Names, h : Contents, now : Nat, route : Nat, tries : Nat]
    BY <1>2 DEF States, UploadTypes, Idle
  <1>1. PICK f \in Names, h \in Contents, now \in Nat : f = s.up[u].f /\ now = s.up[u].now /\ h = s.up[u].h
    BY <1>0
  <1> DEFINE p == [at |-> "ended"]
             answered == [Ends(s, u) EXCEPT !.answers = @ \cup {[f |-> s.up[u].f, life |-> s.life[s.up[u].f], h |-> s.up[u].h]}]
             ready == [File(f) EXCEPT !.st = "ready", !.hash = h, !.at = Later(@, now)]
  <1>3. /\ ~(s.deleted \/ File(f).st \in {"none", "deleting"})
        /\ Materialized(f) => SameContent(f, h) /\ s' = answered
        /\ ~Materialized(f) => s' = [answered EXCEPT !.files[f].st = "ready", !.files[f].hash = h, !.files[f].at = Later(@, now)]
    <2>1. s.up[u].route = s.epoch
      BY DEF MarkReady
    <2>2. ~(s.deleted \/ File(f).st \in {"none", "deleting"})
      BY <1>1, <2>1 DEF MarkReady
    <2>3. ASSUME Materialized(f) PROVE SameContent(f, h) /\ s' = answered
      BY <1>1, <2>1, <2>2, <2>3 DEF MarkReady
    <2>4. ASSUME ~Materialized(f)
          PROVE  s' = [answered EXCEPT !.files[f].st = "ready", !.files[f].hash = h, !.files[f].at = Later(@, now)]
      BY <1>1, <2>1, <2>2, <2>4 DEF MarkReady
    <2> QED BY <2>2, <2>3, <2>4
  <1>4. h \in s.retained /\ now + mix.ttl <= mix.time
    BY <1>1, <1>2 DEF IInv, UploadsOK, Busy
  <1>5. p \in UploadTypes /\ p.at = "ended"
    BY DEF UploadTypes
  <1>6. answered = [s EXCEPT !.files = [s.files EXCEPT ![f] = File(f)], !.up = [s.up EXCEPT ![u] = p],
                             !.answers = s.answers \cup {[f |-> f, life |-> s.life[f], h |-> h]}]
    BY <1>1, <1>2 DEF Ends, States, File
  <1>7. CASE Materialized(f)
    <2>1. File(f).hash = h /\ s' = answered /\ File(f) \in FileTypes
      BY <1>2, <1>3, <1>7 DEF SameContent, States, File
    <2>2. ~s.deleted
      BY <1>3
    <2>3. s' = [s EXCEPT !.files = [s.files EXCEPT ![f] = File(f)], !.up = [s.up EXCEPT ![u] = p],
                         !.answers = s.answers \cup {[f |-> f, life |-> s.life[f], h |-> h]}]
      BY <1>6, <2>1
    <2> HIDE DEF p, answered
    <2> QED BY <1>4, <1>5, <1>7, <2>1, <2>2, <2>3
  <1>8. CASE ~Materialized(f)
    <2>1. File(f).st = "pending"
      BY <1>2, <1>3, <1>8 DEF Materialized, States, FileTypes, File
    <2>2. File(f) \in FileTypes /\ mix.ttl \in Nat /\ mix.time \in Nat /\ File(f).at + mix.ttl <= mix.time
      BY <1>2, <2>1 DEF States, File, IInv, ArmedOK, Leased, MixOK
    <2>3. ready \in FileTypes /\ ready.st = "ready" /\ ready.hash = h /\ ready.at >= File(f).at /\ ready.at + mix.ttl <= mix.time
      <3>1. ready \in FileTypes /\ ready.st = "ready" /\ ready.hash = h /\ ready.at = Later(File(f).at, now)
        BY <2>2 DEF FileTypes, Later
      <3>2. File(f).at \in Nat /\ Later(File(f).at, now) \in {File(f).at, now}
        BY <2>2 DEF FileTypes, Later
      <3>3. Later(File(f).at, now) >= File(f).at
        BY <3>2 DEF Later
      <3> HIDE DEF ready
      <3> QED BY <1>4, <2>2, <3>1, <3>2, <3>3
    <2>4. s' = [s EXCEPT !.files = [s.files EXCEPT ![f] = ready], !.up = [s.up EXCEPT ![u] = p],
                             !.answers = s.answers \cup {[f |-> f, life |-> s.life[f], h |-> h]}]
      <3>1. /\ answered.files = s.files /\ answered.up = [s.up EXCEPT ![u] = p] /\ DOMAIN answered = DOMAIN s
            /\ "files" \in DOMAIN answered
        BY <1>2 DEF Ends, States
      <3>2. f \in DOMAIN answered.files /\ answered.files[f] \in FileTypes /\ answered.files[f] = File(f)
        BY <1>2, <3>1 DEF File, States
      <3>3. s' = [answered EXCEPT !.files[f].st = "ready", !.files[f].hash = h, !.files[f].at = Later(answered.files[f].at, now)]
        BY <1>3, <1>8
      <3> HIDE DEF answered
      <3>4. s' = [answered EXCEPT !.files = [answered.files EXCEPT ![f] = [answered.files[f] EXCEPT !.st = "ready", !.hash = h, !.at = Later(answered.files[f].at, now)]]]
        BY <3>1, <3>2, <3>3 DEF FileTypes
      <3>5. s' = [answered EXCEPT !.files = [s.files EXCEPT ![f] = ready]]
        BY <3>1, <3>2, <3>4
      <3> QED BY <1>2, <1>6, <3>5 DEF States
    <2> HIDE DEF ready, answered
    <2>5. ~s.deleted
      BY <1>3
    <2> QED BY <1>4, <1>5, <2>1, <2>3, <2>4, <2>5
  <1> QED BY <1>7, <1>8

\* markReady: of two contents of one life the first one ready is the file's, and
\* the second upload is not answered with success.
LEMMA MarkReadyKeepsInv ==
    ASSUME IInv, UNCHANGED mix, NEW u \in Uploads, MarkReady(u)
    PROVE  IInv'
  <1>2. s \in States /\ MixOK /\ s.up[u].at = "ready"
    BY DEF IInv, MarkReady
  <1>3. CASE s' = Stale(s, u) \/ s' = Ends(s, u)
    BY <1>2, <1>3, StaleKeepsInv DEF Busy
  <1>4. CASE ~(s' = Stale(s, u) \/ s' = Ends(s, u))
    <2>1. PICK f \in Names, h \in Contents, file \in FileTypes, p \in UploadTypes :
              /\ ~s.deleted /\ p.at = "ended" /\ h \in s.retained
              /\ \/ Materialized(f) /\ File(f).hash = h /\ file = File(f)
                 \/ /\ File(f).st = "pending" /\ file.st = "ready" /\ file.hash = h /\ file.at >= File(f).at
                    /\ file.at + mix.ttl <= mix.time
              /\ s' = [s EXCEPT !.files = [s.files EXCEPT ![f] = file], !.up = [s.up EXCEPT ![u] = p],
                                !.answers = s.answers \cup {[f |-> f, life |-> s.life[f], h |-> h]}]
      BY <1>4, MarkReadyStep
    <2>0. PICK answer \in Answers : answer = [f |-> f, life |-> s.life[f], h |-> h]
      BY <1>2 DEF States, Answers
    <2>2. /\ s'.files = [s.files EXCEPT ![f] = file] /\ s'.life = s.life /\ s'.up = [s.up EXCEPT ![u] = p]
          /\ s'.alarm = s.alarm /\ s'.rows = s.rows /\ s'.deleted = s.deleted /\ s'.retained = s.retained /\ s'.clock = s.clock
          /\ s'.asleep = s.asleep /\ s'.down = s.down /\ s'.turn = s.turn /\ s'.answers = s.answers \cup {answer} /\ s'.served = s.served
          /\ s'.broken = s.broken
      BY <1>2, <2>1, <2>0 DEF States
    <2>3. s'.files[f] = file /\ \A g \in Names : g # f => s'.files[g] = s.files[g]
      BY <1>2, <2>2 DEF States
    <2>9. s' \in States
      BY <1>2, <2>0, <2>1 DEF States
    <2>10. Pending' <= mix.pending
      <3>1. \A g \in Names : s'.files[g].st = "pending" => s.files[g].st = "pending"
        BY <1>2, <2>1, <2>3 DEF States, File
      <3> QED BY <3>1, PendingKeeps
    <2>11. UploadsOK'
      BY <1>2, <2>1, <2>2, SameBounds DEF IInv, UploadsOK, States, Busy, MixOK
    <2>12. BytesOK' /\ NothingStaleServed'
      BY <1>2, <2>1, <2>2, <2>3, SameBounds DEF IInv, BytesOK, NothingStaleServed, VisibleIsStored, Materialized, File
    <2>13. RowOwnsFile'
      <3>1. \A r \in Rows : Matches(r) => Matches(r)'
        BY <1>2, <2>1, <2>2, <2>3 DEF States, Matches, File, None
      <3> QED BY <3>1, <2>1, <2>2, SameBounds DEF IInv, RowOwnsFile
    <2>14. AnswersOK'
      <3>1. \A x \in s.answers : x.f \in Names /\ x.life \in Nat /\ x.life <= s.life[x.f] /\ s.life[x.f] \in Nat
        BY <1>2 DEF IInv, AnswersOK, States, Answers
      <3>2. ASSUME NEW x \in s'.answers, s'.life[x.f] = x.life
            PROVE  s'.files[x.f].st # "pending" /\ (Materialized(x.f)' => s'.files[x.f].hash = x.h)
        <4>1. CASE x.f # f
          BY <1>2, <2>0, <2>2, <2>3, <3>1, <3>2, <4>1 DEF IInv, AnswersOK, Materialized, File
        <4>2. CASE x.f = f /\ File(f).st = "pending"
          BY <1>2, <2>0, <2>1, <2>2, <2>3, <3>1, <3>2, <4>2 DEF IInv, AnswersOK, Materialized, File
        <4>3. CASE x.f = f /\ File(f).st # "pending"
          BY <1>2, <2>0, <2>1, <2>2, <2>3, <3>1, <3>2, <4>3 DEF IInv, AnswersOK, Materialized, File
        <4> QED BY <4>1, <4>2, <4>3
      <3>3. \A x \in s'.answers : x.life <= s'.life[x.f]
        BY <1>2, <2>0, <2>1, <2>2, <3>1 DEF States
      <3>4. ASSUME NEW a \in s'.answers, NEW b \in s'.answers, a.f = b.f, a.life = b.life
            PROVE  a.h = b.h
        <4>1. ASSUME NEW x \in s.answers, x.f = f, x.life = s.life[f] PROVE x.h = h
          BY <2>1, <4>1 DEF IInv, AnswersOK, File
        <4>2. answer.f = f /\ answer.life = s.life[f] /\ answer.h = h
          BY <2>0
        <4> QED BY <2>2, <3>4, <4>1, <4>2 DEF IInv, AnswersOK
      <3> QED BY <3>2, <3>3, <3>4 DEF AnswersOK, File
    <2>15. ArmedOK'
      <3>1. /\ s.clock \in Nat /\ mix.ttl \in Nat /\ s.alarm \in Nat /\ \A g \in Names : s.files[g].at \in Nat
            /\ s.turn["alarm"].at \in {"delete", "release"} => s.turn["alarm"].next \in Nat
        BY <1>2 DEF States, MixOK, FileTypes, Never, TurnTypes, Turns, Idle, Deletes, Releases
      <3>4. ASSUME NEW g \in Names
            PROVE  /\ Leased(g)' => File(g)'.at + mix.ttl <= mix.time
                   /\ Leased(g)' /\ ~Tombstoned(g)' => LeaseCovered(g)'
                   /\ File(g)'.st = "deleting" \/ Tombstoned(g)' => DeletionCovered'
        <4>1. CASE s'.files[g] = s.files[g]
          BY <2>1, <2>2, <3>1, <4>1 DEF IInv, ArmedOK, File, Leased, LeaseCovered, DeletionCovered, Tombstoned, Later, Materialized
        <4>2. CASE s'.files[g] # s.files[g]
          <5>1. g = f /\ s'.files[g] = file
            BY <2>3, <4>2
          <5>2. file.at \in Nat
            BY DEF FileTypes
          <5> QED BY <2>1, <2>2, <3>1, <4>2, <5>1, <5>2 DEF IInv, ArmedOK, File, Leased, LeaseCovered, DeletionCovered, Tombstoned, Later, Materialized
        <4> QED BY <4>1, <4>2
      <3> QED BY <3>4, <2>2, SameBounds DEF IInv, ArmedOK, File
    <2> QED BY <1>2, <2>9, <2>10, <2>11, <2>12, <2>13, <2>14, <2>15, SameBounds DEF IInv
  <1> QED BY <1>3, <1>4

-----------------------------------------------------------------------------
(* Mutations.                                                              *)

\* With an alarm due at once, everything that waits is covered.
LEMMA AlarmDue ==
    ASSUME IInv, UNCHANGED mix, s' \in States, s'.alarm <= s'.clock + 1,
           s'.asleep => s'.turn["mutation"].at = "idle",
           \A t \in Turns : s'.turn[t].at \in {"delete", "release"} => s'.turn[t].now <= s'.clock,
           \A f \in Names : s'.files[f].st \in {"pending", "ready"} => s'.files[f].at + mix.ttl <= mix.time
    PROVE  ArmedOK'
  <1>1. /\ s'.clock \in Nat /\ mix.ttl \in Nat /\ s'.alarm \in Nat /\ \A g \in Names : s'.files[g].at \in Nat
    <2>1. MixOK /\ MixOK' /\ States' = States /\ Names' = Names
      BY SameBounds DEF IInv
    <2> QED BY <2>1 DEF States, MixOK, FileTypes, Never
  <1>2. Names' = Names
    BY SameBounds
  <1>3. ASSUME NEW f \in Names PROVE s'.alarm <= Later(s'.clock + 1, s'.files[f].at + mix.ttl)
    BY <1>1 DEF Later
  <1> QED BY <1>1, <1>2, <1>3 DEF ArmedOK, Leased, LeaseCovered, DeletionCovered, File

\* A committed mutation arms the alarm for now and starts a maintenance turn.
LEMMA CommittedStep ==
    ASSUME IInv, NEW base, base \in States, base.clock = s.clock
    PROVE  \E a \in 0..Never, muts \in Nat, turn \in [Turns -> TurnTypes] :
             /\ Committed(base) = [base EXCEPT !.muts = muts, !.asleep = FALSE, !.turn = turn, !.alarm = a]
             /\ a <= base.clock /\ turn = [base.turn EXCEPT !["mutation"] = [at |-> "expire"]]
  <1>0. MixOK
    BY DEF IInv
  <1> DEFINE turn == [base.turn EXCEPT !["mutation"] = [at |-> "expire"]]
             b2 == [base EXCEPT !.muts = base.muts + 1, !.asleep = FALSE, !.turn = turn]
  <1>1. [at |-> "expire"] \in TurnTypes
    BY DEF TurnTypes
  <1>2. turn \in [Turns -> TurnTypes] /\ base.muts + 1 \in Nat
    <2>1. base.turn \in [Turns -> TurnTypes] /\ base.muts \in Nat
      BY DEF States
    <2>2. turn \in [Turns -> TurnTypes]
      BY <1>1, <2>1
    <2>3. base.muts + 1 \in Nat
      BY <2>1
    <2> QED BY <2>2, <2>3
  <1> HIDE DEF turn
  <1>3. b2 \in States /\ b2.alarm = base.alarm
    BY <1>2 DEF States
  <1>4. Committed(base) = ScheduleNoLaterThan(b2, s.clock)
    BY DEF Committed, States, turn
  <1>5. s.clock \in Nat
    BY <1>0 DEF IInv, States, MixOK
  <1>6. PICK a \in 0..Never : ScheduleNoLaterThan(b2, s.clock) = [b2 EXCEPT !.alarm = a] /\ a <= s.clock
    BY <1>0, <1>3, <1>5, ScheduleLowers
  <1>7. [b2 EXCEPT !.alarm = a] = [base EXCEPT !.muts = base.muts + 1, !.asleep = FALSE, !.turn = turn, !.alarm = a]
    BY DEF States
  <1>8. Committed(base) = [base EXCEPT !.muts = base.muts + 1, !.asleep = FALSE, !.turn = turn, !.alarm = a]
    BY <1>4, <1>6, <1>7
  <1> HIDE DEF b2
  <1> QED BY <1>2, <1>6, <1>8 DEF turn

\* The trigger of a row that is written releases the row's file and no other.
LEMMA ReleaseRowFiles ==
    ASSUME IInv, ~s.deleted, NEW r \in Rows
    PROVE  /\ ReleaseRow(s.files, r) \in [Names -> FileTypes]
           /\ \A f \in Names : IF s.rows[r] = f THEN ReleaseRow(s.files, r)[f].st = "deleting"
                               ELSE ReleaseRow(s.files, r)[f] = s.files[f]
  <1>1. s \in States /\ MixOK
    BY DEF IInv
  <1>2. CASE s.rows[r] = None
    BY <1>1, <1>2 DEF ReleaseRow, States, Names, None, MixOK
  <1>3. CASE s.rows[r] # None
    <2>1. PICK g \in Names : g = s.rows[r] /\ s.files[g].st = "attached" /\ s.files[g].row = r
      BY <1>1, <1>3 DEF States, IInv, RowOwnsFile, Matches, File
    <2> DEFINE file == [s.files[g] EXCEPT !.st = "deleting", !.at = s.clock]
    <2>2. ReleaseRow(s.files, r) = [s.files EXCEPT ![g] = file]
      BY <1>1, <1>3, <2>1 DEF ReleaseRow, States
    <2>3. s.files[g] \in FileTypes /\ s.clock \in Nat
      BY <1>1 DEF States, MixOK
    <2>4. file \in FileTypes /\ file.st = "deleting"
      BY <2>3 DEF FileTypes
    <2> HIDE DEF file
    <2>5. [s.files EXCEPT ![g] = file] \in [Names -> FileTypes]
      BY <1>1, <2>4 DEF States
    <2>6. \A f \in Names : f # g => [s.files EXCEPT ![g] = file][f] = s.files[f]
      BY <1>1 DEF States
    <2>7. [s.files EXCEPT ![g] = file][g] = file
      BY <1>1 DEF States
    <2> QED BY <2>1, <2>2, <2>4, <2>5, <2>6, <2>7
  <1> QED BY <1>2, <1>3

\* A mutation gives the row a ready file or none, queues the file it had for
\* deletion, and leaves the other rows and files alone.
LEMMA MutationStep ==
    ASSUME IInv, NEW r \in Rows, ClearFile(r) \/ \E f \in Names : SetFile(r, f)
    PROVE  \E rows \in [Rows -> {None} \cup Names], files \in [Names -> FileTypes], a \in 0..Never, muts \in Nat,
              turn \in [Turns -> TurnTypes] :
             /\ s' = [s EXCEPT !.rows = rows, !.files = files, !.muts = muts, !.asleep = FALSE, !.turn = turn, !.alarm = a]
             /\ a <= s.clock /\ turn = [s.turn EXCEPT !["mutation"] = [at |-> "expire"]]
             /\ \A q \in Rows : q # r => rows[q] = s.rows[q]
             /\ rows[r] # None => /\ s.files[rows[r]].st = "ready" /\ rows[r] # s.rows[r]
                                  /\ files[rows[r]] = [s.files[rows[r]] EXCEPT !.st = "attached", !.row = r, !.at = s.clock]
             /\ \A f \in Names : rows[r] # f => IF s.rows[r] = f THEN files[f].st = "deleting" ELSE files[f] = s.files[f]
             /\ ~s.deleted
  <1>1. s \in States /\ MixOK /\ ~s.deleted
    BY DEF IInv, ClearFile, SetFile, Writes
  <1>2. CASE ClearFile(r)
    <2> DEFINE rows == [s.rows EXCEPT ![r] = None]
               files == ReleaseRow(s.files, r)
               base == [s EXCEPT !.rows = rows, !.files = files]
    <2>1. rows \in [Rows -> {None} \cup Names] /\ files \in [Names -> FileTypes]
      BY <1>1, ReleaseRowFiles DEF States
    <2>2. /\ \A q \in Rows : q # r => rows[q] = s.rows[q]
          /\ rows[r] = None
          /\ \A f \in Names : IF s.rows[r] = f THEN files[f].st = "deleting" ELSE files[f] = s.files[f]
      BY <1>1, ReleaseRowFiles DEF States
    <2>3. s' = Committed(base)
      BY <1>1, <1>2 DEF ClearFile, States
    <2> HIDE DEF rows, files
    <2>4. base \in States /\ base.clock = s.clock /\ base.turn = s.turn
      BY <1>1, <2>1 DEF States
    <2> HIDE DEF base
    <2>5. PICK a \in 0..Never, muts \in Nat, turn \in [Turns -> TurnTypes] :
             /\ s' = [base EXCEPT !.muts = muts, !.asleep = FALSE, !.turn = turn, !.alarm = a]
             /\ a <= s.clock /\ turn = [s.turn EXCEPT !["mutation"] = [at |-> "expire"]]
      <3>1. PICK a \in 0..Never, muts \in Nat, turn \in [Turns -> TurnTypes] :
             /\ Committed(base) = [base EXCEPT !.muts = muts, !.asleep = FALSE, !.turn = turn, !.alarm = a]
             /\ a <= base.clock /\ turn = [base.turn EXCEPT !["mutation"] = [at |-> "expire"]]
        BY <2>3, <2>4, CommittedStep, Zenon
      <3>2. /\ s' = [base EXCEPT !.muts = muts, !.asleep = FALSE, !.turn = turn, !.alarm = a]
            /\ a <= s.clock /\ turn = [s.turn EXCEPT !["mutation"] = [at |-> "expire"]]
        BY <2>3, <2>4, <3>1
      <3> QED BY <3>2, Zenon
    <2>6. s' = [s EXCEPT !.rows = rows, !.files = files, !.muts = muts, !.asleep = FALSE, !.turn = turn, !.alarm = a]
      BY <1>1, <2>5 DEF States, base
    <2>7. rows[r] # None => /\ s.files[rows[r]].st = "ready" /\ rows[r] # s.rows[r]
                                  /\ files[rows[r]] = [s.files[rows[r]] EXCEPT !.st = "attached", !.row = r, !.at = s.clock]
      BY <2>2
    <2>8. \A f \in Names : rows[r] # f => IF s.rows[r] = f THEN files[f].st = "deleting" ELSE files[f] = s.files[f]
      BY <2>2
    <2>9. /\ s' = [s EXCEPT !.rows = rows, !.files = files, !.muts = muts, !.asleep = FALSE, !.turn = turn, !.alarm = a]
          /\ a <= s.clock /\ turn = [s.turn EXCEPT !["mutation"] = [at |-> "expire"]]
          /\ \A q \in Rows : q # r => rows[q] = s.rows[q]
          /\ rows[r] # None => /\ s.files[rows[r]].st = "ready" /\ rows[r] # s.rows[r]
                               /\ files[rows[r]] = [s.files[rows[r]] EXCEPT !.st = "attached", !.row = r, !.at = s.clock]
          /\ \A f \in Names : rows[r] # f => IF s.rows[r] = f THEN files[f].st = "deleting" ELSE files[f] = s.files[f]
          /\ ~s.deleted
      BY <1>1, <2>2, <2>5, <2>6, <2>7, <2>8
    <2> QED BY <2>1, <2>9, Zenon
  <1>3. ASSUME NEW f \in Names, SetFile(r, f)
        PROVE  \E rows \in [Rows -> {None} \cup Names], files \in [Names -> FileTypes], a \in 0..Never, muts \in Nat,
                  turn \in [Turns -> TurnTypes] :
                 /\ s' = [s EXCEPT !.rows = rows, !.files = files, !.muts = muts, !.asleep = FALSE, !.turn = turn, !.alarm = a]
                 /\ a <= s.clock /\ turn = [s.turn EXCEPT !["mutation"] = [at |-> "expire"]]
                 /\ \A q \in Rows : q # r => rows[q] = s.rows[q]
                 /\ rows[r] # None => /\ s.files[rows[r]].st = "ready" /\ rows[r] # s.rows[r]
                                      /\ files[rows[r]] = [s.files[rows[r]] EXCEPT !.st = "attached", !.row = r, !.at = s.clock]
                 /\ \A g \in Names : rows[r] # g => IF s.rows[r] = g THEN files[g].st = "deleting" ELSE files[g] = s.files[g]
                 /\ ~s.deleted
    <2> DEFINE rel == ReleaseRow(s.files, r)
               rows == [s.rows EXCEPT ![r] = f]
               file == [s.files[f] EXCEPT !.st = "attached", !.row = r, !.at = s.clock]
               files == [rel EXCEPT ![f] = file]
               base == [s EXCEPT !.rows = rows, !.files = files]
    <2>1. s.files[f].st = "ready" /\ s.files[f] \in FileTypes /\ s.rows[r] # f /\ s.clock \in Nat
      <3>1. s.files[f].st = "ready" /\ s.files[f] \in FileTypes /\ s.clock \in Nat
        <4>1. s.files[f].st = "ready"
          BY <1>3 DEF SetFile, Attachable, File
        <4> QED BY <1>1, <4>1 DEF States, MixOK
      <3>2. f # None
        BY DEF Names, None
      <3> QED BY <1>1, <3>1, <3>2 DEF IInv, RowOwnsFile, Matches, File
    <2>2. rel \in [Names -> FileTypes] /\ rel[f] = s.files[f]
      BY <1>1, <2>1, ReleaseRowFiles
    <2>3. file \in FileTypes
      BY <2>1 DEF FileTypes
    <2>4. rows \in [Rows -> {None} \cup Names] /\ files \in [Names -> FileTypes]
      BY <1>1, <2>2, <2>3 DEF States
    <2>5. /\ \A q \in Rows : q # r => rows[q] = s.rows[q]
          /\ rows[r] = f /\ files[f] = file
          /\ \A g \in Names : g # f => IF s.rows[r] = g THEN files[g].st = "deleting" ELSE files[g] = s.files[g]
      BY <1>1, <2>2, ReleaseRowFiles DEF States
    <2>6. s' = Committed(base)
      <3>1. [rel EXCEPT ![f].st = "attached", ![f].row = r, ![f].at = s.clock] = files
        BY <2>1, <2>2
      <3>2. s' = Committed([s EXCEPT !.rows[r] = f, !.files = [rel EXCEPT ![f].st = "attached", ![f].row = r, ![f].at = s.clock]])
        BY <1>3 DEF SetFile
      <3> HIDE DEF files, rel
      <3> QED BY <1>1, <3>1, <3>2 DEF States
    <2>7. files[rows[r]] = [s.files[rows[r]] EXCEPT !.st = "attached", !.row = r, !.at = s.clock] /\ rows[r] = f
      BY <2>5
    <2> HIDE DEF rows, files, file, rel
    <2>8. base \in States /\ base.clock = s.clock /\ base.turn = s.turn
      BY <1>1, <2>4 DEF States
    <2> HIDE DEF base
    <2>9. PICK a \in 0..Never, muts \in Nat, turn \in [Turns -> TurnTypes] :
             /\ s' = [base EXCEPT !.muts = muts, !.asleep = FALSE, !.turn = turn, !.alarm = a]
             /\ a <= s.clock /\ turn = [s.turn EXCEPT !["mutation"] = [at |-> "expire"]]
      <3>1. PICK a \in 0..Never, muts \in Nat, turn \in [Turns -> TurnTypes] :
             /\ Committed(base) = [base EXCEPT !.muts = muts, !.asleep = FALSE, !.turn = turn, !.alarm = a]
             /\ a <= base.clock /\ turn = [base.turn EXCEPT !["mutation"] = [at |-> "expire"]]
        BY <2>6, <2>8, CommittedStep, Zenon
      <3>2. /\ s' = [base EXCEPT !.muts = muts, !.asleep = FALSE, !.turn = turn, !.alarm = a]
            /\ a <= s.clock /\ turn = [s.turn EXCEPT !["mutation"] = [at |-> "expire"]]
        BY <2>6, <2>8, <3>1
      <3> QED BY <3>2, Zenon
    <2>10. s' = [s EXCEPT !.rows = rows, !.files = files, !.muts = muts, !.asleep = FALSE, !.turn = turn, !.alarm = a]
      BY <1>1, <2>9 DEF States, base
    <2>11. rows[r] # None => /\ s.files[rows[r]].st = "ready" /\ rows[r] # s.rows[r]
                                  /\ files[rows[r]] = [s.files[rows[r]] EXCEPT !.st = "attached", !.row = r, !.at = s.clock]
      BY <2>1, <2>7
    <2>12. \A g \in Names : rows[r] # g => IF s.rows[r] = g THEN files[g].st = "deleting" ELSE files[g] = s.files[g]
      BY <2>5
    <2>13. /\ s' = [s EXCEPT !.rows = rows, !.files = files, !.muts = muts, !.asleep = FALSE, !.turn = turn, !.alarm = a]
           /\ a <= s.clock /\ turn = [s.turn EXCEPT !["mutation"] = [at |-> "expire"]]
           /\ \A q \in Rows : q # r => rows[q] = s.rows[q]
           /\ rows[r] # None => /\ s.files[rows[r]].st = "ready" /\ rows[r] # s.rows[r]
                                /\ files[rows[r]] = [s.files[rows[r]] EXCEPT !.st = "attached", !.row = r, !.at = s.clock]
           /\ \A g \in Names : rows[r] # g => IF s.rows[r] = g THEN files[g].st = "deleting" ELSE files[g] = s.files[g]
           /\ ~s.deleted
      BY <1>1, <2>5, <2>9, <2>10, <2>11, <2>12
    <2> QED BY <2>4, <2>13, Zenon
  <1> QED BY <1>2, <1>3

\* A mutation attaches a file that no row has, so each row still owns its file.
LEMMA MutationKeepsInv ==
    ASSUME IInv, UNCHANGED mix, NEW r \in Rows, ClearFile(r) \/ \E f \in Names : SetFile(r, f)
    PROVE  IInv'
  <1>2. s \in States /\ MixOK
    BY DEF IInv
  <1>1. PICK rows \in [Rows -> {None} \cup Names], files \in [Names -> FileTypes], a \in 0..Never, muts \in Nat,
              turn \in [Turns -> TurnTypes] :
             /\ s' = [s EXCEPT !.rows = rows, !.files = files, !.muts = muts, !.asleep = FALSE, !.turn = turn, !.alarm = a]
             /\ a <= s.clock /\ turn = [s.turn EXCEPT !["mutation"] = [at |-> "expire"]]
             /\ \A q \in Rows : q # r => rows[q] = s.rows[q]
             /\ rows[r] # None => /\ s.files[rows[r]].st = "ready" /\ rows[r] # s.rows[r]
                                  /\ files[rows[r]] = [s.files[rows[r]] EXCEPT !.st = "attached", !.row = r, !.at = s.clock]
             /\ \A f \in Names : rows[r] # f => IF s.rows[r] = f THEN files[f].st = "deleting" ELSE files[f] = s.files[f]
             /\ ~s.deleted
    BY MutationStep
  <1>3. s' \in States
    BY <1>1, <1>2 DEF States
  <1>4. /\ s'.rows = rows /\ s'.files = files /\ s'.asleep = FALSE /\ s'.turn = turn /\ s'.alarm = a
        /\ s'.life = s.life /\ s'.deleted = s.deleted /\ s'.retained = s.retained /\ s'.clock = s.clock /\ s'.up = s.up
        /\ s'.down = s.down /\ s'.answers = s.answers /\ s'.served = s.served /\ s'.broken = s.broken
    BY <1>1, <1>2 DEF States
  <1>5. \A f \in Names : \/ files[f] = s.files[f]
                         \/ files[f].st = "deleting" /\ s.rows[r] = f
                         \/ s.files[f].st = "ready" /\ files[f].st = "attached" /\ files[f].hash = s.files[f].hash /\ rows[r] = f
    <2> SUFFICES ASSUME NEW f \in Names
                 PROVE  \/ files[f] = s.files[f]
                        \/ files[f].st = "deleting" /\ s.rows[r] = f
                        \/ s.files[f].st = "ready" /\ files[f].st = "attached" /\ files[f].hash = s.files[f].hash /\ rows[r] = f
      OBVIOUS
    <2>1. s.files[f] \in FileTypes
      BY <1>2 DEF States
    <2>2. f # None
      BY DEF Names, None
    <2>3. CASE rows[r] = f
      BY <1>1, <2>1, <2>2, <2>3 DEF FileTypes
    <2>4. CASE rows[r] # f
      BY <1>1, <2>4
    <2> QED BY <2>3, <2>4
  <1>6. Pending' <= mix.pending
    <2>1. \A f \in Names : s'.files[f].st = "pending" => s.files[f].st = "pending"
      BY <1>4, <1>5
    <2> QED BY <2>1, PendingKeeps
  <1>7. UploadsOK' /\ BytesOK' /\ NothingStaleServed'
    BY <1>4, <1>5, SameBounds DEF IInv, UploadsOK, BytesOK, NothingStaleServed, VisibleIsStored, Materialized, File
  <1>8. AnswersOK'
    <2>1. \A x \in s.answers : x.f \in Names
      BY <1>2 DEF States, Answers
    <2> QED BY <1>4, <1>5, <2>1, SameBounds DEF IInv, AnswersOK, Materialized, File
  <1>9. RowOwnsFile'
    <2>1. ASSUME NEW q \in Rows, rows[q] # None PROVE files[rows[q]].st = "attached" /\ files[rows[q]].row = q
      <3>1. CASE q = r
        <4>1. s.files[rows[r]] \in FileTypes
          BY <1>2, <2>1, <3>1 DEF States
        <4> QED BY <1>1, <2>1, <3>1, <4>1 DEF FileTypes
      <3>2. CASE q # r
        <4>1. rows[q] = s.rows[q] /\ rows[q] \in Names
          BY <1>1, <1>2, <2>1, <3>2 DEF States
        <4>2. s.files[rows[q]].st = "attached" /\ s.files[rows[q]].row = q
          BY <1>1, <2>1, <4>1 DEF IInv, RowOwnsFile, Matches, File
        <4>3. rows[r] # rows[q]
          BY <1>1, <4>2, <2>1
        <4>4. s.rows[r] # rows[q]
          BY <1>1, <4>2, <3>2, <2>1 DEF IInv, RowOwnsFile, Matches, File
        <4> QED BY <1>1, <4>1, <4>2, <4>3, <4>4
      <3> QED BY <3>1, <3>2
    <2> QED BY <2>1, <1>4, SameBounds DEF IInv, RowOwnsFile, Matches, File
  <1>10. ArmedOK'
    <2>1. \A t \in Turns : s'.turn[t].at \in {"delete", "release"} => s'.turn[t].now <= s'.clock
      BY <1>1, <1>2, <1>4 DEF IInv, ArmedOK, States, Turns
    <2>2. \A f \in Names : s'.files[f].st \in {"pending", "ready"} => s'.files[f].at + mix.ttl <= mix.time
      BY <1>4, <1>5 DEF IInv, ArmedOK, Leased, File
    <2>3. s'.alarm <= s'.clock + 1
      <3>1. s.clock \in Nat /\ a \in Nat
        BY <1>2 DEF States, MixOK, Never
      <3> QED BY <1>1, <1>4, <3>1
    <2>4. s'.asleep = FALSE
      BY <1>4
    <2> QED BY <1>3, <2>1, <2>2, <2>3, <2>4, AlarmDue
  <1> QED BY <1>2, <1>3, <1>6, <1>7, <1>8, <1>9, <1>10, SameBounds DEF IInv

-----------------------------------------------------------------------------
(* Fence and maintenance turn.                                             *)

\* Files queued for deletion are those of the set, and the others are untouched.
LEMMA DeletingFiles ==
    ASSUME s \in States, MixOK, NEW set
    PROVE  /\ Deleting(s.files, set) \in [Names -> FileTypes]
           /\ \A f \in Names : IF f \in set THEN Deleting(s.files, set)[f].st = "deleting"
                               ELSE Deleting(s.files, set)[f] = s.files[f]
  <1>1. ASSUME NEW f \in Names
        PROVE  [s.files[f] EXCEPT !.st = "deleting", !.at = Later(@, s.clock)] \in FileTypes
    <2>1. s.files[f] \in FileTypes /\ s.clock \in Nat
      BY DEF States, MixOK
    <2>2. s.files[f].at \in Nat /\ Later(s.files[f].at, s.clock) \in Nat
      BY <2>1 DEF FileTypes, Later
    <2> QED BY <2>1, <2>2 DEF FileTypes
  <1>2. ASSUME NEW f \in Names PROVE s.files[f] \in FileTypes /\ [s.files[f] EXCEPT !.st = "deleting", !.at = Later(@, s.clock)].st = "deleting"
    BY DEF States, FileTypes
  <1> QED BY <1>1, <1>2 DEF Deleting

\* Queueing files for deletion leaves the rows, the bytes and the answers alone.
LEMMA QueueKeeps ==
    ASSUME IInv, UNCHANGED mix, NEW set, s'.files = Deleting(s.files, set), s'.retained = s.retained, s'.clock = s.clock,
           s'.life = s.life, s'.up = s.up, s'.down = s.down, s'.answers = s.answers, s'.served = s.served
    PROVE  /\ Pending' <= mix.pending /\ UploadsOK' /\ BytesOK' /\ AnswersOK' /\ NothingStaleServed'
           /\ \A f \in Names : s'.files[f] = s.files[f] \/ (s'.files[f].st = "deleting" /\ f \in set)
  <1>1. s \in States /\ MixOK
    BY DEF IInv
  <1>2. \A f \in Names : s'.files[f] = s.files[f] \/ (s'.files[f].st = "deleting" /\ f \in set)
    BY <1>1, DeletingFiles
  <1>3. \A x \in s.answers : x.f \in Names
    BY <1>1 DEF States, Answers
  <1>4. Pending' <= mix.pending
    <2>1. \A f \in Names : s'.files[f].st = "pending" => s.files[f].st = "pending"
      BY <1>2
    <2> QED BY <2>1, PendingKeeps
  <1>5. UploadsOK' /\ BytesOK' /\ NothingStaleServed'
    BY <1>2, SameBounds DEF IInv, UploadsOK, BytesOK, NothingStaleServed, VisibleIsStored, Materialized, File
  <1>6. AnswersOK'
    BY <1>2, <1>3, SameBounds DEF IInv, AnswersOK, Materialized, File
  <1> QED BY <1>2, <1>4, <1>5, <1>6

\* The fence of a deleted organization arms the alarm for what it leaves behind.
LEMMA FenceKeepsInv ==
    ASSUME IInv, UNCHANGED mix, FenceOrganization
    PROVE  IInv'
  <1>1. s \in States /\ MixOK /\ s.clock + 1 \in Nat /\ s.clock \in Nat
    BY DEF IInv, States, MixOK
  <1> DEFINE set == Batch({f \in Names : Materialized(f)})
             files == Deleting(s.files, set)
             base == [s EXCEPT !.deleted = TRUE, !.asleep = FALSE, !.files = files]
  <1>2. files \in [Names -> FileTypes]
    BY <1>1, DeletingFiles
  <1>3. s' = ScheduleNoLaterThan(base, s.clock + 1)
    BY DEF FenceOrganization
  <1>4. files = Deleting(s.files, set)
    OBVIOUS
  <1> HIDE DEF files, set
  <1>5. base \in States
    BY <1>1, <1>2 DEF States
  <1>6. PICK a \in 0..Never : s' = [base EXCEPT !.alarm = a] /\ a <= s.clock + 1
    BY <1>1, <1>3, <1>5, ScheduleLowers
  <1>7. s' = [s EXCEPT !.deleted = TRUE, !.asleep = FALSE, !.files = files, !.alarm = a]
    BY <1>1, <1>6 DEF States
  <1>8. s' \in States
    BY <1>1, <1>2, <1>7 DEF States
  <1>9. /\ s'.files = files /\ s'.retained = s.retained /\ s'.clock = s.clock /\ s'.life = s.life /\ s'.up = s.up
        /\ s'.down = s.down /\ s'.answers = s.answers /\ s'.served = s.served /\ s'.turn = s.turn /\ s'.alarm = a
        /\ s'.asleep = FALSE /\ s'.deleted = TRUE /\ s'.broken = s.broken
    BY <1>1, <1>7 DEF States
  <1>10. /\ Pending' <= mix.pending /\ UploadsOK' /\ BytesOK' /\ AnswersOK' /\ NothingStaleServed'
         /\ \A f \in Names : s'.files[f] = s.files[f] \/ (s'.files[f].st = "deleting" /\ f \in set)
    BY <1>4, <1>9, QueueKeeps
  <1>11. RowOwnsFile'
    BY <1>9 DEF RowOwnsFile, IInv
  <1>12. ArmedOK'
    <2>1. \A t \in Turns : s'.turn[t].at \in {"delete", "release"} => s'.turn[t].now <= s'.clock
      BY <1>9 DEF IInv, ArmedOK
    <2>2. \A f \in Names : s'.files[f].st \in {"pending", "ready"} => s'.files[f].at + mix.ttl <= mix.time
      BY <1>10 DEF IInv, ArmedOK, Leased, File
    <2>3. s'.alarm <= s'.clock + 1
      BY <1>6, <1>9
    <2>4. s'.asleep = FALSE
      BY <1>9
    <2> QED BY <1>8, <2>1, <2>2, <2>3, <2>4, AlarmDue
  <1> QED BY <1>1, <1>8, <1>10, <1>11, <1>12, SameBounds DEF IInv

\* nextPendingFileExpiry is no later than any lease.
LEMMA NextExpiryIsFirst ==
    ASSUME MixOK, NEW files \in [Names -> FileTypes],
           \A f \in Names : files[f].st \in {"pending", "ready"} => files[f].at + mix.ttl <= mix.time
    PROVE  /\ NextExpiry(files) \in Nat
           /\ \A f \in Names : files[f].st \in {"pending", "ready"} => NextExpiry(files) <= files[f].at + mix.ttl
  <1> DEFINE T == {files[f].at + mix.ttl : f \in Unattached(files)}
  <1>0. mix.ttl \in Nat /\ mix.time \in Nat /\ Never \in Nat
    BY DEF MixOK, Never
  <1>1. T \subseteq Nat
    BY <1>0 DEF Unattached, FileTypes
  <1>2. CASE Unattached(files) = {}
    BY <1>0, <1>2 DEF NextExpiry, Unattached
  <1>3. CASE Unattached(files) # {}
    <2>1. T # {}
      BY <1>3
    <2>2. \E x \in T : \A y \in T : x <= y
      <3>1. PICK x \in T : \A y \in T : ~(<<y, x>> \in OpToRel(<, Nat))
        BY <1>1, <2>1, NatLessThanWellFounded, WFMin
      <3>2. ASSUME NEW y \in T PROVE ~(y < x)
        <4>1. x \in Nat /\ y \in Nat
          BY <1>1
        <4> QED BY <3>1, <4>1 DEF OpToRel
      <3>3. ASSUME NEW y \in T PROVE x <= y
        <4>1. x \in Nat /\ y \in Nat /\ ~(y < x)
          BY <1>1, <3>2
        <4> QED BY <4>1
      <3> QED BY <3>3
    <2>3. Min(T) \in T /\ \A y \in T : Min(T) <= y
      BY <2>2 DEF Min
    <2>4. NextExpiry(files) = Min(T)
      BY <1>3 DEF NextExpiry
    <2> QED BY <1>1, <2>3, <2>4 DEF Unattached
  <1> QED BY <1>2, <1>3

\* The expiry takes no file away from a row of a living organization, and the
\* turn remembers when the first of the leases it leaves ends.
LEMMA ExpireKeepsInv ==
    ASSUME IInv, UNCHANGED mix, NEW t \in Turns, Expire(t)
    PROVE  IInv'
  <1>1. s \in States /\ MixOK /\ s.clock \in Nat /\ s.turn[t].at = "expire" /\ mix.ttl \in Nat /\ s.alarm \in Nat
    BY DEF IInv, States, MixOK, Expire, Never
  <1> DEFINE set == Batch({f \in Names : Expired(f) \/ Tombstoned(f)})
             files == Deleting(s.files, set)
             due == {f \in Names : files[f].st = "deleting"}
             turn == [at |-> "delete", now |-> s.clock, next |-> NextExpiry(files), retry |-> FALSE,
                      todo |-> {x \in due : Cardinality({y \in due : y < x}) < mix.batch}]
  <1>2. files \in [Names -> FileTypes]
    BY <1>1, DeletingFiles
  <1>3. s' = [s EXCEPT !.files = files, !.asleep = FALSE, !.turn[t] = turn]
    BY DEF Expire
  <1>4. files = Deleting(s.files, set) /\ \A f \in set : f \in Names /\ (Expired(f) \/ Tombstoned(f))
    BY DEF Batch
  <1>5. turn.at = "delete" /\ turn.now = s.clock /\ turn.next = NextExpiry(files) /\ turn.todo \in SUBSET Names /\ turn.retry = FALSE
    OBVIOUS
  <1>5a. turn = [at |-> "delete", now |-> turn.now, next |-> turn.next, retry |-> turn.retry, todo |-> turn.todo]
    OBVIOUS
  <1> HIDE DEF files, set, turn
  <1>6. \A f \in Names : files[f] = s.files[f] \/ (files[f].st = "deleting" /\ f \in set)
    BY <1>1, <1>4, DeletingFiles
  <1>7. \A f \in Names : files[f].st \in {"pending", "ready"} => files[f].at + mix.ttl <= mix.time
    BY <1>6 DEF IInv, ArmedOK, Leased, File
  <1>8. /\ NextExpiry(files) \in Nat
        /\ \A f \in Names : files[f].st \in {"pending", "ready"} => NextExpiry(files) <= files[f].at + mix.ttl
    BY <1>1, <1>2, <1>7, NextExpiryIsFirst
  <1>9. turn \in TurnTypes
    <2>1. turn \in Deletes
      BY <1>1, <1>5, <1>5a, <1>8 DEF Deletes
    <2> QED BY <2>1 DEF TurnTypes
  <1>10. s' \in States
    BY <1>1, <1>2, <1>3, <1>9 DEF States
  <1>11. /\ s'.files = files /\ s'.retained = s.retained /\ s'.clock = s.clock /\ s'.life = s.life /\ s'.up = s.up
         /\ s'.down = s.down /\ s'.answers = s.answers /\ s'.served = s.served /\ s'.turn = [s.turn EXCEPT ![t] = turn]
         /\ s'.alarm = s.alarm /\ s'.asleep = FALSE /\ s'.deleted = s.deleted /\ s'.broken = s.broken /\ s'.rows = s.rows
    BY <1>1, <1>3 DEF States
  <1>12. /\ Pending' <= mix.pending /\ UploadsOK' /\ BytesOK' /\ AnswersOK' /\ NothingStaleServed'
    BY <1>4, <1>11, QueueKeeps
  <1>13. RowOwnsFile'
    <2>1. ASSUME NEW r \in Rows, ~s.deleted, s.rows[r] # None
          PROVE  files[s.rows[r]] = s.files[s.rows[r]]
      <3>1. s.rows[r] \in Names
        BY <1>1, <2>1 DEF States
      <3>2. s.files[s.rows[r]].st = "attached"
        BY <2>1 DEF IInv, RowOwnsFile, Matches, File
      <3> QED BY <1>4, <1>6, <2>1, <3>1, <3>2 DEF Expired, Tombstoned, File
    <2> QED BY <1>11, <2>1, SameBounds DEF IInv, RowOwnsFile, Matches, File
  <1>14. ArmedOK'
    <2>1. \A x \in Turns : s'.turn[x].at \in {"delete", "release"} => s'.turn[x].now <= s'.clock
      BY <1>1, <1>5, <1>11 DEF IInv, ArmedOK, States
    <2>2. s'.turn["alarm"] = IF t = "alarm" THEN turn ELSE s.turn["alarm"]
      BY <1>1, <1>11 DEF States, Turns
    <2>3. t = "mutation" => ~s.asleep
      BY <1>1 DEF IInv, ArmedOK
    <2>4. \A f \in Names : s.files[f].at \in Nat /\ files[f].at \in Nat
      BY <1>1, <1>2 DEF States, FileTypes
    <2>5. ASSUME NEW f \in Names
          PROVE  /\ Leased(f)' => File(f)'.at + mix.ttl <= mix.time
                 /\ Leased(f)' /\ ~Tombstoned(f)' => LeaseCovered(f)'
                 /\ File(f)'.st = "deleting" \/ Tombstoned(f)' => DeletionCovered'
      <3>1. CASE t = "alarm"
        BY <1>5, <1>7, <1>8, <1>11, <2>2, <3>1 DEF Leased, LeaseCovered, DeletionCovered, File
      <3>2. CASE t = "mutation" /\ files[f] = s.files[f]
        BY <1>7, <1>11, <2>2, <2>3, <3>2 DEF IInv, ArmedOK, Leased, LeaseCovered, DeletionCovered, File, Tombstoned, Materialized
      <3>3. CASE t = "mutation" /\ files[f].st = "deleting" /\ Tombstoned(f)
        BY <1>7, <1>11, <2>2, <2>3, <3>3 DEF IInv, ArmedOK, Leased, DeletionCovered, File, Tombstoned, Materialized
      <3>4. CASE t = "mutation" /\ files[f].st = "deleting" /\ Expired(f) /\ ~Tombstoned(f)
        <4>1. LeaseCovered(f) /\ s.files[f].at + mix.ttl <= s.clock
          BY <3>4 DEF IInv, ArmedOK, Leased, Expired, File
        <4>2. DeletionCovered
          BY <1>1, <2>4, <4>1 DEF LeaseCovered, DeletionCovered, Later, File
        <4> QED BY <1>7, <1>11, <2>2, <2>3, <3>4, <4>2 DEF Leased, DeletionCovered, File, Tombstoned, Materialized
      <3> QED BY <1>4, <1>6, <3>1, <3>2, <3>3, <3>4 DEF Turns
    <2> QED BY <1>11, <2>1, <2>5, SameBounds DEF ArmedOK, File
  <1> QED BY <1>1, <1>10, <1>12, <1>13, <1>14, SameBounds DEF IInv

\* A step that changes only turns and the alarm keeps the invariant if what was
\* covered is covered after it.
LEMMA TurnOnly ==
    ASSUME IInv, UNCHANGED mix, NEW turn \in [Turns -> TurnTypes], NEW alarm \in 0..Never, NEW faults \in Nat,
           s' = [s EXCEPT !.turn = turn, !.alarm = alarm, !.faults = faults],
           s.asleep => turn["mutation"].at = "idle",
           \A t \in Turns : turn[t].at \in {"delete", "release"} => turn[t].now <= s.clock,
           \A f \in Names : Leased(f) /\ ~Tombstoned(f) /\ LeaseCovered(f) => LeaseCovered(f)',
           \A f \in Names : (File(f).st = "deleting" \/ Tombstoned(f)) /\ DeletionCovered => DeletionCovered'
    PROVE  IInv'
  <1>1. s \in States /\ MixOK
    BY DEF IInv
  <1>2. s' \in States
    BY <1>1 DEF States
  <1>3. /\ s'.files = s.files /\ s'.retained = s.retained /\ s'.clock = s.clock /\ s'.life = s.life /\ s'.up = s.up
        /\ s'.down = s.down /\ s'.answers = s.answers /\ s'.served = s.served /\ s'.turn = turn
        /\ s'.asleep = s.asleep /\ s'.deleted = s.deleted /\ s'.broken = s.broken /\ s'.rows = s.rows
    BY <1>1 DEF States
  <1>4. Pending' <= mix.pending
    BY <1>3, PendingKeeps
  <1>5. UploadsOK' /\ BytesOK' /\ AnswersOK' /\ NothingStaleServed' /\ RowOwnsFile'
    BY <1>3, SameBounds DEF IInv, UploadsOK, BytesOK, AnswersOK, NothingStaleServed, VisibleIsStored, RowOwnsFile, Matches, Materialized, File
  <1>6. ArmedOK'
    BY <1>3, SameBounds DEF IInv, ArmedOK, Leased, Tombstoned, Materialized, File
  <1> QED BY <1>1, <1>2, <1>4, <1>5, <1>6, SameBounds DEF IInv

\* What a turn between its deletions remembers.
LEMMA TurnTyped ==
    ASSUME IInv, NEW t \in Turns, s.turn[t].at \in {"delete", "release"}
    PROVE  /\ s.turn[t].now \in Nat /\ s.turn[t].next \in Nat /\ s.turn[t].retry \in BOOLEAN /\ s.turn[t].todo \subseteq Names
           /\ s.turn[t].now <= s.clock /\ s.clock \in Nat
           /\ s.turn[t].at = "release" => s.turn[t].f \in Names
           /\ s.turn[t].at = "delete" => s.turn[t] \in Deletes
           /\ s.turn[t].at = "release" => s.turn[t] \in Releases
  <1>1. s.turn[t] \in TurnTypes /\ s.clock \in Nat
    BY DEF IInv, States, MixOK
  <1>2. s.turn[t] \in Deletes \cup Releases
    BY <1>1 DEF TurnTypes, Deletes, Releases, Idle
  <1>3. s.turn[t].now <= s.clock
    BY DEF IInv, ArmedOK
  <1> QED BY <1>1, <1>2, <1>3 DEF Deletes, Releases

\* A delivered alarm is disarmed, and its turn is there instead.
LEMMA AlarmFiresKeepsInv ==
    ASSUME IInv, UNCHANGED mix, AlarmFires
    PROVE  IInv'
  <1> DEFINE turn == [s.turn EXCEPT !["alarm"] = [at |-> "expire"]]
  <1>1. s \in States /\ MixOK
    BY DEF IInv
  <1>2. turn \in [Turns -> TurnTypes] /\ Never \in 0..Never /\ s.faults \in Nat
    <2>1. [at |-> "expire"] \in TurnTypes
      BY DEF TurnTypes
    <2>2. s.turn \in [Turns -> TurnTypes] /\ s.faults \in Nat
      BY <1>1 DEF States
    <2>3. Never \in Nat
      BY <1>1 DEF Never, MixOK
    <2>4. turn \in [Turns -> TurnTypes]
      BY <2>1, <2>2
    <2> QED BY <2>2, <2>3, <2>4
  <1>3. s' = [s EXCEPT !.turn = turn, !.alarm = Never, !.faults = s.faults]
    BY <1>1 DEF AlarmFires, States
  <1>4. turn["alarm"].at = "expire" /\ turn["mutation"] = s.turn["mutation"]
    BY <1>1 DEF States, Turns
  <1> HIDE DEF turn
  <1>5. \A t \in Turns : turn[t].at \in {"delete", "release"} => turn[t].now <= s.clock
    BY <1>4 DEF IInv, ArmedOK, Turns
  <1>6. s.asleep => turn["mutation"].at = "idle"
    BY <1>4 DEF IInv, ArmedOK
  <1>7. s'.turn["alarm"].at = "expire"
    BY <1>1, <1>3, <1>4 DEF States
  <1> QED BY <1>2, <1>3, <1>5, <1>6, <1>7, TurnOnly DEF LeaseCovered, DeletionCovered

\* An object is deleted, or the bucket fails and the turn is to be tried again:
\* the turn still knows the next lease's end.
LEMMA DeletesKeepInv ==
    ASSUME IInv, UNCHANGED mix, NEW t \in Turns, NEW f \in Names, DeleteObject(t, f) \/ DeleteFails(t, f)
    PROVE  IInv'
  <1>1. s \in States /\ MixOK /\ s.turn[t].at = "delete" /\ f \in s.turn[t].todo
    BY DEF IInv, DeleteObject, DeleteFails
  <1>2. PICK x \in TurnTypes, faults \in Nat :
          /\ s' = [s EXCEPT !.turn = [s.turn EXCEPT ![t] = x], !.alarm = s.alarm, !.faults = faults]
          /\ x.at \in {"delete", "release"} /\ x.now = s.turn[t].now /\ x.next = s.turn[t].next
    <2>1. CASE DeleteObject(t, f)
      <3> DEFINE x == [at |-> "release", now |-> s.turn[t].now, next |-> s.turn[t].next, retry |-> s.turn[t].retry,
                       todo |-> s.turn[t].todo, f |-> f]
      <3>1. x \in Releases /\ x.now = s.turn[t].now /\ x.next = s.turn[t].next /\ x.at = "release"
        BY <1>1, TurnTyped DEF Releases
      <3>2. s' = [s EXCEPT !.turn = [s.turn EXCEPT ![t] = x], !.alarm = s.alarm, !.faults = s.faults] /\ s.faults \in Nat
        BY <1>1, <2>1 DEF DeleteObject, States
      <3> HIDE DEF x
      <3> QED BY <3>1, <3>2 DEF TurnTypes
    <2>2. CASE DeleteFails(t, f)
      <3> DEFINE x == [s.turn[t] EXCEPT !.todo = s.turn[t].todo \ {f}, !.retry = TRUE]
      <3>1. x \in Deletes /\ x.now = s.turn[t].now /\ x.next = s.turn[t].next /\ x.at = "delete"
        BY <1>1, TurnTyped DEF Deletes
      <3>2. s' = [s EXCEPT !.turn = [s.turn EXCEPT ![t] = x], !.alarm = s.alarm, !.faults = s.faults + 1]
        BY <1>1, <2>2 DEF DeleteFails, States
      <3>3. s.faults + 1 \in Nat
        BY <1>1 DEF States
      <3> HIDE DEF x
      <3> QED BY <3>1, <3>2, <3>3 DEF TurnTypes
    <2> QED BY <2>1, <2>2
  <1> DEFINE turn == [s.turn EXCEPT ![t] = x]
  <1>3. turn \in [Turns -> TurnTypes] /\ s.alarm \in 0..Never
    BY <1>1 DEF States
  <1>4. \A y \in Turns : turn[y] = IF y = t THEN x ELSE s.turn[y]
    BY <1>1 DEF States
  <1>5. s' = [s EXCEPT !.turn = turn, !.alarm = s.alarm, !.faults = faults]
    BY <1>2
  <1> HIDE DEF turn
  <1>6. \A y \in Turns : turn[y].at \in {"delete", "release"} => turn[y].now <= s.clock
    BY <1>1, <1>2, <1>4 DEF IInv, ArmedOK
  <1>7. s.asleep => turn["mutation"].at = "idle"
    BY <1>1, <1>4 DEF IInv, ArmedOK, Turns
  <1>8. s'.turn = turn /\ s'.alarm = s.alarm /\ s'.files = s.files /\ s'.asleep = s.asleep /\ s'.clock = s.clock
    BY <1>1, <1>5 DEF States
  <1>9. turn["alarm"].at = s.turn["alarm"].at \/ (t = "alarm" /\ turn["alarm"] = x)
    BY <1>4 DEF Turns
  <1>10. t # "alarm" => turn["alarm"] = s.turn["alarm"]
    BY <1>4 DEF Turns
  <1>11. \A g \in Names : LeaseCovered(g) => LeaseCovered(g)'
    BY <1>1, <1>2, <1>8, <1>9, <1>10 DEF LeaseCovered, File
  <1>12. DeletionCovered => DeletionCovered'
    BY <1>1, <1>2, <1>8, <1>9, <1>10 DEF DeletionCovered
  <1> QED BY <1>2, <1>3, <1>5, <1>6, <1>7, <1>11, <1>12, TurnOnly

\* A turn that ends arms the alarm for the next lease's end and, when a file waits
\* for deletion, for the next instant.
LEMMA FinishTurnKeepsInv ==
    ASSUME IInv, UNCHANGED mix, NEW t \in Turns, FinishTurn(t)
    PROVE  IInv'
  <1>1. s \in States /\ MixOK /\ s.turn[t].at = "delete" /\ s.alarm \in 0..Never /\ s.faults \in Nat /\ mix.ttl \in Nat
    BY DEF IInv, FinishTurn, States, MixOK
  <1> DEFINE now == s.turn[t].now
             next == s.turn[t].next
             again == IF s.turn[t].retry \/ Remaining THEN ScheduleNoLaterThan(s, now + 1) ELSE s
             later == IF next = Never THEN again ELSE ScheduleNoLaterThan(again, Later(now + 1, next))
             a1 == IF (s.turn[t].retry \/ Remaining) /\ now + 1 < s.alarm THEN now + 1 ELSE s.alarm
             a2 == IF next # Never /\ Later(now + 1, next) < a1 THEN Later(now + 1, next) ELSE a1
             turn == [s.turn EXCEPT ![t] = Idle]
  <1>2. now \in Nat /\ next \in Nat /\ now <= s.clock /\ s.clock \in Nat /\ s.alarm \in Nat /\ Never \in Nat /\ s.clock \in 0..mix.time
    BY <1>1, TurnTyped DEF States, Never, MixOK
  <1>3. again = [s EXCEPT !.alarm = a1]
    BY <1>1 DEF ScheduleNoLaterThan, States
  <1>4. later = [s EXCEPT !.alarm = a2]
    <2> HIDE DEF again, a1
    <2> QED BY <1>1, <1>3 DEF ScheduleNoLaterThan, States
  <1>5. s' = [later EXCEPT !.turn[t] = Idle]
    BY DEF FinishTurn
  <1>6. s' = [s EXCEPT !.turn = turn, !.alarm = a2, !.faults = s.faults]
    <2> HIDE DEF later, a2
    <2> QED BY <1>1, <1>4, <1>5 DEF States
  <1>7. /\ a2 \in Nat /\ a2 <= s.alarm
        /\ Remaining => a2 <= now + 1
        /\ next # Never => a2 <= Later(now + 1, next)
    <2> HIDE DEF now, next
    <2> QED BY <1>2 DEF Later
  <1>8. a2 \in 0..Never
    <2> HIDE DEF a2
    <2> QED BY <1>1, <1>2, <1>7
  <1>9. turn \in [Turns -> TurnTypes]
    BY <1>1 DEF States, TurnTypes
  <1>10. \A y \in Turns : turn[y] = IF y = t THEN Idle ELSE s.turn[y]
    BY <1>1 DEF States
  <1> HIDE DEF turn, a2, later, again, a1
  <1>11. s'.turn = turn /\ s'.alarm = a2 /\ s'.files = s.files /\ s'.asleep = s.asleep /\ s'.clock = s.clock
    BY <1>1, <1>6 DEF States
  <1>12. \A y \in Turns : turn[y].at \in {"delete", "release"} => turn[y].now <= s.clock
    BY <1>10 DEF IInv, ArmedOK, Idle
  <1>13. s.asleep => turn["mutation"].at = "idle"
    BY <1>10 DEF IInv, ArmedOK, Turns, Idle
  <1>14. t # "alarm" => turn["alarm"] = s.turn["alarm"]
    BY <1>10 DEF Turns
  <1>15. ASSUME NEW f \in Names, Leased(f), LeaseCovered(f)
         PROVE  LeaseCovered(f)'
    <2>1. s.files[f].at \in Nat /\ s.files[f].at + mix.ttl <= mix.time
      BY <1>1, <1>15 DEF IInv, ArmedOK, States, FileTypes, File
    <2>2. Leased(f) /\ next <= s.files[f].at + mix.ttl => next # Never
      BY <1>2, <2>1, <1>1 DEF Never, MixOK
    <2>3. next <= s.files[f].at + mix.ttl => a2 <= Later(s.clock + 1, s.files[f].at + mix.ttl)
      <3> HIDE DEF now, next
      <3> QED BY <1>1, <1>2, <1>7, <1>15, <2>1, <2>2 DEF Later
    <2>4. s.alarm <= Later(s.clock + 1, s.files[f].at + mix.ttl) => a2 <= Later(s.clock + 1, s.files[f].at + mix.ttl)
      BY <1>1, <1>2, <1>7, <2>1 DEF Later
    <2>5. CASE t = "alarm"
      BY <1>1, <1>11, <1>15, <2>3, <2>4, <2>5 DEF LeaseCovered, File
    <2>6. CASE t # "alarm"
      BY <1>11, <1>14, <1>15, <2>4, <2>6 DEF LeaseCovered, File
    <2> QED BY <2>5, <2>6
  <1>16. ASSUME NEW f \in Names, File(f).st = "deleting" \/ Tombstoned(f)
         PROVE  DeletionCovered'
    <2>1. a2 <= s.clock + 1
      <3> HIDE DEF now, next
      <3>1. Remaining
        BY <1>16 DEF Remaining
      <3> QED BY <1>2, <1>7, <3>1
    <2> QED BY <1>11, <2>1 DEF DeletionCovered
  <1> QED BY <1>1, <1>6, <1>8, <1>9, <1>12, <1>13, <1>15, <1>16, TurnOnly

\* An evicted object loses its turns; the alarm whose turn is lost is delivered
\* again.
LEMMA CrashKeepsInv ==
    ASSUME IInv, UNCHANGED mix, Crash
    PROVE  IInv'
  <1> DEFINE turn == [t \in Turns |-> Idle]
             alarm == IF s.turn["alarm"].at # "idle" /\ s.clock < s.alarm THEN s.clock ELSE s.alarm
  <1>1. s \in States /\ MixOK /\ s.faults \in Nat /\ s.clock \in Nat /\ s.alarm \in Nat /\ mix.ttl \in Nat /\ s.clock < Never /\ Never \in Nat
    BY DEF IInv, States, MixOK, Never
  <1>2. s' = [s EXCEPT !.turn = turn, !.alarm = alarm, !.faults = s.faults + 1]
    BY <1>1 DEF Crash, States
  <1>3. turn \in [Turns -> TurnTypes] /\ alarm \in 0..Never /\ alarm <= s.alarm /\ (s.turn["alarm"].at # "idle" => alarm <= s.clock)
    <2>1. turn \in [Turns -> TurnTypes]
      BY DEF TurnTypes
    <2>2. s.alarm \in 0..Never
      BY <1>1 DEF States
    <2> HIDE DEF turn
    <2> QED BY <1>1, <2>1, <2>2
  <1>4. turn["mutation"].at = "idle" /\ \A t \in Turns : turn[t].at = "idle"
    BY DEF Turns, Idle
  <1> HIDE DEF turn, alarm
  <1>5. s'.turn = turn /\ s'.alarm = alarm /\ s'.files = s.files /\ s'.asleep = s.asleep /\ s'.clock = s.clock
    BY <1>1, <1>2 DEF States
  <1>6. ASSUME NEW f \in Names, LeaseCovered(f) PROVE LeaseCovered(f)'
    <2>1. s.files[f].at \in Nat /\ alarm \in Nat
      BY <1>1, <1>3 DEF States, FileTypes
    <2>2. CASE s.turn["alarm"].at # "idle"
      BY <1>1, <1>3, <1>5, <2>1, <2>2 DEF LeaseCovered, Later, File
    <2>3. CASE s.turn["alarm"].at = "idle"
      BY <1>1, <1>3, <1>5, <1>6, <2>1, <2>3 DEF LeaseCovered, Later, File
    <2> QED BY <2>2, <2>3
  <1>7. DeletionCovered => DeletionCovered'
    BY <1>1, <1>3, <1>5 DEF DeletionCovered
  <1>8. \A t \in Turns : turn[t].at \in {"delete", "release"} => turn[t].now <= s.clock
    BY <1>4
  <1>9. s.faults + 1 \in Nat
    BY <1>1
  <1> QED BY <1>2, <1>3, <1>4, <1>6, <1>7, <1>8, <1>9, TurnOnly

\* completeDelete releases a file only if it still waits for deletion, whatever
\* happened while the bucket was called, so no row loses its file.
LEMMA CompleteDeleteKeepsInv ==
    ASSUME IInv, UNCHANGED mix, NEW t \in Turns, CompleteDelete(t)
    PROVE  IInv'
  <1> DEFINE f == s.turn[t].f
             files == [s.files EXCEPT ![f] = IF File(f).st = "deleting" THEN NoFile ELSE s.files[f]]
             x == [at |-> "delete", now |-> s.turn[t].now, next |-> s.turn[t].next, retry |-> s.turn[t].retry,
                   todo |-> s.turn[t].todo \ {f}]
             turn == [s.turn EXCEPT ![t] = x]
  <1>1. s \in States /\ MixOK /\ s.turn[t].at = "release" /\ f \in Names
    BY TurnTyped DEF IInv, CompleteDelete
  <1>2. x \in TurnTypes /\ x.at = "delete" /\ x.now = s.turn[t].now /\ x.next = s.turn[t].next
    BY <1>1, TurnTyped DEF TurnTypes, Deletes
  <1>3. s' = [s EXCEPT !.files = files, !.turn[t] = x]
    BY <1>1 DEF CompleteDelete, ReleaseOk, States
  <1>4. files \in [Names -> FileTypes] /\ \A g \in Names : \/ files[g] = s.files[g]
                                                           \/ files[g].st = "none" /\ s.files[g].st = "deleting"
    <2>1. NoFile \in FileTypes
      BY DEF NoFile, FileTypes, None
    <2>2. s.files \in [Names -> FileTypes] /\ NoFile.st = "none"
      BY <1>1 DEF States, NoFile
    <2> HIDE DEF f
    <2> QED BY <1>1, <2>1, <2>2 DEF File
  <1> HIDE DEF x, files
  <1>5. s' = [s EXCEPT !.files = files, !.turn = turn]
    BY <1>1, <1>3 DEF States
  <1>6. turn \in [Turns -> TurnTypes] /\ \A y \in Turns : turn[y] = IF y = t THEN x ELSE s.turn[y]
    BY <1>1, <1>2 DEF States
  <1> HIDE DEF turn, f
  <1>7. s' \in States
    BY <1>1, <1>4, <1>5, <1>6 DEF States
  <1>8. /\ s'.files = files /\ s'.retained = s.retained /\ s'.clock = s.clock /\ s'.life = s.life /\ s'.up = s.up
        /\ s'.down = s.down /\ s'.answers = s.answers /\ s'.served = s.served /\ s'.turn = turn
        /\ s'.alarm = s.alarm /\ s'.asleep = s.asleep /\ s'.deleted = s.deleted /\ s'.broken = s.broken /\ s'.rows = s.rows
    BY <1>1, <1>5 DEF States
  <1>9. Pending' <= mix.pending
    BY <1>4, <1>8, PendingKeeps
  <1>10. UploadsOK' /\ BytesOK' /\ NothingStaleServed'
    BY <1>4, <1>8, SameBounds DEF IInv, UploadsOK, BytesOK, NothingStaleServed, VisibleIsStored, Materialized, File
  <1>11. AnswersOK'
    BY <1>1, <1>4, <1>8, SameBounds DEF IInv, AnswersOK, Materialized, File, States, Answers
  <1>12. RowOwnsFile'
    <2>1. ASSUME NEW r \in Rows, ~s.deleted, s.rows[r] # None
          PROVE  files[s.rows[r]] = s.files[s.rows[r]]
      <3>1. s.rows[r] \in Names
        BY <1>1, <2>1 DEF States
      <3>2. s.files[s.rows[r]].st = "attached"
        BY <2>1 DEF IInv, RowOwnsFile, Matches, File
      <3> QED BY <1>4, <3>1, <3>2
    <2> QED BY <1>8, <2>1, SameBounds DEF IInv, RowOwnsFile, Matches, File
  <1>13. ArmedOK'
    <2>1. \A y \in Turns : turn[y].at \in {"delete", "release"} => turn[y].now <= s.clock
      BY <1>1, <1>2, <1>6 DEF IInv, ArmedOK
    <2>2. s.asleep => turn["mutation"].at = "idle"
      BY <1>1, <1>6 DEF IInv, ArmedOK, Turns
    <2>3. \/ t = "alarm" /\ turn["alarm"] = x
          \/ t # "alarm" /\ turn["alarm"] = s.turn["alarm"]
      BY <1>6 DEF Turns
    <2>4. ASSUME NEW g \in Names
          PROVE  /\ Leased(g)' => File(g)'.at + mix.ttl <= mix.time
                 /\ Leased(g)' /\ ~Tombstoned(g)' => LeaseCovered(g)'
                 /\ File(g)'.st = "deleting" \/ Tombstoned(g)' => DeletionCovered'
      <3>1. CASE files[g] = s.files[g]
        BY <1>1, <1>2, <1>8, <2>3, <3>1 DEF IInv, ArmedOK, Leased, LeaseCovered, DeletionCovered, File, Tombstoned, Materialized
      <3>2. CASE files[g].st = "none"
        BY <1>8, <3>2 DEF Leased, Tombstoned, Materialized, File
      <3> QED BY <1>4, <3>1, <3>2
    <2> QED BY <1>8, <2>1, <2>2, <2>4, SameBounds DEF ArmedOK, File
  <1> QED BY <1>1, <1>7, <1>9, <1>10, <1>11, <1>12, <1>13, SameBounds DEF IInv

-----------------------------------------------------------------------------
(* Downloads, time and movement.                                           *)

\* A step of a download changes nothing that others see.
LEMMA DownloadKeepsInv ==
    ASSUME IInv, UNCHANGED mix, NEW down \in Downloads, NEW served \in SUBSET Served,
           s' = [s EXCEPT !.down = down, !.served = served],
           down.at = "read" => down.got.file.hash \in s.retained,
           \A d \in served : ~d.stale
    PROVE  IInv'
  <1>1. s \in States /\ MixOK
    BY DEF IInv
  <1>2. s' \in States
    BY <1>1 DEF States
  <1>3. /\ s'.files = s.files /\ s'.retained = s.retained /\ s'.clock = s.clock /\ s'.life = s.life /\ s'.up = s.up
        /\ s'.down = down /\ s'.answers = s.answers /\ s'.served = served /\ s'.turn = s.turn /\ s'.alarm = s.alarm
        /\ s'.asleep = s.asleep /\ s'.deleted = s.deleted /\ s'.broken = s.broken /\ s'.rows = s.rows
    BY <1>1 DEF States
  <1>4. Pending' <= mix.pending
    BY <1>3, PendingKeeps
  <1>5. UploadsOK' /\ BytesOK' /\ AnswersOK' /\ NothingStaleServed' /\ RowOwnsFile'
    BY <1>3, SameBounds DEF IInv, UploadsOK, BytesOK, AnswersOK, NothingStaleServed, VisibleIsStored, RowOwnsFile, Matches, Materialized, File
  <1>6. ArmedOK'
    BY <1>3, SameBounds DEF IInv, ArmedOK, Leased, LeaseCovered, DeletionCovered, Tombstoned, Materialized, File
  <1> QED BY <1>1, <1>2, <1>4, <1>5, <1>6, SameBounds DEF IInv

\* resolveDownload finds a row that owns its file, whose bytes are stored.
LEMMA StartDownloadKeepsInv ==
    ASSUME IInv, UNCHANGED mix, NEW r \in Rows, StartDownload(r)
    PROVE  IInv'
  <1>1. s \in States /\ MixOK /\ s.served \in SUBSET Served /\ s.epoch \in Nat
    BY DEF IInv, States
  <1>2. Matches(r) /\ s.rows[r] # None
    BY DEF StartDownload, IInv, RowOwnsFile
  <1>3. s.rows[r] \in Names /\ s.files[s.rows[r]] \in FileTypes
    BY <1>1, <1>2 DEF States
  <1>4. Resolve(r) \in Found /\ Resolve(r).file = s.files[s.rows[r]]
    BY <1>2, <1>3 DEF Resolve, Found, File
  <1> DEFINE down == [at |-> "read", r |-> r, route |-> s.epoch, got |-> Resolve(r)]
  <1>5. down \in Downloads /\ down.got = Resolve(r)
    BY <1>1, <1>4 DEF Downloads
  <1>6. s' = [s EXCEPT !.down = down, !.served = s.served]
    BY <1>1, <1>2 DEF StartDownload, States
  <1>7. Resolve(r).file.hash \in s.retained
    BY <1>2, <1>3, <1>4 DEF IInv, BytesOK, VisibleIsStored, Materialized, Matches, File
  <1> HIDE DEF down
  <1> QED BY <1>1, <1>5, <1>6, <1>7, DownloadKeepsInv DEF IInv, NothingStaleServed

\* The object a download resolved to is in the bucket.
LEMMA ReadObjectKeepsInv ==
    ASSUME IInv, UNCHANGED mix, ReadObject
    PROVE  IInv'
  <1>1. s \in States /\ MixOK /\ s.served \in SUBSET Served /\ s.down.at = "read" /\ s.down \in Downloads
    BY DEF IInv, States, ReadObject
  <1> DEFINE down == [s.down EXCEPT !.at = "again"]
  <1>2. down \in Downloads /\ down.at = "again"
    <2>1. s.down \in [at : {"read", "again"}, r : Rows, route : Nat, got : Found]
      BY <1>1 DEF Downloads, Idle
    <2> QED BY <2>1 DEF Downloads
  <1>3. s.down.got.file.hash \in s.retained
    BY <1>1 DEF IInv, BytesOK
  <1>4. s' = [s EXCEPT !.down = down, !.served = s.served]
    BY <1>1, <1>3 DEF ReadObject, States
  <1> HIDE DEF down
  <1> QED BY <1>1, <1>2, <1>4, DownloadKeepsInv DEF IInv, NothingStaleServed

\* A download is served only when the second resolution is the first one.
LEMMA ServeKeepsInv ==
    ASSUME IInv, UNCHANGED mix, Serve
    PROVE  IInv'
  <1> DEFINE d == s.down
             same == ~s.deleted /\ d.route = s.epoch /\ Matches(d.r) /\ Resolve(d.r) = d.got
             answer == [r |-> d.r, f |-> d.got.f, h |-> d.got.file.hash, stale |-> s.deleted \/ s.rows[d.r] # d.got.f]
             served == IF same THEN {answer} ELSE s.served
  <1>1. s \in States /\ MixOK /\ s.served \in SUBSET Served /\ s.down.at = "again" /\ s.down \in Downloads
    BY DEF IInv, States, Serve
  <1>2. d.r \in Rows /\ d.got \in Found /\ d.got.f \in {None} \cup Names /\ d.got.file.hash \in {None} \cup Contents
    <2>1. s.down \in [at : {"read", "again"}, r : Rows, route : Nat, got : Found]
      BY <1>1 DEF Downloads, Idle
    <2> QED BY <2>1 DEF Found, FileTypes
  <1>3. answer \in Served /\ answer.stale = (s.deleted \/ s.rows[d.r] # d.got.f)
    BY <1>1, <1>2 DEF Served
  <1>4. same => ~answer.stale
    <2>1. ASSUME Resolve(d.r) = d.got PROVE s.rows[d.r] = d.got.f
      BY <2>1 DEF Resolve
    <2>2. ASSUME same PROVE ~s.deleted /\ s.rows[d.r] = d.got.f
      BY <2>1, <2>2
    <2> HIDE DEF answer
    <2> QED BY <1>3, <2>2
  <1>5. Idle \in Downloads /\ Idle.at = "idle"
    BY DEF Downloads, Idle
  <1>6. s' = [s EXCEPT !.down = Idle, !.served = served]
    BY <1>1 DEF Serve, States
  <1> HIDE DEF answer
  <1>7. served \in SUBSET Served /\ \A x \in served : ~x.stale
    BY <1>1, <1>3, <1>4 DEF IInv, NothingStaleServed
  <1> HIDE DEF served
  <1> QED BY <1>5, <1>6, <1>7, DownloadKeepsInv

\* Time passes: what was covered stays covered.
LEMMA TickKeepsInv ==
    ASSUME IInv, UNCHANGED mix, Tick
    PROVE  IInv'
  <1>1. /\ s \in States /\ MixOK /\ s.clock \in 0..mix.time /\ s.clock < mix.time /\ s.alarm \in 0..Never /\ Never \in Nat
        /\ mix.ttl \in Nat /\ mix.time \in Nat
    BY DEF IInv, States, MixOK, Never, Tick
  <1>2. s' = [s EXCEPT !.clock = s.clock + 1] /\ s.clock + 1 \in 0..mix.time
    BY <1>1 DEF Tick
  <1>3. s' \in States
    BY <1>1, <1>2 DEF States
  <1>4. /\ s'.files = s.files /\ s'.retained = s.retained /\ s'.clock = s.clock + 1 /\ s'.life = s.life /\ s'.up = s.up
        /\ s'.down = s.down /\ s'.answers = s.answers /\ s'.served = s.served /\ s'.turn = s.turn /\ s'.alarm = s.alarm
        /\ s'.asleep = s.asleep /\ s'.deleted = s.deleted /\ s'.broken = s.broken /\ s'.rows = s.rows
    BY <1>1, <1>2 DEF States
  <1>5. Pending' <= mix.pending
    BY <1>4, PendingKeeps
  <1>6. UploadsOK'
    <2>1. ASSUME NEW u \in Uploads, s.up[u].at \in Busy PROVE s.up[u].now \in Nat
      BY <1>1, <2>1 DEF States, UploadTypes, Idle, Busy
    <2> QED BY <1>1, <1>4, <2>1, SameBounds DEF IInv, UploadsOK
  <1>7. BytesOK' /\ AnswersOK' /\ NothingStaleServed' /\ RowOwnsFile'
    BY <1>4, SameBounds DEF IInv, BytesOK, AnswersOK, NothingStaleServed, VisibleIsStored, RowOwnsFile, Matches, Materialized, File
  <1>8. ArmedOK'
    <2>1. ASSUME NEW t \in Turns, s.turn[t].at \in {"delete", "release"} PROVE s.turn[t].now <= s.clock + 1
      BY <1>1, <2>1, TurnTyped
    <2>2. ASSUME NEW f \in Names, LeaseCovered(f) PROVE LeaseCovered(f)'
      <3>1. s.files[f].at \in Nat
        BY <1>1 DEF States, FileTypes
      <3> QED BY <1>1, <1>4, <2>2, <3>1 DEF LeaseCovered, Later, File
    <2>3. DeletionCovered => DeletionCovered'
      BY <1>1, <1>4 DEF DeletionCovered
    <2> QED BY <1>4, <2>1, <2>2, <2>3, SameBounds DEF IInv, ArmedOK, Leased, Tombstoned, Materialized, File
  <1> QED BY <1>1, <1>3, <1>5, <1>6, <1>7, <1>8, SameBounds DEF IInv

\* A movement of the range stops the turns and starts the exception of CleanupIsArmed.
LEMMA MoveKeepsInv ==
    ASSUME IInv, UNCHANGED mix, Move
    PROVE  IInv'
  <1> DEFINE turn == [t \in Turns |-> Idle]
  <1>1. s \in States /\ MixOK /\ Never \in Nat /\ s.epoch \in Nat
    BY DEF IInv, States, MixOK, Never
  <1>2. turn \in [Turns -> TurnTypes] /\ \A t \in Turns : turn[t].at = "idle"
    BY DEF TurnTypes, Idle
  <1>3. s' = [s EXCEPT !.epoch = s.epoch + 1, !.alarm = Never, !.asleep = TRUE, !.turn = turn]
    BY <1>1 DEF Move
  <1> HIDE DEF turn
  <1>4. s' \in States
    <2>1. s.epoch + 1 \in Nat /\ Never \in 0..Never
      BY <1>1
    <2> QED BY <1>1, <1>2, <1>3, <2>1 DEF States
  <1>5. /\ s'.files = s.files /\ s'.retained = s.retained /\ s'.clock = s.clock /\ s'.life = s.life /\ s'.up = s.up
        /\ s'.down = s.down /\ s'.answers = s.answers /\ s'.served = s.served /\ s'.turn = turn
        /\ s'.asleep = TRUE /\ s'.deleted = s.deleted /\ s'.broken = s.broken /\ s'.rows = s.rows
    BY <1>1, <1>3 DEF States
  <1>6. Pending' <= mix.pending
    BY <1>5, PendingKeeps
  <1>7. UploadsOK' /\ BytesOK' /\ AnswersOK' /\ NothingStaleServed' /\ RowOwnsFile'
    BY <1>5, SameBounds DEF IInv, UploadsOK, BytesOK, AnswersOK, NothingStaleServed, VisibleIsStored, RowOwnsFile, Matches, Materialized, File
  <1>8. ArmedOK'
    BY <1>2, <1>5, SameBounds DEF IInv, ArmedOK, Leased, LeaseCovered, DeletionCovered, Tombstoned, Materialized, File, Turns
  <1> QED BY <1>1, <1>4, <1>6, <1>7, <1>8, SameBounds DEF IInv

\* After the bytes are stored the route is read again.
LEMMA RefreshKeepsInv ==
    ASSUME IInv, UNCHANGED mix, NEW u \in Uploads, Refresh(u)
    PROVE  IInv'
  <1>1. s.up[u].at = "refresh" /\ s.up[u].at \in Busy /\ s \in States
    BY DEF Refresh, Busy, IInv
  <1>2. s' = Stale(s, u) \/ s' = [s EXCEPT !.up[u].at = IF s.up[u].at = "refresh" THEN "ready" ELSE @]
    BY <1>1 DEF Refresh, States
  <1> QED BY <1>1, <1>2, StaleKeepsInv

-----------------------------------------------------------------------------
(* The specification.                                                      *)

\* Every step of the files keeps the invariant.
LEMMA StepKeepsInv ==
    ASSUME IInv, UNCHANGED mix, Step
    PROVE  IInv'
  <1>1. CASE \E u \in Uploads : StartUpload(u) \/ Uploading(u) \/ PutFails(u)
    <2>1. PICK u \in Uploads : StartUpload(u) \/ Uploading(u) \/ PutFails(u)
      BY <1>1
    <2> QED BY <2>1, StartUploadKeepsInv, ReserveKeepsInv, PutKeepsInv, RefreshKeepsInv, MarkReadyKeepsInv DEF Uploading
  <1>2. CASE \E r \in Rows : (\E f \in Names : SetFile(r, f)) \/ ClearFile(r) \/ StartDownload(r)
    <2>1. PICK r \in Rows : (\E f \in Names : SetFile(r, f)) \/ ClearFile(r) \/ StartDownload(r)
      BY <1>2
    <2> QED BY <2>1, MutationKeepsInv, StartDownloadKeepsInv
  <1>3. CASE \E t \in Turns : Turn(t)
    <2>1. PICK t \in Turns : Turn(t)
      BY <1>3
    <2> QED BY <2>1, ExpireKeepsInv, DeletesKeepInv, CompleteDeleteKeepsInv, FinishTurnKeepsInv DEF Turn
  <1>4. CASE \E t \in Turns, f \in Names : DeleteFails(t, f)
    BY <1>4, DeletesKeepInv
  <1>5. CASE FenceOrganization \/ AlarmFires \/ Crash \/ ReadObject \/ Serve \/ Tick \/ Move
    BY <1>5, FenceKeepsInv, AlarmFiresKeepsInv, CrashKeepsInv, ReadObjectKeepsInv, ServeKeepsInv, TickKeepsInv, MoveKeepsInv
  <1> QED BY <1>1, <1>2, <1>3, <1>4, <1>5 DEF Step

\* So does a step of the specification, or none.
LEMMA NextKeepsInv ==
    ASSUME IInv, [Next]_vars
    PROVE  IInv'
  <1>1. CASE Next
    BY <1>1, StepKeepsInv DEF Next
  <1>2. CASE UNCHANGED vars
    <2>1. UNCHANGED mix /\ UNCHANGED s
      BY <1>2 DEF vars
    <2>2. Pending' = Pending
      BY <2>1, SameBounds DEF Pending, File
    <2>3. UploadsOK' /\ BytesOK' /\ AnswersOK' /\ NothingStaleServed' /\ RowOwnsFile' /\ ArmedOK'
      BY <2>1, SameBounds DEF IInv, UploadsOK, BytesOK, AnswersOK, NothingStaleServed, VisibleIsStored, RowOwnsFile,
        Matches, Materialized, File, ArmedOK, Leased, LeaseCovered, DeletionCovered, Tombstoned
    <2> QED BY <2>1, <2>2, <2>3, SameBounds DEF IInv
  <1> QED BY <1>1, <1>2

\* What the invariant says of what an application sees.
LEMMA InvIsSafe == ASSUME IInv PROVE Safe
  <1>1. s \in States /\ MixOK
    BY DEF IInv
  <1>2. TypeOK
    BY <1>1 DEF IInv, TypeOK, States, MixOK, FileTypes
  <1>3. VisibleIsStored /\ RowOwnsFile /\ NothingStaleServed
    BY DEF IInv, BytesOK
  <1>4. OneContent
    BY DEF IInv, AnswersOK, OneContent
  <1>5. ASSUME NEW f \in Names, s.files[f].st # "none", ~(s.files[f].st = "attached" /\ ~s.deleted), ~s.asleep,
               s.turn["alarm"].at = "idle"
        PROVE  s.alarm <= (IF File(f).st \in {"pending", "ready"} /\ ~Tombstoned(f)
                           THEN Later(s.clock + 1, File(f).at + mix.ttl) ELSE s.clock + 1)
    <2>1. CASE Leased(f) /\ ~Tombstoned(f)
      <3>1. LeaseCovered(f)
        BY <2>1 DEF IInv, ArmedOK
      <3> QED BY <1>5, <2>1, <3>1 DEF LeaseCovered, Leased
    <2>2. CASE ~(Leased(f) /\ ~Tombstoned(f))
      <3>1. s.files[f].st \in {"none", "pending", "ready", "attached", "deleting"}
        BY <1>1 DEF States, FileTypes
      <3>2. File(f).st = "deleting" \/ Tombstoned(f)
        BY <1>5, <2>2, <3>1 DEF Leased, Tombstoned, Materialized, File
      <3>3. DeletionCovered
        BY <3>2 DEF IInv, ArmedOK
      <3> QED BY <1>5, <2>2, <3>3 DEF DeletionCovered, Leased
    <2> QED BY <2>1, <2>2
  <1>6. CleanupIsArmed
    BY <1>5 DEF CleanupIsArmed, File
  <1> QED BY <1>2, <1>3, <1>4, <1>6 DEF Safe
=============================================================================
