----------------------------- MODULE VectorReshard -----------------------------
(***************************************************************************)
(* The vector rows of a range that moves: heads, outbox rows and attempts  *)
(* are copied page by page (one kind after the other) while the source     *)
(* keeps changing them, the captured changes are replayed on top, the      *)
(* result is compared page by page, and only then is the source drained.   *)
(*                                                                         *)
(* A row is a key <<kind, vector, version>> with an image.  Pages are read *)
(* at different moments; what makes the replay correct is the provenance   *)
(* the destination keeps: for every key the position of the captured log   *)
(* at which it was copied, and for every page the interval of keys it      *)
(* looked at, so that a change to a row that is missing can be told from a *)
(* change that was already gone when its page was read.                    *)
(***************************************************************************)
EXTENDS Naturals, Sequences, FiniteSets, SequencesExt

CONSTANT Mixes  \* bounds and faults: see MCResources

VARIABLES mix, s

vars == <<mix, s>>
On == mix.part = "vector_reshard"

Vecs == 1..mix.vecs
Vers == 1..mix.vers
HEAD == 1
OUTBOX == 2
ATTEMPT == 3
Keys == ({HEAD, OUTBOX} \X Vecs \X {0}) \cup ({ATTEMPT} \X Vecs \X Vers)
None == [none |-> TRUE]
Empty == [k \in Keys |-> None]
HeadOf(k) == <<HEAD, k[2], 0>>
Present(rows) == {k \in Keys : rows[k] # None}
Head1(st, ver) == [st |-> st, ver |-> ver]
Out(op, tgt, n) == [op |-> op, tgt |-> tgt, n |-> n]
Att(seen) == [seen |-> seen]

-----------------------------------------------------------------------------
(* Cursors and pages. *)

Cursor(kind) == [kind |-> kind, after |-> <<0, 0>>]
Start == Cursor(HEAD)
Done == Cursor(4)
After(k, c) == k[2] > c.after[1] \/ (k[2] = c.after[1] /\ k[3] > c.after[2])
Precedes(a, b) == a[2] < b[2] \/ (a[2] = b[2] /\ a[3] <= b[3])
First(set, n) == {k \in set : Cardinality({j \in set : Precedes(j, k)}) <= n}
LastKey(set) == CHOOSE k \in set : \A j \in set : Precedes(j, k)

PageAt(rows, seq, through, cur) ==
  LET all == {k \in Present(rows) : k[1] = cur.kind /\ After(k, cur) /\ seq[k[2]] <= through}
      recs == First(all, mix.page) IN
  [cur |-> cur, recs |-> [k \in recs |-> rows[k]],
   next |-> IF recs = all THEN Cursor(cur.kind + 1)
            ELSE [kind |-> cur.kind, after |-> <<LastKey(recs)[2], LastKey(recs)[3]>>]]

-----------------------------------------------------------------------------
NoPage == [n |-> 0]
NoProv == [none |-> TRUE]
Idle == [at |-> "idle"]

Source(rows) == [rows |-> rows, seq |-> [v \in Vecs |-> IF rows[<<HEAD, v, 0>>] = None THEN 0 ELSE v],
                 last |-> mix.vecs, capture |-> FALSE, through |-> 0,
                 cur |-> Start, n |-> 0, cached |-> NoPage, begun |-> FALSE, cleaned |-> FALSE]
Dest == [rows |-> Empty, prov |-> [k \in Keys |-> NoProv], ints |-> <<>>, receipts |-> {}, applied |-> 0,
         cur |-> Start, last |-> NoPage, terminal |-> FALSE, pn |-> 0, pcur |-> Start, plast |-> NoPage,
         pdone |-> FALSE, out |-> "none", acur |-> Cursor(ATTEMPT)]
Driver == [phase |-> "begin", n |-> 0, cur |-> Start, tail |-> 0, frozen |-> FALSE, pn |-> 0, pcur |-> Start]

(* A vector before the movement: absent, just written, in the index, or    *)
(* being deleted after it was sent.                                        *)
Before(v, kind) ==
  CASE kind = "absent" -> {}
    [] kind = "pending" -> {<<<<HEAD, v, 0>>, Head1("pending", 1)>>, <<<<OUTBOX, v, 0>>, Out("upsert", 1, 0)>>}
    [] kind = "ready" -> {<<<<HEAD, v, 0>>, Head1("ready", 1)>>, <<<<ATTEMPT, v, 1>>, Att(TRUE)>>}

RowsOf(kinds) ==
  LET all == UNION {Before(v, kinds[v]) : v \in Vecs} IN
  [k \in Keys |-> IF \E p \in all : p[1] = k THEN (CHOOSE p \in all : p[1] = k)[2] ELSE None]

Init ==
  /\ mix \in Mixes
  /\ \E kinds \in [Vecs -> mix.kinds] :
       s = [src |-> Source(RowsOf(kinds)), dst |-> Dest, drv |-> Driver, first |-> Empty, log |-> <<>>,
            run |-> Idle, late |-> {}, ops |-> 0, faults |-> 0, refused |-> FALSE]

-----------------------------------------------------------------------------
(* The source's own transactions: every changed row is captured. *)

Change(k, img) == [k |-> k, img |-> img]
Passed(st, k) == st.src.cur.kind > k[1] \/ (st.src.cur.kind = k[1] /\ ~After(k, st.src.cur))
Write(st, changes) ==
  LET rows == FoldLeft(LAMBDA r, c : [r EXCEPT ![c.k] = c.img], st.src.rows, changes)
      entries == [i \in DOMAIN changes |->
                    [k |-> changes[i].k, before |-> st.src.rows[changes[i].k], after |-> changes[i].img,
                     known |-> Passed(st, HeadOf(changes[i].k)), end |-> i = Len(changes)]] IN
  [st EXCEPT !.src.rows = rows, !.ops = @ + 1,
             !.log = IF st.src.capture THEN @ \o entries ELSE @]

(* mix.churn = FALSE: a child row inserted before the page of its head was *)
(* read is not removed before its own page is read (see NeverRefused).     *)
Removable(keys) ==
  mix.churn \/ \A i \in DOMAIN s.log : s.log[i].k \in keys /\ s.log[i].before = None =>
    s.log[i].known \/ Passed(s, s.log[i].k) \/ s.src.seq[s.log[i].k[2]] > s.src.through

Open(st) == ~st.drv.frozen /\ st.ops < mix.ops /\ st.drv.phase \notin {"abort", "aborted"}
HeadRow(v) == s.src.rows[<<HEAD, v, 0>>]
OutRow(v) == s.src.rows[<<OUTBOX, v, 0>>]

PutVector(v) ==
  /\ Open(s)
  /\ LET new == HeadRow(v) = None
         ver == IF new THEN 1 ELSE HeadRow(v).ver + 1
         written == Write(s, <<Change(<<HEAD, v, 0>>, Head1("pending", ver)),
                               Change(<<OUTBOX, v, 0>>, Out("upsert", ver, 0))>>) IN
     /\ ver <= mix.vers
     /\ s' = [written EXCEPT !.src.seq[v] = IF new THEN s.src.last + 1 ELSE @,
                             !.src.last = IF new THEN @ + 1 ELSE @]

SendVector(v) ==
  /\ Open(s) /\ OutRow(v) # None /\ OutRow(v).op = "upsert" /\ OutRow(v).n = 0
  /\ s' = Write(s, <<Change(<<ATTEMPT, v, OutRow(v).tgt>>, Att(FALSE)),
                     Change(<<OUTBOX, v, 0>>, [OutRow(v) EXCEPT !.n = 1])>>)

VectorVisible(v) ==
  /\ Open(s) /\ OutRow(v) # None /\ OutRow(v).op = "upsert" /\ OutRow(v).n = 1
  /\ Removable({<<OUTBOX, v, 0>>})
  /\ s' = Write(s, <<Change(<<HEAD, v, 0>>, [HeadRow(v) EXCEPT !.st = "ready"]),
                     Change(<<ATTEMPT, v, OutRow(v).tgt>>, Att(TRUE)),
                     Change(<<OUTBOX, v, 0>>, None)>>)

DropVector(v) ==
  /\ Open(s) /\ HeadRow(v) # None /\ HeadRow(v).st # "deleting"
  /\ LET ver == HeadRow(v).ver + 1 IN
     s' = Write(s, <<Change(<<HEAD, v, 0>>, Head1("deleting", ver)),
                     Change(<<OUTBOX, v, 0>>, Out("delete", ver, 0))>>)

VectorGone(v) ==
  /\ Open(s) /\ HeadRow(v) # None /\ HeadRow(v).st = "deleting"
  /\ Removable({<<OUTBOX, v, 0>>} \cup ({ATTEMPT} \X {v} \X Vers))
  /\ LET sent == SetToSortSeq({k \in Present(s.src.rows) : k[1] = ATTEMPT /\ k[2] = v}, LAMBDA a, b : a[3] < b[3])
         gone == [i \in DOMAIN sent |-> Change(sent[i], None)] IN
     s' = Write(s, gone \o <<Change(<<OUTBOX, v, 0>>, None), Change(<<HEAD, v, 0>>, None)>>)

-----------------------------------------------------------------------------
(* The source session: pages are cached, so a repeated read is the same. *)

BeginSource ==
  /\ s.drv.phase = "begin" /\ ~s.src.begun
  /\ s' = [s EXCEPT !.src.begun = TRUE, !.src.capture = TRUE, !.src.through = s.src.last,
                    !.first = s.src.rows]

BeginDest ==
  /\ s.drv.phase = "begin" /\ s.src.begun /\ s.dst.out = "none"
  /\ s' = [s EXCEPT !.dst.out = "active"]

PersistBegin ==
  /\ s.drv.phase = "begin" /\ s.dst.out = "active"
  /\ s' = [s EXCEPT !.drv.phase = "copy"]

ReadFresh(st) ==
  LET page == [n |-> st.src.n + 1, lsn |-> Len(st.log),
               page |-> PageAt(st.src.rows, st.src.seq, st.src.through, st.src.cur)] IN
  [st EXCEPT !.src.n = @ + 1, !.src.cur = page.page.next, !.src.cached = page,
             !.run = [at |-> "apply", rpc |-> "snapshot", req |-> page]]

ReadSnapshot ==
  /\ s.drv.phase = "copy" /\ s.run = Idle
  /\ s' = IF s.src.cached.n = s.drv.n + 1
          THEN [s EXCEPT !.run = [at |-> "apply", rpc |-> "snapshot", req |-> s.src.cached]]
          ELSE ReadFresh(s)

-----------------------------------------------------------------------------
(* The destination: every operator returns [ok, d]; a refusal changes      *)
(* nothing.                                                                *)

Refuse(d) == [ok |-> FALSE, d |-> d]
Accept(d) == [ok |-> TRUE, d |-> d]
Owned(d, k) == d.prov[k] # NoProv
Copied(d, k) == Owned(d, k) /\ d.prov[k].snap # 0

HeadRecordOk(d, k) == d.rows[k] # None => Owned(d, k)   \* nothing of before the movement
OwnerCopied(d, k) == Copied(d, HeadOf(k)) /\ d.rows[HeadOf(k)] # None
OutboxRecordOk(d, k) == OwnerCopied(d, k) /\ (d.rows[k] # None => Owned(d, k))
AttemptRecordOk(d, k) == OwnerCopied(d, k) /\ (d.rows[k] # None => Owned(d, k))
SnapshotRecordOk(d, k) ==
  /\ ~Copied(d, k)                                       \* a record is in one page
  /\ CASE k[1] = HEAD -> HeadRecordOk(d, k)
       [] k[1] = OUTBOX -> OutboxRecordOk(d, k)
       [] k[1] = ATTEMPT -> AttemptRecordOk(d, k)

PageTransitionOk(page) ==
  /\ page.cur # Done
  /\ \A k \in DOMAIN page.recs : k[1] = page.cur.kind /\ After(k, page.cur)
  /\ IF page.next.kind = page.cur.kind
     THEN DOMAIN page.recs # {} /\ page.next.after = <<LastKey(DOMAIN page.recs)[2], LastKey(DOMAIN page.recs)[3]>>
     ELSE page.next = Cursor(page.cur.kind + 1)

SnapshotProvenance(r, k) ==
  [snap |-> r.lsn + 1, tail |-> 0, present |-> TRUE, inserted |-> TRUE, img |-> r.page.recs[k]]
SnapshotInterval(r) == [cur |-> r.page.cur, next |-> r.page.next, lsn |-> r.lsn]
ReplayPage(d, r) == IF d.last = r THEN Accept(d) ELSE Refuse(d)

ApplySnapshot(d, r) ==
  LET keys == DOMAIN r.page.recs IN
  CASE d.out # "active" -> Refuse(d)
    [] d.last.n = r.n -> ReplayPage(d, r)
    [] d.terminal \/ r.n # Len(d.ints) + 1 \/ r.page.cur # d.cur \/ ~PageTransitionOk(r.page) -> Refuse(d)
    [] \E k \in keys : ~SnapshotRecordOk(d, k) -> Refuse(d)
    [] OTHER ->
         Accept([d EXCEPT
           !.rows = [k \in Keys |-> IF k \in keys THEN r.page.recs[k] ELSE @[k]],
           !.prov = [k \in Keys |-> IF k \in keys THEN SnapshotProvenance(r, k) ELSE @[k]],
           !.ints = Append(@, SnapshotInterval(r)),
           !.cur = r.page.next, !.last = r, !.terminal = r.page.next = Done])

(* A page that was read at or after the change looked at the key and did   *)
(* not see it.                                                             *)
CoversNothing(d, k, lsn) == FALSE
CoversSnapshotAbsence(d, k, lsn) ==
  \E i \in DOMAIN d.ints : LET int == d.ints[i] IN
    /\ int.cur.kind = k[1] /\ int.lsn >= lsn /\ After(k, int.cur)
    /\ int.next.kind # k[1] \/ ~After(k, int.next)

CopiedLaterOffByOne(d, k, lsn) == Copied(d, k) /\ d.prov[k].snap >= lsn
CopiedLater(d, k, lsn) == Copied(d, k) /\ d.prov[k].snap - 1 >= lsn

(* assertOutboxAgainstHead, assertAttemptAgainstHead. *)
ChildOk(d, k, img) ==
  LET h == d.rows[HeadOf(k)] IN
  CASE k[1] = HEAD -> TRUE
    [] h = None -> FALSE
    [] k[1] = ATTEMPT -> k[3] <= h.ver
    [] OTHER -> /\ img.tgt = h.ver
                /\ h.st \in (IF img.op = "upsert" THEN {"pending", "ready"} ELSE {"ready", "deleting"})

(* assertHeadTransition: an acknowledgement, or one more staged change.    *)
HeadMoves(b, a) ==
  \/ a.ver = b.ver /\ b.st = "pending" /\ a.st = "ready"
  \/ a.ver = b.ver + 1 /\ a.st \in {"pending", "deleting"}

HeadEntryOk(d, e) ==
  LET here == d.rows[e.k] IN
  /\ e.before # None /\ e.after # None => HeadMoves(e.before, e.after) /\ here \in {e.before, e.after}
  /\ e.before = None /\ here # None => here = e.after /\ Owned(d, e.k)
  /\ e.after = None /\ here # None => here = e.before
OutboxEntryOk(d, e) ==
  LET here == d.rows[e.k] IN
  /\ e.after # None => ChildOk(d, e.k, e.after)
  /\ e.before # None /\ e.after # None => here \in {e.before, e.after}
  /\ e.before = None /\ here # None => here = e.after /\ Owned(d, e.k)
  /\ e.after = None /\ here # None => here = e.before /\ ChildOk(d, e.k, e.before)
AttemptEntryOk(d, e) == OutboxEntryOk(d, e)
EntryOk(d, e) == IF e.k[1] = HEAD THEN HeadEntryOk(d, e)
                 ELSE IF e.k[1] = OUTBOX THEN OutboxEntryOk(d, e) ELSE AttemptEntryOk(d, e)

CompactTombstones(d, lsn) ==
  [d EXCEPT !.prov = [k \in Keys |-> IF Owned(d, k) /\ ~@[k].present /\ @[k].tail # 0 /\ @[k].tail <= lsn
                                     THEN NoProv ELSE @[k]]]

RecordTailForgets(d, e, lsn) ==
  [d EXCEPT !.prov[e.k] = [snap |-> 0, tail |-> lsn, present |-> e.after # None, inserted |-> FALSE, img |-> e.after],
            !.rows[e.k] = e.after, !.receipts = @ \cup {lsn}]
RecordTail(d, e, lsn) ==
  LET p == d.prov[e.k]
      new == [snap |-> IF p = NoProv THEN 0 ELSE p.snap, tail |-> lsn, present |-> e.after # None,
              inserted |-> (d.rows[e.k] = None /\ e.after # None) \/ (p # NoProv /\ p.inserted), img |-> e.after]
      after == [d EXCEPT !.prov[e.k] = new, !.rows[e.k] = e.after, !.receipts = @ \cup {lsn}] IN
  IF e.after = None THEN CompactTombstones(after, lsn) ELSE after

RecordReceipt(d, lsn) == [d EXCEPT !.receipts = @ \cup {lsn}]
ApplyEntry(d, e, lsn) ==
  CASE CopiedLater(d, e.k, lsn) -> Accept(RecordReceipt(d, lsn))
    [] ~Owned(d, e.k) /\ e.before # None ->
         IF CoversSnapshotAbsence(d, e.k, lsn) THEN Accept(RecordReceipt(d, lsn)) ELSE Refuse(d)
    [] OTHER -> IF EntryOk(d, e) THEN Accept(RecordTail(d, e, lsn)) ELSE Refuse(d)

(* A batch is whole transactions from `from`+1 to `to`. *)
PruneReceipts(d, from) == IF from >= d.applied THEN [d EXCEPT !.receipts = {n \in @ : n > d.applied}] ELSE d
HasReceipt(d, lsn) == lsn \in d.receipts
ApplyTail(d, r) ==
  LET pruned == PruneReceipts(d, r.from)
      step(a, i) == LET lsn == r.from + i IN
                    CASE ~a.ok -> a
                      [] lsn <= d.applied -> IF HasReceipt(a.d, lsn) THEN a ELSE Refuse(d)
                      [] OTHER -> ApplyEntry(a.d, r.entries[i], lsn)
      all == FoldLeft(step, Accept(pruned), [i \in DOMAIN r.entries |-> i]) IN
  CASE d.out # "active" \/ ~d.terminal -> Refuse(d)
    [] ~all.ok -> Refuse(d)
    [] OTHER -> Accept([all.d EXCEPT !.applied = IF r.to > @ THEN r.to ELSE @])

(* The destination's own page is compared as it is now. *)
SamePage(d, r) == PageAt(d.rows, [v \in Vecs |-> 0], 0, r.page.cur) = r.page

VerifyParity(d, r) ==
  CASE d.out # "active" \/ ~d.terminal \/ d.applied # r.lsn -> Refuse(d)
    [] d.plast.n = r.n -> IF d.plast = r THEN Accept(d) ELSE Refuse(d)
    [] r.n # d.pn + 1 \/ r.page.cur # d.pcur -> Refuse(d)
    [] ~SamePage(d, r) -> Refuse(d)
    [] OTHER -> Accept([d EXCEPT !.pn = r.n, !.pcur = r.page.next, !.plast = r, !.pdone = r.page.next = Done])

Finalize(d, r) ==
  CASE d.out = "finalized" -> Accept(d)
    [] d.out # "active" \/ ~d.terminal \/ ~d.pdone \/ d.plast.lsn # r.lsn -> Refuse(d)
    [] OTHER -> Accept([d EXCEPT !.out = "finalized"])

(* Abort removes, children first, what this movement inserted and what     *)
(* nobody has changed since.                                               *)
AbortPage(d) == First({k \in Keys : Owned(d, k) /\ k[1] = d.acur.kind /\ After(k, d.acur)}, mix.page)
AbortNext(d) ==
  LET page == AbortPage(d) IN
  IF Cardinality(page) = mix.page THEN [kind |-> d.acur.kind, after |-> <<LastKey(page)[2], LastKey(page)[3]>>]
  ELSE IF d.acur.kind = HEAD THEN Done ELSE Cursor(d.acur.kind - 1)

(* One bounded page of what is left of the provenance. *)
Some(set, n) == IF Cardinality(set) <= n THEN set ELSE CHOOSE t \in SUBSET set : Cardinality(t) = n
Least(a, b) == IF a < b THEN a ELSE b
CleanPage(d) ==
  LET keys == Some({k \in Keys : Owned(d, k)}, mix.clean)
      ints == Least(Len(d.ints), mix.clean - Cardinality(keys))
      receipts == Some(d.receipts, mix.clean - Cardinality(keys) - ints) IN
  [d EXCEPT !.prov = [k \in Keys |-> IF k \in keys THEN NoProv ELSE @[k]],
            !.ints = SubSeq(@, ints + 1, Len(@)), !.receipts = @ \ receipts]
Clean(d) == d.ints = <<>> /\ d.receipts = {} /\ \A k \in Keys : ~Owned(d, k)

PhysicalIsOurs(d, k) == d.rows[k] = (IF d.prov[k].present THEN d.prov[k].img ELSE None)
RemoveForAbort(d, page) ==
  [d EXCEPT !.rows = [k \in Keys |-> IF k \in page /\ d.prov[k].inserted THEN None ELSE @[k]],
            !.prov = [k \in Keys |-> IF k \in page THEN NoProv ELSE @[k]]]
AbortDest(d) ==
  LET page == AbortPage(d)
      removed == [RemoveForAbort(d, page) EXCEPT !.acur = IF @ = Done THEN @ ELSE AbortNext(d), !.out = "aborting"]
      cleaned == CleanPage(removed) IN
  CASE d.out \in {"none", "aborted"} -> Accept([d EXCEPT !.out = "aborted"])
    [] \E k \in page : ~PhysicalIsOurs(d, k) -> Refuse(d)
    [] removed.acur # Done -> Accept(removed)
    [] OTHER -> Accept([cleaned EXCEPT !.out = IF Clean(cleaned) THEN "aborted" ELSE @])

CleanDestOnce(d) ==
  CASE d.out # "finalized" -> Refuse(d)
    [] ~Clean(CleanPage(d)) -> Accept(CleanPage(d))
    [] OTHER -> Accept([CleanPage(d) EXCEPT !.last = NoPage, !.out = "cleaned"])
CleanDest(d) ==
  CASE d.out = "cleaned" -> Accept(d)
    [] d.out # "finalized" -> Refuse(d)
    [] ~Clean(CleanPage(d)) -> Accept(CleanPage(d))
    [] OTHER -> Accept([CleanPage(d) EXCEPT !.last = NoPage, !.out = "cleaned"])

Effect(d, rpc, r) ==
  CASE rpc = "snapshot" -> ApplySnapshot(d, r)
    [] rpc = "tail" -> ApplyTail(d, r)
    [] rpc = "parity" -> VerifyParity(d, r)
    [] rpc = "finalize" -> Finalize(d, r)
    [] rpc = "abort" -> AbortDest(d)
    [] rpc = "clean" -> CleanDest(d)

-----------------------------------------------------------------------------
(* The driver: read, call, persist.  A crash in between repeats the step;  *)
(* the abandoned call may still arrive.                                    *)

Call(rpc, r) == [at |-> "apply", rpc |-> rpc, req |-> r]

ReadTail ==
  /\ s.drv.phase = "caught" /\ s.run = Idle /\ s.drv.tail < Len(s.log)
  /\ \E to \in (s.drv.tail + 1)..Len(s.log) :
       /\ s.log[to].end
       /\ s' = [s EXCEPT !.run = Call("tail", [from |-> s.drv.tail, to |-> to,
                                               entries |-> SubSeq(s.log, s.drv.tail + 1, to)])]

Freeze ==
  /\ s.drv.phase = "caught" /\ s.run = Idle /\ ~s.drv.frozen
  /\ s' = [s EXCEPT !.drv.frozen = TRUE]

ReadParityUnfrozen ==
  /\ s.drv.phase = "caught" /\ s.run = Idle /\ s.drv.tail = Len(s.log) /\ s.drv.pcur # Done
  /\ s' = [s EXCEPT !.run = Call("parity", [n |-> s.drv.pn + 1, lsn |-> s.drv.tail,
                        page |-> PageAt(s.src.rows, [v \in Vecs |-> 0], 0, s.drv.pcur)])]
ReadParity ==
  /\ s.drv.phase = "caught" /\ s.run = Idle /\ s.drv.frozen /\ s.drv.tail = Len(s.log)
  /\ s.drv.pcur # Done
  /\ s' = [s EXCEPT !.run = Call("parity", [n |-> s.drv.pn + 1, lsn |-> s.drv.tail,
                        page |-> PageAt(s.src.rows, [v \in Vecs |-> 0], 0, s.drv.pcur)])]

CallFinalize ==
  /\ s.drv.phase = "caught" /\ s.run = Idle /\ s.drv.pcur = Done
  /\ s' = [s EXCEPT !.run = Call("finalize", [lsn |-> s.drv.tail])]

CallAbort ==
  /\ s.drv.phase = "abort" /\ s.run = Idle
  /\ s' = [s EXCEPT !.run = Call("abort", [n |-> 0])]

CallClean ==
  /\ s.drv.phase = "finish" /\ s.run = Idle
  /\ s' = [s EXCEPT !.run = Call("clean", [n |-> 0]), !.src.cleaned = TRUE, !.src.cached = NoPage]

DestApplies ==
  /\ s.run # Idle /\ s.run.at = "apply"
  /\ LET e == Effect(s.dst, s.run.rpc, s.run.req) IN
     s' = [s EXCEPT !.dst = e.d, !.run = IF e.ok THEN [@ EXCEPT !.at = "persist"] ELSE Idle,
                    !.refused = @ \/ ~e.ok]

Persisted(st) ==
  LET r == st.run.req IN
  CASE st.run.rpc = "snapshot" -> [st.drv EXCEPT !.n = r.n, !.cur = r.page.next,
                                                 !.phase = IF r.page.next = Done THEN "caught" ELSE @]
    [] st.run.rpc = "tail" -> [st.drv EXCEPT !.tail = r.to]
    [] st.run.rpc = "parity" -> [st.drv EXCEPT !.pn = r.n, !.pcur = r.page.next]
    [] st.run.rpc = "finalize" -> [st.drv EXCEPT !.phase = "prepare"]
    [] st.run.rpc = "abort" -> [st.drv EXCEPT !.phase = IF st.dst.out = "aborted" THEN "aborted" ELSE @]
    [] st.run.rpc = "clean" -> [st.drv EXCEPT !.phase = IF st.dst.out = "cleaned" THEN "done" ELSE @]

Persist ==
  /\ s.run # Idle /\ s.run.at = "persist"
  /\ s' = [s EXCEPT !.drv = Persisted(s), !.run = Idle]

Crash ==
  /\ s.run # Idle /\ s.faults < mix.faults
  /\ s' = [s EXCEPT !.run = Idle, !.faults = @ + 1,
                    !.late = IF s.run.at = "apply" /\ s.run.rpc # "abort"
                             THEN @ \cup {[rpc |-> s.run.rpc, req |-> s.run.req]} ELSE @]

LateApply(m) ==
  /\ m \in s.late
  /\ s' = [s EXCEPT !.late = @ \ {m}, !.dst = Effect(s.dst, m.rpc, m.req).d]

(* The administrator aborts; the phase CAS makes the running step stale.   *)
RequestAbort ==
  /\ mix.abort /\ s.drv.phase \in {"begin", "copy", "caught"}
  /\ s' = [s EXCEPT !.drv.phase = "abort", !.src.capture = FALSE, !.src.cleaned = TRUE, !.run = Idle,
                    !.late = IF s.run # Idle /\ s.run.at = "apply" THEN @ \cup {[rpc |-> s.run.rpc, req |-> s.run.req]}
                             ELSE @]

(* Draining, once the catalog has cut over. *)
PrepareDrain ==
  /\ s.drv.phase = "prepare"
  /\ LET rest == {k \in Present(s.src.rows) : k[1] = HEAD /\ s.src.rows[k].st # "deleting"}
         page == First(rest, mix.page) IN
     s' = [s EXCEPT !.src.rows = [k \in Keys |-> IF k \in page THEN Head1("deleting", @[k].ver + 1) ELSE @[k]],
                    !.drv.phase = IF page = rest THEN "drain" ELSE @]

DeleteDrain ==
  /\ s.drv.phase = "drain"
  /\ LET kind == CHOOSE c \in {HEAD, OUTBOX, ATTEMPT} :
                   \/ c = HEAD /\ \A k \in Present(s.src.rows) : k[1] = HEAD
                   \/ c = OUTBOX /\ (\E k \in Present(s.src.rows) : k[1] = OUTBOX)
                                 /\ ~\E k \in Present(s.src.rows) : k[1] = ATTEMPT
                   \/ c = ATTEMPT /\ \E k \in Present(s.src.rows) : k[1] = ATTEMPT
         rest == {k \in Present(s.src.rows) : k[1] = kind}
         page == First(rest, mix.page) IN
     s' = [s EXCEPT !.src.rows = [k \in Keys |-> IF k \in page THEN None ELSE @[k]],
                    !.drv.phase = IF kind = HEAD /\ page = rest THEN "finish" ELSE @]

-----------------------------------------------------------------------------
Drive ==
  \/ BeginSource \/ BeginDest \/ PersistBegin \/ ReadSnapshot \/ ReadTail \/ Freeze \/ ReadParity
  \/ CallFinalize \/ CallAbort \/ CallClean \/ DestApplies \/ Persist \/ PrepareDrain \/ DeleteDrain

Step ==
  \/ (\E v \in Vecs : PutVector(v) \/ SendVector(v) \/ VectorVisible(v) \/ DropVector(v) \/ VectorGone(v))
  \/ Drive \/ Crash \/ (\E m \in s.late : LateApply(m)) \/ RequestAbort

Next == On /\ Step /\ UNCHANGED mix
Spec == Init /\ [][Next]_vars

(* The Resharder's alarm calls the driver again until it is done. *)
Fairness == WF_s(On /\ Drive)
FairSpec == Spec /\ Fairness

-----------------------------------------------------------------------------
(* The source's rows after the first n captured changes. *)
RowsAt(n) == FoldLeft(LAMBDA r, i : [r EXCEPT ![s.log[i].k] = s.log[i].after], s.first, [i \in 1..n |-> i])
Truth == RowsAt(Len(s.log))

TypeOK ==
  /\ mix \in Mixes
  /\ s.dst.out \in {"none", "active", "finalized", "cleaned", "aborting", "aborted"}
  /\ s.drv.phase \in {"begin", "copy", "caught", "prepare", "drain", "finish", "done", "abort", "aborted"}
  /\ s.drv.tail <= s.dst.applied /\ s.dst.applied <= Len(s.log)
  /\ s.drv.n <= s.src.n /\ (s.dst.out = "active" => Len(s.dst.ints) \in s.drv.n..s.src.n)
  /\ \A k \in Present(s.dst.rows) : s.dst.out \in {"active", "aborting"} => s.dst.prov[k] # NoProv

(* No page, no batch and no parity page of the driver is ever refused,     *)
(* whatever the source did between the pages, however often a step was     *)
(* repeated and whatever arrives late; a refusal would leave the movement  *)
(* stuck.                                                                  *)
NeverRefused == ~s.refused

(* Once every page is in and the replay has passed the last page's         *)
(* position, the destination holds exactly the source's rows as of the     *)
(* replayed position, although no two pages were read at the same moment.  *)
ReplayIsSource ==
  LET d == s.dst IN
  d.out = "active" /\ d.terminal /\ d.applied >= d.ints[Len(d.ints)].lsn => d.rows = RowsAt(d.applied)

(* The source's rows are touched only when the destination is final and    *)
(* holds all of them.                                                      *)
DrainedIsMoved ==
  /\ s.src.capture /\ s.src.rows # Truth => s.dst.out \in {"finalized", "cleaned"}
  /\ s.dst.out \in {"finalized", "cleaned"} => s.dst.rows = Truth

(* An abort leaves nothing of the movement behind, and nothing that        *)
(* arrives later brings it back.                                           *)
AbortRestores ==
  s.dst.out = "aborted" => s.dst.rows = Empty /\ \A k \in Keys : s.dst.prov[k] = NoProv

(* The movement ends, moved or undone. *)
MovementEnds == On ~> (On /\ s.drv.phase \in {"done", "aborted"})

(* The moved vectors are those of the source, and a movement leaves one copy. *)
Safe == TypeOK /\ NeverRefused /\ ReplayIsSource /\ DrainedIsMoved /\ AbortRestores
=============================================================================
