--------------------------- MODULE FileReshardProofs ---------------------------
(***************************************************************************)
(* The movement of a range's files, for every number of files, page size,  *)
(* activity and faults.                                                    *)
(*                                                                         *)
(* The argument: the captured log tells which row a key had at each of its *)
(* positions (Was), so what the destination holds for a key is the row the *)
(* source had at the later of two positions: the one its page was read at, *)
(* and the one the replay has reached (ImageOK).  A key the copy passed    *)
(* without a row is gone from the source for good, or has its first change *)
(* still in the log (MissedOK), because an id is not reserved twice.  At   *)
(* the end of the log of a fenced source both say that the sides are       *)
(* equal.                                                                  *)
(***************************************************************************)
EXTENDS FileReshard, FiniteSetTheorems, WellFoundedInduction, TLAPS

-----------------------------------------------------------------------------
(* The types.                                                              *)

RowTypes == {None} \cup [st : {"pending", "ready", "attached", "deleting", "dead"}, at : Nat]
EntryTypes == [k : Keys, before : RowTypes, after : RowTypes]
Bindings == [outcome : {"none", "active", "finished", "aborted"}, maint : BOOLEAN, attach : BOOLEAN, fenced : BOOLEAN]
Cursors == [kind : {"file", "tomb"}, after : Int, done : BOOLEAN]
Images == UNION {[D -> RowTypes] : D \in SUBSET Keys}
Pages == [at : {"apply"}, rows : Images, last : Int, done : BOOLEAN, through : Nat]
RunTypes == {Idle} \cup Pages \cup [at : {"persist"}, last : Int, done : BOOLEAN]
              \cup [at : {"drained"}, next : Cursors] \cup [at : {"aborted"}, page : SUBSET Keys]
Phases == {"init", "copy", "replay", "fenced", "open", "cut", "done", "aborting", "aborted"}

States ==
  [rows : [Sides -> [Keys -> RowTypes]], born : SUBSET Keys, log : Seq(EntryTypes), led : [Keys -> Int],
   cur : [Sides -> Bindings], routed : Sides \cup {"none"}, barrier : BOOLEAN, phase : Phases, copy : Cursors, tail : Nat,
   check : Cursors, drain : Cursors, abort : Cursors, run : RunTypes, ops : Nat, faults : Nat, refused : BOOLEAN,
   moved : [Keys -> RowTypes]]

-----------------------------------------------------------------------------
(* The row of a key at a position of the log.                              *)

Later(log, k, n) == {j \in (n + 1)..Len(log) : log[j].k = k}
At(log, row, k, n) ==
  IF Later(log, k, n) = {} THEN row
  ELSE log[CHOOSE j \in Later(log, k, n) : \A i \in Later(log, k, n) : j <= i].before
Was(k, n) == At(s.log, s.rows["source"][k], k, n)

\* A change the source may make, and the first one of its key if it creates it.
Legal(e) ==
  /\ e.k = TOMB => e.after # None
  /\ e.before # None /\ e.after = None => e.before.st = "deleting"
  /\ e.before # None /\ e.after # None /\ e.k # TOMB => <<e.before.st, e.after.st>> \in Transitions
LogOK(log) ==
  \A i \in 1..Len(log) : /\ Legal(log[i])
                         /\ log[i].before = None => \A j \in 1..(i - 1) : log[j].k # log[i].k
\* The log leads to the rows of the source.
Chained(log, rows) == \A i \in 1..Len(log) : log[i].after = At(log, rows[log[i].k], log[i].k, i)

-----------------------------------------------------------------------------
(* The inductive invariant.                                                *)

SourceCur == s.cur["source"]
DestCur == s.cur["dest"]

\* The phases and the ownership of the two sides.
InitOK ==
  s.phase = "init" => /\ SourceCur.outcome = "none" /\ DestCur.outcome \in {"none", "active"}
                      /\ s.log = <<>> /\ s.copy = Here("tomb", -1) /\ \A k \in Keys : s.led[k] = NoLedger
OutcomesOK ==
  /\ s.phase \in {"copy", "replay", "fenced", "open"} => SourceCur.outcome = "active" /\ DestCur.outcome = "active"
  /\ s.phase = "cut" => SourceCur.outcome \in {"active", "finished"} /\ DestCur.outcome = "active"
  /\ s.phase = "done" => SourceCur.outcome = "finished" /\ DestCur.outcome = "finished"
  /\ s.phase = "aborting" => SourceCur.outcome \in {"none", "active", "aborted"}
  /\ s.phase = "aborted" => s.abort.done
  /\ s.abort.done => SourceCur.outcome \in {"none", "aborted"}
  /\ DestCur.outcome = "none" => \A k \in Keys : s.led[k] = NoLedger
FencesOK ==
  /\ s.phase \in {"init", "copy", "replay", "aborting", "aborted"} => ~SourceCur.fenced /\ ~DestCur.maint /\ s.routed = "source"
  /\ s.phase \in {"open", "cut", "done"} => SourceCur.fenced /\ DestCur.maint
  /\ DestCur.maint => SourceCur.fenced
  /\ s.routed = "dest" => s.check.done
  /\ DestCur.maint => s.check.done
  /\ s.check.done => SourceCur.fenced
PhasesOK == InitOK /\ OutcomesOK /\ FencesOK
RunsOK ==
  /\ s.run.at \in {"apply", "persist"} => s.phase = "copy"
  /\ s.run.at = "drained" => s.phase = "open"
  /\ s.run.at = "aborted" => s.phase = "aborting" /\ SourceCur.outcome \in {"none", "aborted"}

\* The source and its log, until the destination owns the range.
Copying == s.phase \in {"init", "copy", "replay", "fenced"} /\ ~DestCur.maint
BornOK ==
  /\ \A k \in Keys : s.rows["source"][k] # None => k \in s.born
  /\ \A i \in 1..Len(s.log) : s.log[i].k \in s.born
  /\ TOMB \in s.born => s.rows["source"][TOMB] # None
HistoryOK == Copying => BornOK /\ LogOK(s.log) /\ Chained(s.log, s.rows["source"])
TailOK ==
  /\ s.tail <= Len(s.log)
  /\ \A k \in Keys : s.led[k] \in NoLedger..Len(s.log)
  /\ s.phase \in {"init", "copy"} => s.tail = 0
  /\ s.check.done => s.tail = Len(s.log)

\* What the destination holds.
Pos(k) == IF s.led[k] > s.tail THEN s.led[k] ELSE s.tail
Image(k) ==
  /\ s.led[k] # NoLedger => s.rows["dest"][k] = Was(k, Pos(k))
  /\ s.led[k] >= 0 => Was(k, s.led[k]) # None
  /\ s.led[k] = ByTail => \E i \in 1..s.tail : s.log[i].k = k
  /\ s.phase \in {"init", "copy"} => s.led[k] # ByTail
ImageOK == Copying => \A k \in Keys : Image(k)
AbsentOK == ~DestCur.maint => \A k \in Keys : s.led[k] = NoLedger => s.rows["dest"][k] = None

\* What the copy has passed without a row.
Passed(c, k) ==
  \/ c.kind = "file" /\ (k = TOMB \/ k <= c.after \/ c.done)
  \/ c.kind = "tomb" /\ k = TOMB /\ k <= c.after
Missed(k) == s.led[k] # NoLedger \/ s.rows["source"][k] = None \/ Was(k, s.tail) = None
CursorOK == s.copy.done \/ s.phase \in {"replay", "fenced"} => s.copy.kind = "file" /\ s.copy.done
MissedOK == Copying => \A k \in Keys : Passed(s.copy, k) => Missed(k)

\* A page between its read and its cursor.
NextCopy(last, done) ==
  IF s.copy.kind = "tomb" /\ done THEN Here("file", 0) ELSE [s.copy EXCEPT !.after = last, !.done = done]
PageOK ==
  /\ s.run.at = "apply" =>
       /\ s.run.through <= Len(s.log) /\ \A k \in Keys : s.led[k] <= s.run.through
       /\ \A k \in DOMAIN s.run.rows : s.run.rows[k] # None /\ s.run.rows[k] = Was(k, s.run.through)
       /\ \A k \in Keys : Passed(NextCopy(s.run.last, s.run.done), k) => k \in DOMAIN s.run.rows \/ Missed(k)
  /\ s.run.at = "persist" => \A k \in Keys : Passed(NextCopy(s.run.last, s.run.done), k) => Missed(k)

\* The source is as it was fenced until it is drained.
MovedOK ==
  /\ s.phase = "fenced" /\ SourceCur.fenced => s.rows["source"] = s.moved
  /\ s.check.done /\ Copying => s.rows["dest"] = s.moved

\* What the drain and the abort have passed is gone.
Drained(c, k) ==
  \/ c.done
  \/ c.kind = "file" /\ k \in Files /\ k <= c.after
  \/ c.kind = "tomb" /\ (k \in Files \/ k <= c.after)
DrainOK ==
  /\ s.phase \notin {"open", "cut", "done"} => s.drain = Here("file", 0)
  /\ \A k \in Keys : Drained(s.drain, k) => s.rows["source"][k] = None
  /\ s.run.at = "drained" => \A k \in Keys : Drained(s.run.next, k) => s.rows["source"][k] = None
  /\ s.phase \in {"cut", "done"} => s.drain.done
Forgotten(c, k) == c.done \/ c.kind = "tomb" \/ (k \in Files /\ k <= c.after)
AbortOK ==
  /\ s.phase \notin {"aborting", "aborted"} => s.abort = Here("file", 0)
  /\ \A k \in Keys : Forgotten(s.abort, k) => s.led[k] = NoLedger
  /\ s.run.at = "aborted" =>
       /\ Cardinality(s.run.page) < mix.page \/ TOMB \in s.run.page => \A k \in Keys : s.led[k] = NoLedger
       /\ \A k \in Files : s.run.page # {} /\ k <= LastOf(s.run.page, s.abort) => s.led[k] = NoLedger

Inner == /\ ~s.refused /\ PhasesOK /\ RunsOK /\ HistoryOK /\ TailOK /\ ImageOK /\ AbsentOK /\ CursorOK
         /\ MissedOK /\ PageOK /\ MovedOK /\ DrainOK /\ AbortOK

\* What the mix bounds, as Init leaves it and every step keeps it.
MixOK == mix \in Mixes /\ mix.files \in Nat /\ mix.page \in Nat \ {0} /\ ~mix.reuse
IInv == MixOK /\ s \in States /\ Inner


-----------------------------------------------------------------------------
(* Pages.                                                                  *)

USE DEF TOMB, NoLedger, ByTail

\* Positions of keys in the order they are read in: a nonempty finite set of them has a last one.
LEMMA HasLast ==
    ASSUME NEW n \in Nat, NEW set \in SUBSET (0..n), set # {}
    PROVE  \E i \in set : \A j \in set : j <= i
<1> DEFINE Up == {n - i : i \in set}
<1>1. Up \subseteq Nat /\ Up # {}
  <2>1. \A i \in set : i \in Nat /\ n - i \in Nat
    OBVIOUS
  <2> QED
    BY <2>1
<1>2. PICK u \in Up : \A v \in Up : ~(<<v, u>> \in OpToRel(<, Nat))
  BY <1>1, NatLessThanWellFounded, WFMin
<1>3. ASSUME NEW v \in Up PROVE ~(v < u)
  <2>1. u \in Nat /\ v \in Nat
    BY <1>1
  <2> QED
    BY <1>2, <2>1 DEF OpToRel
<1>4. PICK i \in set : u = n - i
  OBVIOUS
<1>5. ASSUME NEW j \in set PROVE j <= i
  <2>1. n - j \in Up
    OBVIOUS
  <2>2. ~(n - j < n - i)
    BY <1>3, <1>4, <2>1
  <2>3. i \in 0..n /\ j \in 0..n
    OBVIOUS
  <2> QED
    BY <2>2, <2>3
<1> QED
  BY <1>5

\* The same for the first one.
LEMMA HasFirst ==
    ASSUME NEW n \in Nat, NEW set \in SUBSET (0..n), set # {}
    PROVE  \E i \in set : \A j \in set : i <= j
<1>1. set \subseteq Nat
  OBVIOUS
<1>2. PICK u \in set : \A v \in set : ~(<<v, u>> \in OpToRel(<, Nat))
  BY <1>1, NatLessThanWellFounded, WFMin
<1>3. ASSUME NEW v \in set PROVE u <= v
  <2>1. u \in Nat /\ v \in Nat
    BY <1>1
  <2>2. ~(v < u)
    BY <1>2, <2>1 DEF OpToRel
  <2> QED
    BY <2>1, <2>2
<1> QED
  BY <1>3

PlacedPage(set, place, size) == {k \in set : Cardinality({j \in set : place[j] <= place[k]}) <= size}

\* Keys in an order given by their places: those of which at most size come no later are the whole set, or exactly size.
LEMMA PageOfPlaces ==
    ASSUME NEW n \in Nat, NEW size \in Nat \ {0}, NEW set, IsFiniteSet(set),
           NEW place \in [set -> 0..n], \A j, k \in set : place[j] = place[k] => j = k
    PROVE  /\ IsFiniteSet(PlacedPage(set, place, size))
           /\ \A k \in PlacedPage(set, place, size), j \in set :
                place[j] <= place[k] => j \in PlacedPage(set, place, size)
           /\ PlacedPage(set, place, size) # set => Cardinality(PlacedPage(set, place, size)) = size
<1> DEFINE page == PlacedPage(set, place, size)
<1> DEFINE Upto(k) == {j \in set : place[j] <= place[k]}
<1>a. \A j, k \in set : j \in Upto(k) <=> place[j] <= place[k]
  OBVIOUS
<1>b. \A k \in set : Upto(k) \subseteq set
  OBVIOUS
<1>c. page = {k \in set : Cardinality(Upto(k)) <= size}
  BY DEF PlacedPage
<1>e. size \in Nat
  OBVIOUS
<1>d. \A k \in set : place[k] \in 0..n
  OBVIOUS
<1> HIDE DEF Upto, page
<1>0. \A k \in set : IsFiniteSet(Upto(k)) /\ Cardinality(Upto(k)) \in Nat
  BY <1>b, FS_Subset, FS_CardinalityType
<1>1. page \subseteq set /\ IsFiniteSet(page) /\ Cardinality(page) \in Nat
  BY <1>c, FS_Subset, FS_CardinalityType
<1>2. ASSUME NEW k \in page, NEW j \in set, place[j] <= place[k]
      PROVE  j \in page
  <2>0. k \in set
    BY <1>1
  <2>1. Upto(j) \subseteq Upto(k)
    <3>1. ASSUME NEW i \in Upto(j) PROVE i \in Upto(k)
      <4>1. i \in set
        BY <1>b
      <4>2. place[i] <= place[j]
        BY <1>a, <4>1
      <4>3. place[i] <= place[k]
        BY <1>2, <1>d, <2>0, <4>1, <4>2
      <4> QED
        BY <1>a, <2>0, <4>1, <4>3
    <3> QED
      BY <3>1
  <2>2. Cardinality(Upto(j)) <= Cardinality(Upto(k))
    BY <1>0, <2>0, <2>1, FS_Subset
  <2>3. Cardinality(Upto(k)) <= size
    BY <1>c
  <2>4. Cardinality(Upto(j)) <= size
    BY <1>0, <2>0, <2>2, <2>3
  <2> QED
    BY <1>c, <2>4
<1>3. Cardinality(page) <= size
  <2>1. CASE page = {}
    <3>1. Cardinality(page) = 0
      BY <2>1, FS_EmptySet
    <3> QED
      BY <3>1
  <2>2. CASE page # {}
    <3> DEFINE Places == {place[k] : k \in page}
    <3>1. Places \in SUBSET (0..n) /\ Places # {}
      <4>1. \A k \in page : place[k] \in 0..n
        BY <1>1, <1>d
      <4> QED
        BY <2>2, <4>1
    <3>2. PICK m \in Places : \A i \in Places : i <= m
      <4> HIDE DEF Places
      <4> QED
        BY <3>1, HasLast
    <3>3. PICK k \in page : m = place[k]
      OBVIOUS
    <3>4. page \subseteq Upto(k)
      <4>1. ASSUME NEW j \in page PROVE j \in Upto(k)
        <5>1. place[j] <= place[k]
          BY <3>2, <3>3
        <5> QED
          BY <1>1, <1>a, <5>1
      <4> QED
        BY <4>1
    <3>5. Cardinality(page) <= Cardinality(Upto(k))
      BY <1>0, <1>1, <3>4, FS_Subset
    <3>6. Cardinality(Upto(k)) <= size /\ Cardinality(Upto(k)) \in Nat
      BY <1>0, <1>1, <1>c
    <3> QED
      BY <1>1, <3>5, <3>6
  <2> QED
    BY <2>1, <2>2
<1>4. ASSUME page # set PROVE Cardinality(page) = size
  <2> DEFINE Places == {place[k] : k \in set \ page}
  <2>1. Places \in SUBSET (0..n) /\ Places # {}
    <3>1. \A k \in set \ page : place[k] \in 0..n
      BY <1>d
    <3>2. set \ page # {}
      BY <1>1, <1>4
    <3> QED
      BY <3>1, <3>2
  <2>2. PICK m \in Places : \A i \in Places : m <= i
    <3> HIDE DEF Places
    <3> QED
      BY <2>1, HasFirst
  <2>3. PICK k \in set \ page : m = place[k]
    OBVIOUS
  <2>4. \A j \in set \ page : place[k] <= place[j]
    BY <2>2, <2>3
  <2> HIDE DEF Places
  <2>5. Upto(k) = page \cup {k}
    <3>1. ASSUME NEW j \in Upto(k), j # k PROVE j \in page
      <4>1. j \in set /\ place[j] # place[k] /\ place[j] <= place[k]
        BY <1>a, <1>b, <3>1
      <4> QED
        BY <1>d, <2>4, <4>1
    <3>2. ASSUME NEW j \in page PROVE j \in Upto(k)
      <4>1. ~(place[k] <= place[j])
        BY <1>1, <1>2, <2>3
      <4>2. place[j] <= place[k]
        BY <1>1, <1>d, <4>1
      <4> QED
        BY <1>1, <1>a, <4>2
    <3>3. k \in Upto(k)
      BY <1>a, <1>d
    <3> QED
      BY <3>1, <3>2, <3>3
  <2>6. Cardinality(Upto(k)) = Cardinality(page) + 1
    BY <1>1, <2>3, <2>5, FS_AddElement
  <2>7. ~(Cardinality(Upto(k)) <= size)
    BY <1>c, <2>3
  <2>8. Cardinality(page) + 1 > size
    BY <1>1, <1>e, <2>6, <2>7
  <2> QED
    BY <1>1, <1>3, <1>e, <2>8
<1> QED
  BY <1>1, <1>2, <1>4 DEF page


\* What the bounds of a mix are.
LEMMA MixTypes ==
    ASSUME MixOK
    PROVE  /\ mix.files \in Nat /\ mix.page \in Nat \ {0} /\ ~mix.reuse
           /\ Keys = 0..mix.files /\ Files = 1..mix.files /\ IsFiniteSet(Keys)
<1>1. mix.files \in Nat /\ mix.page \in Nat \ {0} /\ ~mix.reuse
  BY DEF MixOK
<1>2. Keys = 0..mix.files /\ Files = 1..mix.files
  BY <1>1 DEF Keys, Files
<1>3. 0 \in Int /\ mix.files \in Int
  BY <1>1
<1>4. IsFiniteSet(0..mix.files)
  BY <1>3, FS_Interval, Zenon
<1> QED
  BY <1>1, <1>2, <1>4

\* A page begins with the first rows, and if it is not full it has them all.
LEMMA PageInfo ==
    ASSUME MixOK, NEW set \in SUBSET Keys
    PROVE  /\ PageOf(set) \subseteq set /\ IsFiniteSet(PageOf(set))
           /\ \A k \in PageOf(set), j \in set : j <= k => j \in PageOf(set)
           /\ PageOf(set) # set => Cardinality(PageOf(set)) = mix.page
<1>1. mix.files \in Nat /\ mix.page \in Nat \ {0} /\ Keys = 0..mix.files /\ IsFiniteSet(set)
  BY MixTypes, FS_Subset
<1>2. PICK place \in [set -> 0..mix.files] : \A k \in set : place[k] = k
  <2>1. [k \in set |-> k] \in [set -> 0..mix.files]
    BY <1>1
  <2> QED
    BY <2>1
<1>3. PageOf(set) = PlacedPage(set, place, mix.page)
  <2>1. ASSUME NEW k \in set PROVE {j \in set : place[j] <= place[k]} = {j \in set : j <= k}
    BY <1>2
  <2> QED
    BY <2>1 DEF PageOf, PlacedPage
<1>4. \A j, k \in set : place[j] = place[k] => j = k
  BY <1>2
<1>5. /\ IsFiniteSet(PlacedPage(set, place, mix.page))
      /\ \A k \in PlacedPage(set, place, mix.page), j \in set :
           place[j] <= place[k] => j \in PlacedPage(set, place, mix.page)
      /\ PlacedPage(set, place, mix.page) # set => Cardinality(PlacedPage(set, place, mix.page)) = mix.page
  BY <1>1, <1>4, PageOfPlaces
<1>6. PageOf(set) \subseteq set
  BY DEF PageOf
<1>7. ASSUME NEW k \in PageOf(set), NEW j \in set, j <= k PROVE j \in PageOf(set)
  BY <1>2, <1>3, <1>5, <1>6, <1>7
<1> QED
  BY <1>3, <1>5, <1>6, <1>7

\* The cursor after a page.
LEMMA LastInfo ==
    ASSUME MixOK, NEW set \in SUBSET Keys, NEW c, c.after \in Int
    PROVE  /\ LastOf(set, c) \in Int
           /\ set # {} => LastOf(set, c) \in set /\ \A j \in set : j <= LastOf(set, c)
           /\ set = {} => LastOf(set, c) = c.after
<1>1. mix.files \in Nat /\ Keys = 0..mix.files
  BY MixTypes
<1>2. CASE set = {}
  BY <1>2 DEF LastOf
<1>3. CASE set # {}
  <2>1. \E k \in set : \A j \in set : j <= k
    BY <1>1, <1>3, HasLast
  <2>2. LastOf(set, c) = CHOOSE k \in set : \A j \in set : j <= k
    BY <1>3 DEF LastOf
  <2>3. LastOf(set, c) \in set /\ \A j \in set : j <= LastOf(set, c)
    BY <2>1, <2>2
  <2>4. LastOf(set, c) \in 0..mix.files
    BY <1>1, <2>3
  <2> QED
    BY <1>1, <1>3, <2>3, <2>4
<1> QED
  BY <1>2, <1>3

\* The ledger goes in pages as well, the tombstone last.
LEMMA LedgerPageInfo ==
    ASSUME MixOK, NEW set \in SUBSET Keys
    PROVE  /\ LedgerPage(set) \subseteq set /\ IsFiniteSet(LedgerPage(set))
           /\ \A k \in LedgerPage(set), j \in set : (j <= k /\ j # TOMB) \/ k = TOMB => j \in LedgerPage(set)
           /\ Cardinality(LedgerPage(set)) < mix.page => LedgerPage(set) = set
<1>1. mix.files \in Nat /\ mix.page \in Nat \ {0} /\ Keys = 0..mix.files /\ IsFiniteSet(set)
  BY MixTypes, FS_Subset
<1>a. PICK n \in Nat : n = mix.files + 1
  BY <1>1
<1>2. PICK place \in [set -> 0..n] : \A k \in set : place[k] = IF k = 0 THEN mix.files + 1 ELSE k
  <2>1. [k \in set |-> IF k = 0 THEN mix.files + 1 ELSE k] \in [set -> 0..n]
    BY <1>1, <1>a
  <2> QED
    BY <2>1
<1>3. \A j, k \in set : place[j] = place[k] => j = k
  BY <1>1, <1>a, <1>2
<1>4. LedgerPage(set) = PlacedPage(set, place, mix.page)
  <2>1. ASSUME NEW k \in set
        PROVE  {j \in set : place[j] <= place[k]}
                 = {j \in set : (j # TOMB /\ k = TOMB) \/ (j <= k /\ (j = TOMB => k = TOMB))}
    <3>1. ASSUME NEW j \in set
          PROVE  place[j] <= place[k] <=> (j # TOMB /\ k = TOMB) \/ (j <= k /\ (j = TOMB => k = TOMB))
      BY <1>1, <1>a, <1>2
    <3> QED
      BY <3>1
  <2> QED
    BY <2>1 DEF LedgerPage, PlacedPage
<1>5. /\ IsFiniteSet(PlacedPage(set, place, mix.page))
      /\ \A k \in PlacedPage(set, place, mix.page), j \in set :
           place[j] <= place[k] => j \in PlacedPage(set, place, mix.page)
      /\ PlacedPage(set, place, mix.page) # set => Cardinality(PlacedPage(set, place, mix.page)) = mix.page
  <2>1. mix.page \in Nat \ {0} /\ IsFiniteSet(set) /\ place \in [set -> 0..n] /\ n \in Nat
    BY <1>1
  <2> QED
    BY <1>3, <2>1, PageOfPlaces, SMTT(60)
<1>6. LedgerPage(set) \subseteq set
  BY DEF LedgerPage
<1>7. ASSUME NEW k \in LedgerPage(set), NEW j \in set, (j <= k /\ j # TOMB) \/ k = TOMB
      PROVE  j \in LedgerPage(set)
  <2>1. k \in set /\ k \in 0..mix.files /\ j \in 0..mix.files
    BY <1>1, <1>6
  <2>2. place[j] <= place[k]
    BY <1>1, <1>a, <1>2, <1>7, <2>1
  <2> QED
    BY <1>4, <1>5, <2>2
<1>8. Cardinality(LedgerPage(set)) < mix.page => LedgerPage(set) = set
  BY <1>1, <1>4, <1>5
<1> QED
  BY <1>4, <1>5, <1>6, <1>7, <1>8

-----------------------------------------------------------------------------
(* The history of a key.                                                   *)

\* The row at a position is the one before the next change of the key.
LEMMA AtFirst ==
    ASSUME NEW log, NEW row, NEW k, NEW n \in Nat, Len(log) \in Nat,
           NEW j \in Later(log, k, n), \A i \in Later(log, k, n) : j <= i
    PROVE  At(log, row, k, n) = log[j].before
<1>1. Later(log, k, n) \subseteq Int /\ Later(log, k, n) # {}
  BY DEF Later
<1> DEFINE c == CHOOSE x \in Later(log, k, n) : \A i \in Later(log, k, n) : x <= i
<1>2. c \in Later(log, k, n) /\ \A i \in Later(log, k, n) : c <= i
  OBVIOUS
<1> HIDE DEF c
<1>3. c = j
  <2>1. c <= j /\ j <= c /\ c \in Int /\ j \in Int
    BY <1>1, <1>2
  <2> QED
    BY <2>1
<1>4. At(log, row, k, n) = log[c].before
  BY <1>1 DEF At, c
<1> QED
  BY <1>3, <1>4

\* A key without a later change in the log has the row the source has now.
LEMMA AtNone ==
    ASSUME NEW log, NEW row, NEW k, NEW n, Later(log, k, n) = {}
    PROVE  At(log, row, k, n) = row
BY DEF At

\* One of the two is the case.
LEMMA AtCases ==
    ASSUME NEW log, NEW k, NEW n \in Nat, Len(log) \in Nat, Later(log, k, n) # {}
    PROVE  \E j \in Later(log, k, n) : \A i \in Later(log, k, n) : j <= i
<1>1. Later(log, k, n) \in SUBSET (0..Len(log))
  BY DEF Later
<1> QED
  BY <1>1, HasFirst

\* The row of a key now is the one at the end of the log.
LEMMA AtEnd ==
    ASSUME NEW log, NEW row, NEW k, Len(log) \in Nat
    PROVE  At(log, row, k, Len(log)) = row
<1>1. Later(log, k, Len(log)) = {}
  BY DEF Later
<1> QED
  BY <1>1, AtNone

\* The change at the next position has the row before it.
LEMMA AtHit ==
    ASSUME NEW log, NEW row, NEW k, NEW n \in Nat, Len(log) \in Nat, n < Len(log), log[n + 1].k = k
    PROVE  At(log, row, k, n) = log[n + 1].before
<1>1. n + 1 \in Later(log, k, n) /\ \A i \in Later(log, k, n) : n + 1 <= i
  BY DEF Later
<1> QED
  BY <1>1, AtFirst

\* A change of another key leaves the row as it is.
LEMMA AtSkip ==
    ASSUME NEW log, NEW row, NEW k, NEW n \in Nat, Len(log) \in Nat, n < Len(log), log[n + 1].k # k
    PROVE  At(log, row, k, n + 1) = At(log, row, k, n)
<1>1. Later(log, k, n + 1) = Later(log, k, n)
  <2>1. ASSUME NEW j \in Later(log, k, n) PROVE j \in Later(log, k, n + 1)
    BY DEF Later
  <2>2. ASSUME NEW j \in Later(log, k, n + 1) PROVE j \in Later(log, k, n)
    BY DEF Later
  <2> QED
    BY <2>1, <2>2
<1>2. CASE Later(log, k, n) = {}
  <2>1. At(log, row, k, n + 1) = row /\ At(log, row, k, n) = row
    BY <1>1, <1>2, AtNone
  <2> QED
    BY <2>1
<1>3. CASE Later(log, k, n) # {}
  <2>1. PICK j \in Later(log, k, n) : \A i \in Later(log, k, n) : j <= i
    BY <1>3, AtCases
  <2>2. n + 1 \in Nat
    OBVIOUS
  <2>3. At(log, row, k, n) = log[j].before /\ At(log, row, k, n + 1) = log[j].before
    BY <1>1, <2>1, <2>2, AtFirst
  <2> QED
    BY <2>3
<1> QED
  BY <1>2, <1>3

\* Before the change that creates a key there was no row.
LEMMA AtBeforeBirth ==
    ASSUME NEW log, NEW row, NEW n \in Nat, Len(log) \in Nat, n < Len(log), LogOK(log), log[n + 1].before = None,
           NEW m \in 0..n
    PROVE  At(log, row, log[n + 1].k, m) = None
<1> DEFINE k == log[n + 1].k
<1>1. \A j \in 1..n : log[j].k # k
  <2>1. n + 1 \in 1..Len(log) /\ (n + 1) - 1 = n
    OBVIOUS
  <2> QED
    BY <2>1 DEF LogOK
<1>2. n + 1 \in Later(log, k, m)
  BY DEF Later
<1>3. \A i \in Later(log, k, m) : n + 1 <= i
  <2>1. ASSUME NEW i \in Later(log, k, m) PROVE n + 1 <= i
    <3>1. i \in (m + 1)..Len(log) /\ log[i].k = k
      BY DEF Later
    <3>2. ~(i <= n)
      BY <1>1, <3>1
    <3> QED
      BY <3>1, <3>2
  <2> QED
    BY <2>1
<1> HIDE DEF k
<1>4. At(log, row, k, m) = log[n + 1].before
  BY <1>2, <1>3, AtFirst
<1> QED
  BY <1>4 DEF k

\* What a captured change adds to the history.
LEMMA AtAppend ==
    ASSUME NEW T, NEW log \in Seq(T), NEW e \in T, NEW row, NEW new, NEW k, NEW n \in 0..Len(log),
           IF e.k = k THEN e.before = row ELSE new = row
    PROVE  At(Append(log, e), new, k, n) = At(log, row, k, n)
<1> DEFINE more == Append(log, e)
<1>1. /\ Len(log) \in Nat /\ Len(more) = Len(log) + 1 /\ more[Len(log) + 1] = e
      /\ \A i \in 1..Len(log) : more[i] = log[i]
  OBVIOUS
<1> HIDE DEF more
<1>2. \A j : j \in Later(log, k, n) <=> j \in (n + 1)..Len(log) /\ more[j].k = k
  BY <1>1 DEF Later
<1>3. CASE e.k # k
  <2>1. Later(more, k, n) = Later(log, k, n)
    <3>1. ASSUME NEW j \in Later(more, k, n) PROVE j \in Later(log, k, n)
      BY <1>1, <1>2, <1>3 DEF Later
    <3>2. ASSUME NEW j \in Later(log, k, n) PROVE j \in Later(more, k, n)
      BY <1>1, <1>2 DEF Later
    <3> QED
      BY <3>1, <3>2
  <2>2. CASE Later(log, k, n) = {}
    <3>1. At(more, new, k, n) = new /\ At(log, row, k, n) = row
      BY <2>1, <2>2, AtNone
    <3> QED
      BY <1>3, <3>1 DEF more
  <2>3. CASE Later(log, k, n) # {}
    <3>1. PICK j \in Later(log, k, n) : \A i \in Later(log, k, n) : j <= i
      BY <1>1, <2>3, AtCases
    <3>2. Len(more) \in Nat
      BY <1>1
    <3>3. At(more, new, k, n) = more[j].before /\ At(log, row, k, n) = log[j].before
      BY <1>1, <2>1, <3>1, <3>2, AtFirst
    <3>4. more[j] = log[j]
      BY <1>1 DEF Later
    <3> QED
      BY <3>3, <3>4 DEF more
  <2> QED
    BY <2>2, <2>3
<1>4. CASE e.k = k
  <2>0. Len(more) \in Nat
    BY <1>1
  <2>1. CASE Later(log, k, n) = {}
    <3>1. Len(log) + 1 \in Later(more, k, n)
      BY <1>1, <1>4 DEF Later
    <3>2. ASSUME NEW i \in Later(more, k, n) PROVE Len(log) + 1 <= i
      <4>1. i \in (n + 1)..(Len(log) + 1) /\ more[i].k = k
        BY <1>1 DEF Later
      <4>2. ~(i \in (n + 1)..Len(log))
        BY <1>2, <2>1, <4>1
      <4> QED
        BY <1>1, <4>1, <4>2
    <3>3. At(more, new, k, n) = more[Len(log) + 1].before
      BY <2>0, <3>1, <3>2, AtFirst
    <3>4. At(log, row, k, n) = row
      BY <2>1, AtNone
    <3> QED
      BY <1>1, <1>4, <3>3, <3>4 DEF more
  <2>2. CASE Later(log, k, n) # {}
    <3>1. PICK j \in Later(log, k, n) : \A i \in Later(log, k, n) : j <= i
      BY <1>1, <2>2, AtCases
    <3>2. j \in Later(more, k, n)
      BY <1>1, <1>2 DEF Later
    <3>3. ASSUME NEW i \in Later(more, k, n) PROVE j <= i
      <4>1. j \in (n + 1)..Len(log)
        BY DEF Later
      <4>2. i \in (n + 1)..(Len(log) + 1) /\ more[i].k = k
        BY <1>1 DEF Later
      <4>3. CASE i = Len(log) + 1
        BY <1>1, <4>1, <4>3
      <4>4. CASE i # Len(log) + 1
        <5>1. i \in Later(log, k, n)
          BY <1>1, <1>2, <4>2, <4>4
        <5> QED
          BY <3>1, <5>1
      <4> QED
        BY <4>3, <4>4
    <3>4. At(more, new, k, n) = more[j].before
      BY <2>0, <3>2, <3>3, AtFirst
    <3>5. At(log, row, k, n) = log[j].before
      BY <1>1, <3>1, AtFirst
    <3>6. more[j] = log[j]
      BY <1>1 DEF Later
    <3> QED
      BY <3>4, <3>5, <3>6 DEF more
  <2> QED
    BY <2>1, <2>2
<1> QED
  BY <1>3, <1>4

\* A change that is legal and starts from the row of its key keeps the history.
LEMMA ChainAppend ==
    ASSUME NEW log \in Seq(EntryTypes), NEW rows \in [Keys -> RowTypes], NEW e \in EntryTypes, e.before = rows[e.k],
           Legal(e), e.before = None => \A j \in 1..Len(log) : log[j].k # e.k, LogOK(log), Chained(log, rows)
    PROVE  /\ LogOK(Append(log, e)) /\ Chained(Append(log, e), [rows EXCEPT ![e.k] = e.after])
           /\ \A k \in Keys, n \in 0..Len(log) :
                At(Append(log, e), [rows EXCEPT ![e.k] = e.after][k], k, n) = At(log, rows[k], k, n)
<1> DEFINE more == Append(log, e) next == [rows EXCEPT ![e.k] = e.after]
<1>1. /\ Len(log) \in Nat /\ Len(more) = Len(log) + 1 /\ more[Len(log) + 1] = e
      /\ \A i \in 1..Len(log) : more[i] = log[i]
  OBVIOUS
<1>2. e.k \in Keys /\ next[e.k] = e.after /\ \A k \in Keys : k # e.k => next[k] = rows[k]
  BY DEF EntryTypes
<1>3. ASSUME NEW k \in Keys, NEW n \in 0..Len(log)
      PROVE  At(more, next[k], k, n) = At(log, rows[k], k, n)
  <2>1. IF e.k = k THEN e.before = rows[k] ELSE next[k] = rows[k]
    BY <1>2
  <2> HIDE DEF next
  <2> QED
    BY <2>1, AtAppend
<1> HIDE DEF more, next
<1>4. LogOK(more)
  <2>1. ASSUME NEW i \in 1..Len(more)
        PROVE  /\ Legal(more[i])
               /\ more[i].before = None => \A j \in 1..(i - 1) : more[j].k # more[i].k
    <3>1. CASE i = Len(log) + 1
      BY <1>1, <3>1
    <3>2. CASE i # Len(log) + 1
      <4>1. i \in 1..Len(log) /\ \A j \in 1..(i - 1) : j \in 1..Len(log)
        BY <1>1, <3>2
      <4> QED
        BY <1>1, <4>1 DEF LogOK
    <3> QED
      BY <3>1, <3>2
  <2> QED
    BY <2>1 DEF LogOK
<1>5. Chained(more, next)
  <2>1. ASSUME NEW i \in 1..Len(more)
        PROVE  more[i].after = At(more, next[more[i].k], more[i].k, i)
    <3>1. CASE i = Len(log) + 1
      <4>1. At(more, next[e.k], e.k, Len(more)) = next[e.k]
        BY <1>1, AtEnd
      <4> QED
        BY <1>1, <1>2, <3>1, <4>1
    <3>2. CASE i # Len(log) + 1
      <4>1. i \in 1..Len(log) /\ i \in 0..Len(log) /\ more[i] = log[i]
        BY <1>1, <3>2
      <4>2. log[i] \in EntryTypes
        BY <4>1
      <4>3. log[i].k \in Keys
        BY <4>2 DEF EntryTypes
      <4>4. log[i].after = At(log, rows[log[i].k], log[i].k, i)
        BY <4>1 DEF Chained
      <4> QED
        BY <1>3, <4>1, <4>3, <4>4
    <3> QED
      BY <3>1, <3>2
  <2> QED
    BY <2>1 DEF Chained
<1> QED
  BY <1>3, <1>4, <1>5 DEF more, next

-----------------------------------------------------------------------------
(* The types.                                                              *)

Statuses == {"pending", "ready", "attached", "deleting", "dead"}

\* A row of the file table has a status, and the absent row has none.
LEMMA RowFacts ==
    ASSUME NEW row \in Statuses, NEW at \in Nat
    PROVE  /\ None \in RowTypes /\ Row(row, at) \in RowTypes /\ Row(row, at) # None /\ Row(row, at).st = row
           /\ \A r \in RowTypes : r.st = "none" <=> r = None
<1>1. Row(row, at) = [st |-> row, at |-> at] /\ None = [st |-> "none", at |-> 0]
  BY DEF Row, None
<1>2. row # "none"
  BY DEF Statuses
<1>3. Row(row, at).st = row /\ None.st = "none"
  BY <1>1
<1>4. Row(row, at) \in RowTypes /\ None \in RowTypes
  BY <1>1 DEF RowTypes, Statuses
<1>5. ASSUME NEW r \in RowTypes PROVE r.st = "none" <=> r = None
  BY <1>3 DEF RowTypes
<1> QED
  BY <1>2, <1>3, <1>4, <1>5

\* What a change of a row writes.
LEMMA ChangeTypes ==
    ASSUME MixOK, s \in States, NEW side \in Sides, NEW k \in Keys, NEW row \in Statuses \cup {"none"},
           s' = Change(side, k, row)
    PROVE  /\ s' \in States
           /\ \E new \in RowTypes :
                /\ row = "none" => new = None
                /\ row # "none" => new # None /\ new.st = row
                /\ s'.rows = [s.rows EXCEPT ![side] = [s.rows[side] EXCEPT ![k] = new]]
                /\ s'.log = IF side = "source" /\ Captured
                            THEN Append(s.log, [k |-> k, before |-> s.rows[side][k], after |-> new]) ELSE s.log
                /\ [k |-> k, before |-> s.rows[side][k], after |-> new] \in EntryTypes
           /\ s'.born = s.born \cup {k}
           /\ s'.led = s.led /\ s'.cur = s.cur /\ s'.routed = s.routed /\ s'.phase = s.phase /\ s'.copy = s.copy
           /\ s'.tail = s.tail /\ s'.check = s.check /\ s'.drain = s.drain /\ s'.abort = s.abort /\ s'.run = s.run
           /\ s'.refused = s.refused /\ s'.moved = s.moved
<1> DEFINE at == s.ops + 1
           new == IF row = "none" THEN None ELSE Row(row, at)
           e == [k |-> k, before |-> s.rows[side][k], after |-> new]
           log == IF side = "source" /\ Captured THEN Append(s.log, e) ELSE s.log
           rows == [s.rows EXCEPT ![side] = [s.rows[side] EXCEPT ![k] = new]]
           born == s.born \cup {k}
<1>1. at \in Nat
  BY DEF States
<1>2. None \in RowTypes
  BY RowFacts DEF Statuses
<1>3. new \in RowTypes /\ (row = "none" => new = None) /\ (row # "none" => new # None /\ new.st = row)
  BY <1>1, <1>2, RowFacts
<1>4. s' = [s EXCEPT !.rows = rows, !.ops = at, !.born = born, !.log = log]
  BY DEF Change, Captured
<1>5. s.rows \in [Sides -> [Keys -> RowTypes]] /\ s.log \in Seq(EntryTypes) /\ s.born \in SUBSET Keys
  BY DEF States
<1> HIDE DEF new
<1>6. e \in EntryTypes
  BY <1>3, <1>5 DEF EntryTypes
<1>7. rows \in [Sides -> [Keys -> RowTypes]]
  BY <1>3, <1>5
<1> HIDE DEF e
<1>8. log \in Seq(EntryTypes)
  BY <1>5, <1>6
<1>9. born \in SUBSET Keys
  BY <1>5
<1> HIDE DEF at, log, rows, born
<1>10. [s EXCEPT !.rows = rows, !.ops = at, !.born = born, !.log = log] \in States
  BY <1>1, <1>7, <1>8, <1>9 DEF States
<1>11. /\ s'.rows = rows /\ s'.log = log /\ s'.born = born
       /\ s'.led = s.led /\ s'.cur = s.cur /\ s'.routed = s.routed /\ s'.phase = s.phase /\ s'.copy = s.copy
       /\ s'.tail = s.tail /\ s'.check = s.check /\ s'.drain = s.drain /\ s'.abort = s.abort /\ s'.run = s.run
       /\ s'.refused = s.refused /\ s'.moved = s.moved
  BY <1>4 DEF States
<1>12. /\ s'.rows = [s.rows EXCEPT ![side] = [s.rows[side] EXCEPT ![k] = new]]
       /\ s'.log = IF side = "source" /\ Captured THEN Append(s.log, e) ELSE s.log
  BY <1>11 DEF rows, log
<1> QED
  BY <1>3, <1>4, <1>6, <1>10, <1>11, <1>12 DEF e, born

\* The changes the requests, the maintenance and the Catalog make, and what allows them.
LEMMA ActivityCases ==
    ASSUME MixOK, s \in States, NEW side \in Sides, Activity(side)
    PROVE  /\ Owns(side)
           /\ \E k \in Keys, row \in Statuses \cup {"none"} :
                /\ s' = Change(side, k, row)
                /\ LET before == s.rows[side][k] IN
                   /\ k = TOMB => row = "dead"
                   /\ before = None => row # "none" /\ (k \in s.born => k = TOMB)
                   /\ row = "none" => before.st = "deleting"
                   /\ before # None /\ row # "none" /\ k # TOMB => <<before.st, row>> \in Transitions
<1>1. ~mix.reuse /\ \A f \in Files : f \in Keys /\ f # TOMB
  BY MixTypes
<1>2. TOMB \in Keys
  BY DEF Keys
<1>3. \A k \in Keys : s.rows[side][k] \in RowTypes
  BY DEF States
<1>4. \A r \in RowTypes : r.st = "none" <=> r = None
  <2>1. "dead" \in Statuses /\ 0 \in Nat
    BY DEF Statuses
  <2> QED
    BY <2>1, RowFacts
<1> DEFINE Ok(k, row) ==
      /\ k = TOMB => row = "dead"
      /\ s.rows[side][k] = None => row # "none" /\ (k \in s.born => k = TOMB)
      /\ row = "none" => s.rows[side][k].st = "deleting"
      /\ s.rows[side][k] # None /\ row # "none" /\ k # TOMB => <<s.rows[side][k].st, row>> \in Transitions
<1>5. SUFFICES Owns(side) /\ \E k \in Keys, row \in Statuses \cup {"none"} : s' = Change(side, k, row) /\ Ok(k, row)
  OBVIOUS
<1>6. ASSUME NEW f \in Files, Reserve(side, f)
      PROVE  Owns(side) /\ s' = Change(side, f, "pending") /\ Ok(f, "pending")
  BY <1>1, <1>3, <1>4, <1>6 DEF Reserve, Works, Transitions
<1>7. ASSUME NEW f \in Files, MarkReady(side, f)
      PROVE  Owns(side) /\ s' = Change(side, f, "ready") /\ Ok(f, "ready")
  BY <1>1, <1>3, <1>4, <1>7 DEF MarkReady, Works, Transitions
<1>8. ASSUME NEW f \in Files, Attach(side, f)
      PROVE  Owns(side) /\ s' = Change(side, f, "attached") /\ Ok(f, "attached")
  BY <1>1, <1>3, <1>4, <1>8 DEF Attach, Works, Transitions
<1>9. ASSUME NEW f \in Files, Release(side, f) \/ Expire(side, f)
      PROVE  Owns(side) /\ s' = Change(side, f, "deleting") /\ Ok(f, "deleting")
  BY <1>1, <1>3, <1>4, <1>9 DEF Release, Expire, Works, Transitions
<1>10. ASSUME NEW f \in Files, Remove(side, f)
       PROVE  Owns(side) /\ s' = Change(side, f, "none") /\ Ok(f, "none")
  BY <1>1, <1>3, <1>4, <1>10 DEF Remove, Works
<1>11. ASSUME Bury(side) \/ UnprovenTurn(side)
       PROVE  Owns(side) /\ s' = Change(side, TOMB, "dead") /\ Ok(TOMB, "dead")
  BY <1>3, <1>4, <1>11 DEF Bury, UnprovenTurn, Works
<1> QED
  <2> HIDE DEF Ok
  <2>1. {"pending", "ready", "attached", "deleting", "dead", "none"} \subseteq Statuses \cup {"none"}
    BY DEF Statuses
  <2> QED
    BY <1>1, <1>2, <1>6, <1>7, <1>8, <1>9, <1>10, <1>11, <2>1 DEF Activity

-----------------------------------------------------------------------------
(* What happens to the files on the source.                                *)


\* A source that owns the range is neither fenced nor drained.
LEMMA OwningSource ==
    ASSUME MixOK, s \in States, PhasesOK, Owns("source")
    PROVE  /\ s.phase \in {"init", "copy", "replay", "fenced", "aborting", "aborted"}
           /\ ~SourceCur.fenced /\ ~DestCur.maint /\ ~s.check.done
           /\ s.phase = "init" => ~Captured
           /\ s.phase \in {"copy", "replay", "fenced"} => Captured
<1>1. s.phase \in Phases
  BY DEF States
<1>2. ~SourceCur.fenced
  BY <1>1 DEF Owns, PhasesOK, OutcomesOK, FencesOK, SourceCur, Phases
<1> QED
  BY <1>1, <1>2 DEF Owns, PhasesOK, InitOK, OutcomesOK, FencesOK, SourceCur, Phases, Captured

\* Uploads, attachments, expiries and maintenance of the source while it owns the range:
\* a captured change extends the log (capture triggers of cdb.ts), and what the destination
\* holds is still a row of the source's past.
LEMMA SourceActivity ==
    ASSUME MixOK, mix' = mix, s \in States, Inner, Activity("source")
    PROVE  s' \in States /\ Inner'
<1>0. Keys' = Keys /\ Files' = Files
  BY DEF Keys, Files
<1>1. PhasesOK /\ RunsOK /\ HistoryOK /\ TailOK /\ ImageOK /\ AbsentOK /\ MissedOK /\ PageOK /\ MovedOK /\ DrainOK /\ AbortOK
      /\ ~s.refused
  BY DEF Inner
<1>2. "source" \in Sides /\ "dest" \in Sides
  BY DEF Sides
<1>3. PICK k \in Keys, row \in Statuses \cup {"none"} :
        /\ s' = Change("source", k, row)
        /\ k = TOMB => row = "dead"
        /\ s.rows["source"][k] = None => row # "none" /\ (k \in s.born => k = TOMB)
        /\ row = "none" => s.rows["source"][k].st = "deleting"
        /\ s.rows["source"][k] # None /\ row # "none" /\ k # TOMB => <<s.rows["source"][k].st, row>> \in Transitions
  BY <1>2, ActivityCases
<1>4. Owns("source")
  BY <1>2, ActivityCases
<1>5. /\ s' \in States
      /\ \E new \in RowTypes :
           /\ row = "none" => new = None
           /\ row # "none" => new # None /\ new.st = row
           /\ s'.rows = [s.rows EXCEPT !["source"] = [s.rows["source"] EXCEPT ![k] = new]]
           /\ s'.log = IF Captured
                       THEN Append(s.log, [k |-> k, before |-> s.rows["source"][k], after |-> new]) ELSE s.log
           /\ [k |-> k, before |-> s.rows["source"][k], after |-> new] \in EntryTypes
      /\ s'.born = s.born \cup {k}
      /\ s'.led = s.led /\ s'.cur = s.cur /\ s'.routed = s.routed /\ s'.phase = s.phase /\ s'.copy = s.copy
      /\ s'.tail = s.tail /\ s'.check = s.check /\ s'.drain = s.drain /\ s'.abort = s.abort /\ s'.run = s.run
      /\ s'.refused = s.refused /\ s'.moved = s.moved
  BY <1>2, <1>3, ChangeTypes
<1>6. PICK new \in RowTypes :
        /\ row = "none" => new = None
        /\ row # "none" => new # None /\ new.st = row
        /\ s'.rows = [s.rows EXCEPT !["source"] = [s.rows["source"] EXCEPT ![k] = new]]
        /\ s'.log = IF Captured THEN Append(s.log, [k |-> k, before |-> s.rows["source"][k], after |-> new]) ELSE s.log
        /\ [k |-> k, before |-> s.rows["source"][k], after |-> new] \in EntryTypes
  BY <1>5
<1> DEFINE e == [k |-> k, before |-> s.rows["source"][k], after |-> new]
<1>7. e.k = k /\ e.before = s.rows["source"][k] /\ e.after = new /\ e \in EntryTypes
  BY <1>6
<1>8. /\ s.rows["source"] \in [Keys -> RowTypes] /\ s.rows \in [Sides -> [Keys -> RowTypes]]
      /\ s.log \in Seq(EntryTypes) /\ Len(s.log) \in Nat /\ s.tail \in Nat /\ s.led \in [Keys -> Int]
  BY <1>2 DEF States
<1>9. s'.rows["source"] = [s.rows["source"] EXCEPT ![k] = e.after] /\ s'.rows["dest"] = s.rows["dest"]
  BY <1>2, <1>6, <1>7, <1>8
<1>10. s'.log = IF Captured THEN Append(s.log, e) ELSE s.log
  BY <1>6
<1> HIDE DEF e
<1>11. /\ s.phase \in {"init", "copy", "replay", "fenced", "aborting", "aborted"}
       /\ ~SourceCur.fenced /\ ~DestCur.maint /\ ~s.check.done
       /\ s.phase = "init" => ~Captured
       /\ s.phase \in {"copy", "replay", "fenced"} => Captured
  BY <1>1, <1>4, OwningSource
<1>12. Len(s'.log) \in Nat /\ Len(s'.log) >= Len(s.log) /\ \A i \in 1..Len(s.log) : s'.log[i] = s.log[i]
  BY <1>7, <1>8, <1>10
<1>13. Copying' = Copying /\ SourceCur' = SourceCur /\ DestCur' = DestCur
  BY <1>5 DEF Copying, SourceCur, DestCur
<1>14. TOMB \in Keys /\ \A f \in Files : f \in Keys /\ f # TOMB /\ f \in Int /\ f >= 1
  BY MixTypes DEF Keys
<1>15. Copying => k \notin s.born \/ s.rows["source"][k] # None
  BY <1>1, <1>3, <1>11 DEF HistoryOK, BornOK
<1>16. Legal(e)
  BY <1>3, <1>6, <1>7 DEF Legal
<1>17. ASSUME Copying PROVE BornOK'
  <2>1. BornOK
    BY <1>1, <1>17 DEF HistoryOK
  <2>2. ASSUME NEW j \in Keys, s'.rows["source"][j] # None PROVE j \in s'.born
    BY <1>5, <1>8, <1>9, <2>1, <2>2 DEF BornOK
  <2>3. ASSUME NEW i \in 1..Len(s'.log) PROVE s'.log[i].k \in s'.born
    <3>1. CASE i \in 1..Len(s.log)
      BY <1>5, <1>12, <2>1, <3>1 DEF BornOK
    <3>2. CASE i \notin 1..Len(s.log)
      <4>1. s'.log[i] = e
        BY <1>7, <1>8, <1>10, <3>2
      <4> QED
        BY <1>5, <1>7, <4>1
    <3> QED
      BY <3>1, <3>2
  <2>4. ASSUME TOMB \in s'.born PROVE s'.rows["source"][TOMB] # None
    <3>1. CASE k = TOMB
      <4>1. row = "dead"
        BY <1>3, <3>1
      <4>2. new # None
        BY <1>6, <4>1
      <4> QED
        BY <1>7, <1>8, <1>9, <3>1, <4>2
    <3>2. CASE k # TOMB
      <4>1. TOMB \in s.born
        BY <1>5, <2>4, <3>2
      <4> QED
        BY <1>8, <1>9, <1>14, <2>1, <3>2, <4>1 DEF BornOK
    <3> QED
      BY <3>1, <3>2
  <2> QED
    BY <1>0, <2>2, <2>3, <2>4 DEF BornOK
<1>18. ASSUME Copying, Captured
       PROVE  /\ LogOK(s'.log) /\ Chained(s'.log, s'.rows["source"])
              /\ \A j \in Keys, n \in 0..Len(s.log) : Was(j, n)' = Was(j, n)
  <2>1. LogOK(s.log) /\ Chained(s.log, s.rows["source"]) /\ BornOK
    BY <1>1, <1>18 DEF HistoryOK
  <2>2. e.before = None => \A j \in 1..Len(s.log) : s.log[j].k # e.k
    BY <1>7, <1>15, <1>18, <2>1 DEF BornOK
  <2>3. s'.log = Append(s.log, e)
    BY <1>10, <1>18
  <2>4. e.before = s.rows["source"][e.k] /\ s'.rows["source"] = [s.rows["source"] EXCEPT ![e.k] = e.after]
    BY <1>7, <1>9
  <2>5. /\ LogOK(Append(s.log, e)) /\ Chained(Append(s.log, e), [s.rows["source"] EXCEPT ![e.k] = e.after])
        /\ \A j \in Keys, n \in 0..Len(s.log) :
             At(Append(s.log, e), [s.rows["source"] EXCEPT ![e.k] = e.after][j], j, n) = At(s.log, s.rows["source"][j], j, n)
    <3>1. s.log \in Seq(EntryTypes) /\ s.rows["source"] \in [Keys -> RowTypes] /\ e \in EntryTypes
      BY <1>7, <1>8
    <3> QED
      BY <1>16, <2>1, <2>2, <2>4, <3>1, ChainAppend, Zenon
  <2> QED
    BY <2>3, <2>4, <2>5 DEF Was
<1>19. HistoryOK'
  <2>1. SUFFICES ASSUME Copying PROVE BornOK' /\ LogOK(s'.log) /\ Chained(s'.log, s'.rows["source"])
    BY <1>13 DEF HistoryOK
  <2>2. CASE Captured
    BY <1>17, <1>18, <2>1, <2>2
  <2>3. CASE ~Captured
    <3>1. s.phase = "init"
      BY <1>11, <2>1, <2>3 DEF Copying
    <3>2. s'.log = <<>>
      BY <1>1, <1>10, <2>3, <3>1 DEF PhasesOK, InitOK
    <3>3. 1..Len(s'.log) = {}
      BY <3>2
    <3> QED
      BY <1>17, <2>1, <3>3 DEF LogOK, Chained
  <2> QED
    BY <2>2, <2>3
<1>20. PhasesOK' /\ RunsOK' /\ ~s'.refused
  <2>1. s.phase = "init" => s'.log = s.log
    BY <1>10, <1>11
  <2>2. PhasesOK
    BY <1>1
  <2>3. PhasesOK'
    <3>1. InitOK'
      BY <1>0, <1>5, <1>13, <2>1, <2>2 DEF PhasesOK, InitOK
    <3>2. OutcomesOK'
      BY <1>0, <1>5, <1>13, <2>2 DEF PhasesOK, OutcomesOK
    <3>3. FencesOK'
      BY <1>5, <1>13, <2>2 DEF PhasesOK, FencesOK
    <3> QED
      BY <3>1, <3>2, <3>3 DEF PhasesOK
  <2> QED
    BY <1>1, <1>5, <1>13, <2>3 DEF RunsOK
<1>21. TailOK'
  BY <1>0, <1>1, <1>5, <1>8, <1>11, <1>12 DEF TailOK
<1>22. ASSUME Copying, s.phase # "init", NEW j \in Keys, Missed(j) PROVE Missed(j)'
  <2>1. Captured /\ s.tail \in 0..Len(s.log)
    BY <1>1, <1>8, <1>11, <1>22 DEF Copying, TailOK
  <2>2. Was(j, s.tail)' = Was(j, s.tail)
    BY <1>5, <1>18, <1>22, <2>1 DEF Was
  <2>3. CASE s.led[j] # NoLedger \/ Was(j, s.tail) = None
    BY <1>5, <2>2, <2>3 DEF Missed
  <2>4. CASE s.rows["source"][j] = None /\ j # k
    BY <1>8, <1>9, <2>4 DEF Missed
  <2>5. CASE s.rows["source"][j] = None /\ j = k
    <3>1. j \notin s.born
      BY <1>15, <1>22, <2>5
    <3>2. Later(s.log, j, s.tail) = {}
      <4>1. \A i \in 1..Len(s.log) : s.log[i].k # j
        BY <1>1, <1>22, <3>1 DEF HistoryOK, BornOK
      <4>2. \A i \in (s.tail + 1)..Len(s.log) : i \in 1..Len(s.log)
        BY <1>8
      <4> QED
        BY <4>1, <4>2 DEF Later
    <3>3. Was(j, s.tail) = None
      BY <2>5, <3>2, AtNone DEF Was
    <3> QED
      BY <2>3, <3>3
  <2> QED
    BY <1>22, <2>3, <2>4, <2>5 DEF Missed
<1>23. ImageOK'
  <2>1. SUFFICES ASSUME Copying, NEW j \in Keys PROVE Image(j)'
    BY <1>0, <1>13 DEF ImageOK
  <2>2. Image(j) /\ s.led[j] \in NoLedger..Len(s.log) /\ s.tail \in 0..Len(s.log)
    BY <1>1, <1>8, <2>1 DEF ImageOK, TailOK
  <2>3. CASE s.phase = "init"
    <3>1. s'.led[j] = NoLedger
      BY <1>1, <1>5, <2>3 DEF PhasesOK, InitOK
    <3> QED
      BY <3>1 DEF Image
  <2>4. CASE s.phase # "init"
    <3>1. Captured
      BY <1>11, <2>1, <2>4 DEF Copying
    <3>2. Pos(j)' = Pos(j)
      BY <1>5 DEF Pos
    <3>3. Pos(j) \in Int /\ (s.led[j] # NoLedger => Pos(j) \in 0..Len(s.log))
      BY <2>2 DEF Pos
    <3>4. s.led[j] # NoLedger => Was(j, Pos(j))' = Was(j, Pos(j))
      BY <1>18, <2>1, <3>1, <3>2, <3>3 DEF Was
    <3>5. s.led[j] >= 0 => Was(j, s.led[j])' = Was(j, s.led[j])
      BY <1>5, <1>18, <2>1, <2>2, <3>1 DEF Was
    <3>6. s.led[j] = ByTail => \E i \in 1..s.tail : s'.log[i].k = j
      BY <1>12, <2>2 DEF Image
    <3> QED
      BY <1>5, <1>9, <2>2, <3>4, <3>5, <3>6 DEF Image
  <2> QED
    BY <2>3, <2>4
<1>24. AbsentOK'
  BY <1>0, <1>1, <1>5, <1>9, <1>13 DEF AbsentOK
<1>25. MissedOK'
  <2>1. SUFFICES ASSUME Copying PROVE \A j \in Keys : Passed(s.copy, j) => Missed(j)'
    BY <1>0, <1>5, <1>13 DEF MissedOK, Passed
  <2>2. s.phase = "init" => \A j \in Keys : ~Passed(s.copy, j)
    <3>1. s.phase = "init" => s.copy.kind = "tomb" /\ s.copy.after = -1
      BY <1>1 DEF PhasesOK, InitOK, Here
    <3> QED
      BY <3>1 DEF Passed
  <2> QED
    BY <1>1, <1>22, <2>1, <2>2 DEF MissedOK
<1>30. CursorOK'
  BY <1>5 DEF Inner, CursorOK
<1>26. PageOK'
  <2>1. ASSUME s.phase = "copy", s.run.at \in {"apply", "persist"}
        PROVE  Copying /\ Captured /\ s.phase # "init"
    BY <1>11, <2>1 DEF Copying
  <2>2. \A last, done : NextCopy(last, done)' = NextCopy(last, done)
    BY <1>5 DEF NextCopy
  <2>3. ASSUME s.run.at = "apply"
        PROVE  /\ s.run.through <= Len(s'.log) /\ \A j \in Keys : s.led[j] <= s.run.through
               /\ \A j \in DOMAIN s.run.rows : s.run.rows[j] # None /\ s.run.rows[j] = Was(j, s.run.through)'
               /\ \A j \in Keys : Passed(NextCopy(s.run.last, s.run.done), j) => j \in DOMAIN s.run.rows \/ Missed(j)'
    <3>1. s.run \in Pages
      BY <2>3 DEF States, RunTypes, Idle
    <3>2. DOMAIN s.run.rows \subseteq Keys /\ s.run.through \in Nat
      BY <3>1 DEF Pages, Images
    <3>3. Copying /\ Captured /\ s.phase # "init"
      BY <1>1, <2>1, <2>3 DEF RunsOK
    <3>4. s.run.through \in 0..Len(s.log)
      BY <1>1, <1>8, <2>3, <3>2 DEF PageOK
    <3>5. \A j \in Keys : Was(j, s.run.through)' = Was(j, s.run.through)
      BY <1>5, <1>18, <3>3, <3>4 DEF Was
    <3> QED
      BY <1>1, <1>8, <1>12, <1>22, <2>3, <3>2, <3>3, <3>4, <3>5 DEF PageOK
  <2>4. ASSUME s.run.at = "persist"
        PROVE  \A j \in Keys : Passed(NextCopy(s.run.last, s.run.done), j) => Missed(j)'
    <3>1. Copying /\ s.phase # "init"
      BY <1>1, <2>1, <2>4 DEF RunsOK
    <3> QED
      BY <1>1, <1>22, <2>4, <3>1 DEF PageOK
  <2> QED
    BY <1>0, <1>5, <2>2, <2>3, <2>4 DEF PageOK, Was
<1>27. MovedOK'
  BY <1>5, <1>11, <1>13 DEF MovedOK
<1>28. DrainOK'
  <2>1. s.drain = Here("file", 0) /\ s.phase \notin {"open", "cut", "done"} /\ s.run.at # "drained"
    BY <1>1, <1>11 DEF DrainOK, RunsOK
  <2>2. \A j \in Keys : ~Drained(s.drain, j)
    BY <1>14, <2>1 DEF Drained, Here
  <2> QED
    BY <1>0, <1>5, <2>1, <2>2 DEF DrainOK, Drained
<1>29. AbortOK'
  <2>1. \A page : LastOf(page, s.abort)' = LastOf(page, s.abort)
    BY <1>5 DEF LastOf
  <2> QED
    BY <1>0, <1>1, <1>5, <2>1 DEF AbortOK, Forgotten
<1> QED
  BY <1>5, <1>19, <1>20, <1>21, <1>23, <1>24, <1>25, <1>26, <1>27, <1>28, <1>29, <1>30 DEF Inner

-----------------------------------------------------------------------------
(* What happens to them on the destination once it owns the range.         *)

\* The same on the destination, once it owns the range: the copy is over.
LEMMA DestActivity ==
    ASSUME MixOK, mix' = mix, s \in States, Inner, Activity("dest")
    PROVE  s' \in States /\ Inner'
<1>0. Keys' = Keys /\ Files' = Files
  BY DEF Keys, Files
<1>1. PhasesOK /\ RunsOK /\ HistoryOK /\ TailOK /\ ImageOK /\ AbsentOK /\ MissedOK /\ PageOK /\ MovedOK /\ DrainOK /\ AbortOK
      /\ ~s.refused
  BY DEF Inner
<1>2. "source" \in Sides /\ "dest" \in Sides
  BY DEF Sides
<1>3. PICK k \in Keys, row \in Statuses \cup {"none"} : s' = Change("dest", k, row)
  BY <1>2, ActivityCases
<1>4. Owns("dest")
  BY <1>2, ActivityCases
<1>5. /\ s' \in States
      /\ \E new \in RowTypes :
           /\ row = "none" => new = None
           /\ row # "none" => new # None /\ new.st = row
           /\ s'.rows = [s.rows EXCEPT !["dest"] = [s.rows["dest"] EXCEPT ![k] = new]]
           /\ s'.log = IF "dest" = "source" /\ Captured
                       THEN Append(s.log, [k |-> k, before |-> s.rows["dest"][k], after |-> new]) ELSE s.log
           /\ [k |-> k, before |-> s.rows["dest"][k], after |-> new] \in EntryTypes
      /\ s'.born = s.born \cup {k}
      /\ s'.led = s.led /\ s'.cur = s.cur /\ s'.routed = s.routed /\ s'.phase = s.phase /\ s'.copy = s.copy
      /\ s'.tail = s.tail /\ s'.check = s.check /\ s'.drain = s.drain /\ s'.abort = s.abort /\ s'.run = s.run
      /\ s'.refused = s.refused /\ s'.moved = s.moved
  BY <1>2, <1>3, ChangeTypes
<1>6. s'.log = s.log /\ s'.rows["source"] = s.rows["source"]
  <2>1. s.rows \in [Sides -> [Keys -> RowTypes]]
    BY DEF States
  <2> QED
    BY <1>2, <1>5, <2>1
<1>7. SourceCur' = SourceCur /\ DestCur' = DestCur /\ DestCur.maint
  BY <1>4, <1>5 DEF SourceCur, DestCur, Owns
<1>8. ~Copying' /\ ~Copying
  BY <1>7 DEF Copying
<1>9. HistoryOK' /\ ImageOK' /\ MissedOK' /\ AbsentOK' /\ CursorOK'
  BY <1>5, <1>7, <1>8 DEF HistoryOK, ImageOK, MissedOK, AbsentOK, CursorOK, Inner
<1>10. s.run.at \notin {"apply", "persist"}
  BY <1>1, <1>7 DEF RunsOK, PhasesOK, FencesOK
<1>11. InitOK'
  BY <1>0, <1>1, <1>5, <1>6, <1>7 DEF PhasesOK, InitOK
<1>12. OutcomesOK'
  BY <1>0, <1>1, <1>5, <1>7 DEF PhasesOK, OutcomesOK
<1>13. FencesOK' /\ RunsOK' /\ ~s'.refused
  BY <1>1, <1>5, <1>7 DEF PhasesOK, FencesOK, RunsOK
<1>14. TailOK'
  BY <1>0, <1>1, <1>5, <1>6 DEF TailOK
<1>15. PageOK'
  BY <1>5, <1>10 DEF PageOK
<1>16. MovedOK'
  BY <1>1, <1>5, <1>6, <1>7, <1>8 DEF MovedOK
<1>17. DrainOK'
  BY <1>0, <1>1, <1>5, <1>6 DEF DrainOK, Drained
<1>18. AbortOK'
  <2>1. \A page : LastOf(page, s.abort)' = LastOf(page, s.abort)
    BY <1>5 DEF LastOf
  <2> QED
    BY <1>0, <1>1, <1>5, <2>1 DEF AbortOK, Forgotten
<1> QED
  BY <1>5, <1>9, <1>11, <1>12, <1>13, <1>14, <1>15, <1>16, <1>17, <1>18 DEF Inner, PhasesOK

-----------------------------------------------------------------------------
(* The driver's decisions: they move no row.                               *)

\* A decision of the driver between two calls keeps everything about the rows (resharder.ts).
LEMMA ControlStep ==
    ASSUME MixOK, mix' = mix, s \in States, Inner, s.run.at = "idle",
           s'.rows = s.rows, s'.log = s.log, s'.born = s.born, s'.led = s.led, s'.tail = s.tail, s'.copy = s.copy,
           s'.drain = s.drain, s'.abort = s.abort, s'.run = s.run, s'.refused = s.refused,
           Copying' => Copying, DestCur.maint => DestCur'.maint,
           s'.phase \in {"init", "copy"} => s.phase \in {"init", "copy"},
           s'.phase \in {"replay", "fenced"} => s.copy.kind = "file" /\ s.copy.done,
           s'.phase \notin {"open", "cut", "done"} => s.phase \notin {"open", "cut", "done"},
           s'.phase \in {"cut", "done"} => s.drain.done,
           s'.phase \notin {"aborting", "aborted"} => s.phase \notin {"aborting", "aborted"},
           s'.check.done => s.tail = Len(s.log)
    PROVE  RunsOK' /\ HistoryOK' /\ TailOK' /\ ImageOK' /\ AbsentOK' /\ MissedOK' /\ PageOK' /\ DrainOK' /\ AbortOK'
           /\ CursorOK' /\ ~s'.refused
<1>0. Keys' = Keys /\ Files' = Files
  BY DEF Keys, Files
<1>1. PhasesOK /\ RunsOK /\ HistoryOK /\ TailOK /\ ImageOK /\ AbsentOK /\ MissedOK /\ PageOK /\ MovedOK /\ DrainOK /\ AbortOK
      /\ ~s.refused
  BY DEF Inner
<1>2. RunsOK' /\ PageOK' /\ ~s'.refused
  BY <1>1 DEF RunsOK, PageOK
<1>3. HistoryOK'
  BY <1>0, <1>1 DEF HistoryOK, BornOK
<1>4. TailOK'
  BY <1>0, <1>1 DEF TailOK
<1>5. \A k \in Keys : Missed(k)' = Missed(k) /\ (Image(k) => Image(k)')
  <2>1. \A k, n : Was(k, n)' = Was(k, n)
    BY DEF Was
  <2>2. ASSUME NEW k \in Keys PROVE Missed(k)' = Missed(k)
    BY <2>1 DEF Missed, Was
  <2>3. ASSUME NEW k \in Keys, Image(k) PROVE Image(k)'
    BY <2>1, <2>3 DEF Image, Pos, Was
  <2> QED
    BY <2>2, <2>3
<1>6. ImageOK' /\ AbsentOK'
  BY <1>0, <1>1, <1>5 DEF ImageOK, AbsentOK
<1>7. MissedOK' /\ CursorOK'
  BY <1>0, <1>1, <1>5 DEF MissedOK, Passed, CursorOK, Inner
<1>8. DrainOK'
  BY <1>0, <1>1 DEF DrainOK, Drained
<1>9. AbortOK'
  BY <1>0, <1>1 DEF AbortOK, Forgotten
<1> QED
  BY <1>2, <1>3, <1>4, <1>6, <1>7, <1>8, <1>9

\* begin binds the destination, then the source.
LEMMA BeginStep ==
    ASSUME MixOK, mix' = mix, s \in States, Inner, Begin
    PROVE  s' \in States /\ Inner'
<1>1. PhasesOK /\ RunsOK /\ TailOK /\ MovedOK /\ s.phase = "init" /\ s.run.at = "idle"
  BY DEF Inner, Begin, Step1
<1>2. "source" \in Sides /\ "dest" \in Sides /\ Keys' = Keys /\ Files' = Files
  BY DEF Sides, Keys, Files
<1>3. s.cur \in [Sides -> Bindings]
  BY DEF States
<1>4. SourceCur.outcome = "none" /\ ~SourceCur.fenced /\ ~DestCur.maint /\ s.routed = "source" /\ ~s.check.done
  BY <1>1 DEF PhasesOK, InitOK, FencesOK
<1>5. CASE s.cur["dest"].outcome = "none"
  <2> DEFINE cur == [s.cur EXCEPT !["dest"] = [Unbound EXCEPT !.outcome = "active"]]
  <2>1. s' = [s EXCEPT !.cur = cur]
    BY <1>5 DEF Begin
  <2>2. cur \in [Sides -> Bindings] /\ cur["source"] = s.cur["source"]
        /\ cur["dest"].outcome = "active" /\ cur["dest"].maint = FALSE
    BY <1>2, <1>3 DEF Unbound, Bindings
  <2> HIDE DEF cur
  <2>3. [s EXCEPT !.cur = cur] \in States
    BY <2>2 DEF States
  <2>4. /\ s'.rows = s.rows /\ s'.log = s.log /\ s'.born = s.born /\ s'.led = s.led /\ s'.tail = s.tail /\ s'.copy = s.copy
        /\ s'.drain = s.drain /\ s'.abort = s.abort /\ s'.run = s.run /\ s'.refused = s.refused /\ s'.phase = s.phase
        /\ s'.check = s.check /\ s'.routed = s.routed /\ s'.moved = s.moved /\ s'.cur = cur
    BY <2>1 DEF States
  <2>5. SourceCur' = SourceCur /\ DestCur'.outcome = "active" /\ DestCur'.maint = FALSE
    BY <2>2, <2>4 DEF SourceCur, DestCur
  <2>6. Copying' => Copying
    BY <1>4, <2>4 DEF Copying
  <2>7. RunsOK' /\ HistoryOK' /\ TailOK' /\ ImageOK' /\ AbsentOK' /\ MissedOK' /\ PageOK' /\ DrainOK' /\ AbortOK'
        /\ CursorOK' /\ ~s'.refused
    BY <1>1, <1>4, <2>4, <2>5, <2>6, ControlStep
  <2>8. PhasesOK'
    BY <1>1, <1>2, <1>4, <2>4, <2>5 DEF PhasesOK, InitOK, OutcomesOK, FencesOK
  <2>9. MovedOK'
    BY <1>1, <1>4, <2>4, <2>5 DEF MovedOK
  <2> QED
    BY <2>1, <2>3, <2>7, <2>8, <2>9 DEF Inner
<1>6. CASE s.cur["dest"].outcome # "none"
  <2> DEFINE bound == [outcome |-> "active", maint |-> TRUE, attach |-> TRUE, fenced |-> FALSE]
             cur == [s.cur EXCEPT !["source"] = bound]
  <2>1. s' = [s EXCEPT !.cur = cur, !.phase = "copy"]
    BY <1>6 DEF Begin
  <2>2. cur \in [Sides -> Bindings] /\ cur["dest"] = s.cur["dest"] /\ cur["source"] = bound
    BY <1>2, <1>3 DEF Bindings
  <2> HIDE DEF cur
  <2>3. [s EXCEPT !.cur = cur, !.phase = "copy"] \in States
    BY <2>2 DEF States, Phases
  <2>4. /\ s'.rows = s.rows /\ s'.log = s.log /\ s'.born = s.born /\ s'.led = s.led /\ s'.tail = s.tail /\ s'.copy = s.copy
        /\ s'.drain = s.drain /\ s'.abort = s.abort /\ s'.run = s.run /\ s'.refused = s.refused /\ s'.phase = "copy"
        /\ s'.check = s.check /\ s'.routed = s.routed /\ s'.moved = s.moved /\ s'.cur = cur
    BY <2>1 DEF States
  <2>5. DestCur' = DestCur /\ SourceCur' = bound
    BY <2>2, <2>4 DEF SourceCur, DestCur
  <2>6. Copying' => Copying
    BY <1>1, <1>4, <2>4 DEF Copying
  <2>7. RunsOK' /\ HistoryOK' /\ TailOK' /\ ImageOK' /\ AbsentOK' /\ MissedOK' /\ PageOK' /\ DrainOK' /\ AbortOK'
        /\ CursorOK' /\ ~s'.refused
    BY <1>1, <1>4, <2>4, <2>5, <2>6, ControlStep
  <2>8. s.abort.done => FALSE
    BY <1>1 DEF Inner, AbortOK, Here
  <2>9. PhasesOK'
    BY <1>1, <1>2, <1>4, <1>6, <2>4, <2>5, <2>8 DEF PhasesOK, InitOK, OutcomesOK, FencesOK, DestCur
  <2>10. MovedOK'
    BY <1>1, <1>4, <2>4, <2>5 DEF MovedOK
  <2> QED
    BY <2>1, <2>3, <2>7, <2>9, <2>10 DEF Inner
<1> QED
  BY <1>5, <1>6

\* The copy ends, the replay has caught up, the drain ends, an abort starts or ends.
LEMMA PhaseStep ==
    ASSUME MixOK, mix' = mix, s \in States, Inner, CopyDone \/ Converged \/ DrainDone \/ StartAbort \/ AbortDone
    PROVE  s' \in States /\ Inner'
<1>1. PhasesOK /\ RunsOK /\ TailOK /\ MovedOK /\ MissedOK /\ DrainOK /\ AbortOK /\ s.run.at = "idle"
  BY DEF Inner, CopyDone, Converged, DrainDone, StartAbort, AbortDone, Step1
<1>2. Keys' = Keys /\ Files' = Files
  BY DEF Keys, Files
<1>3. PICK phase \in Phases :
        /\ s' = [s EXCEPT !.phase = phase]
        /\ \/ s.phase = "copy" /\ phase = "replay" /\ s.copy.done
           \/ s.phase = "replay" /\ phase = "fenced"
           \/ s.phase = "open" /\ phase = "cut" /\ s.drain.done
           \/ s.phase \in {"init", "copy", "replay"} /\ phase = "aborting"
           \/ s.phase = "aborting" /\ phase = "aborted" /\ s.abort.done
  BY DEF CopyDone, Converged, DrainDone, StartAbort, AbortDone, Phases
<1>4. [s EXCEPT !.phase = phase] \in States
  BY DEF States
<1>5. /\ s'.rows = s.rows /\ s'.log = s.log /\ s'.born = s.born /\ s'.led = s.led /\ s'.tail = s.tail /\ s'.copy = s.copy
      /\ s'.drain = s.drain /\ s'.abort = s.abort /\ s'.run = s.run /\ s'.refused = s.refused /\ s'.phase = phase
      /\ s'.check = s.check /\ s'.routed = s.routed /\ s'.moved = s.moved /\ s'.cur = s.cur
  BY <1>3 DEF States
<1>6. SourceCur' = SourceCur /\ DestCur' = DestCur
  BY <1>5 DEF SourceCur, DestCur
<1>7. Copying' => Copying
  BY <1>3, <1>5, <1>6 DEF Copying
<1>8. s.phase = "copy" /\ s.copy.done => s.copy.kind = "file"
  BY <1>1 DEF CursorOK, Inner
<1>9. RunsOK' /\ HistoryOK' /\ TailOK' /\ ImageOK' /\ AbsentOK' /\ MissedOK' /\ PageOK' /\ DrainOK' /\ AbortOK'
      /\ CursorOK' /\ ~s'.refused
  <2>1. s'.check.done => s.tail = Len(s.log)
    BY <1>1, <1>5 DEF TailOK
  <2>2. s'.phase \in {"replay", "fenced"} => s.copy.kind = "file" /\ s.copy.done
    BY <1>1, <1>3, <1>5, <1>8 DEF Inner, CursorOK
  <2> QED
    BY <1>1, <1>3, <1>5, <1>6, <1>7, <2>1, <2>2, ControlStep
<1>10. PhasesOK'
  <2>1. InitOK'
    BY <1>3, <1>5 DEF InitOK
  <2>2. OutcomesOK'
    BY <1>1, <1>2, <1>3, <1>5, <1>6 DEF OutcomesOK, PhasesOK, InitOK, FencesOK
  <2>3. FencesOK'
    BY <1>1, <1>3, <1>5, <1>6 DEF FencesOK, PhasesOK
  <2> QED
    BY <2>1, <2>2, <2>3 DEF PhasesOK
<1>11. MovedOK'
  <2>1. s.phase = "replay" => ~SourceCur.fenced
    BY <1>1 DEF PhasesOK, FencesOK
  <2> QED
    BY <1>1, <1>3, <1>5, <1>6, <1>7, <2>1 DEF MovedOK
<1> QED
  BY <1>3, <1>4, <1>9, <1>10, <1>11 DEF Inner

\* A source that is not fenced yet is not compared, and a side that does not own the range yet copies.
LEMMA CaughtUp ==
    ASSUME MixOK, s \in States, Inner, s.phase = "fenced", Copying, s.tail = Len(s.log)
    PROVE  s.rows["dest"] = s.rows["source"]
<1>1. /\ s.rows["source"] \in [Keys -> RowTypes] /\ s.rows["dest"] \in [Keys -> RowTypes]
      /\ Len(s.log) \in Nat /\ s.led \in [Keys -> Int]
  BY DEF States, Sides
<1>2. ASSUME NEW k \in Keys PROVE s.rows["dest"][k] = s.rows["source"][k]
  <2>1. /\ Image(k) /\ s.led[k] \in NoLedger..Len(s.log)
        /\ s.led[k] = NoLedger => s.rows["dest"][k] = None
        /\ Passed(s.copy, k) => Missed(k)
    BY DEF Inner, ImageOK, TailOK, AbsentOK, MissedOK, Copying
  <2>2. Passed(s.copy, k)
    BY MixTypes DEF Inner, CursorOK, Passed
  <2>3. Was(k, Len(s.log)) = s.rows["source"][k]
    BY <1>1, AtEnd DEF Was
  <2>4. CASE s.led[k] = NoLedger
    BY <2>1, <2>2, <2>3, <2>4 DEF Missed
  <2>5. CASE s.led[k] # NoLedger
    <3>1. Pos(k) = Len(s.log)
      BY <1>1, <2>1 DEF Pos
    <3> QED
      BY <2>1, <2>3, <2>5, <3>1 DEF Image
  <2> QED
    BY <2>4, <2>5
<1> QED
  BY <1>1, <1>2

\* TAIL_CAUGHT_UP: the deletion barrier, the routing fence and the file fence, after which
\* the source has no owner and the moved rows are fixed.
LEMMA FenceStep ==
    ASSUME MixOK, mix' = mix, s \in States, Inner, Fence
    PROVE  s' \in States /\ Inner'
<1>1. PhasesOK /\ TailOK /\ MovedOK /\ CursorOK /\ s.phase = "fenced" /\ s.run.at = "idle" /\ ~SourceCur.fenced
  BY DEF Inner, Fence, Step1, SourceCur
<1>2. "source" \in Sides /\ "dest" \in Sides /\ Keys' = Keys /\ Files' = Files
  BY DEF Sides, Keys, Files
<1>3. s.cur \in [Sides -> Bindings] /\ s.rows \in [Sides -> [Keys -> RowTypes]] /\ s.moved \in [Keys -> RowTypes]
      /\ s.routed \in Sides \cup {"none"} /\ s.barrier \in BOOLEAN
  BY DEF States
<1>4. ~s.check.done /\ ~DestCur.maint
  BY <1>1 DEF PhasesOK, FencesOK
<1>5. /\ s' \in States
      /\ s'.rows = s.rows /\ s'.log = s.log /\ s'.born = s.born /\ s'.led = s.led /\ s'.tail = s.tail /\ s'.copy = s.copy
      /\ s'.drain = s.drain /\ s'.abort = s.abort /\ s'.run = s.run /\ s'.refused = s.refused /\ s'.phase = s.phase
      /\ s'.check = s.check /\ s'.routed \in {s.routed, "none"}
      /\ DestCur' = DestCur /\ SourceCur'.outcome = SourceCur.outcome
      /\ SourceCur'.fenced => s'.moved = s.rows["source"]
  <2>1. CASE ~s.barrier
    <3>1. s' = [s EXCEPT !.barrier = TRUE]
      BY <2>1 DEF Fence
    <3>2. [s EXCEPT !.barrier = TRUE] \in States
      BY DEF States
    <3> QED
      BY <1>1, <3>1, <3>2 DEF States, SourceCur, DestCur
  <2>2. CASE s.barrier /\ s.routed = "source"
    <3>1. s' = [s EXCEPT !.routed = "none"]
      BY <2>2 DEF Fence
    <3>2. [s EXCEPT !.routed = "none"] \in States
      BY DEF States
    <3> QED
      BY <1>1, <3>1, <3>2 DEF States, SourceCur, DestCur
  <2>3. CASE s.barrier /\ s.routed # "source"
    <3> DEFINE cur == [s.cur EXCEPT !["source"] = [s.cur["source"] EXCEPT !.fenced = TRUE, !.maint = FALSE]]
    <3>1. s' = [s EXCEPT !.cur["source"].fenced = TRUE, !.cur["source"].maint = FALSE, !.moved = s.rows["source"]]
      BY <2>3 DEF Fence
    <3>2. s' = [s EXCEPT !.cur = cur, !.moved = s.rows["source"]]
      BY <1>2, <1>3, <3>1 DEF States, Bindings
    <3>3. cur \in [Sides -> Bindings] /\ cur["dest"] = s.cur["dest"] /\ cur["source"].outcome = s.cur["source"].outcome
      BY <1>2, <1>3 DEF Bindings
    <3> HIDE DEF cur
    <3>4. s.rows["source"] \in [Keys -> RowTypes]
      BY <1>2, <1>3
    <3>5. [s EXCEPT !.cur = cur, !.moved = s.rows["source"]] \in States
      BY <3>3, <3>4 DEF States
    <3>6. /\ s'.rows = s.rows /\ s'.log = s.log /\ s'.born = s.born /\ s'.led = s.led /\ s'.tail = s.tail /\ s'.copy = s.copy
          /\ s'.drain = s.drain /\ s'.abort = s.abort /\ s'.run = s.run /\ s'.refused = s.refused /\ s'.phase = s.phase
          /\ s'.check = s.check /\ s'.routed = s.routed /\ s'.cur = cur /\ s'.moved = s.rows["source"]
      BY <3>2 DEF States
    <3> QED
      BY <3>2, <3>3, <3>5, <3>6 DEF SourceCur, DestCur
  <2> QED
    BY <2>1, <2>2, <2>3
<1>9. Copying' => Copying
  BY <1>5 DEF Copying
<1>10. RunsOK' /\ HistoryOK' /\ TailOK' /\ ImageOK' /\ AbsentOK' /\ MissedOK' /\ PageOK' /\ DrainOK' /\ AbortOK'
      /\ CursorOK' /\ ~s'.refused
  BY <1>1, <1>4, <1>5, <1>9, ControlStep DEF CursorOK
<1>11. InitOK' /\ FencesOK'
  BY <1>1, <1>4, <1>5 DEF PhasesOK, InitOK, FencesOK
<1>12. OutcomesOK'
  BY <1>1, <1>2, <1>5 DEF PhasesOK, OutcomesOK
<1>13. MovedOK'
  BY <1>4, <1>5 DEF MovedOK
<1> QED
  BY <1>5, <1>10, <1>11, <1>12, <1>13 DEF Inner, PhasesOK

\* The next place of a comparison or a drain.
LEMMA NextKindTypes ==
    ASSUME MixOK, NEW c \in Cursors, NEW page \in SUBSET Keys, NEW set
    PROVE  NextKind(c, page, set) \in Cursors
<1>1. LastOf(page, c) \in Int
  BY LastInfo DEF Cursors
<1> DEFINE last == LastOf(page, c)
<1> HIDE DEF last
<1>2. last \in Int
  BY <1>1 DEF last
<1>3. [c EXCEPT !.after = last] \in Cursors
  BY <1>2 DEF Cursors
<1>4. [c EXCEPT !.done = TRUE] \in Cursors
  BY DEF Cursors
<1>5. Here("tomb", -1) \in Cursors
  BY DEF Cursors, Here
<1> QED
  BY <1>3, <1>4, <1>5 DEF NextKind, last

\* A page of the comparison finds both sides equal, for the replay has reached the end of
\* the log of a fenced source.
LEMMA ValidateStep ==
    ASSUME MixOK, mix' = mix, s \in States, Inner, Validate
    PROVE  s' \in States /\ Inner'
<1>1. /\ PhasesOK /\ TailOK /\ MovedOK /\ CursorOK /\ s.phase = "fenced" /\ s.run.at = "idle" /\ SourceCur.fenced
      /\ s.tail = Len(s.log) /\ ~s.check.done
  BY DEF Inner, Validate, Step1, SourceCur, ValidateAt
<1>2. Keys' = Keys /\ Files' = Files
  BY DEF Keys, Files
<1>3. ~DestCur.maint /\ Copying
  BY <1>1 DEF PhasesOK, FencesOK, Copying
<1>4. s.rows["dest"] = s.rows["source"]
  BY <1>1, <1>3, CaughtUp
<1> DEFINE page == PageOf(Present("source", s.check))
           check == NextKind(s.check, page, page)
<1>5. PageOf(Present("dest", s.check)) = page
  BY <1>4 DEF Present
<1>6. s' = [s EXCEPT !.check = check]
  BY <1>4, <1>5 DEF Validate
<1>7. check \in Cursors
  <2>1. Present("source", s.check) \in SUBSET Keys
    BY DEF Present, KindKeys, Keys
  <2>2. page \in SUBSET Keys /\ s.check \in Cursors
    BY <2>1, PageInfo DEF States
  <2> QED
    BY <2>2, NextKindTypes
<1> HIDE DEF check
<1>8. [s EXCEPT !.check = check] \in States
  BY <1>7 DEF States
<1>9. /\ s'.rows = s.rows /\ s'.log = s.log /\ s'.born = s.born /\ s'.led = s.led /\ s'.tail = s.tail /\ s'.copy = s.copy
      /\ s'.drain = s.drain /\ s'.abort = s.abort /\ s'.run = s.run /\ s'.refused = s.refused /\ s'.phase = s.phase
      /\ s'.cur = s.cur /\ s'.routed = s.routed /\ s'.moved = s.moved
  BY <1>6 DEF States
<1>10. SourceCur' = SourceCur /\ DestCur' = DestCur
  BY <1>9 DEF SourceCur, DestCur
<1>11. Copying' => Copying
  BY <1>3
<1>12. RunsOK' /\ HistoryOK' /\ TailOK' /\ ImageOK' /\ AbsentOK' /\ MissedOK' /\ PageOK' /\ DrainOK' /\ AbortOK'
      /\ CursorOK' /\ ~s'.refused
  BY <1>1, <1>9, <1>10, <1>11, ControlStep DEF CursorOK
<1>13. InitOK' /\ FencesOK'
  BY <1>1, <1>3, <1>9, <1>10 DEF PhasesOK, InitOK, FencesOK
<1>14. OutcomesOK'
  BY <1>1, <1>2, <1>9, <1>10 DEF PhasesOK, OutcomesOK
<1>15. MovedOK'
  BY <1>1, <1>4, <1>9 DEF MovedOK
<1> QED
  BY <1>6, <1>8, <1>12, <1>13, <1>14, <1>15 DEF Inner, PhasesOK

\* Ownership passes to the destination only after the comparison has ended.
LEMMA CutoverStep ==
    ASSUME MixOK, mix' = mix, s \in States, Inner, Cutover
    PROVE  s' \in States /\ Inner'
<1>1. /\ PhasesOK /\ TailOK /\ MovedOK /\ CursorOK /\ s.phase = "fenced" /\ s.run.at = "idle" /\ s.check.done
      /\ SourceCur.fenced /\ s.tail = Len(s.log)
  BY DEF Inner, Cutover, Step1, PhasesOK, FencesOK, TailOK
<1>2. "source" \in Sides /\ "dest" \in Sides /\ Keys' = Keys /\ Files' = Files
  BY DEF Sides, Keys, Files
<1>3. s.cur \in [Sides -> Bindings] /\ s.routed \in Sides \cup {"none"} /\ s.barrier \in BOOLEAN
  BY DEF States
<1>4. /\ s' \in States
      /\ s'.rows = s.rows /\ s'.log = s.log /\ s'.born = s.born /\ s'.led = s.led /\ s'.tail = s.tail /\ s'.copy = s.copy
      /\ s'.drain = s.drain /\ s'.abort = s.abort /\ s'.run = s.run /\ s'.refused = s.refused
      /\ s'.check = s.check /\ s'.moved = s.moved
      /\ SourceCur' = SourceCur /\ DestCur'.outcome = DestCur.outcome /\ (DestCur.maint => DestCur'.maint)
      /\ s'.phase \in {"fenced", "open"} /\ (s'.phase = "open" => DestCur'.maint)
  <2>1. CASE ~s.cur["dest"].attach
    <3> DEFINE new == [s.cur["dest"] EXCEPT !.attach = TRUE]
               cur == [s.cur EXCEPT !["dest"] = new]
    <3>1. s' = [s EXCEPT !.cur["dest"].attach = TRUE]
      BY <2>1 DEF Cutover
    <3>2. s' = [s EXCEPT !.cur = cur]
      BY <1>2, <1>3, <3>1 DEF States, Bindings
    <3>3. new \in Bindings /\ new.outcome = s.cur["dest"].outcome /\ (s.cur["dest"].maint => new.maint)
      BY <1>2, <1>3 DEF Bindings
    <3> HIDE DEF new
    <3>4. cur \in [Sides -> Bindings] /\ cur["source"] = s.cur["source"] /\ cur["dest"] = new
      BY <1>2, <1>3, <3>3
    <3> HIDE DEF cur
    <3>5. [s EXCEPT !.cur = cur] \in States
      BY <3>4 DEF States
    <3>6. /\ s'.rows = s.rows /\ s'.log = s.log /\ s'.born = s.born /\ s'.led = s.led /\ s'.tail = s.tail /\ s'.copy = s.copy
          /\ s'.drain = s.drain /\ s'.abort = s.abort /\ s'.run = s.run /\ s'.refused = s.refused
          /\ s'.check = s.check /\ s'.moved = s.moved
          /\ s'.phase = s.phase /\ s'.cur = cur
      BY <3>2 DEF States
    <3> QED
      BY <1>1, <3>2, <3>3, <3>4, <3>5, <3>6 DEF SourceCur, DestCur
  <2>2. CASE s.cur["dest"].attach /\ s.routed = "none"
    <3>1. s' = [s EXCEPT !.routed = "dest", !.barrier = FALSE]
      BY <2>2 DEF Cutover
    <3>2. [s EXCEPT !.routed = "dest", !.barrier = FALSE] \in States
      BY <1>2 DEF States
    <3> QED
      BY <1>1, <3>1, <3>2 DEF SourceCur, DestCur, States
  <2>3. CASE s.cur["dest"].attach /\ s.routed # "none" /\ ~s.cur["dest"].maint
    <3> DEFINE new == [s.cur["dest"] EXCEPT !.maint = TRUE]
               cur == [s.cur EXCEPT !["dest"] = new]
    <3>1. s' = [s EXCEPT !.cur["dest"].maint = TRUE]
      BY <2>3 DEF Cutover
    <3>2. s' = [s EXCEPT !.cur = cur]
      BY <1>2, <1>3, <3>1 DEF States, Bindings
    <3>3. new \in Bindings /\ new.outcome = s.cur["dest"].outcome /\ (s.cur["dest"].maint => new.maint)
      BY <1>2, <1>3 DEF Bindings
    <3> HIDE DEF new
    <3>4. cur \in [Sides -> Bindings] /\ cur["source"] = s.cur["source"] /\ cur["dest"] = new
      BY <1>2, <1>3, <3>3
    <3> HIDE DEF cur
    <3>5. [s EXCEPT !.cur = cur] \in States
      BY <3>4 DEF States
    <3>6. /\ s'.rows = s.rows /\ s'.log = s.log /\ s'.born = s.born /\ s'.led = s.led /\ s'.tail = s.tail /\ s'.copy = s.copy
          /\ s'.drain = s.drain /\ s'.abort = s.abort /\ s'.run = s.run /\ s'.refused = s.refused
          /\ s'.check = s.check /\ s'.moved = s.moved
          /\ s'.phase = s.phase /\ s'.cur = cur
      BY <3>2 DEF States
    <3> QED
      BY <1>1, <3>2, <3>3, <3>4, <3>5, <3>6 DEF SourceCur, DestCur
  <2>4. CASE s.cur["dest"].attach /\ s.routed # "none" /\ s.cur["dest"].maint
    <3>1. s' = [s EXCEPT !.phase = "open"]
      BY <2>4 DEF Cutover
    <3>2. [s EXCEPT !.phase = "open"] \in States
      BY DEF States, Phases
    <3> QED
      BY <2>4, <3>1, <3>2 DEF SourceCur, DestCur, States
  <2> QED
    BY <2>1, <2>2, <2>3, <2>4
<1>8. Copying' => Copying
  BY <1>1, <1>4 DEF Copying
<1>9. RunsOK' /\ HistoryOK' /\ TailOK' /\ ImageOK' /\ AbsentOK' /\ MissedOK' /\ PageOK' /\ DrainOK' /\ AbortOK'
      /\ CursorOK' /\ ~s'.refused
  BY <1>1, <1>4, <1>8, ControlStep DEF CursorOK
<1>10. InitOK' /\ FencesOK'
  BY <1>1, <1>4 DEF PhasesOK, InitOK, FencesOK
<1>11. OutcomesOK'
  BY <1>1, <1>2, <1>4 DEF PhasesOK, OutcomesOK
<1>12. MovedOK'
  BY <1>1, <1>4, <1>8 DEF MovedOK
<1> QED
  BY <1>4, <1>9, <1>10, <1>11, <1>12 DEF Inner, PhasesOK

\* Stopping the source's attachments, and aborting the source, move no row.
LEMMA StopSourceStep ==
    ASSUME MixOK, mix' = mix, s \in States, Inner, StopSource \/ AbortSource
    PROVE  s' \in States /\ Inner'
<1>1. /\ PhasesOK /\ TailOK /\ MovedOK /\ CursorOK /\ AbortOK /\ DrainOK /\ s.run.at = "idle"
      /\ s.phase \in {"open", "aborting"}
  BY DEF Inner, StopSource, AbortSource, Step1
<1>2. "source" \in Sides /\ "dest" \in Sides /\ Keys' = Keys /\ Files' = Files
  BY DEF Sides, Keys, Files
<1>3. s.cur \in [Sides -> Bindings]
  BY DEF States
<1>4. PICK new \in Bindings :
        /\ s' = [s EXCEPT !.cur = [s.cur EXCEPT !["source"] = new]]
        /\ new.fenced = s.cur["source"].fenced
        /\ s.phase = "open" => new.outcome = s.cur["source"].outcome
        /\ s.phase = "aborting" => new.outcome = "aborted" /\ s.cur["source"].outcome = "active"
  <2>1. CASE StopSource
    <3> DEFINE new == [s.cur["source"] EXCEPT !.attach = FALSE]
    <3>1. s' = [s EXCEPT !.cur["source"].attach = FALSE]
      BY <2>1 DEF StopSource
    <3>2. s' = [s EXCEPT !.cur = [s.cur EXCEPT !["source"] = new]]
      BY <1>2, <1>3, <3>1 DEF States, Bindings
    <3>3. new \in Bindings /\ new.fenced = s.cur["source"].fenced /\ new.outcome = s.cur["source"].outcome
      BY <1>2, <1>3 DEF Bindings
    <3> HIDE DEF new
    <3> QED
      BY <2>1, <3>2, <3>3 DEF StopSource
  <2>2. CASE AbortSource
    <3> DEFINE new == [s.cur["source"] EXCEPT !.outcome = "aborted", !.maint = FALSE, !.attach = TRUE]
    <3>1. ~s.cur["source"].fenced
      BY <1>1, <2>2 DEF AbortSource, PhasesOK, FencesOK, SourceCur
    <3>2. s' = [s EXCEPT !.cur = [s.cur EXCEPT !["source"] = new]]
      BY <2>2, <3>1 DEF AbortSource, States
    <3>3. new \in Bindings /\ new.fenced = s.cur["source"].fenced /\ new.outcome = "aborted"
      BY <1>2, <1>3 DEF Bindings
    <3> HIDE DEF new
    <3> QED
      BY <2>2, <3>2, <3>3 DEF AbortSource
  <2> QED
    BY <2>1, <2>2
<1> DEFINE cur == [s.cur EXCEPT !["source"] = new]
<1>5. cur \in [Sides -> Bindings] /\ cur["dest"] = s.cur["dest"] /\ cur["source"] = new
  BY <1>2, <1>3
<1>6. s' = [s EXCEPT !.cur = cur]
  BY <1>4
<1> HIDE DEF cur
<1>7. [s EXCEPT !.cur = cur] \in States
  BY <1>5 DEF States
<1>8. /\ s'.rows = s.rows /\ s'.log = s.log /\ s'.born = s.born /\ s'.led = s.led /\ s'.tail = s.tail /\ s'.copy = s.copy
      /\ s'.drain = s.drain /\ s'.abort = s.abort /\ s'.run = s.run /\ s'.refused = s.refused /\ s'.phase = s.phase
      /\ s'.check = s.check /\ s'.routed = s.routed /\ s'.moved = s.moved /\ s'.cur = cur
  BY <1>6 DEF States
<1>9. /\ DestCur' = DestCur /\ SourceCur' = new /\ SourceCur'.fenced = SourceCur.fenced
      /\ s.phase = "open" => SourceCur'.outcome = SourceCur.outcome
      /\ s.phase = "aborting" => SourceCur'.outcome = "aborted"
  BY <1>4, <1>5, <1>8 DEF SourceCur, DestCur
<1>10. Copying' => Copying
  BY <1>8, <1>9 DEF Copying
<1>11. /\ HistoryOK' /\ TailOK' /\ ImageOK' /\ AbsentOK' /\ MissedOK' /\ PageOK' /\ DrainOK' /\ AbortOK'
       /\ RunsOK' /\ CursorOK' /\ ~s'.refused
  <2>1. s'.check.done => s.tail = Len(s.log)
    BY <1>1, <1>8 DEF TailOK
  <2> QED
    BY <1>1, <1>8, <1>9, <1>10, <2>1, ControlStep
<1>12. InitOK' /\ FencesOK'
  BY <1>1, <1>8, <1>9 DEF PhasesOK, InitOK, FencesOK
<1>13. OutcomesOK'
  BY <1>1, <1>2, <1>8, <1>9 DEF PhasesOK, OutcomesOK
<1>14. MovedOK'
  BY <1>1, <1>8, <1>9, <1>10 DEF MovedOK
<1> QED
  BY <1>6, <1>7, <1>11, <1>12, <1>13, <1>14 DEF Inner, PhasesOK

-----------------------------------------------------------------------------
(* The cursors.                                                            *)

\* A step that moves no row, no phase and no ownership.
LEMMA SameRows ==
    ASSUME MixOK, mix' = mix, s \in States, Inner,
           s'.rows = s.rows, s'.log = s.log, s'.born = s.born, s'.led = s.led, s'.tail = s.tail, s'.cur = s.cur,
           s'.routed = s.routed, s'.phase = s.phase, s'.check = s.check, s'.moved = s.moved, s'.refused = s.refused,
           s'.abort.done => s.abort.done \/ SourceCur.outcome \in {"none", "aborted"},
           s.abort.done => s'.abort.done, s.phase = "init" => s'.copy = s.copy
    PROVE  /\ PhasesOK' /\ HistoryOK' /\ TailOK' /\ ImageOK' /\ AbsentOK' /\ MovedOK' /\ ~s'.refused
           /\ Copying' = Copying /\ \A k \in Keys : Missed(k)' = Missed(k)
           /\ \A k, n : Was(k, n)' = Was(k, n)
<1>0. Keys' = Keys /\ Files' = Files
  BY DEF Keys, Files
<1>1. PhasesOK /\ RunsOK /\ HistoryOK /\ TailOK /\ ImageOK /\ AbsentOK /\ MissedOK /\ PageOK /\ MovedOK /\ DrainOK /\ AbortOK
      /\ ~s.refused
  BY DEF Inner
<1>2. SourceCur' = SourceCur /\ DestCur' = DestCur
  BY DEF SourceCur, DestCur
<1>3. Copying' = Copying
  BY <1>2 DEF Copying
<1>4. \A k, n : Was(k, n)' = Was(k, n)
  BY DEF Was
<1>5. \A k \in Keys : Missed(k)' = Missed(k)
  BY <1>4 DEF Missed, Was
<1>6. HistoryOK'
  BY <1>0, <1>1, <1>3 DEF HistoryOK, BornOK
<1>7. TailOK' /\ AbsentOK'
  BY <1>0, <1>1, <1>2 DEF TailOK, AbsentOK
<1>8. ImageOK'
  <2>1. ASSUME NEW k \in Keys, Image(k) PROVE Image(k)'
    BY <1>4, <2>1 DEF Image, Pos, Was
  <2> QED
    BY <1>0, <1>1, <1>3, <2>1 DEF ImageOK
<1>9. InitOK' /\ FencesOK'
  BY <1>0, <1>1, <1>2 DEF PhasesOK, InitOK, FencesOK
<1>10. OutcomesOK'
  BY <1>0, <1>1, <1>2 DEF PhasesOK, OutcomesOK
<1>11. MovedOK' /\ ~s'.refused
  BY <1>1, <1>2, <1>3 DEF MovedOK
<1> QED
  BY <1>3, <1>4, <1>5, <1>6, <1>7, <1>8, <1>9, <1>10, <1>11 DEF PhasesOK

\* What a page in flight is.
LEMMA RunKinds ==
    ASSUME s \in States
    PROVE  /\ s.run.at = "apply" => s.run \in Pages
           /\ s.run.at = "persist" => s.run \in [at : {"persist"}, last : Int, done : BOOLEAN]
           /\ s.run.at = "drained" => s.run \in [at : {"drained"}, next : Cursors]
           /\ s.run.at = "aborted" => s.run \in [at : {"aborted"}, page : SUBSET Keys]
BY DEF States, RunTypes, Idle, Pages

\* An eviction of the Resharder forgets the page in flight and nothing else.
LEMMA CrashStep ==
    ASSUME MixOK, mix' = mix, s \in States, Inner, Crash
    PROVE  s' \in States /\ Inner'
<1>0. Keys' = Keys /\ Files' = Files
  BY DEF Keys, Files
<1>1. s' = [s EXCEPT !.run = Idle, !.faults = s.faults + 1]
  BY DEF Crash
<1>2. s.faults + 1 \in Nat /\ Idle \in RunTypes
  BY DEF States, RunTypes
<1>3. [s EXCEPT !.run = Idle, !.faults = s.faults + 1] \in States
  BY <1>2 DEF States
<1>4. /\ s'.rows = s.rows /\ s'.log = s.log /\ s'.born = s.born /\ s'.led = s.led /\ s'.tail = s.tail /\ s'.copy = s.copy
      /\ s'.drain = s.drain /\ s'.abort = s.abort /\ s'.run = Idle /\ s'.refused = s.refused /\ s'.phase = s.phase
      /\ s'.check = s.check /\ s'.routed = s.routed /\ s'.moved = s.moved /\ s'.cur = s.cur
  BY <1>1 DEF States
<1>5. /\ PhasesOK' /\ HistoryOK' /\ TailOK' /\ ImageOK' /\ AbsentOK' /\ MovedOK' /\ ~s'.refused
      /\ Copying' = Copying /\ \A k \in Keys : Missed(k)' = Missed(k)
  BY <1>4, SameRows
<1>6. RunsOK' /\ PageOK'
  BY <1>4 DEF RunsOK, PageOK, Idle
<1>7. CursorOK' /\ MissedOK'
  BY <1>0, <1>4, <1>5 DEF Inner, CursorOK, MissedOK, Passed
<1>8. DrainOK' /\ AbortOK'
  BY <1>0, <1>4 DEF Inner, DrainOK, Drained, AbortOK, Forgotten, Idle
<1> QED
  BY <1>1, <1>3, <1>5, <1>6, <1>7, <1>8 DEF Inner

\* The copy cursor moves over a page that is applied.
LEMMA PersistCopyStep ==
    ASSUME MixOK, mix' = mix, s \in States, Inner, PersistCopy
    PROVE  s' \in States /\ Inner'
<1>0. Keys' = Keys /\ Files' = Files
  BY DEF Keys, Files
<1> DEFINE next == NextCopy(s.run.last, s.run.done)
<1>1. s.run.at = "persist" /\ s.phase = "copy" /\ s.run \in [at : {"persist"}, last : Int, done : BOOLEAN]
      /\ s.copy \in Cursors
  BY RunKinds DEF PersistCopy, Step1, Inner, RunsOK, States
<1>2. s' = [s EXCEPT !.run = Idle, !.copy = next]
  BY DEF PersistCopy, NextCopy, States
<1>3. next \in Cursors /\ Idle \in RunTypes
  <2>1. s.run.last \in Int /\ s.run.done \in BOOLEAN
    BY <1>1
  <2>2. [s.copy EXCEPT !.after = s.run.last, !.done = s.run.done] \in Cursors
    BY <1>1, <2>1 DEF Cursors
  <2>3. Here("file", 0) \in Cursors
    BY DEF Here, Cursors
  <2> QED
    BY <2>2, <2>3 DEF NextCopy, RunTypes
<1>4. next.done => next.kind = "file"
  BY <1>1 DEF NextCopy, Cursors, Here
<1> HIDE DEF next
<1>5. [s EXCEPT !.run = Idle, !.copy = next] \in States
  BY <1>3 DEF States
<1>6. /\ s'.rows = s.rows /\ s'.log = s.log /\ s'.born = s.born /\ s'.led = s.led /\ s'.tail = s.tail /\ s'.copy = next
      /\ s'.drain = s.drain /\ s'.abort = s.abort /\ s'.run = Idle /\ s'.refused = s.refused /\ s'.phase = s.phase
      /\ s'.check = s.check /\ s'.routed = s.routed /\ s'.moved = s.moved /\ s'.cur = s.cur
  BY <1>2 DEF States
<1>7. /\ PhasesOK' /\ HistoryOK' /\ TailOK' /\ ImageOK' /\ AbsentOK' /\ MovedOK' /\ ~s'.refused
      /\ Copying' = Copying /\ \A k \in Keys : Missed(k)' = Missed(k)
  BY <1>1, <1>6, SameRows
<1>8. RunsOK' /\ PageOK'
  BY <1>6 DEF RunsOK, PageOK, Idle
<1>9. CursorOK'
  BY <1>1, <1>4, <1>6 DEF CursorOK
<1>10. MissedOK'
  <2>1. \A k \in Keys : Passed(next, k) => Missed(k)
    BY <1>1 DEF Inner, PageOK, next
  <2> QED
    BY <1>0, <1>6, <1>7, <2>1 DEF MissedOK, Passed
<1>11. DrainOK' /\ AbortOK'
  BY <1>0, <1>6 DEF Inner, DrainOK, Drained, AbortOK, Forgotten, Idle
<1> QED
  BY <1>2, <1>5, <1>7, <1>8, <1>9, <1>10, <1>11 DEF Inner

\* The drain cursor moves over a page that is gone.
LEMMA PersistDrainStep ==
    ASSUME MixOK, mix' = mix, s \in States, Inner, PersistDrain
    PROVE  s' \in States /\ Inner'
<1>0. Keys' = Keys /\ Files' = Files
  BY DEF Keys, Files
<1> DEFINE next == s.run.next
<1>1. s.run.at = "drained" /\ s.phase = "open" /\ next \in Cursors
  BY RunKinds DEF PersistDrain, Step1, Inner, RunsOK
<1>2. s' = [s EXCEPT !.drain = next, !.run = Idle]
  BY DEF PersistDrain
<1> HIDE DEF next
<1>3. Idle \in RunTypes
  BY DEF RunTypes
<1>4. [s EXCEPT !.drain = next, !.run = Idle] \in States
  BY <1>1, <1>3 DEF States
<1>5. /\ s'.rows = s.rows /\ s'.log = s.log /\ s'.born = s.born /\ s'.led = s.led /\ s'.tail = s.tail /\ s'.copy = s.copy
      /\ s'.drain = next /\ s'.abort = s.abort /\ s'.run = Idle /\ s'.refused = s.refused /\ s'.phase = s.phase
      /\ s'.check = s.check /\ s'.routed = s.routed /\ s'.moved = s.moved /\ s'.cur = s.cur
  BY <1>2 DEF States
<1>6. /\ PhasesOK' /\ HistoryOK' /\ TailOK' /\ ImageOK' /\ AbsentOK' /\ MovedOK' /\ ~s'.refused
      /\ Copying' = Copying /\ \A k \in Keys : Missed(k)' = Missed(k)
  BY <1>5, SameRows
<1>7. RunsOK' /\ PageOK'
  BY <1>5 DEF RunsOK, PageOK, Idle
<1>8. CursorOK' /\ MissedOK'
  BY <1>0, <1>5, <1>6 DEF Inner, CursorOK, MissedOK, Passed
<1>9. DrainOK'
  <2>1. \A k \in Keys : Drained(next, k) => s.rows["source"][k] = None
    BY <1>1 DEF Inner, DrainOK, next
  <2> QED
    BY <1>0, <1>1, <1>5, <2>1 DEF DrainOK, Drained, Idle
<1>10. AbortOK'
  BY <1>0, <1>5 DEF Inner, AbortOK, Forgotten, Idle
<1> QED
  BY <1>2, <1>4, <1>6, <1>7, <1>8, <1>9, <1>10 DEF Inner

\* The cleanup cursor moves over a page whose ledger is gone (persistAbort).
LEMMA PersistAbortStep ==
    ASSUME MixOK, mix' = mix, s \in States, Inner, PersistAbort
    PROVE  s' \in States /\ Inner'
<1>0. Keys' = Keys /\ Files' = Files
  BY DEF Keys, Files
<1>1. /\ s.run.at = "aborted" /\ s.phase = "aborting" /\ s.run.page \in SUBSET Keys
      /\ SourceCur.outcome \in {"none", "aborted"} /\ AbortOK /\ s.abort \in Cursors
  BY RunKinds DEF PersistAbort, Step1, Inner, RunsOK, States
<1> DEFINE page == s.run.page
           last == LastOf(page, s.abort)
           next == IF Cardinality(page) < mix.page THEN [s.abort EXCEPT !.done = TRUE]
                   ELSE IF TOMB \in page THEN [s.abort EXCEPT !.kind = "tomb"]
                   ELSE [s.abort EXCEPT !.after = last]
<1>2. s' = [s EXCEPT !.run = Idle, !.abort = next]
  BY DEF PersistAbort, NextAbort
<1>3. last \in Int
  BY <1>1, LastInfo DEF Cursors
<1>4. \A k \in Keys : Forgotten(next, k) => s.led[k] = NoLedger
  <2>1. CASE Cardinality(page) < mix.page \/ TOMB \in page
    BY <1>1, <2>1 DEF AbortOK
  <2>2. CASE ~(Cardinality(page) < mix.page) /\ TOMB \notin page
    <3>1. page # {}
      <4>1. Cardinality({}) = 0 /\ mix.page \in Nat \ {0}
        BY FS_EmptySet, MixTypes
      <4> QED
        BY <2>2, <4>1
    <3>2. \A k \in Files : k <= last => s.led[k] = NoLedger
      BY <1>1, <3>1 DEF AbortOK
    <3>3. next = [s.abort EXCEPT !.after = last]
      BY <2>2
    <3> HIDE DEF next, last
    <3>4. next.after = last /\ next.done = s.abort.done /\ next.kind = s.abort.kind
      BY <1>1, <3>3 DEF Cursors
    <3> QED
      BY <1>1, <3>2, <3>4 DEF AbortOK, Forgotten
  <2> QED
    BY <2>1, <2>2
<1>5. next \in Cursors /\ (s.abort.done => next.done)
  <2> HIDE DEF last
  <2> QED
    BY <1>1, <1>3 DEF Cursors
<1> HIDE DEF next
<1>6. Idle \in RunTypes
  BY DEF RunTypes
<1>7. [s EXCEPT !.run = Idle, !.abort = next] \in States
  BY <1>5, <1>6 DEF States
<1>8. /\ s'.rows = s.rows /\ s'.log = s.log /\ s'.born = s.born /\ s'.led = s.led /\ s'.tail = s.tail /\ s'.copy = s.copy
      /\ s'.drain = s.drain /\ s'.abort = next /\ s'.run = Idle /\ s'.refused = s.refused /\ s'.phase = s.phase
      /\ s'.check = s.check /\ s'.routed = s.routed /\ s'.moved = s.moved /\ s'.cur = s.cur
  BY <1>2 DEF States
<1>9. /\ PhasesOK' /\ HistoryOK' /\ TailOK' /\ ImageOK' /\ AbsentOK' /\ MovedOK' /\ ~s'.refused
      /\ Copying' = Copying /\ \A k \in Keys : Missed(k)' = Missed(k)
  BY <1>1, <1>5, <1>8, SameRows
<1>10. RunsOK' /\ PageOK'
  BY <1>8 DEF RunsOK, PageOK, Idle
<1>11. CursorOK' /\ MissedOK'
  BY <1>0, <1>8, <1>9 DEF Inner, CursorOK, MissedOK, Passed
<1>12. DrainOK'
  BY <1>0, <1>8 DEF Inner, DrainOK, Drained, Idle
<1>13. AbortOK'
  BY <1>0, <1>1, <1>4, <1>8 DEF AbortOK, Forgotten, Idle
<1> QED
  BY <1>2, <1>7, <1>9, <1>10, <1>11, <1>12, <1>13 DEF Inner

-----------------------------------------------------------------------------
(* The copy.                                                               *)

\* A page is read: its rows are those of the log's end, and what the page passes without a row
\* the source does not have.
LEMMA ReadPageStep ==
    ASSUME MixOK, mix' = mix, s \in States, Inner, ReadPage
    PROVE  s' \in States /\ Inner'
<1>0. Keys' = Keys /\ Files' = Files
  BY DEF Keys, Files
<1> DEFINE set == Present("source", s.copy)
           page == PageOf(set)
           last == LastOf(page, s.copy)
           rows == [k \in page |-> s.rows["source"][k]]
           run == [at |-> "apply", rows |-> rows, last |-> last, done |-> page = set, through |-> Len(s.log)]
<1>1. /\ s.phase = "copy" /\ ~s.copy.done /\ s.copy \in Cursors /\ Len(s.log) \in Nat
      /\ s.rows["source"] \in [Keys -> RowTypes]
  BY DEF ReadPage, States, Sides
<1>2. s' = [s EXCEPT !.run = run]
  BY DEF ReadPage
<1>3. set \in SUBSET Keys /\ page \in SUBSET Keys /\ page \subseteq set
      /\ \A k \in page, j \in set : j <= k => j \in page
  <2>1. set \in SUBSET Keys
    BY DEF Present, KindKeys, Keys
  <2> HIDE DEF set
  <2> QED
    BY <2>1, PageInfo
<1>4. /\ last \in Int /\ (page # {} => last \in page) /\ (page = {} => last = s.copy.after)
  <2> HIDE DEF page
  <2> QED
    BY <1>1, <1>3, LastInfo DEF Cursors
<1>5. \A k \in page : s.rows["source"][k] # None
  BY <1>3 DEF Present
<1>6. Copying /\ TailOK /\ MissedOK
  BY <1>1 DEF Inner, PhasesOK, FencesOK, Copying
\* What the new cursor has passed is in the page, or was not there.
<1>7. ASSUME NEW k \in Keys, Passed(NextCopy(last, page = set), k) PROVE k \in page \/ Missed(k)
  <2>0. k \in Int /\ s.copy.after \in Int
    BY <1>1, MixTypes DEF Cursors
  <2>1. CASE Passed(s.copy, k)
    BY <1>6, <2>1 DEF MissedOK
  <2>2. CASE s.rows["source"][k] = None
    BY <2>2 DEF Missed
  <2>3. CASE ~Passed(s.copy, k) /\ s.rows["source"][k] # None
    <3>1. k \in KindKeys(s.copy.kind) /\ ~(k <= s.copy.after) /\ (page = set \/ k <= last)
      <4>1. CASE s.copy.kind = "tomb" /\ page = set
        <5>1. NextCopy(last, page = set) = Here("file", 0)
          BY <4>1 DEF NextCopy
        <5>2. k = TOMB
          BY <1>7, <2>0, <5>1, MixTypes DEF Passed, Here
        <5> QED
          BY <2>3, <4>1, <5>2 DEF Passed, KindKeys
      <4>2. CASE ~(s.copy.kind = "tomb" /\ page = set)
        <5> DEFINE done == page = set
                   next == [s.copy EXCEPT !.after = last, !.done = done]
        <5>1. NextCopy(last, done) = next
          BY <4>2 DEF NextCopy
        <5>2. next.kind = s.copy.kind /\ next.after = last /\ next.done = done
          BY <1>1 DEF Cursors
        <5>3. Passed(next, k)
          BY <1>7, <5>1
        <5> HIDE DEF next, page, last, set
        <5>4. CASE s.copy.kind = "file"
          <6>1. k # TOMB /\ (k <= last \/ done) /\ ~(k <= s.copy.after)
            BY <2>3, <5>2, <5>3, <5>4 DEF Passed
          <6>2. k \in Files
            BY <6>1, MixTypes
          <6> QED
            BY <5>4, <6>1, <6>2 DEF KindKeys
        <5>5. CASE s.copy.kind = "tomb"
          BY <2>3, <5>2, <5>3, <5>5 DEF Passed, KindKeys
        <5> QED
          BY <1>1, <5>4, <5>5 DEF Cursors
      <4> QED
        BY <4>1, <4>2
    <3>2. k \in set
      BY <2>0, <2>3, <3>1 DEF Present
    <3>3. CASE page = set
      BY <3>2, <3>3
    <3>4. CASE k <= last /\ page # {}
      BY <1>3, <1>4, <3>2, <3>4
    <3>5. CASE k <= last /\ page = {}
      BY <1>4, <3>1, <3>5
    <3> QED
      BY <3>1, <3>3, <3>4, <3>5
  <2> QED
    BY <2>1, <2>2, <2>3
<1>8. run \in RunTypes
  <2>1. rows \in [page -> RowTypes]
    BY <1>1, <1>3
  <2>2. rows \in Images
    BY <1>3, <2>1 DEF Images
  <2> HIDE DEF rows, last, page, set
  <2> QED
    BY <1>1, <1>4, <2>2 DEF RunTypes, Pages
<1>9. DOMAIN rows = page /\ \A k \in page : rows[k] = s.rows["source"][k]
  OBVIOUS
<1>10. run.at = "apply" /\ run.rows = rows /\ run.last = last /\ run.done = (page = set) /\ run.through = Len(s.log)
  BY Zenon
<1> HIDE DEF run, rows, last
<1>11. [s EXCEPT !.run = run] \in States
  BY <1>8 DEF States
<1>12. /\ s'.rows = s.rows /\ s'.log = s.log /\ s'.born = s.born /\ s'.led = s.led /\ s'.tail = s.tail /\ s'.copy = s.copy
       /\ s'.drain = s.drain /\ s'.abort = s.abort /\ s'.run = run /\ s'.refused = s.refused /\ s'.phase = s.phase
       /\ s'.check = s.check /\ s'.routed = s.routed /\ s'.moved = s.moved /\ s'.cur = s.cur
  BY <1>2 DEF States
<1>13. /\ PhasesOK' /\ HistoryOK' /\ TailOK' /\ ImageOK' /\ AbsentOK' /\ MovedOK' /\ ~s'.refused
       /\ Copying' = Copying /\ \A k \in Keys : Missed(k)' = Missed(k)
       /\ \A k, n : Was(k, n)' = Was(k, n)
  BY <1>12, SameRows
<1>14. RunsOK'
  BY <1>1, <1>10, <1>12 DEF RunsOK
<1>15. CursorOK' /\ MissedOK'
  BY <1>0, <1>12, <1>13 DEF Inner, CursorOK, MissedOK, Passed
<1>16. DrainOK' /\ AbortOK'
  BY <1>0, <1>10, <1>12 DEF Inner, DrainOK, Drained, AbortOK, Forgotten
<1>17. PageOK'
  <2>1. \A k \in Keys : s.led[k] <= Len(s.log)
    BY <1>6 DEF TailOK
  <2>2. \A k \in page : rows[k] # None /\ rows[k] = Was(k, Len(s.log))
    BY <1>1, <1>5, <1>9, AtEnd DEF Was
  <2> HIDE DEF page, set
  <2>5. \A k \in Keys : Passed(NextCopy(s'.run.last, s'.run.done), k) => k \in DOMAIN rows \/ Missed(k)'
    BY <1>7, <1>9, <1>10, <1>12, <1>13
  <2> QED
    BY <1>0, <1>9, <1>10, <1>12, <1>13, <2>1, <2>2, <2>5 DEF PageOK, Was, NextCopy, Passed
<1> QED
  BY <1>2, <1>11, <1>13, <1>14, <1>15, <1>16, <1>17 DEF Inner

\* A page is applied, whatever the source has done since it was read and however often it was
\* applied before (applySnapshot, applyTombstones): no row of it is refused.
LEMMA ApplyPageStep ==
    ASSUME MixOK, mix' = mix, s \in States, Inner, ApplyPage
    PROVE  s' \in States /\ Inner'
<1>0. Keys' = Keys /\ Files' = Files
  BY DEF Keys, Files
<1> DEFINE p == s.run
           D == DOMAIN p.rows
           dest == [k \in Keys |-> IF k \in D THEN p.rows[k] ELSE s.rows["dest"][k]]
           led == [k \in Keys |-> IF k \in D THEN p.through ELSE s.led[k]]
           run == [at |-> "persist", last |-> p.last, done |-> p.done]
           rows == [s.rows EXCEPT !["dest"] = dest]
<1>1. /\ p.at = "apply" /\ s.phase = "copy" /\ p \in Pages
      /\ s.rows \in [Sides -> [Keys -> RowTypes]] /\ s.led \in [Keys -> Int] /\ s.tail = 0 /\ Len(s.log) \in Nat
      /\ "source" \in Sides /\ "dest" \in Sides
  BY RunKinds DEF ApplyPage, Step1, Inner, RunsOK, TailOK, States, Sides
<1>2. /\ ~SourceCur.fenced /\ ~DestCur.maint /\ ~s.check.done /\ Copying /\ SourceCur.outcome = "active"
      /\ DestCur.outcome = "active"
  BY <1>1 DEF Inner, PhasesOK, OutcomesOK, FencesOK, Copying
<1>3. /\ D \in SUBSET Keys /\ p.rows \in [D -> RowTypes] /\ p.through \in Nat /\ p.last \in Int /\ p.done \in BOOLEAN
  <2>1. p.rows \in Images /\ p.through \in Nat /\ p.last \in Int /\ p.done \in BOOLEAN
    BY <1>1 DEF Pages
  <2>2. PICK d \in SUBSET Keys : p.rows \in [d -> RowTypes]
    BY <2>1 DEF Images
  <2> QED
    BY <2>1, <2>2
<1>4. /\ p.through <= Len(s.log) /\ \A k \in Keys : s.led[k] <= p.through
      /\ \A k \in D : p.rows[k] # None /\ p.rows[k] = Was(k, p.through)
      /\ \A k \in Keys : Passed(NextCopy(p.last, p.done), k) => k \in D \/ Missed(k)
  BY <1>1 DEF Inner, PageOK
<1>5. \A k \in Keys : Image(k) /\ (s.led[k] = NoLedger => s.rows["dest"][k] = None) /\ s.led[k] \in NoLedger..Len(s.log)
  BY <1>2 DEF Inner, ImageOK, AbsentOK, TailOK
<1>6. ASSUME NEW k \in D PROVE SnapshotOk(k, p.rows[k], p.through)
  <2>1. k \in Keys
    BY <1>3
  <2>2. CASE s.led[k] = NoLedger
    BY <1>5, <2>1, <2>2 DEF SnapshotOk
  <2>3. CASE s.led[k] # NoLedger
    <3>1. s.led[k] # ByTail /\ s.led[k] \in Int
      BY <1>1, <1>5, <2>1 DEF Image
    <3>2. s.led[k] >= 0
      BY <1>5, <2>1, <2>3, <3>1
    <3>3. Pos(k) = s.led[k]
      <4>1. s.led[k] > 0 \/ s.led[k] = 0
        BY <3>1, <3>2
      <4> QED
        BY <1>1, <4>1 DEF Pos
    <3>4. s.rows["dest"][k] = Was(k, s.led[k]) /\ s.rows["dest"][k] # None
      BY <1>5, <2>1, <2>3, <3>2, <3>3 DEF Image
    <3>5. s.led[k] = p.through \/ p.through > s.led[k]
      BY <1>3, <1>4, <2>1, <3>1
    <3> QED
      BY <1>3, <1>4, <2>1, <2>3, <3>1, <3>4, <3>5 DEF SnapshotOk
  <2> QED
    BY <2>2, <2>3
<1>7. s' = [s EXCEPT !.rows = rows, !.led = led, !.run = run]
  <2>1. s' = [s EXCEPT !.rows["dest"] = [k \in Keys |-> IF k \in DOMAIN p.rows THEN p.rows[k] ELSE @[k]],
                 !.led = [k \in Keys |-> IF k \in DOMAIN p.rows THEN p.through ELSE @[k]],
                 !.run = [at |-> "persist", last |-> p.last, done |-> p.done]]
    BY <1>6 DEF ApplyPage
  <2> QED
    BY <2>1
<1>8. dest \in [Keys -> RowTypes] /\ led \in [Keys -> Int]
  BY <1>1, <1>3
<1>9. \A k \in Keys : /\ k \in D => dest[k] = p.rows[k] /\ led[k] = p.through
                      /\ k \notin D => dest[k] = s.rows["dest"][k] /\ led[k] = s.led[k]
  OBVIOUS
<1>10. run \in RunTypes /\ run.at = "persist" /\ run.last = p.last /\ run.done = p.done
  BY <1>3 DEF RunTypes
<1> HIDE DEF dest, led, run
<1>11. rows \in [Sides -> [Keys -> RowTypes]] /\ rows["source"] = s.rows["source"] /\ rows["dest"] = dest
  BY <1>1, <1>8 DEF Sides
<1> HIDE DEF rows, p
<1>12. [s EXCEPT !.rows = rows, !.led = led, !.run = run] \in States
  BY <1>8, <1>10, <1>11 DEF States
<1>13. /\ s'.rows["source"] = s.rows["source"] /\ s'.rows["dest"] = dest
       /\ s'.log = s.log /\ s'.born = s.born /\ s'.led = led /\ s'.tail = s.tail /\ s'.copy = s.copy
       /\ s'.drain = s.drain /\ s'.abort = s.abort /\ s'.run = run /\ s'.refused = s.refused /\ s'.phase = s.phase
       /\ s'.check = s.check /\ s'.routed = s.routed /\ s'.moved = s.moved /\ s'.cur = s.cur
  <2>1. s'.rows = rows
    BY <1>7 DEF States
  <2> QED
    BY <1>7, <1>11, <2>1 DEF States
<1>14. SourceCur' = SourceCur /\ DestCur' = DestCur /\ Copying'
  BY <1>2, <1>13 DEF SourceCur, DestCur, Copying
<1>15. \A k, n : Was(k, n)' = Was(k, n)
  BY <1>13 DEF Was
<1>16. \A k \in Keys : led[k] \in Int /\ led[k] <= Len(s.log) /\ led[k] >= NoLedger /\ (Missed(k) => Missed(k)')
       /\ (k \in D => Missed(k)')
  <2>1. ASSUME NEW k \in Keys PROVE led[k] \in Int /\ led[k] <= Len(s.log) /\ led[k] >= NoLedger
    BY <1>3, <1>4, <1>5, <1>8, <1>9
  <2>2. ASSUME NEW k \in D PROVE Missed(k)'
    <3>1. led[k] # NoLedger
      BY <1>3, <1>9
    <3> QED
      BY <1>13, <3>1 DEF Missed
  <2>3. ASSUME NEW k \in Keys, k \notin D, Missed(k) PROVE Missed(k)'
    BY <1>9, <1>13, <1>15, <2>3 DEF Missed, Was
  <2> QED
    BY <2>1, <2>2, <2>3
<1>17. PhasesOK' /\ RunsOK' /\ ~s'.refused
  <2>1. InitOK' /\ FencesOK'
    BY <1>1, <1>13, <1>14 DEF Inner, PhasesOK, InitOK, FencesOK
  <2>2. OutcomesOK'
    BY <1>1, <1>2, <1>13, <1>14 DEF Inner, PhasesOK, OutcomesOK
  <2> QED
    BY <1>1, <1>10, <1>13, <2>1, <2>2 DEF Inner, PhasesOK, RunsOK
<1>18. HistoryOK'
  BY <1>0, <1>2, <1>13 DEF Inner, HistoryOK, BornOK
<1>19. TailOK'
  BY <1>0, <1>1, <1>2, <1>13, <1>16 DEF Inner, TailOK
<1>20. ImageOK'
  <2>1. ASSUME NEW k \in Keys PROVE Image(k)'
    <3>1. CASE k \in D
      <4>1. s'.led[k] = p.through /\ s'.rows["dest"][k] = p.rows[k]
        BY <1>9, <1>13, <3>1
      <4>2. PICK n \in Nat : n = p.through
        BY <1>3
      <4>3. n > 0 \/ n = 0
        BY <4>2
      <4>4. s'.led[k] = n /\ s'.tail = 0
        BY <1>1, <1>13, <4>1, <4>2
      <4>5. Pos(k)' = n
        BY <4>3, <4>4 DEF Pos
      <4>6. Was(k, n) = p.rows[k] /\ p.rows[k] # None
        BY <1>4, <3>1, <4>2
      <4>7. Was(k, n)' = p.rows[k]
        BY <1>15, <4>6
      <4>8. s'.rows["dest"][k] = Was(k, Pos(k))'
        BY <4>1, <4>5, <4>7
      <4>9. Was(k, s.led[k])' # None
        BY <4>4, <4>6, <4>7
      <4> QED
        BY <4>4, <4>8, <4>9 DEF Image
    <3>2. CASE k \notin D
      <4>1. s'.led[k] = s.led[k] /\ s'.rows["dest"][k] = s.rows["dest"][k]
        BY <1>9, <1>13, <3>2
      <4>2. Pos(k)' = Pos(k)
        BY <1>13, <4>1 DEF Pos
      <4> QED
        BY <1>5, <1>13, <1>15, <4>1, <4>2 DEF Image, Was
    <3> QED
      BY <3>1, <3>2
  <2> QED
    BY <1>0, <2>1 DEF ImageOK
<1>21. AbsentOK'
  <2>1. ASSUME NEW k \in Keys, s'.led[k] = NoLedger PROVE s'.rows["dest"][k] = None
    BY <1>3, <1>5, <1>9, <1>13, <2>1
  <2> QED
    BY <1>0, <2>1 DEF AbsentOK
<1>22. CursorOK' /\ MissedOK'
  BY <1>0, <1>2, <1>13, <1>16 DEF Inner, CursorOK, MissedOK, Passed
<1>23. PageOK'
  <2>1. \A l, d : NextCopy(l, d)' = NextCopy(l, d)
    BY <1>13 DEF NextCopy
  <2>2. \A k \in Keys : Passed(NextCopy(p.last, p.done), k) => Missed(k)'
    BY <1>4, <1>16
  <2> QED
    BY <1>0, <1>10, <1>13, <2>2 DEF PageOK, Passed, NextCopy
<1>24. MovedOK'
  BY <1>1, <1>2, <1>13 DEF MovedOK
<1>25. DrainOK'
  BY <1>0, <1>10, <1>13 DEF Inner, DrainOK, Drained
<1>26. AbortOK'
  <2>1. s.abort = Here("file", 0)
    BY <1>1 DEF Inner, AbortOK
  <2>2. \A k \in Keys : ~Forgotten(s.abort, k)
    BY <2>1, MixTypes DEF Forgotten, Here
  <2> QED
    BY <1>0, <1>10, <1>13, <2>1, <2>2 DEF AbortOK, Forgotten
<1> QED
  BY <1>7, <1>12, <1>17, <1>18, <1>19, <1>20, <1>21, <1>22, <1>23, <1>24, <1>25, <1>26 DEF Inner

-----------------------------------------------------------------------------
(* The replay.                                                             *)

\* No change of the log is refused: what the destination holds is the row before it,
\* or the row it has copied later.
LEMMA EntryIsOk ==
    ASSUME MixOK, s \in States, Inner, Copying, s.phase \in {"replay", "fenced"}, s.tail < Len(s.log)
    PROVE  LET e == s.log[s.tail + 1] IN
           /\ e \in EntryTypes /\ EntryOk(e, s.tail + 1)
           /\ Was(e.k, s.tail) = e.before /\ Was(e.k, s.tail + 1) = e.after
<1> DEFINE e == s.log[s.tail + 1]
           k == e.k
           t == s.tail
<1>1. /\ t \in Nat /\ Len(s.log) \in Nat /\ s.led \in [Keys -> Int] /\ t + 1 \in 1..Len(s.log)
      /\ \A j \in Keys : s.rows["dest"][j] \in RowTypes /\ s.rows["source"][j] \in RowTypes
  BY DEF States, Sides
<1>2. e \in EntryTypes
  BY <1>1 DEF States
<1>3. k \in Keys /\ e.before \in RowTypes /\ e.after \in RowTypes
  BY <1>2 DEF EntryTypes
<1>4. /\ Image(k) /\ s.led[k] \in NoLedger..Len(s.log) /\ (s.led[k] = NoLedger => s.rows["dest"][k] = None)
      /\ LogOK(s.log) /\ Chained(s.log, s.rows["source"]) /\ BornOK
  BY <1>3 DEF Inner, ImageOK, TailOK, AbsentOK, HistoryOK, Copying
<1>5. Legal(e) /\ (e.before = None => \A j \in 1..t : s.log[j].k # k)
  <2>1. (t + 1) - 1 = t
    BY <1>1
  <2> QED
    BY <1>1, <1>4, <2>1 DEF LogOK
<1>6. Missed(k)
  <2>1. Passed(s.copy, k)
    BY <1>3, MixTypes DEF Inner, CursorOK, Passed
  <2> QED
    BY <1>3, <2>1 DEF Inner, MissedOK
<1>7. Was(k, t) = e.before
  BY <1>1, AtHit DEF Was
<1>8. Was(k, t + 1) = e.after
  BY <1>1, <1>4 DEF Was, Chained
<1>9. e.before = None => \A m \in 0..t : Was(k, m) = None
  BY <1>1, <1>4, AtBeforeBirth DEF Was
<1> HIDE DEF e
<1>10. CASE Covers(k, t + 1)
  <2>1. Pos(k) = s.led[k] /\ s.led[k] >= 0 /\ s.led[k] # NoLedger
    BY <1>1, <1>3, <1>10 DEF Covers, Pos
  <2>2. s.rows["dest"][k] # None
    BY <1>4, <2>1 DEF Image
  <2> QED
    BY <1>2, <1>7, <1>8, <1>10, <2>2 DEF EntryOk, e
<1>11. CASE ~Covers(k, t + 1)
  <2>1. Pos(k) = t /\ s.led[k] <= t
    BY <1>1, <1>3, <1>4, <1>11 DEF Covers, Pos
  <2>2. s.led[k] # NoLedger => s.rows["dest"][k] = e.before
    BY <1>4, <1>7, <2>1 DEF Image
  <2>3. ASSUME e.before = None PROVE s.led[k] = NoLedger
    <3>1. s.led[k] # ByTail
      BY <1>4, <1>5, <2>3 DEF Image
    <3>2. s.led[k] >= 0 => FALSE
      <4>1. s.led[k] >= 0 => s.led[k] \in 0..t
        BY <1>1, <1>3, <2>1
      <4> QED
        BY <1>4, <1>9, <2>3, <4>1 DEF Image
    <3> QED
      BY <1>4, <3>1, <3>2
  <2>4. ASSUME k = TOMB, e.before # None PROVE s.led[k] # NoLedger
    <3>1. k \in s.born
      BY <1>1, <1>4 DEF BornOK, e
    <3> QED
      BY <1>4, <1>6, <1>7, <2>4, <3>1 DEF Missed, BornOK
  <2>5. EntryOk(e, t + 1)
    <3>1. CASE Op(e) = "ins"
      <4>1. e.before = None
        BY <3>1 DEF Op
      <4> QED
        BY <1>4, <1>11, <2>3, <3>1, <4>1 DEF EntryOk
    <3>2. CASE Op(e) = "del"
      <4>1. e.before # None /\ e.after = None
        BY <3>2 DEF Op
      <4>2. e.before.st = "deleting"
        BY <1>5, <4>1 DEF Legal
      <4> QED
        BY <1>4, <1>11, <2>2, <3>2, <4>2 DEF EntryOk
    <3>3. CASE Op(e) = "upd"
      <4>1. e.before # None /\ e.after # None
        BY <3>3 DEF Op
      <4>2. CASE k = TOMB
        BY <1>11, <2>2, <2>4, <3>3, <4>1, <4>2 DEF EntryOk
      <4>3. CASE k # TOMB
        <5>1. <<e.before.st, e.after.st>> \in Transitions
          BY <1>5, <4>1, <4>3 DEF Legal
        <5> QED
          BY <1>4, <1>11, <2>2, <3>3, <4>3, <5>1 DEF EntryOk
      <4> QED
        BY <4>2, <4>3
    <3> QED
      BY <3>1, <3>2, <3>3 DEF Op
  <2> QED
    BY <1>2, <1>7, <1>8, <2>5 DEF e
<1> QED
  BY <1>10, <1>11

\* A change of the log is replayed: the destination holds the row after it, or one copied later.
LEMMA ReplayOf ==
    ASSUME MixOK, mix' = mix, s \in States, Inner, ReplayEntry,
           NEW t \in Nat, t = s.tail, NEW e \in EntryTypes, e = s.log[t + 1], NEW k \in Keys, k = e.k
    PROVE  s' \in States /\ Inner'
<1>0. Keys' = Keys /\ Files' = Files
  BY DEF Keys, Files
<1>1. /\ s.phase \in {"replay", "fenced"} /\ s.run.at = "idle" /\ t < Len(s.log)
      /\ t \in Nat /\ Len(s.log) \in Nat /\ s.led \in [Keys -> Int] /\ s.rows \in [Sides -> [Keys -> RowTypes]]
      /\ "source" \in Sides /\ "dest" \in Sides
  BY DEF ReplayEntry, Step1, States, Sides
<1>2. /\ ~s.check.done /\ ~DestCur.maint /\ Copying /\ SourceCur.outcome = "active" /\ DestCur.outcome = "active"
  BY <1>1 DEF Inner, PhasesOK, OutcomesOK, FencesOK, TailOK, Copying
<1>3. /\ e \in EntryTypes /\ EntryOk(e, t + 1) /\ Was(k, t) = e.before /\ Was(k, t + 1) = e.after
  BY <1>1, <1>2, EntryIsOk
<1>4. k \in Keys /\ e.after \in RowTypes
  BY <1>3 DEF EntryTypes
<1>5. /\ \A j \in Keys : Image(j) /\ s.led[j] \in NoLedger..Len(s.log) /\ (s.led[j] = NoLedger => s.rows["dest"][j] = None)
  BY <1>2 DEF Inner, ImageOK, TailOK, AbsentOK
<1>6. s' = [Applied(e, t + 1) EXCEPT !.tail = t + 1]
  <2>1. s' = [Applied(e, t + 1) EXCEPT !.tail = @ + 1]
    BY <1>3 DEF ReplayEntry
  <2>2. Applied(e, t + 1).tail = t
    BY DEF Applied, States
  <2> QED
    BY <2>1, <2>2
\* The row and the ledger of the key after the change.
<1>7. \E row \in RowTypes, led \in Int :
        /\ s' \in States
        /\ s'.rows["source"] = s.rows["source"] /\ s'.rows["dest"] = [s.rows["dest"] EXCEPT ![k] = row]
        /\ s'.led = [s.led EXCEPT ![k] = led]
        /\ s'.log = s.log /\ s'.born = s.born /\ s'.tail = t + 1 /\ s'.copy = s.copy
        /\ s'.drain = s.drain /\ s'.abort = s.abort /\ s'.run = s.run /\ s'.refused = s.refused /\ s'.phase = s.phase
        /\ s'.check = s.check /\ s'.routed = s.routed /\ s'.moved = s.moved /\ s'.cur = s.cur
        /\ Covers(k, t + 1) => row = s.rows["dest"][k] /\ led = s.led[k]
        /\ ~Covers(k, t + 1) => row = e.after /\ led = IF Op(e) = "del" THEN s.led[k] ELSE LedgerOf(k)
  <2>1. CASE Covers(k, t + 1)
    <3>1. s' = [s EXCEPT !.tail = t + 1]
      BY <1>6, <2>1 DEF Applied
    <3>2. [s EXCEPT !.tail = t + 1] \in States
      <4>1. t + 1 \in Nat
        OBVIOUS
      <4> QED
        BY <4>1 DEF States
    <3>3. /\ s'.rows = s.rows /\ s'.led = s.led
          /\ s'.log = s.log /\ s'.born = s.born /\ s'.tail = t + 1 /\ s'.copy = s.copy
          /\ s'.drain = s.drain /\ s'.abort = s.abort /\ s'.run = s.run /\ s'.refused = s.refused /\ s'.phase = s.phase
          /\ s'.check = s.check /\ s'.routed = s.routed /\ s'.moved = s.moved /\ s'.cur = s.cur
      BY <3>1 DEF States
    <3>4. s.rows["dest"] = [s.rows["dest"] EXCEPT ![k] = s.rows["dest"][k]] /\ s.led = [s.led EXCEPT ![k] = s.led[k]]
      BY <1>1, <1>4
    <3> s.rows["dest"][k] \in RowTypes /\ s.led[k] \in Int
      BY <1>1, <1>4
    <3> WITNESS s.rows["dest"][k] \in RowTypes, s.led[k] \in Int
    <3> QED
      BY <2>1, <3>1, <3>2, <3>3, <3>4
  <2>2. CASE ~Covers(k, t + 1)
    <3> DEFINE l == IF Op(e) = "del" THEN s.led[k] ELSE LedgerOf(k)
               dest == [s.rows["dest"] EXCEPT ![k] = e.after]
               rows == [s.rows EXCEPT !["dest"] = dest]
               led == [s.led EXCEPT ![k] = l]
    <3>1. Applied(e, t + 1) = [s EXCEPT !.rows = rows, !.led = led]
      BY <1>1, <1>4, <2>2 DEF Applied, States
    <3>2. l \in Int
      BY <1>1, <1>4 DEF LedgerOf
    <3> HIDE DEF l
    <3>3. dest \in [Keys -> RowTypes]
      BY <1>1, <1>4
    <3> HIDE DEF dest
    <3>4. rows \in [Sides -> [Keys -> RowTypes]] /\ rows["source"] = s.rows["source"] /\ rows["dest"] = dest
      BY <1>1, <3>3 DEF Sides
    <3>5. led \in [Keys -> Int]
      BY <1>1, <1>4, <3>2
    <3> HIDE DEF rows, led
    <3>6. s' = [s EXCEPT !.rows = rows, !.led = led, !.tail = t + 1]
      BY <1>6, <3>1 DEF States
    <3>7. [s EXCEPT !.rows = rows, !.led = led, !.tail = t + 1] \in States
      <4>1. t + 1 \in Nat
        OBVIOUS
      <4> QED
        BY <3>4, <3>5, <4>1 DEF States
    <3>8. /\ s'.rows = rows /\ s'.led = led
          /\ s'.log = s.log /\ s'.born = s.born /\ s'.tail = t + 1 /\ s'.copy = s.copy
          /\ s'.drain = s.drain /\ s'.abort = s.abort /\ s'.run = s.run /\ s'.refused = s.refused /\ s'.phase = s.phase
          /\ s'.check = s.check /\ s'.routed = s.routed /\ s'.moved = s.moved /\ s'.cur = s.cur
      BY <3>6 DEF States
    <3>9. s'.rows["source"] = s.rows["source"] /\ s'.rows["dest"] = [s.rows["dest"] EXCEPT ![k] = e.after]
      BY <3>4, <3>8 DEF dest
    <3>10. s'.led = [s.led EXCEPT ![k] = l]
      BY <3>8 DEF led
    <3>11. l = IF Op(e) = "del" THEN s.led[k] ELSE LedgerOf(k)
      BY DEF l
    <3> e.after \in RowTypes /\ l \in Int
      BY <1>4, <3>2
    <3> WITNESS e.after \in RowTypes, l \in Int
    <3> QED
      BY <2>2, <3>6, <3>7, <3>8, <3>9, <3>10, <3>11
  <2> QED
    BY <2>1, <2>2
<1>8. PICK row \in RowTypes, led \in Int :
        /\ s' \in States
        /\ s'.rows["source"] = s.rows["source"] /\ s'.rows["dest"] = [s.rows["dest"] EXCEPT ![k] = row]
        /\ s'.led = [s.led EXCEPT ![k] = led]
        /\ s'.log = s.log /\ s'.born = s.born /\ s'.tail = t + 1 /\ s'.copy = s.copy
        /\ s'.drain = s.drain /\ s'.abort = s.abort /\ s'.run = s.run /\ s'.refused = s.refused /\ s'.phase = s.phase
        /\ s'.check = s.check /\ s'.routed = s.routed /\ s'.moved = s.moved /\ s'.cur = s.cur
        /\ Covers(k, t + 1) => row = s.rows["dest"][k] /\ led = s.led[k]
        /\ ~Covers(k, t + 1) => row = e.after /\ led = IF Op(e) = "del" THEN s.led[k] ELSE LedgerOf(k)
  BY <1>7
<1>9. /\ s'.rows["dest"][k] = row /\ s'.led[k] = led
      /\ \A j \in Keys : j # k => s'.rows["dest"][j] = s.rows["dest"][j] /\ s'.led[j] = s.led[j]
  BY <1>1, <1>4, <1>8
<1>10. SourceCur' = SourceCur /\ DestCur' = DestCur /\ Copying'
  BY <1>2, <1>8 DEF SourceCur, DestCur, Copying
<1>11. \A j, n : Was(j, n)' = Was(j, n)
  BY <1>8 DEF Was
<1>12. \A j \in Keys : j # k => Was(j, t + 1) = Was(j, t)
  BY <1>1, AtSkip DEF Was
<1>13. \A j \in Keys : s.led[j] \in Int
  BY <1>1
\* The key of the change.
<1>14. /\ Image(k)' /\ Missed(k)' /\ led \in NoLedger..Len(s.log)
       /\ led = NoLedger => row = None
  <2>1. CASE Covers(k, t + 1)
    <3>1. s.led[k] >= t + 1 /\ led = s.led[k] /\ row = s.rows["dest"][k]
      BY <1>8, <2>1 DEF Covers
    <3>2. PICK n \in Int : n = s.led[k]
      BY <1>4, <1>13
    <3>2a. n > t /\ n # NoLedger /\ n # ByTail /\ n >= 0 /\ (n > t + 1 \/ n = t + 1)
      BY <3>1, <3>2 DEF NoLedger, ByTail
    <3>2b. s'.led[k] = n /\ s'.tail = t + 1
      <4>1. s'.led[k] = led /\ led = n
        BY <1>9, <3>1, <3>2
      <4> QED
        BY <1>8, <4>1
    <3>2c. Pos(k) = n /\ Pos(k)' = n
      BY <3>2, <3>2a, <3>2b DEF Pos
    <3>2d. s.rows["dest"][k] = Was(k, n) /\ Was(k, n) # None
      BY <1>4, <1>5, <3>2, <3>2a, <3>2c DEF Image
    <3>3. Image(k)'
      <4>1. s'.rows["dest"][k] = Was(k, n)' /\ Was(k, n)' # None
        BY <1>9, <1>11, <3>1, <3>2d
      <4>2. s'.rows["dest"][k] = Was(k, Pos(k))'
        BY <3>2c, <4>1
      <4>3. Was(k, s.led[k])' # None
        BY <3>2b, <4>1
      <4> QED
        BY <3>2a, <3>2b, <4>2, <4>3 DEF Image
    <3>4. Missed(k)'
      BY <3>2a, <3>2b DEF Missed
    <3> QED
      BY <1>4, <1>5, <3>1, <3>2, <3>2a, <3>3, <3>4
  <2>2. CASE ~Covers(k, t + 1)
    <3>1. row = e.after /\ led = (IF Op(e) = "del" THEN s.led[k] ELSE LedgerOf(k)) /\ s.led[k] <= t
      BY <1>1, <1>4, <1>8, <1>13, <2>2 DEF Covers
    <3>2. /\ led \in Int /\ led <= t /\ led \in NoLedger..Len(s.log) /\ (led = s.led[k] \/ led = ByTail)
          /\ led = NoLedger => Op(e) = "del" /\ s.led[k] = NoLedger
      <4>1. s.led[k] \in NoLedger..Len(s.log) /\ s.led[k] \in Int
        BY <1>4, <1>5
      <4>2. led = s.led[k] \/ (led = ByTail /\ (Op(e) # "del"))
        BY <3>1 DEF LedgerOf
      <4>3. Op(e) # "del" => led # NoLedger
        BY <3>1, <4>1 DEF LedgerOf, NoLedger, ByTail
      <4>4. ByTail \in Int /\ ByTail <= t /\ ByTail \in NoLedger..Len(s.log) /\ ByTail # NoLedger
        BY <1>1 DEF NoLedger, ByTail
      <4> QED
        BY <3>1, <4>1, <4>2, <4>3, <4>4
    <3>3. Op(e) = "del" => e.after = None
      BY DEF Op
    <3>4. Pos(k)' = t + 1
      BY <1>1, <1>8, <1>9, <3>2 DEF Pos
    <3>5. Was(k, t + 1)' = e.after
      BY <1>3, <1>11
    <3>6. led = ByTail => \E i \in 1..(t + 1) : s.log[i].k = k
      BY <1>1
    <3>7. led >= 0 => Was(k, led)' # None
      BY <1>4, <1>5, <1>11, <3>2 DEF Image
    <3>8. Image(k)'
      <4>1. s'.rows["dest"][k] = Was(k, Pos(k))'
        BY <1>9, <3>1, <3>4, <3>5
      <4>2. s'.led[k] = led /\ s'.tail = t + 1 /\ s'.log = s.log /\ s'.phase \notin {"init", "copy"}
        BY <1>1, <1>8, <1>9
      <4>3. s'.led[k] >= 0 => Was(k, s.led[k])' # None
        BY <3>7, <4>2
      <4> QED
        BY <3>6, <4>1, <4>2, <4>3 DEF Image
    <3>9. Missed(k)'
      BY <1>8, <1>9, <3>2, <3>3, <3>5 DEF Missed
    <3> QED
      BY <3>1, <3>2, <3>3, <3>8, <3>9
  <2> QED
    BY <2>1, <2>2
\* The others.
<1>15. ASSUME NEW j \in Keys, j # k
       PROVE  Image(j)' /\ (Missed(j) => Missed(j)')
  <2>1. s'.led[j] = s.led[j] /\ s'.rows["dest"][j] = s.rows["dest"][j] /\ s.led[j] \in Int
    BY <1>9, <1>13, <1>15
  <2>2. Was(j, Pos(j)') = Was(j, Pos(j))
    <3>1. CASE s.led[j] > t
      <4>1. Pos(j)' = Pos(j)
        BY <1>1, <1>8, <2>1, <3>1 DEF Pos
      <4> QED
        BY <4>1
    <3>2. CASE ~(s.led[j] > t)
      <4>1. Pos(j) = t /\ Pos(j)' = t + 1
        BY <1>1, <1>8, <2>1, <3>2 DEF Pos
      <4> QED
        BY <1>12, <1>15, <4>1
    <3> QED
      BY <3>1, <3>2
  <2>3. Image(j)'
    <3>1. s.led[j] = ByTail => \E i \in 1..(t + 1) : s.log[i].k = j
      BY <1>1, <1>5 DEF Image
    <3>2. s.led[j] # NoLedger => s.rows["dest"][j] = Was(j, Pos(j)')
      BY <1>5, <2>2 DEF Image
    <3>3. s.led[j] >= 0 => Was(j, s.led[j]) # None
      BY <1>5 DEF Image
    <3> QED
      BY <1>1, <1>8, <1>11, <2>1, <3>1, <3>2, <3>3 DEF Image, Was
  <2>4. Missed(j) => Missed(j)'
    BY <1>8, <1>11, <1>12, <1>15, <2>1 DEF Missed, Was
  <2> QED
    BY <2>3, <2>4
<1>16. ImageOK'
  BY <1>0, <1>14, <1>15 DEF ImageOK
<1>17. AbsentOK'
  BY <1>0, <1>4, <1>5, <1>9, <1>14 DEF AbsentOK
<1>18. CursorOK' /\ MissedOK'
  BY <1>0, <1>2, <1>8, <1>14, <1>15 DEF Inner, CursorOK, MissedOK, Passed
<1>19. TailOK'
  BY <1>0, <1>1, <1>2, <1>4, <1>5, <1>8, <1>9, <1>14 DEF TailOK
<1>20. HistoryOK'
  BY <1>0, <1>2, <1>8 DEF Inner, HistoryOK, BornOK
<1>21. PhasesOK' /\ RunsOK' /\ ~s'.refused
  <2>1. InitOK' /\ FencesOK'
    BY <1>1, <1>8, <1>10 DEF Inner, PhasesOK, InitOK, FencesOK
  <2>2. OutcomesOK'
    BY <1>1, <1>2, <1>8, <1>10 DEF Inner, PhasesOK, OutcomesOK
  <2> QED
    BY <1>1, <1>8, <2>1, <2>2 DEF Inner, PhasesOK, RunsOK
<1>22. PageOK'
  BY <1>1, <1>8 DEF PageOK
<1>23. MovedOK'
  BY <1>2, <1>8, <1>10 DEF Inner, MovedOK
<1>24. DrainOK'
  BY <1>0, <1>1, <1>8 DEF Inner, DrainOK, Drained
<1>25. AbortOK'
  <2>1. s.abort = Here("file", 0)
    BY <1>1 DEF Inner, AbortOK
  <2>2. \A j \in Keys : ~Forgotten(s.abort, j)
    BY <2>1, MixTypes DEF Forgotten, Here
  <2> QED
    BY <1>0, <1>1, <1>8, <2>1, <2>2 DEF AbortOK, Forgotten
<1> QED
  BY <1>8, <1>16, <1>17, <1>18, <1>19, <1>20, <1>21, <1>22, <1>23, <1>24, <1>25 DEF Inner

\* Every change of the log is replayed without being refused (applyReshardSystemTailEntry).
LEMMA ReplayEntryStep ==
    ASSUME MixOK, mix' = mix, s \in States, Inner, ReplayEntry
    PROVE  s' \in States /\ Inner'
<1>1. Copying /\ s.phase \in {"replay", "fenced"} /\ s.tail < Len(s.log) /\ s.tail \in Nat
  <2>1. s.phase \in {"replay", "fenced"} /\ s.tail < Len(s.log) /\ s.tail \in Nat /\ Len(s.log) \in Nat
    BY DEF ReplayEntry, States
  <2> QED
    BY <2>1 DEF Inner, PhasesOK, FencesOK, TailOK, Copying
<1>2. s.log[s.tail + 1] \in EntryTypes
  BY <1>1, EntryIsOk
<1>3. s.log[s.tail + 1].k \in Keys
  BY <1>2 DEF EntryTypes
<1> QED
  BY <1>1, <1>2, <1>3, ReplayOf

-----------------------------------------------------------------------------
(* The cleanups.                                                           *)

\* Drain removes every row up to the place it has reached.
LEMMA DrainStep ==
    ASSUME MixOK, mix' = mix, s \in States, Inner, Drain
    PROVE  s' \in States /\ Inner'
<1>0. Keys' = Keys /\ Files' = Files
  BY DEF Keys, Files
<1> DEFINE c == s.drain
           set == Present("source", c)
           page == PageOf(set)
           next == NextKind(c, page, page)
           source == [k \in Keys |-> IF k \in page THEN None ELSE s.rows["source"][k]]
           rows == [s.rows EXCEPT !["source"] = source]
           run == [at |-> "drained", next |-> next]
<1>1. /\ s.phase = "open" /\ s.run.at = "idle" /\ ~c.done /\ c \in Cursors
      /\ s.rows \in [Sides -> [Keys -> RowTypes]] /\ "source" \in Sides /\ "dest" \in Sides
      /\ PhasesOK /\ TailOK /\ CursorOK /\ DrainOK /\ AbortOK /\ ~s.refused
  BY DEF Drain, Step1, States, Sides, Inner
<1>2. s' = [s EXCEPT !.rows = rows, !.run = run]
  <2>1. s' = [s EXCEPT !.rows["source"] = [k \in Keys |-> IF k \in page THEN None ELSE @[k]], !.run = run]
    BY DEF Drain
  <2> QED
    BY <2>1
<1>3. set \in SUBSET Keys
  BY DEF Present, KindKeys, Keys
<1>4. /\ page \in SUBSET Keys /\ \A k \in page, j \in set : j <= k => j \in page
      /\ Cardinality(page) # mix.page \/ page = {} => page = set
  <2>1. page = {} => Cardinality(page) # mix.page
    BY FS_EmptySet, MixTypes
  <2> QED
    BY <1>3, <2>1, PageInfo
<1>5. next \in Cursors
  BY <1>1, <1>4, NextKindTypes
<1>6. source \in [Keys -> RowTypes]
  BY <1>1 DEF RowTypes
<1>7. \A k \in Keys : s.rows["source"][k] = None \/ k \in page => source[k] = None
  OBVIOUS
<1>8. run \in RunTypes /\ run.at = "drained" /\ run.next = next
  BY <1>5 DEF RunTypes
\* What is drained after the page.
<1>9. ASSUME NEW k \in Keys, Drained(next, k) PROVE source[k] = None
  <2>1. SUFFICES s.rows["source"][k] = None \/ k \in page
    BY <1>7
  <2>2. Drained(c, k) => s.rows["source"][k] = None
    BY <1>1 DEF DrainOK
  <2>3. k \in Int /\ k >= 0 /\ (k \in Files \/ k = TOMB) /\ c.after \in Int /\ c.kind \in {"file", "tomb"}
    BY <1>1, MixTypes DEF Cursors, Keys, Files, TOMB
  <2>4. k \in KindKeys(c.kind) /\ s.rows["source"][k] # None => k \in set \/ Drained(c, k)
    <3>1. k <= c.after \/ k > c.after
      BY <2>3
    <3>2. k \in KindKeys(c.kind) /\ k <= c.after => Drained(c, k)
      BY <2>3 DEF KindKeys, Drained
    <3> QED
      BY <3>1, <3>2 DEF Present
  <2>5. CASE page # {} /\ Cardinality(page) = mix.page
    <3> DEFINE last == LastOf(page, c)
    <3>1. last \in page /\ last \in Int
      BY <1>4, <2>3, <2>5, LastInfo
    <3>2. next = [c EXCEPT !.after = last]
      BY <2>5 DEF NextKind
    <3> HIDE DEF last, next
    <3>3. next.after = last /\ next.kind = c.kind /\ next.done = c.done
      BY <1>1, <3>2 DEF Cursors
    <3>4. Drained(c, k) \/ (k \in KindKeys(c.kind) /\ k <= last)
      BY <1>1, <1>9, <2>3, <3>3 DEF Drained, KindKeys
    <3> QED
      BY <1>4, <2>2, <2>4, <3>1, <3>4
  <2>6. CASE ~(page # {} /\ Cardinality(page) = mix.page) /\ c.kind = "file"
    <3>1. next = Here("tomb", -1) /\ page = set
      BY <1>4, <2>6 DEF NextKind
    <3>2. k \in Files
      BY <1>9, <2>3, <3>1 DEF Drained, Here
    <3> QED
      BY <2>2, <2>4, <2>6, <3>1, <3>2 DEF KindKeys
  <2>7. CASE ~(page # {} /\ Cardinality(page) = mix.page) /\ c.kind = "tomb"
    <3>1. page = set
      BY <1>4, <2>7
    <3>2. k \in Files => Drained(c, k)
      BY <2>7 DEF Drained
    <3>3. k = TOMB => k \in KindKeys(c.kind)
      BY <2>7 DEF KindKeys
    <3> QED
      BY <2>2, <2>3, <2>4, <3>1, <3>2, <3>3
  <2> QED
    BY <2>3, <2>5, <2>6, <2>7
<1> HIDE DEF next, page, set, source, run
<1>10. rows \in [Sides -> [Keys -> RowTypes]] /\ rows["source"] = source /\ rows["dest"] = s.rows["dest"]
  BY <1>1, <1>6 DEF Sides
<1> HIDE DEF rows
<1>11. [s EXCEPT !.rows = rows, !.run = run] \in States
  BY <1>8, <1>10 DEF States
<1>12. /\ s'.rows = rows /\ s'.log = s.log /\ s'.born = s.born /\ s'.led = s.led /\ s'.tail = s.tail /\ s'.copy = s.copy
       /\ s'.drain = s.drain /\ s'.abort = s.abort /\ s'.run = run /\ s'.refused = s.refused /\ s'.phase = s.phase
       /\ s'.check = s.check /\ s'.routed = s.routed /\ s'.moved = s.moved /\ s'.cur = s.cur
  BY <1>2 DEF States
<1>13. SourceCur' = SourceCur /\ DestCur' = DestCur /\ DestCur'.maint /\ ~Copying'
  BY <1>1, <1>12 DEF SourceCur, DestCur, Copying, PhasesOK, FencesOK
<1>14. HistoryOK' /\ ImageOK' /\ AbsentOK' /\ MissedOK' /\ MovedOK'
  BY <1>1, <1>12, <1>13 DEF HistoryOK, ImageOK, AbsentOK, MissedOK, MovedOK
<1>15. InitOK' /\ FencesOK'
  BY <1>1, <1>12, <1>13 DEF PhasesOK, InitOK, FencesOK
<1>16. OutcomesOK'
  BY <1>0, <1>1, <1>12, <1>13 DEF PhasesOK, OutcomesOK
<1>17. RunsOK' /\ PageOK' /\ CursorOK' /\ ~s'.refused
  BY <1>1, <1>8, <1>12 DEF RunsOK, PageOK, CursorOK
<1>18. TailOK'
  BY <1>0, <1>1, <1>12 DEF TailOK
<1>19. DrainOK'
  <2>1. \A k \in Keys : Drained(s.drain, k) => source[k] = None
    BY <1>1, <1>7 DEF DrainOK
  <2>2. \A k \in Keys : Drained(run.next, k) => source[k] = None
    BY <1>8, <1>9
  <2>3. /\ s'.phase = "open" /\ s'.drain = s.drain /\ s'.run = run /\ s'.rows["source"] = source
    BY <1>1, <1>10, <1>12
  <2> QED
    BY <1>0, <2>1, <2>2, <2>3 DEF DrainOK, Drained
<1>20. AbortOK'
  BY <1>0, <1>1, <1>8, <1>12 DEF AbortOK, Forgotten
<1> QED
  BY <1>2, <1>11, <1>14, <1>15, <1>16, <1>17, <1>18, <1>19, <1>20 DEF Inner, PhasesOK

\* A step of finish: the ledger shrinks, the source is finished before the destination is.
LEMMA Finishing ==
    ASSUME MixOK, mix' = mix, s \in States, Inner, s.phase = "cut", s.run.at = "idle",
           s'.rows = s.rows, s'.log = s.log, s'.born = s.born, s'.tail = s.tail, s'.copy = s.copy,
           s'.drain = s.drain, s'.abort = s.abort, s'.run = s.run, s'.refused = s.refused,
           s'.check = s.check, s'.routed = s.routed, s'.moved = s.moved,
           SourceCur'.fenced, DestCur'.maint, SourceCur'.outcome = "finished",
           \/ s'.phase = "cut" /\ DestCur'.outcome = "active"
           \/ s'.phase = "done" /\ DestCur'.outcome = "finished",
           s'.led \in [Keys -> Int], \A k \in Keys : s'.led[k] = NoLedger \/ s'.led[k] = s.led[k]
    PROVE  Inner'
<1>0. Keys' = Keys /\ Files' = Files
  BY DEF Keys, Files
<1>1. PhasesOK /\ TailOK /\ CursorOK /\ DrainOK /\ AbortOK /\ ~s.refused
  BY DEF Inner
<1>2. s.drain.done
  BY <1>1 DEF DrainOK
<1>8. ~Copying'
  BY DEF Copying
<1>9. HistoryOK' /\ ImageOK' /\ AbsentOK' /\ MissedOK' /\ MovedOK'
  BY <1>1, <1>8 DEF HistoryOK, ImageOK, AbsentOK, MissedOK, MovedOK
<1>10. InitOK' /\ FencesOK'
  BY <1>1, <1>2, <1>8 DEF PhasesOK, InitOK, FencesOK
<1>11. OutcomesOK'
  <2>1. ~s.abort.done
    BY <1>1 DEF AbortOK, Here
  <2> QED
    BY <1>0, <1>8, <2>1 DEF OutcomesOK
<1>12. RunsOK' /\ PageOK' /\ CursorOK' /\ ~s'.refused
  BY <1>1 DEF RunsOK, PageOK, CursorOK
<1>13. TailOK'
  BY <1>0, <1>1 DEF TailOK
<1>14. DrainOK'
  BY <1>0, <1>1, <1>2 DEF DrainOK, Drained
<1>15. AbortOK'
  BY <1>0, <1>1 DEF AbortOK, Forgotten
<1> QED
  BY <1>9, <1>10, <1>11, <1>12, <1>13, <1>14, <1>15 DEF Inner, PhasesOK

\* Finish finds the source drained, and forgets the ledger page by page.
LEMMA FinishStep ==
    ASSUME MixOK, mix' = mix, s \in States, Inner, Finish
    PROVE  s' \in States /\ Inner'
<1>0. Keys' = Keys /\ Files' = Files
  BY DEF Keys, Files
<1>1. /\ s.phase = "cut" /\ s.run.at = "idle" /\ s.cur \in [Sides -> Bindings] /\ s.led \in [Keys -> Int]
      /\ "source" \in Sides /\ "dest" \in Sides
      /\ PhasesOK /\ TailOK /\ CursorOK /\ DrainOK /\ AbortOK /\ ~s.refused
  BY DEF Finish, Step1, States, Sides, Inner
<1>2. /\ SourceCur.fenced /\ DestCur.maint /\ DestCur.outcome = "active" /\ SourceCur.outcome \in {"active", "finished"}
      /\ s.drain.done
  BY <1>1 DEF PhasesOK, OutcomesOK, FencesOK, DrainOK
<1>3. s.rows["source"] = [k \in Keys |-> None]
  <2>1. \A k \in Keys : s.rows["source"][k] = None
    BY <1>1, <1>2 DEF DrainOK, Drained
  <2>2. s.rows["source"] \in [Keys -> RowTypes]
    BY <1>1 DEF States
  <2> QED
    BY <2>1, <2>2
<1>4. CASE SourceCur.outcome = "active"
  <2> DEFINE new == [s.cur["source"] EXCEPT !.outcome = "finished"]
             cur == [s.cur EXCEPT !["source"] = new]
  <2>1. s' = [s EXCEPT !.cur["source"].outcome = "finished"]
    BY <1>3, <1>4 DEF Finish, SourceCur
  <2>2. s' = [s EXCEPT !.cur = cur]
    BY <1>1, <2>1
  <2>3. new \in Bindings /\ new.outcome = "finished" /\ new.fenced = s.cur["source"].fenced
    BY <1>1 DEF Bindings
  <2> HIDE DEF new
  <2>4. cur["dest"] = s.cur["dest"] /\ cur["source"] = new
    BY <1>1
  <2> cur \in [Sides -> Bindings] /\ s.led \in [Keys -> Int] /\ "cut" \in {"cut", "done"}
    BY <1>1, <2>3
  <2> HIDE DEF cur
  <2>5. s' = [s EXCEPT !.cur = cur, !.led = s.led, !.phase = "cut"]
    BY <1>1, <2>2 DEF States
  <2>6. \A k \in Keys : s.led[k] = NoLedger \/ s.led[k] = s.led[k]
    OBVIOUS
  <2>7. /\ cur["source"].fenced /\ cur["dest"].maint /\ cur["source"].outcome = "finished"
        /\ cur["dest"].outcome = "active"
    BY <1>2, <2>3, <2>4 DEF SourceCur, DestCur
  <2>8. [s EXCEPT !.cur = cur, !.led = s.led, !.phase = "cut"] \in States
    BY <1>1 DEF States, Phases
  <2>9. /\ s'.rows = s.rows /\ s'.log = s.log /\ s'.born = s.born /\ s'.led = s.led /\ s'.tail = s.tail /\ s'.copy = s.copy
        /\ s'.drain = s.drain /\ s'.abort = s.abort /\ s'.run = s.run /\ s'.refused = s.refused /\ s'.phase = "cut"
        /\ s'.check = s.check /\ s'.routed = s.routed /\ s'.moved = s.moved /\ s'.cur = cur
    BY <2>5 DEF States
  <2>10. SourceCur'.fenced /\ DestCur'.maint /\ SourceCur'.outcome = "finished" /\ DestCur'.outcome = "active"
    BY <2>7, <2>9 DEF SourceCur, DestCur
  <2> QED
    BY <1>1, <2>6, <2>5, <2>8, <2>9, <2>10, Finishing
<1>5. CASE SourceCur.outcome = "finished"
  <2> DEFINE page == LedgerPage(Ledgers)
             led == [k \in Keys |-> IF k \in page THEN NoLedger ELSE s.led[k]]
  <2>1. s' = IF Cardinality(page) = mix.page THEN Forget(page)
             ELSE [Forget(page) EXCEPT !.cur["dest"].outcome = "finished", !.phase = "done"]
    BY <1>5 DEF Finish, SourceCur
  <2>2. Forget(page) = [s EXCEPT !.led = led]
    BY DEF Forget
  <2>3. \A k \in Keys : led[k] = NoLedger \/ led[k] = s.led[k]
    OBVIOUS
  <2> led \in [Keys -> Int]
    BY <1>1 DEF NoLedger
  <2> HIDE DEF page, led
  <2>4. CASE Cardinality(page) = mix.page
    <3>1. s' = [s EXCEPT !.cur = s.cur, !.led = led, !.phase = "cut"]
      BY <1>1, <2>1, <2>2, <2>4 DEF States
    <3> s.cur \in [Sides -> Bindings] /\ "cut" \in {"cut", "done"}
      BY <1>1
    <3>2. /\ s.cur["source"].fenced /\ s.cur["dest"].maint /\ s.cur["source"].outcome = "finished"
          /\ s.cur["dest"].outcome = "active"
      BY <1>2, <1>5 DEF SourceCur, DestCur
    <3>3. [s EXCEPT !.cur = s.cur, !.led = led, !.phase = "cut"] \in States
      BY <1>1 DEF States, Phases
    <3>4. /\ s'.rows = s.rows /\ s'.log = s.log /\ s'.born = s.born /\ s'.led = led /\ s'.tail = s.tail /\ s'.copy = s.copy
          /\ s'.drain = s.drain /\ s'.abort = s.abort /\ s'.run = s.run /\ s'.refused = s.refused /\ s'.phase = "cut"
          /\ s'.check = s.check /\ s'.routed = s.routed /\ s'.moved = s.moved /\ s'.cur = s.cur
      BY <3>1 DEF States
    <3>5. SourceCur'.fenced /\ DestCur'.maint /\ SourceCur'.outcome = "finished" /\ DestCur'.outcome = "active"
      BY <3>2, <3>4 DEF SourceCur, DestCur
    <3> QED
      BY <1>1, <2>3, <3>1, <3>3, <3>4, <3>5, Finishing
  <2>5. CASE Cardinality(page) # mix.page
    <3> DEFINE new == [s.cur["dest"] EXCEPT !.outcome = "finished"]
               cur == [s.cur EXCEPT !["dest"] = new]
    <3>1. Forget(page).cur = s.cur
      BY <2>2 DEF States
    <3>2. s' = [Forget(page) EXCEPT !.cur = cur, !.phase = "done"]
      BY <1>1, <2>1, <2>5, <3>1
    <3>3. new \in Bindings /\ new.outcome = "finished" /\ new.maint = s.cur["dest"].maint
      BY <1>1 DEF Bindings
    <3> HIDE DEF new
    <3>4. cur["source"] = s.cur["source"] /\ cur["dest"] = new
      BY <1>1
    <3> cur \in [Sides -> Bindings] /\ "done" \in {"cut", "done"}
      BY <1>1, <3>3
    <3> HIDE DEF cur
    <3>5. s' = [s EXCEPT !.cur = cur, !.led = led, !.phase = "done"]
      BY <2>2, <3>2 DEF States
    <3>6. /\ cur["source"].fenced /\ cur["dest"].maint /\ cur["source"].outcome = "finished"
          /\ cur["dest"].outcome = "finished"
      BY <1>2, <1>5, <3>3, <3>4 DEF SourceCur, DestCur
    <3>7. [s EXCEPT !.cur = cur, !.led = led, !.phase = "done"] \in States
      BY <1>1 DEF States, Phases
    <3>8. /\ s'.rows = s.rows /\ s'.log = s.log /\ s'.born = s.born /\ s'.led = led /\ s'.tail = s.tail /\ s'.copy = s.copy
          /\ s'.drain = s.drain /\ s'.abort = s.abort /\ s'.run = s.run /\ s'.refused = s.refused /\ s'.phase = "done"
          /\ s'.check = s.check /\ s'.routed = s.routed /\ s'.moved = s.moved /\ s'.cur = cur
      BY <3>5 DEF States
    <3>9. SourceCur'.fenced /\ DestCur'.maint /\ SourceCur'.outcome = "finished" /\ DestCur'.outcome = "finished"
      BY <3>6, <3>8 DEF SourceCur, DestCur
    <3> QED
      BY <1>1, <2>3, <3>5, <3>7, <3>8, <3>9, Finishing
  <2> QED
    BY <2>4, <2>5
<1> QED
  BY <1>2, <1>4, <1>5

\* A page of the abort's cleanup: the destination forgets its rows with their ledger.
LEMMA AbortDestStep ==
    ASSUME MixOK, mix' = mix, s \in States, Inner, AbortDest
    PROVE  s' \in States /\ Inner'
<1>0. Keys' = Keys /\ Files' = Files
  BY DEF Keys, Files
<1>1. /\ s.phase = "aborting" /\ s.run.at = "idle" /\ SourceCur.outcome \in {"none", "aborted"} /\ ~s.abort.done
      /\ s.rows \in [Sides -> [Keys -> RowTypes]] /\ "source" \in Sides /\ "dest" \in Sides
      /\ s.cur \in [Sides -> Bindings] /\ s.led \in [Keys -> Int] /\ s.abort \in Cursors
      /\ PhasesOK /\ TailOK /\ CursorOK /\ DrainOK /\ AbortOK /\ AbsentOK /\ ~s.refused
  BY DEF AbortDest, Step1, States, Sides, Inner, SourceCur
<1>2. ~SourceCur.fenced /\ ~DestCur.maint /\ s.routed = "source" /\ ~s.check.done
  BY <1>1 DEF PhasesOK, FencesOK
<1>3. CASE s.cur["dest"].outcome = "none"
  <2> DEFINE next == [s.abort EXCEPT !.done = TRUE]
  <2>1. s' = [s EXCEPT !.abort = next]
    <3>1. s' = [s EXCEPT !.abort.done = TRUE]
      BY <1>3 DEF AbortDest
    <3> QED
      BY <3>1 DEF States
  <2>2. next \in Cursors /\ next.done
    BY <1>1 DEF Cursors
  <2> HIDE DEF next
  <2>3. [s EXCEPT !.abort = next] \in States
    BY <2>2 DEF States
  <2>4. /\ s'.rows = s.rows /\ s'.log = s.log /\ s'.born = s.born /\ s'.led = s.led /\ s'.tail = s.tail /\ s'.copy = s.copy
        /\ s'.drain = s.drain /\ s'.abort = next /\ s'.run = s.run /\ s'.refused = s.refused /\ s'.phase = s.phase
        /\ s'.check = s.check /\ s'.routed = s.routed /\ s'.moved = s.moved /\ s'.cur = s.cur
    BY <2>1 DEF States
  <2>5. /\ PhasesOK' /\ HistoryOK' /\ TailOK' /\ ImageOK' /\ AbsentOK' /\ MovedOK' /\ ~s'.refused
        /\ Copying' = Copying
    BY <1>1, <2>2, <2>4, SameRows
  <2>6. ~Copying
    BY <1>1 DEF Copying
  <2>7. RunsOK' /\ PageOK' /\ CursorOK' /\ MissedOK'
    BY <1>1, <2>4, <2>5, <2>6 DEF RunsOK, PageOK, CursorOK, MissedOK
  <2>8. DrainOK'
    BY <1>0, <1>1, <2>4 DEF DrainOK, Drained
  <2>9. AbortOK'
    <3>1. \A k \in Keys : s.led[k] = NoLedger
      BY <1>1, <1>3 DEF PhasesOK, OutcomesOK, DestCur
    <3> QED
      BY <1>0, <1>1, <2>4, <3>1 DEF AbortOK, Forgotten
  <2> QED
    BY <2>1, <2>3, <2>5, <2>7, <2>8, <2>9 DEF Inner
<1>4. CASE s.cur["dest"].outcome # "none"
  <2> DEFINE set == {k \in Ledgers : AfterAbort(k, s.abort)}
             page == LedgerPage(set)
             led == [k \in Keys |-> IF k \in page THEN NoLedger ELSE s.led[k]]
             dest == [k \in Keys |-> IF k \in page THEN None ELSE s.rows["dest"][k]]
             rows == [s.rows EXCEPT !["dest"] = dest]
             new == [s.cur["dest"] EXCEPT !.outcome = "aborted", !.maint = FALSE]
             cur == [s.cur EXCEPT !["dest"] = new]
             run == [at |-> "aborted", page |-> page]
  <2>1. s' = [s EXCEPT !.led = led, !.rows = rows, !.cur = cur, !.run = run]
    <3>1. s' = [Forget(page) EXCEPT !.rows["dest"] = [k \in Keys |-> IF k \in page THEN None ELSE @[k]],
                                    !.cur["dest"].outcome = "aborted", !.cur["dest"].maint = FALSE, !.run = run]
      BY <1>4 DEF AbortDest, AbortRemoves
    <3> DEFINE f == Forget(page)
    <3>2. f = [s EXCEPT !.led = led]
      BY DEF Forget
    <3>3. f.rows = s.rows /\ f.cur = s.cur
      BY <3>2 DEF States
    <3> HIDE DEF f, page
    <3>4. s' = [f EXCEPT !.rows["dest"] = [k \in Keys |-> IF k \in page THEN None ELSE @[k]],
                         !.cur["dest"].outcome = "aborted", !.cur["dest"].maint = FALSE, !.run = run]
      BY <3>1 DEF f
    <3>5. s' = [f EXCEPT !.rows = rows, !.cur = cur, !.run = run]
      BY <1>1, <3>3, <3>4
    <3> HIDE DEF rows, cur, run, led
    <3> QED
      BY <3>2, <3>5 DEF States
  <2>2. set \in SUBSET Keys /\ \A k \in Keys : s.led[k] # NoLedger => k \in set \/ ~AfterAbort(k, s.abort)
    BY DEF Ledgers
  <2>3. /\ page \subseteq set /\ \A k \in page, j \in set : (j <= k /\ j # TOMB) \/ k = TOMB => j \in page
        /\ Cardinality(page) < mix.page => page = set
    BY <2>2, LedgerPageInfo
  <2>4. page \in SUBSET Keys
    BY <2>2, <2>3
  <2>5. \A k \in Keys : Forgotten(s.abort, k) => s.led[k] = NoLedger
    BY <1>1 DEF AbortOK
  <2>6. \A k \in Keys : s.led[k] # NoLedger => k \in set
    <3> SUFFICES ASSUME NEW k \in Keys, ~AfterAbort(k, s.abort) PROVE Forgotten(s.abort, k)
      BY <2>2, <2>5
    <3>1. k \in Int /\ (k = TOMB \/ k \in Files) /\ s.abort.after \in Int /\ s.abort.kind \in {"file", "tomb"}
      BY <1>1, MixTypes DEF Cursors, Keys, Files
    <3> QED
      BY <3>1 DEF AfterAbort, Forgotten
  <2> HIDE DEF set, page
  <2>7. /\ \A k \in Keys : led[k] = (IF k \in page THEN NoLedger ELSE s.led[k])
        /\ \A k \in Keys : dest[k] = (IF k \in page THEN None ELSE s.rows["dest"][k])
    OBVIOUS
  <2>8. led \in [Keys -> Int] /\ dest \in [Keys -> RowTypes]
    <3>1. None \in RowTypes /\ NoLedger \in Int
      BY DEF RowTypes
    <3> QED
      BY <1>1, <3>1
  <2>9. new \in Bindings /\ new.outcome = "aborted" /\ ~new.maint
    BY <1>1 DEF Bindings
  <2>10. run \in RunTypes /\ run.at = "aborted" /\ run.page = page
    BY <2>4 DEF RunTypes
  <2> HIDE DEF led, dest, new, run
  <2>11. /\ rows \in [Sides -> [Keys -> RowTypes]] /\ rows["source"] = s.rows["source"] /\ rows["dest"] = dest
         /\ cur \in [Sides -> Bindings] /\ cur["source"] = s.cur["source"] /\ cur["dest"] = new
    BY <1>1, <2>8, <2>9 DEF Sides
  <2> HIDE DEF rows, cur
  <2>12. [s EXCEPT !.led = led, !.rows = rows, !.cur = cur, !.run = run] \in States
    BY <2>8, <2>10, <2>11 DEF States
  <2>13. /\ s'.rows = rows /\ s'.log = s.log /\ s'.born = s.born /\ s'.led = led /\ s'.tail = s.tail /\ s'.copy = s.copy
         /\ s'.drain = s.drain /\ s'.abort = s.abort /\ s'.run = run /\ s'.refused = s.refused /\ s'.phase = s.phase
         /\ s'.check = s.check /\ s'.routed = s.routed /\ s'.moved = s.moved /\ s'.cur = cur
    BY <2>1 DEF States
  <2>14. SourceCur' = SourceCur /\ DestCur'.outcome = "aborted" /\ ~DestCur'.maint /\ ~Copying'
    BY <1>1, <2>9, <2>11, <2>13 DEF SourceCur, DestCur, Copying
  <2>15. HistoryOK' /\ ImageOK' /\ MissedOK' /\ MovedOK'
    BY <1>1, <2>13, <2>14 DEF HistoryOK, ImageOK, MissedOK, MovedOK
  <2>16. AbsentOK'
    <3>1. ASSUME NEW k \in Keys, led[k] = NoLedger PROVE dest[k] = None
      BY <1>1, <1>2, <2>7, <3>1 DEF AbsentOK
    <3> QED
      BY <1>0, <2>11, <2>13, <3>1 DEF AbsentOK
  <2>17. InitOK' /\ FencesOK'
    BY <1>1, <1>2, <2>13, <2>14 DEF InitOK, FencesOK
  <2>18. OutcomesOK'
    BY <1>0, <1>1, <2>13, <2>14 DEF OutcomesOK
  <2>19. RunsOK' /\ PageOK' /\ CursorOK' /\ ~s'.refused
    BY <1>1, <2>10, <2>13, <2>14 DEF RunsOK, PageOK, CursorOK
  <2>20. TailOK'
    <3>1. Len(s.log) \in Nat
      BY DEF States
    <3>2. \A k \in Keys : led[k] \in NoLedger..Len(s.log)
      BY <1>1, <2>7, <3>1 DEF TailOK
    <3> QED
      BY <1>0, <1>1, <2>13, <3>2 DEF TailOK
  <2>21. DrainOK'
    BY <1>0, <1>1, <2>10, <2>11, <2>13 DEF DrainOK, Drained
  <2>22. \A k \in Keys : s.led[k] = NoLedger \/ k \in page => led[k] = NoLedger
    BY <2>7
  <2>23. Cardinality(page) < mix.page \/ TOMB \in page => \A k \in Keys : led[k] = NoLedger
    <3>1. Cardinality(page) < mix.page \/ TOMB \in page => set \subseteq page
      BY <2>3
    <3> QED
      BY <2>6, <2>22, <3>1
  <2>24. ASSUME NEW k \in Files, page # {}, k <= LastOf(page, s.abort) PROVE led[k] = NoLedger
    <3>1. k \in Keys /\ k # TOMB
      BY MixTypes DEF Keys, Files
    <3>2. LastOf(page, s.abort) \in page
      BY <1>1, <2>4, <2>24, LastInfo DEF Cursors
    <3>3. k \in set => k \in page
      BY <2>3, <2>24, <3>1, <3>2
    <3> QED
      BY <2>6, <2>22, <3>1, <3>3
  <2>25. AbortOK'
    <3>1. \A k \in Keys : Forgotten(s.abort, k) => led[k] = NoLedger
      BY <2>5, <2>22
    <3>2. LastOf(page, s.abort)' = LastOf(page, s.abort)' /\ s'.abort = s.abort /\ s'.led = led /\ s'.run = run
          /\ s'.phase = "aborting"
      BY <1>1, <2>13
    <3>3. /\ Cardinality(run.page) < mix.page \/ TOMB \in run.page => \A k \in Keys : led[k] = NoLedger
          /\ \A k \in Files : run.page # {} /\ k <= LastOf(run.page, s.abort) => led[k] = NoLedger
      BY <2>10, <2>23, <2>24
    <3> QED
      BY <1>0, <3>1, <3>2, <3>3 DEF AbortOK, Forgotten, LastOf
  <2> QED
    BY <2>1, <2>12, <2>15, <2>16, <2>17, <2>18, <2>19, <2>20, <2>21, <2>25 DEF Inner, PhasesOK
<1> QED
  BY <1>3, <1>4

-----------------------------------------------------------------------------
(* The theorem.                                                            *)

\* Before the movement begins the source owns the range and nothing is copied.
LEMMA InitInv ==
    ASSUME MixesOK, Init
    PROVE  IInv
<1>1. MixOK
  BY DEF MixOK, MixesOK, Init
<1>2. PICK f \in [Files -> {None, Row("pending", 0), Row("attached", 0)}] :
        s = [rows |-> [side \in Sides |-> [k \in Keys |-> IF side = "source" /\ k # TOMB THEN f[k] ELSE None]],
             born |-> {k \in Files : f[k] # None}, log |-> <<>>, led |-> [k \in Keys |-> NoLedger],
             cur |-> [side \in Sides |-> Unbound], routed |-> "source", barrier |-> FALSE,
             phase |-> "init", copy |-> Here("tomb", -1), tail |-> 0, check |-> Here("file", 0),
             drain |-> Here("file", 0), abort |-> Here("file", 0),
             run |-> Idle, ops |-> 0, faults |-> 0, refused |-> FALSE, moved |-> [k \in Keys |-> None]]
  BY DEF Init
<1>3. \A r \in {None, Row("pending", 0), Row("attached", 0)} : r \in RowTypes
  BY DEF RowTypes, Row
<1>4. /\ "source" \in Sides /\ "dest" \in Sides /\ \A k \in Keys : k # TOMB => k \in Files
  BY DEF Sides, Keys
<1> DEFINE source == [k \in Keys |-> IF k # TOMB THEN f[k] ELSE None]
           dest == [k \in Keys |-> None]
<1>5. source \in [Keys -> RowTypes] /\ dest \in [Keys -> RowTypes] /\ source[TOMB] = None
  <2>1. TOMB \in Keys
    BY DEF Keys
  <2> QED
    BY <1>3, <1>4, <2>1
<1>6. s.rows = [side \in Sides |-> IF side = "source" THEN source ELSE dest]
  <2>1. s.rows = [side \in Sides |-> [k \in Keys |-> IF side = "source" /\ k # TOMB THEN f[k] ELSE None]]
    BY <1>2
  <2> QED
    BY <2>1 DEF Sides
<1>7. s.rows["source"] = source /\ s.rows["dest"] = dest
  BY <1>4, <1>6
<1>8. \A k \in Keys : s.rows["source"][k] # None => k \in Files /\ f[k] # None
  BY <1>4, <1>5, <1>7
<1> HIDE DEF source, dest
<1>9. s.rows \in [Sides -> [Keys -> RowTypes]]
  BY <1>5, <1>6
<1>10. /\ s.log = <<>> /\ s.led = [k \in Keys |-> NoLedger] /\ s.cur = [side \in Sides |-> Unbound]
       /\ s.routed = "source" /\ ~s.barrier /\ s.phase = "init" /\ s.copy = Here("tomb", -1) /\ s.tail = 0
       /\ s.check = Here("file", 0) /\ s.drain = Here("file", 0) /\ s.abort = Here("file", 0) /\ s.run = Idle
       /\ ~s.refused /\ s.born = {k \in Files : f[k] # None} /\ s.moved = dest
  BY <1>2 DEF dest
<1>11. SourceCur = Unbound /\ DestCur = Unbound /\ Len(s.log) = 0 /\ \A k \in Keys : s.led[k] = NoLedger
  BY <1>4, <1>10 DEF SourceCur, DestCur
<1>12. s \in States
  <2>1. /\ s.born \in SUBSET Keys /\ s.log \in Seq(EntryTypes) /\ s.led \in [Keys -> Int] /\ s.moved \in [Keys -> RowTypes]
    BY <1>5, <1>10 DEF Keys
  <2>2. s.cur \in [Sides -> Bindings]
    BY <1>10 DEF Unbound, Bindings
  <2>3. Here("tomb", -1) \in Cursors /\ Here("file", 0) \in Cursors
    BY DEF Here, Cursors
  <2>4. Idle \in RunTypes /\ "init" \in Phases /\ "source" \in Sides \cup {"none"}
    BY DEF RunTypes, Phases, Sides
  <2>5. s = [rows |-> s.rows, born |-> s.born, log |-> s.log, led |-> s.led, cur |-> s.cur, routed |-> s.routed,
             barrier |-> s.barrier, phase |-> s.phase, copy |-> s.copy, tail |-> s.tail, check |-> s.check,
             drain |-> s.drain, abort |-> s.abort, run |-> s.run, ops |-> s.ops, faults |-> s.faults,
             refused |-> s.refused, moved |-> s.moved]
    BY <1>2
  <2>8. s.ops = 0 /\ s.faults = 0 /\ s.refused = FALSE /\ s.barrier = FALSE
    BY <1>2
  <2>6. s.ops \in Nat /\ s.faults \in Nat /\ s.refused \in BOOLEAN /\ s.barrier \in BOOLEAN
    <3>1. s.ops \in Nat /\ s.faults \in Nat
      BY <2>8
    <3>2. s.refused \in BOOLEAN /\ s.barrier \in BOOLEAN
      BY <2>8, Zenon
    <3> QED
      BY <3>1, <3>2
  <2>9. s.tail \in Nat
    BY <1>10
  <2>7. /\ s.copy \in Cursors /\ s.check \in Cursors /\ s.drain \in Cursors /\ s.abort \in Cursors /\ s.run \in RunTypes
        /\ s.phase \in Phases /\ s.routed \in Sides \cup {"none"}
    BY <1>10, <2>3, <2>4
  <2> QED
    BY <1>9, <2>1, <2>2, <2>5, <2>6, <2>7, <2>9 DEF States
<1>13. PhasesOK /\ RunsOK
  BY <1>10, <1>11 DEF PhasesOK, InitOK, OutcomesOK, FencesOK, RunsOK, Unbound, Idle, Here
<1>14. HistoryOK
  <2>1. BornOK
    <3>1. TOMB \notin Files
      BY DEF Files
    <3> QED
      BY <1>8, <1>10, <1>11, <3>1 DEF BornOK
  <2>2. LogOK(s.log) /\ Chained(s.log, s.rows["source"])
    BY <1>11 DEF LogOK, Chained
  <2> QED
    BY <2>1, <2>2 DEF HistoryOK
<1>15. TailOK
  BY <1>10, <1>11 DEF TailOK, Here
<1>16. ImageOK /\ AbsentOK
  <2>1. \A k \in Keys : s.rows["dest"][k] = None
    BY <1>7 DEF dest
  <2> QED
    BY <1>11, <2>1 DEF ImageOK, Image, AbsentOK
<1>17. CursorOK /\ MissedOK
  <2>1. \A k \in Keys : ~Passed(s.copy, k)
    BY <1>1, <1>10, MixTypes DEF Passed, Here
  <2> QED
    BY <1>10, <2>1 DEF CursorOK, MissedOK, Here
<1>18. PageOK /\ MovedOK
  BY <1>10, <1>11 DEF PageOK, MovedOK, Idle, Here
<1>19. DrainOK
  <2>1. \A k \in Keys : Drained(s.drain, k) => FALSE
    BY <1>1, <1>10, MixTypes DEF Drained, Here, Files
  <2> QED
    BY <1>10, <2>1 DEF DrainOK, Idle
<1>20. AbortOK
  BY <1>10, <1>11 DEF AbortOK, Idle
<1> QED
  BY <1>1, <1>10, <1>12, <1>13, <1>14, <1>15, <1>16, <1>17, <1>18, <1>19, <1>20 DEF IInv, Inner

\* The shapes do not depend on what a step changes.
LEMMA SameShapes ==
    ASSUME mix' = mix
    PROVE  Keys' = Keys /\ Files' = Files /\ States' = States
<1>1. Keys' = Keys /\ Files' = Files
  BY DEF Keys, Files
<1>2. EntryTypes' = EntryTypes
  BY <1>1 DEF EntryTypes, RowTypes
<1>3. Images' = Images
  BY <1>1 DEF Images, RowTypes
<1>4. RunTypes' = RunTypes
  BY <1>1, <1>3 DEF RunTypes, Pages, Cursors, Idle
<1> QED
  BY <1>1, <1>2, <1>4 DEF States, RowTypes, Bindings, Cursors, Phases

\* Every step of the movement, of the files' activity and of a crash.
LEMMA NextKeepsInv ==
    ASSUME IInv, [Next]_<<mix, s>>
    PROVE  IInv'
<1>1. MixOK /\ s \in States /\ Inner
  BY DEF IInv
<1>2. CASE UNCHANGED <<mix, s>>
  <2>1. mix' = mix /\ s' = s
    BY <1>2
  <2>2. Keys' = Keys /\ Files' = Files /\ States' = States
    BY <2>1, SameShapes
  <2>3. /\ s'.rows = s.rows /\ s'.log = s.log /\ s'.born = s.born /\ s'.led = s.led /\ s'.tail = s.tail /\ s'.copy = s.copy
        /\ s'.drain = s.drain /\ s'.abort = s.abort /\ s'.run = s.run /\ s'.refused = s.refused /\ s'.phase = s.phase
        /\ s'.check = s.check /\ s'.routed = s.routed /\ s'.moved = s.moved /\ s'.cur = s.cur
    BY <2>1
  <2>4. /\ PhasesOK' /\ HistoryOK' /\ TailOK' /\ ImageOK' /\ AbsentOK' /\ MovedOK' /\ ~s'.refused
        /\ Copying' = Copying /\ \A k \in Keys : Missed(k)' = Missed(k)
        /\ \A k, n : Was(k, n)' = Was(k, n)
    BY <1>1, <2>1, <2>3, SameRows
  <2>5. RunsOK' /\ DrainOK'
    BY <1>1, <2>2, <2>3 DEF Inner, RunsOK, SourceCur, DrainOK, Drained
  <2>6. CursorOK' /\ MissedOK'
    BY <1>1, <2>2, <2>3, <2>4 DEF Inner, CursorOK, MissedOK, Passed
  <2>7. PageOK'
    BY <1>1, <2>2, <2>3, <2>4 DEF Inner, PageOK, Passed, NextCopy, Was
  <2>8. AbortOK'
    BY <1>1, <2>1, <2>2, <2>3 DEF Inner, AbortOK, Forgotten, LastOf
  <2>9. MixOK'
    BY <1>1, <2>1 DEF MixOK
  <2> QED
    BY <2>2, <2>1, <2>4, <2>5, <2>6, <2>7, <2>8, <2>9, <1>1 DEF IInv, Inner
<1>3. CASE Next
  <2>1. mix' = mix /\ Step
    BY <1>3 DEF Next
  <2>2. ASSUME NEW side \in Sides, Activity(side) PROVE s' \in States /\ Inner'
    BY <1>1, <2>1, <2>2, SourceActivity, DestActivity DEF Sides
  <2>3. ASSUME Drive PROVE s' \in States /\ Inner'
    BY <1>1, <2>1, <2>3, BeginStep, ReadPageStep, ApplyPageStep, PersistCopyStep, PhaseStep, ReplayEntryStep, FenceStep,
       ValidateStep, CutoverStep, StopSourceStep, DrainStep, PersistDrainStep, FinishStep, AbortDestStep,
       PersistAbortStep DEF Drive
  <2>4. ASSUME StartAbort \/ Crash PROVE s' \in States /\ Inner'
    BY <1>1, <2>1, <2>4, PhaseStep, CrashStep
  <2>5. s' \in States /\ Inner'
    BY <2>1, <2>2, <2>3, <2>4 DEF Step
  <2>6. States' = States
    BY <2>1, SameShapes
  <2>7. MixOK'
    BY <1>1, <2>1 DEF MixOK
  <2> QED
    BY <2>5, <2>6, <2>7 DEF IInv
<1> QED
  BY <1>2, <1>3

\* What the invariant says of the movement.
LEMMA InvIsSafe ==
    ASSUME IInv
    PROVE  Safe
<1>1. MixOK /\ s \in States /\ Inner
  BY DEF IInv
<1>2. /\ PhasesOK /\ TailOK /\ AbsentOK /\ MovedOK /\ AbortOK /\ ~s.refused
  BY <1>1 DEF Inner
<1>3. /\ s.tail \in Nat /\ Len(s.log) \in Nat /\ s.rows \in [Sides -> [Keys -> RowTypes]]
      /\ s.routed \in Sides \cup {"none"} /\ s.cur \in [Sides -> Bindings] /\ s.moved \in [Keys -> RowTypes]
      /\ "source" \in Sides /\ "dest" \in Sides
  BY <1>1 DEF States, Sides
<1>4. TypeOK
  <2>1. s.tail \in 0..Len(s.log)
    BY <1>2, <1>3 DEF TailOK
  <2>2. \A r \in RowTypes : r.st \in {"none", "pending", "ready", "attached", "deleting", "dead"}
    BY DEF RowTypes, None
  <2>3. \A k \in Keys : s.led[k] \in -2..Len(s.log)
    BY <1>2 DEF TailOK
  <2> QED
    BY <1>1, <1>3, <2>1, <2>2, <2>3 DEF TypeOK, MixOK
<1>5. NeverRefused
  BY <1>2 DEF NeverRefused
<1>6. OneOwner
  <2> SUFFICES ASSUME Owns("source"), Owns("dest") PROVE FALSE
    BY DEF OneOwner
  <2>1. ~DestCur.maint
    BY <1>1, <1>2, OwningSource
  <2> QED
    BY <2>1 DEF Owns, DestCur
<1>7. TakeoverIsExact
  <2>1. s.phase = "fenced" /\ s.routed = "dest" /\ ~s.cur["dest"].maint => s.rows["dest"] = s.moved
    BY <1>2 DEF PhasesOK, FencesOK, MovedOK, Copying, DestCur
  <2>2. ASSUME NEW k \in Keys, s.cur["source"].fenced, s.rows["source"][k] # s.moved[k] PROVE s.cur["dest"].maint
    <3>1. s.phase \in {"fenced", "open", "cut", "done"}
      BY <1>1, <1>2, <2>2 DEF PhasesOK, FencesOK, SourceCur, States, Phases
    <3>2. s.phase # "fenced"
      BY <1>2, <2>2 DEF MovedOK, SourceCur
    <3> QED
      BY <1>2, <3>1, <3>2 DEF PhasesOK, FencesOK, DestCur
  <2> QED
    BY <2>1, <2>2 DEF TakeoverIsExact
<1>8. AbortLeavesNothing
  <2> SUFFICES ASSUME s.phase = "aborted"
               PROVE  Owns("source") /\ Ledgers = {} /\ \A k \in Keys : s.rows["dest"][k] = None
    BY DEF AbortLeavesNothing
  <2>1. s.abort.done /\ SourceCur.outcome \in {"none", "aborted"} /\ ~DestCur.maint
    BY <1>2 DEF PhasesOK, OutcomesOK, FencesOK
  <2>2. \A k \in Keys : s.led[k] = NoLedger
    BY <1>2, <2>1 DEF AbortOK, Forgotten
  <2>3. \A k \in Keys : s.rows["dest"][k] = None
    BY <1>2, <2>1, <2>2 DEF AbsentOK
  <2> QED
    BY <2>1, <2>2, <2>3 DEF Owns, SourceCur, Ledgers
<1> QED
  BY <1>4, <1>5, <1>6, <1>7, <1>8 DEF Safe

=============================================================================
