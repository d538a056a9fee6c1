----------------------------- MODULE ReshardData -----------------------------
(***************************************************************************)
(* The data a range movement carries from one Cdb to another: the rows of  *)
(* the moved vshard range and the mutations that write them.               *)
(*                                                                         *)
(* A mutation stands for one client mutation id (principal_id, mut_id).    *)
(* It writes one row of the range: it upserts it, or deletes it when it is *)
(* in Deletes.  A row's content is the mutation that wrote it last, so two *)
(* stores are equal exactly when they hold the same images.                *)
(***************************************************************************)
EXTENDS Integers, Sequences, FiniteSets

CONSTANTS
    NKeys,    \* rows of the range, in the rowid order the bulk copy follows
    Muts,     \* mutation ids clients submit (and may resubmit)
    MutKey,   \* the row each mutation writes
    Deletes,  \* the mutations that delete their row
    NoRow     \* the image of an absent row

ASSUME DataAssumption ==
    /\ NKeys \in Nat \ {0}
    /\ MutKey \in [Muts -> 1..NKeys]
    /\ Deletes \subseteq Muts
    /\ NoRow \notin Muts

Keys   == 1..NKeys
Images == Muts \cup {NoRow}
Rows   == [Keys -> Images]

NoRows == [k \in Keys |-> NoRow]

\* The image mutation m leaves in its row.
Image(m) == IF m \in Deletes THEN NoRow ELSE m

\* The rows after the row of mutation m is written (upsert or delete).
Write(rows, m) == [rows EXCEPT ![MutKey[m]] = Image(m)]

\* The rows after the captured entries ents are applied in LSN order: for
\* every row the last entry that names it decides.
Replay(rows, ents) ==
    [k \in Keys |->
        LET hits == {i \in DOMAIN ents : MutKey[ents[i]] = k}
        IN IF hits = {} THEN rows[k]
           ELSE Image(ents[CHOOSE i \in hits : \A j \in hits : j <= i])]

\* A batch of consecutive log entries: entry i has LSN lo + i.
Batch(lo, ents) == [lo |-> lo, ents |-> ents]
BatchLast(b)    == b.lo + Len(b.ents)
Batches         == [lo : Nat, ents : Seq(Muts)]

\* The part of a batch with LSNs above n (entries at or below n are skipped).
BatchAbove(b, n) ==
    IF n <= b.lo THEN b.ents ELSE SubSeq(b.ents, n - b.lo + 1, Len(b.ents))

=============================================================================
