----------------------------- MODULE RoutingMap ------------------------------
(***************************************************************************)
(* What the Catalog's routing promises its readers: every vshard has one   *)
(* owner, an owner changes only by moving one contiguous range from one    *)
(* shard to another, and every such change is one routing generation.      *)
(***************************************************************************)
EXTENDS Integers

CONSTANTS
    NVshards,  \* VSHARD_COUNT
    Shards,
    Shard0     \* the shard that owns every vshard at first (ShardDO_0)

VARIABLES
    owner,  \* the shard each vshard routes to
    gen     \* the routing generation (schema epoch) of the map

Vshards == 0..(NVshards - 1)

Init ==
    /\ owner = [v \in Vshards |-> Shard0]
    /\ gen = 1

\* The range lo..hi moves from shard s to shard t.
Move(lo, hi, s, t) ==
    /\ lo <= hi
    /\ s # t
    /\ \A v \in lo..hi : owner[v] = s
    /\ owner' = [v \in Vshards |-> IF v \in lo..hi THEN t ELSE owner[v]]
    /\ gen' = gen + 1

Next == \E lo, hi \in Vshards : \E s, t \in Shards : Move(lo, hi, s, t)

Spec == Init /\ [][Next]_<<owner, gen>>

=============================================================================
