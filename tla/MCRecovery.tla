----------------------------- MODULE MCRecovery -----------------------------
EXTENDS Recovery

Row(s)    == [shard |-> s, kind |-> "row", n |-> 1]
Unfile(s) == [shard |-> s, kind |-> "unfile", n |-> 1]
Vec(s, n) == [shard |-> s, kind |-> "vec", n |-> n]

Mix(shards, writes, legacy, points, ops, flts, topos, turns) ==
    [shards |-> shards, writes |-> writes, legacy |-> legacy, points |-> points, ops |-> ops,
     faults |-> flts, topos |-> topos, turns |-> turns]

\* Failures at will; a second restore and a changed topology; vectors; files;
\* two overlapping turns; two points.
MCMixes == {
    Mix(2, {Row(1), Row(2)}, {}, 1, 1, 1, 0, 1),
    Mix(2, {Row(1)}, {}, 1, 1, 2, 0, 1),
    Mix(2, {Row(1)}, {}, 1, 2, 1, 1, 1),
    Mix(1, {Vec(1, 1), Vec(1, 2)}, {}, 1, 1, 1, 0, 1),
    Mix(2, {Unfile(2)}, {1, 2}, 1, 1, 1, 0, 1),
    Mix(1, {Row(1)}, {}, 1, 1, 1, 0, 2),
    Mix(2, {Row(1)}, {}, 2, 2, 0, 0, 1)}
=============================================================================
