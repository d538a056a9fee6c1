----------------------------- MODULE MCResources -----------------------------
(***************************************************************************)
(* Small instances of the components of Resources.  A run takes the union  *)
(* of their mixes.                                                         *)
(***************************************************************************)
EXTENDS Resources

Vec(ops, faults, purge, v1, busy, search, page) ==
  [part |-> "vectors", ops |-> ops, faults |-> faults, purge |-> purge, v1 |-> v1, busy |-> busy,
   search |-> search, page |-> page, ledger |-> ops, linger |-> FALSE, polls |-> 1, turns |-> 2]
Res(vecs, kinds, ops, faults, abort) ==
  [part |-> "vector_reshard", vecs |-> vecs, vers |-> 2, kinds |-> kinds, ops |-> ops, faults |-> faults,
   abort |-> abort, churn |-> FALSE, page |-> 1, clean |-> 3]
Fil(names, contents, rows, uploads, time, muts, moves, reads, faults, purge) ==
  [part |-> "files", names |-> names, contents |-> contents, rows |-> rows, uploads |-> uploads, time |-> time,
   ttl |-> 1, pending |-> 1, batch |-> 1, purge |-> purge, muts |-> muts, moves |-> moves, reads |-> reads,
   faults |-> faults]
Fre(files, ops, faults, abort) ==
  [part |-> "file_reshard", files |-> files, ops |-> ops, faults |-> faults, abort |-> abort, reuse |-> FALSE, page |-> 1]
Org(orgs, moves, faults, client) ==
  [part |-> "org_deletion", orgs |-> orgs, moves |-> moves, faults |-> faults, client |-> client, legacy |-> TRUE]

Rus(subs, muts, versions, faults, trouble, cancel, refresh, close) ==
  [part |-> "rust_client", subs |-> subs, muts |-> muts, versions |-> versions, faults |-> faults, trouble |-> trouble,
   cancel |-> cancel, refresh |-> refresh, close |-> close, queue |-> 2, cap |-> 1, pending |-> 1]

Web(subs, muts, versions, tokens, faults, trouble, cancel, close) ==
  [part |-> "web_client", subs |-> subs, muts |-> muts, versions |-> versions, tokens |-> tokens, faults |-> faults,
   trouble |-> trouble, cancel |-> cancel, close |-> close]

Sch(shards, ops, drivers, vers, legacy, hands, jump, reqs, faults) ==
  [part |-> "schema", shards |-> shards, ops |-> ops, drivers |-> drivers, names |-> drivers, vers |-> vers, legacy |-> legacy,
   conc |-> 1, tries |-> 2, hands |-> hands, jump |-> jump, early |-> FALSE, reqs |-> reqs, faults |-> faults]

Hea(rows, moves, high, grows, others, faults) ==
  [part |-> "headroom", rows |-> rows, moves |-> moves, high |-> high, grows |-> grows, others |-> others, faults |-> faults,
   foreign |-> FALSE, overlap |-> FALSE]

MCNone == {}
MCVectors == {Vec(2, 1, FALSE, FALSE, TRUE, FALSE, 1), Vec(3, 0, FALSE, FALSE, TRUE, FALSE, 1), Vec(2, 1, TRUE, FALSE, FALSE, FALSE, 2),
              Vec(2, 1, TRUE, TRUE, FALSE, FALSE, 1), Vec(3, 0, FALSE, FALSE, FALSE, TRUE, 2)}
MCVectorEnds == {Vec(1, 1, FALSE, FALSE, TRUE, FALSE, 1), Vec(2, 0, FALSE, FALSE, TRUE, FALSE, 1)}
MCVectorReshard == {Res(2, {"absent", "ready"}, 2, 0, FALSE), Res(1, {"pending", "ready"}, 1, 1, TRUE), Res(1, {"pending", "ready"}, 2, 1, FALSE),
                    Res(1, {"pending", "ready"}, 3, 0, FALSE)}
MCVectorReshardEnds == {Res(1, {"pending"}, 0, 1, FALSE), Res(1, {"pending"}, 1, 0, FALSE), Res(1, {"ready"}, 0, 0, TRUE)}
MCFiles == {Fil(2, 1, 1, 2, 2, 1, 0, FALSE, 0, TRUE), Fil(1, 1, 1, 2, 1, 2, 1, TRUE, 0, FALSE),
            Fil(1, 2, 2, 2, 2, 1, 0, FALSE, 1, FALSE),
            Fil(1, 1, 1, 2, 1, 3, 0, FALSE, 0, FALSE)}
MCFileEnds == {Fil(1, 1, 1, 1, 2, 1, 0, FALSE, 1, TRUE), Fil(2, 1, 1, 1, 2, 0, 0, FALSE, 0, TRUE)}
MCFileReshard == {Fre(1, 3, 1, TRUE), Fre(2, 2, 1, TRUE)}
MCFileReshardEnds == {Fre(1, 1, 1, TRUE)}
MCOrgDeletion == {Org(2, 2, 1, "writer"), Org(2, 2, 1, "operator"), Org(3, 1, 0, "none")}
MCOrgDeletionEnds == {Org(2, 1, 1, "none"), Org(2, 2, 0, "none")}
MCRustClient == {Rus(2, 0, 2, 2, 0, FALSE, FALSE, FALSE), Rus(1, 0, 2, 1, 1, TRUE, FALSE, FALSE),
                 Rus(0, 2, 1, 2, 0, TRUE, FALSE, TRUE), Rus(1, 1, 1, 1, 1, FALSE, TRUE, FALSE)}
MCWebClient == {Web(2, 0, 2, 1, 2, 0, FALSE, FALSE), Web(1, 0, 2, 1, 1, 1, TRUE, FALSE),
                Web(0, 2, 1, 1, 2, 0, FALSE, TRUE), Web(0, 0, 1, 4, 1, 1, FALSE, FALSE), Web(0, 1, 1, 1, 0, 1, FALSE, FALSE)}
MCRustClientEnds == {Rus(1, 1, 1, 1, 0, FALSE, FALSE, FALSE), Rus(0, 1, 1, 1, 0, FALSE, FALSE, TRUE), Rus(1, 0, 1, 0, 1, FALSE, FALSE, FALSE),
                     Rus(1, 0, 1, 1, 0, FALSE, TRUE, FALSE)}
MCWebClientEnds == {Web(1, 0, 2, 1, 1, 1, FALSE, FALSE), Web(0, 1, 1, 1, 1, 0, FALSE, FALSE)}
MCSchema == {Sch(1, 1, 1, 2, FALSE, 1, FALSE, 1, 1), Sch(2, 0, 2, 1, FALSE, 2, FALSE, 0, 1),
             [Sch(2, 0, 1, 2, TRUE, 1, TRUE, 1, 1) EXCEPT !.early = TRUE]}
MCSchemaEnds == {Sch(1, 1, 1, 1, FALSE, 1, FALSE, 0, 1)}
MCTables == <<<<1, 1, 1>>, <<0, 1, 0>>>>
MCHeadroom == {Hea(<<r>>, 1, 4, 0, 0, 0) : r \in [1..4 -> {0, 1, 2, 8}]} \cup
              {[Hea(MCTables, 2, 4, 0, 2, 1) EXCEPT !.overlap = TRUE], Hea(MCTables, 2, 4, 1, 0, 1), [Hea(MCTables, 1, 4, 0, 0, 0) EXCEPT !.foreign = TRUE]}
MCHeadroomEnds == {Hea(<<<<1, 1>>>>, 2, 4, 0, 1, 1), Hea(<<<<1, 1>>>>, 1, 4, 1, 1, 0)}
MCHeadroomLost == {[Hea(<<<<1, 1>>>>, 2, 4, 0, 1, 1) EXCEPT !.overlap = TRUE]}
=============================================================================
