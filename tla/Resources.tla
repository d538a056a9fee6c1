----------------------------- MODULE Resources -------------------------------
(***************************************************************************)
(* The components that have no actor of another one in them, side by side: *)
(* every behaviour belongs to one component, named by mix.part.  The       *)
(* schema M and the two clients C and W are those of PartsProofs.          *)
(***************************************************************************)
EXTENDS Naturals, Sequences, FiniteSets, PartsProofs

CONSTANTS VectorMixes, VectorReshardMixes, FileMixes, FileReshardMixes, OrgDeletionMixes, HeadroomMixes

V == INSTANCE Vectors WITH Mixes <- VectorMixes
R == INSTANCE VectorReshard WITH Mixes <- VectorReshardMixes
F == INSTANCE FilesProofs WITH Mixes <- FileMixes
G == INSTANCE FileReshardProofs WITH Mixes <- FileReshardMixes
O == INSTANCE OrgDeletion WITH Mixes <- OrgDeletionMixes
H == INSTANCE Headroom WITH Mixes <- HeadroomMixes

\* The mixes of a component are its own, and bound what the theorems need bounded.
ASSUME PartsAssumption ==
  /\ \A m \in VectorMixes : m.part = "vectors"
  /\ \A m \in VectorReshardMixes : m.part = "vector_reshard"
  /\ \A m \in FileMixes : m.part = "files"
  /\ \A m \in FileReshardMixes : m.part = "file_reshard"
  /\ \A m \in OrgDeletionMixes : m.part = "org_deletion"
  /\ \A m \in RustClientMixes : m.part = "rust_client"
  /\ \A m \in WebClientMixes : m.part = "web_client"
  /\ \A m \in SchemaMixes : m.part = "schema"
  /\ \A m \in HeadroomMixes : m.part = "headroom"
ASSUME MixesAssumption == O!MixesOK /\ M!MixesOK /\ F!MixesOK /\ G!MixesOK /\ C!MixesOK /\ W!MixesOK

Init == V!Init \/ R!Init \/ F!Init \/ G!Init \/ O!Init \/ C!Init \/ W!Init \/ M!Init \/ H!Init
Next == V!Next \/ R!Next \/ F!Next \/ G!Next \/ O!Next \/ C!Next \/ W!Next \/ M!Next \/ H!Next
Spec == Init /\ [][Next]_<<mix, s>>
FairSpec == Spec /\ V!Fairness /\ R!Fairness /\ F!Fairness /\ G!Fairness /\ O!Fairness /\ C!Fairness /\ W!Fairness
            /\ M!Fairness /\ H!Fairness
(* The governor's tick, the size reports, the operator, the deployment and *)
(* the recovery go on, as in Headroom's own fairness.                      *)
HeadroomSpec ==
  /\ Spec
  /\ WF_s(H!On /\ H!Govern)
  /\ WF_s(H!On /\ \E h \in H!Shards : H!ReportShardSize(h))
  /\ WF_s(H!On /\ H!OperatorSteps) /\ WF_s(H!On /\ H!SchemaEnds) /\ WF_s(H!On /\ H!Recover)

(* The vectors a Cdb delivers to an index. *)
VectorsSafe == mix.part = "vectors" => V!Safe
(* The movement of a range's vectors. *)
VectorMoveSafe == mix.part = "vector_reshard" => R!Safe
(* The files of a Cdb and their bytes in R2. *)
FilesSafe == mix.part = "files" => F!Safe
(* The movement of a range's files. *)
FileMoveSafe == mix.part = "file_reshard" => G!Safe
(* The deletion of an organization while its range moves. *)
DeletionSafe == O!DeletionSafe
(* What the two clients tell the application. *)
ClientsHonest == /\ mix.part = "rust_client" => C!Safe
                 /\ mix.part = "web_client" => W!Safe
(* The schema of a database during a deployment. *)
SchemaSafe == M!SchemaSafe
(* The automatic splits of full shards. *)
HeadroomSafe == mix.part = "headroom" => H!Safe

(* Deliveries, cleanups and handoffs that were taken on end. *)
WorkEnds == V!AllEnds /\ F!CleanupEnds /\ O!AllEnds /\ M!MigrationEnds /\ H!HeadroomEnds
(* An automatic split that lost its start leaves nothing behind. *)
LostStartsAreReleased == H!LostStartsAreReleased
(* Movements of vectors and of files end. *)
MovementsEnd == R!MovementEnds /\ G!MovementEnds
(* Calls end with an outcome, subscriptions show the last version. *)
ClientsEnd == C!AllEnds /\ W!AllEnds
=============================================================================
