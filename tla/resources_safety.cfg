SPECIFICATION Spec
CONSTANTS
  VectorMixes <- MCVectors
  VectorReshardMixes <- MCVectorReshard
  FileMixes <- MCFiles
  FileReshardMixes <- MCFileReshard
  OrgDeletionMixes <- MCOrgDeletion
  RustClientMixes <- MCRustClient
  WebClientMixes <- MCWebClient
  SchemaMixes <- MCSchema
  HeadroomMixes <- MCHeadroom
INVARIANTS
  VectorsSafe
  
  FilesSafe
  
  DeletionSafe
  ClientsHonest
  SchemaSafe
  HeadroomSafe
CHECK_DEADLOCK FALSE
