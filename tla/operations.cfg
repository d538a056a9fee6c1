SPECIFICATION FairSpec
CONSTANTS
  VectorMixes <- MCVectorEnds
  VectorReshardMixes <- MCVectorReshardEnds
  FileMixes <- MCFileEnds
  FileReshardMixes <- MCFileReshardEnds
  OrgDeletionMixes <- MCOrgDeletionEnds
  RustClientMixes <- MCRustClientEnds
  WebClientMixes <- MCWebClientEnds
  SchemaMixes <- MCSchemaEnds
  HeadroomMixes <- MCHeadroomEnds
PROPERTIES
  WorkEnds
  MovementsEnd
  
CHECK_DEADLOCK FALSE
