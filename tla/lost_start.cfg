SPECIFICATION HeadroomSpec
CONSTANTS
  VectorMixes <- MCNone
  VectorReshardMixes <- MCNone
  FileMixes <- MCNone
  FileReshardMixes <- MCNone
  OrgDeletionMixes <- MCNone
  RustClientMixes <- MCNone
  WebClientMixes <- MCNone
  SchemaMixes <- MCNone
  HeadroomMixes <- MCHeadroomLost
PROPERTIES
  LostStartsAreReleased
CHECK_DEADLOCK FALSE
