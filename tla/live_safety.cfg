SPECIFICATION Spec
CONSTANTS
  Mixes <- MCSafety
INVARIANTS TypeOK StaleIsOwed RegistrationsAgree
PROPERTIES NeverOlder
CHECK_DEADLOCK FALSE
