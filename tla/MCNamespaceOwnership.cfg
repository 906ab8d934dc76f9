SPECIFICATION OwnershipSpec
CONSTANTS
  None = None
  Direct = Direct
  Projects = {projectA, projectB}
  LastRelease = 2
  MaxCrashes = 3
  MaxFailures = 2
INVARIANTS
  OwnershipInv
PROPERTIES
  GivenUpIsExact
  QuarantineAuthorisesNothing
  
  FreshAttemptEnds
CHECK_DEADLOCK FALSE
