CONSTANTS
  Mids <- MC_Mids
  Revs <- MC_Revs
  LibNames <- MC_LibNames
  Majors <- MC_Majors
  AmdbInputs <- MC_AmdbInputs
INIT RegInit
NEXT RegNext
INVARIANTS
  RegTypeOK
  RevisionsContiguous
  AdjacentRevisionsDiffer
PROPERTIES
  RevisionsStable
