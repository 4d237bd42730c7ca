CONSTANTS
  Mids <- MC_Mids
  Revs <- MC_Revs_Three
  LibNames <- MC_LibNames_Three
  Majors <- MC_Majors
  AmdbInputs <- MC_AmdbInputs
  Flags <- MC_Flags
  Inputs <- MC_Inputs_Orders
  EnvChoices <- GenShared
SPECIFICATION Spec
INVARIANT
  RevisionOrderInsensitive
