CONSTANTS
  Mids <- MC_Mids
  Revs <- MC_Revs
  LibNames <- MC_LibNames_Clash
  Majors <- MC_Majors
  AmdbInputs <- MC_AmdbInputs
  Flags <- MC_Flags
  Inputs <- MC_Inputs_Clash
  EnvChoices <- GenShared
SPECIFICATION Spec
INVARIANT
  SharedLinkFactsComplete
