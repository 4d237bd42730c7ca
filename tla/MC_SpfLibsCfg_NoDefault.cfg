CONSTANTS
  Mids <- MC_Mids
  Revs <- MC_Revs
  LibNames <- MC_LibNames
  Majors <- MC_Majors
  AmdbInputs <- MC_AmdbInputs
  Flags <- MC_Flags
  Inputs <- MC_Inputs_NoDefault
  EnvChoices <- MC_EnvChoices_Flag
SPECIFICATION Spec
INVARIANT
  MissingDefaultRejected
