CONSTANTS
  Mids <- MC_Mids
  Revs <- MC_Revs
  LibNames <- MC_LibNames
  Majors <- MC_Majors
  AmdbInputs <- MC_AmdbInputs
  Flags <- MC_Flags
  Inputs <- MC_Inputs
  EnvChoices <- MC_EnvChoices
SPECIFICATION Spec
PROPERTY
  RegistryRefined
