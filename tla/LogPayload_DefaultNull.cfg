CONSTANTS
  Attrs <- MC_Attrs
  Attkind <- MC_Attkind
  Keywords <- MC_Keywords
  KeyVals <- MC_KeyVals
  DataVals <- MC_DataVals
  Default <- MC_DefaultA
  MaxOps = 4
  CmddataInitSize = 16
SPECIFICATION Spec
INVARIANTS ReplayReproducesOrigin
CHECK_DEADLOCK FALSE
