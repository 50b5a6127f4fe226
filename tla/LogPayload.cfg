CONSTANTS
  Attrs <- MC_Attrs
  Attkind <- MC_Attkind
  Keywords <- MC_Keywords
  KeyVals <- MC_KeyVals
  DataVals <- MC_DataVals
  Default <- MC_NoDefault
  MaxOps = 4
  CmddataInitSize = 16
SPECIFICATION Spec
INVARIANTS ReplayReproducesOrigin NoBufferOverrun
CHECK_DEADLOCK FALSE
