SPECIFICATION FirstRunSpec
CONSTANTS
  Inputs <- MCInputs
  MaxCode = 3
  MinCode = 2
INVARIANTS
  InBuffer
  EncodesExactly
  Reversible
  LoadsFile
  CodeIsFirstLine
  
