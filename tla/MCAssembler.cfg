\* The assembler stops when it has returned.
CHECK_DEADLOCK FALSE
SPECIFICATION Spec
CONSTANTS
  Names <- MCNames
  Sources <- MCSources
  Origins = {0, 8}
  Cap = 12
  Space = 16
  MaxSpace = 8
  MaxSyms = 2
  BranchReach = 8
INVARIANT PassesAgree ConstantsAgree BranchesLand ImageDefined WithinCapacity
