SPECIFICATION Spec
CONSTANTS
  Programs <- ErrorPrograms
  Acc <- MCAcc
  Acc0 = 0
  Dau <- ConstDau
  Ptr <- MCPtr
  Ptr0 = 0
  Move <- MCMove
  AccNeg <- MCAccNeg
  Vectors = {8, 15}
  Slots = {}
  Straps = {}
  Hooked = FALSE
INVARIANT TypeOK StallBounded LoopCounted LockShown
PROPERTY DispatchSticks AbortKeepsRegisters RequestsKept LatentFirst
