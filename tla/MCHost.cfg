SPECIFICATION Spec
CONSTANTS
  Programs <- HostPrograms
  Acc <- MCAcc
  Acc0 = 0
  Dau <- MCDau
  Ptr <- MCPtr
  Ptr0 = 0
  Move <- MCMove
  AccNeg <- MCAccNeg
  Vectors = {15}
  Slots = {0, 2}
  Straps <- MCStraps
  Hooked = FALSE
PROPERTY Transparent
