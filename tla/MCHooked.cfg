SPECIFICATION Spec
CONSTANTS
  Programs <- HostPrograms
  Acc <- MCAcc
  Acc0 = 0
  Dau <- MCDau
  Ptr <- MCPtr
  Ptr0 = 0
  Move <- MCMove
  AccNeg <- MCAccNeg
  Vectors = {8, 15}
  Slots = {}
  Straps = {}
  Hooked = TRUE
PROPERTY Transparent
