SPECIFICATION Spec
CONSTANTS
  a = a
  b = b
  Val = {a, b}
  Data <- MCData
  MemSize = 2
  Window = 1
  ChipBase = 1
  DaOperands <- MCDaOperands
  Operands <- MCOperands
  Straps = {FALSE, TRUE}
INVARIANT TypeOK SlotsSuffice LoadsTheFront
PROPERTY Delayed
