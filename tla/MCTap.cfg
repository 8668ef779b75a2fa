\* A program ends.
CHECK_DEADLOCK FALSE
SPECIFICATION Spec
CONSTANTS
  FracBits = 3
  GuardBits = 2
  ExpBits = 4
  HalfBits = 4
  ByteBits = 3
  CodeBits = 1
  AlawMask = 5
  Reach = 10
  BitAnd <- MCBitAnd
  AccNo <- MCAccNo
  RegNo <- MCRegNo
  Starts <- Taps
PROPERTY TapStoresY
