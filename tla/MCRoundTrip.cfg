\* A round trip ends.
CHECK_DEADLOCK FALSE
SPECIFICATION Spec
CONSTANTS
  HalfBits = 4
  Half = 8
  Far = 64
  Long = 256
  WordBits = 8
  FracBits = 4
  GuardBits = 3
  ExpBits = 4
  ByteBits = 3
  CodeBits = 1
  AlawMask = 5
  Reach = 12
  BitAnd <- MCBitAnd
  AccNo <- MCAccNo
  RegNo <- MCRegNo
  Words <- MCWords
  Data <- MCData
  Addr = 100
INVARIANT SpellingKept ControlKept MeaningKept NotesTellJumps
