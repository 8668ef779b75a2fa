-------------------------- MODULE RoundTripMeaning --------------------------
(***************************************************************************)
(* The round trip of data instructions: what the core of DataPath does     *)
(* with the words on the way.                                              *)
(***************************************************************************)
EXTENDS RoundTrip

CONSTANTS
  FracBits, GuardBits, ExpBits, HalfBits, ByteBits, CodeBits, AlawMask, Reach, BitAnd(_, _),   \* as in DataPath
  AccNo, RegNo,
  Data          \* states of the core for CA and for DA instructions: [ca, da]

Core == INSTANCE DataPath WITH Starts <- <<>>, d <- 0, prog <- <<>>, start <- <<>>

ASSUME SameWidths ==
  WordBits = Core!IntBits /\ Core!LongH = Long \div 2 /\ Core!ShortH = Half /\ Half > 1

DataOps == {"alu", "imm", "add3", "da", "special"}
States(x)   == IF x.op \in {"da", "special"} THEN Data.da ELSE Data.ca
After(s, x) == Core!Executed(s, x)

\* The states are states of the core, and data instructions that are printed
\* name the registers it has; a rotation's second operand is not printed.
ASSUME DataAssumption ==
  /\ \A s \in Data.ca \cup Data.da : Core!StateOK(s)
  /\ \A family \in DOMAIN Words : \A x \in Words[family] :
       x.op \in DataOps /\ Clean(Disassemble(x)) /\ ~(x.op = "alu" /\ x.f \in Rotations) => Core!WellFormed(x)

-----------------------------------------------------------------------------
(* Properties *)

\* A subtraction x that is assembled as y, the addition of the negative number.
TurnsIntoAddition(x, y) ==
  x.op \in {"alu", "imm"} /\ x.f = "sub" /\ (y.op = "add3" \/ y.f = "add")

\* A store through Y's pointer after it has moved, which is printed like one
\* through Y's address.
StoresBehindY(x) == x.op \in {"da", "special"} /\ x.z.p \in 1..14 /\ x.z.p = x.y.p /\ x.y.i # 0

\* The condition of x holds in s.
Takes(x, s) == x.op = "alu" => Core!CondEval(s.cau, s.flagPipe[3], x.c)

\* The state o with the complement of its carry.
Complemented(o) == [o EXCEPT !.cau.c = ~@]

\* The outcomes one and two of the words x and y in state s agree, but for two
\* kinds: a subtraction that has become an addition leaves the complement of its
\* carry, and a store behind Y goes to Y's own address.
Agree(x, y, s, one, two) ==
  IF TurnsIntoAddition(x, y)
  THEN two = IF Takes(x, s) THEN Complemented(one) ELSE one
  ELSE IF StoresBehindY(x)
  THEN /\ two.a = one.a /\ two.dau = one.dau
       /\ one.raised = two.raised => two.r = one.r
  ELSE two = one

\* A data instruction that has been through disassembler and assembler does the
\* same to registers, flags and memory, with those two exceptions.
MeaningKept ==
  Len(w) > 1 /\ w[1].op \in DataOps =>
    \A s \in States(w[1]) : Agree(w[1], w[2], s, After(s, w[1]), After(s, w[2]))

\* The comment of roundtrip.c: w2 may differ from w, but never in meaning.
NeverInMeaning ==
  Len(w) > 1 /\ w[1].op \in DataOps => \A s \in States(w[1]) : After(s, w[2]) = After(s, w[1])
=============================================================================
