-------------------------- MODULE RoundTripProofs --------------------------
(***************************************************************************)
(* Theorems about RoundTrip, for every instruction word and every width of *)
(* the immediates: what is printed cleanly is accepted by the assembler    *)
(* and keeps its spelling, the words on the way branch alike, and the core *)
(* does the same with them.                                                *)
(*                                                                         *)
(* Trip(x) is the word that x comes back as.  A lemma for each format says *)
(* which it is, and that the formats' texts take it to itself; others say  *)
(* what the core does with the words that differ.                          *)
(***************************************************************************)
EXTENDS RoundTripMeaning, SequenceTheorems, TLAPS

Trip(x) == Encode(Disassemble(x))

\* The word that comes back is the same or an alias: another encoding of what
\* the text says.  These are the ones of the CA arithmetic.
CaAlias(x, y) ==
  \/ y = x
  \/ /\ x.op = "alu" /\ y.op = "alu" /\ y.c = x.c /\ y.short = x.short
     /\ \/ /\ x.f = "add" /\ y.f = "add" /\ y.rd = x.rd
           /\ x.rs1 = R0 /\ x.rs2 \notin {R0, PLUS, MINUS} /\ y.rs1 = x.rs2 /\ y.rs2 = R0
        \/ /\ x.f = "sub" /\ y.f = "add" /\ y.rd = x.rd /\ y.rs1 = x.rs1 /\ ~(x.rd = SP /\ x.rs1 = SP)
           /\ (x.rs2 = PLUS /\ y.rs2 = MINUS) \/ (x.rs2 = MINUS /\ y.rs2 = PLUS)
        \/ x.f = "rsub" /\ y.f = "sub" /\ y.rd = x.rd /\ y.rs1 = x.rs2 /\ y.rs2 = x.rs1
        \/ x.f \in Rotations /\ y.f = x.f /\ y.rd = x.rd /\ y.rs1 = x.rs1
        \/ x.f \in Tests /\ y.f = x.f /\ y.rs1 = x.rs1 /\ y.rs2 = x.rs2
  \/ /\ x.op = "alu" /\ x.c = "true" /\ x.f \in Shifts /\ x.rs2 = PLUS /\ x.rs1 = x.rd
     /\ y.op = "imm" /\ y.f = x.f /\ y.short = x.short /\ y.rd = x.rd /\ y.n = 1
  \/ /\ x.op = "imm" /\ y.op = "add3" /\ y.short = x.short /\ y.rd = x.rd /\ y.rs3 = x.rd
     /\ \/ x.f = "add" /\ y.n = x.n
        \/ x.f = "sub" /\ Sext16(x.n) > 0 /\ y.n = Low16(-Sext16(x.n))
  \/ /\ x.op = "imm" /\ y.op = "alu" /\ y.c = "true" /\ y.short = x.short
     /\ x.f \in Rotations /\ y.f = x.f /\ y.rd = x.rd /\ y.rs1 = x.rd
  \/ /\ x.op = "imm" /\ y.op = "imm" /\ y.short = x.short /\ y.rd = x.rd
     /\ x.f \in Shifts /\ y.f = x.f /\ y.n = x.n % WordBits
  \/ /\ x.op = "add3" /\ y.op = "alu" /\ y.c = "true" /\ y.short = x.short /\ y.rd = x.rd
     /\ y.f = "add" /\ Sext16(x.n) = 0 /\ y.rs1 = x.rs3 /\ y.rs2 = R0

\* Those of DA words.  A store through Y's pointer becomes one through Y's own
\* address, and a field that stores nothing the one the encoder has for that.
ZAlias(z, z2, y) ==
  \/ z2 = z
  \/ z2.p = 0 /\ (z.p = 0 \/ (z.p = 15 /\ y.p = 0))
  \/ z.p \in 1..14 /\ z.p = y.p /\ z2 = [p |-> 15, i |-> z.i]
DaAlias(x, y) ==
  /\ x.op = "da" /\ y.op = "da" /\ y.n = x.n /\ y.x = x.x /\ y.fs = x.fs /\ ZAlias(x.z, y.z, x.y)
  /\ \/ y.fmt = x.fmt /\ y.m = x.m /\ y.y = x.y /\ y.ss = x.ss
     \/ x.fmt = 1 /\ x.m = 4 /\ y.fmt = 1 /\ y.m = 4 /\ y.y = x.y
     \/ x.fmt = 1 /\ x.m = 6 /\ y.fmt = 1 /\ y.m = 5 /\ y.y = x.y /\ y.ss = x.ss /\ y.z.p = 0
     \/ x.fmt = 2 /\ y.fmt = 3 /\ y.m = x.m /\ y.y = x.y /\ y.ss = x.ss /\ y.z.p = 0
     \/ /\ x.fmt \in {2, 3} /\ y.fmt = 1 /\ x.m \in 0..3 /\ y.m \in 0..3
        /\ x.y = AccField(y.m) /\ y.y = AccField(x.m) /\ y.ss = x.ss
        /\ x.fmt = 2 => y.z.p = 0
SpecialAlias(x, y) ==
  /\ x.op = "special" /\ y.op = "special" /\ y.g = x.g /\ y.n = x.n /\ y.y = x.y /\ ZAlias(x.z, y.z, x.y)

Alias(x, y) ==
  /\ x.op \in {"alu", "imm", "add3"} => CaAlias(x, y)
  /\ x.op = "da" => DaAlias(x, y)
  /\ x.op = "special" => SpecialAlias(x, y)

\* What the properties need of the way of a word.
Kept(x) ==
  /\ Trip(x) # Refused
  /\ ~ZeroDisplacement(x) => Disassemble(Trip(x)) = Disassemble(x)
  /\ Encode(Disassemble(Trip(x))) = Trip(x)
  /\ ~(ZeroDisplacement(x) /\ x.rb = PCSH) => Control(Trip(x)) = Control(x)
  /\ Alias(x, Trip(x))

LEMMA SpelledAlike ==
  ASSUME NEW x, NEW y, Trip(x) = y, y.op # "refused", Alias(x, y),
         Disassemble(y) = Disassemble(x), Control(y) = Control(x)
  PROVE  Kept(x)
<1>1. y # Refused
  BY DEF Refused
<1> QED
  BY <1>1 DEF Kept, Trip

LEMMA ComesBack ==
  ASSUME NEW x, Trip(x) = x, x.op # "refused"
  PROVE  Kept(x)
<1>1. Alias(x, x)
  BY DEF Alias, CaAlias, DaAlias, SpecialAlias, ZAlias
<1> QED
  BY <1>1, SpelledAlike

-----------------------------------------------------------------------------
(* Immediates *)

LEMMA Signs ==
  ASSUME NEW n \in Short
  PROVE  /\ Sext16(n) \in -Half .. Half - 1
         /\ FitsS16(Sext16(n)) /\ FitsU16(Sext16(n)) /\ Low16(Sext16(n)) = n
         /\ Sext16(n) = 0 <=> n = 0
<1>1. Half \in Nat /\ Half > 0 /\ n \in 0..2 * Half - 1
  BY FieldWidths DEF Short
<1>2. Sext16(n) \in -Half .. Half - 1 /\ (Sext16(n) = 0 <=> n = 0)
  BY <1>1 DEF Sext16
<1>3. Low16(Sext16(n)) = n
  BY <1>1 DEF Sext16, Low16
<1> QED
  BY <1>2, <1>3 DEF FitsS16, FitsU16

\* A short target that is printed as an address: a negative one is printed as
\* an address near the end of memory.
LEMMA Wraps ==
  ASSUME NEW n \in Short
  PROVE  FitsS16(Mod32(Sext16(n))) /\ Low16(Mod32(Sext16(n))) = n
<1> DEFINE s == Sext16(n)
           v == Mod32(s)
<1>1. /\ Half \in Nat /\ Half > 0 /\ Long \in Nat /\ 4 * Half <= Long /\ Long % (2 * Half) = 0
      /\ n \in 0..2 * Half - 1
  BY FieldWidths DEF Short
<1>2. CASE n < Half
  <2>1. s = n /\ s \in 0..Long - 1
    BY <1>1, <1>2 DEF Sext16
  <2> HIDE DEF s
  <2>2. v = n
    BY <1>1, <2>1 DEF Mod32
  <2> HIDE DEF v
  <2>3. FitsS16(v) /\ Low16(v) = n
    BY <1>1, <1>2, <2>2 DEF FitsS16, Low16
  <2> QED
    BY <2>3 DEF v, s
<1>3. CASE ~(n < Half)
  <2>1. s = n - 2 * Half /\ s \in -Half .. -1
    BY <1>1, <1>3 DEF Sext16
  <2> HIDE DEF s
  <2>2. v = Long + s
    BY <1>1, <2>1 DEF Mod32
  <2>3. v \in Long - Half .. Long - 1 /\ v = n + (Long - 2 * Half)
    BY <1>1, <2>1, <2>2
  <2> HIDE DEF v
  <2>4. PICK q \in Int : Long = q * (2 * Half)
    BY <1>1
  <2>5. v = n + (q - 1) * (2 * Half) /\ v \in Int
    BY <1>1, <2>3, <2>4
  <2>6. v % (2 * Half) = n
    BY <1>1, <2>5
  <2>7. FitsS16(v) /\ Low16(v) = n
    BY <2>3, <2>6 DEF FitsS16, Low16
  <2> QED
    BY <2>7 DEF v, s
<1> QED
  BY <1>1, <1>2, <1>3

-----------------------------------------------------------------------------
(* Branches *)

\* The text of a short target is read back as it was.
LEMMA TargetKept ==
  ASSUME NEW rb \in Code, NEW n \in Short
  PROVE  LET t0 == CaTarget(rb, Sext16(n))
         IN  TargetBase(t0) = rb /\ FitsS16(TargetN(t0)) /\ Low16(TargetN(t0)) = n
<1> DEFINE s == Sext16(n)
           t0 == CaTarget(rb, s)
<1>1. CASE rb = R0
  <2>1. t0 = <<"at", Mod32(s)>>
    BY <1>1 DEF CaTarget
  <2>2. TargetBase(t0) = rb /\ TargetN(t0) = Mod32(s)
    BY <1>1, <2>1 DEF TargetBase, TargetN
  <2> QED
    BY <2>2, Wraps
<1>2. CASE rb # R0 /\ s = 0
  <2>1. t0 = <<"base", rb>>
    BY <1>2 DEF CaTarget
  <2>2. TargetBase(t0) = rb /\ TargetN(t0) = s
    BY <1>2, <2>1 DEF TargetBase, TargetN
  <2> QED
    BY <2>2, Signs
<1>3. CASE rb # R0 /\ s # 0
  <2>1. t0 = <<"base", rb, s>>
    BY <1>3 DEF CaTarget
  <2>2. TargetBase(t0) = rb /\ TargetN(t0) = s
    BY <1>3, <2>1 DEF TargetBase, TargetN
  <2> QED
    BY <2>2, Signs
<1> QED
  BY <1>1, <1>2, <1>3

LEMMA IfKept ==
  ASSUME NEW x \in [op: {"if"}, c: Condition, rb: Code, n: Short], Clean(Disassemble(x))
  PROVE  Kept(x)
<1>1. x = [op |-> "if", c |-> x.c, rb |-> x.rb, n |-> x.n] /\ x.op = "if"
      /\ x.rb \in Code /\ x.n \in Short
  OBVIOUS
<1>2. Disassemble(x) = BranchText(x)
  BY <1>1 DEF Disassemble, Branches
<1>3. CASE Nop(x)
  <2>1. Disassemble(x) = <<"nop">>
    <3>1. ~Ireturn(x)
      BY <1>3 DEF Ireturn, Nop
    <3> QED
      BY <1>1, <1>2, <1>3, <3>1 DEF BranchText
  <2>2. Trip(x) = x
    BY <1>1, <1>3, <2>1 DEF Trip, Encode, Nop
  <2> QED
    BY <1>1, <2>2, ComesBack
<1>4. CASE Ireturn(x)
  <2>1. ~Nop(x)
    BY <1>4 DEF Ireturn, Nop
  <2>2. Disassemble(x) = <<"ireturn">>
    BY <1>2, <1>4, <2>1 DEF BranchText
  <2>3. Trip(x) = x
    BY <1>1, <1>4, <2>2 DEF Trip, Encode, Ireturn
  <2> QED
    BY <1>1, <2>3, ComesBack
<1>5. CASE ~Nop(x) /\ ~Ireturn(x)
  <2> DEFINE t0 == CaTarget(x.rb, Sext16(x.n))
  <2>1. BranchText(x) = <<"goto", x.c, t0>>
    BY <1>1, <1>2, <1>5 DEF BranchText, Naming, Clean
  <2> HIDE DEF t0
  <2>2. Trip(x) = EncGoto(x.c, t0)
    BY <1>2, <2>1 DEF Trip, Encode
  <2>3. TargetBase(t0) = x.rb /\ FitsS16(TargetN(t0)) /\ Low16(TargetN(t0)) = x.n
    BY <1>1, TargetKept DEF t0
  <2>4. Trip(x) = x
    BY <1>1, <2>2, <2>3 DEF EncGoto
  <2> QED
    BY <1>1, <2>4, ComesBack
<1> QED
  BY <1>3, <1>4, <1>5

LEMMA LinkKept ==
  ASSUME NEW x \in [op: {"loop", "call"}, rm: Code, rb: Code, n: Short], Clean(Disassemble(x))
  PROVE  Kept(x)
<1>1. x = [op |-> x.op, rm |-> x.rm, rb |-> x.rb, n |-> x.n] /\ x.op \in {"loop", "call"}
      /\ x.rb \in Code /\ x.n \in Short
  OBVIOUS
<1>2. ~Nop(x) /\ ~Ireturn(x)
  BY <1>1 DEF Nop, Ireturn
<1>3. Disassemble(x) = BranchText(x)
  BY <1>1 DEF Disassemble, Branches
<1> DEFINE t0 == CaTarget(x.rb, Sext16(x.n))
<1>4. BranchText(x) = <<x.op, x.rm, t0>>
  BY <1>1, <1>2, <1>3 DEF BranchText, Naming, Clean
<1> HIDE DEF t0
<1>5. TargetBase(t0) = x.rb /\ FitsS16(TargetN(t0)) /\ Low16(TargetN(t0)) = x.n
  BY <1>1, TargetKept DEF t0
<1>6. Trip(x) = x
  <2>1. CASE x.op = "loop"
    BY <1>1, <1>3, <1>4, <1>5, <2>1 DEF Trip, Encode, EncLoop
  <2>2. CASE x.op = "call"
    BY <1>1, <1>3, <1>4, <1>5, <2>2 DEF Trip, Encode, EncCall
  <2> QED
    BY <1>1, <2>1, <2>2
<1> QED
  BY <1>1, <1>6, ComesBack

\* What format 8 has and the short formats cannot say.
LEMMA FarNumbers ==
  ASSUME NEW n \in 0..Far - 1
  PROVE  /\ FitsU24(n)
         /\ FitsS16(n) <=> n < Half
         /\ n < Half => n \in Short /\ Low16(n) = n /\ Sext16(n) = n
         /\ Mod32(n) = n
<1>1. /\ Half \in Nat /\ Half > 0 /\ Long \in Nat /\ Far \in Nat
      /\ 2 * Half <= Far /\ 2 * Far <= Long /\ n \in Int /\ 0 <= n /\ n < Far
  BY FieldWidths
<1>2. FitsU24(n) /\ (FitsS16(n) <=> n < Half)
  BY <1>1 DEF FitsU24, FitsS16
<1>3. n < Half => n \in Short /\ Low16(n) = n /\ Sext16(n) = n
  BY <1>1 DEF Short, Low16, Sext16
<1>4. Mod32(n) = n
  BY <1>1 DEF Mod32
<1> QED
  BY <1>2, <1>3, <1>4

LEMMA FarGotoKept ==
  ASSUME NEW x \in [op: {"goto24"}, rb: Code, n: 0..Far - 1], Clean(Disassemble(x))
  PROVE  Kept(x)
<1>1. x = [op |-> "goto24", rb |-> x.rb, n |-> x.n] /\ x.op = "goto24"
      /\ x.rb \in Code /\ x.n \in 0..Far - 1
  OBVIOUS
<1>2. ~Nop(x) /\ ~Ireturn(x)
  BY <1>1 DEF Nop, Ireturn
<1> DEFINE t0 == FarTarget(x.rb, x.n)
           y  == [op |-> "if", c |-> "true", rb |-> x.rb, n |-> x.n]
<1>3. Disassemble(x) = <<"goto", "true", t0>> /\ {x.rb} \cap {16, 27, 28, 29, 31} = {}
  <2>1. Disassemble(x) = BranchText(x)
    BY <1>1 DEF Disassemble, Branches
  <2> QED
    BY <1>1, <1>2, <2>1 DEF BranchText, Naming, Clean
<1>4. TargetBase(t0) = x.rb /\ TargetN(t0) = x.n
  <2>1. CASE x.rb = R0
    <3>1. t0 = <<"at", x.n>>
      BY <2>1 DEF FarTarget
    <3> QED
      BY <2>1, <3>1 DEF TargetBase, TargetN
  <2>2. CASE x.rb # R0
    <3>1. t0 = <<"base", x.rb, x.n>>
      BY <2>2 DEF FarTarget
    <3> QED
      BY <2>2, <3>1 DEF TargetBase, TargetN
  <2> QED
    BY <2>1, <2>2
<1> HIDE DEF t0
<1>5. Trip(x) = EncGoto("true", t0)
  BY <1>3 DEF Trip, Encode
<1>6. CASE ~(x.n < Half)
  <2>1. Trip(x) = x
    BY <1>1, <1>4, <1>5, <1>6, FarNumbers DEF EncGoto
  <2> QED
    BY <1>1, <2>1, ComesBack
<1>7. ASSUME x.n < Half
      PROVE  Kept(x)
  <2>1. Trip(x) = y
    BY <1>1, <1>4, <1>5, <1>7, FarNumbers DEF EncGoto
  <2>2. /\ y \in [op: {"if"}, c: {"true"}, rb: Code, n: Short]
        /\ y.op = "if" /\ y.c = "true" /\ y.rb = x.rb /\ y.n = x.n /\ ~Nop(y)
    BY <1>1, <1>7, FarNumbers DEF Nop
  <2> HIDE DEF y
  <2>3. Sext16(y.n) = x.n /\ Mod32(x.n) = x.n
    BY <1>1, <1>7, <2>2, FarNumbers
  <2>4. ~Ireturn(y) => Disassemble(y) = <<"goto", "true", CaTarget(x.rb, x.n)>>
    <3>1. Disassemble(y) = BranchText(y)
      BY <2>2 DEF Disassemble, Branches
    <3> QED
      BY <1>3, <2>2, <2>3, <3>1 DEF BranchText, Naming, CondNamed
  <2>5. CASE ~ZeroDisplacement(x)
    <3>1. ~Ireturn(y)
      BY <1>1, <2>2, <2>5 DEF ZeroDisplacement, Ireturn, PCSH, R0
    <3>2. CaTarget(x.rb, x.n) = t0
      BY <1>1, <2>3, <2>5 DEF ZeroDisplacement, CaTarget, FarTarget, t0
    <3>3. Disassemble(y) = Disassemble(x)
      BY <1>3, <2>4, <3>1, <3>2
    <3>4. Control(y) = Control(x)
      BY <1>1, <2>2, <2>3, <3>1 DEF Control
    <3>5. Alias(x, y)
      BY <1>1 DEF Alias
    <3> QED
      BY <2>1, <2>2, <3>3, <3>4, <3>5, SpelledAlike
  <2>6. CASE ZeroDisplacement(x)
    <3>1. x.rb # R0 /\ x.n = 0 /\ (Ireturn(y) <=> x.rb = PCSH)
      BY <2>2, <2>6 DEF ZeroDisplacement, Ireturn
    <3>2. Encode(Disassemble(y)) = y
      <4>1. CASE Ireturn(y)
        <5>1. Disassemble(y) = <<"ireturn">>
          BY <2>2, <4>1 DEF Disassemble, Branches, BranchText
        <5> QED
          BY <3>1, <4>1, <5>1 DEF Encode, y
      <4>2. CASE ~Ireturn(y)
        <5>1. Disassemble(y) = <<"goto", "true", <<"base", x.rb>>>>
          BY <2>4, <3>1, <4>2 DEF CaTarget
        <5>2. Encode(Disassemble(y)) = EncGoto("true", <<"base", x.rb>>)
          BY <5>1 DEF Encode
        <5>3. TargetBase(<<"base", x.rb>>) = x.rb /\ TargetN(<<"base", x.rb>>) = 0
          BY DEF TargetBase, TargetN
        <5> QED
          BY <1>1, <1>7, <3>1, <5>2, <5>3, FarNumbers DEF EncGoto, y
      <4> QED
        BY <4>1, <4>2
    <3>3. x.rb # PCSH => Control(y) = Control(x)
      BY <1>1, <2>2, <2>3, <3>1 DEF Control
    <3>4. y # Refused
      BY <2>2 DEF Refused
    <3>5. Alias(x, y)
      BY <1>1 DEF Alias
    <3> QED
      BY <2>1, <2>6, <3>2, <3>3, <3>4, <3>5 DEF Kept
  <2> QED
    BY <2>5, <2>6
<1> QED
  BY <1>6, <1>7

LEMMA FarCallKept ==
  ASSUME NEW x \in [op: {"call24"}, rm: Code, n: 0..Far - 1], Clean(Disassemble(x))
  PROVE  Kept(x)
<1>1. x = [op |-> "call24", rm |-> x.rm, n |-> x.n] /\ x.op = "call24" /\ x.n \in 0..Far - 1
  OBVIOUS
<1>2. ~Nop(x) /\ ~Ireturn(x)
  BY <1>1 DEF Nop, Ireturn
<1> DEFINE t0 == <<"at", x.n>>
           y  == [op |-> "call", rm |-> x.rm, rb |-> R0, n |-> x.n]
<1>3. Disassemble(x) = <<"call", x.rm, t0>> /\ {x.rm} \cap {16, 27, 28, 29, 31} = {}
  <2>1. Disassemble(x) = BranchText(x)
    BY <1>1 DEF Disassemble, Branches
  <2> QED
    BY <1>1, <1>2, <2>1 DEF BranchText, Naming, Clean
<1>4. TargetBase(t0) = R0 /\ TargetN(t0) = x.n /\ t0[1] = "at"
  BY DEF TargetBase, TargetN
<1> HIDE DEF t0
<1>5. Trip(x) = EncCall(x.rm, t0)
  BY <1>3 DEF Trip, Encode
<1>6. CASE ~(x.n < Half)
  <2>1. Trip(x) = x
    BY <1>1, <1>4, <1>5, <1>6, FarNumbers DEF EncCall
  <2> QED
    BY <1>1, <2>1, ComesBack
<1>7. ASSUME x.n < Half
      PROVE  Kept(x)
  <2>1. Trip(x) = y
    BY <1>1, <1>4, <1>5, <1>7, FarNumbers DEF EncCall
  <2>2. y.op = "call" /\ y.rm = x.rm /\ y.rb = R0 /\ y.n = x.n
    OBVIOUS
  <2> HIDE DEF y
  <2>3. ~Nop(y) /\ ~Ireturn(y)
    BY <2>2 DEF Nop, Ireturn
  <2>4. Sext16(y.n) = x.n /\ Mod32(x.n) = x.n
    BY <1>1, <1>7, <2>2, FarNumbers
  <2>5. Disassemble(y) = <<"call", x.rm, t0>>
    <3>1. Disassemble(y) = BranchText(y)
      BY <2>2 DEF Disassemble, Branches
    <3>2. {x.rm, R0} \cap {16, 27, 28, 29, 31} = {}
      BY <1>3 DEF R0
    <3> QED
      BY <2>2, <2>3, <2>4, <3>1, <3>2 DEF BranchText, Naming, CaTarget, t0
  <2>6. Control(y) = Control(x)
    BY <1>1, <2>2, <2>4 DEF Control
  <2>7. Alias(x, y)
    BY <1>1 DEF Alias
  <2> QED
    BY <1>3, <2>1, <2>2, <2>5, <2>6, <2>7, SpelledAlike
<1> QED
  BY <1>6, <1>7

LEMMA BranchKept ==
  ASSUME NEW x \in BranchWord, Clean(Disassemble(x))
  PROVE  Kept(x)
BY IfKept, LinkKept, FarGotoKept, FarCallKept DEF BranchWord

-----------------------------------------------------------------------------
(* Moves, loops and wide immediates: these come back as they were *)

LEMMA NumberKept ==
  ASSUME NEW n \in Short
  PROVE  FitsU16(n) /\ Low16(n) = n
<1>1. Half \in Nat /\ Half > 0 /\ n \in 0..2 * Half - 1
  BY FieldWidths DEF Short
<1> QED
  BY <1>1 DEF FitsU16, Low16

LEMMA MemKept ==
  ASSUME NEW rp, NEW ri \in Code
  PROVE  LET m == CaMem(rp, ri) IN m[1] = "mem" /\ m[2] = rp /\ CamemRi(m) = ri
<1> DEFINE m == CaMem(rp, ri)
<1>0. R0 # PLUS /\ R0 # MINUS /\ PLUS # MINUS
  BY DEF R0, PLUS, MINUS
<1>1. CASE ri = R0
  <2>1. m = <<"mem", rp, "by0">>
    BY <1>0, <1>1 DEF CaMem
  <2>2. CamemRi(m) = R0 /\ m[1] = "mem" /\ m[2] = rp
    BY <2>1 DEF CamemRi
  <2> QED
    BY <1>1, <2>2
<1>2. CASE ri = PLUS
  <2>1. m = <<"mem", rp, "++">>
    BY <1>0, <1>2 DEF CaMem
  <2>2. CamemRi(m) = PLUS /\ m[1] = "mem" /\ m[2] = rp
    BY <2>1 DEF CamemRi
  <2> QED
    BY <1>2, <2>2
<1>4. CASE ri = MINUS
  <2>1. m = <<"mem", rp, "--">>
    BY <1>0, <1>4 DEF CaMem
  <2>2. CamemRi(m) = MINUS /\ m[1] = "mem" /\ m[2] = rp
    BY <2>1 DEF CamemRi
  <2> QED
    BY <1>4, <2>2
<1>3. CASE ri \notin {R0, PLUS, MINUS}
  <2>1. m = <<"mem", rp, "++", ri>>
    BY <1>3 DEF CaMem
  <2>2. CamemRi(m) = ri /\ m[1] = "mem" /\ m[2] = rp
    BY <2>1 DEF CamemRi
  <2> QED
    BY <2>2
<1> QED
  BY <1>1, <1>2, <1>3, <1>4

LEMMA DirectMoveKept ==
  ASSUME NEW x \in [op: {"load", "store"}, w: Size, rh: Code, direct: {TRUE}, x: Short, rp: {0}, ri: {0}],
         Clean(Disassemble(x))
  PROVE  Kept(x)
<1>1. /\ x = [op |-> x.op, w |-> x.w, rh |-> x.rh, direct |-> TRUE, x |-> x.x, rp |-> 0, ri |-> 0]
      /\ x.op \in {"load", "store"} /\ x.x \in Short /\ x.direct = TRUE
  OBVIOUS
<1>2. Disassemble(x) = MemMoveText(x)
  BY <1>1 DEF Disassemble, Branches
<1>3. FitsU16(x.x) /\ Low16(x.x) = x.x
  BY <1>1, NumberKept
<1>4. CASE x.op = "load"
  <2>1. Disassemble(x) = <<"move", Reg(x.rh), x.w, <<"direct", x.x>>>>
    BY <1>1, <1>2, <1>4 DEF MemMoveText, MoveText, Naming, Clean
  <2>2. Trip(x) = EncMove(Reg(x.rh), x.w, <<"direct", x.x>>)
    BY <2>1 DEF Trip, Encode
  <2>3. Trip(x) = EncMvDir("load", x.w, x.rh, x.x)
    BY <2>2 DEF EncMove, Reg
  <2>4. Trip(x) = x
    BY <1>1, <1>3, <1>4, <2>3 DEF EncMvDir
  <2> QED
    BY <1>1, <2>4, ComesBack
<1>5. CASE x.op = "store"
  <2>1. Disassemble(x) = <<"move", <<"direct", x.x>>, x.w, Reg(x.rh)>>
    BY <1>1, <1>2, <1>5 DEF MemMoveText, MoveText, Naming, Clean
  <2>2. Trip(x) = EncMove(<<"direct", x.x>>, x.w, Reg(x.rh))
    BY <2>1 DEF Trip, Encode
  <2>3. Trip(x) = EncMvDir("store", x.w, x.rh, x.x)
    BY <2>2 DEF EncMove, Reg
  <2>4. Trip(x) = x
    BY <1>1, <1>3, <1>5, <2>3 DEF EncMvDir
  <2> QED
    BY <1>1, <2>4, ComesBack
<1> QED
  BY <1>1, <1>4, <1>5

LEMMA IndirectMoveKept ==
  ASSUME NEW x \in [op: {"load", "store"}, w: Size, rh: Code, direct: {FALSE}, x: {0}, rp: Code, ri: Code],
         Clean(Disassemble(x))
  PROVE  Kept(x)
<1> DEFINE m == CaMem(x.rp, x.ri)
<1>1. /\ x = [op |-> x.op, w |-> x.w, rh |-> x.rh, direct |-> FALSE, x |-> 0, rp |-> x.rp, ri |-> x.ri]
      /\ x.op \in {"load", "store"} /\ x.ri \in Code /\ x.direct = FALSE
  OBVIOUS
<1>2. Disassemble(x) = MemMoveText(x)
  BY <1>1 DEF Disassemble, Branches
<1>3. m[1] = "mem" /\ m[2] = x.rp /\ CamemRi(m) = x.ri
  BY <1>1, MemKept
<1> HIDE DEF m
<1>4. CASE x.op = "load"
  <2>1. Disassemble(x) = <<"move", Reg(x.rh), x.w, m>>
    BY <1>1, <1>2, <1>4 DEF MemMoveText, MoveText, Naming, Clean, m
  <2>2. Trip(x) = EncMove(Reg(x.rh), x.w, m)
    BY <2>1 DEF Trip, Encode
  <2>3. Trip(x) = EncMvInd("load", x.w, x.rh, m)
    BY <1>3, <2>2 DEF EncMove, Reg
  <2>4. Trip(x) = x
    BY <1>1, <1>3, <1>4, <2>3 DEF EncMvInd
  <2> QED
    BY <1>1, <2>4, ComesBack
<1>5. CASE x.op = "store"
  <2>1. Disassemble(x) = <<"move", m, x.w, Reg(x.rh)>>
    BY <1>1, <1>2, <1>5 DEF MemMoveText, MoveText, Naming, Clean, m
  <2>2. Trip(x) = EncMove(m, x.w, Reg(x.rh))
    BY <2>1 DEF Trip, Encode
  <2>3. Trip(x) = EncMvInd("store", x.w, x.rh, m)
    BY <1>3, <2>2 DEF EncMove, Reg
  <2>4. Trip(x) = x
    BY <1>1, <1>3, <1>5, <2>3 DEF EncMvInd
  <2> QED
    BY <1>1, <2>4, ComesBack
<1> QED
  BY <1>1, <1>4, <1>5

LEMMA IorMoveKept ==
  ASSUME NEW x \in [op: {"iormove"}, store: BOOLEAN, w: Size, rh: Code, ior: Code],
         Clean(Disassemble(x))
  PROVE  Kept(x)
<1>1. /\ x = [op |-> "iormove", store |-> x.store, w |-> x.w, rh |-> x.rh, ior |-> x.ior]
      /\ x.op = "iormove" /\ x.store \in BOOLEAN
  OBVIOUS
<1>2. Disassemble(x) = IorMoveText(x)
  BY <1>1 DEF Disassemble, Branches
<1>3. CASE x.store /\ x.rh = R0 /\ x.ior = 10 /\ x.w \in {"long", "short", "byte"}
  <2>1. Disassemble(x) = Pseudo(x)
    BY <1>2, <1>3 DEF IorMoveText
  <2>2. Trip(x) = IorStore(x.w)
    BY <1>3, <2>1 DEF Trip, Encode, Pseudo
  <2>3. Trip(x) = x
    BY <1>1, <1>3, <2>2 DEF IorStore, EncMvIor
  <2> QED
    BY <1>1, <2>3, ComesBack
<1>4. CASE ~(x.store /\ x.rh = R0 /\ x.ior = 10 /\ x.w \in {"long", "short", "byte"})
  <2>1. CASE x.store
    <3>1. Disassemble(x) = <<"move", <<"ior", x.ior>>, x.w, Reg(x.rh)>>
      BY <1>2, <1>4, <2>1 DEF IorMoveText, MoveText, Naming, Clean
    <3>2. Trip(x) = EncMvIor(TRUE, x.w, x.rh, x.ior)
      BY <3>1 DEF Trip, Encode, EncMove, Reg
    <3>3. Trip(x) = x
      BY <1>1, <2>1, <3>2 DEF EncMvIor
    <3> QED
      BY <1>1, <3>3, ComesBack
  <2>2. CASE ~x.store
    <3>1. Disassemble(x) = <<"move", Reg(x.rh), x.w, <<"ior", x.ior>>>>
      BY <1>2, <1>4, <2>2 DEF IorMoveText, MoveText, Naming, Clean
    <3>2. Trip(x) = EncMvIor(FALSE, x.w, x.rh, x.ior)
      BY <3>1 DEF Trip, Encode, EncMove, Reg
    <3>3. Trip(x) = x
      BY <1>1, <2>2, <3>2 DEF EncMvIor
    <3> QED
      BY <1>1, <3>3, ComesBack
  <2> QED
    BY <2>1, <2>2
<1> QED
  BY <1>3, <1>4

LEMMA IorMemKept ==
  ASSUME NEW x \in [op: {"iormem"}, store: BOOLEAN, w: Size, ior: Code, rp: Code, ri: Code],
         Clean(Disassemble(x))
  PROVE  Kept(x)
<1> DEFINE m == CaMem(x.rp, x.ri)
<1>1. /\ x = [op |-> "iormem", store |-> x.store, w |-> x.w, ior |-> x.ior, rp |-> x.rp, ri |-> x.ri]
      /\ x.op = "iormem" /\ x.store \in BOOLEAN /\ x.ri \in Code
  OBVIOUS
<1>2. Disassemble(x) = IorMemText(x)
  BY <1>1 DEF Disassemble, Branches
<1>3. m[1] = "mem" /\ m[2] = x.rp /\ CamemRi(m) = x.ri
  BY <1>1, MemKept
<1> HIDE DEF m
<1>4. CASE x.store
  <2>1. Disassemble(x) = <<"move", m, x.w, <<"ior", x.ior>>>>
    BY <1>2, <1>4 DEF IorMemText, MoveText, Naming, Clean, m
  <2>2. Trip(x) = EncMove(m, x.w, <<"ior", x.ior>>)
    BY <2>1 DEF Trip, Encode
  <2>3. Trip(x) = EncMvIorMem(TRUE, x.w, x.ior, m)
    BY <1>3, <2>2 DEF EncMove
  <2>4. Trip(x) = x
    BY <1>1, <1>3, <1>4, <2>3 DEF EncMvIorMem
  <2> QED
    BY <1>1, <2>4, ComesBack
<1>5. CASE ~x.store
  <2>1. Disassemble(x) = <<"move", <<"ior", x.ior>>, x.w, m>>
    BY <1>2, <1>5 DEF IorMemText, MoveText, Naming, Clean, m
  <2>2. Trip(x) = EncMove(<<"ior", x.ior>>, x.w, m)
    BY <2>1 DEF Trip, Encode
  <2>3. Trip(x) = EncMvIorMem(FALSE, x.w, x.ior, m)
    BY <1>3, <2>2 DEF EncMove
  <2>4. Trip(x) = x
    BY <1>1, <1>3, <1>5, <2>3 DEF EncMvIorMem
  <2> QED
    BY <1>1, <2>4, ComesBack
<1> QED
  BY <1>4, <1>5

LEMMA MoveKept ==
  ASSUME NEW x \in MoveWord, Clean(Disassemble(x))
  PROVE  Kept(x)
BY DirectMoveKept, IndirectMoveKept, IorMoveKept, IorMemKept DEF MoveWord

LEMMA DoKept ==
  ASSUME NEW x, x = [op |-> "do", b |-> x.b, m |-> x.m, k |-> x.k, isreg |-> x.isreg, l |-> x.l],
         x.b \in BOOLEAN, x.m \in BOOLEAN, x.isreg \in BOOLEAN, Clean(Disassemble(x))
  PROVE  Kept(x)
<1> DEFINE kind == IF x.m THEN "doblock" ELSE IF x.b THEN "dolock" ELSE "do"
           k == IF ~x.m \/ x.k # 0 THEN <<x.k>> ELSE <<>>
           o == IF x.isreg THEN Reg(x.l) ELSE Dec(x.l)
<1>1. x.op = "do"
  OBVIOUS
<1>2. Disassemble(x) = DoText(x)
  BY <1>1 DEF Disassemble, Branches
<1>3. Disassemble(x) = <<kind, k, o>> /\ ~(x.b /\ x.m)
  BY <1>2 DEF DoText, Naming, Clean
<1>4. o[2] = x.l /\ IsReg(o) = x.isreg
  BY DEF IsReg, Reg, Dec
<1>5. (IF k = <<>> THEN 0 ELSE k[1]) = x.k
  OBVIOUS
<1> HIDE DEF k, o
<1>6. Trip(x) = EncDo(kind, k, o)
  BY <1>3 DEF Trip, Encode
<1>7. (kind = "dolock") = x.b /\ (kind = "doblock") = x.m
  BY <1>3
<1> HIDE DEF kind
<1>8. Trip(x) = x
  <2>1. EncDo(kind, k, o) = [op |-> "do", b |-> (kind = "dolock"), m |-> (kind = "doblock"),
                             k |-> IF k = <<>> THEN 0 ELSE k[1], isreg |-> IsReg(o), l |-> o[2]]
    BY DEF EncDo
  <2>2. EncDo(kind, k, o)
          = [op |-> "do", b |-> x.b, m |-> x.m, k |-> x.k, isreg |-> x.isreg, l |-> x.l]
    BY <1>4, <1>5, <1>7, <2>1, Zenon
  <2> QED
    BY <1>6, <2>2
<1> QED
  BY <1>1, <1>8, ComesBack

LEMMA OtherKept ==
  ASSUME NEW x \in OtherWord, Clean(Disassemble(x))
  PROVE  Kept(x)
<1>1. CASE x \in [op: {"shiftor"}, rd: Code, rs: Code, n: Short]
  <2>1. x = [op |-> "shiftor", rd |-> x.rd, rs |-> x.rs, n |-> x.n] /\ x.op = "shiftor" /\ x.n \in Short
    BY <1>1
  <2>2. Disassemble(x) = <<"shiftor", x.rd, x.rs, x.n>>
    BY <2>1 DEF Disassemble, Branches, Naming, Clean
  <2>3. Trip(x) = x
    BY <2>1, <2>2, NumberKept DEF Trip, Encode
  <2> QED
    BY <2>1, <2>3, ComesBack
<1>2. CASE x \in [op: {"set24"}, rd: Code, n: 0 .. Far - 1]
  <2>1. x = [op |-> "set24", rd |-> x.rd, n |-> x.n] /\ x.op = "set24" /\ x.n \in 0 .. Far - 1
    BY <1>2
  <2>2. Disassemble(x) = <<"set24", x.rd, x.n>>
    BY <2>1 DEF Disassemble, Branches, Naming, Clean
  <2>3. Trip(x) = x
    BY <2>1, <2>2, FarNumbers DEF Trip, Encode
  <2> QED
    BY <2>1, <2>3, ComesBack
<1>3. CASE x \in [op: {"do"}, b: BOOLEAN, m: BOOLEAN, k: 0 .. 127, isreg: BOOLEAN, l: 0 .. 2047]
  <2>1. x = [op |-> "do", b |-> x.b, m |-> x.m, k |-> x.k, isreg |-> x.isreg, l |-> x.l]
    BY <1>3
  <2>2. x.b \in BOOLEAN /\ x.m \in BOOLEAN /\ x.isreg \in BOOLEAN
    BY <1>3
  <2> QED
    BY <2>1, <2>2, DoKept
<1>4. CASE x \in [op: {"reserved"}]
  BY <1>4 DEF Disassemble, Branches, Clean
<1> QED
  BY <1>1, <1>2, <1>3, <1>4 DEF OtherWord

-----------------------------------------------------------------------------
(* CA arithmetic *)

\* Any word of the CA arithmetic: two with the same text.
LEMMA SpelledAlikeAlu ==
  ASSUME NEW x, NEW y, x.op \in {"alu", "imm", "add3"}, y.op \in {"alu", "imm", "add3"}, CaAlias(x, y),
         NEW text, Disassemble(x) = text, Encode(text) = y, Disassemble(y) = text
  PROVE  Kept(x)
<1>1. Control(x) = [kind |-> "none"] /\ Control(y) = [kind |-> "none"]
  BY DEF Control
<1>2. Trip(x) = y
  BY DEF Trip
<1>3. Alias(x, y)
  BY DEF Alias
<1> QED
  BY <1>1, <1>2, <1>3, SpelledAlike

\* A word is an alias of itself.
LEMMA SameAlias ==
  ASSUME NEW x
  PROVE  CaAlias(x, x)
BY DEF CaAlias

LEMMA Named ==
  ASSUME NEW codes, NEW text, Clean(Naming(codes, text))
  PROVE  Naming(codes, text) = text /\ codes \cap {16, 27, 28, 29, 31} = {}
BY DEF Clean, Naming

LEMMA NamedToo ==
  ASSUME NEW codes, NEW text, codes \cap {16, 27, 28, 29, 31} = {}
  PROVE  Naming(codes, text) = text
BY DEF Naming

\* The statement of an ALU operation on registers, and the text it is.
LEMMA RegisterText ==
  ASSUME NEW y, y.op = "alu", y.f \notin Tests, y.f # "res5", CondNamed(y.c),
         NEW codes, NEW e, AluExpr(y) = <<codes, e>>
  PROVE  Disassemble(y) = Naming(codes \cup {y.rd}, <<"assign", y.c, y.rd, y.short, e>>)
<1>1. Disassemble(y) = AluRegText(y)
  BY DEF Disassemble, Branches
<1>2. AluRegText(y) = Naming(codes \cup {y.rd}, <<"assign", y.c, y.rd, y.short, e>>)
  BY DEF AluRegText
<1> QED
  BY <1>1, <1>2

LEMMA AssignEncoded ==
  ASSUME NEW c, NEW rd, NEW short, NEW e
  PROVE  Encode(<<"assign", c, rd, short, e>>) = EncAssign(c, rd, short, e)
BY DEF Encode

LEMMA BinEncoded ==
  ASSUME NEW c, NEW rd, NEW short, NEW a, NEW o
  PROVE  /\ EncAssign(c, rd, short, Bin(Reg(a), "+", o)) = EncPlus(c, rd, short, a, o)
         /\ EncAssign(c, rd, short, Bin(Reg(a), "-", o)) = EncMinus(c, rd, short, a, o)
<1>1. IsReg(Reg(a)) /\ ~IsNum(Reg(a)) /\ Reg(a)[2] = a
  BY DEF IsReg, IsNum, Reg
<1>2. ASSUME NEW op
      PROVE  EncAssign(c, rd, short, Bin(Reg(a), op, o)) = EncBin(c, rd, short, Reg(a), op, o)
  BY DEF EncAssign, Bin
<1>3. /\ EncBin(c, rd, short, Reg(a), "+", o) = EncPlus(c, rd, short, a, o)
      /\ EncBin(c, rd, short, Reg(a), "-", o) = EncMinus(c, rd, short, a, o)
  BY <1>1 DEF EncBin
<1> QED
  BY <1>2, <1>3

LEMMA DoubleEncoded ==
  ASSUME NEW c, NEW rd, NEW short, NEW a
  PROVE  EncAssign(c, rd, short, Bin(Reg(a), "*", Dec(2))) = AluR("add", short, rd, a, c, a)
<1>1. IsReg(Reg(a)) /\ ~IsNum(Reg(a)) /\ Reg(a)[2] = a /\ Dec(2)[2] = 2
  BY DEF IsReg, IsNum, Reg, Dec
<1>2. EncAssign(c, rd, short, Bin(Reg(a), "*", Dec(2))) = EncBin(c, rd, short, Reg(a), "*", Dec(2))
  BY DEF EncAssign, Bin
<1> QED
  BY <1>1, <1>2 DEF EncBin

Logic == {"cradd", "andc", "xor", "or", "and"}

LEMMA FunctionEncoded ==
  ASSUME NEW c, NEW rd, NEW short, NEW a, NEW o, NEW f \in Shifts \cup Logic
  PROVE  EncAssign(c, rd, short, Bin(Reg(a), Symbol(f), o)) =
           IF f \in Shifts THEN EncShift(f, c, rd, short, a, o) ELSE EncLogic(f, c, rd, short, a, o)
<1>1. IsReg(Reg(a)) /\ ~IsNum(Reg(a)) /\ Reg(a)[2] = a
  BY DEF IsReg, IsNum, Reg
<1>2. EncAssign(c, rd, short, Bin(Reg(a), Symbol(f), o)) = EncBin(c, rd, short, Reg(a), Symbol(f), o)
  BY DEF EncAssign, Bin
<1>3. CASE f \in Shifts
  <2>1. Symbol(f) \in {"<<", ">>", "$>>"} /\ Function(Symbol(f)) = f
    BY <1>3 DEF Shifts, Symbol, Function
  <2> QED
    BY <1>1, <1>2, <1>3, <2>1 DEF EncBin
<1>4. CASE f \in Logic
  <2>1. Symbol(f) \in {"#", "&~", "^", "|", "&"} /\ Function(Symbol(f)) = f /\ f \notin Shifts
    BY <1>4 DEF Logic, Shifts, Symbol, Function
  <2> QED
    BY <1>1, <1>2, <2>1 DEF EncBin
<1> QED
  BY <1>3, <1>4

\* An operation on registers that comes back as one with the same expression.
LEMMA RegisterKept ==
  ASSUME NEW x, NEW codes, NEW codes2, NEW e, NEW f, NEW rs1, NEW rs2,
         x = AluR(x.f, x.short, x.rd, x.rs1, x.c, x.rs2), Clean(Disassemble(x)), x.f \notin Tests,
         f \notin Tests, f # "res5", codes2 \subseteq codes,
         AluExpr(x) = <<codes, e>>,
         AluExpr(AluR(f, x.short, x.rd, rs1, x.c, rs2)) = <<codes2, e>>,
         EncAssign(x.c, x.rd, x.short, e) = AluR(f, x.short, x.rd, rs1, x.c, rs2),
         CaAlias(x, AluR(f, x.short, x.rd, rs1, x.c, rs2))
  PROVE  Kept(x)
<1> DEFINE y == AluR(f, x.short, x.rd, rs1, x.c, rs2)
           text == <<"assign", x.c, x.rd, x.short, e>>
<1>1. /\ x.op = "alu" /\ y.op = "alu"
      /\ y.f = f /\ y.c = x.c /\ y.rd = x.rd /\ y.short = x.short
  BY DEF AluR
<1>2. x.f # "res5" /\ CondNamed(x.c)
  <2>1. Disassemble(x) = AluRegText(x)
    BY <1>1 DEF Disassemble, Branches
  <2> QED
    BY <2>1 DEF AluRegText, Clean
<1>3. Disassemble(x) = Naming(codes \cup {x.rd}, text)
  BY <1>1, <1>2, RegisterText
<1>4. Disassemble(x) = text /\ (codes \cup {x.rd}) \cap {16, 27, 28, 29, 31} = {}
  BY <1>3, Named
<1> HIDE DEF y
<1>5. Disassemble(y) = Naming(codes2 \cup {x.rd}, text)
  BY <1>1, <1>2, RegisterText DEF y
<1>6. (codes2 \cup {x.rd}) \cap {16, 27, 28, 29, 31} = {}
  BY <1>4
<1>7. Disassemble(y) = text
  BY <1>5, <1>6, NamedToo
<1>8. Encode(text) = y
  BY AssignEncoded DEF y
<1>9. CaAlias(x, y)
  BY DEF y
<1> HIDE DEF text
<1> QED
  BY <1>1, <1>4, <1>7, <1>8, <1>9, SpelledAlikeAlu

LEMMA BumpEncoded ==
  ASSUME NEW c, NEW rd, NEW short, NEW a, NEW sign
  PROVE  EncAssign(c, rd, short, <<"bump", a, sign>>)
           = AluR("add", short, rd, a, c, IF sign = "++" THEN PLUS ELSE MINUS)
BY DEF EncAssign

LEMMA OneEncoded ==
  ASSUME NEW c, NEW rd, NEW short, NEW a
  PROVE  /\ EncAssign(c, rd, short, Bin(Reg(a), "+", Dec(1))) =
              IF rd = SP /\ a = SP THEN AluR("sub", short, rd, a, c, MINUS)
              ELSE AluR("add", short, rd, a, c, PLUS)
         /\ EncAssign(c, rd, short, Bin(Reg(a), "-", Dec(1))) =
              IF rd = SP /\ a = SP THEN AluR("sub", short, rd, a, c, PLUS)
              ELSE AluR("add", short, rd, a, c, MINUS)
<1>1. ~IsReg(Dec(1)) /\ Bare1(Dec(1))
  BY DEF IsReg, IsNum, Bare1, Dec
<1>2. EncPlus(c, rd, short, a, Dec(1)) = IF rd = SP /\ a = SP THEN AluR("sub", short, rd, a, c, MINUS)
                                         ELSE AluR("add", short, rd, a, c, PLUS)
  BY <1>1 DEF EncPlus
<1>3. EncMinus(c, rd, short, a, Dec(1)) = IF rd = SP /\ a = SP THEN AluR("sub", short, rd, a, c, PLUS)
                                          ELSE AluR("add", short, rd, a, c, MINUS)
  BY <1>1 DEF EncMinus
<1> QED
  BY <1>2, <1>3, BinEncoded

LEMMA RegEncoded ==
  ASSUME NEW c, NEW rd, NEW short, NEW b
  PROVE  EncAssign(c, rd, short, Reg(b)) = AluR("add", short, rd, b, c, R0)
<1>1. Reg(b)[1] = "reg" /\ Reg(b)[2] = b
  BY DEF Reg
<1> QED
  BY <1>1 DEF EncAssign

LEMMA NegEncoded ==
  ASSUME NEW c, NEW rd, NEW short, NEW b
  PROVE  EncAssign(c, rd, short, <<"neg", b>>) = AluR("sub", short, rd, R0, c, b)
BY DEF EncAssign

LEMMA RotEncoded ==
  ASSUME NEW c, NEW rd, NEW short, NEW b, NEW f
  PROVE  EncAssign(c, rd, short, <<"rot", b, f>>) = AluR(f, short, rd, b, c, R0)
BY DEF EncAssign

LEMMA RegistersEncoded ==
  ASSUME NEW c, NEW rd, NEW short, NEW a, NEW b
  PROVE  /\ EncAssign(c, rd, short, Bin(Reg(a), "+", Reg(b))) = AluR("add", short, rd, a, c, b)
         /\ EncAssign(c, rd, short, Bin(Reg(a), "-", Reg(b))) =
              IF b \in {PLUS, MINUS} \/ a = R0 THEN AluR("rsub", short, rd, b, c, a)
              ELSE AluR("sub", short, rd, a, c, b)
<1>1. IsReg(Reg(b)) /\ Reg(b)[2] = b
  BY DEF IsReg, Reg
<1>2. EncPlus(c, rd, short, a, Reg(b)) = AluR("add", short, rd, a, c, b)
  BY <1>1 DEF EncPlus
<1>3. EncMinus(c, rd, short, a, Reg(b)) =
        IF b \in {PLUS, MINUS} \/ a = R0 THEN AluR("rsub", short, rd, b, c, a)
        ELSE AluR("sub", short, rd, a, c, b)
  BY <1>1 DEF EncMinus
<1> QED
  BY <1>2, <1>3, BinEncoded

LEMMA AddKept ==
  ASSUME NEW x, x = AluR("add", x.short, x.rd, x.rs1, x.c, x.rs2), Clean(Disassemble(x))
  PROVE  Kept(x)
<1>1. x.f = "add" /\ x.f \notin Tests /\ x.f # "res5"
  BY DEF AluR, Tests
<1>2. R0 # PLUS /\ R0 # MINUS /\ PLUS # MINUS /\ SP # PLUS /\ SP # MINUS /\ SP # R0
  BY DEF R0, PLUS, MINUS, SP
<1>3. ASSUME NEW codes, NEW e, AluExpr(x) = <<codes, e>>, EncAssign(x.c, x.rd, x.short, e) = x
      PROVE  Kept(x)
  BY <1>1, <1>3, SameAlias, RegisterKept
<1>4. CASE x.rs2 \in {PLUS, MINUS} /\ x.rd = SP /\ x.rs1 = SP
  <2>1. AluExpr(x) = <<{x.rs1}, <<"bump", x.rs1, IF x.rs2 = PLUS THEN "++" ELSE "--">>>>
    BY <1>1, <1>2, <1>4 DEF AluExpr, Rotations, Shifts
  <2>2. EncAssign(x.c, x.rd, x.short, <<"bump", x.rs1, IF x.rs2 = PLUS THEN "++" ELSE "--">>) = x
    BY <1>2, <1>4, BumpEncoded
  <2> QED
    BY <1>3, <2>1, <2>2
<1>5. CASE x.rs2 = PLUS /\ ~(x.rd = SP /\ x.rs1 = SP)
  <2>1. AluExpr(x) = <<{x.rs1}, Bin(Reg(x.rs1), "+", Dec(1))>>
    BY <1>1, <1>2, <1>5 DEF AluExpr, Rotations, Shifts
  <2>2. EncAssign(x.c, x.rd, x.short, Bin(Reg(x.rs1), "+", Dec(1))) = x
    BY <1>2, <1>5, OneEncoded
  <2> QED
    BY <1>3, <2>1, <2>2
<1>6. CASE x.rs2 = MINUS /\ ~(x.rd = SP /\ x.rs1 = SP)
  <2>1. AluExpr(x) = <<{x.rs1}, Bin(Reg(x.rs1), "-", Dec(1))>>
    BY <1>1, <1>2, <1>6 DEF AluExpr, Rotations, Shifts
  <2>2. EncAssign(x.c, x.rd, x.short, Bin(Reg(x.rs1), "-", Dec(1))) = x
    BY <1>2, <1>6, OneEncoded
  <2> QED
    BY <1>3, <2>1, <2>2
<1>7. CASE x.rs1 = x.rs2 /\ x.rs1 \notin {R0, PLUS, MINUS}
  <2>1. AluExpr(x) = <<{x.rs1}, Bin(Reg(x.rs1), "*", Dec(2))>>
    BY <1>1, <1>2, <1>7 DEF AluExpr, Rotations, Shifts
  <2>2. EncAssign(x.c, x.rd, x.short, Bin(Reg(x.rs1), "*", Dec(2))) = x
    BY <1>7, DoubleEncoded
  <2> QED
    BY <1>3, <2>1, <2>2
<1>8. CASE x.rs2 = R0
  <2>1. AluExpr(x) = <<{x.rs1}, Reg(x.rs1)>>
    BY <1>1, <1>2, <1>8 DEF AluExpr, Rotations, Shifts
  <2>2. EncAssign(x.c, x.rd, x.short, Reg(x.rs1)) = x
    BY <1>8, RegEncoded
  <2> QED
    BY <1>3, <2>1, <2>2
<1>9. CASE x.rs1 = R0 /\ x.rs2 \notin {R0, PLUS, MINUS}
  <2> DEFINE y == AluR("add", x.short, x.rd, x.rs2, x.c, R0)
  <2>1. AluExpr(x) = <<{x.rs2}, Reg(x.rs2)>>
    BY <1>1, <1>2, <1>9 DEF AluExpr, Rotations, Shifts
  <2>2. EncAssign(x.c, x.rd, x.short, Reg(x.rs2)) = y
    BY RegEncoded
  <2>3. AluExpr(y) = <<{x.rs2}, Reg(x.rs2)>>
    <3>1. y.f = "add" /\ y.rs1 = x.rs2 /\ y.rs2 = R0
      BY DEF AluR
    <3> HIDE DEF y
    <3> QED
      BY <1>2, <1>9, <3>1 DEF AluExpr, Rotations, Shifts
  <2>4. CaAlias(x, y)
    <3>1. /\ y.op = "alu" /\ y.f = "add" /\ y.c = x.c /\ y.short = x.short /\ y.rd = x.rd
          /\ y.rs1 = x.rs2 /\ y.rs2 = R0 /\ x.op = "alu"
      BY DEF AluR
    <3> HIDE DEF y
    <3> QED
      BY <1>1, <1>9, <3>1 DEF CaAlias
  <2> QED
    BY <1>1, <2>1, <2>2, <2>3, <2>4, RegisterKept
<1>10. CASE x.rs2 \notin {R0, PLUS, MINUS} /\ x.rs1 # R0 /\ x.rs1 # x.rs2
  <2>1. AluExpr(x) = <<{x.rs1, x.rs2}, Bin(Reg(x.rs1), "+", Reg(x.rs2))>>
    BY <1>1, <1>2, <1>10 DEF AluExpr, Rotations, Shifts
  <2>2. EncAssign(x.c, x.rd, x.short, Bin(Reg(x.rs1), "+", Reg(x.rs2))) = x
    BY RegistersEncoded
  <2> QED
    BY <1>3, <2>1, <2>2
<1> QED
  BY <1>4, <1>5, <1>6, <1>7, <1>8, <1>9, <1>10

LEMMA SubKept ==
  ASSUME NEW x, x = AluR("sub", x.short, x.rd, x.rs1, x.c, x.rs2), Clean(Disassemble(x))
  PROVE  Kept(x)
<1>1. x.f = "sub" /\ x.f \notin Tests /\ x.f # "res5" /\ "add" \notin Tests
  BY DEF AluR, Tests
<1>2. R0 # PLUS /\ R0 # MINUS /\ PLUS # MINUS /\ SP # PLUS /\ SP # MINUS /\ SP # R0
  BY DEF R0, PLUS, MINUS, SP
<1>3. ASSUME NEW codes, NEW e, AluExpr(x) = <<codes, e>>, EncAssign(x.c, x.rd, x.short, e) = x
      PROVE  Kept(x)
  BY <1>1, <1>3, SameAlias, RegisterKept
<1>4. CASE x.rs1 = R0
  <2>1. AluExpr(x) = <<{x.rs2}, <<"neg", x.rs2>>>>
    BY <1>1, <1>4 DEF AluExpr, Rotations, Shifts
  <2>2. EncAssign(x.c, x.rd, x.short, <<"neg", x.rs2>>) = x
    BY <1>4, NegEncoded
  <2> QED
    BY <1>3, <2>1, <2>2
<1>5. ASSUME x.rs1 # R0, NEW sign \in {PLUS, MINUS}, x.rs2 = sign
      PROVE  Kept(x)
  <2> DEFINE o == IF sign = PLUS THEN "-" ELSE "+"
             e == Bin(Reg(x.rs1), o, Dec(1))
             z == IF sign = PLUS THEN MINUS ELSE PLUS
             y == AluR("add", x.short, x.rd, x.rs1, x.c, z)
  <2>1. AluExpr(x) = <<{x.rs1}, e>>
    BY <1>1, <1>2, <1>5 DEF AluExpr, Rotations, Shifts
  <2>2. EncAssign(x.c, x.rd, x.short, e) = IF x.rd = SP /\ x.rs1 = SP THEN x ELSE y
    BY <1>2, <1>5, OneEncoded
  <2>3. CASE x.rd = SP /\ x.rs1 = SP
    BY <1>3, <2>1, <2>2, <2>3
  <2>4. CASE ~(x.rd = SP /\ x.rs1 = SP)
    <3>1. AluExpr(y) = <<{x.rs1}, e>>
      <4>1. y.f = "add" /\ y.rs1 = x.rs1 /\ y.rd = x.rd /\ y.rs2 = z
        BY DEF AluR
      <4> HIDE DEF y
      <4> QED
        BY <1>2, <1>5, <2>4, <4>1 DEF AluExpr, Rotations, Shifts
    <3>2. CaAlias(x, y)
      <4>1. /\ y.op = "alu" /\ y.f = "add" /\ y.c = x.c /\ y.short = x.short /\ y.rd = x.rd
            /\ y.rs1 = x.rs1 /\ y.rs2 = z /\ x.op = "alu"
        BY DEF AluR
      <4>2. (x.rs2 = PLUS /\ z = MINUS) \/ (x.rs2 = MINUS /\ z = PLUS)
        BY <1>2, <1>5
      <4> HIDE DEF y, z
      <4> QED
        BY <1>1, <2>4, <4>1, <4>2 DEF CaAlias
    <3> HIDE DEF e, z
    <3> QED
      BY <1>1, <2>1, <2>2, <2>4, <3>1, <3>2, RegisterKept
  <2> QED
    BY <2>3, <2>4
<1>6. CASE x.rs1 # R0 /\ x.rs2 \notin {PLUS, MINUS}
  <2>1. AluExpr(x) = <<{x.rs1, x.rs2}, Bin(Reg(x.rs1), "-", Reg(x.rs2))>>
    BY <1>1, <1>6 DEF AluExpr, Rotations, Shifts
  <2>2. EncAssign(x.c, x.rd, x.short, Bin(Reg(x.rs1), "-", Reg(x.rs2))) = x
    BY <1>6, RegistersEncoded
  <2> QED
    BY <1>3, <2>1, <2>2
<1> QED
  BY <1>4, <1>5, <1>6

LEMMA ReverseKept ==
  ASSUME NEW x, x = AluR("rsub", x.short, x.rd, x.rs1, x.c, x.rs2), Clean(Disassemble(x))
  PROVE  Kept(x)
<1> DEFINE e == Bin(Reg(x.rs2), "-", Reg(x.rs1))
           y == AluR("sub", x.short, x.rd, x.rs2, x.c, x.rs1)
<1>1. x.f = "rsub" /\ x.f \notin Tests /\ x.f # "res5" /\ "sub" \notin Tests
  BY DEF AluR, Tests
<1>2. AluExpr(x) = <<{x.rs1, x.rs2}, e>>
  BY <1>1 DEF AluExpr, Rotations, Shifts
<1>3. CASE x.rs1 \in {PLUS, MINUS} \/ x.rs2 = R0
  <2>1. EncAssign(x.c, x.rd, x.short, e) = x
    BY <1>3, RegistersEncoded
  <2> HIDE DEF e
  <2> QED
    BY <1>1, <1>2, <2>1, SameAlias, RegisterKept
<1>4. CASE ~(x.rs1 \in {PLUS, MINUS} \/ x.rs2 = R0)
  <2>1. EncAssign(x.c, x.rd, x.short, e) = y
    BY <1>4, RegistersEncoded
  <2>2. AluExpr(y) = <<{x.rs1, x.rs2}, e>>
    <3>1. y.f = "sub" /\ y.rs1 = x.rs2 /\ y.rs2 = x.rs1
      BY DEF AluR
    <3> HIDE DEF y
    <3>2. AluExpr(y) = <<{x.rs2, x.rs1}, e>>
      BY <1>4, <3>1 DEF AluExpr, Rotations, Shifts
    <3> QED
      BY <3>2
  <2>3. CaAlias(x, y)
    <3>1. /\ y.op = "alu" /\ y.f = "sub" /\ y.c = x.c /\ y.short = x.short /\ y.rd = x.rd
          /\ y.rs1 = x.rs2 /\ y.rs2 = x.rs1 /\ x.op = "alu"
      BY DEF AluR
    <3> HIDE DEF y
    <3> QED
      BY <1>1, <3>1 DEF CaAlias
  <2> HIDE DEF e
  <2> QED
    BY <1>1, <1>2, <2>1, <2>2, <2>3, RegisterKept
<1> QED
  BY <1>3, <1>4

LEMMA RotationKept ==
  ASSUME NEW x, x = AluR(x.f, x.short, x.rd, x.rs1, x.c, x.rs2), x.f \in Rotations, Clean(Disassemble(x))
  PROVE  Kept(x)
<1> DEFINE e == <<"rot", x.rs1, x.f>>
           y == AluR(x.f, x.short, x.rd, x.rs1, x.c, R0)
<1>1. x.f \notin Tests /\ x.f # "res5"
  BY DEF Rotations, Tests
<1>2. AluExpr(x) = <<{x.rs1}, e>>
  BY DEF AluExpr, Rotations, Shifts
<1>3. AluExpr(y) = <<{x.rs1}, e>>
  <2>1. y.f = x.f /\ y.rs1 = x.rs1
    BY DEF AluR
  <2> HIDE DEF y
  <2> QED
    BY <2>1 DEF AluExpr, Rotations, Shifts
<1>4. EncAssign(x.c, x.rd, x.short, e) = y
  BY RotEncoded
<1>5. CaAlias(x, y)
  <2>1. /\ y.op = "alu" /\ y.f = x.f /\ y.c = x.c /\ y.short = x.short /\ y.rd = x.rd
        /\ y.rs1 = x.rs1 /\ x.op = "alu"
    BY DEF AluR
  <2> HIDE DEF y
  <2> QED
    BY <2>1 DEF CaAlias
<1> HIDE DEF e
<1> QED
  BY <1>1, <1>2, <1>3, <1>4, <1>5, RegisterKept

\* One, as a number of places to shift by.
LEMMA OneFits ==
  /\ 1 \in 0 .. WordBits - 1 /\ FitsU16(1) /\ Low16(1) = 1 /\ 1 % WordBits = 1 /\ 1 \in Short
<1>1. Half \in Nat /\ Half > 0 /\ WordBits \in Nat /\ WordBits > 1
  BY FieldWidths
<1>2. 1 \in 0 .. WordBits - 1 /\ 1 % WordBits = 1
  BY <1>1
<1>3. FitsU16(1) /\ Low16(1) = 1 /\ 1 \in Short
  BY <1>1 DEF FitsU16, Low16, Short
<1> QED
  BY <1>2, <1>3

LEMMA FunctionKept ==
  ASSUME NEW x, x = AluR(x.f, x.short, x.rd, x.rs1, x.c, x.rs2), Clean(Disassemble(x)),
         x.f \in Shifts \cup Logic, ~(x.f \in Shifts /\ x.rs2 = PLUS)
  PROVE  Kept(x)
<1> DEFINE e == Bin(Reg(x.rs1), Symbol(x.f), Reg(x.rs2))
<1>1. x.f \notin Tests /\ x.f # "res5" /\ x.f \notin Rotations /\ x.f \notin {"add", "sub", "rsub"}
  BY DEF Shifts, Logic, Tests, Rotations
<1>2. AluExpr(x) = <<{x.rs1, x.rs2}, e>>
  BY <1>1 DEF AluExpr
<1>3. IsReg(Reg(x.rs2)) /\ Reg(x.rs2)[2] = x.rs2
  BY DEF IsReg, Reg
<1>4. EncShift(x.f, x.c, x.rd, x.short, x.rs1, Reg(x.rs2)) = x
  BY <1>3 DEF EncShift
<1>5. EncLogic(x.f, x.c, x.rd, x.short, x.rs1, Reg(x.rs2)) = x
  BY <1>3 DEF EncLogic
<1>6. EncAssign(x.c, x.rd, x.short, e) = x
  BY <1>4, <1>5, FunctionEncoded
<1> HIDE DEF e
<1> QED
  BY <1>1, <1>2, <1>6, SameAlias, RegisterKept

\* A shift of rD by one place comes back as the form with an immediate.
LEMMA ShiftByOneKept ==
  ASSUME NEW x, x = AluR(x.f, x.short, x.rd, x.rs1, x.c, x.rs2), Clean(Disassemble(x)),
         x.f \in Shifts, x.rs2 = PLUS
  PROVE  Kept(x)
<1> DEFINE e == Bin(Reg(x.rs1), Symbol(x.f), Dec(1))
           text == <<"assign", x.c, x.rd, x.short, e>>
           y == [op |-> "imm", f |-> x.f, short |-> x.short, rd |-> x.rd, n |-> 1]
<1>1. /\ x.f \notin Tests /\ x.f # "res5" /\ x.f \notin Rotations /\ x.f \notin {"add", "sub", "rsub"}
      /\ x.op = "alu"
  BY DEF Shifts, Tests, Rotations, AluR
<1>2. AluExpr(x) = <<{x.rs1}, e>>
  BY <1>1 DEF AluExpr
<1>3. /\ ~IsReg(Dec(1)) /\ Dec(1)[2] = 1
  BY DEF IsReg, Dec
<1>4. EncAssign(x.c, x.rd, x.short, e)
        = IF x.rs1 = x.rd /\ x.c = "true" THEN AluI(x.f, x.short, x.rd, x.c, 1) ELSE x
  <2>1. EncShift(x.f, x.c, x.rd, x.short, x.rs1, Dec(1))
          = IF x.rs1 = x.rd /\ x.c = "true" THEN AluI(x.f, x.short, x.rd, x.c, 1) ELSE x
    BY <1>3, OneFits DEF EncShift
  <2>2. EncAssign(x.c, x.rd, x.short, e) = EncShift(x.f, x.c, x.rd, x.short, x.rs1, Dec(1))
    BY FunctionEncoded
  <2> QED
    BY <2>1, <2>2
<1>5. CASE ~(x.rs1 = x.rd /\ x.c = "true")
  <2> HIDE DEF e
  <2> QED
    BY <1>1, <1>2, <1>4, <1>5, SameAlias, RegisterKept
<1>6. ASSUME x.rs1 = x.rd, x.c = "true"
      PROVE  Kept(x)
  <2>1. AluI(x.f, x.short, x.rd, x.c, 1) = y
    BY <1>6, OneFits DEF AluI
  <2>2. Encode(text) = y
    BY <1>4, <1>6, <2>1, AssignEncoded
  <2>3. Disassemble(x) = text /\ ({x.rs1} \cup {x.rd}) \cap {16, 27, 28, 29, 31} = {}
    <3>1. Disassemble(x) = Naming({x.rs1} \cup {x.rd}, text)
      BY <1>1, <1>2, <1>6, RegisterText DEF CondNamed
    <3> HIDE DEF text
    <3> QED
      BY <3>1, Named
  <2>4. Disassemble(y) = text
    <3>1. y.op = "imm" /\ y.f = x.f /\ y.short = x.short /\ y.rd = x.rd /\ y.n = 1
      OBVIOUS
    <3> HIDE DEF y
    <3>2. Disassemble(y) = AluImmText(y)
      BY <3>1 DEF Disassemble, Branches
    <3>3. ImmExpr(y) = e
      BY <1>1, <1>6, <3>1, OneFits DEF ImmExpr
    <3> HIDE DEF e
    <3>4. AluImmText(y) = Naming({x.rd}, text)
      BY <1>1, <1>6, <3>1, <3>3 DEF AluImmText
    <3> HIDE DEF text
    <3>5. {x.rd} \cap {16, 27, 28, 29, 31} = {}
      BY <2>3
    <3> QED
      BY <3>2, <3>4, <3>5, NamedToo
  <2>5. y.op = "imm" /\ y.f = x.f /\ y.short = x.short /\ y.rd = x.rd /\ y.n = 1
    OBVIOUS
  <2> HIDE DEF y, text
  <2>6. CaAlias(x, y)
    BY <1>1, <1>6, <2>5 DEF CaAlias
  <2> QED
    BY <1>1, <2>2, <2>3, <2>4, <2>5, <2>6, SpelledAlikeAlu
<1> QED
  BY <1>5, <1>6

\* A test keeps all but rD, which is not printed.
LEMMA TestKept ==
  ASSUME NEW x, x = AluR(x.f, x.short, x.rd, x.rs1, x.c, x.rs2), Clean(Disassemble(x)), x.f \in Tests
  PROVE  Kept(x)
<1> DEFINE text == <<"test", x.c, x.short, x.rs1, Symbol(x.f), Reg(x.rs2)>>
           y == AluR(x.f, x.short, 0, x.rs1, x.c, x.rs2)
<1>1. x.op = "alu" /\ x.f # "res5"
  BY DEF AluR, Tests
<1>2. /\ y.op = "alu" /\ y.f = x.f /\ y.short = x.short /\ y.rs1 = x.rs1 /\ y.c = x.c /\ y.rs2 = x.rs2
  BY DEF AluR
<1>3. Symbol(x.f) = IF x.f = "cmp" THEN "-" ELSE "&"
  BY DEF Tests, Symbol
<1>4. Encode(text) = y
  <2>1. Encode(text) = EncTest(x.c, x.short, x.rs1, Symbol(x.f), Reg(x.rs2))
    BY DEF Encode
  <2>2. IsReg(Reg(x.rs2)) /\ Reg(x.rs2)[2] = x.rs2
    BY DEF IsReg, Reg
  <2> QED
    BY <1>3, <2>1, <2>2 DEF EncTest, Tests
<1> HIDE DEF y
<1>5. CondNamed(x.c) /\ Disassemble(x) = Naming({x.rs1, x.rs2}, text)
  <2>1. Disassemble(x) = AluRegText(x)
    BY <1>1 DEF Disassemble, Branches
  <2> QED
    BY <1>1, <2>1 DEF AluRegText, Clean
<1>6. Disassemble(y) = Naming({x.rs1, x.rs2}, text)
  <2>1. Disassemble(y) = AluRegText(y)
    BY <1>2 DEF Disassemble, Branches
  <2> QED
    BY <1>1, <1>2, <1>5, <2>1 DEF AluRegText
<1> HIDE DEF text
<1>7. Naming({x.rs1, x.rs2}, text) = text
  BY <1>5, Named
<1>8. CaAlias(x, y)
  BY <1>1, <1>2 DEF CaAlias
<1> QED
  BY <1>1, <1>2, <1>4, <1>5, <1>6, <1>7, <1>8, SpelledAlikeAlu

LEMMA AluRegKept ==
  ASSUME NEW x \in [op: {"alu"}, f: AluFunction, short: BOOLEAN, rd: Code, rs1: Code, rs2: Code, c: Condition],
         Clean(Disassemble(x))
  PROVE  Kept(x)
<1>1. x = AluR(x.f, x.short, x.rd, x.rs1, x.c, x.rs2) /\ x.op = "alu" /\ x.f \in AluFunction
  BY DEF AluR
<1>2. x.f # "res5"
  BY <1>1 DEF Disassemble, Branches, AluRegText, Clean
<1>3. x.f \in {"add", "sub", "rsub"} \cup Rotations \cup Shifts \cup Logic \cup Tests
  BY <1>1, <1>2 DEF AluFunction, Rotations, Shifts, Logic, Tests
<1> QED
  BY <1>1, <1>3, AddKept, SubKept, ReverseKept, RotationKept, FunctionKept, ShiftByOneKept, TestKept

\* Sums and differences with a printed number, which are not the ones +n and
\* -n are printed as.
LEMMA NumberEncoded ==
  ASSUME NEW rd, NEW short, NEW a, NEW v
  PROVE  /\ EncAssign("true", rd, short, Bin(Reg(a), "+", Num(v))) =
              IF KeepsImmForm(rd, a, "true", v) THEN AluI("add", short, rd, "true", v)
              ELSE EncFmt5(short, rd, a, "true", v)
         /\ EncAssign("true", rd, short, Bin(Reg(a), "-", Num(v))) =
              IF KeepsImmForm(rd, a, "true", v) THEN AluI("sub", short, rd, "true", v)
              ELSE EncFmt5(short, rd, a, "true", -v)
<1>1. ~IsReg(Num(v)) /\ ~Bare1(Num(v)) /\ Num(v)[2] = v
  BY DEF IsReg, Bare1, Num
<1>2. EncPlus("true", rd, short, a, Num(v)) =
        IF KeepsImmForm(rd, a, "true", v) THEN AluI("add", short, rd, "true", v)
        ELSE EncFmt5(short, rd, a, "true", v)
  BY <1>1 DEF EncPlus
<1>3. EncMinus("true", rd, short, a, Num(v)) =
        IF KeepsImmForm(rd, a, "true", v) THEN AluI("sub", short, rd, "true", v)
        ELSE EncFmt5(short, rd, a, "true", -v)
  BY <1>1 DEF EncMinus
<1> QED
  BY <1>2, <1>3, BinEncoded

\* The number of a sum, and its negation, in a field of 16 bits.
LEMMA NegatedSigns ==
  ASSUME NEW n \in Short, Sext16(n) > 0
  PROVE  /\ FitsS16(-Sext16(n)) /\ Low16(-Sext16(n)) \in Short
         /\ Sext16(Low16(-Sext16(n))) = -Sext16(n)
<1>1. Half \in Nat /\ Half > 0 /\ n \in 0 .. 2 * Half - 1
  BY FieldWidths DEF Short
<1>2. Sext16(n) = n /\ n < Half /\ n > 0
  BY <1>1 DEF Sext16
<1>3. Low16(-n) = 2 * Half - n
  BY <1>1, <1>2 DEF Low16
<1>4. FitsS16(-n)
  BY <1>1, <1>2 DEF FitsS16
<1>5. Sext16(2 * Half - n) = -n /\ 2 * Half - n \in 0 .. 2 * Half - 1
  BY <1>1, <1>2 DEF Sext16
<1> QED
  BY <1>2, <1>3, <1>4, <1>5 DEF Short

\* The words that have an immediate, and their texts.
ImmWord(f, short, rd, n)    == [op |-> "imm", f |-> f, short |-> short, rd |-> rd, n |-> n]
Add3Word(short, rd, rs3, n) == [op |-> "add3", short |-> short, rd |-> rd, rs3 |-> rs3, n |-> n]

LEMMA NumberFits ==
  ASSUME NEW n \in Short
  PROVE  /\ \A f, short, rd : AluI(f, short, rd, "true", Sext16(n)) = ImmWord(f, short, rd, n)
         /\ \A short, rd, rs3 : EncFmt5(short, rd, rs3, "true", Sext16(n)) = Add3Word(short, rd, rs3, n)
BY Signs DEF AluI, EncFmt5, ImmWord, Add3Word

LEMMA ImmText ==
  ASSUME NEW y, y.op = "imm", y.f \notin Tests, y.f # "res5"
  PROVE  Disassemble(y) = Naming({y.rd}, <<"assign", "true", y.rd, y.short, ImmExpr(y)>>)
<1>1. Disassemble(y) = AluImmText(y)
  BY DEF Disassemble, Branches
<1> QED
  BY <1>1 DEF AluImmText

\* The sum of a register and a number, printed from format 5.
LEMMA SumText ==
  ASSUME NEW short, NEW rd, NEW rs3, rs3 # R0, NEW n \in Short, Sext16(n) # 0
  PROVE  Disassemble(Add3Word(short, rd, rs3, n)) =
           Naming({rd, rs3},
             <<"assign", "true", rd, short,
               IF Sext16(n) < 0 THEN Bin(Reg(rs3), "-", Num(-Sext16(n))) ELSE Bin(Reg(rs3), "+", Num(Sext16(n)))>>)
<1> DEFINE y == Add3Word(short, rd, rs3, n)
<1>1. y.op = "add3" /\ y.short = short /\ y.rd = rd /\ y.rs3 = rs3 /\ y.n = n
  BY DEF Add3Word
<1> HIDE DEF y
<1>2. Disassemble(y) = Add3Text(y)
  BY <1>1 DEF Disassemble, Branches
<1>3. Add3Text(y) =
           Naming({rd, rs3},
             <<"assign", "true", rd, short,
               IF Sext16(n) < 0 THEN Bin(Reg(rs3), "-", Num(-Sext16(n))) ELSE Bin(Reg(rs3), "+", Num(Sext16(n)))>>)
  BY <1>1 DEF Add3Text
<1> QED
  BY <1>2, <1>3 DEF y

\* An operation with an immediate that comes back as the word y: it is enough
\* that the expression does, and that y's text is this one.
LEMMA ImmSpelled ==
  ASSUME NEW x, x.op = "imm", x.f \notin Tests, Clean(Disassemble(x)),
         NEW e, ImmExpr(x) = e,
         NEW y, y.op \in {"alu", "imm", "add3"}, EncAssign("true", x.rd, x.short, e) = y,
         CaAlias(x, y), NEW codes, codes \subseteq {x.rd},
         Disassemble(y) = Naming(codes, <<"assign", "true", x.rd, x.short, e>>)
  PROVE  Kept(x)
<1> DEFINE text == <<"assign", "true", x.rd, x.short, e>>
<1>1. x.f # "res5"
  BY DEF Disassemble, Branches, AluImmText, Clean
<1>2. Disassemble(x) = Naming({x.rd}, text)
  BY <1>1, ImmText
<1>3. Encode(text) = y
  BY AssignEncoded
<1> HIDE DEF text
<1>4. Disassemble(x) = text /\ {x.rd} \cap {16, 27, 28, 29, 31} = {}
  BY <1>2, Named
<1>5. codes \cap {16, 27, 28, 29, 31} = {}
  BY <1>4
<1>6. Disassemble(y) = text
  BY <1>5, NamedToo DEF text
<1> QED
  BY <1>3, <1>4, <1>6, SpelledAlikeAlu

LEMMA ImmSumKept ==
  ASSUME NEW x, x = ImmWord(x.f, x.short, x.rd, x.n), x.n \in Short, x.f \in {"add", "sub"},
         Clean(Disassemble(x))
  PROVE  Kept(x)
<1> DEFINE s == Sext16(x.n)
           e == Bin(Reg(x.rd), Symbol(x.f), Num(s))
<1>1. x.op = "imm" /\ x.f \notin Tests /\ x.f # "res5"
  BY DEF ImmWord, Tests
<1>2. ImmExpr(x) = e
  BY DEF ImmExpr, Shifts, Rotations
<1>3. s \in Int /\ Symbol(x.f) = IF x.f = "add" THEN "+" ELSE "-"
  <2>1. Half \in Nat
    BY FieldWidths
  <2>2. s \in -Half .. Half - 1
    BY Signs
  <2> HIDE DEF s
  <2> QED
    BY <2>1, <2>2 DEF Symbol
<1>4. CASE KeepsImmForm(x.rd, x.rd, "true", s)
  <2>1. EncAssign("true", x.rd, x.short, e) = AluI(x.f, x.short, x.rd, "true", s)
    BY <1>3, <1>4, NumberEncoded
  <2>2. AluI(x.f, x.short, x.rd, "true", s) = x
    BY NumberFits
  <2>3. Disassemble(x) = Naming({x.rd}, <<"assign", "true", x.rd, x.short, e>>)
    BY <1>1, <1>2, ImmText
  <2> HIDE DEF e
  <2> QED
    BY <1>1, <1>2, <2>1, <2>2, <2>3, SameAlias, ImmSpelled
<1>5. ASSUME ~KeepsImmForm(x.rd, x.rd, "true", s)
      PROVE  Kept(x)
  <2>1. s > 0 /\ x.rd # R0
    BY <1>3, <1>5 DEF KeepsImmForm
  <2> DEFINE n == IF x.f = "add" THEN x.n ELSE Low16(-s)
             y == Add3Word(x.short, x.rd, x.rd, n)
  <2>2. n \in Short /\ Sext16(n) = IF x.f = "add" THEN s ELSE -s
    BY <2>1, NegatedSigns
  <2>3. EncAssign("true", x.rd, x.short, e) = y
    <3>1. CASE x.f = "add"
      <4>1. EncAssign("true", x.rd, x.short, e) = EncFmt5(x.short, x.rd, x.rd, "true", s)
        BY <1>3, <1>5, <3>1, NumberEncoded
      <4> QED
        BY <3>1, <4>1, NumberFits
    <3>2. CASE x.f = "sub"
      <4>1. EncAssign("true", x.rd, x.short, e) = EncFmt5(x.short, x.rd, x.rd, "true", -s)
        BY <1>3, <1>5, <3>2, NumberEncoded
      <4>2. EncFmt5(x.short, x.rd, x.rd, "true", -s) = y
        BY <2>1, <3>2, NegatedSigns DEF EncFmt5, Add3Word
      <4> QED
        BY <4>1, <4>2
    <3> QED
      BY <3>1, <3>2
  <2> HIDE DEF n
  <2>4. e = IF Sext16(n) < 0 THEN Bin(Reg(x.rd), "-", Num(-Sext16(n))) ELSE Bin(Reg(x.rd), "+", Num(Sext16(n)))
    <3> HIDE DEF s
    <3>1. CASE x.f = "add"
      BY <1>3, <2>1, <2>2, <3>1
    <3>2. CASE x.f = "sub"
      <4>1. Sext16(n) < 0 /\ -Sext16(n) = s
        BY <1>3, <2>1, <2>2, <3>2
      <4> QED
        BY <1>3, <3>2, <4>1
    <3> QED
      BY <3>1, <3>2
  <2>5. Sext16(n) # 0
    BY <1>3, <2>1, <2>2
  <2> HIDE DEF e, s
  <2>6. Disassemble(y) = Naming({x.rd, x.rd}, <<"assign", "true", x.rd, x.short, e>>)
    BY <2>1, <2>2, <2>4, <2>5, SumText
  <2>7. y.op = "add3" /\ y.short = x.short /\ y.rd = x.rd /\ y.rs3 = x.rd /\ y.n = n
    BY DEF Add3Word
  <2> HIDE DEF y
  <2>9. CaAlias(x, y)
    <3>1. x.f = "sub" => Sext16(x.n) > 0 /\ n = Low16(-Sext16(x.n))
      BY <2>1 DEF n, s
    <3>2. x.f = "add" => n = x.n
      BY DEF n
    <3> QED
      BY <1>1, <2>7, <3>1, <3>2 DEF CaAlias
  <2>8. {x.rd, x.rd} \subseteq {x.rd}
    OBVIOUS
  <2> QED
    BY <1>1, <1>2, <2>3, <2>6, <2>7, <2>8, <2>9, ImmSpelled
<1> QED
  BY <1>4, <1>5

LEMMA ImmLogicKept ==
  ASSUME NEW x, x = ImmWord(x.f, x.short, x.rd, x.n), x.n \in Short, x.f \in Logic,
         Clean(Disassemble(x))
  PROVE  Kept(x)
<1> DEFINE s == Sext16(x.n)
           e == Bin(Reg(x.rd), Symbol(x.f), Num(s))
<1>1. x.op = "imm" /\ x.f \notin Tests /\ x.f # "res5" /\ x.f \notin Shifts
  BY DEF ImmWord, Tests, Logic, Shifts
<1>2. ImmExpr(x) = e
  BY DEF ImmExpr, Shifts, Rotations, Logic
<1>3. ~IsReg(Num(s)) /\ Num(s)[2] = s
  BY DEF IsReg, Num
<1>4. EncLogic(x.f, "true", x.rd, x.short, x.rd, Num(s)) = x
  BY <1>3, NumberFits DEF EncLogic
<1>5. EncAssign("true", x.rd, x.short, e) = x
  BY <1>1, <1>4, FunctionEncoded
<1>6. Disassemble(x) = Naming({x.rd}, <<"assign", "true", x.rd, x.short, e>>)
  BY <1>1, <1>2, ImmText
<1> HIDE DEF e
<1> QED
  BY <1>1, <1>2, <1>5, <1>6, SameAlias, ImmSpelled

LEMMA ImmReverseKept ==
  ASSUME NEW x, x = ImmWord("rsub", x.short, x.rd, x.n), x.n \in Short, Clean(Disassemble(x))
  PROVE  Kept(x)
<1> DEFINE s == Sext16(x.n)
           e == Bin(Num(s), "-", Reg(x.rd))
<1>1. x.op = "imm" /\ x.f = "rsub" /\ x.f \notin Tests /\ x.f # "res5"
  BY DEF ImmWord, Tests
<1>2. ImmExpr(x) = e
  BY <1>1 DEF ImmExpr, Shifts, Rotations
<1>3. IsNum(Num(s)) /\ ~IsReg(Num(s)) /\ Num(s)[2] = s
  BY DEF IsNum, IsReg, Num
<1>4. EncAssign("true", x.rd, x.short, e) = x
  <2>1. EncAssign("true", x.rd, x.short, e) = EncBin("true", x.rd, x.short, Num(s), "-", Reg(x.rd))
    BY DEF EncAssign, Bin
  <2>2. EncBin("true", x.rd, x.short, Num(s), "-", Reg(x.rd)) = AluI("rsub", x.short, x.rd, "true", s)
    BY <1>3 DEF EncBin
  <2> QED
    BY <2>1, <2>2, NumberFits
<1>5. Disassemble(x) = Naming({x.rd}, <<"assign", "true", x.rd, x.short, e>>)
  BY <1>1, <1>2, ImmText
<1> HIDE DEF e
<1> QED
  BY <1>1, <1>2, <1>4, <1>5, SameAlias, ImmSpelled

LEMMA ImmRotationKept ==
  ASSUME NEW x, x = ImmWord(x.f, x.short, x.rd, x.n), x.f \in Rotations, Clean(Disassemble(x))
  PROVE  Kept(x)
<1> DEFINE e == <<"rot", x.rd, x.f>>
           y == AluR(x.f, x.short, x.rd, x.rd, "true", R0)
<1>1. x.op = "imm" /\ x.f \notin Tests /\ x.f # "res5"
  BY DEF ImmWord, Tests, Rotations
<1>2. ImmExpr(x) = e
  BY DEF ImmExpr, Rotations, Shifts
<1>3. EncAssign("true", x.rd, x.short, e) = y
  BY RotEncoded
<1>4. Disassemble(y) = Naming({x.rd}, <<"assign", "true", x.rd, x.short, e>>) /\ y.op = "alu"
  <2>1. /\ y.op = "alu" /\ y.f = x.f /\ y.short = x.short /\ y.rd = x.rd /\ y.rs1 = x.rd
        /\ y.c = "true"
    BY DEF AluR
  <2> HIDE DEF y
  <2>2. AluExpr(y) = <<{x.rd}, e>>
    BY <2>1 DEF AluExpr, Rotations, Shifts
  <2> HIDE DEF e
  <2>3. Disassemble(y) = Naming({x.rd} \cup {y.rd}, <<"assign", y.c, y.rd, y.short, e>>)
    BY <1>1, <2>1, <2>2, RegisterText DEF CondNamed
  <2>4. {x.rd} \cup {x.rd} = {x.rd}
    OBVIOUS
  <2> QED
    BY <2>1, <2>3, <2>4
<1>5. CaAlias(x, y)
  <2>1. /\ y.op = "alu" /\ y.f = x.f /\ y.c = "true" /\ y.short = x.short /\ y.rd = x.rd /\ y.rs1 = x.rd
    BY DEF AluR
  <2> HIDE DEF y
  <2> QED
    BY <1>1, <2>1 DEF CaAlias
<1> HIDE DEF e, y
<1> QED
  BY <1>1, <1>2, <1>3, <1>4, <1>5, ImmSpelled

\* Only the low five bits of a number of places are printed.
LEMMA Places ==
  ASSUME NEW n \in Short
  PROVE  LET k == n % WordBits
         IN  k \in 0 .. WordBits - 1 /\ FitsU16(k) /\ Low16(k) = k /\ k % WordBits = k /\ k \in Short
<1> DEFINE k == n % WordBits
<1>1. Half \in Nat /\ Half > 0 /\ n \in 0 .. 2 * Half - 1 /\ WordBits \in Nat /\ WordBits > 1
  BY FieldWidths DEF Short
<1>2. k \in 0 .. WordBits - 1 /\ k <= n
  BY <1>1
<1>3. k % WordBits = k
  <2> HIDE DEF k
  <2> QED
    BY <1>1, <1>2
<1>4. k \in Short
  <2> HIDE DEF k
  <2> QED
    BY <1>1, <1>2 DEF Short
<1> QED
  BY <1>2, <1>3, <1>4, NumberKept

LEMMA ImmShiftKept ==
  ASSUME NEW x, x = ImmWord(x.f, x.short, x.rd, x.n), x.n \in Short, x.f \in Shifts,
         Clean(Disassemble(x))
  PROVE  Kept(x)
<1> DEFINE k == x.n % WordBits
           e == Bin(Reg(x.rd), Symbol(x.f), Dec(k))
           y == ImmWord(x.f, x.short, x.rd, k)
<1>1. x.op = "imm" /\ x.f \notin Tests /\ x.f # "res5"
  BY DEF ImmWord, Tests, Shifts
<1>2. ImmExpr(x) = e
  BY DEF ImmExpr, Shifts, Rotations
<1>3. k \in 0 .. WordBits - 1 /\ FitsU16(k) /\ Low16(k) = k /\ k % WordBits = k
  BY Places
<1> HIDE DEF k
<1>4. EncAssign("true", x.rd, x.short, e) = y
  <2>1. ~IsReg(Dec(k)) /\ Dec(k)[2] = k
    BY DEF IsReg, Dec
  <2>2. EncShift(x.f, "true", x.rd, x.short, x.rd, Dec(k)) = y
    BY <1>3, <2>1 DEF EncShift, AluI, ImmWord
  <2> QED
    BY <2>2, FunctionEncoded
<1>5. Disassemble(y) = Naming({x.rd}, <<"assign", "true", x.rd, x.short, e>>) /\ y.op = "imm"
  <2>1. y.op = "imm" /\ y.f = x.f /\ y.short = x.short /\ y.rd = x.rd /\ y.n = k
    BY DEF ImmWord
  <2> HIDE DEF y
  <2>2. ImmExpr(y) = e
    BY <1>3, <2>1 DEF ImmExpr, Shifts, Rotations
  <2> HIDE DEF e
  <2> QED
    BY <1>1, <2>1, <2>2, ImmText
<1>6. CaAlias(x, y)
  <2>1. y.op = "imm" /\ y.f = x.f /\ y.short = x.short /\ y.rd = x.rd /\ y.n = x.n % WordBits
    BY DEF ImmWord, k
  <2> HIDE DEF y
  <2> QED
    BY <1>1, <2>1 DEF CaAlias
<1> HIDE DEF e, y
<1> QED
  BY <1>1, <1>2, <1>4, <1>5, <1>6, ImmSpelled

LEMMA ImmTestKept ==
  ASSUME NEW x, x = ImmWord(x.f, x.short, x.rd, x.n), x.n \in Short, x.f \in Tests, Clean(Disassemble(x))
  PROVE  Kept(x)
<1> DEFINE s == Sext16(x.n)
           text == <<"test", "true", x.short, x.rd, Symbol(x.f), Num(s)>>
<1>1. x.op = "imm" /\ x.f # "res5"
  BY DEF ImmWord, Tests
<1>2. Disassemble(x) = text
  <2>1. Disassemble(x) = AluImmText(x)
    BY <1>1 DEF Disassemble, Branches
  <2> QED
    BY <1>1, <2>1 DEF AluImmText, Naming, Clean
<1>3. ~IsReg(Num(s)) /\ Num(s)[2] = s
  BY DEF IsReg, Num
<1>4. Symbol(x.f) = IF x.f = "cmp" THEN "-" ELSE "&"
  BY DEF Tests, Symbol
<1>5. Encode(text) = EncTest("true", x.short, x.rd, Symbol(x.f), Num(s))
  BY DEF Encode
<1>6. EncTest("true", x.short, x.rd, Symbol(x.f), Num(s)) = AluI(x.f, x.short, x.rd, "true", s)
  BY <1>3, <1>4 DEF EncTest, Tests
<1>7. Encode(text) = x
  BY <1>5, <1>6, NumberFits
<1> HIDE DEF text
<1> QED
  BY <1>1, <1>2, <1>7, SameAlias, SpelledAlikeAlu

LEMMA ImmKept ==
  ASSUME NEW x \in [op: {"imm"}, f: AluFunction, short: BOOLEAN, rd: Code, n: Short],
         Clean(Disassemble(x))
  PROVE  Kept(x)
<1>1. x = ImmWord(x.f, x.short, x.rd, x.n) /\ x.op = "imm" /\ x.f \in AluFunction /\ x.n \in Short
  BY DEF ImmWord
<1>2. x.f # "res5"
  BY <1>1 DEF Disassemble, Branches, AluImmText, Clean
<1>3. x.f \in {"add", "sub", "rsub"} \cup Rotations \cup Shifts \cup Logic \cup Tests
  BY <1>1, <1>2 DEF AluFunction, Rotations, Shifts, Logic, Tests
<1> QED
  BY <1>1, <1>3, ImmSumKept, ImmReverseKept, ImmLogicKept, ImmRotationKept, ImmShiftKept, ImmTestKept

LEMMA Add3Kept ==
  ASSUME NEW x \in [op: {"add3"}, short: BOOLEAN, rd: Code, rs3: Code, n: Short],
         Clean(Disassemble(x))
  PROVE  Kept(x)
<1> DEFINE s == Sext16(x.n)
<1>1. /\ x = Add3Word(x.short, x.rd, x.rs3, x.n) /\ x.op = "add3" /\ x.n \in Short
  BY DEF Add3Word
<1>2. Disassemble(x) = Add3Text(x)
  BY <1>1 DEF Disassemble, Branches
<1>3. s \in Int
  <2>1. Half \in Nat
    BY FieldWidths
  <2>2. s \in -Half .. Half - 1
    BY <1>1, Signs
  <2> HIDE DEF s
  <2> QED
    BY <2>1, <2>2
<1>4. CASE x.rs3 = R0
  <2> DEFINE text == <<"assign", "true", x.rd, x.short, Num(s)>>
  <2>1. Disassemble(x) = text
    BY <1>2, <1>4 DEF Add3Text, Naming, Clean
  <2>2. Num(s)[1] = "num" /\ Num(s)[2] = s
    BY DEF Num
  <2>3. EncAssign("true", x.rd, x.short, Num(s)) = EncFmt5(x.short, x.rd, R0, "true", s)
    BY <2>2 DEF EncAssign
  <2>4. EncFmt5(x.short, x.rd, R0, "true", s) = x
    BY <1>1, <1>4, NumberFits
  <2>5. Encode(text) = x
    BY <2>3, <2>4, AssignEncoded
  <2> HIDE DEF text
  <2> QED
    BY <1>1, <2>1, <2>5, SameAlias, SpelledAlikeAlu
<1>5. CASE x.rs3 # R0 /\ s = 0
  <2> DEFINE e == Reg(x.rs3)
             text == <<"assign", "true", x.rd, x.short, e>>
             y == AluR("add", x.short, x.rd, x.rs3, "true", R0)
  <2>1. Disassemble(x) = Naming({x.rd, x.rs3}, text)
    BY <1>2, <1>5 DEF Add3Text
  <2>2. Encode(text) = y
    BY AssignEncoded, RegEncoded
  <2>3. /\ y.op = "alu" /\ y.f = "add" /\ y.short = x.short /\ y.rd = x.rd /\ y.rs1 = x.rs3
        /\ y.rs2 = R0 /\ y.c = "true"
    BY DEF AluR
  <2> HIDE DEF y
  <2>4. AluExpr(y) = <<{x.rs3}, e>>
    BY <1>5, <2>3 DEF AluExpr, Rotations, Shifts, R0, PLUS, MINUS
  <2>5. Disassemble(y) = Naming({x.rs3} \cup {x.rd}, text)
    BY <2>3, <2>4, RegisterText DEF CondNamed, Tests
  <2>6. {x.rs3} \cup {x.rd} = {x.rd, x.rs3}
    OBVIOUS
  <2> HIDE DEF text
  <2>7. Naming({x.rd, x.rs3}, text) = text
    BY <2>1, Named
  <2>8. CaAlias(x, y)
    BY <1>1, <1>5, <2>3 DEF CaAlias
  <2> QED
    BY <1>1, <2>1, <2>2, <2>3, <2>5, <2>6, <2>7, <2>8, SpelledAlikeAlu
<1>6. CASE x.rs3 # R0 /\ s # 0
  <2> DEFINE e == IF s < 0 THEN Bin(Reg(x.rs3), "-", Num(-s)) ELSE Bin(Reg(x.rs3), "+", Num(s))
             text == <<"assign", "true", x.rd, x.short, e>>
  <2>1. Disassemble(x) = Naming({x.rd, x.rs3}, text)
    BY <1>2, <1>6 DEF Add3Text
  <2>2. EncAssign("true", x.rd, x.short, e) = EncFmt5(x.short, x.rd, x.rs3, "true", s)
    <3>1. CASE s < 0
      <4>1. ~KeepsImmForm(x.rd, x.rs3, "true", -s) /\ -(-s) = s
        BY <1>3, <1>6, <3>1 DEF KeepsImmForm
      <4> HIDE DEF s
      <4> QED
        BY <3>1, <4>1, NumberEncoded
    <3>2. CASE ~(s < 0)
      <4>1. ~KeepsImmForm(x.rd, x.rs3, "true", s)
        BY <1>3, <1>6, <3>2 DEF KeepsImmForm
      <4> HIDE DEF s
      <4> QED
        BY <3>2, <4>1, NumberEncoded
    <3> QED
      BY <3>1, <3>2
  <2>3. EncFmt5(x.short, x.rd, x.rs3, "true", s) = x
    BY <1>1, NumberFits
  <2>4. Encode(text) = x
    BY <2>2, <2>3, AssignEncoded
  <2> HIDE DEF text
  <2>5. Naming({x.rd, x.rs3}, text) = text
    BY <2>1, Named
  <2> QED
    BY <1>1, <2>1, <2>4, <2>5, SameAlias, SpelledAlikeAlu
<1> QED
  BY <1>4, <1>5, <1>6

LEMMA AluKept ==
  ASSUME NEW x \in AluWord, Clean(Disassemble(x))
  PROVE  Kept(x)
BY AluRegKept, ImmKept, Add3Kept DEF AluWord

-----------------------------------------------------------------------------
(* DA *)

\* The field that the encoder takes for the operand that is printed, or none.
Stored(zt) == IF zt = <<>> THEN DaNoWrite ELSE zt[1]

\* It is printed again as it was: a store through Y's own pointer is written
\* with that pointer, and read as p = 15.
LEMMA StoreKept ==
  ASSUME NEW y, y.p \in 0 .. 14, NEW z \in Field
  PROVE  ZText(DaZCanon(Stored(ZText(z, y)), y), y) = ZText(z, y)
<1> DEFINE zt == ZText(z, y)
<1>1. z = [p |-> z.p, i |-> z.i] /\ z.p \in 0 .. 15
  BY DEF Field
<1>2. CASE z.p = 0 \/ (z.p = 15 /\ y.p = 0)
  <2>1. zt = <<>>
    BY <1>2 DEF ZText
  <2>2. DaZCanon(DaNoWrite, y) = DaNoWrite /\ ZText(DaNoWrite, y) = <<>>
    BY DEF DaZCanon, DaNoWrite, ZText
  <2> QED
    BY <2>1, <2>2 DEF Stored
<1>3. CASE z.p = 15 /\ y.p # 0
  <2> DEFINE f == [p |-> y.p, i |-> z.i]
             k == [p |-> 15, i |-> z.i]
  <2>1. zt = <<f>> /\ Stored(<<f>>) = f
    BY <1>3 DEF ZText, Stored
  <2>2. DaZCanon(f, y) = k
    BY <1>3 DEF DaZCanon
  <2>3. ZText(k, y) = <<f>>
    BY <1>3 DEF ZText
  <2> HIDE DEF f, k
  <2> QED
    BY <2>1, <2>2, <2>3
<1>4. CASE z.p \in 1 .. 14
  <2>1. zt = <<z>> /\ Stored(<<z>>) = z
    BY <1>4 DEF ZText, Stored
  <2>2. CASE z.p = y.p
    <3> DEFINE k == [p |-> 15, i |-> z.i]
    <3>1. DaZCanon(z, y) = k
      BY <1>4, <2>2 DEF DaZCanon
    <3>2. ZText(k, y) = <<[p |-> y.p, i |-> z.i]>>
      BY <1>4, <2>2 DEF ZText
    <3>3. [p |-> y.p, i |-> z.i] = z
      BY <1>1, <2>2
    <3> QED
      BY <2>1, <3>1, <3>2, <3>3
  <2>3. CASE z.p # y.p
    <3>1. DaZCanon(z, y) = z
      BY <2>3 DEF DaZCanon
    <3> QED
      BY <2>1, <3>1
  <2> QED
    BY <2>2, <2>3
<1> QED
  BY <1>1, <1>2, <1>3, <1>4

\* What is stored, in the two words.
LEMMA StoreAlias ==
  ASSUME NEW y, y.p \in 0 .. 14, NEW z \in Field
  PROVE  /\ ZAlias(z, DaZCanon(Stored(ZText(z, y)), y), y)
         /\ ZText(z, y) = <<>> => ZAlias(z, DaZCanon(DaNoWrite, y), y) /\ DaZCanon(DaNoWrite, y).p = 0
<1>1. z = [p |-> z.p, i |-> z.i] /\ z.p \in 0 .. 15
  BY DEF Field
<1>2. DaZCanon(DaNoWrite, y).p = 0
  BY DEF DaZCanon, DaNoWrite
<1>3. CASE z.p = 0 \/ (z.p = 15 /\ y.p = 0)
  <2>1. ZText(z, y) = <<>> /\ Stored(<<>>) = DaNoWrite
    BY <1>3 DEF ZText, Stored
  <2> QED
    BY <1>2, <1>3, <2>1 DEF ZAlias
<1>4. CASE z.p = 15 /\ y.p # 0
  <2> DEFINE f == [p |-> y.p, i |-> z.i]
             k == [p |-> 15, i |-> z.i]
  <2>1. ZText(z, y) = <<f>> /\ Stored(<<f>>) = f /\ <<f>> # <<>>
    BY <1>4 DEF ZText, Stored
  <2>2. DaZCanon(f, y) = k
    BY <1>4 DEF DaZCanon
  <2>3. k = z
    BY <1>1, <1>4
  <2> HIDE DEF f, k
  <2> QED
    BY <2>1, <2>2, <2>3 DEF ZAlias
<1>5. CASE z.p \in 1 .. 14
  <2>1. ZText(z, y) = <<z>> /\ Stored(<<z>>) = z /\ <<z>> # <<>>
    BY <1>5 DEF ZText, Stored
  <2>2. DaZCanon(z, y) = IF z.p = y.p THEN [p |-> 15, i |-> z.i] ELSE z
    BY <1>5 DEF DaZCanon
  <2> QED
    BY <1>5, <2>1, <2>2 DEF ZAlias
<1> QED
  BY <1>1, <1>3, <1>4, <1>5

\* What the encoder has for the expressions of one term and of two.
LEMMA OpOpEncoded ==
  ASSUME NEW n, NEW z, NEW fs, NEW ss, NEW Y, NEW X
  PROVE  EncDa(n, z, <<fs, <<"op", Y>>, ss, <<"op", X>>>>) = DaWord(1, 5, fs, ss, n, X, Y, Stored(z))
BY DEF EncDa, EncTwoTerms, Stored

LEMMA OpZeroEncoded ==
  ASSUME NEW n, NEW z, NEW fs, NEW ss, NEW Y, NEW X
  PROVE  EncDa(n, z, <<fs, <<"op", Y>>, ss, <<"zeroprod", X>>>>) = DaWord(1, 4, fs, ss, n, X, Y, Stored(z))
BY DEF EncDa, EncTwoTerms, Stored

LEMMA TapEncoded ==
  ASSUME NEW n, NEW fs, NEW ss, NEW Z, NEW Y, NEW X
  PROVE  EncDa(n, <<>>, <<fs, <<"tap", Z, Y>>, ss, <<"op", X>>>>) = DaWord(1, 6, fs, ss, n, X, Y, Z)
BY DEF EncDa, EncTwoTerms

\* A product of which the first factor is an accumulator is M times X.
LEMMA OpProdEncoded ==
  ASSUME NEW n, NEW z, NEW fs, NEW ss, NEW a, NEW b, NEW X, a.p = 0
  PROVE  EncDa(n, z, <<fs, <<"op", a>>, ss, <<"prod", b, X>>>>) =
           IF b.p = 0 THEN DaWord(1, b.i, fs, ss, n, X, a, Stored(z))
           ELSE DaWord(3, a.i, fs, ss, n, X, b, Stored(z))
BY DEF EncDa, EncTwoTerms, Stored, DaIsAcc

LEMMA AccProdEncoded ==
  ASSUME NEW n, NEW z, NEW fs, NEW ss, NEW a, NEW b, NEW X, b.p = 0
  PROVE  EncDa(n, z, <<fs, <<"op", a>>, ss, <<"prod", b, X>>>>) = DaWord(1, b.i, fs, ss, n, X, a, Stored(z))
BY DEF EncDa, EncTwoTerms, Stored, DaIsAcc

LEMMA OpTapProdEncoded ==
  ASSUME NEW n, NEW fs, NEW ss, NEW a, NEW Z, NEW Y, NEW X, a.p = 0
  PROVE  EncDa(n, <<>>, <<fs, <<"op", a>>, ss, <<"tapprod", Z, Y, X>>>>) = DaWord(2, a.i, fs, ss, n, X, Y, Z)
BY DEF EncDa, EncTwoTerms, DaIsAcc

LEMMA LiteralProdEncoded ==
  ASSUME NEW n, NEW z, NEW fs, NEW ss, NEW Y, NEW X
  PROVE  /\ EncDa(n, z, <<fs, <<"zero">>, ss, <<"prod", Y, X>>>>) = DaWord(3, 4, fs, ss, n, X, Y, Stored(z))
         /\ EncDa(n, z, <<fs, <<"one">>, ss, <<"prod", Y, X>>>>) = DaWord(3, 5, fs, ss, n, X, Y, Stored(z))
BY DEF EncDa, EncTwoTerms, Stored

LEMMA LiteralTapEncoded ==
  ASSUME NEW n, NEW fs, NEW ss, NEW Z, NEW Y, NEW X
  PROVE  /\ EncDa(n, <<>>, <<fs, <<"zero">>, ss, <<"tapprod", Z, Y, X>>>>) = DaWord(2, 4, fs, ss, n, X, Y, Z)
         /\ EncDa(n, <<>>, <<fs, <<"one">>, ss, <<"tapprod", Z, Y, X>>>>) = DaWord(2, 5, fs, ss, n, X, Y, Z)
BY DEF EncDa, EncTwoTerms

LEMMA OneTermEncoded ==
  ASSUME NEW n, NEW z, NEW neg, NEW Y
  PROVE  /\ EncDa(n, z, <<neg, <<"op", Y>>>>) = DaWord(1, 4, neg, FALSE, n, AccField(0), Y, Stored(z))
         /\ \A X : EncDa(n, z, <<neg, <<"prod", Y, X>>>>) = DaWord(3, 4, FALSE, neg, n, X, Y, Stored(z))
BY DEF EncDa, EncOneTerm, Stored

LEMMA OneTapEncoded ==
  ASSUME NEW n, NEW neg, NEW Z, NEW Y, NEW X
  PROVE  EncDa(n, <<>>, <<neg, <<"tapprod", Z, Y, X>>>>) = DaWord(2, 4, FALSE, neg, n, X, Y, Z)
BY DEF EncDa, EncOneTerm

\* A word that prints its operands.
XShown(x) == ~(x.fmt = 1 /\ x.m = 4 /\ x.x = AccField(0))
Readable(x) == OperandOk(x.y) /\ (XShown(x) => OperandOk(x.x))
Outer(x) == IF TapForm(x) THEN <<>> ELSE ZText(x.z, x.y)

LEMMA DaPrinted ==
  ASSUME NEW x, x.op = "da"
  PROVE  Disassemble(x) = IF Readable(x) THEN <<"da", Outer(x), x.n, DaExpr(x)>> ELSE Unclear
<1>1. Disassemble(x) = DaText(x)
  BY DEF Disassemble, Branches
<1> QED
  BY <1>1 DEF DaText, Readable, XShown, Outer

LEMMA DaSpelled ==
  ASSUME NEW x, x.op = "da", Readable(x),
         NEW outer, Outer(x) = outer, NEW e, DaExpr(x) = e,
         NEW y, y.op = "da", Readable(y), y.n = x.n, EncDa(x.n, outer, e) = y,
         Outer(y) = outer, DaExpr(y) = e, DaAlias(x, y)
  PROVE  Kept(x)
<1> DEFINE text == <<"da", outer, x.n, e>>
<1>1. Disassemble(x) = text /\ Disassemble(y) = text
  BY DaPrinted
<1>2. Encode(text) = y
  BY DEF Encode
<1> HIDE DEF text
<1>3. Control(x) = [kind |-> "none"] /\ Control(y) = [kind |-> "none"]
  BY DEF Control
<1>4. Alias(x, y)
  BY DEF Alias
<1> QED
  BY <1>1, <1>2, <1>3, <1>4, SpelledAlike DEF Trip

\* The shapes of the expressions, of a word with these fields.
LEMMA DaShapes ==
  ASSUME NEW x, x.fmt \in {1, 2, 3}, x.m \in 0 .. 6, x.fmt # 1 => x.m # 6,
         NEW zt, ZText(x.z, x.y) = zt
  PROVE  /\ x.fmt = 1 /\ x.m = 6 =>
              DaExpr(x) = <<x.fs, IF zt = <<>> THEN <<"op", x.y>> ELSE <<"tap", zt[1], x.y>>, x.ss, <<"op", x.x>>>>
         /\ x.fmt = 1 /\ x.m = 5 => DaExpr(x) = <<x.fs, <<"op", x.y>>, x.ss, <<"op", x.x>>>>
         /\ x.fmt = 1 /\ x.m = 4 =>
              DaExpr(x) = IF x.x = AccField(0) THEN <<x.fs, <<"op", x.y>>>>
                          ELSE <<x.fs, <<"op", x.y>>, x.ss, <<"zeroprod", x.x>>>>
         /\ x.fmt = 1 /\ x.m < 4 =>
              DaExpr(x) = <<x.fs, <<"op", x.y>>, x.ss, <<"prod", AccField(x.m), x.x>>>>
<1>1. ASSUME x.fmt = 1, x.m = 6
      PROVE  DaExpr(x) = <<x.fs, IF zt = <<>> THEN <<"op", x.y>> ELSE <<"tap", zt[1], x.y>>, x.ss, <<"op", x.x>>>>
  BY <1>1 DEF DaExpr
<1>2. ASSUME x.fmt = 1, x.m = 5
      PROVE  DaExpr(x) = <<x.fs, <<"op", x.y>>, x.ss, <<"op", x.x>>>>
  BY <1>2 DEF DaExpr
<1>3. ASSUME x.fmt = 1, x.m = 4
      PROVE  DaExpr(x) = IF x.x = AccField(0) THEN <<x.fs, <<"op", x.y>>>>
                         ELSE <<x.fs, <<"op", x.y>>, x.ss, <<"zeroprod", x.x>>>>
  BY <1>3 DEF DaExpr
<1>4. ASSUME x.fmt = 1, x.m < 4
      PROVE  DaExpr(x) = <<x.fs, <<"op", x.y>>, x.ss, <<"prod", AccField(x.m), x.x>>>>
  BY <1>4 DEF DaExpr
<1> QED
  BY <1>1, <1>2, <1>3, <1>4

LEMMA SumShapes ==
  ASSUME NEW x, x.fmt \in {2, 3}, x.m \in 0 .. 5,
         NEW P, Product(x, IF x.fmt = 2 THEN ZText(x.z, x.y) ELSE <<>>) = P
  PROVE  /\ x.m = 4 => DaExpr(x) = IF x.fs THEN <<x.fs, <<"zero">>, x.ss, P>> ELSE <<x.ss, P>>
         /\ x.m = 5 => DaExpr(x) = <<x.fs, <<"one">>, x.ss, P>>
         /\ x.m < 4 => DaExpr(x) = <<x.fs, <<"op", AccField(x.m)>>, x.ss, P>>
<1>1. ASSUME x.m = 4
      PROVE  DaExpr(x) = IF x.fs THEN <<x.fs, <<"zero">>, x.ss, P>> ELSE <<x.ss, P>>
  <2>1. CASE x.fs = TRUE
    BY <1>1, <2>1 DEF DaExpr
  <2>2. CASE ~x.fs
    BY <1>1, <2>2 DEF DaExpr
  <2> QED
    BY <2>1, <2>2
<1>2. ASSUME x.m = 5
      PROVE  DaExpr(x) = <<x.fs, <<"one">>, x.ss, P>>
  BY <1>2 DEF DaExpr
<1>3. ASSUME x.m < 4
      PROVE  DaExpr(x) = <<x.fs, <<"op", AccField(x.m)>>, x.ss, P>>
  BY <1>3 DEF DaExpr
<1> QED
  BY <1>1, <1>2, <1>3

LEMMA DaFields ==
  ASSUME NEW fmt, NEW m, NEW fs, NEW ss, NEW n, NEW X, NEW Y, NEW Z, NEW w0,
         w0 = DaWord(fmt, m, fs, ss, n, X, Y, Z)
  PROVE  /\ w0.op = "da" /\ w0.fmt = fmt /\ w0.m = m /\ w0.fs = fs /\ w0.ss = ss /\ w0.n = n
         /\ w0.x = X /\ w0.y = Y /\ w0.z = DaZCanon(Z, Y)
BY DEF DaWord

\* What the lemmas on the formats take of a word.
DaShaped(x) ==
  /\ x.op = "da" /\ x.fmt \in {1, 2, 3} /\ x.m \in 0 .. 6 /\ (x.fmt # 1 => x.m # 6)
  /\ x.fs \in BOOLEAN /\ x.ss \in BOOLEAN /\ x.x \in Field /\ x.y \in Field /\ x.z \in Field
  /\ Readable(x)

LEMMA Factors ==
  ASSUME NEW f \in Field, OperandOk(f)
  PROVE  f.p \in 0 .. 14 /\ (f.p = 0 => f.i \in 0 .. 3 /\ f = AccField(f.i))
<1>1. f = [p |-> f.p, i |-> f.i]
  BY DEF Field
<1>2. f.p \in 0 .. 14 /\ (f.p = 0 => f.i \in 0 .. 3)
  BY DEF OperandOk
<1> QED
  BY <1>1, <1>2 DEF AccField

\* Format 1 comes back as itself, except that a tap without a store is the
\* sum of the two operands.
LEMMA TapFormKept ==
  ASSUME NEW x, DaShaped(x), x.fmt = 1, x.m = 6
  PROVE  Kept(x)
<1> DEFINE zt == ZText(x.z, x.y)
<1>1. x.y.p \in 0 .. 14 /\ XShown(x) /\ x.op = "da"
  BY Factors DEF DaShaped, Readable, XShown
<1>2. Outer(x) = <<>>
  BY DEF Outer, TapForm
<1>3. CASE zt = <<>>
  <2> DEFINE e == <<x.fs, <<"op", x.y>>, x.ss, <<"op", x.x>>>>
             y == DaWord(1, 5, x.fs, x.ss, x.n, x.x, x.y, DaNoWrite)
  <2>1. DaExpr(x) = e
    BY <1>3, DaShapes DEF DaShaped
  <2>2. EncDa(x.n, <<>>, e) = y
    BY OpOpEncoded DEF Stored
  <2>3. /\ y.op = "da" /\ y.fmt = 1 /\ y.m = 5 /\ y.fs = x.fs /\ y.ss = x.ss /\ y.n = x.n
        /\ y.x = x.x /\ y.y = x.y /\ y.z = DaZCanon(DaNoWrite, x.y)
    BY DaFields
  <2> HIDE DEF y
  <2>4. ZText(y.z, y.y) = <<>>
    <3>1. DaZCanon(DaNoWrite, x.y) = DaNoWrite /\ ZText(DaNoWrite, x.y) = <<>>
      BY DEF DaZCanon, DaNoWrite, ZText
    <3> QED
      BY <2>3, <3>1
  <2>5. DaExpr(y) = e
    BY <2>3, <2>4, DaShapes
  <2>6. Outer(y) = <<>>
    BY <2>3, <2>4 DEF Outer, TapForm
  <2>7. Readable(y)
    BY <1>1, <2>3 DEF DaShaped, Readable
  <2>8. DaAlias(x, y)
    <3>1. ZAlias(x.z, y.z, x.y) /\ y.z.p = 0
      BY <1>1, <1>3, <2>3, StoreAlias DEF DaShaped
    <3> QED
      BY <1>1, <2>3, <3>1 DEF DaAlias
  <2> HIDE DEF e
  <2> QED
    BY <1>1, <1>2, <2>1, <2>2, <2>3, <2>5, <2>6, <2>7, <2>8, DaSpelled DEF DaShaped
<1>4. CASE zt # <<>>
  <2> DEFINE e == <<x.fs, <<"tap", zt[1], x.y>>, x.ss, <<"op", x.x>>>>
             y == DaWord(1, 6, x.fs, x.ss, x.n, x.x, x.y, zt[1])
  <2>1. DaExpr(x) = e
    BY <1>4, DaShapes DEF DaShaped
  <2>2. EncDa(x.n, <<>>, e) = y
    BY TapEncoded
  <2>3. /\ y.op = "da" /\ y.fmt = 1 /\ y.m = 6 /\ y.fs = x.fs /\ y.ss = x.ss /\ y.n = x.n
        /\ y.x = x.x /\ y.y = x.y /\ y.z = DaZCanon(zt[1], x.y)
    BY DaFields
  <2> HIDE DEF y
  <2>4. ZText(y.z, y.y) = zt
    <3>1. Stored(zt) = zt[1]
      BY <1>4 DEF Stored
    <3> QED
      BY <1>1, <2>3, <3>1, StoreKept DEF DaShaped
  <2>5. DaExpr(y) = e
    BY <1>4, <2>3, <2>4, DaShapes
  <2>6. Outer(y) = <<>>
    BY <2>3 DEF Outer, TapForm
  <2>7. Readable(y)
    BY <1>1, <2>3 DEF DaShaped, Readable
  <2>8. DaAlias(x, y)
    <3>1. Stored(zt) = zt[1]
      BY <1>4 DEF Stored
    <3>2. ZAlias(x.z, y.z, x.y)
      BY <1>1, <2>3, <3>1, StoreAlias DEF DaShaped
    <3> QED
      BY <1>1, <2>3, <3>2 DEF DaAlias
  <2> HIDE DEF e
  <2> QED
    BY <1>1, <1>2, <2>1, <2>2, <2>3, <2>5, <2>6, <2>7, <2>8, DaSpelled DEF DaShaped
<1> QED
  BY <1>3, <1>4

\* A word y that stores as x does.
LEMMA OuterKept ==
  ASSUME NEW x, DaShaped(x), ~TapForm(x), NEW outer, Outer(x) = outer,
         NEW y, y.y.p \in 0 .. 14, y.y.p = x.y.p, y.z = DaZCanon(Stored(outer), y.y), ~TapForm(y)
  PROVE  Outer(y) = outer
<1>1. x.z \in Field /\ outer = ZText(x.z, x.y)
  BY DEF DaShaped, Outer
<1>2. ZText(x.z, x.y) = ZText(x.z, y.y)
  BY DEF ZText
<1>3. ZText(y.z, y.y) = outer
  BY <1>1, <1>2, StoreKept
<1> QED
  BY <1>3 DEF Outer

LEMMA OperandFormsKept ==
  ASSUME NEW x, DaShaped(x), x.fmt = 1, x.m \in 0 .. 5
  PROVE  Kept(x)
<1> DEFINE outer == Outer(x)
<1>1. x.y.p \in 0 .. 14 /\ x.op = "da" /\ ~TapForm(x) /\ OperandOk(x.y)
  BY Factors DEF DaShaped, Readable, TapForm
<1>4. ZAlias(x.z, DaZCanon(Stored(outer), x.y), x.y)
  <2>1. outer = ZText(x.z, x.y)
    BY <1>1 DEF Outer
  <2> QED
    BY <1>1, <2>1, StoreAlias DEF DaShaped
<1>2. CASE x.m = 4 /\ x.x = AccField(0)
  <2> DEFINE e == <<x.fs, <<"op", x.y>>>>
             y == DaWord(1, 4, x.fs, FALSE, x.n, AccField(0), x.y, Stored(outer))
  <2>1. DaExpr(x) = e
    BY <1>2, DaShapes DEF DaShaped
  <2>2. EncDa(x.n, outer, e) = y
    BY OneTermEncoded
  <2>3. /\ y.op = "da" /\ y.fmt = 1 /\ y.m = 4 /\ y.fs = x.fs /\ y.n = x.n
        /\ y.x = AccField(0) /\ y.y = x.y /\ y.z = DaZCanon(Stored(outer), x.y)
    BY DEF DaWord
  <2> HIDE DEF y
  <2>4. DaExpr(y) = e
    BY <2>3, DaShapes
  <2>5. ~TapForm(y) /\ Readable(y)
    BY <1>1, <2>3 DEF TapForm, Readable, XShown
  <2>6. Outer(y) = outer
    BY <1>1, <2>3, <2>5, OuterKept
  <2>7. DaAlias(x, y)
    <3> HIDE DEF outer
    <3> QED
      BY <1>1, <1>2, <1>4, <2>3 DEF DaAlias
  <2> HIDE DEF e, outer
  <2> QED
    BY <1>1, <2>1, <2>2, <2>3, <2>4, <2>5, <2>6, <2>7, DaSpelled DEF DaShaped, outer
<1>3. CASE ~(x.m = 4 /\ x.x = AccField(0))
  <2> DEFINE e == IF x.m = 5 THEN <<x.fs, <<"op", x.y>>, x.ss, <<"op", x.x>>>>
                  ELSE IF x.m = 4 THEN <<x.fs, <<"op", x.y>>, x.ss, <<"zeroprod", x.x>>>>
                  ELSE <<x.fs, <<"op", x.y>>, x.ss, <<"prod", AccField(x.m), x.x>>>>
             y == DaWord(1, x.m, x.fs, x.ss, x.n, x.x, x.y, Stored(outer))
  <2>1. DaExpr(x) = e
    BY <1>3, DaShapes DEF DaShaped
  <2>2. EncDa(x.n, outer, e) = y
    <3>1. CASE x.m = 5
      BY <3>1, OpOpEncoded
    <3>2. CASE x.m = 4
      BY <3>2, OpZeroEncoded
    <3>3. CASE x.m < 4
      <4>1. AccField(x.m).p = 0 /\ AccField(x.m).i = x.m
        BY DEF AccField
      <4> QED
        BY <3>3, <4>1, AccProdEncoded
    <3> QED
      BY <3>1, <3>2, <3>3
  <2>3. /\ y.op = "da" /\ y.fmt = 1 /\ y.m = x.m /\ y.fs = x.fs /\ y.ss = x.ss /\ y.n = x.n
        /\ y.x = x.x /\ y.y = x.y /\ y.z = DaZCanon(Stored(outer), x.y)
    BY DaFields
  <2> HIDE DEF y
  <2>4. DaExpr(y) = e
    BY <1>3, <2>3, DaShapes
  <2>5. ~TapForm(y) /\ Readable(y)
    BY <1>1, <2>3 DEF TapForm, Readable, XShown, DaShaped
  <2>6. Outer(y) = outer
    BY <1>1, <2>3, <2>5, OuterKept
  <2>7. DaAlias(x, y)
    <3> HIDE DEF outer
    <3> QED
      BY <1>1, <1>4, <2>3 DEF DaAlias
  <2> HIDE DEF e, outer
  <2> QED
    BY <1>1, <2>1, <2>2, <2>3, <2>4, <2>5, <2>6, <2>7, DaSpelled DEF DaShaped, outer
<1> QED
  BY <1>2, <1>3

LEMMA NoStoreKept ==
  ASSUME NEW y
  PROVE  ZText(DaZCanon(Stored(<<>>), y), y) = <<>>
<1>1. Stored(<<>>) = DaNoWrite
  BY DEF Stored
<1>2. DaZCanon(DaNoWrite, y) = DaNoWrite /\ ZText(DaNoWrite, y) = <<>>
  BY DEF DaZCanon, DaNoWrite, ZText
<1> QED
  BY <1>1, <1>2

TapSum(x)   == x.fmt = 2 /\ ZText(x.z, x.y) # <<>>
PlainSum(x) == x.fmt = 3 \/ (x.fmt = 2 /\ ZText(x.z, x.y) = <<>>)

\* A store in the second factor's place: the tap of format 2.
LEMMA TapSumKept ==
  ASSUME NEW x, DaShaped(x), TapSum(x)
  PROVE  Kept(x)
<1> DEFINE zt == ZText(x.z, x.y)
           P == <<"tapprod", zt[1], x.y, x.x>>
           e == DaExpr(x)
           y == DaWord(2, x.m, x.fs, x.ss, x.n, x.x, x.y, zt[1])
<1>1. /\ x.y.p \in 0 .. 14 /\ x.op = "da" /\ XShown(x) /\ x.m \in 0 .. 5
      /\ x.fs \in BOOLEAN /\ x.ss \in BOOLEAN /\ Readable(x)
  BY Factors DEF DaShaped, Readable, XShown, TapSum
<1>2. Outer(x) = <<>>
  BY DEF Outer, TapForm, TapSum
<1>3. Product(x, zt) = P
  BY DEF Product, TapSum
<1>4. /\ x.m = 4 => e = IF x.fs THEN <<x.fs, <<"zero">>, x.ss, P>> ELSE <<x.ss, P>>
      /\ x.m = 5 => e = <<x.fs, <<"one">>, x.ss, P>>
      /\ x.m < 4 => e = <<x.fs, <<"op", AccField(x.m)>>, x.ss, P>>
  <2> HIDE DEF P
  <2> QED
    BY <1>1, <1>3, SumShapes DEF TapSum
<1>5. EncDa(x.n, <<>>, e) = y
  <2> HIDE DEF e
  <2>1. CASE x.m = 4 /\ x.fs = TRUE
    <3>1. e = <<x.fs, <<"zero">>, x.ss, P>>
      BY <1>4, <2>1
    <3>2. EncDa(x.n, <<>>, <<x.fs, <<"zero">>, x.ss, P>>)
            = DaWord(2, 4, x.fs, x.ss, x.n, x.x, x.y, zt[1])
      BY LiteralTapEncoded
    <3> QED
      BY <2>1, <3>1, <3>2
  <2>2. CASE x.m = 4 /\ ~x.fs
    <3>1. EncDa(x.n, <<>>, <<x.ss, P>>) = DaWord(2, 4, FALSE, x.ss, x.n, x.x, x.y, zt[1])
      BY OneTapEncoded
    <3>2. x.fs = FALSE
      BY <1>1, <2>2
    <3> QED
      BY <1>4, <2>2, <3>1, <3>2
  <2>3. CASE x.m = 5
    <3>1. e = <<x.fs, <<"one">>, x.ss, P>>
      BY <1>4, <2>3
    <3>2. EncDa(x.n, <<>>, <<x.fs, <<"one">>, x.ss, P>>)
            = DaWord(2, 5, x.fs, x.ss, x.n, x.x, x.y, zt[1])
      BY LiteralTapEncoded
    <3> QED
      BY <2>3, <3>1, <3>2
  <2>4. CASE x.m < 4
    <3>1. AccField(x.m).p = 0 /\ AccField(x.m).i = x.m
      BY DEF AccField
    <3> QED
      BY <1>4, <2>4, <3>1, OpTapProdEncoded
  <2>5. (x.fs = TRUE \/ ~x.fs) /\ (x.m = 4 \/ x.m = 5 \/ x.m < 4)
    BY <1>1
  <2> QED
    BY <2>1, <2>2, <2>3, <2>4, <2>5, Zenon
<1>6. /\ y.op = "da" /\ y.fmt = 2 /\ y.m = x.m /\ y.fs = x.fs /\ y.ss = x.ss /\ y.n = x.n
      /\ y.x = x.x /\ y.y = x.y /\ y.z = DaZCanon(zt[1], x.y)
  BY DaFields
<1> HIDE DEF y, P
<1>7. ZText(y.z, y.y) = zt
  <2>1. Stored(zt) = zt[1]
    BY DEF Stored, TapSum
  <2> QED
    BY <1>1, <1>6, <2>1, StoreKept DEF DaShaped
<1>8. DaExpr(y) = e
  <2>1. Product(y, zt) = P
    BY <1>6 DEF Product, P, TapSum
  <2>2. /\ x.m = 4 => DaExpr(y) = IF x.fs THEN <<x.fs, <<"zero">>, x.ss, P>> ELSE <<x.ss, P>>
        /\ x.m = 5 => DaExpr(y) = <<x.fs, <<"one">>, x.ss, P>>
        /\ x.m < 4 => DaExpr(y) = <<x.fs, <<"op", AccField(x.m)>>, x.ss, P>>
    BY <1>1, <1>6, <1>7, <2>1, SumShapes
  <2> HIDE DEF e
  <2> QED
    BY <1>1, <1>4, <2>2
<1>9. Outer(y) = <<>> /\ Readable(y)
  BY <1>1, <1>6 DEF Outer, TapForm, DaShaped, Readable
<1>10. DaAlias(x, y)
  <2>1. Stored(zt) = zt[1]
    BY DEF Stored, TapSum
  <2>2. ZAlias(x.z, y.z, x.y)
    BY <1>1, <1>6, <2>1, StoreAlias DEF DaShaped
  <2> QED
    BY <1>1, <1>6, <2>2 DEF DaAlias, TapSum
<1> HIDE DEF e
<1> QED
  BY <1>1, <1>2, <1>5, <1>6, <1>8, <1>9, <1>10, DaSpelled DEF e

\* Otherwise it comes back in format 3, or in format 1 if the product has an
\* accumulator for its first factor and is added to another: M and Y change
\* places.
LEMMA PlainSumKept ==
  ASSUME NEW x, DaShaped(x), PlainSum(x)
  PROVE  Kept(x)
<1> DEFINE outer == Outer(x)
           P == <<"prod", x.y, x.x>>
           e == DaExpr(x)
<1>1. /\ x.y.p \in 0 .. 14 /\ x.op = "da" /\ XShown(x) /\ x.m \in 0 .. 5 /\ OperandOk(x.x) /\ OperandOk(x.y)
      /\ x.fs \in BOOLEAN /\ x.ss \in BOOLEAN /\ Readable(x)
  BY Factors DEF DaShaped, Readable, XShown, PlainSum
<1>2. /\ x.m = 4 => e = IF x.fs THEN <<x.fs, <<"zero">>, x.ss, P>> ELSE <<x.ss, P>>
      /\ x.m = 5 => e = <<x.fs, <<"one">>, x.ss, P>>
      /\ x.m < 4 => e = <<x.fs, <<"op", AccField(x.m)>>, x.ss, P>>
  <2>1. Product(x, IF x.fmt = 2 THEN ZText(x.z, x.y) ELSE <<>>) = P
    BY DEF Product, PlainSum
  <2> HIDE DEF P
  <2> QED
    BY <1>1, <2>1, SumShapes DEF PlainSum
<1>3. ASSUME NEW y, ~TapForm(y), y.y.p = x.y.p, y.z = DaZCanon(Stored(outer), y.y)
      PROVE  Outer(y) = outer
  <2>1. CASE x.fmt = 3
    <3>1. ~TapForm(x)
      BY <2>1 DEF TapForm
    <3> QED
      BY <1>1, <1>3, <3>1, OuterKept
  <2>2. CASE x.fmt = 2
    <3>1. outer = <<>>
      BY <2>2 DEF Outer, TapForm, PlainSum
    <3> HIDE DEF outer
    <3>2. ZText(y.z, y.y) = <<>>
      BY <1>3, <3>1, NoStoreKept
    <3> QED
      BY <1>3, <3>1, <3>2 DEF Outer
  <2> QED
    BY <2>1, <2>2 DEF PlainSum
<1>6. ZAlias(x.z, DaZCanon(Stored(outer), x.y), x.y) /\ (x.fmt = 2 => DaZCanon(Stored(outer), x.y).p = 0)
  <2>1. CASE x.fmt = 3
    <3>1. outer = ZText(x.z, x.y)
      BY <2>1 DEF Outer, TapForm
    <3>2. x.z \in Field /\ x.fmt # 2
      BY <2>1 DEF DaShaped
    <3> HIDE DEF outer, P, e
    <3> QED
      BY <1>1, <3>1, <3>2, StoreAlias
  <2>2. CASE x.fmt = 2
    <3>1. outer = <<>> /\ ZText(x.z, x.y) = <<>>
      BY <2>2 DEF Outer, TapForm, PlainSum
    <3>2. Stored(outer) = DaNoWrite
      BY <3>1 DEF Stored
    <3>3. x.z \in Field
      BY DEF DaShaped
    <3> HIDE DEF outer, P, e
    <3> QED
      BY <1>1, <2>2, <3>1, <3>2, <3>3, StoreAlias
  <2> QED
    BY <2>1, <2>2 DEF PlainSum
<1> HIDE DEF outer, e
<1>4. CASE x.m \in {4, 5} \/ x.y.p # 0
  <2> DEFINE y == DaWord(3, x.m, x.fs, x.ss, x.n, x.x, x.y, Stored(outer))
  <2>1. EncDa(x.n, outer, e) = y
    <3>1. CASE x.m = 4 /\ x.fs = TRUE
      <4>1. e = <<x.fs, <<"zero">>, x.ss, P>>
        BY <1>2, <3>1
      <4>2. EncDa(x.n, outer, <<x.fs, <<"zero">>, x.ss, P>>)
              = DaWord(3, 4, x.fs, x.ss, x.n, x.x, x.y, Stored(outer))
        BY LiteralProdEncoded
      <4> QED
        BY <3>1, <4>1, <4>2
    <3>2. CASE x.m = 4 /\ ~x.fs
      <4>1. EncDa(x.n, outer, <<x.ss, P>>) = DaWord(3, 4, FALSE, x.ss, x.n, x.x, x.y, Stored(outer))
        BY OneTermEncoded
      <4>2. x.fs = FALSE
        BY <1>1, <3>2
      <4> QED
        BY <1>2, <3>2, <4>1, <4>2
    <3>3. CASE x.m = 5
      <4>1. e = <<x.fs, <<"one">>, x.ss, P>>
        BY <1>2, <3>3
      <4>2. EncDa(x.n, outer, <<x.fs, <<"one">>, x.ss, P>>)
              = DaWord(3, 5, x.fs, x.ss, x.n, x.x, x.y, Stored(outer))
        BY LiteralProdEncoded
      <4> QED
        BY <3>3, <4>1, <4>2
    <3>4. CASE x.m < 4
      <4>1. AccField(x.m).p = 0 /\ AccField(x.m).i = x.m
        BY DEF AccField
      <4>2. x.y.p # 0
        BY <1>4, <3>4
      <4> QED
        BY <1>2, <3>4, <4>1, <4>2, OpProdEncoded
    <3>5. (x.fs = TRUE \/ ~x.fs) /\ (x.m = 4 \/ x.m = 5 \/ x.m < 4)
      BY <1>1
    <3> QED
      BY <3>1, <3>2, <3>3, <3>4, <3>5, Zenon
  <2>2. /\ y.op = "da" /\ y.fmt = 3 /\ y.m = x.m /\ y.fs = x.fs /\ y.ss = x.ss /\ y.n = x.n
        /\ y.x = x.x /\ y.y = x.y /\ y.z = DaZCanon(Stored(outer), x.y)
    BY DaFields
  <2> HIDE DEF y
  <2>3. DaExpr(y) = e
    <3>1. Product(y, IF y.fmt = 2 THEN ZText(y.z, y.y) ELSE <<>>) = P
      BY <2>2 DEF Product
    <3> HIDE DEF P
    <3>2. /\ x.m = 4 => DaExpr(y) = IF x.fs THEN <<x.fs, <<"zero">>, x.ss, P>> ELSE <<x.ss, P>>
          /\ x.m = 5 => DaExpr(y) = <<x.fs, <<"one">>, x.ss, P>>
          /\ x.m < 4 => DaExpr(y) = <<x.fs, <<"op", AccField(x.m)>>, x.ss, P>>
      BY <1>1, <2>2, <3>1, SumShapes
    <3> QED
      BY <1>1, <1>2, <3>2
  <2>4. ~TapForm(y) /\ Readable(y)
    BY <1>1, <2>2 DEF TapForm, Readable
  <2>5. Outer(y) = outer
    BY <1>3, <2>2, <2>4
  <2>6. DaAlias(x, y)
    <3>1. x.fmt \in {2, 3}
      BY DEF PlainSum
    <3> QED
      BY <1>1, <1>6, <2>2, <3>1 DEF DaAlias
  <2> QED
    BY <1>1, <2>1, <2>2, <2>3, <2>4, <2>5, <2>6, DaSpelled DEF outer, e
<1>5. CASE x.m < 4 /\ x.y.p = 0
  <2> DEFINE y == DaWord(1, x.y.i, x.fs, x.ss, x.n, x.x, AccField(x.m), Stored(outer))
  <2>1. AccField(x.m).p = 0 /\ AccField(x.m).i = x.m
    BY DEF AccField
  <2>2. x.y.i \in 0 .. 3 /\ x.y = AccField(x.y.i)
    BY <1>1, <1>5, Factors DEF DaShaped
  <2>3. EncDa(x.n, outer, e) = y
    BY <1>2, <1>5, <2>1, AccProdEncoded
  <2>4. /\ y.op = "da" /\ y.fmt = 1 /\ y.m = x.y.i /\ y.fs = x.fs /\ y.ss = x.ss /\ y.n = x.n
        /\ y.x = x.x /\ y.y = AccField(x.m) /\ y.z = DaZCanon(Stored(outer), AccField(x.m))
    BY DaFields
  <2> HIDE DEF y
  <2>5. DaExpr(y) = e
    <3>1. DaExpr(y) = <<y.fs, <<"op", y.y>>, y.ss, <<"prod", AccField(y.m), y.x>>>>
      BY <2>2, <2>4, DaShapes
    <3>2. AccField(y.m) = x.y
      BY <2>2, <2>4
    <3> QED
      BY <1>2, <1>5, <2>4, <3>1, <3>2
  <2>6. ~TapForm(y) /\ Readable(y)
    <3>1. OperandOk(y.y)
      BY <1>1, <1>5, <2>1, <2>4 DEF OperandOk
    <3> QED
      BY <1>1, <2>2, <2>4, <3>1 DEF TapForm, Readable
  <2>7. Outer(y) = outer
    BY <1>3, <1>5, <2>1, <2>4, <2>6
  <2>8. DaAlias(x, y)
    <3>1. x.fmt \in {2, 3}
      BY DEF PlainSum
    <3>2. DaZCanon(Stored(outer), AccField(x.m)) = DaZCanon(Stored(outer), x.y)
      BY <1>5, <2>1 DEF DaZCanon
    <3>3. y.y = AccField(x.m) /\ x.y = AccField(y.m) /\ y.m \in 0 .. 3 /\ x.m \in 0 .. 3
      BY <1>1, <1>5, <2>2, <2>4
    <3> QED
      BY <1>1, <1>6, <2>4, <3>1, <3>2, <3>3 DEF DaAlias
  <2> QED
    BY <1>1, <2>3, <2>4, <2>5, <2>6, <2>7, <2>8, DaSpelled DEF outer, e
<1> QED
  BY <1>1, <1>4, <1>5

LEMMA DaKept ==
  ASSUME NEW x \in DaWordOf(1, 0 .. 6) \cup DaWordOf(2, 0 .. 5) \cup DaWordOf(3, 0 .. 5),
         Clean(Disassemble(x))
  PROVE  Kept(x)
<1>1. /\ x.op = "da" /\ x.fmt \in {1, 2, 3} /\ x.m \in 0 .. 6 /\ (x.fmt # 1 => x.m # 6)
      /\ x.fs \in BOOLEAN /\ x.ss \in BOOLEAN /\ x.x \in Field /\ x.y \in Field /\ x.z \in Field
  BY DEF DaWordOf
<1>2. Readable(x)
  BY <1>1, DaPrinted DEF Clean
<1>3. DaShaped(x)
  BY <1>1, <1>2 DEF DaShaped
<1> QED
  BY <1>1, <1>3, TapFormKept, OperandFormsKept, TapSumKept, PlainSumKept DEF TapSum, PlainSum

LEMMA SpecialKept ==
  ASSUME NEW x \in [op: {"special"}, g: Special, n: 0 .. 3, y: Field, z: Field], Clean(Disassemble(x))
  PROVE  Kept(x)
<1> DEFINE zt == ZText(x.z, x.y)
           text == <<"special", zt, x.n, x.g, x.y>>
           y == [op |-> "special", g |-> x.g, n |-> x.n, y |-> x.y, z |-> DaZCanon(Stored(zt), x.y)]
<1>1. x.op = "special" /\ x.y \in Field /\ x.z \in Field
  OBVIOUS
<1>2. Disassemble(x) = text /\ OperandOk(x.y) /\ x.g # "reserved"
  <2>1. Disassemble(x) = SpecialText(x)
    BY <1>1 DEF Disassemble, Branches
  <2> QED
    BY <2>1 DEF SpecialText, Clean
<1>3. Encode(text) = y
  BY DEF Encode, EncSpecial, Stored
<1>4. y.op = "special" /\ y.g = x.g /\ y.n = x.n /\ y.y = x.y /\ y.z = DaZCanon(Stored(zt), x.y)
  OBVIOUS
<1> HIDE DEF y
<1>5. ZText(y.z, y.y) = zt
  BY <1>1, <1>2, <1>4, Factors, StoreKept
<1>6. Disassemble(y) = text
  <2>1. Disassemble(y) = SpecialText(y)
    BY <1>4 DEF Disassemble, Branches
  <2> QED
    BY <1>2, <1>4, <1>5, <2>1 DEF SpecialText
<1>7. Control(x) = [kind |-> "none"] /\ Control(y) = [kind |-> "none"]
  BY <1>1, <1>4 DEF Control
<1>8. Alias(x, y)
  <2>1. ZAlias(x.z, y.z, x.y)
    BY <1>1, <1>2, <1>4, Factors, StoreAlias
  <2> QED
    BY <1>1, <1>4, <2>1 DEF Alias, SpecialAlias
<1> HIDE DEF text
<1> QED
  BY <1>2, <1>3, <1>4, <1>6, <1>7, <1>8, SpelledAlike DEF Trip

LEMMA DataKept ==
  ASSUME NEW x \in DataWord, Clean(Disassemble(x))
  PROVE  Kept(x)
BY DaKept, SpecialKept DEF DataWord

\* Every instruction word comes back.
LEMMA WordKept ==
  ASSUME NEW x \in InstructionWord, Clean(Disassemble(x))
  PROVE  Kept(x)
BY BranchKept, AluKept, MoveKept, OtherKept, DataKept DEF InstructionWord

-----------------------------------------------------------------------------
(* What the core does with the words *)

\* Quotient and remainder are the only ones.
LEMMA DivMod ==
  ASSUME NEW a \in Int, NEW q \in Int, NEW r \in Int, NEW L \in Nat \ {0}, a = q * L + r, 0 <= r, r < L
  PROVE  a % L = r /\ a \div L = q
<1> DEFINE q2 == a \div L
           r2 == a % L
<1>1. a = L * q2 + r2 /\ 0 <= r2 /\ r2 < L /\ q2 \in Int /\ r2 \in Int
  OBVIOUS
<1> HIDE DEF q2, r2
<1>2. (q - q2) * L = r2 - r /\ q - q2 \in Int
  <2>1. q * L + r = L * q2 + r2
    BY <1>1
  <2>2. (q - q2) * L = q * L - q2 * L /\ L * q2 = q2 * L
    BY <1>1
  <2>3. q * L \in Int /\ q2 * L \in Int
    BY <1>1
  <2> QED
    BY <1>1, <2>1, <2>2, <2>3
<1>3. q - q2 = 0
  <2> DEFINE k == q - q2
  <2>1. k \in Int /\ k * L = r2 - r
    BY <1>2
  <2>2. ~(k >= 1)
    <3>1. ASSUME k >= 1 PROVE FALSE
      <4>1. (k - 1) * L >= 0 /\ (k - 1) * L = k * L - L
        BY <2>1, <3>1
      <4> HIDE DEF k
      <4> QED
        BY <1>1, <2>1, <4>1
    <3> QED
      BY <3>1
  <2>3. ~(k <= 0 - 1)
    <3>1. ASSUME k <= 0 - 1 PROVE FALSE
      <4>1. ((0 - k) - 1) * L >= 0 /\ ((0 - k) - 1) * L = (0 - (k * L)) - L
        BY <2>1, <3>1
      <4> HIDE DEF k
      <4> QED
        BY <1>1, <2>1, <4>1
    <3> QED
      BY <3>1
  <2> HIDE DEF k
  <2>4. k = 0
    BY <2>1, <2>2, <2>3
  <2> QED
    BY <2>4 DEF k
<1>4. q = q2 /\ r = r2
  BY <1>1, <1>2, <1>3
<1> QED
  BY <1>4 DEF q2, r2

\* The core's words: the widths of its long and its short ones.
LEMMA CoreWidths ==
  /\ Core!LongH \in Nat /\ Core!ShortH \in Nat /\ Core!ShortH > 1 /\ Half = Core!ShortH
  /\ Long = 2 * Core!LongH /\ Core!LongH >= Core!ShortH /\ Half \in Nat
  /\ \E q \in Nat \ {0} : Core!LongH = q * Core!ShortH
<1> DEFINE L == 2 * Half
           q == Long \div L
<1>1. Half \in Nat /\ Long \in Nat /\ Half > 1 /\ L <= Long /\ Long % L = 0
  <2>1. Half \in Nat /\ Long \in Nat /\ Far \in Nat /\ Half > 1 /\ Long % (2 * Half) = 0
    BY FieldWidths, SameWidths
  <2>2. 2 * Half <= Far /\ 2 * Far <= Long
    BY FieldWidths
  <2> QED
    BY <2>1, <2>2
<1>2. L \in Nat \ {0}
  BY <1>1
<1>3. Long = L * q /\ q \in Int
  <2> HIDE DEF L
  <2>1. Long = L * (Long \div L) + (Long % L) /\ Long \div L \in Int
    BY <1>1, <1>2
  <2> QED
    BY <1>1, <1>2, <2>1
<1> HIDE DEF q
<1>4. q > 0
  <2>1. ASSUME q <= 0 PROVE FALSE
    <3>1. L * q <= 0
      BY <1>2, <1>3, <2>1
    <3> QED
      BY <1>1, <1>2, <1>3, <3>1
  <2> QED
    BY <1>3, <2>1
<1>5. Long = 2 * (q * Half) /\ q * Half \in Int /\ q * Half >= Half
  <2>1. L * q = 2 * (q * Half) /\ q * Half \in Int
    BY <1>1, <1>3
  <2>2. (q - 1) * Half >= 0 /\ (q - 1) * Half = q * Half - Half
    BY <1>1, <1>3, <1>4
  <2> QED
    BY <1>1, <1>3, <2>1, <2>2
<1>6. Long \div 2 = q * Half
  <2> DEFINE p == q * Half
  <2>1. p \in Int /\ Long = 2 * p
    BY <1>5
  <2> HIDE DEF p
  <2>2. Long \div 2 = p
    BY <2>1
  <2> QED
    BY <2>2 DEF p
<1> QED
  BY <1>1, <1>3, <1>4, <1>5, <1>6, SameWidths

\* The width of an arithmetic word, which divides that of long ones.
LEMMA WordHs ==
  ASSUME NEW short \in BOOLEAN, NEW h, h = Core!WordH(short)
  PROVE  h \in {Core!LongH, Core!ShortH} /\ h \in Nat /\ h > 1 /\ \E q \in Nat \ {0} : Core!LongH = q * h
<1>1. h \in {Core!LongH, Core!ShortH}
  BY DEF Core!WordH
<1>2. h \in Nat /\ h > 1
  BY <1>1, CoreWidths
<1>3. \E q \in Nat \ {0} : Core!LongH = q * h
  <2>1. CASE h = Core!LongH
    <3>1. 1 \in Nat \ {0} /\ Core!LongH = 1 * Core!LongH
      BY CoreWidths
    <3> QED
      BY <2>1, <3>1
  <2>2. CASE h = Core!ShortH
    BY <2>2, CoreWidths
  <2> QED
    BY <1>1, <2>1, <2>2
<1> QED
  BY <1>1, <1>2, <1>3

\* A number and its complement at the width of long words, at another width.
LEMMA Complements ==
  ASSUME NEW short \in BOOLEAN, NEW h, h = Core!WordH(short), NEW b \in Int, 0 < b, b < h
  PROVE  /\ Core!Low(b, h) = b /\ Core!Low(2 * Core!LongH - b, h) = 2 * h - b
         /\ Core!LongH \in Nat
<1> PICK q \in Nat \ {0} : Core!LongH = q * h
  BY WordHs
<1>1. h \in Nat /\ h > 1
  BY WordHs
<1> DEFINE L == 2 * h
<1>2. L \in Nat \ {0} /\ L - b \in Int /\ 0 <= L - b /\ L - b < L /\ 0 <= b /\ b < L
  BY <1>1
<1>3. 2 * Core!LongH - b = (q - 1) * L + (L - b) /\ q - 1 \in Int /\ Core!LongH \in Nat
  <2>1. 2 * (q * h) = q * L /\ (q - 1) * L = q * L - L /\ q * h \in Nat /\ q * L \in Int
    BY <1>1
  <2> QED
    BY <1>1, <2>1
<1>4. b = 0 * L + b
  BY <1>1
<1>5. 2 * Core!LongH - b \in Int
  BY <1>3
<1>6. (2 * Core!LongH - b) % L = L - b
  <2> DEFINE a == 2 * Core!LongH - b
             r == L - b
             p == q - 1
  <2>1. /\ a \in Int /\ p \in Int /\ r \in Int /\ L \in Nat \ {0} /\ a = p * L + r /\ 0 <= r /\ r < L
    BY <1>2, <1>3, <1>5
  <2> HIDE DEF a, r, p, L
  <2>2. a % L = r
    BY ONLY <2>1, DivMod
  <2> QED
    BY <2>2 DEF a, r
<1>7. b % L = b
  <2> HIDE DEF L
  <2> QED
    BY <1>2
<1> QED
  BY <1>3, <1>6, <1>7 DEF Core!Low

LEMMA CarryToggled ==
  ASSUME NEW n, NEW z, NEW v, NEW c
  PROVE  [[n |-> n, z |-> z, v |-> v, c |-> c] EXCEPT !.c = ~@] = [n |-> n, z |-> z, v |-> v, c |-> ~c]
OBVIOUS

\* The complement is added instead: all flags but the carry.
LEMMA AddsComplement ==
  ASSUME NEW h \in Nat, h > 1, NEW a \in Int, NEW b, NEW c,
         NEW lb \in Int, Core!Low(b, h) = lb, Core!Low(c, h) = 2 * h - lb, 0 < lb, lb < 2 * h, lb # h
  PROVE  /\ Core!AluAdd(a, c, 0, h).res = Core!AluSub(a, b, h).res
         /\ Core!AluAdd(a, c, 0, h).f = [Core!AluSub(a, b, h).f EXCEPT !.c = ~@]
<1> DEFINE L   == 2 * h
           ua  == Core!Low(a, h)
           lc  == L - lb
           dif == ua - lb
           sum == ua + lc + 0
<1>1. L \in Nat \ {0} /\ ua \in 0 .. L - 1 /\ lc \in 1 .. L - 1 /\ lc # h
  BY DEF Core!Low
<1> HIDE DEF ua
<1>2. dif \in Int /\ sum = dif + L /\ sum \in Int
  BY <1>1
<1>3. Core!Low(sum, h) = Core!Low(dif, h)
  <2> DEFINE r == dif % L
             q == dif \div L
  <2>1. dif = L * q + r /\ r \in 0 .. L - 1 /\ q \in Int
    <3> HIDE DEF L, dif
    <3> QED
      BY <1>1, <1>2
  <2> HIDE DEF r, q, sum, dif, L
  <2>2. sum = (q + 1) * L + r /\ q + 1 \in Int
    BY <1>1, <1>2, <2>1
  <2>3. sum % L = r
    BY <1>1, <1>2, <2>1, <2>2, DivMod
  <2> QED
    BY <2>3 DEF Core!Low, r, L
<1>4. Core!Sign(lc, h) <=> ~Core!Sign(lb, h)
  <2>1. Core!Low(lb, h) = lb /\ Core!Low(lc, h) = lc
    <3> HIDE DEF lc
    <3>1. lb % L = lb /\ lc % L = lc
      <4> HIDE DEF L
      <4>1. lb \in 0 .. L - 1
        BY DEF L
      <4> QED
        BY <1>1, <4>1
    <3> QED
      BY <3>1 DEF Core!Low
  <2> QED
    BY <1>1, <2>1 DEF Core!Sign
<1>5. (sum >= L) <=> ~(ua < lb)
  BY <1>1
<1>6. Core!Sign(sum, h) <=> Core!Sign(dif, h)
  BY <1>3 DEF Core!Sign
<1> DEFINE Z == Core!AluAdd(a, c, 0, h)
           Y == Core!AluSub(a, b, h)
<1> HIDE DEF sum, dif
<1>7. Z = [res |-> Core!Low(sum, h),
           f   |-> [n |-> Core!Sign(sum, h), z |-> Core!Low(sum, h) = 0,
                    v |-> Core!Sign(ua, h) = Core!Sign(lc, h) /\ Core!Sign(ua, h) # Core!Sign(sum, h),
                    c |-> sum >= L]]
  BY DEF Core!AluAdd, ua, sum
<1>8. Y = [res |-> Core!Low(dif, h),
           f   |-> [n |-> Core!Sign(dif, h), z |-> Core!Low(dif, h) = 0,
                    v |-> Core!Sign(ua, h) # Core!Sign(lb, h) /\ Core!Sign(ua, h) # Core!Sign(dif, h),
                    c |-> ua < lb]]
  BY DEF Core!AluSub, ua, dif
<1>9. /\ Core!Sign(ua, h) \in BOOLEAN /\ Core!Sign(lb, h) \in BOOLEAN /\ Core!Sign(lc, h) \in BOOLEAN
      /\ Core!Sign(sum, h) \in BOOLEAN /\ Core!Sign(dif, h) \in BOOLEAN
  BY DEF Core!Sign
<1>10. (Core!Sign(ua, h) = Core!Sign(lc, h)) = (Core!Sign(ua, h) # Core!Sign(lb, h))
  BY <1>4, <1>9
<1>11. (sum >= L) = ~(ua < lb)
  BY <1>5
<1>12. Core!Sign(sum, h) = Core!Sign(dif, h)
  BY <1>6, <1>9
<1> HIDE DEF Z, Y, L, lc
<1> DEFINE nn == Core!Sign(dif, h)
           zz == Core!Low(dif, h) = 0
           vv == Core!Sign(ua, h) # Core!Sign(lb, h) /\ Core!Sign(ua, h) # Core!Sign(dif, h)
           cc == ua < lb
<1>13. Z.res = Y.res
  BY <1>3, <1>7, <1>8
<1>14. Y.f = [n |-> nn, z |-> zz, v |-> vv, c |-> cc]
  BY <1>8
<1>15. Z.f = [n |-> nn, z |-> zz, v |-> vv, c |-> ~cc]
  BY <1>3, <1>7, <1>10, <1>11, <1>12
<1> HIDE DEF nn, zz, vv, cc
<1>16. Z.f = [Y.f EXCEPT !.c = ~@]
  BY <1>14, <1>15, CarryToggled
<1> QED
  BY <1>13, <1>16 DEF Z, Y

LEMMA ImmediateIs ==
  ASSUME NEW n \in Short
  PROVE  /\ Core!Immediate(n) = IF n < Half THEN n ELSE (n - 2 * Half) + Long
         /\ Core!Immediate(n) \in 0 .. Long - 1
<1> DEFINE H == Core!ShortH
           L == 2 * Core!LongH
           sg == IF n < H THEN n ELSE n - 2 * H
<1>1. H \in Nat /\ H > 1 /\ Half = H /\ L = Long /\ L \in Nat /\ L >= 2 * H /\ n \in 0 .. 2 * H - 1
  BY CoreWidths DEF Short
<1> HIDE DEF H, L
<1>2. Core!Low(n, H) = n
  BY <1>1 DEF Core!Low
<1>3. Core!Signed(n, H) = sg
  BY <1>1, <1>2 DEF Core!Signed, Core!Sign
<1>4. sg % L = IF n < H THEN n ELSE sg + L
  <2>1. CASE n < H
    BY <1>1, <2>1
  <2>2. CASE ~(n < H)
    <3> DEFINE r == sg + L
               m == 0 - 1
    <3>1. sg \in Int /\ m \in Int /\ r \in Int /\ L \in Nat \ {0} /\ sg = m * L + r /\ 0 <= r /\ r < L
      <4>1. m * L = 0 - L
        BY <1>1
      <4> QED
        BY <1>1, <2>2, <4>1
    <3> HIDE DEF r, m, sg
    <3>2. sg % L = r
      BY ONLY <3>1, DivMod
    <3> QED
      BY <2>2, <3>2 DEF r
  <2> QED
    BY <2>1, <2>2
<1>5. Core!Immediate(n) = sg % L
  BY <1>3 DEF Core!Immediate, Core!Extended, L, H
<1> QED
  BY <1>1, <1>4, <1>5

\* The places of a shift are the low bits of an immediate.
LEMMA ImmediatePlaces ==
  ASSUME NEW n \in Short
  PROVE  Core!Shift(Core!Immediate(n)) = n % WordBits
<1> DEFINE B == WordBits
           v == Core!Immediate(n)
<1>1. B \in Nat \ {0} /\ B = Core!IntBits /\ Half \in Nat /\ Long \in Nat /\ (2 * Half) % B = 0 /\ Long % (2 * Half) = 0
      /\ Half > 1 /\ n \in 0 .. 2 * Half - 1
  BY FieldWidths, SameWidths DEF Short
<1>2. CASE n < Half
  BY <1>1, <1>2, ImmediateIs DEF Core!Shift
<1>3. CASE ~(n < Half)
  <2> DEFINE L == 2 * Half
             p == L \div B
             q == Long \div L
             k == n \div B
             r == n % B
  <2> HIDE DEF B
  <2>1. L \in Nat \ {0}
    BY <1>1
  <2>2. L = B * p /\ p \in Int
    <3>1. L = B * (L \div B) + (L % B) /\ L \div B \in Int
      <4> HIDE DEF L
      <4> QED
        BY <1>1, <2>1
    <3> QED
      BY <1>1, <2>1, <3>1
  <2>3. Long = L * q /\ q \in Int
    <3>1. Long = L * (Long \div L) + (Long % L) /\ Long \div L \in Int
      <4> HIDE DEF L
      <4> QED
        BY <1>1, <2>1
    <3> QED
      BY <1>1, <2>1, <3>1
  <2>4. n = B * k + r /\ k \in Int /\ r \in Int /\ 0 <= r /\ r < B
    BY <1>1
  <2> HIDE DEF L, p, q, k, r
  <2>5. v = (n - L) + Long
    BY <1>3, ImmediateIs DEF L
  <2> DEFINE m == (k - p) + p * q
  <2>6. v = m * B + r /\ m \in Int /\ v \in Int
    <3>1. p * q \in Int /\ Long = (p * q) * B
      <4>1. Long = (B * p) * q /\ p * q \in Int
        BY <2>2, <2>3
      <4>2. (B * p) * q = (p * q) * B
        BY <1>1, <2>2, <2>3
      <4> QED
        BY <4>1, <4>2
    <3> DEFINE pq == p * q
    <3> HIDE DEF pq
    <3>2. m = (k - p) + pq /\ Long = pq * B /\ pq \in Int
      BY <3>1 DEF pq
    <3>3. m * B = (k * B - p * B) + pq * B /\ k * B = B * k /\ p * B = B * p /\ m \in Int
      BY <1>1, <2>2, <2>4, <3>2
    <3> HIDE DEF m
    <3>4. {B * k, B * p, pq * B} \subseteq Int
      BY <1>1, <2>2, <2>4, <3>2
    <3>5. v = m * B + r
      BY <2>2, <2>4, <2>5, <3>2, <3>3, <3>4
    <3>6. v \in Int
      BY ImmediateIs, <1>1
    <3> QED
      BY <3>3, <3>5, <3>6
  <2> HIDE DEF m, v
  <2>7. v % B = r
    BY <1>1, <2>4, <2>6, DivMod
  <2> QED
    BY <1>1, <2>7 DEF Core!Shift, v, r, B
<1> QED
  BY <1>1, <1>2, <1>3

\* What the words of the CA arithmetic do to the state u that the pipelines
\* have moved on to.
Tick(s) == Core!LatencyTick(s)

LEMMA ArithmeticAfter ==
  ASSUME NEW x, NEW s
  PROVE  /\ x.op = "alu"  => After(s, x) = Core!ExecAluReg(Tick(s), x)
         /\ x.op = "imm"  => After(s, x) = Core!ExecAluImm(Tick(s), x)
         /\ x.op = "add3" => After(s, x) = Core!ExecAdd3(Tick(s), x)
<1>1. After(s, x) = Core!ExecInsn(Tick(s), x)
  BY DEF After, Core!Executed, Tick
<1>2. ASSUME x.op = "alu" PROVE After(s, x) = Core!ExecAluReg(Tick(s), x)
  BY <1>1, <1>2 DEF Core!ExecInsn
<1>3. ASSUME x.op = "imm" PROVE After(s, x) = Core!ExecAluImm(Tick(s), x)
  BY <1>1, <1>3 DEF Core!ExecInsn
<1>4. ASSUME x.op = "add3" PROVE After(s, x) = Core!ExecAdd3(Tick(s), x)
  BY <1>1, <1>4 DEF Core!ExecInsn
<1> QED
  BY <1>2, <1>3, <1>4

\* The pipelines move on and nothing else.
LEMMA Ticked ==
  ASSUME NEW s, Core!StateOK(s), NEW u, u = Tick(s)
  PROVE  /\ DOMAIN u = Core!StateFields /\ u.r = s.r /\ u.a = s.a /\ u.cau = s.cau /\ u.mem = s.mem /\ u.raised = {}
         /\ u.flagPipe[4] = s.flagPipe[3] /\ u.r \in [RegNo -> Core!LongWord] /\ u.cau \in Core!Flags
<1>1. DOMAIN s = Core!StateFields /\ s.r \in [RegNo -> Core!LongWord] /\ s.cau \in Core!Flags
  BY DEF Core!StateOK
<1>2. {"r", "a", "cau", "mem", "raised", "flagPipe", "aPipe", "taken"} \subseteq DOMAIN s
  BY <1>1 DEF Core!StateFields
<1>3. u = [s EXCEPT !.aPipe = <<s.a, @[1], @[2]>>, !.flagPipe = <<s.dau, @[1], @[2], @[3]>>,
                    !.raised = {}, !.taken = FALSE]
  BY DEF Tick, Core!LatencyTick
<1>4. DOMAIN u = Core!StateFields /\ u.r = s.r /\ u.a = s.a /\ u.cau = s.cau /\ u.mem = s.mem /\ u.raised = {}
  BY <1>1, <1>2, <1>3
<1>5. u.flagPipe = <<s.dau, s.flagPipe[1], s.flagPipe[2], s.flagPipe[3]>>
  BY <1>2, <1>3
<1>6. u.flagPipe[4] = s.flagPipe[3]
  BY <1>5
<1> QED
  BY <1>1, <1>4, <1>6

\* What a register code stands for is a number of the core.
LEMMA OpvalIsNumber ==
  ASSUME NEW u, u.r \in [RegNo -> Core!LongWord], NEW c \in Core!Source
  PROVE  Core!Opval(u, c) \in 0 .. Long - 1
<1>1. Core!LongWord = 0 .. Long - 1 /\ Long \in Nat /\ Long > 1 /\ 2 * Core!LongH = Long
  BY CoreWidths DEF Core!LongWord
<1>2. CASE c \in {0, 22, 23}
  BY <1>1, <1>2 DEF Core!Opval
<1>3. CASE c \in RegNo /\ c \notin {0, 22, 23}
  BY <1>1, <1>3 DEF Core!Opval
<1> QED
  BY <1>2, <1>3 DEF Core!Source

\* An addition and its flags do not depend on the order of the operands.
LEMMA AddCommutes ==
  ASSUME NEW h \in Nat, h > 1, NEW a \in Int, NEW b \in Int
  PROVE  Core!AluAdd(a, b, 0, h) = Core!AluAdd(b, a, 0, h)
<1> DEFINE ua == Core!Low(a, h)
           ub == Core!Low(b, h)
<1>1. ua \in Int /\ ub \in Int
  BY DEF Core!Low
<1> HIDE DEF ua, ub
<1>2. ua + ub + 0 = ub + ua + 0
  BY <1>1
<1> DEFINE sum == ua + ub + 0
<1>3. /\ Core!AluAdd(a, b, 0, h) =
           [res |-> Core!Low(sum, h),
            f   |-> [n |-> Core!Sign(sum, h), z |-> Core!Low(sum, h) = 0,
                     v |-> Core!Sign(ua, h) = Core!Sign(ub, h) /\ Core!Sign(ua, h) # Core!Sign(sum, h),
                     c |-> sum >= 2 * h]]
      /\ Core!AluAdd(b, a, 0, h) =
           [res |-> Core!Low(sum, h),
            f   |-> [n |-> Core!Sign(sum, h), z |-> Core!Low(sum, h) = 0,
                     v |-> Core!Sign(ub, h) = Core!Sign(ua, h) /\ Core!Sign(ub, h) # Core!Sign(sum, h),
                     c |-> sum >= 2 * h]]
  BY <1>2 DEF Core!AluAdd, ua, ub
<1> HIDE DEF sum
<1>4. (Core!Sign(ua, h) = Core!Sign(ub, h) /\ Core!Sign(ua, h) # Core!Sign(sum, h))
        = (Core!Sign(ub, h) = Core!Sign(ua, h) /\ Core!Sign(ub, h) # Core!Sign(sum, h))
  <2>1. Core!Sign(ua, h) \in BOOLEAN /\ Core!Sign(ub, h) \in BOOLEAN /\ Core!Sign(sum, h) \in BOOLEAN
    BY DEF Core!Sign
  <2> QED
    BY <2>1
<1> QED
  BY <1>3, <1>4

\* One and minus one: each is the complement of the other at the width of
\* long words.
LEMMA Ones ==
  ASSUME NEW u
  PROVE  Core!Opval(u, PLUS) = 1 /\ Core!Opval(u, MINUS) = 2 * Core!LongH - 1 /\ Core!Opval(u, R0) = 0
BY DEF Core!Opval, PLUS, MINUS, R0

\* The second operand, but for the steps of the stack pointer.
LEMMA OperandIs ==
  ASSUME NEW x, NEW u, ~(x.f = "add" /\ x.rd = SP /\ x.rs1 = SP /\ x.rs2 \in {PLUS, MINUS})
  PROVE  Core!AluOperand(u, x) = Core!Opval(u, x.rs2)
BY DEF Core!AluOperand, Core!SpBump, SP, PLUS, MINUS

\* The ALU with the complement of an operand: it adds instead of subtracting.
LEMMA AluComplement ==
  ASSUME NEW u, u.cau \in Core!Flags, "cau" \in DOMAIN u, "r" \in DOMAIN u,
         NEW short \in BOOLEAN, NEW h, h = Core!WordH(short),
         NEW rd, NEW a \in Int, NEW b, NEW c,
         NEW lb \in Int, Core!Low(b, h) = lb, Core!Low(c, h) = 2 * h - lb, 0 < lb, lb < 2 * h, lb # h
  PROVE  Core!Alu(u, "add", a, c, rd, h) = Complemented(Core!Alu(u, "sub", a, b, rd, h))
<1>1. h \in Nat /\ h > 1
  BY WordHs
<1> DEFINE Z == Core!AluAdd(a, c, 0, h)
           Y == Core!AluSub(a, b, h)
           v == Core!Extended(Y.res, h, Core!LongH)
<1>2. Z.res = Y.res /\ Z.f = [Y.f EXCEPT !.c = ~@]
  BY <1>1, AddsComplement
<1>3. Core!AluOp(u, "add", a, c, h) = Z /\ Core!AluOp(u, "sub", a, b, h) = Y
  BY DEF Core!AluOp
<1> HIDE DEF Z, Y
<1>4. /\ Core!Alu(u, "add", a, c, rd, h) = Core!Regw([u EXCEPT !.cau = Z.f], rd, v)
      /\ Core!Alu(u, "sub", a, b, rd, h) = Core!Regw([u EXCEPT !.cau = Y.f], rd, v)
  BY <1>2, <1>3 DEF Core!Alu, Core!StoresResult
<1> HIDE DEF v
<1>5. Core!Regw([u EXCEPT !.cau = [Y.f EXCEPT !.c = ~@]], rd, v) = [Core!Regw([u EXCEPT !.cau = Y.f], rd, v) EXCEPT !.cau.c = ~@]
  <2>1. [u EXCEPT !.cau = [Y.f EXCEPT !.c = ~@]] = [[u EXCEPT !.cau = Y.f] EXCEPT !.cau = [Y.f EXCEPT !.c = ~@]]
    OBVIOUS
  <2> DEFINE m == [u EXCEPT !.cau = Y.f]
             k == [Y.f EXCEPT !.c = ~@]
  <2>2. m.cau = Y.f /\ DOMAIN m = DOMAIN u
    OBVIOUS
  <2>3. CASE rd \in RegNo
    <3> DEFINE m2 == [m EXCEPT !.r[rd] = v]
    <3>1. m2.cau = Y.f
      BY <2>2
    <3>2. [[m EXCEPT !.cau = k] EXCEPT !.r[rd] = v] = [m2 EXCEPT !.cau = k]
      <4> HIDE DEF k, m
      <4>1. "cau" # "r"
        OBVIOUS
      <4> QED
        BY <2>2, <4>1
    <3>3. [m2 EXCEPT !.cau = k] = [m2 EXCEPT !.cau.c = ~@]
      <4> HIDE DEF m2
      <4> QED
        BY <3>1
    <3>4. Core!Regw([u EXCEPT !.cau = k], rd, v) = [[u EXCEPT !.cau = k] EXCEPT !.r[rd] = v]
      BY <2>3 DEF Core!Regw
    <3>5. Core!Regw(m, rd, v) = m2
      BY <2>3 DEF Core!Regw
    <3> HIDE DEF m2, k, m
    <3> QED
      BY <2>1, <3>2, <3>3, <3>4, <3>5 DEF m, k
  <2>4. CASE rd \notin RegNo
    <3>1. [m EXCEPT !.cau = k] = [m EXCEPT !.cau.c = ~@]
      <4> HIDE DEF m
      <4> QED
        BY <2>2
    <3> QED
      BY <2>1, <2>4, <3>1 DEF Core!Regw
  <2> QED
    BY <2>3, <2>4
<1> QED
  BY <1>2, <1>4, <1>5 DEF Complemented

\* Outcomes that are equal agree, if x has not become an addition.
LEMMA AgreeSame ==
  ASSUME NEW x, NEW y, NEW s, After(s, y) = After(s, x), ~TurnsIntoAddition(x, y)
  PROVE  Agree(x, y, s, After(s, x), After(s, y))
BY DEF Agree

LEMMA AluFields ==
  ASSUME NEW x \in AluWord
  PROVE  /\ x.op \in {"alu", "imm", "add3"} /\ x.short \in BOOLEAN
         /\ x.op \in {"imm", "add3"} => x.n \in Short
BY DEF AluWord

\* A register instruction works if its condition holds.
LEMMA AluRegAfter ==
  ASSUME NEW x, x.op = "alu", NEW s, Core!StateOK(s), NEW u, u = Tick(s)
  PROVE  After(s, x) = IF Takes(x, s)
                       THEN Core!Alu(u, x.f, Core!Opval(u, x.rs1), Core!AluOperand(u, x), x.rd, Core!WordH(x.short))
                       ELSE u
<1>1. After(s, x) = Core!ExecAluReg(u, x)
  BY ArithmeticAfter
<1>2. Takes(x, s) <=> Core!CondEval(u.cau, u.flagPipe[4], x.c)
  BY Ticked DEF Takes
<1> QED
  BY <1>1, <1>2 DEF Core!ExecAluReg

LEMMA TakesAlike ==
  ASSUME NEW x, NEW s
  PROVE  /\ x.op # "alu" => Takes(x, s)
         /\ x.c = "true" => Takes(x, s)
         /\ \A y : x.op = "alu" /\ y.op = "alu" /\ y.c = x.c => (Takes(y, s) <=> Takes(x, s))
BY DEF Takes, Core!CondEval

\* Registers exchanged, and fields the function does not look at.
LEMMA RegistersMean ==
  ASSUME NEW x, NEW y, x.op = "alu", y.op = "alu", y.c = x.c, y.short = x.short, x.short \in BOOLEAN,
         NEW s, Core!StateOK(s), x.f = "add" => x.rs2 \in Core!Source,
         \/ /\ x.f = "add" /\ y.f = "add" /\ y.rd = x.rd
            /\ x.rs1 = R0 /\ x.rs2 \notin {R0, PLUS, MINUS} /\ y.rs1 = x.rs2 /\ y.rs2 = R0
         \/ x.f = "rsub" /\ y.f = "sub" /\ y.rd = x.rd /\ y.rs1 = x.rs2 /\ y.rs2 = x.rs1
         \/ x.f \in Rotations /\ y.f = x.f /\ y.rd = x.rd /\ y.rs1 = x.rs1
         \/ x.f \in Tests /\ y.f = x.f /\ y.rs1 = x.rs1 /\ y.rs2 = x.rs2
  PROVE  After(s, y) = After(s, x)
<1> DEFINE u == Tick(s)
           h == Core!WordH(x.short)
           a == Core!Opval(u, x.rs1)
           b == Core!AluOperand(u, x)
           a2 == Core!Opval(u, y.rs1)
           b2 == Core!AluOperand(u, y)
<1>1. Takes(y, s) <=> Takes(x, s)
  BY TakesAlike
<1>2. /\ After(s, x) = IF Takes(x, s) THEN Core!Alu(u, x.f, a, b, x.rd, h) ELSE u
      /\ After(s, y) = IF Takes(y, s) THEN Core!Alu(u, y.f, a2, b2, y.rd, h) ELSE u
  BY AluRegAfter
<1>3. u.r \in [RegNo -> Core!LongWord] /\ h \in Nat /\ h > 1
  BY Ticked, WordHs
<1>4. R0 # PLUS /\ R0 # MINUS
  BY DEF R0, PLUS, MINUS
<1>5. ~(x.f = "add" /\ x.rs2 \in {PLUS, MINUS}) /\ ~(y.f = "add" /\ y.rs2 \in {PLUS, MINUS})
  BY <1>4 DEF Rotations, Tests
<1>6. b = Core!Opval(u, x.rs2) /\ b2 = Core!Opval(u, y.rs2)
  BY <1>5, OperandIs
<1> HIDE DEF u, h, a, b, a2, b2
<1>7. CASE /\ x.f = "add" /\ y.f = "add" /\ y.rd = x.rd
           /\ x.rs1 = R0 /\ x.rs2 \notin {R0, PLUS, MINUS} /\ y.rs1 = x.rs2 /\ y.rs2 = R0
  <2>1. a = b2 /\ a2 = b
    BY <1>6, <1>7 DEF a, a2
  <2>2. a \in Int /\ b \in Int
    <3>1. Long \in Nat
      BY FieldWidths
    <3>2. b \in 0 .. Long - 1
      BY <1>3, <1>6, <1>7, OpvalIsNumber
    <3>3. a = 0
      BY <1>7, Ones DEF a
    <3> QED
      BY <3>1, <3>2, <3>3
  <2>3. Core!AluOp(u, "add", a2, b2, h) = Core!AluOp(u, "add", a, b, h)
    BY <1>3, <2>1, <2>2, AddCommutes DEF Core!AluOp
  <2>4. Core!Alu(u, "add", a2, b2, x.rd, h) = Core!Alu(u, "add", a, b, x.rd, h)
    BY <2>3 DEF Core!Alu
  <2> QED
    BY <1>1, <1>2, <1>7, <2>4
<1>8. CASE x.f = "rsub" /\ y.f = "sub" /\ y.rd = x.rd /\ y.rs1 = x.rs2 /\ y.rs2 = x.rs1
  <2>1. a = b2 /\ a2 = b
    BY <1>6, <1>8 DEF a, a2
  <2>2. Core!AluOp(u, "sub", a2, b2, h) = Core!AluOp(u, "rsub", a, b, h)
    BY <2>1 DEF Core!AluOp
  <2>3. Core!Alu(u, "sub", a2, b2, x.rd, h) = Core!Alu(u, "rsub", a, b, x.rd, h)
    BY <2>2 DEF Core!Alu, Core!StoresResult
  <2> QED
    BY <1>1, <1>2, <1>8, <2>3
<1>9. CASE x.f \in Rotations /\ y.f = x.f /\ y.rd = x.rd /\ y.rs1 = x.rs1
  <2>1. a = a2
    BY <1>9 DEF a, a2
  <2>2. Core!AluOp(u, x.f, a2, b2, h) = Core!AluOp(u, x.f, a, b, h)
    BY <1>9, <2>1 DEF Core!AluOp, Rotations
  <2>3. Core!Alu(u, x.f, a2, b2, x.rd, h) = Core!Alu(u, x.f, a, b, x.rd, h)
    BY <2>2 DEF Core!Alu
  <2> QED
    BY <1>1, <1>2, <1>9, <2>3
<1>10. CASE x.f \in Tests /\ y.f = x.f /\ y.rs1 = x.rs1 /\ y.rs2 = x.rs2
  <2>1. a = a2 /\ b = b2
    BY <1>6, <1>10 DEF a, a2
  <2>2. Core!Alu(u, x.f, a2, b2, y.rd, h) = Core!Alu(u, x.f, a, b, x.rd, h)
    BY <1>10, <2>1 DEF Core!Alu, Core!StoresResult, Tests
  <2> QED
    BY <1>1, <1>2, <1>10, <2>2
<1> QED
  BY <1>7, <1>8, <1>9, <1>10

\* From registers to an immediate and back.
LEMMA ImmediatesMean ==
  ASSUME NEW x, NEW y, x.short \in BOOLEAN, y.short = x.short, y.rd = x.rd, NEW s, Core!StateOK(s),
         x.op \in {"imm", "add3"} => x.n \in Short,
         \/ /\ x.op = "alu" /\ x.c = "true" /\ x.f \in Shifts /\ x.rs2 = PLUS /\ x.rs1 = x.rd
            /\ y.op = "imm" /\ y.f = x.f /\ y.n = 1
         \/ x.op = "imm" /\ y.op = "add3" /\ y.rs3 = x.rd /\ x.f = "add" /\ y.n = x.n
         \/ /\ x.op = "imm" /\ y.op = "alu" /\ y.c = "true"
            /\ x.f \in Rotations /\ y.f = x.f /\ y.rs1 = x.rd
         \/ x.op = "imm" /\ y.op = "imm" /\ x.f \in Shifts /\ y.f = x.f /\ y.n = x.n % WordBits
         \/ /\ x.op = "add3" /\ y.op = "alu" /\ y.c = "true"
            /\ y.f = "add" /\ Sext16(x.n) = 0 /\ y.rs1 = x.rs3 /\ y.rs2 = R0
  PROVE  After(s, y) = After(s, x)
<1> DEFINE u == Tick(s)
           h == Core!WordH(x.short)
<1>1. /\ x.op = "imm"  => After(s, x) = Core!Alu(u, x.f, Core!Opval(u, x.rd), Core!Immediate(x.n), x.rd, h)
      /\ x.op = "add3" => After(s, x) = Core!Alu(u, "add", Core!Opval(u, x.rs3), Core!Immediate(x.n), x.rd, h)
      /\ y.op = "imm"  => After(s, y) = Core!Alu(u, y.f, Core!Opval(u, x.rd), Core!Immediate(y.n), x.rd, h)
      /\ y.op = "add3" => After(s, y) = Core!Alu(u, "add", Core!Opval(u, y.rs3), Core!Immediate(y.n), x.rd, h)
  BY ArithmeticAfter DEF Core!ExecAluImm, Core!ExecAdd3
<1>2. /\ x.op = "alu" /\ x.c = "true" =>
           After(s, x) = Core!Alu(u, x.f, Core!Opval(u, x.rs1), Core!AluOperand(u, x), x.rd, h)
      /\ y.op = "alu" /\ y.c = "true" =>
           After(s, y) = Core!Alu(u, y.f, Core!Opval(u, y.rs1), Core!AluOperand(u, y), x.rd, h)
  BY AluRegAfter, TakesAlike
<1> HIDE DEF u, h
<1>3. ASSUME NEW f \in Shifts, NEW a, NEW b, NEW c, Core!Shift(b) = Core!Shift(c)
      PROVE  Core!Alu(u, f, a, b, x.rd, h) = Core!Alu(u, f, a, c, x.rd, h)
  <2>1. Core!AluOp(u, f, a, b, h) = Core!AluOp(u, f, a, c, h)
    BY <1>3 DEF Core!AluOp, Shifts
  <2> QED
    BY <2>1 DEF Core!Alu
<1>4. CASE /\ x.op = "alu" /\ x.c = "true" /\ x.f \in Shifts /\ x.rs2 = PLUS /\ x.rs1 = x.rd
           /\ y.op = "imm" /\ y.f = x.f /\ y.n = 1
  <2>1. Core!AluOperand(u, x) = 1
    BY <1>4, OperandIs, Ones DEF Shifts
  <2>2. Core!Immediate(1) = 1
    <3>1. Half \in Nat /\ Half > 1 /\ 1 \in Short
      BY CoreWidths DEF Short
    <3> QED
      BY <3>1, ImmediateIs
  <2> QED
    BY <1>1, <1>2, <1>4, <2>1, <2>2
<1>5. CASE x.op = "imm" /\ y.op = "add3" /\ y.rs3 = x.rd /\ x.f = "add" /\ y.n = x.n
  BY <1>1, <1>5
<1>6. CASE /\ x.op = "imm" /\ y.op = "alu" /\ y.c = "true"
           /\ x.f \in Rotations /\ y.f = x.f /\ y.rs1 = x.rd
  <2> DEFINE a == Core!Opval(u, x.rd)
             b == Core!Immediate(x.n)
             c == Core!AluOperand(u, y)
  <2>1. After(s, x) = Core!Alu(u, x.f, a, b, x.rd, h) /\ After(s, y) = Core!Alu(u, x.f, a, c, x.rd, h)
    BY <1>1, <1>2, <1>6
  <2> HIDE DEF a, b, c
  <2>2. Core!AluOp(u, x.f, a, b, h) = Core!AluOp(u, x.f, a, c, h)
    BY <1>6 DEF Core!AluOp, Rotations
  <2> QED
    BY <2>1, <2>2 DEF Core!Alu
<1>7. CASE x.op = "imm" /\ y.op = "imm" /\ x.f \in Shifts /\ y.f = x.f /\ y.n = x.n % WordBits
  <2>1. x.n \in Short /\ y.n \in Short /\ y.n % WordBits = x.n % WordBits
    <3>1. x.n \in Short
      BY <1>7
    <3>2. y.n \in Short /\ y.n % WordBits = y.n
      BY <1>7, <3>1, Places
    <3> QED
      BY <1>7, <3>1, <3>2
  <2>2. Core!Shift(Core!Immediate(y.n)) = Core!Shift(Core!Immediate(x.n))
    BY <2>1, ImmediatePlaces
  <2> QED
    BY <1>1, <1>3, <1>7, <2>2
<1>8. CASE /\ x.op = "add3" /\ y.op = "alu" /\ y.c = "true"
           /\ y.f = "add" /\ Sext16(x.n) = 0 /\ y.rs1 = x.rs3 /\ y.rs2 = R0
  <2>1. Half \in Nat /\ Half > 1 /\ x.n \in 0 .. 2 * Half - 1
    BY <1>8, CoreWidths DEF Short
  <2>2. x.n = 0
    BY <1>8, <2>1 DEF Sext16
  <2>3. Core!Immediate(x.n) = 0
    BY <1>8, <2>1, <2>2, ImmediateIs
  <2>4. Core!AluOperand(u, y) = 0
    BY <1>8, OperandIs, Ones DEF R0, PLUS, MINUS
  <2> QED
    BY <1>1, <1>2, <1>8, <2>3, <2>4
<1> QED
  BY <1>4, <1>5, <1>6, <1>7, <1>8

\* A step of one, subtracted or added.
LEMMA StepsMean ==
  ASSUME NEW x, NEW y, x.op = "alu", y.op = "alu", y.c = x.c, y.short = x.short, x.short \in BOOLEAN,
         NEW s, Core!StateOK(s), x.rs1 \in Core!Source,
         x.f = "sub", y.f = "add", y.rd = x.rd, y.rs1 = x.rs1, ~(x.rd = SP /\ x.rs1 = SP),
         (x.rs2 = PLUS /\ y.rs2 = MINUS) \/ (x.rs2 = MINUS /\ y.rs2 = PLUS)
  PROVE  After(s, y) = IF Takes(x, s) THEN Complemented(After(s, x)) ELSE After(s, x)
<1> DEFINE u == Tick(s)
           h == Core!WordH(x.short)
           a == Core!Opval(u, x.rs1)
           b == Core!AluOperand(u, x)
           c == Core!AluOperand(u, y)
<1>1. Takes(y, s) <=> Takes(x, s)
  BY TakesAlike
<1>2. /\ After(s, x) = IF Takes(x, s) THEN Core!Alu(u, "sub", a, b, x.rd, h) ELSE u
      /\ After(s, y) = IF Takes(y, s) THEN Core!Alu(u, "add", a, c, x.rd, h) ELSE u
  BY AluRegAfter
<1>3. /\ u.r \in [RegNo -> Core!LongWord] /\ u.cau \in Core!Flags /\ "cau" \in DOMAIN u /\ "r" \in DOMAIN u
      /\ h \in Nat /\ h > 1
  BY Ticked, WordHs DEF Core!StateFields
<1>4. a \in Int
  <2>1. Long \in Nat
    BY FieldWidths
  <2>2. a \in 0 .. Long - 1
    BY <1>3, OpvalIsNumber
  <2> QED
    BY <2>1, <2>2
<1>5. Core!Low(1, h) = 1 /\ Core!Low(2 * Core!LongH - 1, h) = 2 * h - 1
  BY <1>3, Complements
<1>6. b = Core!Opval(u, x.rs2) /\ c = Core!Opval(u, y.rs2)
  BY OperandIs
<1> HIDE DEF u, h, a, b, c
<1>7. \E lb \in Int : Core!Low(b, h) = lb /\ Core!Low(c, h) = 2 * h - lb /\ 0 < lb /\ lb < 2 * h /\ lb # h
  <2>1. CASE x.rs2 = PLUS /\ y.rs2 = MINUS
    <3>1. Core!Low(b, h) = 1 /\ Core!Low(c, h) = 2 * h - 1
      BY <1>5, <1>6, <2>1, Ones
    <3> QED
      BY <1>3, <3>1
  <2>2. CASE x.rs2 = MINUS /\ y.rs2 = PLUS
    <3>1. Core!Low(b, h) = 2 * h - 1 /\ Core!Low(c, h) = 1
      BY <1>5, <1>6, <2>2, Ones
    <3>2. 2 * h - 1 \in Int /\ 1 = 2 * h - (2 * h - 1) /\ 0 < 2 * h - 1 /\ 2 * h - 1 < 2 * h /\ 2 * h - 1 # h
      BY <1>3
    <3> QED
      BY <3>1, <3>2
  <2> QED
    BY <2>1, <2>2
<1>8. Core!Alu(u, "add", a, c, x.rd, h) = Complemented(Core!Alu(u, "sub", a, b, x.rd, h))
  <2>1. PICK lb \in Int : Core!Low(b, h) = lb /\ Core!Low(c, h) = 2 * h - lb /\ 0 < lb /\ lb < 2 * h /\ lb # h
    BY <1>7
  <2>2. /\ h = Core!WordH(x.short) /\ x.short \in BOOLEAN /\ u.cau \in Core!Flags /\ "cau" \in DOMAIN u
        /\ "r" \in DOMAIN u /\ a \in Int
    BY <1>3, <1>4 DEF h
  <2> QED
    BY ONLY <2>1, <2>2, AluComplement
<1> DEFINE one == After(s, x)
           two == After(s, y)
<1> HIDE DEF one, two
<1>9. CASE Takes(x, s)
  <2>1. one = Core!Alu(u, "sub", a, b, x.rd, h) /\ two = Core!Alu(u, "add", a, c, x.rd, h)
    BY <1>1, <1>2, <1>9 DEF one, two
  <2>2. two = Complemented(one)
    BY <1>8, <2>1
  <2> QED
    BY <1>9, <2>2 DEF one, two
<1>10. CASE ~Takes(x, s)
  BY <1>1, <1>2, <1>10
<1> QED
  BY <1>9, <1>10

\* A number subtracted, or its negative added.
LEMMA NumbersMean ==
  ASSUME NEW x, NEW y, x.op = "imm", y.op = "add3", y.short = x.short, x.short \in BOOLEAN,
         NEW s, Core!StateOK(s), x.rd \in Core!Source, x.n \in Short,
         x.f = "sub", y.rd = x.rd, y.rs3 = x.rd, Sext16(x.n) > 0, y.n = Low16(-Sext16(x.n))
  PROVE  After(s, y) = Complemented(After(s, x))
<1> DEFINE u == Tick(s)
           h == Core!WordH(x.short)
           a == Core!Opval(u, x.rd)
           b == Core!Immediate(x.n)
           c == Core!Immediate(y.n)
           k == x.n
<1>1. After(s, x) = Core!Alu(u, "sub", a, b, x.rd, h) /\ After(s, y) = Core!Alu(u, "add", a, c, x.rd, h)
  BY ArithmeticAfter DEF Core!ExecAluImm, Core!ExecAdd3
<1>2. /\ u.r \in [RegNo -> Core!LongWord] /\ u.cau \in Core!Flags /\ "cau" \in DOMAIN u /\ "r" \in DOMAIN u
      /\ h \in Nat /\ h > 1 /\ h >= Half /\ Half \in Nat /\ Half > 1 /\ Long = 2 * Core!LongH /\ Long \in Nat
  BY Ticked, WordHs, CoreWidths, FieldWidths DEF Core!StateFields
<1>3. a \in Int
  <2>1. a \in 0 .. Long - 1
    BY <1>2, OpvalIsNumber
  <2> QED
    BY <1>2, <2>1
<1>4. k \in Int /\ 0 < k /\ k < Half /\ Sext16(k) = k
  BY <1>2 DEF Sext16, Short
<1> HIDE DEF u, h, a
<1>5. b = k
  BY <1>2, <1>4, ImmediateIs
<1>6. c = 2 * Core!LongH - k
  <2>1. y.n = (0 - k) % (2 * Half)
    BY <1>4 DEF Low16
  <2>2. (0 - k) % (2 * Half) = 2 * Half - k
    <3> HIDE DEF k
    <3> QED
      BY <1>2, <1>4
  <2>3. y.n \in Short /\ ~(y.n < Half)
    <3> HIDE DEF k
    <3> QED
      BY <1>2, <1>4, <2>1, <2>2 DEF Short
  <2>4. c = (y.n - 2 * Half) + Long
    BY <2>3, ImmediateIs
  <2> HIDE DEF k, c
  <2> QED
    BY <1>2, <1>4, <2>1, <2>2, <2>4
<1> HIDE DEF k, b, c
<1>7. 0 < k /\ k < h
  BY <1>2, <1>4
<1>8. Core!Low(b, h) = k /\ Core!Low(c, h) = 2 * h - k
  <2>1. h = Core!WordH(x.short)
    BY DEF h
  <2> QED
    BY <1>4, <1>5, <1>6, <1>7, <2>1, Complements
<1>9. Core!Alu(u, "add", a, c, x.rd, h) = Complemented(Core!Alu(u, "sub", a, b, x.rd, h))
  <2>1. /\ k \in Int /\ Core!Low(b, h) = k /\ Core!Low(c, h) = 2 * h - k /\ 0 < k /\ k < 2 * h /\ k # h
    BY <1>2, <1>4, <1>7, <1>8
  <2>2. /\ h = Core!WordH(x.short) /\ x.short \in BOOLEAN /\ u.cau \in Core!Flags /\ "cau" \in DOMAIN u
        /\ "r" \in DOMAIN u /\ a \in Int
    BY <1>2, <1>3 DEF h
  <2> QED
    BY ONLY <2>1, <2>2, AluComplement
<1> QED
  BY <1>1, <1>9

\* A word of the CA arithmetic does what its alias does, but for the carry of a
\* subtraction that has become an addition.
LEMMA CaMeans ==
  ASSUME NEW x \in AluWord, NEW y, CaAlias(x, y), NEW s, Core!StateOK(s),
         ~(x.op = "alu" /\ x.f \in Rotations) => Core!WellFormed(x)
  PROVE  Agree(x, y, s, After(s, x), After(s, y))
<1>1. x.op \in {"alu", "imm", "add3"} /\ x.short \in BOOLEAN /\ (x.op \in {"imm", "add3"} => x.n \in Short)
  BY AluFields
<1>2. /\ x.op = "alu" /\ x.f \notin Rotations => x.rs1 \in Core!Source /\ x.rs2 \in Core!Source
      /\ x.op = "imm" => x.rd \in Core!Source
  BY DEF Core!WellFormed
<1>3. CASE y = x
  <2>1. ~TurnsIntoAddition(x, y)
    BY <1>1, <1>3 DEF TurnsIntoAddition
  <2> QED
    BY <1>3, <2>1, AgreeSame
<1>4. ASSUME x.op = "alu", y.op = "alu", y.c = x.c, y.short = x.short,
             \/ /\ x.f = "add" /\ y.f = "add" /\ y.rd = x.rd
                /\ x.rs1 = R0 /\ x.rs2 \notin {R0, PLUS, MINUS} /\ y.rs1 = x.rs2 /\ y.rs2 = R0
             \/ x.f = "rsub" /\ y.f = "sub" /\ y.rd = x.rd /\ y.rs1 = x.rs2 /\ y.rs2 = x.rs1
             \/ x.f \in Rotations /\ y.f = x.f /\ y.rd = x.rd /\ y.rs1 = x.rs1
             \/ x.f \in Tests /\ y.f = x.f /\ y.rs1 = x.rs1 /\ y.rs2 = x.rs2
      PROVE  Agree(x, y, s, After(s, x), After(s, y))
  <2>1. x.f # "sub" /\ (x.f = "add" => x.f \notin Rotations)
    BY <1>4 DEF Rotations, Tests
  <2>2. After(s, y) = After(s, x)
    BY <1>1, <1>2, <1>4, <2>1, RegistersMean
  <2>3. ~TurnsIntoAddition(x, y)
    BY <2>1 DEF TurnsIntoAddition
  <2> QED
    BY <2>2, <2>3, AgreeSame
<1>5. ASSUME x.op = "alu", y.op = "alu", y.c = x.c, y.short = x.short,
             x.f = "sub", y.f = "add", y.rd = x.rd, y.rs1 = x.rs1, ~(x.rd = SP /\ x.rs1 = SP),
             (x.rs2 = PLUS /\ y.rs2 = MINUS) \/ (x.rs2 = MINUS /\ y.rs2 = PLUS)
      PROVE  Agree(x, y, s, After(s, x), After(s, y))
  <2>1. x.rs1 \in Core!Source
    BY <1>2, <1>5 DEF Rotations
  <2>2. After(s, y) = IF Takes(x, s) THEN Complemented(After(s, x)) ELSE After(s, x)
    BY <1>1, <1>5, <2>1, StepsMean
  <2>3. TurnsIntoAddition(x, y)
    BY <1>5 DEF TurnsIntoAddition
  <2> QED
    BY <2>2, <2>3 DEF Agree
<1>6. ASSUME y.short = x.short, y.rd = x.rd,
             \/ /\ x.op = "alu" /\ x.c = "true" /\ x.f \in Shifts /\ x.rs2 = PLUS /\ x.rs1 = x.rd
                /\ y.op = "imm" /\ y.f = x.f /\ y.n = 1
             \/ x.op = "imm" /\ y.op = "add3" /\ y.rs3 = x.rd /\ x.f = "add" /\ y.n = x.n
             \/ /\ x.op = "imm" /\ y.op = "alu" /\ y.c = "true"
                /\ x.f \in Rotations /\ y.f = x.f /\ y.rs1 = x.rd
             \/ x.op = "imm" /\ y.op = "imm" /\ x.f \in Shifts /\ y.f = x.f /\ y.n = x.n % WordBits
             \/ /\ x.op = "add3" /\ y.op = "alu" /\ y.c = "true"
                /\ y.f = "add" /\ Sext16(x.n) = 0 /\ y.rs1 = x.rs3 /\ y.rs2 = R0
      PROVE  Agree(x, y, s, After(s, x), After(s, y))
  <2>1. After(s, y) = After(s, x)
    BY <1>1, <1>6, ImmediatesMean
  <2>2. x.op \in {"alu", "imm"} => x.f # "sub"
    BY <1>6 DEF Shifts, Rotations
  <2>3. ~TurnsIntoAddition(x, y)
    BY <2>2 DEF TurnsIntoAddition
  <2> QED
    BY <2>1, <2>3, AgreeSame
<1>7. ASSUME x.op = "imm", y.op = "add3", y.short = x.short, y.rd = x.rd, y.rs3 = x.rd,
             x.f = "sub", Sext16(x.n) > 0, y.n = Low16(-Sext16(x.n))
      PROVE  Agree(x, y, s, After(s, x), After(s, y))
  <2>1. After(s, y) = Complemented(After(s, x))
    BY <1>1, <1>2, <1>7, NumbersMean
  <2>2. TurnsIntoAddition(x, y) /\ Takes(x, s)
    BY <1>7 DEF TurnsIntoAddition, Takes
  <2> QED
    BY <2>1, <2>2 DEF Agree
<1> HIDE DEF Agree
<1> QED
  BY <1>3, <1>4, <1>5, <1>6, <1>7 DEF CaAlias

\* A state as data instructions leave it up to their store.
BeforeStore(u) ==
  /\ DOMAIN u = Core!StateFields /\ u.r \in [RegNo -> Core!LongWord] /\ Core!BUSERR \notin u.raised

\* A store of v at address x, and the move of pointer p behind it.
StoreAt(u, x, p, i, size, v) ==
  IF ~Core!Mapped(u, x) THEN Core!Raise(u, Core!BUSERR)
  ELSE Core!DaPostmod([u EXCEPT !.mem[x] = v], p, i, size)

\* The store through Y's pointer, and the one through Y's address.
LEMMA StoresAgree ==
  ASSUME NEW u, BeforeStore(u), NEW p \in RegNo, NEW i, NEW x1, NEW x2, NEW size, NEW v,
         NEW one, one = StoreAt(u, x1, p, i, size, v), NEW two, two = StoreAt(u, x2, p, i, size, v)
  PROVE  /\ x2 = x1 => two = one
         /\ two.a = one.a /\ two.dau = one.dau
         /\ one.raised = two.raised => two.r = one.r
<1>1. DOMAIN u = Core!StateFields
  BY DEF BeforeStore
<1>2. ASSUME NEW x, NEW o, o = StoreAt(u, x, p, i, size, v)
      PROVE  /\ o.a = u.a /\ o.dau = u.dau
             /\ ~Core!Mapped(u, x) => o.r = u.r /\ Core!BUSERR \in o.raised
             /\ Core!Mapped(u, x)  => o.r = Core!DaPostmod(u, p, i, size).r /\ o.raised = u.raised
  <2>1. CASE ~Core!Mapped(u, x)
    <3>1. o = [u EXCEPT !.raised = @ \cup {Core!BUSERR}]
      BY <1>2, <2>1 DEF StoreAt, Core!Raise
    <3> QED
      BY <1>1, <2>1, <3>1 DEF Core!StateFields
  <2>2. CASE Core!Mapped(u, x)
    <3> DEFINE m == [u EXCEPT !.mem[x] = v]
               step == CASE i = 0 -> 0 [] i = 6 -> -size [] i = 7 -> size [] OTHER -> u.r[16 + i]
    <3>1. DOMAIN m = DOMAIN u /\ m.r = u.r /\ m.a = u.a /\ m.dau = u.dau /\ m.raised = u.raised
      BY <1>1 DEF Core!StateFields
    <3>2. o = Core!DaPostmod(m, p, i, size)
      BY <1>2, <2>2 DEF StoreAt
    <3> HIDE DEF m
    <3>3. o = [m EXCEPT !.r[p] = Core!Low(@ + step, Core!LongH)]
      BY <3>1, <3>2 DEF Core!DaPostmod
    <3>4. Core!DaPostmod(u, p, i, size) = [u EXCEPT !.r[p] = Core!Low(@ + step, Core!LongH)]
      BY DEF Core!DaPostmod
    <3> HIDE DEF step
    <3>5. o.a = m.a /\ o.dau = m.dau /\ o.raised = m.raised /\ o.r = [m.r EXCEPT ![p] = Core!Low(@ + step, Core!LongH)]
      BY <1>1, <3>1, <3>3 DEF Core!StateFields
    <3>6. Core!DaPostmod(u, p, i, size).r = [u.r EXCEPT ![p] = Core!Low(@ + step, Core!LongH)]
      BY <1>1, <3>4 DEF Core!StateFields
    <3> QED
      BY <2>2, <3>1, <3>5, <3>6
  <2> QED
    BY <2>1, <2>2
<1>3. /\ one.a = u.a /\ one.dau = u.dau
      /\ ~Core!Mapped(u, x1) => one.r = u.r /\ Core!BUSERR \in one.raised
      /\ Core!Mapped(u, x1)  => one.r = Core!DaPostmod(u, p, i, size).r /\ one.raised = u.raised
  BY <1>2
<1>4. /\ two.a = u.a /\ two.dau = u.dau
      /\ ~Core!Mapped(u, x2) => two.r = u.r /\ Core!BUSERR \in two.raised
      /\ Core!Mapped(u, x2)  => two.r = Core!DaPostmod(u, p, i, size).r /\ two.raised = u.raised
  BY <1>2
<1>5. x2 = x1 => two = one
  OBVIOUS
<1>6. Core!BUSERR \notin u.raised
  BY DEF BeforeStore
<1> QED
  BY <1>3, <1>4, <1>5, <1>6

\* Z as it is printed and assembled.
LEMMA StoreMeans ==
  ASSUME NEW u, BeforeStore(u), NEW y, y.p \in 0..14, NEW z, NEW z2, ZAlias(z, z2, y), z.p \in RegNo \cup {0, 15},
         NEW Y, Y.acc <=> y.p = 0, ~Y.acc => Y.preg = y.p /\ (y.i = 0 => u.r[y.p] = Y.ea),
         NEW size, NEW v,
         NEW one, one = Core!DaStoreZ(u, z, Y, size, v), NEW two, two = Core!DaStoreZ(u, z2, Y, size, v)
  PROVE  IF z.p \in 1..14 /\ z.p = y.p /\ y.i # 0
         THEN /\ two.a = one.a /\ two.dau = one.dau
              /\ one.raised = two.raised => two.r = one.r
         ELSE two = one
<1>1. CASE z2 = z
  BY <1>1
<1>2. CASE z2.p = 0 /\ (z.p = 0 \/ (z.p = 15 /\ y.p = 0))
  <2>1. ~Core!DaZWrites(z, Y) /\ ~Core!DaZWrites(z2, Y)
    BY <1>2 DEF Core!DaZWrites
  <2>2. one = u /\ two = u
    BY <2>1 DEF Core!DaStoreZ
  <2> QED
    BY <2>2
<1>3. CASE z.p \in 1..14 /\ z.p = y.p /\ z2 = [p |-> 15, i |-> z.i]
  <2>1. z2.p = 15 /\ z2.i = z.i /\ ~Y.acc /\ z.p # 0 /\ z.p # 15 /\ z.p \in RegNo
    BY <1>3
  <2>2. Core!DaZWrites(z, Y) /\ Core!DaZWrites(z2, Y)
    BY <2>1 DEF Core!DaZWrites
  <2>3. /\ Core!ZReg(z, Y) = z.p /\ Core!ZReg(z2, Y) = z.p
        /\ Core!ZAddr(u, z, Y) = u.r[z.p] /\ Core!ZAddr(u, z2, Y) = Y.ea
    BY <1>3, <2>1 DEF Core!ZReg, Core!ZAddr
  <2> DEFINE x1 == u.r[z.p]
             x2 == Y.ea
             p  == z.p
             i  == z.i
  <2>4. one = StoreAt(u, x1, p, i, size, v) /\ two = StoreAt(u, x2, p, i, size, v)
    BY <2>1, <2>2, <2>3 DEF Core!DaStoreZ, StoreAt
  <2>5. p \in RegNo /\ (y.i = 0 => x2 = x1)
    BY <1>3, <2>1
  <2> HIDE DEF x1, x2, p, i
  <2>6. /\ x2 = x1 => two = one
        /\ two.a = one.a /\ two.dau = one.dau
        /\ one.raised = two.raised => two.r = one.r
    BY <2>4, <2>5, StoresAgree
  <2> QED
    BY <1>3, <2>5, <2>6
<1> QED
  BY <1>1, <1>2, <1>3 DEF ZAlias

\* What the reading of a field leaves alone.
LEMMA ReadingMoves ==
  ASSUME NEW u, BeforeStore(u), NEW f, Core!Operand(f), f.p \in 0..14, NEW size \in Nat,
         NEW o, o = Core!DaReadMoves(u, f, size)
  PROVE  /\ BeforeStore(o) /\ o.a = u.a /\ o.aPipe = u.aPipe
         /\ f.p # 0 /\ f.i = 0 => f.p \in RegNo /\ o.r[f.p] = u.r[f.p]
<1>1. Core!FromAcc(f) <=> f.p = 0
  BY DEF Core!FromAcc
<1>2. CASE f.p = 0
  BY <1>1, <1>2 DEF Core!DaReadMoves
<1>3. CASE f.p # 0
  <2> DEFINE step == CASE f.i = 0 -> 0 [] f.i = 6 -> -size [] f.i = 7 -> size [] OTHER -> u.r[16 + f.i]
             v == Core!Low(u.r[f.p] + step, Core!LongH)
  <2>1. f.p \in RegNo /\ f.i \in 0..7 /\ (f.i \in 1..5 => 16 + f.i \in RegNo)
    BY <1>1, <1>3 DEF Core!Operand, Core!Increment
  <2>2. DOMAIN u = Core!StateFields /\ u.r \in [RegNo -> Core!LongWord] /\ Core!BUSERR \notin u.raised
    BY DEF BeforeStore
  <2>3. Core!LongH \in Nat /\ Core!LongH > 0 /\ Core!LongWord = 0 .. 2 * Core!LongH - 1
    BY CoreWidths DEF Core!LongWord
  <2>4. u.r[f.p] \in Core!LongWord
    BY <2>1, <2>2
  <2>10. step \in Int
    <3>1. \A c \in RegNo : u.r[c] \in Int
      BY <2>2, <2>3
    <3>2. CASE f.i \in 1..5
      <4>1. f.i # 0 /\ f.i # 6 /\ f.i # 7
        BY <3>2
      <4>2. step = u.r[16 + f.i] /\ 16 + f.i \in RegNo
        BY <2>1, <3>2, <4>1
      <4> HIDE DEF step
      <4> QED
        BY <3>1, <4>2
    <3>3. CASE f.i = 0
      BY <3>3
    <3>4. CASE f.i = 6
      <4>1. step = -size
        BY <3>4
      <4> QED
        BY <4>1
    <3>5. CASE f.i = 7
      <4>1. step = size
        BY <3>5
      <4> QED
        BY <4>1
    <3> HIDE DEF step
    <3> QED
      BY <2>1, <3>2, <3>3, <3>4, <3>5
  <2>5. o = [u EXCEPT !.r[f.p] = v]
    BY <1>1, <1>3 DEF Core!DaReadMoves, Core!DaPostmod
  <2>6. f.i = 0 => step = 0
    OBVIOUS
  <2> HIDE DEF step
  <2>7. v \in Core!LongWord /\ (step = 0 => v = u.r[f.p])
    <3> DEFINE r == u.r[f.p]
               L == 2 * Core!LongH
    <3>1. L \in Nat /\ L > 0 /\ r \in 0 .. L - 1 /\ v = (r + step) % L
      BY <2>3, <2>4, <2>10 DEF Core!Low
    <3> HIDE DEF r, L, v
    <3>2. v \in 0 .. L - 1 /\ (step = 0 => v = r)
      BY <2>10, <3>1
    <3> QED
      BY <2>3, <3>2 DEF r, L
  <2> HIDE DEF v
  <2>8. /\ DOMAIN o = DOMAIN u /\ o.r = [u.r EXCEPT ![f.p] = v]
        /\ o.a = u.a /\ o.aPipe = u.aPipe /\ o.raised = u.raised
    BY <2>2, <2>5 DEF Core!StateFields
  <2>9. o.r \in [RegNo -> Core!LongWord] /\ o.r[f.p] = v
    BY <2>1, <2>2, <2>7, <2>8
  <2> QED
    BY <2>1, <2>2, <2>6, <2>7, <2>8, <2>9 DEF BeforeStore
<1> QED
  BY <1>2, <1>3

\* What the flags of a result leave alone.
LEMMA FlagsOf ==
  ASSUME NEW u, BeforeStore(u), NEW f,
         NEW o, o = Core!WithFlags(u, f) \/ o = Core!Raise(Core!WithFlags(u, f), Core!UV)
  PROVE  BeforeStore(o) /\ o.r = u.r
<1> DEFINE g == Core!WithFlags(u, f)
<1>1. DOMAIN u = Core!StateFields /\ Core!BUSERR \notin u.raised
  BY DEF BeforeStore
<1>2. DOMAIN g = DOMAIN u /\ g.r = u.r /\ g.raised = u.raised
  BY <1>1 DEF Core!WithFlags, Core!StateFields
<1> HIDE DEF g
<1>3. o = g \/ o = [g EXCEPT !.raised = @ \cup {Core!UV}]
  BY DEF g, Core!Raise
<1>4. DOMAIN o = DOMAIN u /\ o.r = u.r /\ Core!BUSERR \notin o.raised
  <2>1. Core!UV # Core!BUSERR
    BY DEF Core!UV, Core!BUSERR
  <2> QED
    BY <1>1, <1>2, <1>3, <2>1 DEF Core!StateFields
<1> QED
  BY <1>4 DEF BeforeStore

LEMMA FlagsSet ==
  ASSUME NEW u, BeforeStore(u), NEW b
  PROVE  /\ BeforeStore(Core!DaFlags(u, b, TRUE).t) /\ Core!DaFlags(u, b, TRUE).t.r = u.r
         /\ BeforeStore(Core!DaFlags(u, b, FALSE).t) /\ Core!DaFlags(u, b, FALSE).t.r = u.r
<1> DEFINE o1 == Core!DaFlags(u, b, TRUE).t
           o2 == Core!DaFlags(u, b, FALSE).t
<1>1. \E f : o1 = Core!WithFlags(u, f) \/ o1 = Core!Raise(Core!WithFlags(u, f), Core!UV)
  BY DEF Core!DaFlags
<1>2. \E f : o2 = Core!WithFlags(u, f) \/ o2 = Core!Raise(Core!WithFlags(u, f), Core!UV)
  BY DEF Core!DaFlags
<1> HIDE DEF o1, o2
<1>3. BeforeStore(o1) /\ o1.r = u.r
  BY <1>1, FlagsOf
<1>4. BeforeStore(o2) /\ o2.r = u.r
  BY <1>2, FlagsOf
<1> QED
  BY <1>3, <1>4 DEF o1, o2

\* The steps of a DA instruction x in state u up to its store.
FirstMoved(u, x) == Core!DaReadMoves(u, x.x, 4)
SecondRead(u, x) == Core!DaRead(FirstMoved(u, x), x.y)
BothMoved(u, x)  == Core!DaReadMoves(FirstMoved(u, x), x.y, 4)
TermSum(u, x) ==
  LET ad == Core!AdderIn(BothMoved(u, x), x, SecondRead(u, x))
      p  == Core!ProductIn(BothMoved(u, x), x, Core!DaRead(u, x.x), SecondRead(u, x))
  IN  Core!DauAdd(IF x.fs THEN Core!AccNegate(ad) ELSE ad, IF x.ss THEN [p EXCEPT !.m = -@] ELSE p)
Flagged(u, x) == Core!DaFlags(BothMoved(u, x), TermSum(u, x), TRUE)
Summed(u, x)  == [Flagged(u, x).t EXCEPT !.a[x.n] = Flagged(u, x).res]
ValueOfZ(u, x) ==
  LET Y == SecondRead(u, x) IN
  IF ~Core!Tap(x) THEN Core!AccPack(Flagged(u, x).res)
  ELSE IF Y.acc THEN Core!AccPack([BothMoved(u, x).a EXCEPT ![x.n] = Flagged(u, x).res][Y.n]) ELSE Y.raw

LEMMA DaSteps ==
  ASSUME NEW u, NEW x
  PROVE  Core!ExecDa(u, x) =
           IF Core!DaReadFaults(u, x.x) THEN Core!Raise(u, Core!BUSERR)
           ELSE IF Core!DaReadFaults(FirstMoved(u, x), x.y) THEN Core!Raise(FirstMoved(u, x), Core!BUSERR)
           ELSE Core!DaStoreZ(Summed(u, x), x.z, SecondRead(u, x), 4, ValueOfZ(u, x))
BY DEF Core!ExecDa, FirstMoved, SecondRead, BothMoved, TermSum, Flagged, Summed, ValueOfZ, Core!Finish

\* A product of nothing has no sign.
LEMMA NothingNegated ==
  ASSUME NEW p, p = Core!Zero
  PROVE  [p EXCEPT !.m = -@] = p
<1> DEFINE z == p.m
<1>1. p = [m |-> 0, e |-> 0]
  BY DEF Core!Zero
<1>2. z = 0 /\ "m" \in DOMAIN p
  BY <1>1
<1> HIDE DEF z
<1>4. -z = z
  <2>1. z \in Int /\ z <= 0 /\ z >= 0
    BY <1>2
  <2> QED
    BY <2>1
<1>3. -p.m = p.m
  BY <1>4 DEF z
<1> QED
  BY <1>1, <1>2, <1>3

\* The accumulator 0 to 3 that a field names.
LEMMA AccumulatorRead ==
  ASSUME NEW u, NEW m \in 0..3
  PROVE  /\ Core!FromAcc(AccField(m)) /\ ~Core!DaReadFaults(u, AccField(m))
         /\ Core!DaReadMoves(u, AccField(m), 4) = u
         /\ Core!DaRead(u, AccField(m)).acc = TRUE
         /\ Core!DaAdder(Core!DaRead(u, AccField(m))) = u.a[m]
         /\ Core!DaRead(u, AccField(m)).raw = Core!AccPack(u.aPipe[3][m])
<1>1. Core!FromAcc(AccField(m)) /\ AccField(m).i = m /\ m % 4 = m
  BY DEF Core!FromAcc, AccField
<1>2. Core!DaRead(u, AccField(m)) =
        [acc |-> TRUE, n |-> m, val |-> u.a[m], raw |-> Core!AccPack(u.aPipe[3][m])]
  BY <1>1 DEF Core!DaRead
<1> QED
  BY <1>1, <1>2 DEF Core!DaReadFaults, Core!DaReadMoves, Core!DaAdder

\* Aliases read, move and sum alike.
LEMMA SumsAlike ==
  ASSUME NEW x, NEW y, DaAlias(x, y), x.fmt \in {1, 2, 3}, x.m \in 0..6, NEW u
  PROVE  /\ FirstMoved(u, y) = FirstMoved(u, x) /\ BothMoved(u, y) = BothMoved(u, x)
         /\ Core!DaReadFaults(FirstMoved(u, y), y.y) <=> Core!DaReadFaults(FirstMoved(u, x), x.y)
         /\ TermSum(u, y) = TermSum(u, x)
<1> DEFINE t1 == FirstMoved(u, x)
           X  == Core!DaRead(u, x.x)
<1>0. FirstMoved(u, y) = t1 /\ y.x = x.x /\ y.fs = x.fs
  BY DEF DaAlias, FirstMoved
<1>1. ASSUME y.y = x.y,
             \A t2, Y : Core!AdderIn(t2, y, Y) = Core!AdderIn(t2, x, Y),
             \A t2, Y : /\ Core!ProductIn(t2, y, X, Y) = Core!ProductIn(t2, x, X, Y)
                        /\ y.ss = x.ss \/ Core!ProductIn(t2, x, X, Y) = Core!Zero
      PROVE  /\ BothMoved(u, y) = BothMoved(u, x)
             /\ Core!DaReadFaults(FirstMoved(u, y), y.y) <=> Core!DaReadFaults(FirstMoved(u, x), x.y)
             /\ TermSum(u, y) = TermSum(u, x)
  <2> DEFINE Y  == SecondRead(u, x)
             t2 == BothMoved(u, x)
             ad == Core!AdderIn(t2, x, Y)
             p  == Core!ProductIn(t2, x, X, Y)
  <2>1. BothMoved(u, y) = t2 /\ SecondRead(u, y) = Y
    BY <1>0, <1>1 DEF BothMoved, SecondRead
  <2>2. Core!AdderIn(t2, y, Y) = ad /\ Core!ProductIn(t2, y, X, Y) = p /\ (y.ss = x.ss \/ p = Core!Zero)
    BY <1>1
  <2>3. TermSum(u, x) = Core!DauAdd(IF x.fs THEN Core!AccNegate(ad) ELSE ad, IF x.ss THEN [p EXCEPT !.m = -@] ELSE p)
    BY DEF TermSum
  <2>4. TermSum(u, y) = Core!DauAdd(IF x.fs THEN Core!AccNegate(ad) ELSE ad, IF y.ss THEN [p EXCEPT !.m = -@] ELSE p)
    BY <1>0, <2>1, <2>2 DEF TermSum
  <2> HIDE DEF p, ad, t2, Y
  <2>5. (IF x.ss THEN [p EXCEPT !.m = -@] ELSE p) = (IF y.ss THEN [p EXCEPT !.m = -@] ELSE p)
    <3>1. CASE y.ss = x.ss
      BY <3>1
    <3>2. CASE p = Core!Zero
      BY <3>2, NothingNegated
    <3> QED
      BY <2>2, <3>1, <3>2
  <2>6. TermSum(u, y) = TermSum(u, x)
    BY <2>3, <2>4, <2>5
  <2>7. Core!DaReadFaults(FirstMoved(u, y), y.y) <=> Core!DaReadFaults(FirstMoved(u, x), x.y)
    BY <1>0, <1>1
  <2> QED
    BY <2>1, <2>6, <2>7 DEF t2
<1>2. CASE y.fmt = x.fmt /\ y.m = x.m /\ y.y = x.y /\ y.ss = x.ss
  <2>1. \A t2, Y : Core!AdderIn(t2, y, Y) = Core!AdderIn(t2, x, Y)
    BY <1>2 DEF Core!AdderIn
  <2>2. \A t2, Y : Core!ProductIn(t2, y, X, Y) = Core!ProductIn(t2, x, X, Y)
    BY <1>2 DEF Core!ProductIn
  <2> QED
    BY <1>0, <1>1, <1>2, <2>1, <2>2
<1>3. CASE x.fmt = 1 /\ x.m = 4 /\ y.fmt = 1 /\ y.m = 4 /\ y.y = x.y
  <2>1. \A t2, Y : Core!AdderIn(t2, y, Y) = Core!AdderIn(t2, x, Y)
    BY <1>3 DEF Core!AdderIn
  <2>2. \A t2, Y : Core!ProductIn(t2, y, X, Y) = Core!Zero /\ Core!ProductIn(t2, x, X, Y) = Core!Zero
    BY <1>3 DEF Core!ProductIn
  <2> QED
    BY <1>0, <1>1, <1>3, <2>1, <2>2
<1>4. CASE x.fmt = 1 /\ x.m = 6 /\ y.fmt = 1 /\ y.m = 5 /\ y.y = x.y /\ y.ss = x.ss /\ y.z.p = 0
  <2>1. \A t2, Y : Core!AdderIn(t2, y, Y) = Core!AdderIn(t2, x, Y)
    BY <1>4 DEF Core!AdderIn
  <2>2. \A t2, Y : Core!ProductIn(t2, y, X, Y) = Core!ProductIn(t2, x, X, Y)
    BY <1>4 DEF Core!ProductIn
  <2> QED
    BY <1>0, <1>1, <1>4, <2>1, <2>2
<1>5. CASE x.fmt = 2 /\ y.fmt = 3 /\ y.m = x.m /\ y.y = x.y /\ y.ss = x.ss /\ y.z.p = 0
  <2>1. \A t2, Y : Core!AdderIn(t2, y, Y) = Core!AdderIn(t2, x, Y)
    BY <1>5 DEF Core!AdderIn
  <2>2. \A t2, Y : Core!ProductIn(t2, y, X, Y) = Core!ProductIn(t2, x, X, Y)
    BY <1>5 DEF Core!ProductIn
  <2> QED
    BY <1>0, <1>1, <1>5, <2>1, <2>2
<1>6. CASE /\ x.fmt \in {2, 3} /\ y.fmt = 1 /\ x.m \in 0..3 /\ y.m \in 0..3
           /\ x.y = AccField(y.m) /\ y.y = AccField(x.m) /\ y.ss = x.ss
  <2> DEFINE A == Core!DaRead(t1, AccField(y.m))
             B == Core!DaRead(t1, AccField(x.m))
  <2>1. SecondRead(u, x) = A /\ SecondRead(u, y) = B
    BY <1>0, <1>6 DEF SecondRead
  <2>2. BothMoved(u, x) = t1 /\ BothMoved(u, y) = t1
    <3>1. Core!DaReadMoves(t1, AccField(y.m), 4) = t1 /\ Core!DaReadMoves(t1, AccField(x.m), 4) = t1
      BY <1>6, AccumulatorRead
    <3> HIDE DEF t1
    <3>2. FirstMoved(u, x) = t1 /\ FirstMoved(u, y) = t1
      BY <1>0 DEF t1
    <3> QED
      BY <1>6, <3>1, <3>2 DEF BothMoved
  <2>3. Core!DaAdder(B) = t1.a[x.m] /\ A.raw = Core!AccPack(t1.aPipe[3][y.m])
    BY <1>6, AccumulatorRead
  <2>4. ~Core!DaReadFaults(t1, x.y) /\ ~Core!DaReadFaults(t1, y.y)
    BY <1>6, AccumulatorRead
  <2>5. /\ x.fmt # 1 /\ x.m # 4 /\ x.m # 5 /\ y.fmt = 1 /\ y.m # 4 /\ y.m # 5 /\ y.m # 6 /\ y.m \notin {5, 6}
    BY <1>6
  <2> HIDE DEF A, B
  <2>6. Core!AdderIn(t1, x, A) = t1.a[x.m] /\ Core!AdderIn(t1, y, B) = t1.a[x.m]
    BY <2>3, <2>5 DEF Core!AdderIn
  <2>7. Core!ProductIn(t1, x, X, A) = Core!ProductIn(t1, y, X, B)
    BY <2>3, <2>5 DEF Core!ProductIn
  <2>8. y.fs = x.fs /\ y.ss = x.ss /\ Core!DaRead(u, y.x) = X
    BY <1>0, <1>6
  <2> HIDE DEF X, t1
  <2>9. TermSum(u, y) = TermSum(u, x)
    BY <2>1, <2>2, <2>6, <2>7, <2>8 DEF TermSum, X
  <2>10. FirstMoved(u, y) = t1 /\ FirstMoved(u, x) = t1
    BY <1>0 DEF t1
  <2> QED
    BY <2>2, <2>4, <2>9, <2>10
<1> QED
  BY <1>0, <1>2, <1>3, <1>4, <1>5, <1>6 DEF DaAlias

\* Y is what reading the field f has yielded, of which u is a later state.
ReadAs(Y, u, f) ==
  /\ Y.acc <=> f.p = 0
  /\ ~Y.acc => Y.preg = f.p /\ (f.i = 0 => u.r[f.p] = Y.ea)

\* Outcomes of data instructions that differ by the store alone.
LEMMA StoresLast ==
  ASSUME NEW x, NEW y, x.op \in {"da", "special"}, x.y.p \in 0..14, x.z.p \in RegNo \cup {0, 15},
         ZAlias(x.z, y.z, x.y), NEW s,
         NEW u, BeforeStore(u), NEW Y, ReadAs(Y, u, x.y), NEW size, NEW v, NEW one, one = Core!DaStoreZ(u, x.z, Y, size, v),
         NEW two, two = Core!DaStoreZ(u, y.z, Y, size, v)
  PROVE  Agree(x, y, s, one, two)
<1>1. ~TurnsIntoAddition(x, y)
  BY DEF TurnsIntoAddition
<1>2. StoresBehindY(x) <=> x.z.p \in 1..14 /\ x.z.p = x.y.p /\ x.y.i # 0
  BY DEF StoresBehindY
<1> DEFINE f == x.y
           z == x.z
           z2 == y.z
<1>3. f.p \in 0..14 /\ ZAlias(z, z2, f) /\ z.p \in RegNo \cup {0, 15}
      /\ (Y.acc <=> f.p = 0) /\ (~Y.acc => Y.preg = f.p /\ (f.i = 0 => u.r[f.p] = Y.ea))
      /\ one = Core!DaStoreZ(u, z, Y, size, v) /\ two = Core!DaStoreZ(u, z2, Y, size, v)
  BY DEF ReadAs
<1> HIDE DEF f, z, z2
<1>4. IF z.p \in 1..14 /\ z.p = f.p /\ f.i # 0
      THEN /\ two.a = one.a /\ two.dau = one.dau
           /\ one.raised = two.raised => two.r = one.r
      ELSE two = one
  BY <1>3, StoreMeans
<1>5. StoresBehindY(x) <=> z.p \in 1..14 /\ z.p = f.p /\ f.i # 0
  BY <1>2 DEF z, f
<1>6. CASE StoresBehindY(x)
  BY <1>1, <1>4, <1>5, <1>6 DEF Agree
<1>7. CASE ~StoresBehindY(x)
  BY <1>1, <1>4, <1>5, <1>7 DEF Agree
<1> QED
  BY <1>6, <1>7

\* A word of the DAU does what its alias does, but for the stores behind Y.
LEMMA DaMeans ==
  ASSUME NEW x, NEW y, DaAlias(x, y), x.fmt \in {1, 2, 3}, x.m \in 0..6, x.x.p \in 0..14, x.y.p \in 0..14,
         x.y = AccField(x.y.i) \/ x.y.p # 0,
         Core!WellFormed(x), NEW s, Core!StateOK(s)
  PROVE  Agree(x, y, s, After(s, x), After(s, y))
<1> DEFINE u  == Tick(s)
           t1 == FirstMoved(u, x)
           t2 == BothMoved(u, x)
           Y  == SecondRead(u, x)
           fl == Flagged(u, x)
           d  == Summed(u, x)
<1>1. x.op = "da" /\ y.op = "da" /\ y.n = x.n /\ y.x = x.x /\ ZAlias(x.z, y.z, x.y)
  BY DEF DaAlias
<1>2. x.n \in AccNo /\ Core!Operand(x.x) /\ Core!Operand(x.y) /\ Core!Target(x.z)
  BY <1>1 DEF Core!WellFormed
<1>3. After(s, x) = Core!ExecDa(u, x) /\ After(s, y) = Core!ExecDa(u, y)
  BY <1>1 DEF After, Core!Executed, Core!ExecInsn, Tick
<1>4. BeforeStore(u)
  BY Ticked DEF BeforeStore
<1> HIDE DEF u
<1>5. BeforeStore(t1)
  BY <1>2, <1>4, ReadingMoves DEF FirstMoved
<1> HIDE DEF t1
<1>6. t2 = Core!DaReadMoves(t1, x.y, 4)
  BY DEF BothMoved, t1
<1> HIDE DEF t2
<1>7. BeforeStore(t2) /\ (x.y.p # 0 /\ x.y.i = 0 => t2.r[x.y.p] = t1.r[x.y.p])
  <2> DEFINE f == x.y
  <2>1. Core!Operand(f) /\ f.p \in 0..14 /\ t2 = Core!DaReadMoves(t1, f, 4)
    BY <1>2, <1>6
  <2> HIDE DEF f
  <2>2. BeforeStore(t2) /\ (f.p # 0 /\ f.i = 0 => t2.r[f.p] = t1.r[f.p])
    BY <1>5, <2>1, ReadingMoves
  <2> QED
    BY <2>2 DEF f
<1>8. BeforeStore(fl.t) /\ fl.t.r = t2.r
  <2> DEFINE b == TermSum(u, x)
             o == fl.t
  <2>1. o = Core!DaFlags(t2, b, TRUE).t
    BY DEF Flagged, t2
  <2> HIDE DEF o, b
  <2>2. BeforeStore(o) /\ o.r = t2.r
    BY <1>7, <2>1, FlagsSet
  <2> QED
    BY <2>2 DEF o
<1> HIDE DEF fl
<1>9. BeforeStore(d) /\ d.r = t2.r
  <2>1. d = [fl.t EXCEPT !.a[x.n] = fl.res]
    BY DEF Summed, fl
  <2>2. DOMAIN fl.t = Core!StateFields
    BY <1>8 DEF BeforeStore
  <2> HIDE DEF d
  <2>3. DOMAIN d = DOMAIN fl.t /\ d.r = fl.t.r /\ d.raised = fl.t.raised
    BY <2>1, <2>2 DEF Core!StateFields
  <2> QED
    BY <1>8, <2>3 DEF BeforeStore
<1> HIDE DEF d
<1>10. /\ FirstMoved(u, y) = t1 /\ BothMoved(u, y) = t2
       /\ Core!DaReadFaults(FirstMoved(u, y), y.y) <=> Core!DaReadFaults(t1, x.y)
       /\ TermSum(u, y) = TermSum(u, x)
  BY SumsAlike DEF t1, t2
<1>11. Flagged(u, y) = fl /\ Summed(u, y) = d
  <2>1. Flagged(u, y) = fl
    BY <1>10 DEF Flagged, fl, t2
  <2> QED
    BY <1>1, <2>1 DEF Summed, fl, d
<1>12. /\ Y.acc <=> x.y.p = 0
       /\ ~Y.acc => Y.preg = x.y.p /\ Y.ea = t1.r[x.y.p]
  <2>1. Y = Core!DaRead(t1, x.y)
    BY DEF SecondRead, t1
  <2>2. Core!FromAcc(x.y) <=> x.y.p = 0
    BY DEF Core!FromAcc
  <2> HIDE DEF Y
  <2>3. CASE x.y.p = 0
    <3>1. Y = [acc |-> TRUE, n |-> x.y.i % 4, val |-> t1.a[x.y.i % 4], raw |-> Core!AccPack(t1.aPipe[3][x.y.i % 4])]
      BY <2>1, <2>2, <2>3 DEF Core!DaRead
    <3> QED
      BY <2>3, <3>1
  <2>4. CASE x.y.p # 0
    <3>1. Y = [acc |-> FALSE, raw |-> t1.mem[t1.r[x.y.p]], ea |-> t1.r[x.y.p], preg |-> x.y.p]
      BY <2>1, <2>2, <2>4 DEF Core!DaRead
    <3> QED
      BY <2>4, <3>1
  <2> QED
    BY <2>3, <2>4
<1>13. ~Y.acc => Y.preg = x.y.p /\ (x.y.i = 0 => d.r[x.y.p] = Y.ea)
  BY <1>7, <1>9, <1>12
<1>14. x.z.p \in RegNo \cup {0, 15}
  BY <1>2 DEF Core!Target
<1>15. \/ SecondRead(u, y) = Y /\ (ValueOfZ(u, y) = ValueOfZ(u, x) \/ y.z.p = 0)
       \/ SecondRead(u, y).acc = TRUE /\ Y.acc = TRUE /\ (ValueOfZ(u, y) = ValueOfZ(u, x) \/ y.z.p = 0)
  <2>1. CASE y.y = x.y
    <3>1. SecondRead(u, y) = Y
      BY <1>10, <2>1 DEF SecondRead, t1
    <3>2. (Core!Tap(y) <=> Core!Tap(x)) \/ y.z.p = 0
      BY <2>1 DEF DaAlias, Core!Tap, AccField
    <3>3. (Core!Tap(y) <=> Core!Tap(x)) => ValueOfZ(u, y) = ValueOfZ(u, x)
      BY <1>1, <1>10, <1>11, <3>1 DEF ValueOfZ, fl, t2
    <3> QED
      BY <3>1, <3>2, <3>3
  <2>2. CASE /\ x.fmt \in {2, 3} /\ y.fmt = 1 /\ x.m \in 0..3 /\ y.m \in 0..3
             /\ x.y = AccField(y.m) /\ y.y = AccField(x.m)
             /\ x.fmt = 2 => y.z.p = 0
    <3>1. Y.acc = TRUE /\ SecondRead(u, y).acc = TRUE
      BY <1>10, <2>2, AccumulatorRead DEF SecondRead, t1
    <3>2. ~Core!Tap(y) /\ (Core!Tap(x) => y.z.p = 0)
      BY <2>2 DEF Core!Tap
    <3>3. ~Core!Tap(x) => ValueOfZ(u, y) = ValueOfZ(u, x)
      BY <1>11, <3>2 DEF ValueOfZ, fl
    <3> QED
      BY <3>1, <3>2, <3>3
  <2> QED
    BY <2>1, <2>2 DEF DaAlias
<1> DEFINE one == Core!DaStoreZ(d, x.z, Y, 4, ValueOfZ(u, x))
           two == Core!DaStoreZ(d, y.z, SecondRead(u, y), 4, ValueOfZ(u, y))
           mid == Core!DaStoreZ(d, y.z, Y, 4, ValueOfZ(u, x))
<1>16. two = mid
  <2> DEFINE Y2 == SecondRead(u, y)
             v == ValueOfZ(u, x)
             v2 == ValueOfZ(u, y)
             z == y.z
  <2>1. (Y2 = Y \/ (Y2.acc = TRUE /\ Y.acc = TRUE)) /\ (v2 = v \/ z.p = 0)
    BY <1>15
  <2> HIDE DEF Y, Y2, v, v2, z
  <2>2. Core!DaStoreZ(d, z, Y2, 4, v2) = Core!DaStoreZ(d, z, Y, 4, v)
    <3>1. CASE z.p = 0
      BY <3>1 DEF Core!DaStoreZ, Core!DaZWrites
    <3>2. CASE z.p # 0 /\ Y2 = Y
      BY <2>1, <3>2
    <3>3. CASE z.p # 0 /\ Y2.acc = TRUE /\ Y.acc = TRUE
      <4>1. v2 = v
        BY <2>1, <3>3
      <4>2. CASE z.p = 15
        BY <3>3, <4>2 DEF Core!DaStoreZ, Core!DaZWrites
      <4>3. CASE z.p # 15
        BY <3>3, <4>1, <4>3 DEF Core!DaStoreZ, Core!DaZWrites, Core!ZReg, Core!ZAddr
      <4> QED
        BY <4>2, <4>3
    <3> QED
      BY <2>1, <3>1, <3>2, <3>3
  <2> QED
    BY <2>2 DEF Y2, v, v2, z
<1>17. Agree(x, y, s, one, mid)
  <2> DEFINE v == ValueOfZ(u, x)
             size == 4
  <2> HIDE DEF Y, v, size
  <2>1. x.op \in {"da", "special"} /\ ReadAs(Y, d, x.y)
    BY <1>1, <1>12, <1>13 DEF ReadAs
  <2>3. x.y.p \in 0..14 /\ BeforeStore(d) /\ ZAlias(x.z, y.z, x.y)
    BY <1>1, <1>9
  <2>2. one = Core!DaStoreZ(d, x.z, Y, size, v) /\ mid = Core!DaStoreZ(d, y.z, Y, size, v)
    BY DEF v, size
  <2> HIDE DEF one, mid, Agree
  <2> QED
    BY ONLY <1>14, <2>1, <2>2, <2>3, StoresLast
<1> HIDE DEF one, two, mid, Agree, Y
<1>18. /\ After(s, x) = IF Core!DaReadFaults(u, x.x) THEN Core!Raise(u, Core!BUSERR)
                        ELSE IF Core!DaReadFaults(t1, x.y) THEN Core!Raise(t1, Core!BUSERR) ELSE one
       /\ After(s, y) = IF Core!DaReadFaults(u, x.x) THEN Core!Raise(u, Core!BUSERR)
                        ELSE IF Core!DaReadFaults(t1, x.y) THEN Core!Raise(t1, Core!BUSERR) ELSE two
  BY <1>1, <1>3, <1>10, <1>11, DaSteps DEF one, two, t1, d, Y
<1>19. ~TurnsIntoAddition(x, y)
  BY <1>1 DEF TurnsIntoAddition
<1>20. CASE Core!DaReadFaults(u, x.x) \/ Core!DaReadFaults(t1, x.y)
  BY <1>18, <1>19, <1>20, AgreeSame
<1>21. CASE ~Core!DaReadFaults(u, x.x) /\ ~Core!DaReadFaults(t1, x.y)
  BY <1>16, <1>17, <1>18, <1>21
<1> QED
  BY <1>20, <1>21

\* A withheld store moves the register that the store would.
LEMMA MovesAlone ==
  ASSUME NEW u, NEW y, y.p \in 0..14, NEW z, NEW z2, ZAlias(z, z2, y), NEW Y, ReadAs(Y, u, y), NEW size
  PROVE  Core!DaPostmodOnly(u, z2, Y, size) = Core!DaPostmodOnly(u, z, Y, size)
<1>1. CASE z2 = z
  BY <1>1
<1>2. CASE z2.p = 0 /\ (z.p = 0 \/ (z.p = 15 /\ y.p = 0))
  BY <1>2 DEF ReadAs, Core!DaZWrites, Core!DaPostmodOnly
<1>3. CASE z.p \in 1..14 /\ z.p = y.p /\ z2 = [p |-> 15, i |-> z.i]
  <2>1. z2.p = 15 /\ z2.i = z.i /\ ~Y.acc /\ z.p # 0 /\ z.p # 15 /\ Y.preg = z.p
    BY <1>3 DEF ReadAs
  <2>2. Core!DaZWrites(z, Y) /\ Core!DaZWrites(z2, Y)
    BY <2>1 DEF Core!DaZWrites
  <2>3. Core!ZReg(z, Y) = z.p /\ Core!ZReg(z2, Y) = z.p
    BY <2>1 DEF Core!ZReg
  <2> QED
    BY <2>1, <2>2, <2>3 DEF Core!DaPostmodOnly
<1> QED
  BY <1>1, <1>2, <1>3 DEF ZAlias

\* What a special function leaves alone.
LEMMA Converted ==
  ASSUME NEW u, BeforeStore(u), NEW x, x.g \in Special \ {"reserved"}, NEW Y,
         NEW o, o = Core!Conversion(u, x, Y).t
  PROVE  BeforeStore(o) /\ o.r = u.r
<1>1. CASE x.g \in {"oc", "int16", "int32", "ieee", "ifalt", "ifaeq", "ifagt"}
  <2>1. o = u
    <3>1. CASE x.g = "oc"
      BY <3>1 DEF Core!Conversion
    <3>2. CASE x.g = "int16"
      BY <3>2 DEF Core!Conversion
    <3>3. CASE x.g = "int32"
      BY <3>3 DEF Core!Conversion
    <3>4. CASE x.g = "ieee"
      BY <3>4 DEF Core!Conversion
    <3>5. CASE x.g \in {"ifalt", "ifaeq", "ifagt"}
      BY <3>5 DEF Core!Conversion
    <3> QED
      BY <1>1, <3>1, <3>2, <3>3, <3>4, <3>5
  <2> QED
    BY <2>1
<1>2. ASSUME NEW b, o = Core!DaFlags(u, b, TRUE).t \/ o = Core!DaFlags(u, b, FALSE).t
      PROVE  BeforeStore(o) /\ o.r = u.r
  BY <1>2, FlagsSet
<1>3. CASE x.g = "ic"
  <2>1. o = Core!DaFlags(u, Core!IcValue(u, Core!IntOperand(Y, ByteBits)), FALSE).t
    BY <1>3 DEF Core!Conversion
  <2> QED
    BY <1>2, <2>1
<1>4. CASE x.g = "float16"
  <2>1. o = Core!DaFlags(u, Core!AccFromI64(Core!SignedOperand(Y, HalfBits)), FALSE).t
    BY <1>4 DEF Core!Conversion
  <2> QED
    BY <1>2, <2>1
<1>5. CASE x.g = "float32"
  <2>1. o = Core!DaFlags(u, Core!AccFromI64(Core!SignedOperand(Y, Core!IntBits)), FALSE).t
    BY <1>5 DEF Core!Conversion
  <2> QED
    BY <1>2, <2>1
<1>6. CASE x.g = "round"
  <2>1. o = Core!DaFlags(u, Core!AccRound(Core!DaAdder(Y)), TRUE).t
    BY <1>6 DEF Core!Conversion
  <2> QED
    BY <1>2, <2>1
<1>7. CASE x.g = "dsp"
  <2>1. CASE ~(Y.raw.x \in {0, Core!MaxExp})
    <3>1. o = Core!DaFlags(u, Core!AccFromIeee(Y.raw), TRUE).t
      BY <1>7, <2>1 DEF Core!Conversion
    <3> QED
      BY <1>2, <3>1
  <2>2. CASE Y.raw.x \in {0, Core!MaxExp}
    <3>1. o = Core!DspSpecial(u, Y.raw).t
      BY <1>7, <2>2 DEF Core!Conversion
    <3>2. PICK f : o = Core!WithFlags(u, f) \/ o = Core!Raise(Core!WithFlags(u, f), Core!NAN)
      BY <3>1 DEF Core!DspSpecial
    <3> DEFINE g == Core!WithFlags(u, f)
    <3>3. DOMAIN u = Core!StateFields /\ Core!BUSERR \notin u.raised
      BY DEF BeforeStore
    <3>4. DOMAIN g = DOMAIN u /\ g.r = u.r /\ g.raised = u.raised
      BY <3>3 DEF Core!WithFlags, Core!StateFields
    <3> HIDE DEF g
    <3>5. o = g \/ o = [g EXCEPT !.raised = @ \cup {Core!NAN}]
      BY <3>2 DEF g, Core!Raise
    <3>6. DOMAIN o = DOMAIN u /\ o.r = u.r /\ Core!BUSERR \notin o.raised
      <4>1. Core!NAN # Core!BUSERR
        BY DEF Core!NAN, Core!BUSERR
      <4> QED
        BY <3>3, <3>4, <3>5, <4>1 DEF Core!StateFields
    <3> QED
      BY <3>6 DEF BeforeStore
  <2> QED
    BY <2>1, <2>2
<1>8. CASE x.g = "seed"
  <2> DEFINE b == Core!AccUnpack(Core!SeedBits(Core!AsWord(Y)))
             g == Core!DaFlags(u, b, FALSE).t
             v == Core!AsWord(Y).e = Core!MaxExp /\ Core!SeedBits(Core!AsWord(Y)).e = 0
  <2>1. o = [g EXCEPT !.dau.U = v]
    BY <1>8 DEF Core!Conversion
  <2> HIDE DEF b, v
  <2>2. BeforeStore(g) /\ g.r = u.r
    BY FlagsSet
  <2> HIDE DEF g
  <2>3. DOMAIN g = Core!StateFields
    BY <2>2 DEF BeforeStore
  <2>4. DOMAIN o = DOMAIN g /\ o.r = g.r /\ o.raised = g.raised
    BY <2>1, <2>3 DEF Core!StateFields
  <2> QED
    BY <2>2, <2>4 DEF BeforeStore
<1> QED
  BY <1>1, <1>3, <1>4, <1>5, <1>6, <1>7, <1>8 DEF Special

\* A special function does what its alias does, but for the stores behind Y.
LEMMA SpecialMeans ==
  ASSUME NEW x, NEW y, SpecialAlias(x, y), x.y.p \in 0..14, x.g \in Special \ {"reserved"},
         Core!WellFormed(x), NEW s, Core!StateOK(s)
  PROVE  Agree(x, y, s, After(s, x), After(s, y))
<1> DEFINE u  == Tick(s)
           f  == x.y
           z  == x.z
           z2 == y.z
           n  == Core!ReadSize(x.g)
           Y  == Core!DaRead(u, f)
           t1 == Core!DaReadMoves(u, f, n)
           c  == Core!Conversion(t1, x, Y)
           d  == [c.t EXCEPT !.a[x.n] = c.res]
           k  == Core!StoreSize(x.g)
           v  == c.z
<1>1. x.op = "special" /\ y.op = "special" /\ y.g = x.g /\ y.n = x.n /\ y.y = f /\ ZAlias(z, z2, f)
  BY DEF SpecialAlias
<1>2. Core!Operand(f) /\ z.p \in RegNo \cup {0, 15} /\ f.p \in 0..14
  BY <1>1 DEF Core!WellFormed, Core!Target
<1>3. After(s, x) = Core!ExecDaSpecial(u, x) /\ After(s, y) = Core!ExecDaSpecial(u, y)
  BY <1>1 DEF After, Core!Executed, Core!ExecInsn, Tick
<1>4. BeforeStore(u)
  BY Ticked DEF BeforeStore
<1>5. n \in Nat
  BY DEF Core!ReadSize
<1>6. Core!Conversion(t1, y, Y) = c
  BY <1>1 DEF Core!Conversion
<1>7. Core!Withheld(t1, y) <=> Core!Withheld(t1, x)
  BY <1>1 DEF Core!Withheld
<1> DEFINE end(dst) == IF Core!DaReadFaults(u, f) THEN Core!Raise(u, Core!BUSERR)
                       ELSE IF Core!Withheld(t1, x) THEN Core!DaPostmodOnly(d, dst, Y, k)
                       ELSE Core!DaStoreZ(d, dst, Y, k, v)
<1>8. After(s, x) = end(z)
  BY <1>3 DEF Core!ExecDaSpecial, Core!Finish
<1>9. After(s, y) = end(z2)
  BY <1>1, <1>3, <1>6, <1>7 DEF Core!ExecDaSpecial, Core!Finish
<1> HIDE DEF u, n
<1>10. BeforeStore(t1) /\ (f.p # 0 /\ f.i = 0 => t1.r[f.p] = u.r[f.p])
  <2> DEFINE o == t1
  <2>1. o = Core!DaReadMoves(u, f, n)
    OBVIOUS
  <2> HIDE DEF o, f
  <2>2. BeforeStore(o) /\ (f.p # 0 /\ f.i = 0 => o.r[f.p] = u.r[f.p])
    BY <1>2, <1>4, <1>5, <2>1, ReadingMoves
  <2> QED
    BY <2>2 DEF o
<1> HIDE DEF t1, Y
<1>11. BeforeStore(c.t) /\ c.t.r = t1.r
  <2> DEFINE o == c.t
  <2>1. o = Core!Conversion(t1, x, Y).t
    OBVIOUS
  <2> HIDE DEF o
  <2>2. BeforeStore(o) /\ o.r = t1.r
    BY <1>10, <2>1, Converted
  <2> QED
    BY <2>2 DEF o
<1> HIDE DEF c
<1>12. BeforeStore(d) /\ d.r = t1.r
  <2>1. DOMAIN c.t = Core!StateFields
    BY <1>11 DEF BeforeStore
  <2>2. DOMAIN d = DOMAIN c.t /\ d.r = c.t.r /\ d.raised = c.t.raised
    BY <2>1 DEF Core!StateFields
  <2> QED
    BY <1>11, <2>2 DEF BeforeStore
<1> HIDE DEF d
<1>13. ReadAs(Y, d, f)
  <2>2. Core!FromAcc(f) <=> f.p = 0
    BY <1>2 DEF Core!FromAcc
  <2> HIDE DEF f
  <2>3. CASE f.p = 0
    <3>1. Y = [acc |-> TRUE, n |-> f.i % 4, val |-> u.a[f.i % 4], raw |-> Core!AccPack(u.aPipe[3][f.i % 4])]
      BY <2>2, <2>3 DEF Core!DaRead, Y
    <3> QED
      BY <2>3, <3>1 DEF ReadAs
  <2>4. CASE f.p # 0
    <3>1. Y = [acc |-> FALSE, raw |-> u.mem[u.r[f.p]], ea |-> u.r[f.p], preg |-> f.p]
      BY <2>2, <2>4 DEF Core!DaRead, Y
    <3> QED
      BY <1>10, <1>12, <2>4, <3>1 DEF ReadAs, f
  <2> QED
    BY <2>3, <2>4
<1> HIDE DEF k, v
<1>14. CASE Core!DaReadFaults(u, f) \/ Core!Withheld(t1, x)
  <2>1. Core!DaPostmodOnly(d, z2, Y, k) = Core!DaPostmodOnly(d, z, Y, k)
    <3> HIDE DEF z, z2, f
    <3> QED
      BY <1>1, <1>2, <1>13, MovesAlone
  <2>2. After(s, y) = After(s, x)
    BY <1>8, <1>9, <1>14, <2>1
  <2>3. ~TurnsIntoAddition(x, y)
    BY <1>1 DEF TurnsIntoAddition
  <2> QED
    BY <2>2, <2>3, AgreeSame
<1>15. CASE ~Core!DaReadFaults(u, f) /\ ~Core!Withheld(t1, x)
  <2> DEFINE one == Core!DaStoreZ(d, x.z, Y, k, v)
             two == Core!DaStoreZ(d, y.z, Y, k, v)
  <2>1. After(s, x) = one /\ After(s, y) = two
    BY <1>8, <1>9, <1>15
  <2>2. one = Core!DaStoreZ(d, x.z, Y, k, v) /\ two = Core!DaStoreZ(d, y.z, Y, k, v)
    OBVIOUS
  <2>3. /\ x.op \in {"da", "special"} /\ x.y.p \in 0..14 /\ x.z.p \in RegNo \cup {0, 15}
        /\ ZAlias(x.z, y.z, x.y) /\ ReadAs(Y, d, x.y)
    BY <1>1, <1>2, <1>13
  <2> HIDE DEF one, two, Agree
  <2>4. Agree(x, y, s, one, two)
    BY ONLY <1>12, <2>2, <2>3, StoresLast
  <2> QED
    BY <2>1, <2>4
<1> QED
  BY <1>14, <1>15

-----------------------------------------------------------------------------
(* The round trip *)

\* The inductive invariant: the words and texts so far are on the way of some
\* instruction word, and past its text if that is clean.
Under(x, y) ==
  /\ Clean(Disassemble(x))
  /\ \/ w = <<x, y>> /\ t = <<Disassemble(x)>>
     \/ w = <<x, y>> /\ t = <<Disassemble(x), Disassemble(y)>>
     \/ w = <<x, y, Trip(y)>> /\ t = <<Disassemble(x), Disassemble(y)>>
     \/ w = <<x, y, Trip(y)>> /\ t = <<Disassemble(x), Disassemble(y), Disassemble(Trip(y))>>
Way(x) ==
  \/ w = <<x>> /\ t = <<>>
  \/ w = <<x>> /\ t = <<Disassemble(x)>>
  \/ Under(x, Trip(x))
IInv == \E family \in DOMAIN Words : \E x \in Words[family] : Way(x)

\* What sequences this short are when something is added.
LEMMA GrowsToTwo ==
  ASSUME NEW a, NEW b
  PROVE  Append(<<a>>, b) = <<a, b>>
<1> DEFINE s == Append(<<a>>, b)
<1>1. <<a>> \in Seq({a, b}) /\ Len(<<a>>) = 1 /\ <<a>>[1] = a
  OBVIOUS
<1>2. s \in Seq({a, b}) /\ Len(s) = 2 /\ s[1] = a /\ s[2] = b
  BY <1>1, AppendProperties
<1> HIDE DEF s
<1>3. DOMAIN s = 1..2 /\ s = [i \in 1..Len(s) |-> s[i]]
  BY <1>2
<1>4. s = <<a, b>>
  BY <1>2, <1>3
<1> QED
  BY <1>4 DEF s

LEMMA GrowsToThree ==
  ASSUME NEW a, NEW b, NEW c
  PROVE  Append(<<a, b>>, c) = <<a, b, c>>
<1> DEFINE s == Append(<<a, b>>, c)
<1>1. <<a, b>> \in Seq({a, b, c}) /\ Len(<<a, b>>) = 2 /\ <<a, b>>[1] = a /\ <<a, b>>[2] = b
  OBVIOUS
<1>2. s \in Seq({a, b, c}) /\ Len(s) = 3 /\ s[1] = a /\ s[2] = b /\ s[3] = c
  BY <1>1, AppendProperties
<1> HIDE DEF s
<1>3. DOMAIN s = 1..3 /\ s = [i \in 1..Len(s) |-> s[i]]
  BY <1>2
<1>4. s = <<a, b, c>>
  BY <1>2, <1>3
<1> QED
  BY <1>4 DEF s

LEMMA Grows ==
  ASSUME NEW a, NEW b, NEW c
  PROVE  /\ Append(<<>>, a) = <<a>> /\ Append(<<a>>, b) = <<a, b>> /\ Append(<<a, b>>, c) = <<a, b, c>>
         /\ Len(<<>>) = 0 /\ Len(<<a>>) = 1 /\ Len(<<a, b>>) = 2 /\ Len(<<a, b, c>>) = 3
<1>1. Append(<<>>, a) = <<a>>
  OBVIOUS
<1> QED
  BY <1>1, GrowsToTwo, GrowsToThree

LEMMA InvInit == Init => IInv
<1> SUFFICES ASSUME NEW family \in DOMAIN Words, NEW x \in Words[family], w = <<x>>, t = <<>>
             PROVE  IInv
  BY DEF Init
<1> QED
  BY DEF IInv, Way

LEMMA WayDump ==
  ASSUME NEW x, Way(x), Dump
  PROVE  Way(x)'
<1> DEFINE y == Trip(x)
           z == Trip(y)
<1>1. Len(t) < Len(w) /\ t' = Append(t, Disassemble(w[Len(w)])) /\ w' = w
  BY DEF Dump
<1>2. CASE w = <<x>> /\ t = <<>>
  <2>1. w' = <<x>> /\ t' = <<Disassemble(x)>>
    BY <1>1, <1>2, Grows
  <2> QED
    BY <2>1 DEF Way
<1>3. CASE w = <<x>> /\ t = <<Disassemble(x)>>
  BY <1>1, <1>3, Grows
<1>4. ASSUME Clean(Disassemble(x)), w = <<x, y>>, t = <<Disassemble(x)>>
      PROVE  Way(x)'
  <2>1. w' = <<x, y>> /\ t' = <<Disassemble(x), Disassemble(y)>>
    BY <1>1, <1>4, Grows
  <2> QED
    BY <1>4, <2>1 DEF Way, Under
<1>5. CASE w = <<x, y>> /\ t = <<Disassemble(x), Disassemble(y)>>
  BY <1>1, <1>5, Grows
<1>6. ASSUME Clean(Disassemble(x)), w = <<x, y, z>>, t = <<Disassemble(x), Disassemble(y)>>
      PROVE  Way(x)'
  <2>1. w' = <<x, y, z>> /\ t' = <<Disassemble(x), Disassemble(y), Disassemble(z)>>
    BY <1>1, <1>6, Grows
  <2> QED
    BY <1>6, <2>1 DEF Way, Under
<1>7. CASE w = <<x, y, z>> /\ t = <<Disassemble(x), Disassemble(y), Disassemble(z)>>
  BY <1>1, <1>7, Grows
<1> QED
  BY <1>2, <1>3, <1>4, <1>5, <1>6, <1>7 DEF Way, Under

LEMMA WayAssemble ==
  ASSUME NEW x, Way(x), Assemble
  PROVE  Way(x)'
<1> DEFINE y == Trip(x)
           z == Trip(y)
<1>1. /\ Len(t) = Len(w) /\ Len(w) < 3 /\ Clean(t[Len(t)])
      /\ w' = Append(w, Encode(t[Len(t)])) /\ t' = t
  BY DEF Assemble
<1>2. CASE w = <<x>> /\ t = <<>>
  BY <1>1, <1>2, Grows
<1>3. CASE w = <<x>> /\ t = <<Disassemble(x)>>
  <2>1. Clean(Disassemble(x)) /\ w' = <<x, Encode(Disassemble(x))>> /\ t' = <<Disassemble(x)>>
    BY <1>1, <1>3, Grows
  <2> QED
    BY <2>1 DEF Way, Under, Trip
<1>4. CASE w = <<x, y>> /\ t = <<Disassemble(x)>>
  BY <1>1, <1>4, Grows
<1>5. ASSUME Clean(Disassemble(x)), w = <<x, y>>, t = <<Disassemble(x), Disassemble(y)>>
      PROVE  Way(x)'
  <2>1. w' = <<x, y, Encode(Disassemble(y))>> /\ t' = <<Disassemble(x), Disassemble(y)>>
    BY <1>1, <1>5, Grows
  <2>2. z = Encode(Disassemble(y))
    BY DEF Trip
  <2> HIDE DEF y, z
  <2>3. w' = <<x, y, z>>
    BY <2>1, <2>2
  <2> QED
    BY <1>5, <2>1, <2>3 DEF Way, Under, y, z
<1>6. CASE w = <<x, y, z>>
  BY <1>1, <1>6, Grows
<1> QED
  BY <1>2, <1>3, <1>4, <1>5, <1>6 DEF Way, Under

LEMMA InvNext == IInv /\ [Next]_vars => IInv'
<1> SUFFICES ASSUME NEW family \in DOMAIN Words, NEW x \in Words[family], Way(x), [Next]_vars
             PROVE  Way(x)'
  BY DEF IInv
<1>1. CASE Dump
  BY <1>1, WayDump
<1>2. CASE Assemble
  BY <1>2, WayAssemble
<1>3. CASE UNCHANGED vars
  BY <1>3 DEF vars, Way, Under
<1> QED
  BY <1>1, <1>2, <1>3 DEF Next

THEOREM WaysAreKnown == Spec => []IInv
BY InvInit, InvNext, PTL DEF Spec

\* Whatever is printed cleanly assembles, and is spelled the same afterwards.
LEMMA WaySpelled ==
  ASSUME NEW x \in InstructionWord, Way(x)
  PROVE  SpellingKept
<1> DEFINE y == Trip(x)
           z == Trip(y)
<1>1. CASE w = <<x>> /\ (t = <<>> \/ t = <<Disassemble(x)>>)
  <2>1. Len(w) = 1 /\ ~(Len(t) > 1)
    BY <1>1, Grows
  <2> QED
    BY <2>1 DEF SpellingKept
<1>2. ASSUME Under(x, y)
      PROVE  SpellingKept
  <2>1. /\ y # Refused /\ z = y
        /\ ~ZeroDisplacement(x) => Disassemble(y) = Disassemble(x)
    BY <1>2, WordKept DEF Under, Kept, Trip
  <2> HIDE DEF y, z
  <2>2. \/ w = <<x, y>> /\ t = <<Disassemble(x)>>
        \/ w = <<x, y>> /\ t = <<Disassemble(x), Disassemble(y)>>
        \/ w = <<x, y, z>> /\ t = <<Disassemble(x), Disassemble(y)>>
        \/ w = <<x, y, z>> /\ t = <<Disassemble(x), Disassemble(y), Disassemble(z)>>
    BY <1>2 DEF Under, z
  <2>3. w[1] = x /\ w[Len(w)] = y /\ (Len(w) > 2 => w[3] = y /\ w[2] = y)
    BY <2>1, <2>2
  <2>4. Len(t) > 1 => t[1] = Disassemble(x) /\ t[2] = Disassemble(y)
    BY <2>2
  <2> QED
    BY <2>1, <2>3, <2>4 DEF SpellingKept
<1> QED
  BY <1>1, <1>2 DEF Way

THEOREM SpellingIsKept == Spec => []SpellingKept
<1>1. IInv => SpellingKept
  BY WaySpelled, WordsAssumption DEF IInv
<1> QED
  BY <1>1, WaysAreKnown, PTL

\* The word that comes back branches where its origin does.
LEMMA WayControlled ==
  ASSUME NEW x \in InstructionWord, Way(x)
  PROVE  ControlKept
<1> DEFINE y == Trip(x)
<1>1. CASE w = <<x>>
  BY <1>1, Grows DEF ControlKept
<1>2. ASSUME Under(x, y)
      PROVE  ControlKept
  <2>1. ~(ZeroDisplacement(x) /\ x.rb = PCSH) => Control(y) = Control(x)
    BY <1>2, WordKept DEF Under, Kept
  <2> HIDE DEF y
  <2>2. w[1] = x /\ w[2] = y
    BY <1>2 DEF Under
  <2> QED
    BY <2>1, <2>2 DEF ControlKept
<1> QED
  BY <1>1, <1>2 DEF Way

THEOREM ControlIsKept == Spec => []ControlKept
<1>1. IInv => ControlKept
  BY WayControlled, WordsAssumption DEF IInv
<1> QED
  BY <1>1, WaysAreKnown, PTL

-----------------------------------------------------------------------------
(* The meaning of what comes back *)

\* The formats of the data instructions.
LEMMA DataFormats ==
  ASSUME NEW x \in InstructionWord, x.op \in DataOps
  PROVE  /\ x.op \in {"alu", "imm", "add3"} => x \in AluWord
         /\ x.op = "da" => x \in DaWordOf(1, 0 .. 6) \cup DaWordOf(2, 0 .. 5) \cup DaWordOf(3, 0 .. 5)
         /\ x.op = "special" => x \in [op: {"special"}, g: Special, n: 0 .. 3, y: Field, z: Field]
<1>1. \A c \in BranchWord : c.op \in {"if", "loop", "call", "goto24", "call24"}
  BY DEF BranchWord
<1>2. \A c \in AluWord : c.op \in {"alu", "imm", "add3"}
  BY DEF AluWord
<1>3. \A c \in MoveWord : c.op \in {"load", "store", "iormove", "iormem"}
  BY DEF MoveWord
<1>4. \A c \in OtherWord : c.op \in {"shiftor", "set24", "do", "reserved"}
  BY DEF OtherWord
<1>5. \A fmt, ms : \A c \in DaWordOf(fmt, ms) : c.op = "da"
  BY DEF DaWordOf
<1>6. \A c \in [op: {"special"}, g: Special, n: 0 .. 3, y: Field, z: Field] : c.op = "special"
  OBVIOUS
<1>7. x \in AluWord \cup DataWord
  BY <1>1, <1>3, <1>4 DEF InstructionWord, DataOps
<1> QED
  BY <1>2, <1>5, <1>6, <1>7 DEF DataWord

\* A data instruction that is printed cleanly does what it comes back as does.
LEMMA WordMeans ==
  ASSUME NEW family \in DOMAIN Words, NEW x \in Words[family], x.op \in DataOps, Clean(Disassemble(x)),
         NEW s \in States(x)
  PROVE  Agree(x, Trip(x), s, After(s, x), After(s, Trip(x)))
<1> DEFINE y == Trip(x)
<1>1. x \in InstructionWord
  BY WordsAssumption
<1>2. Alias(x, y)
  BY <1>1, WordKept DEF Kept
<1>3. Core!StateOK(s)
  BY DataAssumption DEF States
<1>4. ~(x.op = "alu" /\ x.f \in Rotations) => Core!WellFormed(x)
  BY DataAssumption
<1> HIDE DEF y, Agree
<1>5. CASE x.op \in {"alu", "imm", "add3"}
  <2>1. x \in AluWord /\ CaAlias(x, y)
    BY <1>1, <1>2, <1>5, DataFormats DEF Alias
  <2> QED
    BY <1>3, <1>4, <2>1, CaMeans DEF y
<1>6. CASE x.op = "da"
  <2>1. DaAlias(x, y) /\ Core!WellFormed(x)
    BY <1>2, <1>4, <1>6 DEF Alias
  <2>2. x.fmt \in {1, 2, 3} /\ x.m \in 0 .. 6 /\ x.x \in Field /\ x.y \in Field
    <3>1. x \in DaWordOf(1, 0 .. 6) \cup DaWordOf(2, 0 .. 5) \cup DaWordOf(3, 0 .. 5)
      BY <1>1, <1>6, DataFormats
    <3> QED
      BY <3>1 DEF DaWordOf
  <2>3. Readable(x)
    BY <1>6, DaPrinted DEF Clean
  <2>4. x.x.p \in 0 .. 14
    <3>1. CASE XShown(x)
      BY <2>2, <2>3, <3>1, Factors DEF Readable
    <3>2. CASE x.x = AccField(0)
      BY <3>2 DEF AccField
    <3> QED
      BY <3>1, <3>2 DEF XShown
  <2>5. x.y.p \in 0 .. 14 /\ (x.y = AccField(x.y.i) \/ x.y.p # 0)
    BY <2>2, <2>3, Factors DEF Readable
  <2> QED
    BY <1>3, <2>1, <2>2, <2>4, <2>5, DaMeans DEF y
<1>7. CASE x.op = "special"
  <2>1. SpecialAlias(x, y) /\ Core!WellFormed(x)
    BY <1>2, <1>4, <1>7 DEF Alias
  <2>2. x.g \in Special /\ x.y \in Field
    <3>1. x \in [op: {"special"}, g: Special, n: 0 .. 3, y: Field, z: Field]
      BY <1>1, <1>7, DataFormats
    <3> QED
      BY <3>1
  <2>3. OperandOk(x.y) /\ x.g # "reserved"
    <3>1. Disassemble(x) = SpecialText(x)
      BY <1>7 DEF Disassemble, Branches
    <3> QED
      BY <3>1 DEF SpecialText, Clean
  <2>4. x.y.p \in 0 .. 14
    BY <2>2, <2>3, Factors
  <2> QED
    BY <1>3, <2>1, <2>2, <2>3, <2>4, SpecialMeans DEF y
<1> QED
  BY <1>5, <1>6, <1>7 DEF DataOps, y

LEMMA WayMeans ==
  ASSUME NEW family \in DOMAIN Words, NEW x \in Words[family], Way(x)
  PROVE  MeaningKept
<1> DEFINE y == Trip(x)
<1>1. CASE w = <<x>>
  BY <1>1, Grows DEF MeaningKept
<1>2. ASSUME Under(x, y)
      PROVE  MeaningKept
  <2>1. Clean(Disassemble(x))
    BY <1>2 DEF Under
  <2>2. w[1] = x /\ w[2] = y
    BY <1>2 DEF Under
  <2>3. x.op \in DataOps => \A s \in States(x) : Agree(x, y, s, After(s, x), After(s, y))
    BY <2>1, WordMeans
  <2> HIDE DEF y, Agree
  <2> QED
    BY <2>2, <2>3 DEF MeaningKept
<1> QED
  BY <1>1, <1>2 DEF Way

\* Registers, flags and memory after an instruction are the same after what it
\* comes back as, for every state of the core, but for the carry of a
\* subtraction that has become an addition and for a store behind Y.
THEOREM MeaningIsKept == Spec => []MeaningKept
<1>1. IInv => MeaningKept
  BY WayMeans DEF IInv
<1> QED
  BY <1>1, WaysAreKnown, PTL

-----------------------------------------------------------------------------
(* The notes beside a text *)

LEMMA ModPeriod ==
  ASSUME NEW a \in Int, NEW q \in Int, NEW L \in Nat, L > 0
  PROVE  (a + q * L) % L = a % L
<1>1. PICK p \in Int, r \in 0 .. L - 1 : a = p * L + r /\ a % L = r
  BY a = (a \div L) * L + (a % L), a % L \in 0 .. L - 1, a \div L \in Int
<1>2. a + q * L = (p + q) * L + r
  BY <1>1
<1>3. ((p + q) * L + r) % L = r
  BY <1>1
<1> QED
  BY <1>1, <1>2, <1>3

\* A jump of which the notes resolve the displacement n, as an instruction at
\* Addr takes it.
LEMMA JumpResolved ==
  ASSUME NEW rb, NEW n \in Int
  PROVE  Resolved(rb, n, Addr)
           = IF rb = R0 THEN {Mod32(n)}
             ELSE IF rb = PC THEN {Mod32(Addr + 8 + Mod32(n))} ELSE {}
<1>1. Long \in Nat /\ Long > 0 /\ Addr \in Int
  BY FieldWidths, WordsAssumption
<1>2. Mod32(Addr + 8 + n) = Mod32(Addr + 8 + Mod32(n))
  <2> DEFINE m == n % Long
             q == n \div Long
  <2>1. n = q * Long + m /\ m \in Int /\ q \in Int
    BY <1>1
  <2> HIDE DEF m, q
  <2> DEFINE a == Addr + 8 + m
  <2>2. a \in Int /\ Addr + 8 + n = a + q * Long
    BY <1>1, <2>1
  <2> HIDE DEF a
  <2>3. (a + q * Long) % Long = a % Long
    BY <1>1, <2>1, <2>2, ModPeriod
  <2> QED
    BY <2>2, <2>3 DEF Mod32, m, a
<1> QED
  BY <1>2 DEF Resolved
\* What NotesTellJumps says of a word, its notes and what the core does.
Told(x, n, c) ==
  /\ n.no_delay_slot <=> c.kind = "ireturn"
  /\ n.is_branch <=> c.kind \in {"goto", "loop", "call", "ireturn"} /\ ~Nop(x)
  /\ n.is_branch /\ ~n.no_delay_slot =>
       n.target = IF c.rb = R0 THEN {c.disp}
                  ELSE IF c.rb = PC THEN {Mod32(Addr + 8 + c.disp)} ELSE {}

LEMMA WordTold ==
  ASSUME NEW x \in InstructionWord, NEW n, n = Notes(x, Addr), NEW c, c = Control(x)
  PROVE  Told(x, n, c)
<1> DEFINE s == Sext16(x.n)
<1>1. n.is_branch = (x.op \in Branches /\ ~Nop(x)) /\ n.no_delay_slot = Ireturn(x)
  BY DEF Notes
<1>2. Nop(x) => x.op = "if" /\ ~Ireturn(x)
  BY DEF Nop, Ireturn
<1>3. Ireturn(x) => x.op = "if"
  BY DEF Ireturn
<1>4. ASSUME NEW kind \in {"goto", "loop", "call"}, NEW rb, NEW v \in Int,
             x.op \in Branches, ~Ireturn(x),
             c.kind = kind, c.rb = rb, c.disp = Mod32(v), ~Nop(x) => n.target = Resolved(rb, v, Addr)
      PROVE  Told(x, n, c)
  <2> QED
    BY <1>1, <1>4, JumpResolved DEF Told
<1>5. x.n \in Short => s \in Int
  <2>1. Half \in Nat
    BY FieldWidths
  <2>2. x.n \in Short => s \in -Half .. Half - 1
    BY Signs
  <2> HIDE DEF s
  <2> QED
    BY <2>1, <2>2
<1>6. CASE x \in [op: {"if"}, c: Condition, rb: Code, n: Short]
  <2>1. x.op = "if" /\ x.op \in Branches /\ s \in Int
    BY <1>5, <1>6 DEF Branches
  <2>2. CASE Ireturn(x)
    <3>1. c.kind = "ireturn"
      BY <2>1, <2>2 DEF Control
    <3> QED
      BY <1>1, <1>2, <2>1, <2>2, <3>1 DEF Told
  <2>3. CASE ~Ireturn(x)
    <3>1. c.kind = "goto" /\ c.rb = x.rb /\ c.disp = Mod32(s)
      BY <2>1, <2>3 DEF Control, Jump
    <3>2. ~Nop(x) => n.target = Resolved(x.rb, s, Addr)
      BY <2>1, <2>3 DEF Notes
    <3> HIDE DEF s
    <3> QED
      BY <1>4, <2>1, <2>3, <3>1, <3>2
  <2> QED
    BY <2>2, <2>3
<1>7. CASE x \in [op: {"loop", "call"}, rm: Code, rb: Code, n: Short]
  <2>1. x.op \in {"loop", "call"} /\ x.op \in Branches /\ s \in Int /\ ~Ireturn(x)
    BY <1>3, <1>5, <1>7 DEF Branches
  <2>2. c.kind = x.op /\ c.rb = x.rb /\ c.disp = Mod32(s)
    BY <2>1 DEF Control, Jump
  <2>3. n.target = Resolved(x.rb, s, Addr)
    BY <2>1 DEF Notes
  <2> HIDE DEF s
  <2> QED
    BY <1>4, <2>1, <2>2, <2>3
<1>8. CASE x \in [op: {"goto24"}, rb: Code, n: 0 .. Far - 1]
  <2>1. x.op = "goto24" /\ x.op \in Branches /\ x.n \in Int /\ ~Ireturn(x)
    BY <1>3, <1>8 DEF Branches
  <2>2. c.kind = "goto" /\ c.rb = x.rb /\ c.disp = Mod32(x.n)
    BY <2>1 DEF Control, Jump
  <2>3. n.target = Resolved(x.rb, x.n, Addr)
    BY <2>1 DEF Notes
  <2> QED
    BY <1>4, <2>1, <2>2, <2>3
<1>9. CASE x \in [op: {"call24"}, rm: Code, n: 0 .. Far - 1]
  <2>1. x.op = "call24" /\ x.op \in Branches /\ x.n \in Int /\ x.n \in 0 .. Far - 1 /\ ~Ireturn(x)
    BY <1>3, <1>9 DEF Branches
  <2>2. c.kind = "call" /\ c.rb = R0 /\ c.disp = Mod32(x.n)
    BY <2>1 DEF Control, Jump
  <2>3. n.target = {x.n} /\ Resolved(R0, x.n, Addr) = {Mod32(x.n)} /\ Mod32(x.n) = x.n
    BY <2>1, FarNumbers DEF Notes, Resolved
  <2> QED
    BY <1>4, <2>1, <2>2, <2>3
<1>10. CASE x \notin BranchWord
  <2>1. x.op \notin Branches
    <3>1. CASE x \in AluWord
      BY <3>1 DEF AluWord, Branches
    <3>2. CASE x \in MoveWord
      BY <3>2 DEF MoveWord, Branches
    <3>3. CASE x \in OtherWord
      BY <3>3 DEF OtherWord, Branches
    <3>4. CASE x \in DataWord
      BY <3>4 DEF DataWord, DaWordOf, Branches
    <3> QED
      BY <1>10, <3>1, <3>2, <3>3, <3>4 DEF InstructionWord
  <2>2. c.kind \in {"do", "none"}
    BY <2>1 DEF Control, Branches
  <2>3. ~Ireturn(x)
    BY <1>3, <2>1 DEF Branches
  <2> QED
    BY <1>1, <2>1, <2>2, <2>3 DEF Told
<1> QED
  BY <1>6, <1>7, <1>8, <1>9, <1>10 DEF BranchWord

\* The notes of a word tell where the core goes from it.
THEOREM NotesAreRight == Spec => []NotesTellJumps
<1>1. ASSUME NEW x \in InstructionWord, Way(x)
      PROVE  NotesTellJumps
  <2>1. w[1] = x
    BY <1>1 DEF Way, Under
  <2> QED
    BY <2>1, WordTold DEF NotesTellJumps, Told
<1>2. IInv => NotesTellJumps
  BY <1>1, WordsAssumption DEF IInv
<1> QED
  BY <1>2, WaysAreKnown, PTL
=============================================================================
