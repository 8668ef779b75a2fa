--------------------------- MODULE Disassembler ---------------------------
(***************************************************************************)
(* dsp3210_disassemble(): from an instruction word to its text.            *)
(*                                                                         *)
(* A word is the record of its fields, named and valued as in DataPath,    *)
(* immediate fields being unsigned; bits that no field names are left out. *)
(* A text is a tuple that starts with the kind of the statement and has    *)
(* the operands as they are spelled, so two texts are equal when the       *)
(* strings are.  Registers are spelled by their codes, numbers by <<"num", *)
(* value, decimal>> with the sign that is written, and Unclear is a text   *)
(* with a placeholder, or of a word whose status is not OK.                *)
(***************************************************************************)
EXTENDS Integers, FiniteSets

CONSTANTS
  Half,         \* 2^15: short immediates have 16 bits
  Far,          \* 2^24: the immediates of formats 8a, 8b and 8c have 24
  Long,         \* 2^32: words
  WordBits      \* the 32 bits of a word

ASSUME FieldWidths ==
  /\ Half \in Nat \ {0} /\ Far \in Nat /\ Long \in Nat /\ WordBits \in Nat \ {0, 1}
  /\ 2 * Half <= Far /\ 2 * Far <= Long
  /\ (2 * Half) % WordBits = 0 /\ Long % (2 * Half) = 0

R0    == 0
PC    == 15
MINUS == 22     \* the pseudo-operand -n
PLUS  == 23     \* the pseudo-operand +n
SP    == 25
PCSH  == 30

Unclear == <<"?">>

\* A text that spells these register codes: 16, 27-29 and 31 have no name.
Naming(codes, text) == IF codes \cap {16, 27, 28, 29, 31} = {} THEN text ELSE Unclear

IorNamed(i)    == i \in {0, 8, 10, 12, 14, 15}
CondNamed(c)   == c # "reserved"
SizeNamed(w)   == w # "reserved"

Sext16(n) == IF n >= Half THEN n - 2 * Half ELSE n
Mod32(n)  == n % Long

Reg(c) == <<"reg", c>>
Num(v) == <<"num", v, FALSE>>
Dec(v) == <<"num", v, TRUE>>

-----------------------------------------------------------------------------
(* The words *)

Code      == 0 .. 31
Short     == 0 .. 2 * Half - 1
Condition == { "false", "true", "pl", "mi", "ne", "eq", "vc", "vs", "cc", "cs", "ge", "lt", "gt", "le",
               "hi", "ls", "auc", "aus", "age", "alt", "ane", "aeq", "avc", "avs", "agt", "ale", "ibe",
               "ibf", "obf", "obe", "syc", "sys", "fbc", "fbs", "ir0c", "ir0s", "ir1c", "ir1s", "reserved" }
AluFunction == { "add", "shl", "rsub", "cradd", "sub", "res5", "andc", "cmp", "xor", "ror", "or", "rol",
               "shr", "asr", "and", "btst" }
Size      == {"byte", "char", "ushort", "short", "hbyte", "long", "reserved"}
Special   == { "ic", "oc", "float16", "int16", "round", "ifalt", "ifaeq", "ifagt", "float32", "int32",
               "ieee", "dsp", "seed", "reserved" }
Field     == [p: 0 .. 15, i: 0 .. 7]

BranchWord ==
       [op: {"if"}, c: Condition, rb: Code, n: Short]
  \cup [op: {"loop", "call"}, rm: Code, rb: Code, n: Short]
  \cup [op: {"goto24"}, rb: Code, n: 0 .. Far - 1] \cup [op: {"call24"}, rm: Code, n: 0 .. Far - 1]
AluWord ==
       [op: {"alu"}, f: AluFunction, short: BOOLEAN, rd: Code, rs1: Code, rs2: Code, c: Condition]
  \cup [op: {"imm"}, f: AluFunction, short: BOOLEAN, rd: Code, n: Short]
  \cup [op: {"add3"}, short: BOOLEAN, rd: Code, rs3: Code, n: Short]
MoveWord ==
       [op: {"load", "store"}, w: Size, rh: Code, direct: {TRUE}, x: Short, rp: {0}, ri: {0}]
  \cup [op: {"load", "store"}, w: Size, rh: Code, direct: {FALSE}, x: {0}, rp: Code, ri: Code]
  \cup [op: {"iormove"}, store: BOOLEAN, w: Size, rh: Code, ior: Code]
  \cup [op: {"iormem"}, store: BOOLEAN, w: Size, ior: Code, rp: Code, ri: Code]
OtherWord ==
       [op: {"shiftor"}, rd: Code, rs: Code, n: Short] \cup [op: {"set24"}, rd: Code, n: 0 .. Far - 1]
  \cup [op: {"do"}, b: BOOLEAN, m: BOOLEAN, k: 0 .. 127, isreg: BOOLEAN, l: 0 .. 2047]
  \cup [op: {"reserved"}]
DaWordOf(fmt, ms) ==
  [op: {"da"}, fmt: {fmt}, m: ms, fs: BOOLEAN, ss: BOOLEAN, n: 0 .. 3, x: Field, y: Field, z: Field]
DataWord ==
  DaWordOf(1, 0 .. 6) \cup DaWordOf(2, 0 .. 5) \cup DaWordOf(3, 0 .. 5)
  \cup [op: {"special"}, g: Special, n: 0 .. 3, y: Field, z: Field]

InstructionWord == BranchWord \cup AluWord \cup MoveWord \cup OtherWord \cup DataWord

-----------------------------------------------------------------------------
(* Branch targets: absolute, or a base register and its displacement *)

CaTarget(rb, n) ==
  IF rb = R0 THEN <<"at", Mod32(n)>> ELSE IF n = 0 THEN <<"base", rb>> ELSE <<"base", rb, n>>
FarTarget(rb, m) == IF rb = R0 THEN <<"at", m>> ELSE <<"base", rb, m>>

Nop(w)     == w.op = "if" /\ w.c = "false" /\ w.rb = R0 /\ w.n = 0
Ireturn(w) == w.op = "if" /\ w.c = "true" /\ w.rb = PCSH /\ w.n = 0

BranchText(w) ==
  CASE Nop(w)          -> <<"nop">>
    [] Ireturn(w)      -> <<"ireturn">>
    [] w.op = "loop"   -> Naming({w.rm, w.rb}, <<"loop", w.rm, CaTarget(w.rb, Sext16(w.n))>>)
    [] w.op = "call"   -> Naming({w.rm, w.rb}, <<"call", w.rm, CaTarget(w.rb, Sext16(w.n))>>)
    [] w.op = "call24" -> Naming({w.rm}, <<"call", w.rm, <<"at", w.n>>>>)
    [] w.op = "goto24" -> Naming({w.rb}, <<"goto", "true", FarTarget(w.rb, w.n)>>)
    [] w.op = "if" /\ ~Nop(w) /\ ~Ireturn(w) ->
         IF CondNamed(w.c) THEN Naming({w.rb}, <<"goto", w.c, CaTarget(w.rb, Sext16(w.n))>>) ELSE Unclear

\* What is noted beside the text, of an instruction at address addr.
ResolvedLate(rb, n, addr) == IF rb = R0 THEN {Mod32(n)} ELSE IF rb = PC THEN {Mod32(addr + 4 + n)} ELSE {}    \* mutant
Resolved(rb, n, addr) ==
  IF rb = R0 THEN {Mod32(n)} ELSE IF rb = PC THEN {Mod32(addr + 8 + n)} ELSE {}

Branches == {"loop", "call", "call24", "goto24", "if"}
Notes(w, addr) ==
  [ is_branch     |-> w.op \in Branches /\ ~Nop(w),
    no_delay_slot |-> Ireturn(w),
    target |-> CASE w.op \in {"loop", "call"} \/ (w.op = "if" /\ ~Nop(w) /\ ~Ireturn(w)) ->
                      Resolved(w.rb, Sext16(w.n), addr)
                 [] w.op = "goto24" -> Resolved(w.rb, w.n, addr)
                 [] w.op = "call24" -> {w.n}
                 [] OTHER -> {} ]

-----------------------------------------------------------------------------
(* CA arithmetic: assignments and tests *)

Symbol(f) ==
  CASE f = "add" -> "+"    [] f = "sub" -> "-"    [] f = "rsub" -> "-"  [] f = "cradd" -> "#"
    [] f = "andc" -> "&~"  [] f = "xor" -> "^"    [] f = "or" -> "|"    [] f = "and" -> "&"
    [] f = "shl" -> "<<"   [] f = "shr" -> ">>"   [] f = "asr" -> "$>>" [] f = "cmp" -> "-"
    [] f = "btst" -> "&"   [] f = "ror" -> ">>>1" [] f = "rol" -> "<<<1"

Shifts    == {"shl", "shr", "asr"}
Rotations == {"rol", "ror"}
Tests     == {"cmp", "btst"}

Bin(a, op, b) == <<"bin", a, op, b>>

\* The right-hand side of an ALU operation on registers: the registers it
\* spells, and the expression.
AluExpr(w) ==
  LET A == Reg(w.rs1)
      B == Reg(w.rs2)
      Both(e)  == <<{w.rs1, w.rs2}, e>>
      First(e) == <<{w.rs1}, e>>
  IN CASE w.f = "add" ->
            CASE w.rs2 \in {PLUS, MINUS} /\ w.rd = SP /\ w.rs1 = SP ->
                   First(<<"bump", w.rs1, IF w.rs2 = PLUS THEN "++" ELSE "--">>)
              [] w.rs2 = PLUS /\ ~(w.rd = SP /\ w.rs1 = SP)  -> First(Bin(A, "+", Dec(1)))
              [] w.rs2 = MINUS /\ ~(w.rd = SP /\ w.rs1 = SP) -> First(Bin(A, "-", Dec(1)))
              [] w.rs1 = w.rs2 /\ w.rs1 \notin {R0, PLUS, MINUS} -> First(Bin(A, "*", Dec(2)))
              [] w.rs2 = R0 -> First(A)
              [] w.rs1 = R0 /\ w.rs2 \notin {R0, PLUS, MINUS} -> <<{w.rs2}, B>>
              [] OTHER -> Both(Bin(A, "+", B))
       [] w.f = "sub" ->
            IF w.rs1 = R0 THEN <<{w.rs2}, <<"neg", w.rs2>>>>
            ELSE IF w.rs2 = PLUS THEN First(Bin(A, "-", Dec(1)))
            ELSE IF w.rs2 = MINUS THEN First(Bin(A, "+", Dec(1)))
            ELSE Both(Bin(A, "-", B))
       [] w.f = "rsub" -> Both(Bin(B, "-", A))
       [] w.f \in Rotations -> First(<<"rot", w.rs1, w.f>>)
       [] w.f \in Shifts /\ w.rs2 = PLUS -> First(Bin(A, Symbol(w.f), Dec(1)))
       [] OTHER -> Both(Bin(A, Symbol(w.f), B))

AluRegText(w) ==
  IF w.f = "res5" \/ ~CondNamed(w.c) THEN Unclear
  ELSE IF w.f \in Tests
       THEN Naming({w.rs1, w.rs2}, <<"test", w.c, w.short, w.rs1, Symbol(w.f), Reg(w.rs2)>>)
       ELSE LET e == AluExpr(w) IN
            Naming(e[1] \cup {w.rd}, <<"assign", w.c, w.rd, w.short, e[2]>>)

ImmExpr(w) ==
  LET D == Reg(w.rd)
      n == Sext16(w.n)
  IN CASE w.f = "rsub"      -> Bin(Num(n), "-", D)
       [] w.f \in Shifts    -> Bin(D, Symbol(w.f), Dec(w.n % WordBits))
       [] w.f \in Rotations -> <<"rot", w.rd, w.f>>
       [] OTHER             -> Bin(D, Symbol(w.f), Num(n))

AluImmText(w) ==
  IF w.f = "res5" THEN Unclear
  ELSE IF w.f \in Tests
       THEN Naming({w.rd}, <<"test", "true", w.short, w.rd, Symbol(w.f), Num(Sext16(w.n))>>)
       ELSE Naming({w.rd}, <<"assign", "true", w.rd, w.short, ImmExpr(w)>>)

\* Formats 5a and 5b.
Add3Text(w) ==
  LET n == Sext16(w.n) IN
  IF w.rs3 = R0 THEN Naming({w.rd}, <<"assign", "true", w.rd, w.short, Num(n)>>)
  ELSE Naming({w.rd, w.rs3},
         <<"assign", "true", w.rd, w.short,
           IF n = 0 THEN Reg(w.rs3)
           ELSE IF n < 0 THEN Bin(Reg(w.rs3), "-", Num(-n)) ELSE Bin(Reg(w.rs3), "+", Num(n))>>)

-----------------------------------------------------------------------------
(* Moves, loops and the rest of the CA class *)

MoveText(w, codes, dst, src) ==
  IF SizeNamed(w.w) THEN Naming(codes, <<"move", dst, w.w, src>>) ELSE Unclear

CaMem(rp, ri) ==
  CASE ri = R0    -> <<"mem", rp, "by0">>
    [] ri = PLUS  -> <<"mem", rp, "++">>
    [] ri = MINUS -> <<"mem", rp, "--">>
    [] OTHER      -> <<"mem", rp, "++", ri>>

\* 7a and 7c; the reserved bit 25 of 7a is the op "reserved".
MemMoveText(w) ==
  LET codes == IF w.direct THEN {w.rh} ELSE {w.rh, w.rp, w.ri}
      M == IF w.direct THEN <<"direct", w.x>> ELSE CaMem(w.rp, w.ri)
  IN  IF w.op = "load" THEN MoveText(w, codes, Reg(w.rh), M) ELSE MoveText(w, codes, M, Reg(w.rh))

\* 7b, with the pseudo-instructions that store r0 to spc, and 7d.
Pseudo(w) ==
  CASE w.w = "long" -> <<"waiti">> [] w.w = "short" -> <<"bkpt">> [] w.w = "byte" -> <<"sftrst">>
IorMoveText(w) ==
  IF w.store /\ w.rh = R0 /\ w.ior = 10 /\ w.w \in {"long", "short", "byte"} THEN Pseudo(w)
  ELSE IF ~IorNamed(w.ior) THEN Unclear
  ELSE IF w.store THEN MoveText(w, {w.rh}, <<"ior", w.ior>>, Reg(w.rh))
  ELSE MoveText(w, {w.rh}, Reg(w.rh), <<"ior", w.ior>>)
IorMemText(w) ==
  IF ~IorNamed(w.ior) THEN Unclear
  ELSE IF w.store THEN MoveText(w, {w.rp, w.ri}, CaMem(w.rp, w.ri), <<"ior", w.ior>>)
  ELSE MoveText(w, {w.rp, w.ri}, <<"ior", w.ior>>, CaMem(w.rp, w.ri))

\* do, dolock and doblock; a doblock has no first operand unless its field,
\* which the core ignores, is not zero.
DoText(w) ==
  LET kind == IF w.m THEN "doblock" ELSE IF w.b THEN "dolock" ELSE "do"
      k    == IF ~w.m \/ w.k # 0 THEN <<w.k>> ELSE <<>>
  IN  IF w.b /\ w.m THEN Unclear
      ELSE IF w.isreg THEN Naming({w.l}, <<kind, k, Reg(w.l)>>) ELSE <<kind, k, Dec(w.l)>>

-----------------------------------------------------------------------------
(* DA: an operand [p, i] is spelled by its field *)

OperandOk(f)  == f.p \in 1..14 \/ (f.p = 0 /\ f.i \in 0..3)
AccField(n)   == [p |-> 0, i |-> n]

\* da_z_kind() and da_z_print(): <<>>, or the field that is spelled.
ZText(z, y) ==
  IF z.p = 0 \/ (z.p = 15 /\ y.p = 0) THEN <<>>
  ELSE IF z.p = 15 THEN <<[p |-> y.p, i |-> z.i]>> ELSE <<z>>

\* Expressions: the sign and the first term, the sign of the second, and it.
Product(w, zt) == IF zt = <<>> THEN <<"prod", w.y, w.x>> ELSE <<"tapprod", zt[1], w.y, w.x>>
DaExpr(w) ==
  LET Y  == <<"op", w.y>>
      X  == <<"op", w.x>>
      zt == ZText(w.z, w.y)
      P  == Product(w, IF w.fmt = 2 THEN zt ELSE <<>>)
  IN CASE w.fmt = 1 /\ w.m = 6 ->
            <<w.fs, IF zt = <<>> THEN Y ELSE <<"tap", zt[1], w.y>>, w.ss, X>>
       [] w.fmt = 1 /\ w.m = 5 -> <<w.fs, Y, w.ss, X>>
       [] w.fmt = 1 /\ w.m = 4 ->
            IF w.x = AccField(0) THEN <<w.fs, Y>> ELSE <<w.fs, Y, w.ss, <<"zeroprod", w.x>>>>
       [] w.fmt = 1 /\ w.m < 4 -> <<w.fs, Y, w.ss, <<"prod", AccField(w.m), w.x>>>>
       [] w.fmt # 1 /\ w.m = 4 -> IF w.fs THEN <<w.fs, <<"zero">>, w.ss, P>> ELSE <<w.ss, P>>
       [] w.fmt # 1 /\ w.m = 5 -> <<w.fs, <<"one">>, w.ss, P>>
       [] w.fmt # 1 /\ w.m < 4 -> <<w.fs, <<"op", AccField(w.m)>>, w.ss, P>>

TapForm(w) == w.fmt = 2 \/ (w.fmt = 1 /\ w.m = 6)

DaText(w) ==
  LET xShown == ~(w.fmt = 1 /\ w.m = 4 /\ w.x = AccField(0)) IN
  IF ~OperandOk(w.y) \/ (xShown /\ ~OperandOk(w.x)) THEN Unclear
  ELSE <<"da", IF TapForm(w) THEN <<>> ELSE ZText(w.z, w.y), w.n, DaExpr(w)>>

SpecialText(w) ==
  IF ~OperandOk(w.y) \/ w.g = "reserved" THEN Unclear
  ELSE <<"special", ZText(w.z, w.y), w.n, w.g, w.y>>

-----------------------------------------------------------------------------
\* The opcodes that are illegal or reserved have the op "reserved".
Disassemble(w) ==
  CASE w.op \in Branches        -> BranchText(w)
    [] w.op = "alu"             -> AluRegText(w)
    [] w.op = "imm"             -> AluImmText(w)
    [] w.op = "add3"            -> Add3Text(w)
    [] w.op = "shiftor"         -> Naming({w.rd, w.rs}, <<"shiftor", w.rd, w.rs, w.n>>)
    [] w.op = "set24"           -> Naming({w.rd}, <<"set24", w.rd, w.n>>)
    [] w.op \in {"load", "store"} -> MemMoveText(w)
    [] w.op = "iormove"         -> IorMoveText(w)
    [] w.op = "iormem"          -> IorMemText(w)
    [] w.op = "do"              -> DoText(w)
    [] w.op = "da"              -> DaText(w)
    [] w.op = "special"         -> SpecialText(w)
    [] w.op = "reserved"        -> Unclear
=============================================================================
