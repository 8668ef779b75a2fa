---------------------------- MODULE InsnEncoder ----------------------------
(***************************************************************************)
(* dsp3210_encode(): from the text of an instruction, as in Disassembler,  *)
(* to the word the assembler has for it.  Several words may have the same  *)
(* text: the encoder chooses one of them.                                  *)
(***************************************************************************)
EXTENDS Disassembler, Sequences

\* The outcome of a statement that is refused with an error.
Refused == [op |-> "refused"]

\* Fields of 16 bits also take the spelling of a negative number as a word.
FitsS16Wide(v) == v \in -Half .. 2 * Half - 1    \* mutant: any 16 bits
FitsS16(v) == v \in -Half .. Half - 1 \/ v \in Long - Half .. Long - 1
FitsU16(v) == FitsS16(v) \/ v \in 0 .. 2 * Half - 1
FitsU24(v) == v \in 0 .. Far - 1
Low16(v)   == v % (2 * Half)

-----------------------------------------------------------------------------
(* Branches *)

TargetBase(t) == IF t[1] = "at" THEN R0 ELSE t[2]
TargetN(t)    == IF t[1] = "at" THEN t[2] ELSE IF Len(t) = 2 THEN 0 ELSE t[3]

EncGoto(c, t) ==
  IF FitsS16(TargetN(t))
  THEN [op |-> "if", c |-> c, rb |-> TargetBase(t), n |-> Low16(TargetN(t))]
  ELSE IF c = "true" /\ FitsU24(TargetN(t))
  THEN [op |-> "goto24", rb |-> TargetBase(t), n |-> TargetN(t)]
  ELSE Refused

EncCall(rm, t) ==
  IF FitsS16(TargetN(t))
  THEN [op |-> "call", rm |-> rm, rb |-> TargetBase(t), n |-> Low16(TargetN(t))]
  ELSE IF t[1] = "at" /\ FitsU24(TargetN(t)) THEN [op |-> "call24", rm |-> rm, n |-> TargetN(t)]
  ELSE Refused

EncLoop(rm, t) ==
  IF FitsS16(TargetN(t))
  THEN [op |-> "loop", rm |-> rm, rb |-> TargetBase(t), n |-> Low16(TargetN(t))]
  ELSE Refused

-----------------------------------------------------------------------------
(* CA arithmetic *)

AluR(f, short, rd, rs1, c, rs2) ==
  [op |-> "alu", f |-> f, short |-> short, rd |-> rd, rs1 |-> rs1, rs2 |-> rs2, c |-> c]

\* The forms with an immediate take no condition.
AluI(f, short, rd, c, v) ==
  IF c = "true" /\ FitsU16(v)
  THEN [op |-> "imm", f |-> f, short |-> short, rd |-> rd, n |-> Low16(v)] ELSE Refused
EncFmt5(short, rd, rs3, c, v) ==
  IF c = "true" /\ FitsS16(v)
  THEN [op |-> "add3", short |-> short, rd |-> rd, rs3 |-> rs3, n |-> Low16(v)] ELSE Refused

IsReg(o)  == o[1] = "reg"
IsNum(o)  == o[1] = "num"
Bare1(o)  == IsNum(o) /\ o[2] = 1 /\ o[3]

\* The statement of the 6d form itself: it repeats rD, and spells its number
\* with a sign, or is one that format 5 would print otherwise.
KeepsImmFormUnsigned(rd, rs1, c, v) ==    \* mutant: the sign is overlooked
  (v = 0 \/ rs1 = R0) /\ rs1 = rd /\ c = "true"
KeepsImmForm(rd, rs1, c, v) ==
  (v < 0 \/ v = 0 \/ rs1 = R0) /\ rs1 = rd /\ c = "true"

EncPlus(c, rd, short, rs1, o) ==
  IF IsReg(o) THEN AluR("add", short, rd, rs1, c, o[2])
  ELSE IF Bare1(o)
  THEN IF rd = SP /\ rs1 = SP THEN AluR("sub", short, rd, rs1, c, MINUS)
       ELSE AluR("add", short, rd, rs1, c, PLUS)
  ELSE IF KeepsImmForm(rd, rs1, c, o[2]) THEN AluI("add", short, rd, c, o[2])
  ELSE EncFmt5(short, rd, rs1, c, o[2])

\* "A - +n" and "0 - B" would be printed otherwise as differences: they are
\* reverse subtractions.
EncMinusStraight(c, rd, short, rs1, o) ==    \* mutant: reversed, but not swapped
  IF IsReg(o)
  THEN IF o[2] \in {PLUS, MINUS} \/ rs1 = R0 THEN AluR("rsub", short, rd, rs1, c, o[2])
       ELSE AluR("sub", short, rd, rs1, c, o[2])
  ELSE IF Bare1(o)
  THEN IF rd = SP /\ rs1 = SP THEN AluR("sub", short, rd, rs1, c, PLUS)
       ELSE AluR("add", short, rd, rs1, c, MINUS)
  ELSE IF KeepsImmForm(rd, rs1, c, o[2]) THEN AluI("sub", short, rd, c, o[2])
  ELSE EncFmt5(short, rd, rs1, c, -o[2])
EncMinus(c, rd, short, rs1, o) ==
  IF IsReg(o)
  THEN IF o[2] \in {PLUS, MINUS} \/ rs1 = R0 THEN AluR("rsub", short, rd, o[2], c, rs1)
       ELSE AluR("sub", short, rd, rs1, c, o[2])
  ELSE IF Bare1(o)
  THEN IF rd = SP /\ rs1 = SP THEN AluR("sub", short, rd, rs1, c, PLUS)
       ELSE AluR("add", short, rd, rs1, c, MINUS)
  ELSE IF KeepsImmForm(rd, rs1, c, o[2]) THEN AluI("sub", short, rd, c, o[2])
  ELSE EncFmt5(short, rd, rs1, c, -o[2])

EncShift(f, c, rd, short, rs1, o) ==
  IF IsReg(o) THEN AluR(f, short, rd, rs1, c, o[2])
  ELSE IF rs1 = rd /\ c = "true"
  THEN IF o[2] \in 0 .. WordBits - 1 THEN AluI(f, short, rd, c, o[2]) ELSE Refused
  ELSE IF o[2] = 1 THEN AluR(f, short, rd, rs1, c, PLUS) ELSE Refused

EncLogic(f, c, rd, short, rs1, o) ==
  IF IsReg(o) THEN AluR(f, short, rd, rs1, c, o[2])
  ELSE IF rs1 = rd THEN AluI(f, short, rd, c, o[2]) ELSE Refused

Function(op) ==
  CASE op = "#" -> "cradd" [] op = "&~" -> "andc" [] op = "^" -> "xor" [] op = "|" -> "or"
    [] op = "&" -> "and"   [] op = "<<" -> "shl"  [] op = ">>" -> "shr" [] op = "$>>" -> "asr"

\* rD = A op B; a number for A is only found in rD = N - rD.
EncBin(c, rd, short, a, op, b) ==
  CASE IsNum(a) -> IF op = "-" /\ b = Reg(rd) THEN AluI("rsub", short, rd, c, a[2]) ELSE Refused
    [] IsReg(a) /\ op = "+" -> EncPlus(c, rd, short, a[2], b)
    [] IsReg(a) /\ op = "-" -> EncMinus(c, rd, short, a[2], b)
    [] IsReg(a) /\ op = "*" -> IF b[2] = 2 THEN AluR("add", short, rd, a[2], c, a[2]) ELSE Refused
    [] IsReg(a) /\ op \in {"<<", ">>", "$>>"} -> EncShift(Function(op), c, rd, short, a[2], b)
    [] IsReg(a) /\ op \in {"#", "&~", "^", "|", "&"} -> EncLogic(Function(op), c, rd, short, a[2], b)

EncAssign(c, rd, short, e) ==
  CASE e[1] = "neg"  -> AluR("sub", short, rd, R0, c, e[2])
    [] e[1] = "reg"  -> AluR("add", short, rd, e[2], c, R0)
    [] e[1] = "num"  -> EncFmt5(short, rd, R0, c, e[2])
    [] e[1] = "bump" -> AluR("add", short, rd, e[2], c, IF e[3] = "++" THEN PLUS ELSE MINUS)
    [] e[1] = "rot"  -> AluR(e[3], short, rd, e[2], c, R0)
    [] e[1] = "bin"  -> EncBin(c, rd, short, e[2], e[3], e[4])

EncTest(c, short, rs1, op, o) ==
  LET f == IF op = "-" THEN "cmp" ELSE "btst" IN
  IF IsReg(o) THEN AluR(f, short, 0, rs1, c, o[2]) ELSE AluI(f, short, rs1, c, o[2])

-----------------------------------------------------------------------------
(* Moves *)

CamemRi(m) == IF m[3] = "by0" THEN R0 ELSE IF m[3] = "--" THEN MINUS ELSE IF Len(m) = 3 THEN PLUS ELSE m[4]

EncMvInd(op, w, rh, m) ==
  [op |-> op, w |-> w, rh |-> rh, direct |-> FALSE, x |-> 0, rp |-> m[2], ri |-> CamemRi(m)]
EncMvDir(op, w, rh, x) ==
  IF FitsU16(x)
  THEN [op |-> op, w |-> w, rh |-> rh, direct |-> TRUE, x |-> Low16(x), rp |-> 0, ri |-> 0]
  ELSE Refused
EncMvIor(store, w, rh, ior) == [op |-> "iormove", store |-> store, w |-> w, rh |-> rh, ior |-> ior]
EncMvIorMem(store, w, ior, m) ==
  [op |-> "iormem", store |-> store, w |-> w, ior |-> ior, rp |-> m[2], ri |-> CamemRi(m)]

EncMove(dst, w, src) ==
  CASE dst[1] = "reg" /\ src[1] = "direct" -> EncMvDir("load", w, dst[2], src[2])
    [] dst[1] = "reg" /\ src[1] = "mem"    -> EncMvInd("load", w, dst[2], src)
    [] dst[1] = "reg" /\ src[1] = "ior"    -> EncMvIor(FALSE, w, dst[2], src[2])
    [] dst[1] = "direct" /\ src[1] = "reg" -> EncMvDir("store", w, src[2], dst[2])
    [] dst[1] = "mem" /\ src[1] = "reg"    -> EncMvInd("store", w, src[2], dst)
    [] dst[1] = "mem" /\ src[1] = "ior"    -> EncMvIorMem(TRUE, w, src[2], dst)
    [] dst[1] = "ior" /\ src[1] = "reg"    -> EncMvIor(TRUE, w, src[2], dst[2])
    [] dst[1] = "ior" /\ src[1] = "mem"    -> EncMvIorMem(FALSE, w, dst[2], src)

EncDo(kind, k, o) ==
  [op |-> "do", b |-> kind = "dolock", m |-> kind = "doblock",
   k |-> IF k = <<>> THEN 0 ELSE k[1], isreg |-> IsReg(o), l |-> o[2]]

-----------------------------------------------------------------------------
(* DA *)

DaIsAcc(f) == f.p = 0
DaNoWrite  == [p |-> 0, i |-> 7]

\* A store through Y's own pointer is the field p = 15.
DaZCanon(z, y) == IF z.p \in 1..14 /\ z.p = y.p THEN [p |-> 15, i |-> z.i] ELSE z

DaWord(fmt, m, fs, ss, n, x, y, z) ==
  [op |-> "da", fmt |-> fmt, m |-> m, fs |-> fs, ss |-> ss, n |-> n, x |-> x, y |-> y,
   z |-> DaZCanon(z, y)]

\* Two terms t1 and t2.  A tap carries the store itself, otherwise Z is z.
EncTwoTerms(n, z, fs, t1, ss, t2) ==
  LET Z == IF z = <<>> THEN DaNoWrite ELSE z[1]
      Literal == IF t1[1] = "one" THEN 5 ELSE 4
  IN CASE t1[1] \in {"zero", "one"} /\ t2[1] = "prod" ->
            DaWord(3, Literal, fs, ss, n, t2[3], t2[2], Z)
       [] t1[1] \in {"zero", "one"} /\ t2[1] = "tapprod" /\ z = <<>> ->
            DaWord(2, Literal, fs, ss, n, t2[4], t2[3], t2[2])
       [] t1[1] = "tap" /\ t2[1] = "op" /\ z = <<>> -> DaWord(1, 6, fs, ss, n, t2[2], t1[3], t1[2])
       [] t1[1] = "op" /\ t2[1] = "op" -> DaWord(1, 5, fs, ss, n, t2[2], t1[2], Z)
       [] t1[1] = "op" /\ t2[1] = "zeroprod" -> DaWord(1, 4, fs, ss, n, t2[2], t1[2], Z)
       [] t1[1] = "op" /\ t2[1] = "prod" /\ DaIsAcc(t2[2]) ->
            DaWord(1, t2[2].i, fs, ss, n, t2[3], t1[2], Z)
       [] t1[1] = "op" /\ t2[1] = "prod" /\ ~DaIsAcc(t2[2]) /\ DaIsAcc(t1[2]) ->
            DaWord(3, t1[2].i, fs, ss, n, t2[3], t2[2], Z)
       [] t1[1] = "op" /\ t2[1] = "tapprod" /\ DaIsAcc(t1[2]) /\ z = <<>> ->
            DaWord(2, t1[2].i, fs, ss, n, t2[4], t2[3], t2[2])
       [] OTHER -> Refused

EncOneTerm(n, z, neg, t) ==
  LET Z == IF z = <<>> THEN DaNoWrite ELSE z[1] IN
  CASE t[1] = "op"   -> DaWord(1, 4, neg, FALSE, n, AccField(0), t[2], Z)
    [] t[1] = "prod" -> DaWord(3, 4, FALSE, neg, n, t[3], t[2], Z)
    [] t[1] = "tapprod" /\ z = <<>> -> DaWord(2, 4, FALSE, neg, n, t[4], t[3], t[2])
    [] OTHER -> Refused

EncDa(n, z, e) ==
  IF Len(e) = 2 THEN EncOneTerm(n, z, e[1], e[2]) ELSE EncTwoTerms(n, z, e[1], e[2], e[3], e[4])

EncSpecial(n, z, g, y) ==
  [op |-> "special", g |-> g, n |-> n, y |-> y,
   z |-> DaZCanon(IF z = <<>> THEN DaNoWrite ELSE z[1], y)]

-----------------------------------------------------------------------------
IorStore(w) == EncMvIor(TRUE, w, R0, 10)

Encode(t) ==
  CASE t[1] = "nop"     -> [op |-> "if", c |-> "false", rb |-> R0, n |-> 0]
    [] t[1] = "ireturn" -> [op |-> "if", c |-> "true", rb |-> PCSH, n |-> 0]
    [] t[1] = "waiti"   -> IorStore("long")
    [] t[1] = "bkpt"    -> IorStore("short")
    [] t[1] = "sftrst"  -> IorStore("byte")
    [] t[1] = "goto"    -> EncGoto(t[2], t[3])
    [] t[1] = "call"    -> EncCall(t[2], t[3])
    [] t[1] = "loop"    -> EncLoop(t[2], t[3])
    [] t[1] \in {"do", "dolock", "doblock"} -> EncDo(t[1], t[2], t[3])
    [] t[1] = "assign"  -> EncAssign(t[2], t[3], t[4], t[5])
    [] t[1] = "test"    -> EncTest(t[2], t[3], t[4], t[5], t[6])
    [] t[1] = "move"    -> EncMove(t[2], t[3], t[4])
    [] t[1] = "shiftor" -> IF FitsU16(t[4]) THEN [op |-> "shiftor", rd |-> t[2], rs |-> t[3], n |-> Low16(t[4])]
                           ELSE Refused
    [] t[1] = "set24"   -> IF FitsU24(t[3]) THEN [op |-> "set24", rd |-> t[2], n |-> t[3]] ELSE Refused
    [] t[1] = "da"      -> EncDa(t[3], t[2], t[4])
    [] t[1] = "special" -> EncSpecial(t[3], t[2], t[4], t[5])
=============================================================================
