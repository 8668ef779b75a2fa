----------------------------- MODULE DataPath -----------------------------
(***************************************************************************)
(* What data instructions compute: exec_da() and exec_da_special() with    *)
(* the exact DAU, and the ALU, move and counting branches of the CAU, on   *)
(* the registers, pointers, flags and memory they share.  Sequencer has    *)
(* the control around them and StoreShadow the delay of DA stores; here a  *)
(* short program runs without branches, and UV and NAN are masked.         *)
(*                                                                         *)
(* The struct dsp3210_emu is the record d.  Addresses are aligned, and a   *)
(* cell of memory holds one datum, of the type and size it is used with: a *)
(* float [m, e], an IEEE number [s, x, f] or an unsigned integer.          *)
(***************************************************************************)
EXTENDS DauExact, CauArith, Sequences, FiniteSets

CONSTANTS
  AccNo,        \* the accumulators: 0..3
  RegNo,        \* register codes in use, of those that name a register
  Starts        \* families of states and programs to begin with: <<d, program>>

VARIABLES
  d,            \* struct dsp3210_emu
  prog,         \* the instructions still to be executed
  start         \* the state and the program it all began with

vars == <<d, prog, start>>

LongH  == 2 ^ (IntBits - 1)
ShortH == 2 ^ (HalfBits - 1)
WordH(short) == IF short THEN ShortH ELSE LongH
LongWord == 0 .. 2 * LongH - 1

BUSERR == 1
NAN    == 3
UV     == 5

DauFlags == [N: BOOLEAN, Z: BOOLEAN, U: BOOLEAN, V: BOOLEAN]

-----------------------------------------------------------------------------
(* Instructions, and the programs that are made of them *)

\* Codes 0, 22 and 23 stand for r0, -n and +n: no register has them.
ASSUME RegAssumption == RegNo \cap {0, 22, 23} = {}

Source == RegNo \cup {0, 22, 23}
FromAcc(f) == f.p \in {0, 15}
Increment(f) == f.i \in 0..7 /\ (f.i \in 1..5 => 16 + f.i \in RegNo)
Operand(f) == IF FromAcc(f) THEN f.i % 4 \in AccNo ELSE f.p \in RegNo /\ Increment(f)
Target(f)  == f.p # 0 => f.p \in RegNo \cup {15} /\ Increment(f)

AluFunctions == { "add", "sub", "rsub", "cradd", "andc", "cmp", "xor", "ror", "or", "rol",
                  "and", "btst", "shl", "shr", "asr", "res5" }
SpecialFunctions == { "ic", "oc", "float16", "float32", "int16", "int32", "round",
                      "ifalt", "ifaeq", "ifagt", "ieee", "dsp", "seed" }
CondCodes == { "false", "true", "pl", "mi", "ne", "eq", "vc", "vs", "cc", "cs", "ge", "lt", "gt", "le",
               "hi", "ls", "auc", "aus", "age", "alt", "ane", "aeq", "avc", "avs", "agt", "ale" }
MoveTypes == {"byte", "char", "hbyte", "ushort", "short", "long"}

\* The fields of an instruction name registers and accumulators in use.
WellFormed(w) ==
  CASE w.op = "da" -> /\ w.n \in AccNo /\ Operand(w.x) /\ Operand(w.y) /\ Target(w.z)
                      /\ w.fs \in BOOLEAN /\ w.ss \in BOOLEAN
                      /\ IF w.fmt = 1 THEN w.m \in AccNo \cup {4, 5, 6} ELSE w.m \in AccNo \cup {4, 5}
    [] w.op = "special" -> w.g \in SpecialFunctions /\ w.n \in AccNo /\ Operand(w.y) /\ Target(w.z)
    [] w.op = "alu" -> /\ w.f \in AluFunctions /\ w.c \in CondCodes /\ w.short \in BOOLEAN
                       /\ w.rs1 \in Source /\ w.rs2 \in Source
    [] w.op = "imm" -> w.f \in AluFunctions /\ w.short \in BOOLEAN /\ w.rd \in Source /\ w.n \in LongWord
    [] w.op = "add3" -> w.short \in BOOLEAN /\ w.rs3 \in Source /\ w.n \in LongWord
    [] w.op = "shiftor" -> w.rs \in Source /\ w.n \in LongWord
    [] w.op = "set24" -> w.n \in LongWord
    [] w.op = "if" -> w.c \in CondCodes
    [] w.op = "loop" -> w.rm \in Source
    [] w.op \in {"load", "store"} -> /\ w.w \in MoveTypes /\ w.rh \in Source /\ w.direct \in BOOLEAN
                                     /\ ~w.direct => w.rp \in Source /\ w.ri \in Source
    [] OTHER -> FALSE

StateFields == { "r", "a", "aPipe", "dau", "flagPipe", "cau", "ctr", "dauc", "mem", "raised", "taken" }
Laws        == {"linear", "mulaw", "alaw"}

\* Every accumulator is normalised and within range, also one that holds an
\* integer in its upper bits.
StateOK(t) ==
  /\ DOMAIN t = StateFields /\ t.r \in [RegNo -> LongWord] /\ DOMAIN t.a = AccNo
  /\ \A n \in AccNo : IsAcc(t.a[n]) /\ \A k \in 1..3 : IsAcc(t.aPipe[k][n])
  /\ t.dau \in DauFlags /\ \A k \in 1..4 : t.flagPipe[k] \in DauFlags
  /\ t.cau \in Flags /\ t.ctr \in 0..63 /\ t.taken \in BOOLEAN
  /\ t.dauc \in [rnd: 0..3, inp: Laws, out: Laws, cond: BOOLEAN]
  /\ t.raised \subseteq {BUSERR, NAN, UV}

Program(p) == p \in Seq({p[i] : i \in DOMAIN p}) /\ \A i \in DOMAIN p : WellFormed(p[i])

ASSUME StartsAssumption ==
  \A family \in DOMAIN Starts : \A st \in Starts[family] :
    StateOK(st[1]) /\ st[1].raised = {} /\ Program(st[2])

-----------------------------------------------------------------------------
(* Registers and memory *)

\* Codes 0, 22 and 23 are r0, -n and +n; 25 is the stack pointer.
Opval(t, code) ==
  CASE code = 0  -> 0
    [] code = 22 -> 2 * LongH - 1
    [] code = 23 -> 1
    [] OTHER     -> t.r[code]

Regw(t, code, v) == IF code \in RegNo THEN [t EXCEPT !.r[code] = v] ELSE t

Mapped(t, x) == x \in DOMAIN t.mem
Raise(t, vn) == [t EXCEPT !.raised = @ \cup {vn}]

LatencyTick(t) ==
  [t EXCEPT !.aPipe = <<t.a, @[1], @[2]>>, !.flagPipe = <<t.dau, @[1], @[2], @[3]>>,
            !.raised = {}, !.taken = FALSE]

-----------------------------------------------------------------------------
(* DA operands: fields [p, i] *)

DaPostmod(t, p, i, size) ==
  LET step == CASE i = 0 -> 0
                [] i = 6 -> -size
                [] i = 7 -> size
                [] OTHER -> t.r[16 + i]       \* r15-r19: codes 17-21
  IN  [t EXCEPT !.r[p] = Low(@ + step, LongH)]

\* What a field reads: the datum for the adder and the one for the multiplier,
\* which sees accumulators three instructions late and without guard bits.
DaReadFaults(t, f) == ~FromAcc(f) /\ ~Mapped(t, t.r[f.p])
DaRead(t, f) ==
  IF FromAcc(f) THEN [acc |-> TRUE, n |-> f.i % 4, val |-> t.a[f.i % 4],
                      raw |-> AccPack(t.aPipe[3][f.i % 4])]
  ELSE [acc |-> FALSE, raw |-> t.mem[t.r[f.p]], ea |-> t.r[f.p], preg |-> f.p]
DaReadMoves(t, f, size) == IF FromAcc(f) THEN t ELSE DaPostmod(t, f.p, f.i, size)

DaAdder(o) == IF o.acc THEN o.val ELSE AccUnpack(o.raw)
AsWord(o)  == IF o.acc THEN AccPack(o.val) ELSE o.raw

DaZWrites(z, y) == z.p # 0 /\ (z.p = 15 => ~y.acc)

\* The pointer a Z field names, and the address it stores to.
ZReg(z, y)     == IF z.p = 15 THEN y.preg ELSE z.p
ZAddr(t, z, y) == IF z.p = 15 THEN y.ea ELSE t.r[z.p]

DaPostmodOnly(t, z, y, size) ==
  IF DaZWrites(z, y) THEN DaPostmod(t, ZReg(z, y), z.i, size) ELSE t

DaStoreZ(t, z, y, size, v) ==
  LET x == ZAddr(t, z, y) IN
  IF ~DaZWrites(z, y) THEN t
  ELSE IF ~Mapped(t, x) THEN Raise(t, BUSERR)
  ELSE DaPostmod([t EXCEPT !.mem[x] = v], ZReg(z, y), z.i, size)

-----------------------------------------------------------------------------
(* DAU flags and the clip-test history.  DaFlags yields the result as well. *)

OutOfRange(a) == a.e # 0 /\ a.e > MaxExp
TooSmall(a)   == a.e # 0 /\ a.e < 1

DaRangeWrongSign(a) ==    \* mutant: overflow saturates to the largest value
  IF OutOfRange(a) THEN Largest ELSE IF TooSmall(a) THEN Zero ELSE a
DaRange(a) ==
  IF OutOfRange(a) THEN IF a.m < 0 THEN Smallest ELSE Largest
  ELSE IF TooSmall(a) THEN Zero ELSE a

Negative(a) == a.e # 0 /\ a.m < 0
WithFlags(t, f) ==
  [t EXCEPT !.dau = f, !.ctr = (2 * @ + (IF f.N THEN 1 ELSE 0)) % 64]

DaFlags(t, a, vu) ==
  LET r == IF vu THEN DaRange(a) ELSE a
      f == [N |-> Negative(r), Z |-> r.e = 0, U |-> vu /\ TooSmall(a), V |-> vu /\ OutOfRange(a)]
      u == WithFlags(t, f)
  IN  [res |-> r, t |-> IF f.U \/ f.V THEN Raise(u, UV) ELSE u]

\* The end of every DA instruction: the accumulator, then Z.
Finish(t, n, r, z, y, size, v) == DaStoreZ([t EXCEPT !.a[n] = r], z, y, size, v)

-----------------------------------------------------------------------------
(* exec_da(): formats 1-4 *)

OneWord == [m |-> 0, e |-> Bias]

\* The adder's input and the product, without their signs; w.m is the M field.
AdderIn(t, w, Y) ==
  IF w.fmt = 1 THEN DaAdder(Y)
  ELSE IF w.m = 4 THEN Zero ELSE IF w.m = 5 THEN AccUnpack(OneWord) ELSE t.a[w.m]
ProductIn(t, w, X, Y) ==
  IF w.fmt # 1 THEN DauMul(Y.raw, X.raw)
  ELSE IF w.m = 4 THEN Zero
  ELSE DauMul(IF w.m \in {5, 6} THEN OneWord ELSE AccPack(t.aPipe[3][w.m]), X.raw)

Tap(w) == w.fmt = 2 \/ (w.fmt = 1 /\ w.m = 6)

ExecDaYFirst(t0, w) ==    \* mutant: Y is read, and its pointer moves, before X
  LET Y   == DaRead(t0, w.y)
      t1  == DaReadMoves(t0, w.y, 4)
      X   == DaRead(t1, w.x)
      t2  == DaReadMoves(t1, w.x, 4)
      ad  == AdderIn(t2, w, Y)
      p   == ProductIn(t2, w, X, Y)
      fl  == DaFlags(t2, DauAdd(IF w.fs THEN AccNegate(ad) ELSE ad, IF w.ss THEN [p EXCEPT !.m = -@] ELSE p), TRUE)
  IN  IF DaReadFaults(t0, w.y) THEN Raise(t0, BUSERR)
      ELSE IF DaReadFaults(t1, w.x) THEN Raise(t1, BUSERR)
      ELSE Finish(fl.t, w.n, fl.res, w.z, Y, 4, IF Tap(w) THEN AsWord(Y) ELSE AccPack(fl.res))
ExecDa(t0, w) ==
  LET X   == DaRead(t0, w.x)
      t1  == DaReadMoves(t0, w.x, 4)
      Y   == DaRead(t1, w.y)
      t2  == DaReadMoves(t1, w.y, 4)
      ad  == AdderIn(t2, w, Y)
      p   == ProductIn(t2, w, X, Y)
      sum == DauAdd(IF w.fs THEN AccNegate(ad) ELSE ad, IF w.ss THEN [p EXCEPT !.m = -@] ELSE p)
      fl  == DaFlags(t2, sum, TRUE)
      v   == IF ~Tap(w) THEN AccPack(fl.res)
             ELSE IF Y.acc THEN AccPack([t2.a EXCEPT ![w.n] = fl.res][Y.n]) ELSE Y.raw
  IN  IF DaReadFaults(t0, w.x) THEN Raise(t0, BUSERR)
      ELSE IF DaReadFaults(t1, w.y) THEN Raise(t1, BUSERR)
      ELSE Finish(fl.t, w.n, fl.res, w.z, Y, 4, v)

-----------------------------------------------------------------------------
(* exec_da_special(): format 5 *)

ReadSize(g)  == CASE g = "ic" -> 1 [] g = "float16" -> 2 [] OTHER -> 4
StoreSize(g) == CASE g = "oc" -> 1 [] g = "int16" -> 2 [] OTHER -> 4

\* An integer operand of n bits: the top of an accumulator's lane, or memory.
IntOperand(o, n) == IF o.acc THEN TopBits(LaneOf(o.val), n) ELSE o.raw
SignedOperand(o, n) == Sext(IntOperand(o, n), n)

\* The value of a byte by the input conversion.
IcValue(t, code) ==
  IF t.dauc.inp = "linear" THEN AccFromI64(code)
  ELSE LET a == AccFromI64(Decode2x(t.dauc.inp, code)) IN
       [a EXCEPT !.e = IF @ = 0 THEN 0 ELSE @ - 1]

OcCode(t, a) ==
  IF t.dauc.out = "linear" THEN AccToInt(a, t.dauc.rnd, ByteBits)
  ELSE CompandedEncode(a, t.dauc.out)

Holds(t, g) ==
  CASE g = "ifalt" -> t.dau.N
    [] g = "ifaeq" -> t.dau.Z
    [] g = "ifagt" -> ~(t.dau.N \/ t.dau.Z)

\* IEEE specials, which bypass DaFlags.
Infinity(sg) == [m |-> IF sg THEN -(2 ^ FracBits) ELSE 2 ^ FracBits - 1, e |-> MaxExp]
DspSpecial(t, w) ==
  LET u == WithFlags(t, [N |-> w.x # 0 /\ w.s, Z |-> w.x = 0, U |-> w.x = 0 /\ w.f # 0,
                         V |-> w.x # 0 /\ (~w.s \/ w.f # 0)])
  IN  [res |-> IF w.x = 0 THEN Zero ELSE AccUnpack(Infinity(w.s)),
       t   |-> IF w.x # 0 /\ w.f # 0 THEN Raise(u, NAN) ELSE u]

\* Everything but the sign inverted.
SeedBitsSigned(w) == [m |-> -w.m - 1, e |-> MaxExp - w.e]    \* mutant
SeedBits(w) ==
  [m |-> IF w.m < 0 THEN -(2 ^ FracBits) - w.m - 1 ELSE 2 ^ FracBits - 1 - w.m, e |-> MaxExp - w.e]

\* What a special function computes: the accumulator, the state with its flags
\* and the datum for Z.
Conversion(t, w, Y) ==
  LET a == DaAdder(Y)
      Flagged(fl) == [res |-> fl.res, t |-> fl.t, z |-> AccPack(fl.res)]
      ToInt(n) == AccToInt(a, t.dauc.rnd, n)
  IN CASE w.g = "ic" -> Flagged(DaFlags(t, IcValue(t, IntOperand(Y, ByteBits)), FALSE))
       [] w.g = "oc" -> [res |-> IntLane(ToTop(OcCode(t, a), ByteBits), a), t |-> t, z |-> OcCode(t, a)]
       [] w.g = "float16" -> Flagged(DaFlags(t, AccFromI64(SignedOperand(Y, HalfBits)), FALSE))
       [] w.g = "float32" -> Flagged(DaFlags(t, AccFromI64(SignedOperand(Y, IntBits)), FALSE))
       [] w.g = "int16" -> [res |-> IntLane(ToTop(ToInt(HalfBits), HalfBits), a), t |-> t,
                            z |-> ToInt(HalfBits) % 2 ^ HalfBits]
       [] w.g = "int32" -> [res |-> IntLane(ToInt(IntBits), a), t |-> t,
                            z |-> ToInt(IntBits) % 2 ^ IntBits]
       [] w.g = "round" -> Flagged(DaFlags(t, AccRound(a), TRUE))
       [] w.g \in {"ifalt", "ifaeq", "ifagt"} ->
            LET r == IF Holds(t, w.g) THEN a ELSE t.a[w.n] IN [res |-> r, t |-> t, z |-> AccPack(r)]
       [] w.g = "ieee" -> [res |-> a, t |-> t, z |-> AccToIeee(a)]
       [] w.g = "dsp" ->
            IF Y.raw.x \in {0, MaxExp}
            THEN LET r == DspSpecial(t, Y.raw) IN [res |-> r.res, t |-> r.t,
                   z |-> IF Y.raw.x = 0 THEN Zero ELSE Infinity(Y.raw.s)]
            ELSE Flagged(DaFlags(t, AccFromIeee(Y.raw), TRUE))
       [] w.g = "seed" ->
            LET sb == SeedBits(AsWord(Y))
                fl == DaFlags(t, AccUnpack(sb), FALSE)
            IN  [res |-> fl.res, z |-> sb,
                 t |-> [fl.t EXCEPT !.dau.U = AsWord(Y).e = MaxExp /\ sb.e = 0]]

\* The store of ifalt, ifaeq and ifagt is conditional by dauc[6].
Withheld(t, w) == w.g \in {"ifalt", "ifaeq", "ifagt"} /\ t.dauc.cond /\ ~Holds(t, w.g)

ExecDaSpecialUnmoved(t0, w) ==    \* mutant: a withheld store does not move its pointer
  LET Y  == DaRead(t0, w.y)
      t1 == DaReadMoves(t0, w.y, ReadSize(w.g))
      c  == Conversion(t1, w, Y)
  IN  IF DaReadFaults(t0, w.y) THEN Raise(t0, BUSERR)
      ELSE IF Withheld(t1, w) THEN [c.t EXCEPT !.a[w.n] = c.res]
      ELSE Finish(c.t, w.n, c.res, w.z, Y, StoreSize(w.g), c.z)
ExecDaSpecial(t0, w) ==
  LET Y  == DaRead(t0, w.y)
      t1 == DaReadMoves(t0, w.y, ReadSize(w.g))
      c  == Conversion(t1, w, Y)
  IN  IF DaReadFaults(t0, w.y) THEN Raise(t0, BUSERR)
      ELSE IF Withheld(t1, w)
           THEN DaPostmodOnly([c.t EXCEPT !.a[w.n] = c.res], w.z, Y, StoreSize(w.g))
      ELSE Finish(c.t, w.n, c.res, w.z, Y, StoreSize(w.g), c.z)

-----------------------------------------------------------------------------
(* The CAU: alu_op() on long words a and b.  A short result is extended by *)
(* its sign, but for the logical shifts.                                   *)

BitRev(x, n) ==
  LET rev[i \in 0..n] ==
        IF i = 0 THEN 0 ELSE rev[i - 1] + ((x \div 2 ^ (i - 1)) % 2) * 2 ^ (n - i)
  IN  rev[n]

Width(h) == IF h = ShortH THEN HalfBits ELSE IntBits

CraddOneBitShort(a, b, h) ==    \* mutant: a long is reversed as a word one bit narrower
  LET n == IF h = LongH THEN IntBits - 1 ELSE HalfBits
      sum == BitRev(Low(a, h), n) + BitRev(Low(b, h), n)
      res == BitRev(Low(sum, h), n)
  IN  [res |-> res, f |-> [FlagsNz(res, h) EXCEPT !.c = sum >= 2 * h]]
Cradd(a, b, h) ==
  LET sum == BitRev(Low(a, h), Width(h)) + BitRev(Low(b, h), Width(h))
      res == BitRev(Low(sum, h), Width(h))
  IN  [res |-> res, f |-> [FlagsNz(res, h) EXCEPT !.c = sum >= 2 * h]]

\* Rotations go through the carry.
RorOverCarry(a, cin, h) ==    \* mutant: bit 0 goes round to the top
  LET res == Low(a, h) \div 2 + (a % 2) * h
  IN  [res |-> res, f |-> [FlagsNz(res, h) EXCEPT !.c = a % 2 = 1]]
Ror(a, cin, h) ==
  LET res == Low(a, h) \div 2 + cin * h
  IN  [res |-> res, f |-> [FlagsNz(res, h) EXCEPT !.c = a % 2 = 1]]

Plain(res, h) == [res |-> res, f |-> FlagsNz(res, h)]

\* The count of a shift is taken modulo 32, the width of a long.
Shift(b) == b % IntBits

AluOp(t, f, a, b, h) ==
  LET ua  == Low(a, h)
      ub  == Low(b, h)
      cin == IF t.cau.c THEN 1 ELSE 0
  IN CASE f = "add"   -> AluAdd(a, b, 0, h)
       [] f \in {"sub", "cmp"} -> AluSub(a, b, h)
       [] f = "rsub"  -> AluSub(b, a, h)
       [] f = "cradd" -> Cradd(a, b, h)
       [] f = "andc"  -> Plain(ua - BitAnd(ua, ub), h)
       [] f = "xor"   -> Plain(BitXor(ua, ub), h)
       [] f = "or"    -> Plain(BitOr(ua, ub), h)
       [] f \in {"and", "btst"} -> Plain(BitAnd(ua, ub), h)
       [] f = "shl"   -> Plain(Low(a * 2 ^ Shift(b), h), h)
       [] f = "shr"   -> Plain(ua \div 2 ^ Shift(b), h)
       [] f = "asr"   -> Plain(Low(Signed(a, h) \div 2 ^ Shift(b), h), h)
       [] f = "rol"   -> AluAdd(a, a, cin, h)
       [] f = "ror"   -> Ror(a, cin, h)

StoresResult(f) == f \notin {"cmp", "btst", "res5"}

Alu(t, f, a, b, rd, h) ==
  LET r == AluOp(t, f, a, b, h)
      v == IF f \in {"shl", "shr"} THEN r.res ELSE Extended(r.res, h, LongH)
      u == [t EXCEPT !.cau = r.f]
  IN  IF f = "res5" THEN t ELSE IF StoresResult(f) THEN Regw(u, rd, v) ELSE u

\* sp++ and sp-- move by 4.
SpBump(w) == w.f = "add" /\ w.rd = 25 /\ w.rs1 = 25 /\ w.rs2 \in {22, 23}
AluOperand(t, w) ==
  IF SpBump(w) THEN IF w.rs2 = 23 THEN 4 ELSE 2 * LongH - 4 ELSE Opval(t, w.rs2)

ExecAluReg(t, w) ==
  IF ~CondEval(t.cau, t.flagPipe[4], w.c) THEN t
  ELSE Alu(t, w.f, Opval(t, w.rs1), AluOperand(t, w), w.rd, WordH(w.short))

\* Immediates are short and extended by their sign; a rotation has none.
Immediate(n) == Extended(n, ShortH, LongH)
ExecAluImm(t, w) == Alu(t, w.f, Opval(t, w.rd), Immediate(w.n), w.rd, WordH(w.short))
ExecAdd3(t, w) == Alu(t, "add", Opval(t, w.rs3), Immediate(w.n), w.rd, WordH(w.short))

ExecShiftOr(t, w) ==
  LET res == BitOr(Opval(t, w.rs), Low(w.n * 2 ^ HalfBits, LongH))
  IN  Regw([t EXCEPT !.cau = FlagsNz(res, LongH)], w.rd, res)

ExecSet24(t, w) == Regw(t, w.rd, w.n)

-----------------------------------------------------------------------------
(* Branches on data: if (COND) goto, and if (rM-- >= 0) goto *)

ExecIf(t, w) == [t EXCEPT !.taken = CondEval(t.cau, t.flagPipe[4], w.c)]

ExecLoop(t, w) ==
  LET val == Opval(t, w.rm)
  IN  Regw([t EXCEPT !.taken = ~Sign(val, LongH)], w.rm, Low(val - 1, LongH))

-----------------------------------------------------------------------------
(* exec_move(): between a register and memory *)

WSize(w) == CASE w \in {"byte", "char", "hbyte"} -> 1 [] w \in {"ushort", "short"} -> 2
              [] w = "long" -> 4
WBits(w) == CASE WSize(w) = 1 -> ByteBits [] WSize(w) = 2 -> HalfBits [] WSize(w) = 4 -> IntBits

WExtend(w, raw) ==
  CASE w \in {"byte", "ushort", "long"} -> raw % 2 ^ WBits(w)
    [] w \in {"char", "short"} -> Extended(raw, 2 ^ (WBits(w) - 1), LongH)
    [] w = "hbyte" -> (raw % 2 ^ ByteBits) * 2 ^ ByteBits

WSelect(w, reg) ==
  IF w = "hbyte" THEN (reg \div 2 ^ ByteBits) % 2 ^ ByteBits ELSE reg % 2 ^ WBits(w)

CaPostmod(t, w) ==
  LET delta == CASE w.ri = 23 -> WSize(w.w) [] w.ri = 22 -> -WSize(w.w) [] OTHER -> Opval(t, w.ri)
  IN  IF w.direct \/ w.ri = 0 THEN t ELSE Regw(t, w.rp, Low(Opval(t, w.rp) + delta, LongH))

MoveAddr(t, w) == IF w.direct THEN w.x ELSE Opval(t, w.rp)

\* The pointer moves before the register is loaded: a pointer loaded through
\* itself ends with the loaded value.
ExecLoadMovedLast(t, w) ==    \* mutant
  LET v == WExtend(w.w, t.mem[MoveAddr(t, w)]) IN
  IF ~Mapped(t, MoveAddr(t, w)) THEN Raise(t, BUSERR)
  ELSE CaPostmod(Regw([t EXCEPT !.cau = FlagsNz(v, LongH)], w.rh, v), w)
ExecLoad(t, w) ==
  LET v == WExtend(w.w, t.mem[MoveAddr(t, w)]) IN
  IF ~Mapped(t, MoveAddr(t, w)) THEN Raise(t, BUSERR)
  ELSE Regw([CaPostmod(t, w) EXCEPT !.cau = FlagsNz(v, LongH)], w.rh, v)

ExecStore(t, w) ==
  IF ~Mapped(t, MoveAddr(t, w)) THEN Raise(t, BUSERR)
  ELSE CaPostmod([t EXCEPT !.mem[MoveAddr(t, w)] = WSelect(w.w, Opval(t, w.rh))], w)

-----------------------------------------------------------------------------
(* The program *)

ExecInsn(t, w) ==
  CASE w.op = "da"      -> ExecDa(t, w)
    [] w.op = "special" -> ExecDaSpecial(t, w)
    [] w.op = "alu"     -> ExecAluReg(t, w)
    [] w.op = "imm"     -> ExecAluImm(t, w)
    [] w.op = "add3"    -> ExecAdd3(t, w)
    [] w.op = "shiftor" -> ExecShiftOr(t, w)
    [] w.op = "set24"   -> ExecSet24(t, w)
    [] w.op = "if"      -> ExecIf(t, w)
    [] w.op = "loop"    -> ExecLoop(t, w)
    [] w.op = "load"    -> ExecLoad(t, w)
    [] w.op = "store"   -> ExecStore(t, w)

Executed(t, w) == ExecInsn(LatencyTick(t), w)

\* A bus error leaves the program for the handler.
Step ==
  /\ prog # <<>>
  /\ d' = Executed(d, Head(prog))
  /\ prog' = IF BUSERR \in d'.raised THEN <<>> ELSE Tail(prog)
  /\ UNCHANGED start

Init == \E family \in DOMAIN Starts : \E st \in Starts[family] : start = st /\ d = st[1] /\ prog = st[2]

Next == Step

Spec == Init /\ [][Next]_vars

-----------------------------------------------------------------------------
(* Properties.  A step's instruction is Head(prog). *)

\* The datum an operand in memory must be, by the instruction that reads it.
Datum(g)  == CASE g = "ic" -> Code [] g = "float16" -> 0 .. 2 * ShortH - 1 [] g = "float32" -> LongWord
               [] g = "dsp" -> IeeeWord [] OTHER -> FloatWord

Fits(t, f, type) == FromAcc(f) \/ DaReadFaults(t, f) \/ t.mem[t.r[f.p]] \in type

\* An instruction finds the datum it expects: a program does not read a number
\* as something else than what has been written there.
Typed ==
  prog # <<>> =>
    LET w == Head(prog) IN
    CASE w.op = "da" -> Fits(d, w.x, FloatWord) /\ Fits(DaReadMoves(d, w.x, 4), w.y, FloatWord)
      [] w.op = "special" -> Fits(d, w.y, Datum(w.g)) /\ (w.g = "dsp" => ~FromAcc(w.y))
      [] w.op = "load" -> Mapped(d, MoveAddr(d, w)) => d.mem[MoveAddr(d, w)] \in LongWord
      [] OTHER -> TRUE

\* Instructions leave accumulators normalised and in range, registers and flags
\* within their widths, and find the data they expect.
TypeOK == StateOK(d) /\ Typed

\* The two terms of a multiply/accumulate, exactly: m * 2^(e - Bias - ScMul).
SumTerms(t0, w) ==
  LET t  == LatencyTick(t0)
      X  == DaRead(t, w.x)
      t1 == DaReadMoves(t, w.x, 4)
      Y  == DaRead(t1, w.y)
      in == AdderIn(DaReadMoves(t1, w.y, 4), w, Y)
      ad == IF w.fs THEN AccNegate(in) ELSE in
      pr == ProductIn(t1, w, X, Y)
  IN  << [m |-> IF ad.e = 0 THEN 0 ELSE ad.m * 2 ^ (ScMul - ScAcc), e |-> ad.e],
         [m |-> IF w.ss THEN -pr.m ELSE pr.m, e |-> pr.e] >>

Lower(i, j)  == IF i < j THEN i ELSE j
Higher(i, j) == IF i > j THEN i ELSE j
InUnits(x, u) == IF x.m = 0 THEN 0 ELSE x.m * 2 ^ (x.e - u)
ExactSum(ts) ==
  LET u == IF ts[1].m = 0 THEN ts[2].e ELSE IF ts[2].m = 0 THEN ts[1].e
           ELSE Lower(ts[1].e, ts[2].e)
  IN  [m |-> InUnits(ts[1], u) + InUnits(ts[2], u), e |-> u]

\* The adder shifts a term out of its reach to nothing.
Distant(ts) ==
  /\ ts[1].m # 0 /\ ts[2].m # 0
  /\ ts[1].e - ts[2].e >= Reach \/ ts[2].e - ts[1].e >= Reach

\* x < c * 2^(k - Bias), for c = 1 or c = -1.
Less(x, c, k) ==
  LET places == x.e - ScMul - k
  IN  IF places > 0 THEN 2 * x.m < c ELSE x.m < c * 2 ^ (-places)

\* A word d.op completed, without a bus error.
Completes(op) == prog # <<>> /\ Head(prog).op = op /\ BUSERR \notin d'.raised

\* The adder truncates: a result in range lies below the exact sum, by less
\* than a unit of its last place or of the alignment, whichever is larger; a
\* term shifted out altogether may leave it above.
SumTruncates ==
  [][Completes("da") =>
       LET w  == Head(prog)
           ts == SumTerms(d, w)
           x  == ExactSum(ts)
           r  == [m |-> d'.a[w.n].m * 2 ^ (ScMul - ScAcc), e |-> d'.a[w.n].e]
           u  == Lower(x.e, r.e)
           unit == 2 ^ (Higher(r.e + ScMul - ScAcc, Higher(ts[1].e, ts[2].e)) - u)
           lost == InUnits(x, u) - InUnits(r, u)
       IN  r.e # 0 /\ ~d'.dau.V => lost < unit /\ lost > (IF Distant(ts) THEN -unit ELSE -1)]_vars

\* The exact sum down to the unit of its larger term: what the alignment keeps.
FlooredSum(ts) ==
  LET x == ExactSum(ts)
      e == IF ts[1].m = 0 \/ ts[2].m = 0 THEN x.e ELSE Higher(ts[1].e, ts[2].e)
  IN  [m |-> x.m \div 2 ^ (e - x.e), e |-> e]

\* Overflow and sign are those of the exact sum, judged against the range of an
\* accumulator; zero, and the flush to it, are those of the floored sum, which is
\* what the alignment leaves.  The result saturates on the side of its sign, and
\* vector 5 is raised when V or U is set.  Nothing is said of terms so far apart
\* that the adder shifts one of them out of its reach.
RangeJudged ==
  [][Completes("da") =>
       LET w  == Head(prog)
           ts == SumTerms(d, w)
           x  == ExactSum(ts)
           y  == FlooredSum(ts)
           tooLarge == ~Less(x, 1, MaxExp + 1)
           tooSmall == Less(x, -1, MaxExp + 1)
           tiny     == Less(y, 1, 1) /\ ~Less(y, -1, 1)
       IN  ~Distant(ts) =>
             /\ d'.dau.V <=> tooLarge \/ tooSmall
             /\ tooLarge => d'.a[w.n] = Largest
             /\ tooSmall => d'.a[w.n] = Smallest
             /\ d'.a[w.n].e = 0 <=> tiny
             /\ d'.dau.Z <=> tiny
             /\ d'.dau.N <=> x.m < 0 /\ ~tiny
             /\ d'.dau.U => tiny
             /\ UV \in d'.raised <=> d'.dau.U \/ d'.dau.V]_vars

\* The comment of da_flags(): a sum other than zero that is too small for the
\* smallest exponent is an underflow.
UnderflowFlagged ==
  [][Completes("da") =>
       LET x == ExactSum(SumTerms(d, Head(prog)))
       IN  x.m # 0 /\ Less(x, 1, 1) /\ ~Less(x, -1, 1) => d'.dau.U]_vars

\* The comment in exec_da(): a tap passes its Y operand on to memory.
TapStoresY ==
  [][Completes("da") =>
       LET w == Head(prog)
           Y == DaRead(DaReadMoves(d, w.x, 4), w.y)
       IN  Tap(w) /\ w.z.p \in RegNo => d'.mem[d.r[w.z.p]] = AsWord(Y)]_vars

-----------------------------------------------------------------------------
(* Idioms: programs whose outcome is known from where they start. *)

Ran(p) == prog = <<>> /\ start[2] = p /\ BUSERR \notin d.raised
Done   == Len(start[2]) - Len(prog)
Repeats(w, n) == [i \in 1..n |-> w]

Acc(n)    == [p |-> 0, i |-> n]
At(p)     == [p |-> p, i |-> 0]
Inc(p)    == [p |-> p, i |-> 7]
NoZ       == [p |-> 0, i |-> 7]
Special(g, n, y, z) == [op |-> "special", g |-> g, n |-> n, y |-> y, z |-> z]
Da(fmt, m, n, x, y, z, fs, ss) ==
  [op |-> "da", fmt |-> fmt, m |-> m, n |-> n, x |-> x, y |-> y, z |-> z, fs |-> fs, ss |-> ss]

\* From accumulator 0 to an integer of n bits and back to accumulator 1, by way
\* of accumulator 1 or of memory at r1.
ThroughInteger(n, y, z) ==
  CASE n = ByteBits -> <<Special("oc", 1, Acc(0), z), Special("ic", 1, y, NoZ)>>
    [] n = HalfBits -> <<Special("int16", 1, Acc(0), z), Special("float16", 1, y, NoZ)>>
    [] n = IntBits  -> <<Special("int32", 1, Acc(0), z), Special("float32", 1, y, NoZ)>>

ValueIs(a, i) ==
  IF a.e = 0 THEN i = 0
  ELSE LET k == Bias + ScAcc - a.e IN k >= 0 /\ a.m = i * 2 ^ k

\* i is what num / unit rounds to.
RoundsTo(num, unit, mode, i) ==
  CASE mode \in {0, 2} -> (2 * i - 1) * unit <= 2 * num /\ 2 * num < (2 * i + 1) * unit
    [] mode = 1 -> i * unit <= num /\ num < (i + 1) * unit
    [] mode = 3 -> IF num < 0 THEN i <= 0 /\ (i - 1) * unit < num /\ num <= i * unit
                   ELSE i >= 0 /\ i * unit <= num /\ num < (i + 1) * unit

\* int32 and float32, int16 and float16, and linear oc and ic, are inverse to
\* each other up to rounding and saturation, through memory and through the
\* upper bits of an accumulator.
IntegersRoundTrip ==
  \A n \in {ByteBits, HalfBits, IntBits} :
    /\ Ran(ThroughInteger(n, Acc(1), NoZ)) \/ Ran(ThroughInteger(n, At(1), At(1)))
    /\ n = ByteBits => d.dauc.inp = "linear" /\ d.dauc.out = "linear"
    =>
      LET x    == start[1].a[0]
          k    == Bias + ScAcc - x.e
          unit == 2 ^ Higher(k, 0)
          num  == IF x.e = 0 THEN 0 ELSE x.m * 2 ^ Higher(-k, 0)
      IN  \E i \in IntMin(n)..IntMax(n) :
            /\ ValueIs(d.a[1], i)
            /\ \/ RoundsTo(num, unit, d.dauc.rnd, i)
               \/ i = IntMax(n) /\ num > i * unit
               \/ i = IntMin(n) /\ num < i * unit

\* round is to the nearest memory word, ties upwards, also across a power of two.
RoundsToNearest ==
  Ran(<<Special("round", 1, Acc(0), NoZ)>>) =>
    LET x == start[1].a[0]
        r == d.a[1]
        u == Lower(x.e, r.e)
        gain == 2 * (InUnits(r, u) - InUnits(x, u))
        unit == 2 ^ (GuardBits + x.e - u)
    IN  x.e # 0 /\ r.e # 0 /\ ~d.dau.V =>
          r.m % 2 ^ GuardBits = 0 /\ -unit < gain /\ gain <= unit

\* A word comes back from IEEE as it was, but for those with the smallest
\* exponent, which IEEE cannot represent as normal numbers; and companding a
\* byte decoded by the same law gives a byte of the same value.
CodesRoundTrip ==
  /\ Ran(<<Special("ieee", 0, At(1), At(2)), Special("dsp", 1, At(2), At(1))>>) =>
       LET w == start[1].mem[start[1].r[1]]
           lost == w.e = 0 \/ (w.e = 1 /\ Mant24Full(w) # -(2 ^ (FracBits + 1)))
       IN  /\ d.a[1] = IF lost THEN Zero ELSE AccUnpack(w)
           /\ d.mem[d.r[1]] = IF lost THEN Zero ELSE w
  /\ Ran(<<Special("ic", 0, At(1), NoZ), Special("oc", 1, Acc(0), At(2))>>)
     /\ d.dauc.inp = d.dauc.out =>
       LET law == d.dauc.inp
           was == start[1].mem[start[1].r[1]]
           is  == d.mem[d.r[2]]
       IN  IF law = "linear" THEN is = was ELSE Decode2x(law, is) = Decode2x(law, was)

\* The product of a number and its seed is between 1 and 9/8, up to a unit of
\* the last place: Newton's iteration converges from there.
SeedIsClose ==
  [][Completes("special") /\ Head(prog).g = "seed" =>
       LET y == AsWord(DaRead(d, Head(prog).y))
           s == SeedBits(y)
           one == 2 ^ (2 * FracBits + 1)
           ulp == 2 ^ (FracBits + 1)
           product == Mant24Full(y) * Mant24Full(s)
       IN  y.e \in 1 .. MaxExp - 1 =>
             /\ y.e + s.e = 2 * Bias - 1
             /\ one - ulp <= product /\ 8 * product <= 9 * one + 8 * ulp
             /\ d'.a[Head(prog).n] = AccUnpack(s)]_vars

\* A conditional load in place walks over its buffer: it stores through Y's own
\* pointer and moves on whether or not the store is withheld.  Each mapped word
\* up to the first that is not becomes the word it holds, repacked, when the
\* condition holds, and a1 when it does not and dauc withholds no stores.
InPlace(g) == Special(g, 1, At(1), [p |-> 15, i |-> 7])
InPlaceSweeps ==
  \A g \in {"ifalt", "ifaeq", "ifagt"} :
    start[2] = Repeats(InPlace(g), Len(start[2])) =>
      LET s0 == start[1]
          cell(j) == Low(s0.r[1] + 4 * j, LongH)
          Passed(x) == \E j \in 0 .. Done - 1 : x = cell(j) /\ \A i \in 0 .. j : Mapped(d, cell(i))
          Stored(x) == IF Holds(s0, g) THEN AccPack(AccUnpack(s0.mem[x]))
                       ELSE IF s0.dauc.cond THEN s0.mem[x] ELSE AccPack(s0.a[1])
      IN  /\ Done > 0 /\ BUSERR \notin d.raised => d.r[1] = cell(Done)
          /\ \A x \in DOMAIN d.mem : d.mem[x] = IF Passed(x) THEN Stored(x) ELSE s0.mem[x]

\* A DA instruction without its store.
Unstored(w) ==
  IF w.op = "da" THEN Da(w.fmt, w.m, w.n, w.x, w.y, NoZ, w.fs, w.ss) ELSE Special(w.g, w.n, w.y, NoZ)

\* The operands of a DA instruction are met in the order X, Y, Z, and what has
\* been done before the one that is not mapped stays done.  At X nothing has; at
\* Y the pointer of X has moved; at Z the instruction is what it is without its
\* store: both pointers have moved, and the result, its flags and the errors they
\* raise are there.  A load or a store that faults has done nothing.  Whatever
\* faults, memory and the CAU's flags are as before.
AbortKeepsState ==
  [][(BUSERR \in d'.raised) =>
       LET w  == Head(prog)
           da == w.op \in {"da", "special"}
           x  == IF w.op = "da" THEN w.x ELSE Acc(0)      \* a special has no X
           y  == IF da THEN w.y ELSE Acc(0)
           d1 == DaReadMoves(d, x, 4)
           d2 == DaReadMoves(d1, y, IF w.op = "da" THEN 4 ELSE ReadSize(w.g))
       IN  /\ d'.mem = d.mem /\ d'.cau = d.cau
           /\ IF ~da \/ DaReadFaults(d, x) \/ DaReadFaults(d1, y)
              THEN /\ d'.r = IF DaReadFaults(d, x) THEN d.r ELSE d1.r
                   /\ d'.a = d.a /\ d'.dau = d.dau /\ d'.ctr = d.ctr
              ELSE d' = Raise(Executed(d, Unstored(w)), BUSERR) /\ d'.r = d2.r]_vars

-----------------------------------------------------------------------------
\* After a subtraction or comparison the conditions compare the operands, as
\* signed and as unsigned numbers of the operation's width; after a logical
\* operation, a shift or a load they compare the result with zero.
ConditionsCompare ==
  [][prog # <<>> /\ BUSERR \notin d'.raised =>
       LET w == Head(prog) IN
       CASE w.op = "alu" /\ w.rd \in RegNo /\ CondEval(d.cau, d.flagPipe[3], w.c) /\ w.f # "res5" ->
              LET h == WordH(w.short)
                  a == Opval(d, w.rs1)
                  b == AluOperand(d, w)
                  r == Opval(d', w.rd)
              IN CASE w.f \in {"sub", "cmp"} -> Compares(d'.cau, d'.dau, a, b, h)
                   [] w.f = "rsub" -> Compares(d'.cau, d'.dau, b, a, h)
                   [] w.f \in {"add", "cradd", "rol", "ror", "btst"} -> TRUE
                   [] OTHER -> Compares(d'.cau, d'.dau, r, 0, h)
         [] w.op = "load" /\ w.rh \in RegNo -> Compares(d'.cau, d'.dau, d'.r[w.rh], 0, LongH)
         [] OTHER -> TRUE]_vars

\* With the carry, an addition or a rotation to the left is exact; overflow says
\* when the signed sum is not.
SumsAreExact ==
  [][Completes("alu") /\ Head(prog).rd \in RegNo /\ CondEval(d.cau, d.flagPipe[3], Head(prog).c) =>
       LET w == Head(prog)
           h == WordH(w.short)
           a == Opval(d, w.rs1)
           r == Low(d'.r[w.rd], h)
       IN  CASE w.f = "add" -> Adds(d'.cau, r, a, AluOperand(d, w), 0, h)
             [] w.f = "rol" -> Adds(d'.cau, r, a, a, IF d.cau.c THEN 1 ELSE 0, h)
             [] OTHER -> TRUE]_vars

AluReg(f, short, rd, rs1, rs2, c) ==
  [op |-> "alu", f |-> f, short |-> short, rd |-> rd, rs1 |-> rs1, rs2 |-> rs2, c |-> c]

\* Rotations to the left and to the right undo each other, carry included.
RotatesBack ==
  \A short \in BOOLEAN :
    LET rol == AluReg("rol", short, 1, 1, 0, "true")
        ror == AluReg("ror", short, 1, 1, 0, "true")
    IN  Ran(<<rol, ror>>) \/ Ran(<<ror, rol>>) =>
          /\ Low(d.r[1], WordH(short)) = Low(start[1].r[1], WordH(short))
          /\ d.cau.c = start[1].cau.c

\* Adding 2^(k-1) with reverse carry visits a table of 2^k entries in the order
\* of the reversed index: the addressing of a radix-2 FFT.
ReverseCarrySweeps ==
  \A short \in BOOLEAN : \A k \in 1 .. Width(WordH(short)) :
    /\ start[2] = Repeats(AluReg("cradd", short, 1, 1, 2, "true"), Len(start[2]))
    /\ start[1].r[1] = 0 /\ start[1].r[2] = 2 ^ (k - 1)
    => LET r1 == Low(d.r[1], WordH(short)) IN
       r1 < 2 ^ k /\ \A i \in 0 .. k - 1 :
                       (r1 \div 2 ^ i) % 2 = (Done \div 2 ^ (k - 1 - i)) % 2

LoadWord(w, rh, rp, ri) == [op |-> "load", w |-> w, rh |-> rh, direct |-> FALSE, rp |-> rp, ri |-> ri]
StoreDirect(w, rh, x) ==
  [op |-> "store", w |-> w, rh |-> rh, direct |-> TRUE, x |-> x, rp |-> 0, ri |-> 0]

\* A register carries a datum of any type from memory to memory, also when it
\* is the pointer it is loaded through and moves at the same time.
MovesCarry ==
  \A w \in {"byte", "char", "hbyte", "ushort", "short", "long"}, rh \in {1, 2}, ri \in {0, 22, 23} :
    Ran(<<LoadWord(w, rh, 1, ri), StoreDirect(w, rh, 4)>>) =>
      d.mem[4] = start[1].mem[start[1].r[1]] % 2 ^ WBits(w)
=============================================================================
