---------------------------- MODULE MCRoundTrip ----------------------------
(***************************************************************************)
(* Instances of RoundTrip for TLC: every format, with fields that contain  *)
(* each special code, at widths of 4, 6 and 8 bits for 16, 24 and 32.      *)
(***************************************************************************)
EXTENDS RoundTripMeaning, Bitwise, TLC

MCBitAnd(a, b) == a & b

MCAccNo == {0, 1}
MCRegNo == {1, 2, 15, 17, 25, 30}

N16 == 0 .. 2 * Half - 1
N24 == 0 .. Far - 1
Rs  == {0, 1, 15, 16, 22, 23, 25, 30}

Functions == { "add", "shl", "rsub", "cradd", "sub", "res5", "andc", "cmp", "xor", "ror",
               "or", "rol", "shr", "asr", "and", "btst" }
Sizes == {"byte", "char", "short", "hbyte", "long", "reserved"}

AluWords == [op: {"alu"}, f: Functions, short: BOOLEAN, rd: {0, 1, 16, 22, 25}, rs1: Rs,
             rs2: {0, 1, 2, 22, 23, 25, 31}, c: {"true", "eq"}]
CondWords == [op: {"alu"}, f: {"add", "cmp", "shl"}, short: {FALSE}, rd: {1}, rs1: {0, 1}, rs2: {2, 22, 23},
              c: {"false", "aus", "reserved"}]
ImmWords == [op: {"imm"}, f: Functions, short: BOOLEAN, rd: {0, 1, 22, 25, 27}, n: N16]
Add3Words == [op: {"add3"}, short: BOOLEAN, rd: {0, 1, 25, 28}, rs3: Rs, n: N16]

BranchWords == [op: {"if"}, c: {"true", "false", "eq", "reserved"}, rb: Rs, n: N16]
LinkWords   == [op: {"loop", "call"}, rm: {1, 22, 29}, rb: Rs, n: N16]
FarWords    == [op: {"goto24"}, rb: Rs, n: N24]
FarCalls    == [op: {"call24"}, rm: {1, 30, 31}, n: N24]
WideWords   == [op: {"set24"}, rd: {1, 15, 16}, n: N24]
ShiftOrWords == [op: {"shiftor"}, rd: {1, 16}, rs: {0, 22}, n: N16]

DoWords == [op: {"do"}, b: BOOLEAN, m: BOOLEAN, k: {0, 1, 127}, isreg: BOOLEAN, l: {0, 1, 16, 23}]

MemMoves == [op: {"load", "store"}, w: Sizes, rh: {0, 1, 16}, direct: {FALSE}, x: {0},
             rp: {0, 1, 22, 27}, ri: {0, 2, 15, 22, 23, 31}]
DirMoves == [op: {"load", "store"}, w: Sizes, rh: {0, 1, 16}, direct: {TRUE}, x: N16, rp: {0}, ri: {0}]
IorMoves == [op: {"iormove"}, store: BOOLEAN, w: Sizes, rh: {0, 1, 16}, ior: {0, 5, 10, 14}]
IorMems  == [op: {"iormem"}, store: BOOLEAN, w: Sizes, ior: {0, 5, 10}, rp: {1, 22, 29}, ri: {0, 2, 22, 23}]

Bad   == [op: {"reserved"}]
Acc(n) == [p |-> 0, i |-> n]
Mem(p) == {[p |-> p, i |-> i] : i \in {0, 1, 6, 7}}
XField == {Acc(0), Acc(1), [p |-> 1, i |-> 0], [p |-> 2, i |-> 7], [p |-> 15, i |-> 0]}
YField == {Acc(0), Acc(1), Acc(5), [p |-> 15, i |-> 7]} \cup Mem(1) \cup Mem(2)
ZField == {Acc(3), Acc(7), [p |-> 1, i |-> 0], [p |-> 1, i |-> 1], [p |-> 1, i |-> 7], [p |-> 2, i |-> 6],
           [p |-> 15, i |-> 0], [p |-> 15, i |-> 1], [p |-> 15, i |-> 7]}

DaWords(fmt, ms) == [op: {"da"}, fmt: {fmt}, m: ms, fs: BOOLEAN, ss: BOOLEAN, n: {1},
                     x: XField, y: YField, z: ZField]
Specials == [op: {"special"}, g: {"oc", "int16", "round", "ifalt", "seed", "reserved"}, n: {1},
             y: YField, z: ZField]

MCWords == << AluWords, CondWords, ImmWords, Add3Words, BranchWords, LinkWords, FarWords, FarCalls, WideWords,
              ShiftOrWords, DoWords, MemMoves, DirMoves, IorMoves, IorMems, Bad,
              DaWords(1, {0, 1, 4, 5, 6}), DaWords(2, {0, 4, 5}), DaWords(3, {0, 1, 4, 5}), Specials >>

-----------------------------------------------------------------------------
NoFlags == [N |-> FALSE, Z |-> FALSE, U |-> FALSE, V |-> FALSE]
A0 == [m |-> 150, e |-> 8]
A1 == [m |-> -250, e |-> 7]
Older == [n \in AccNo |-> IF n = 0 THEN A1 ELSE [m |-> 200, e |-> 9]]

Idle == [ r |-> [c \in RegNo |-> 4], a |-> (0 :> A0 @@ 1 :> A1), aPipe |-> <<Older, Older, Older>>,
          dau |-> NoFlags, flagPipe |-> <<NoFlags, NoFlags, NoFlags, NoFlags>>,
          cau |-> [n |-> FALSE, z |-> FALSE, v |-> FALSE, c |-> FALSE], ctr |-> 0,
          dauc |-> [rnd |-> 0, inp |-> "linear", out |-> "linear", cond |-> FALSE],
          mem |-> [x \in {4, 8, 12, 16} |-> [m |-> x, e |-> 8]], raised |-> {}, taken |-> FALSE ]

MCData ==
  [ ca |-> { [Idle EXCEPT !.r[1] = v, !.r[25] = v, !.r[2] = u, !.cau.c = c, !.cau.z = c] :
             v \in {0, 1, 127, 128, 255}, u \in {3, 136}, c \in BOOLEAN },
    da |-> { [Idle EXCEPT !.r[1] = x, !.r[2] = 12, !.dau.N = c, !.dauc.cond = TRUE] :
             x \in {4, 8}, c \in BOOLEAN } ]

\* The words of one sort of alias.
InPlace == << DaWords(3, {0}) >>
=============================================================================
