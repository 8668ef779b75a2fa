----------------------------- MODULE DauExact -----------------------------
(***************************************************************************)
(* The arithmetic of the exact DAU, at any width.  An accumulator [m, e]   *)
(* stands for m * 2^(e - Bias - ScAcc), with the implicit bit in m; e = 0  *)
(* is zero whatever m is.  A memory word [m, e] holds the mantissa without *)
(* its implicit bit.  Pack, unpack and the int lane insert and remove it.  *)
(***************************************************************************)
EXTENDS Integers

CONSTANTS
  FracBits,     \* fraction bits of a memory word's mantissa: 23
  GuardBits,    \* guard bits of an accumulator: 8
  ExpBits,      \* exponent bits: 8
  HalfBits,     \* width of a short integer: 16
  ByteBits,     \* width of a byte: 8
  CodeBits,     \* mantissa bits of a companded byte: 4
  AlawMask,     \* what an A-law byte is inverted with: 16#D5
  Reach,        \* the longest alignment shift of the adder: 62
  BitAnd(_, _)  \* the operator & of C on unsigned integers

ScAcc   == FracBits + GuardBits
ScMul   == 2 * FracBits
IntBits == ScAcc + 1
Bias    == 2 ^ (ExpBits - 1)
MaxExp  == 2 ^ ExpBits - 1

ASSUME WidthAssumption ==
  /\ FracBits \in Nat /\ GuardBits \in Nat /\ FracBits >= GuardBits
  /\ ExpBits \in 1..IntBits /\ 2 ^ (ExpBits - 1) > FracBits + GuardBits
  /\ {CodeBits, ByteBits, HalfBits, Reach} \subseteq Nat
  /\ CodeBits < ByteBits /\ 2 * ByteBits <= IntBits /\ ByteBits < HalfBits /\ HalfBits < IntBits
  /\ Reach \in 2 * FracBits + 2 .. 3 * IntBits
  /\ AlawMask \in 0 .. 2 ^ ByteBits - 1 /\ CodeBits + 2 ^ (ByteBits - 1 - CodeBits) < ScAcc

Zero     == [m |-> 0, e |-> 0]
Largest  == [m |-> 2 ^ (ScAcc + 1) - 1, e |-> MaxExp]
Smallest == [m |-> -(2 ^ (ScAcc + 1)), e |-> MaxExp]

\* m * 2^k, truncated downwards.
Scaled(m, k) == IF k >= 0 THEN m * 2 ^ k ELSE m \div 2 ^ (-k)

\* M in [1,2) or [-2,-1): -1 itself is not normal.
NormalMinusOne(m, sc) == m \in 2 ^ sc .. 2 ^ (sc + 1) - 1 \/ m \in -(2 ^ (sc + 1)) + 1 .. -(2 ^ sc)    \* for a mutant
Normal(m, sc) == m \in 2 ^ sc .. 2 ^ (sc + 1) - 1 \/ m \in -(2 ^ (sc + 1)) .. -(2 ^ sc) - 1

NormAtMinusOne(m, e, sc) ==    \* mutant: -1 is left as it is
  IF m = 0 THEN Zero
  ELSE LET k == CHOOSE k \in -(ScMul + 4) .. ScMul + 1 : NormalMinusOne(Scaled(m, k), sc)
       IN  [m |-> Scaled(m, k), e |-> e - k]
NormAt(m, e, sc) ==
  IF m = 0 THEN Zero
  ELSE LET k == CHOOSE k \in -(ScMul + 4) .. ScMul + 1 : Normal(Scaled(m, k), sc)
       IN  [m |-> Scaled(m, k), e |-> e - k]

\* The law of powers of two, up to the widest number and the longest shift.
PowerLaw(n) == \A j \in 0..n : \A k \in 0 .. n - j : 2 ^ j \in Nat \ {0} /\ 2 ^ (j + k) = 2 ^ j * 2 ^ k
ASSUME PowersAssumption == PowerLaw(4 * IntBits) /\ PowerLaw(3 * Bias + ScMul)

\* The operators | and ^ by way of &.
BitOr(a, b)  == a + b - BitAnd(a, b)
BitXor(a, b) == a + b - 2 * BitAnd(a, b)

ASSUME BitAssumption ==
  \A a, b \in 0 .. 2 ^ IntBits - 1 :
    /\ BitAnd(a, b) \in 0..a /\ BitAnd(a, b) <= b
    /\ BitOr(a, b) < 2 ^ IntBits

-----------------------------------------------------------------------------
(* Words, accumulators, and the integer in an accumulator's upper bits *)

Implicit(m, sc) == IF m < 0 THEN -(2 ^ sc) ELSE 2 ^ sc
Mant24Full(w)   == w.m + Implicit(w.m, FracBits)

AccUnpack(w) ==
  IF w.e = 0 THEN Zero ELSE [m |-> Mant24Full(w) * 2 ^ GuardBits, e |-> w.e]

AccPack(a) ==
  LET m24 == a.m \div 2 ^ GuardBits IN
  IF a.e = 0 \/ a.m = 0 THEN Zero
  ELSE [m |-> m24 - Implicit(m24, FracBits), e |-> a.e % 2 ^ ExpBits]

\* Bits 39-8, as a signed integer.
LaneOf(a) == IF a.e = 0 THEN 0 ELSE a.m - Implicit(a.m, ScAcc)

\* acc_int_lane(): the exponent is left from the adder's input.
IntLaneShifted(v, adder) == [m |-> 2 * v + Implicit(v, ScAcc), e |-> adder.e]    \* mutant
IntLane(v, adder) == [m |-> v + Implicit(v, ScAcc), e |-> adder.e]

\* The upper bits of a lane, and an integer moved up to them.
TopBits(v, n)   == (v % 2 ^ IntBits) \div 2 ^ (IntBits - n)
Sext(v, n)      == IF v >= 2 ^ (n - 1) THEN v - 2 ^ n ELSE v
ToTop(v, n)     == Sext((v * 2 ^ (IntBits - n)) % 2 ^ IntBits, IntBits)

\* What memory holds, and what accumulators do: normalised and within range.
FloatWord == [m: -(2 ^ FracBits) .. 2 ^ FracBits - 1, e: 0..MaxExp]
IeeeWord  == [s: BOOLEAN, x: 0..MaxExp, f: 0 .. 2 ^ FracBits - 1]
IsAcc(a)  == a \in [m: Int, e: 0..MaxExp] /\ (a.e # 0 => Normal(a.m, ScAcc))

-----------------------------------------------------------------------------
(* Multiplier and adder *)

DauMul(x, y) ==
  IF x.e = 0 \/ y.e = 0 THEN Zero
  ELSE [m |-> Mant24Full(x) * Mant24Full(y), e |-> x.e + y.e - Bias]

\* The addend with the smaller exponent is truncated to the scale of the other.
AlignedToZero(m, d) == IF d > Reach THEN 0 ELSE IF m < 0 THEN -((-m) \div 2 ^ d) ELSE m \div 2 ^ d    \* mutant
Aligned(m, d) == IF d > Reach THEN 0 ELSE m \div 2 ^ d

DauAdd(s, p) ==
  LET sm  == IF s.e = 0 THEN 0 ELSE s.m * 2 ^ (ScMul - ScAcc)
      sum == IF sm = 0 THEN p
             ELSE IF p.m = 0 THEN [m |-> sm, e |-> s.e]
             ELSE IF s.e >= p.e THEN [m |-> sm + Aligned(p.m, s.e - p.e), e |-> s.e]
             ELSE [m |-> p.m + Aligned(sm, p.e - s.e), e |-> p.e]
      r   == NormAt(sum.m, sum.e, ScMul)
  IN  IF r.m = 0 THEN Zero ELSE NormAt(Scaled(r.m, ScAcc - ScMul), r.e, ScAcc)

AccNegate(a) == IF a.e = 0 THEN a ELSE NormAt(-a.m, a.e, ScAcc)

AccRoundDown(a) ==    \* mutant: ties go down
  IF a.e = 0 THEN a
  ELSE NormAt(((a.m + 2 ^ GuardBits \div 2 - 1) \div 2 ^ GuardBits) * 2 ^ GuardBits, a.e, ScAcc)
AccRound(a) ==
  IF a.e = 0 THEN a
  ELSE NormAt(((a.m + 2 ^ GuardBits \div 2) \div 2 ^ GuardBits) * 2 ^ GuardBits, a.e, ScAcc)

-----------------------------------------------------------------------------
(* Integers *)

AccFromI64(v) == IF v = 0 THEN Zero ELSE NormAt(v, Bias + ScAcc, ScAcc)

\* The range of an integer result of n bits; a byte is unsigned.
IntMin(n) == IF n = ByteBits THEN 0 ELSE -(2 ^ (n - 1))
IntMax(n) == IF n = ByteBits THEN 2 ^ n - 1 ELSE 2 ^ (n - 1) - 1
Clamp(i, n) == IF i < IntMin(n) THEN IntMin(n) ELSE IF i > IntMax(n) THEN IntMax(n) ELSE i

\* m / 2^sh by the rounding mode dauc[5:4]: nearest with ties up when it is
\* even, down when it is 1, towards zero when it is 3.
Rounded(m, sh, mode) ==
  LET floor == m \div 2 ^ sh IN
  CASE mode \in {0, 2} -> floor + ((m \div 2 ^ (sh - 1)) % 2)
    [] mode = 1 -> floor
    [] mode = 3 -> IF m < 0 /\ m % 2 ^ sh # 0 THEN floor + 1 ELSE floor

\* The code saturates outright above a shift of 24; that a result of any
\* larger shift is out of range is all that says.
AccToInt(a, mode, n) ==
  LET shift == a.e - Bias - ScAcc IN
  IF a.e = 0 THEN 0
  ELSE IF shift >= 0 THEN Clamp(a.m * 2 ^ shift, n)
  ELSE IF -shift > Reach + 1 THEN IF mode = 1 /\ a.m < 0 THEN Clamp(-1, n) ELSE 0
  ELSE Clamp(Rounded(a.m, -shift, mode), n)

-----------------------------------------------------------------------------
(* IEEE single: sign, exponent with a bias of Bias - 1, FracBits of fraction *)

AccToIeee(a) ==
  LET sg == a.m < 0
      m  == IF a.m = Smallest.m THEN 2 ^ ScAcc ELSE IF sg THEN -a.m ELSE a.m
      e  == (IF a.m = Smallest.m THEN a.e + 1 ELSE a.e) - 1
  IN  IF a.e = 0 \/ a.m = 0 THEN [s |-> FALSE, x |-> 0, f |-> 0]
      ELSE IF e >= MaxExp THEN [s |-> sg, x |-> MaxExp, f |-> 0]
      ELSE IF e <= 0 THEN [s |-> sg, x |-> 0, f |-> 0]
      ELSE [s |-> sg, x |-> e, f |-> (m - 2 ^ ScAcc) \div 2 ^ GuardBits]

AccFromIeeeUnnormal(w) ==    \* mutant: a negative power of two is left as -1
  LET m == 2 ^ ScAcc + w.f * 2 ^ GuardBits IN
  IF w.x = 0 THEN Zero ELSE [m |-> IF w.s THEN -m ELSE m, e |-> w.x + 1]
AccFromIeee(w) ==
  LET m == 2 ^ ScAcc + w.f * 2 ^ GuardBits
      r == IF w.s THEN NormAt(-m, w.x + 1, ScAcc) ELSE [m |-> m, e |-> w.x + 1]
  IN  IF w.x = 0 THEN Zero
      ELSE IF r.e > MaxExp THEN IF w.s THEN Smallest ELSE Largest
      ELSE IF r.e < 1 THEN Zero ELSE r

-----------------------------------------------------------------------------
(* Companded bytes: the decoders return twice the value *)

Code == 0 .. 2 ^ ByteBits - 1

MulawDecode2x(b) ==
  LET u == 2 ^ ByteBits - 1 - b
      M == u % 2 ^ CodeBits
      N == (u \div 2 ^ CodeBits) % 2 ^ (ByteBits - 1 - CodeBits)
      y == (2 ^ (CodeBits + 1) + 1 + 2 * M) * 2 ^ N - (2 ^ (CodeBits + 1) + 1)
  IN  IF u >= 2 ^ (ByteBits - 1) THEN -y ELSE y

AlawDecode2x(b) ==
  LET u == BitXor(b, AlawMask)
      M == u % 2 ^ CodeBits
      N == (u \div 2 ^ CodeBits) % 2 ^ (ByteBits - 1 - CodeBits)
      y == IF N = 0 THEN (1 + 2 * M) * 2 ELSE (2 ^ (CodeBits + 1) + 1 + 2 * M) * 2 ^ N
  IN  IF u >= 2 ^ (ByteBits - 1) THEN -y ELSE y

Decode2x(law, b) == IF law = "alaw" THEN AlawDecode2x(b) ELSE MulawDecode2x(b)

\* The first of the codes nearest to twice the value.
CompandedEncodeUndoubled(a, law) ==    \* mutant: compared with the value, not twice the value
  LET v2 == AccToInt(a, 0, IntBits)
      dist(b) == IF Decode2x(law, b) >= v2 THEN Decode2x(law, b) - v2 ELSE v2 - Decode2x(law, b)
  IN  CHOOSE b \in Code : \A c \in Code : dist(b) < dist(c) \/ (dist(b) = dist(c) /\ b <= c)
CompandedEncode(a, law) ==
  LET v2 == AccToInt([a EXCEPT !.e = IF @ = 0 THEN 0 ELSE @ + 1], 0, IntBits)
      dist(b) == IF Decode2x(law, b) >= v2 THEN Decode2x(law, b) - v2 ELSE v2 - Decode2x(law, b)
  IN  CHOOSE b \in Code : \A c \in Code : dist(b) < dist(c) \/ (dist(b) = dist(c) /\ b <= c)
=============================================================================
