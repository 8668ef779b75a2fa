-------------------------- MODULE ArithmeticProofs --------------------------
(***************************************************************************)
(* What the flags of the CAU's adder mean, for words of every width, and   *)
(* that the exact DAU's operations yield numbers of its own format, for    *)
(* all widths of mantissas and exponents.                                  *)
(***************************************************************************)
EXTENDS CauArith, DauExact, WellFoundedInduction, NaturalsInduction, TLAPS

\* Reducing a number to a width: the cases the adder meets.
LEMMA LowRange ==
  ASSUME NEW h \in Nat \ {0}, NEW x \in Int
  PROVE  Low(x, h) \in 0..2 * h - 1
BY SMT DEF Low

LEMMA LowCases ==
  ASSUME NEW h \in Nat \ {0}, NEW x \in -(2 * h)..4 * h - 1
  PROVE  Low(x, h) = IF x < 0 THEN x + 2 * h ELSE IF x < 2 * h THEN x ELSE x - 2 * h
<1>1. CASE x < 0
  <2>1. x + 2 * h \in 0..2 * h - 1  BY <1>1
  <2>2. x = (2 * h) * (-1) + (x + 2 * h)  OBVIOUS
  <2> QED  BY <1>1, <2>1, <2>2, SMT DEF Low
<1>2. CASE 0 <= x /\ x < 2 * h
  BY <1>2, SMT DEF Low
<1>3. CASE x >= 2 * h
  <2>1. x - 2 * h \in 0..2 * h - 1  BY <1>3
  <2>2. x = (2 * h) * 1 + (x - 2 * h)  OBVIOUS
  <2> QED  BY <1>3, <2>1, <2>2, SMT DEF Low
<1> QED  BY <1>1, <1>2, <1>3

\* After a comparison, and after any subtraction, the conditional branches
\* decide as the signed or unsigned order of the operands does, for short and
\* long words alike (alu_sub, cond_eval).
THEOREM ComparisonsDecide ==
  ASSUME NEW h \in Nat \ {0}, NEW a \in Int, NEW b \in Int, NEW d
  PROVE  Compares(AluSub(a, b, h).f, d, a, b, h)
<1> DEFINE ua == Low(a, h)
           ub == Low(b, h)
           f  == AluSub(a, b, h).f
<1>1. ua \in 0..2 * h - 1 /\ ub \in 0..2 * h - 1
  BY LowRange
<1>2. Low(ua, h) = ua /\ Low(ub, h) = ub
  BY <1>1, LowCases
<1>3. Low(ua - ub, h) = IF ua < ub THEN ua - ub + 2 * h ELSE ua - ub
  BY <1>1, LowCases
<1>4. /\ f.n = (Low(ua - ub, h) >= h)
      /\ f.z = (Low(ua - ub, h) = 0)
      /\ f.v = ((ua >= h) # (ub >= h) /\ (ua >= h) # (Low(ua - ub, h) >= h))
      /\ f.c = (ua < ub)
  BY <1>2 DEF AluSub, Sign
<1>5. /\ CondEval(f, d, "eq") <=> f.z
      /\ CondEval(f, d, "ne") <=> ~f.z
      /\ CondEval(f, d, "lt") <=> f.n # f.v
      /\ CondEval(f, d, "ge") <=> f.n = f.v
      /\ CondEval(f, d, "gt") <=> ~(f.z \/ f.n # f.v)
      /\ CondEval(f, d, "le") <=> f.z \/ f.n # f.v
      /\ CondEval(f, d, "cs") <=> f.c
      /\ CondEval(f, d, "cc") <=> ~f.c
      /\ CondEval(f, d, "hi") <=> ~(f.c \/ f.z)
      /\ CondEval(f, d, "ls") <=> f.c \/ f.z
  <2> HIDE DEF f
  <2> QED  BY DEF CondEval
<1>6. /\ f.z <=> ua = ub
      /\ f.c <=> ua < ub
      /\ f.n # f.v <=> Signed(a, h) < Signed(b, h)
  <2> HIDE DEF f, ua, ub
  <2>1. Signed(a, h) = IF ua >= h THEN ua - 2 * h ELSE ua
    BY DEF Signed, Sign, ua
  <2>2. Signed(b, h) = IF ub >= h THEN ub - 2 * h ELSE ub
    BY DEF Signed, Sign, ub
  <2>3. f.n # f.v <=> (Low(ua - ub, h) >= h) # ((ua >= h) # (ub >= h)
                                                  /\ (ua >= h) # (Low(ua - ub, h) >= h))
    BY <1>4, Zenon
  <2>4. f.z <=> Low(ua - ub, h) = 0
    BY <1>4, Zenon
  <2>5. f.c <=> ua < ub
    BY <1>4, Zenon
  <2> QED  BY <1>1, <1>3, <2>1, <2>2, <2>3, <2>4, <2>5
<1>7. Signed(a, h) \in Int /\ Signed(b, h) \in Int /\ (Signed(a, h) = Signed(b, h) <=> ua = ub)
  BY <1>1 DEF Signed, Sign
<1> QED
  <2> SUFFICES Compares(f, d, a, b, h)
    OBVIOUS
  <2> HIDE DEF f
  <2> QED  BY <1>1, <1>5, <1>6, <1>7 DEF Compares

\* The carry and the overflow flag of an addition say by how much its result
\* falls short of the unsigned sum, and whether it is the signed one (alu_add).
THEOREM AdditionsAreExact ==
  ASSUME NEW h \in Nat \ {0}, NEW a \in Int, NEW b \in Int, NEW cin \in {0, 1}
  PROVE  LET s == AluAdd(a, b, cin, h) IN Adds(s.f, s.res, a, b, cin, h)
<1> DEFINE ua == Low(a, h)
           ub == Low(b, h)
           s  == AluAdd(a, b, cin, h)
<1>1. ua \in 0..2 * h - 1 /\ ub \in 0..2 * h - 1
  BY LowRange
<1>2. Low(ua, h) = ua /\ Low(ub, h) = ub
  BY <1>1, LowCases
<1>3. Low(ua + ub + cin, h) = IF ua + ub + cin < 2 * h THEN ua + ub + cin
                              ELSE ua + ub + cin - 2 * h
  BY <1>1, LowCases
<1>4. /\ s.res = Low(ua + ub + cin, h)
      /\ s.f.v <=> (ua >= h) = (ub >= h) /\ (ua >= h) # (Low(ua + ub + cin, h) >= h)
      /\ s.f.c <=> ua + ub + cin >= 2 * h
  BY <1>2 DEF AluAdd, Sign
<1>5. s.res \in 0..2 * h - 1 /\ Low(s.res, h) = s.res
  BY <1>1, <1>3, <1>4, LowCases
<1> QED
  BY <1>1, <1>3, <1>4, <1>5 DEF Adds, Signed, Sign

-----------------------------------------------------------------------------
(* Numbers.  The provers know nothing of powers: PowersAssumption is what is *)
(* used of them.                                                            *)

LEMMA Powers ==
  ASSUME NEW j \in 0 .. 4 * IntBits, NEW k \in 0 .. 4 * IntBits, j + k <= 4 * IntBits
  PROVE  2 ^ j \in Nat \ {0} /\ 2 ^ k \in Nat \ {0} /\ 2 ^ (j + k) = 2 ^ j * 2 ^ k
<1>1. IntBits \in Nat
  BY WidthAssumption DEF IntBits, ScAcc
<1>2. j \in 0 .. 4 * IntBits - k /\ k \in 0 .. 4 * IntBits - j /\ 0 \in 0 .. 4 * IntBits - k
  BY <1>1
<1> QED  BY <1>2, PowersAssumption, Zenon DEF PowerLaw

LEMMA Times ==
  ASSUME NEW x \in Nat \ {0}, NEW y \in Nat \ {0}
  PROVE  x * y \in Nat \ {0} /\ x <= x * y /\ y <= x * y
<1>1. x * y = x + x * (y - 1) /\ x * (y - 1) \in Nat
  OBVIOUS
<1>2. x * y = y + (x - 1) * y /\ (x - 1) * y \in Nat
  OBVIOUS
<1> QED  BY <1>1, <1>2

LEMMA Least ==
  ASSUME NEW T, T \subseteq Nat, T # {}
  PROVE  \E x \in T : \A y \in T : x <= y
<1>1. IsWellFoundedOn(OpToRel(<, Nat), Nat)
  BY NatLessThanWellFounded
<1>2. PICK x \in T : \A y \in T : ~(<<y, x>> \in OpToRel(<, Nat))
  BY <1>1, WFMin, Zenon
<1>3. \A y \in T : <<y, x>> \in OpToRel(<, Nat) <=> y < x
  BY DEF OpToRel
<1>4. \A y \in T : ~(y < x)
  BY <1>2, <1>3, Zenon
<1>5. \A y \in T : y \in Nat
  OBVIOUS
<1> QED  BY <1>4, <1>5

LEMMA MulMono ==
  ASSUME NEW a \in Int, NEW b \in Int, NEW k \in Nat, a <= b
  PROVE  a * k <= b * k /\ a * k \in Int /\ b * k \in Int
<1>1. b * k - a * k = (b - a) * k /\ (b - a) * k \in Nat
  OBVIOUS
<1> QED  BY <1>1

LEMMA DivSpec ==
  ASSUME NEW x \in Int, NEW k \in Nat \ {0}
  PROVE  x \div k \in Int /\ (x \div k) * k <= x /\ x < ((x \div k) + 1) * k
<1>1. x \div k \in Int /\ x % k \in 0 .. k - 1 /\ x = k * (x \div k) + (x % k)
  OBVIOUS
<1>2. ((x \div k) + 1) * k = k * (x \div k) + k
  BY <1>1
<1> QED  BY <1>1, <1>2

\* A quotient, rounded downwards, against a bound.
LEMMA DivAtLeast ==
  ASSUME NEW x \in Int, NEW k \in Nat \ {0}, NEW y \in Int
  PROVE  y <= x \div k <=> y * k <= x
<1> DEFINE q == x \div k
<1>1. q \in Int /\ q * k <= x /\ x < (q + 1) * k
  BY DivSpec
<1> HIDE DEF q
<1>2. CASE y <= q
  BY <1>1, <1>2, MulMono
<1>3. CASE q + 1 <= y
  BY <1>1, <1>3, MulMono
<1> QED  BY <1>1, <1>2, <1>3 DEF q

-----------------------------------------------------------------------------
(* The widths of the DAU *)

LEMMA DauWidths ==
  /\ FracBits \in Nat \ {0} /\ GuardBits \in 0..FracBits
  /\ ScAcc = FracBits + GuardBits /\ ScMul = 2 * FracBits /\ IntBits = ScAcc + 1
  /\ Bias \in Nat /\ ScAcc < Bias /\ 2 ^ ExpBits = 2 * Bias /\ MaxExp = 2 * Bias - 1
<1>1. /\ FracBits \in Nat \ {0} /\ GuardBits \in 0..FracBits
      /\ ScAcc = FracBits + GuardBits /\ ScMul = 2 * FracBits /\ IntBits = ScAcc + 1
  BY WidthAssumption DEF IntBits, ScAcc, ScMul
<1>2. /\ ExpBits \in 1..IntBits /\ 2 ^ (ExpBits - 1) > ScAcc
  BY WidthAssumption DEF ScAcc
<1>3. /\ ExpBits - 1 \in 0 .. 4 * IntBits /\ 1 \in 0 .. 4 * IntBits
      /\ (ExpBits - 1) + 1 <= 4 * IntBits /\ (ExpBits - 1) + 1 = ExpBits
  BY <1>1, <1>2
<1>4. 2 ^ (ExpBits - 1) \in Nat \ {0} /\ 2 ^ ((ExpBits - 1) + 1) = 2 ^ (ExpBits - 1) * 2 ^ 1
  BY <1>3, Powers
<1> QED  BY <1>1, <1>2, <1>3, <1>4 DEF Bias, MaxExp

\* Two powers of two, by whatever law they are powers.
LEMMA LawRises ==
  ASSUME NEW n \in Nat, PowerLaw(n), NEW j \in 0..n, NEW k \in 0..n, j <= k
  PROVE  /\ 2 ^ j \in Nat \ {0} /\ 2 ^ k \in Nat \ {0} /\ 2 ^ j <= 2 ^ k
         /\ 2 ^ k = 2 ^ (k - j) * 2 ^ j /\ 2 ^ (k - j) \in Nat \ {0}
         /\ j < k => 2 * 2 ^ j <= 2 ^ k
<1>1. \A x \in 0..n : \A y \in 0 .. n - x : 2 ^ x \in Nat \ {0} /\ 2 ^ (x + y) = 2 ^ x * 2 ^ y
  BY Zenon DEF PowerLaw
<1>2. k - j \in 0..n /\ j \in 0 .. n - (k - j) /\ 0 \in 0 .. n - j /\ (k - j) + j = k
  OBVIOUS
<1>3. 2 ^ (k - j) \in Nat \ {0} /\ 2 ^ j \in Nat \ {0} /\ 2 ^ ((k - j) + j) = 2 ^ (k - j) * 2 ^ j
  BY <1>1, <1>2, Zenon
<1>4. 2 ^ k = 2 ^ (k - j) * 2 ^ j
  BY <1>2, <1>3
<1>5. 2 ^ k \in Nat \ {0} /\ 2 ^ j <= 2 ^ k
  BY <1>3, <1>4, Times
<1>6. ASSUME j < k PROVE 2 * 2 ^ j <= 2 ^ k
  <2> DEFINE i == (k - j) - 1
  <2>1. i \in 0..n /\ 1 \in 0 .. n - i /\ i + 1 = k - j
    BY <1>6
  <2>2. 2 ^ i \in Nat \ {0} /\ 2 ^ (i + 1) = 2 ^ i * 2 ^ 1
    <3> HIDE DEF i
    <3> QED  BY <1>1, <2>1, Zenon
  <2>3. 2 ^ (k - j) = 2 ^ i * 2
    <3>1. 2 ^ 1 = 2
      OBVIOUS
    <3> HIDE DEF i
    <3> QED  BY <2>1, <2>2, <3>1
  <2>4. 2 <= 2 ^ (k - j)
    BY <2>2, <2>3
  <2>5. \A x \in Nat, c \in Nat : 2 <= c => 2 * x <= c * x
    BY MulMono
  <2> QED  BY <1>3, <1>4, <2>4, <2>5
<1> QED  BY <1>3, <1>4, <1>5, <1>6

LEMMA PowersRise ==
  ASSUME NEW j \in 0 .. 4 * IntBits, NEW k \in 0 .. 4 * IntBits, j <= k
  PROVE  /\ 2 ^ j \in Nat \ {0} /\ 2 ^ k \in Nat \ {0} /\ 2 ^ j <= 2 ^ k
         /\ 2 ^ k = 2 ^ (k - j) * 2 ^ j /\ 2 ^ (k - j) \in Nat \ {0}
         /\ j < k => 2 * 2 ^ j <= 2 ^ k
<1> DEFINE n == 4 * IntBits
<1>1. n \in Nat /\ PowerLaw(n) /\ j \in 0..n /\ k \in 0..n
  BY DauWidths, PowersAssumption
<1> HIDE DEF n
<1> QED  BY <1>1, LawRises

\* The exponents of sums reach further than their widths.
FarExp == 3 * Bias + ScMul

LEMMA FarRise ==
  ASSUME NEW j \in 0..FarExp, NEW k \in 0..FarExp, j <= k
  PROVE  /\ 2 ^ j \in Nat \ {0} /\ 2 ^ k \in Nat \ {0} /\ 2 ^ j <= 2 ^ k
         /\ 2 ^ k = 2 ^ (k - j) * 2 ^ j /\ 2 ^ (k - j) \in Nat \ {0}
         /\ j < k => 2 * 2 ^ j <= 2 ^ k
<1>1. FarExp \in Nat /\ PowerLaw(FarExp)
  BY DauWidths, PowersAssumption DEF FarExp
<1> QED  BY <1>1, LawRises

\* The scales a mantissa is normalised to.
Scales == {ScAcc, ScMul}

LEMMA NormalMeans ==
  ASSUME NEW sc \in Scales, NEW m
  PROVE  LET H == 2 ^ sc IN
         /\ sc \in Nat /\ sc <= ScMul /\ H \in Nat \ {0} /\ 2 ^ (sc + 1) = 2 * H
         /\ Normal(m, sc) <=> m \in Int /\ ((H <= m /\ m < 2 * H) \/ (-(2 * H) <= m /\ m < -H))
<1>1. /\ sc \in Nat /\ sc <= ScMul /\ sc \in 0 .. 4 * IntBits /\ 1 \in 0 .. 4 * IntBits
      /\ sc + 1 <= 4 * IntBits
  BY DauWidths DEF Scales
<1>2. 2 ^ sc \in Nat \ {0} /\ 2 ^ (sc + 1) = 2 ^ sc * 2 ^ 1
  BY <1>1, Powers
<1>3. 2 ^ (sc + 1) = 2 * 2 ^ sc
  BY <1>2
<1> DEFINE H == 2 ^ sc
<1>4. Normal(m, sc) <=> m \in H .. 2 * H - 1 \/ m \in -(2 * H) .. -H - 1
  BY <1>3, Zenon DEF Normal
<1> HIDE DEF H
<1>5. H \in Nat \ {0}
  BY <1>2 DEF H
<1>6. m \in H .. 2 * H - 1 \/ m \in -(2 * H) .. -H - 1
        <=> m \in Int /\ ((H <= m /\ m < 2 * H) \/ (-(2 * H) <= m /\ m < -H))
  BY <1>5
<1>7. Normal(m, sc) <=> m \in Int /\ ((H <= m /\ m < 2 * H) \/ (-(2 * H) <= m /\ m < -H))
  BY <1>4, <1>6, Zenon
<1> QED  BY <1>1, <1>3, <1>5, <1>7 DEF H

\* A natural number lies between two powers of two.
LEMMA Bracket ==
  ASSUME NEW n \in Nat \ {0}, NEW b \in 0 .. 4 * IntBits, n < 2 ^ b
  PROVE  \E j \in 1..b : 2 ^ (j - 1) <= n /\ n < 2 ^ j
<1> DEFINE T == {j \in Nat : j <= b /\ n < 2 ^ j}
<1>1. b \in T
  OBVIOUS
<1>2. PICK j \in T : \A y \in T : j <= y
  <2> HIDE DEF T
  <2>1. T \subseteq Nat /\ T # {}
    BY <1>1 DEF T
  <2> QED  BY <2>1, Least, Zenon
<1>3. j \in Nat /\ j <= b /\ n < 2 ^ j
  BY <1>2
<1>4. j # 0
  <2> SUFFICES ASSUME j = 0 PROVE FALSE
    OBVIOUS
  <2>1. n < 2 ^ 0
    BY <1>3
  <2>2. 2 ^ 0 = 1
    OBVIOUS
  <2> QED  BY <2>1, <2>2
<1>5. j - 1 \notin T /\ j - 1 \in Nat
  <2> HIDE DEF T
  <2> QED  BY <1>2, <1>3, <1>4
<1>6. j - 1 \in 0 .. 4 * IntBits /\ j \in 0 .. 4 * IntBits
  BY <1>3, <1>5, DauWidths
<1>7. 2 ^ (j - 1) \in Nat
  BY <1>6, PowersRise
<1>8. ~(n < 2 ^ (j - 1))
  BY <1>3, <1>5
<1> QED  BY <1>3, <1>4, <1>7, <1>8

-----------------------------------------------------------------------------
(* Normalisation *)

LEMMA ScaledInt ==
  ASSUME NEW m \in Int, NEW k \in -(4 * IntBits) .. 4 * IntBits
  PROVE  Scaled(m, k) \in Int
<1>1. CASE k >= 0
  <2>1. k \in 0 .. 4 * IntBits
    BY <1>1, DauWidths
  <2>2. 2 ^ k \in Nat
    BY <2>1, PowersRise
  <2> QED  BY <1>1, <2>2 DEF Scaled
<1>2. CASE k < 0
  <2>1. -k \in 0 .. 4 * IntBits
    BY <1>2, DauWidths
  <2>2. 2 ^ (-k) \in Nat \ {0}
    BY <2>1, PowersRise
  <2> QED  BY <1>2, <2>2, DivSpec DEF Scaled
<1> QED  BY <1>1, <1>2

\* Whatever the mantissa, some shift within norm_at()'s reach normalises it.
LEMMA NormalShift ==
  ASSUME NEW sc \in Scales, NEW m \in Int \ {0}, -(2 ^ (sc + 4)) <= m, m < 2 ^ (sc + 4)
  PROVE  \E k \in -(ScMul + 4) .. ScMul + 1 : Normal(Scaled(m, k), sc)
<1> DEFINE H == 2 ^ sc
           n == IF m > 0 THEN m ELSE -m - 1
<1>1. sc \in Nat /\ sc <= ScMul /\ H \in Nat \ {0} /\ 2 ^ (sc + 1) = 2 * H
  BY NormalMeans, Zenon
<1>2. \A x : x \in Int /\ (H <= x /\ x < 2 * H) => Normal(x, sc)
  BY NormalMeans
<1>3. \A x : x \in Int /\ (-(2 * H) <= x /\ x < -H) => Normal(x, sc)
  BY NormalMeans
<1>4. sc + 4 \in 0 .. 4 * IntBits /\ sc + 1 \in 0 .. 4 * IntBits
  BY <1>1, DauWidths
<1>5. 2 ^ (sc + 4) \in Nat
  BY <1>4, PowersRise
<1>6. n \in Nat /\ n < 2 ^ (sc + 4)
  BY <1>5
<1> HIDE DEF H, n
<1>7. CASE n = 0
  <2>1. m = -1 /\ sc + 1 \in -(ScMul + 4) .. ScMul + 1 /\ sc + 1 >= 0
    BY <1>1, <1>7, DauWidths DEF n
  <2>2. Scaled(m, sc + 1) = -(2 * H)
    BY <1>1, <2>1 DEF Scaled
  <2>3. Normal(Scaled(m, sc + 1), sc)
    BY <1>1, <1>3, <2>2
  <2> QED  BY <2>1, <2>3
<1>8. CASE n # 0
  <2>1. PICK j \in 1 .. sc + 4 : 2 ^ (j - 1) <= n /\ n < 2 ^ j
    BY <1>4, <1>6, <1>8, Bracket
  <2> DEFINE k == sc + 1 - j
             lo == 2 ^ (j - 1)
  <2>2. /\ j - 1 \in 0 .. 4 * IntBits /\ j \in 0 .. 4 * IntBits
        /\ (j - 1) + 1 = j /\ 1 \in 0 .. 4 * IntBits /\ (j - 1) + 1 <= 4 * IntBits
    BY <1>4, <2>1, DauWidths
  <2>3. lo \in Nat \ {0} /\ 2 ^ j = 2 * lo
    <3>1. lo \in Nat \ {0} /\ 2 ^ ((j - 1) + 1) = lo * 2 ^ 1
      BY <2>2, Powers
    <3>2. 2 ^ 1 = 2
      OBVIOUS
    <3> QED  BY <2>2, <3>1, <3>2
  <2>4. lo <= n /\ n < 2 * lo
    BY <2>1, <2>3
  <2>5. k \in -(ScMul + 4) .. ScMul + 1
    BY <1>1, <2>1, DauWidths
  <2>6. (m > 0 /\ lo <= m /\ m < 2 * lo) \/ (m < 0 /\ -(2 * lo) <= m /\ m < -lo)
    BY <2>3, <2>4 DEF n
  <2>7. CASE k >= 0
    <3> DEFINE s == 2 ^ k
    <3>1. j - 1 <= sc /\ sc \in 0 .. 4 * IntBits /\ sc - (j - 1) = k
      BY <1>1, <1>4, <2>1, <2>7, DauWidths
    <3>2. s \in Nat \ {0} /\ H = s * lo
      BY <2>2, <3>1, PowersRise DEF H
    <3>3. Scaled(m, k) = m * s
      BY <2>7 DEF Scaled
    <3> HIDE DEF s, lo, k
    <3>4. m * s \in Int /\ lo * s = H /\ (2 * lo) * s = 2 * H /\ (-lo) * s = -H /\ (-(2 * lo)) * s = -(2 * H)
      BY <2>3, <3>2
    <3>5. CASE m > 0
      <4>1. lo * s <= m * s
        BY <2>3, <2>6, <3>2, <3>5, MulMono
      <4>2. m * s <= (2 * lo - 1) * s /\ (2 * lo - 1) * s = (2 * lo) * s - s
        BY <2>3, <2>6, <3>2, <3>5, MulMono
      <4>3. H <= m * s /\ m * s < 2 * H
        BY <1>1, <3>2, <3>4, <4>1, <4>2
      <4> QED  BY <1>2, <2>5, <3>3, <3>4, <4>3
    <3>6. CASE m < 0
      <4>1. (-(2 * lo)) * s <= m * s
        BY <2>3, <2>6, <3>2, <3>6, MulMono
      <4>2. m * s <= (-lo - 1) * s /\ (-lo - 1) * s = (-lo) * s - s
        BY <2>3, <2>6, <3>2, <3>6, MulMono
      <4>3. -(2 * H) <= m * s /\ m * s < -H
        BY <1>1, <3>2, <3>4, <4>1, <4>2
      <4> QED  BY <1>3, <2>5, <3>3, <3>4, <4>3
    <3> QED  BY <3>5, <3>6
  <2>8. CASE k < 0
    <3> DEFINE s == 2 ^ (-k)
               q == m \div s
    <3>1. sc <= j - 1 /\ sc \in 0 .. 4 * IntBits /\ (j - 1) - sc = -k
      BY <1>1, <1>4, <2>1, <2>8, DauWidths
    <3>2. s \in Nat \ {0} /\ lo = s * H
      BY <2>2, <3>1, PowersRise DEF H
    <3>3. Scaled(m, k) = q
      <4>1. ~(k >= 0)
        BY <2>5, <2>8
      <4> QED  BY <4>1 DEF Scaled
    <3> HIDE DEF s, lo, k
    <3>4. H * s = lo /\ (2 * H) * s = 2 * lo /\ (-H) * s = -lo /\ (-(2 * H)) * s = -(2 * lo)
      BY <1>1, <3>2
    <3>5. q \in Int
      BY <3>2, DivSpec
    <3>6. \A y \in Int : y <= q <=> y * s <= m
      BY <3>2, DivAtLeast
    <3> HIDE DEF q
    <3>7. (H <= q <=> lo <= m) /\ (2 * H <= q <=> 2 * lo <= m)
      BY <1>1, <3>4, <3>6
    <3>8. (-H <= q <=> -lo <= m) /\ (-(2 * H) <= q <=> -(2 * lo) <= m)
      <4>1. -H \in Int /\ -(2 * H) \in Int
        BY <1>1
      <4> QED  BY <3>4, <3>6, <4>1
    <3>9. (H <= q /\ q < 2 * H) \/ (-(2 * H) <= q /\ q < -H)
      BY <1>1, <2>3, <2>6, <3>5, <3>7, <3>8
    <3> QED  BY <1>2, <1>3, <2>5, <3>3, <3>5, <3>9
  <2> QED  BY <2>5, <2>7, <2>8
<1> QED  BY <1>7, <1>8

LEMMA NormAtNormal ==
  ASSUME NEW sc \in Scales, NEW m \in Int, -(2 ^ (sc + 4)) <= m, m < 2 ^ (sc + 4), NEW e \in Int
  PROVE  LET r == NormAt(m, e, sc) IN
         /\ r \in [m: Int, e: Int]
         /\ m = 0 => r = Zero
         /\ m # 0 => /\ Normal(r.m, sc)
                     /\ \E k \in -(ScMul + 4) .. ScMul + 1 : r.m = Scaled(m, k) /\ r.e = e - k
<1>1. CASE m = 0
  BY <1>1 DEF NormAt, Zero
<1>2. CASE m # 0
  <2> DEFINE k == CHOOSE k \in -(ScMul + 4) .. ScMul + 1 : Normal(Scaled(m, k), sc)
  <2>1. k \in -(ScMul + 4) .. ScMul + 1 /\ Normal(Scaled(m, k), sc)
    <3>1. \E x \in -(ScMul + 4) .. ScMul + 1 : Normal(Scaled(m, x), sc)
      BY <1>2, NormalShift
    <3> QED  BY <3>1, Zenon
  <2>2. NormAt(m, e, sc) = [m |-> Scaled(m, k), e |-> e - k]
    BY <1>2 DEF NormAt
  <2> HIDE DEF k
  <2>3. Scaled(m, k) \in Int /\ e - k \in Int
    <3>1. k \in -(4 * IntBits) .. 4 * IntBits /\ k \in Int
      BY <2>1, DauWidths
    <3> QED  BY <3>1, ScaledInt
  <2> QED  BY <1>2, <2>1, <2>2, <2>3
<1> QED  BY <1>1, <1>2

-----------------------------------------------------------------------------
(* Accumulators and memory words *)

\* A result before da_flags() has judged its exponent.
IsSum(a) == a \in [m: Int, e: Int] /\ (a.e # 0 => Normal(a.m, ScAcc))

\* The units of an accumulator, of a memory word and of the guard bits.
LEMMA Units ==
  LET H == 2 ^ ScAcc
      F == 2 ^ FracBits
      g == 2 ^ GuardBits
  IN  /\ H \in Nat \ {0} /\ F \in Nat \ {0} /\ g \in Nat \ {0} /\ H = F * g /\ g <= H /\ F <= H
      /\ 2 ^ (ScAcc + 1) = 2 * H /\ 2 ^ (FracBits + 1) = 2 * F /\ 2 ^ (ScAcc + 4) = 16 * H
      /\ 2 ^ IntBits = 2 * H /\ 2 ^ (IntBits - 1) = H
<1>1. /\ FracBits \in 0 .. 4 * IntBits /\ GuardBits \in 0 .. 4 * IntBits
      /\ FracBits + GuardBits <= 4 * IntBits /\ 1 \in 0 .. 4 * IntBits /\ 4 \in 0 .. 4 * IntBits
      /\ FracBits + 1 <= 4 * IntBits /\ ScAcc + 4 <= 4 * IntBits /\ ScAcc + 1 <= 4 * IntBits
      /\ ScAcc \in 0 .. 4 * IntBits /\ ScAcc = FracBits + GuardBits
  BY DauWidths
<1>2. 2 ^ FracBits \in Nat \ {0} /\ 2 ^ GuardBits \in Nat \ {0} /\ 2 ^ ScAcc = 2 ^ FracBits * 2 ^ GuardBits
  BY <1>1, Powers
<1>3. /\ 2 ^ (FracBits + 1) = 2 ^ FracBits * 2 ^ 1 /\ 2 ^ (ScAcc + 1) = 2 ^ ScAcc * 2 ^ 1
      /\ 2 ^ (ScAcc + 4) = 2 ^ ScAcc * 2 ^ 4
  BY <1>1, Powers
<1>4. 2 ^ 1 = 2 /\ 2 ^ 4 = 16
  OBVIOUS
<1>5. 2 ^ ScAcc \in Nat \ {0} /\ 2 ^ GuardBits <= 2 ^ ScAcc /\ 2 ^ FracBits <= 2 ^ ScAcc
  BY <1>2, Times
<1>6. IntBits = ScAcc + 1 /\ IntBits - 1 = ScAcc
  BY DauWidths
<1> QED  BY <1>2, <1>3, <1>4, <1>5, <1>6

LEMMA AccNormal ==
  ASSUME NEW m
  PROVE  LET H == 2 ^ ScAcc IN
         Normal(m, ScAcc) <=> m \in Int /\ ((H <= m /\ m < 2 * H) \/ (-(2 * H) <= m /\ m < -H))
BY NormalMeans DEF Scales

LEMMA AccIsSum == \A a : IsAcc(a) => IsSum(a)
<1>1. 0..MaxExp \subseteq Int
  OBVIOUS
<1> QED  BY <1>1 DEF IsAcc, IsSum

LEMMA ZeroIsAcc == IsAcc(Zero) /\ Zero \in FloatWord
<1>1. 0 \in 0..MaxExp /\ 0 \in -(2 ^ FracBits) .. 2 ^ FracBits - 1
  BY DauWidths, Units
<1> QED  BY <1>1 DEF IsAcc, Zero, FloatWord

LEMMA Mantissas ==
  ASSUME NEW w \in FloatWord
  PROVE  LET F == 2 ^ FracBits
             x == Mant24Full(w)
         IN  x \in Int /\ ((F <= x /\ x < 2 * F) \/ (-(2 * F) <= x /\ x < -F))
<1>1. w.m \in Int /\ -(2 ^ FracBits) <= w.m /\ w.m < 2 ^ FracBits
  BY Units DEF FloatWord
<1> DEFINE F == 2 ^ FracBits
<1>2. Mant24Full(w) = IF w.m < 0 THEN w.m - F ELSE w.m + F
  BY <1>1, Units DEF Mant24Full, Implicit
<1> QED  BY <1>1, <1>2, Units

LEMMA Unpacked ==
  ASSUME NEW w \in FloatWord
  PROVE  IsAcc(AccUnpack(w))
<1> DEFINE F == 2 ^ FracBits
           g == 2 ^ GuardBits
           H == 2 ^ ScAcc
           x == Mant24Full(w)
<1>1. CASE w.e = 0
  BY <1>1, ZeroIsAcc DEF AccUnpack
<1>2. CASE w.e # 0
  <2>1. AccUnpack(w) = [m |-> x * g, e |-> w.e] /\ w.e \in 0..MaxExp
    BY <1>2 DEF AccUnpack, FloatWord
  <2>2. H \in Nat \ {0} /\ F \in Nat \ {0} /\ g \in Nat \ {0} /\ H = F * g
    BY Units
  <2>3. x \in Int /\ ((F <= x /\ x < 2 * F) \/ (-(2 * F) <= x /\ x < -F))
    BY Mantissas
  <2> HIDE DEF F, g, H, x
  <2>4. (2 * F) * g = 2 * H /\ (-F) * g = -H /\ (-(2 * F)) * g = -(2 * H) /\ x * g \in Int
    BY <2>2, <2>3
  <2>5. (H <= x * g /\ x * g < 2 * H) \/ (-(2 * H) <= x * g /\ x * g < -H)
    <3>1. ASSUME F <= x, x < 2 * F PROVE H <= x * g /\ x * g < 2 * H
      <4>1. F * g <= x * g
        BY <2>2, <2>3, <3>1, MulMono
      <4>2. x * g <= (2 * F - 1) * g /\ (2 * F - 1) * g = (2 * F) * g - g
        BY <2>2, <2>3, <3>1, MulMono
      <4> QED  BY <2>2, <2>4, <4>1, <4>2
    <3>2. ASSUME -(2 * F) <= x, x < -F PROVE -(2 * H) <= x * g /\ x * g < -H
      <4>1. (-(2 * F)) * g <= x * g
        BY <2>2, <2>3, <3>2, MulMono
      <4>2. x * g <= (-F - 1) * g /\ (-F - 1) * g = (-F) * g - g
        BY <2>2, <2>3, <3>2, MulMono
      <4> QED  BY <2>2, <2>4, <4>1, <4>2
    <3> QED  BY <2>3, <3>1, <3>2
  <2>6. Normal(x * g, ScAcc)
    BY <2>4, <2>5, AccNormal DEF H
  <2> QED  BY <2>1, <2>4, <2>6 DEF IsAcc
<1> QED  BY <1>1, <1>2

LEMMA Packed ==
  ASSUME NEW a, IsAcc(a)
  PROVE  AccPack(a) \in FloatWord
<1> DEFINE F == 2 ^ FracBits
           g == 2 ^ GuardBits
           H == 2 ^ ScAcc
           q == a.m \div g
<1>1. CASE a.e = 0 \/ a.m = 0
  BY <1>1, ZeroIsAcc DEF AccPack
<1>2. CASE a.e # 0 /\ a.m # 0
  <2>1. AccPack(a) = [m |-> q - Implicit(q, FracBits), e |-> a.e % 2 ^ ExpBits]
    BY <1>2 DEF AccPack
  <2>2. H \in Nat \ {0} /\ F \in Nat \ {0} /\ g \in Nat \ {0} /\ H = F * g
    BY Units
  <2>3. a.m \in Int /\ ((H <= a.m /\ a.m < 2 * H) \/ (-(2 * H) <= a.m /\ a.m < -H))
    BY <1>2, AccNormal DEF IsAcc
  <2>4. a.e % 2 ^ ExpBits \in 0..MaxExp
    <3>1. a.e \in 0 .. 2 * Bias - 1
      BY DauWidths DEF IsAcc
    <3>2. a.e % (2 * Bias) = a.e
      BY <3>1, DauWidths
    <3> QED  BY <3>1, <3>2, DauWidths
  <2>5. Implicit(q, FracBits) = IF q < 0 THEN -F ELSE F
    BY DEF Implicit
  <2>6. q \in Int /\ \A y \in Int : y <= q <=> y * g <= a.m
    BY <2>2, <2>3, DivSpec, DivAtLeast
  <2> HIDE DEF F, g, H, q
  <2>7. (2 * F) * g = 2 * H /\ (-F) * g = -H /\ (-(2 * F)) * g = -(2 * H)
    BY <2>2
  <2>8. (F <= q <=> H <= a.m) /\ (2 * F <= q <=> 2 * H <= a.m)
    BY <2>2, <2>6, <2>7
  <2>9. (-F <= q <=> -H <= a.m) /\ (-(2 * F) <= q <=> -(2 * H) <= a.m)
    <3>1. -F \in Int /\ -(2 * F) \in Int
      BY <2>2
    <3> QED  BY <2>6, <2>7, <3>1
  <2>10. q - Implicit(q, FracBits) \in -F .. F - 1
    BY <2>2, <2>3, <2>5, <2>6, <2>8, <2>9
  <2> QED  BY <2>1, <2>4, <2>10 DEF FloatWord, F
<1> QED  BY <1>1, <1>2

-----------------------------------------------------------------------------
(* Multiplier and adder *)

LEMMA TimesBound ==
  ASSUME NEW a \in Int, NEW b \in Int, NEW K \in Nat, -K <= a, a <= K, -K <= b, b <= K
  PROVE  a * b \in Int /\ -(K * K) <= a * b /\ a * b <= K * K
<1>1. \A x, y \in Int : -K <= x /\ x <= K /\ 0 <= y /\ y <= K => -(K * K) <= x * y /\ x * y <= K * K
  <2> TAKE x \in Int, y \in Int
  <2> HAVE -K <= x /\ x <= K /\ 0 <= y /\ y <= K
  <2>1. x * y <= K * y /\ (-K) * y <= x * y
    BY MulMono
  <2>2. y * K <= K * K /\ y * K = K * y /\ (-K) * y = -(K * y)
    BY MulMono
  <2> QED  BY <2>1, <2>2
<1>2. CASE 0 <= b
  BY <1>1, <1>2
<1>3. CASE b < 0
  <2>1. -(K * K) <= (-a) * (-b) /\ (-a) * (-b) <= K * K
    <3>1. -a \in Int /\ -b \in Int /\ -K <= -a /\ -a <= K /\ 0 <= -b /\ -b <= K
      BY <1>3
    <3> QED  BY <1>1, <3>1
  <2>2. (-a) * (-b) = a * b
    OBVIOUS
  <2> QED  BY <2>1, <2>2
<1> QED  BY <1>2, <1>3

\* The addends are compared at the scale of a product.
LEMMA ProductUnits ==
  LET P == 2 ^ ScMul
      F == 2 ^ FracBits
  IN  P \in Nat \ {0} /\ F * F = P /\ 2 ^ (ScMul + 4) = 16 * P
      /\ 2 ^ (ScMul - ScAcc) \in Nat \ {0} /\ P = 2 ^ (ScMul - ScAcc) * 2 ^ ScAcc
<1>1. /\ FracBits \in 0 .. 4 * IntBits /\ FracBits + FracBits <= 4 * IntBits
      /\ ScMul \in 0 .. 4 * IntBits /\ 4 \in 0 .. 4 * IntBits /\ ScMul + 4 <= 4 * IntBits
      /\ ScMul = FracBits + FracBits /\ ScAcc \in 0 .. 4 * IntBits /\ ScAcc <= ScMul
  BY DauWidths
<1>2. 2 ^ ScMul = 2 ^ FracBits * 2 ^ FracBits
  BY <1>1, Powers
<1>3. 2 ^ ScMul \in Nat \ {0} /\ 2 ^ (ScMul + 4) = 2 ^ ScMul * 2 ^ 4
  BY <1>1, Powers
<1>4. 2 ^ 4 = 16
  OBVIOUS
<1>5. 2 ^ (ScMul - ScAcc) \in Nat \ {0} /\ 2 ^ ScMul = 2 ^ (ScMul - ScAcc) * 2 ^ ScAcc
  BY <1>1, PowersRise
<1> QED  BY <1>2, <1>3, <1>4, <1>5

IsProduct(p) == p \in [m: Int, e: Int] /\ -(4 * 2 ^ ScMul) <= p.m /\ p.m <= 4 * 2 ^ ScMul

LEMMA ProductBound ==
  ASSUME NEW x \in FloatWord, NEW y \in FloatWord
  PROVE  IsProduct(DauMul(x, y))
<1>1. CASE x.e = 0 \/ y.e = 0
  BY <1>1, ProductUnits DEF DauMul, Zero, IsProduct
<1>2. CASE ~(x.e = 0 \/ y.e = 0)
  <2> DEFINE F == 2 ^ FracBits
             a == Mant24Full(x)
             b == Mant24Full(y)
  <2>1. DauMul(x, y) = [m |-> a * b, e |-> x.e + y.e - Bias]
    BY <1>2 DEF DauMul
  <2>2. x.e + y.e - Bias \in Int
    BY DauWidths DEF FloatWord
  <2>3. /\ F \in Nat /\ a \in Int /\ b \in Int /\ -(2 * F) <= a /\ a <= 2 * F
        /\ -(2 * F) <= b /\ b <= 2 * F
    <3>1. F \in Nat \ {0}
      BY Units
    <3>2. a \in Int /\ ((F <= a /\ a < 2 * F) \/ (-(2 * F) <= a /\ a < -F))
      BY Mantissas
    <3>3. b \in Int /\ ((F <= b /\ b < 2 * F) \/ (-(2 * F) <= b /\ b < -F))
      BY Mantissas
    <3> HIDE DEF a, b, F
    <3> QED  BY <3>1, <3>2, <3>3
  <2>4. F * F = 2 ^ ScMul
    BY ProductUnits
  <2> HIDE DEF a, b, F
  <2>5. (2 * F) * (2 * F) = 4 * (F * F) /\ 2 * F \in Nat
    BY <2>3
  <2>6. a * b \in Int /\ -((2 * F) * (2 * F)) <= a * b /\ a * b <= (2 * F) * (2 * F)
    BY <2>3, <2>5, TimesBound
  <2>7. -(4 * 2 ^ ScMul) <= a * b /\ a * b <= 4 * 2 ^ ScMul
    BY <2>4, <2>5, <2>6
  <2> QED  BY <2>1, <2>2, <2>6, <2>7 DEF IsProduct
<1> QED  BY <1>1, <1>2

\* A truncated quotient is no further from zero than the dividend.
LEMMA DivShrinks ==
  ASSUME NEW x \in Int, NEW k \in Nat \ {0}, NEW B \in Nat, -B <= x, x <= B
  PROVE  x \div k \in Int /\ -B <= x \div k /\ x \div k <= B
<1> DEFINE q == x \div k
<1>1. q \in Int /\ \A y \in Int : y <= q <=> y * k <= x
  BY DivSpec, DivAtLeast
<1> HIDE DEF q
<1>2. B <= B * k /\ B + 1 <= (B + 1) * k /\ (-B) * k = -(B * k)
  <2>1. B * k \in Int /\ 1 * B <= k * B /\ 1 * (B + 1) <= k * (B + 1)
    BY MulMono
  <2> QED  BY <2>1
<1>3. -B <= q
  <2>1. -B \in Int /\ (-B) * k <= x
    BY <1>2
  <2> QED  BY <1>1, <2>1
<1>4. ~(B + 1 <= q)
  <2>1. B + 1 \in Int /\ ~((B + 1) * k <= x)
    BY <1>2
  <2> QED  BY <1>1, <2>1
<1> QED  BY <1>1, <1>3, <1>4 DEF q

LEMMA AlignedBound ==
  ASSUME NEW m \in Int, NEW n \in Nat, NEW B \in Nat, -B <= m, m <= B
  PROVE  Aligned(m, n) \in Int /\ -B <= Aligned(m, n) /\ Aligned(m, n) <= B
<1>1. CASE n > Reach
  BY <1>1 DEF Aligned
<1>2. CASE ~(n > Reach)
  <2>1. Reach \in Nat /\ Reach <= 4 * IntBits
    BY WidthAssumption, DauWidths
  <2>2. n \in 0 .. 4 * IntBits
    BY <1>2, <2>1, DauWidths
  <2>3. 2 ^ n \in Nat \ {0}
    BY <2>2, PowersRise
  <2>4. Aligned(m, n) = m \div 2 ^ n
    BY <1>2 DEF Aligned
  <2> QED  BY <2>3, <2>4, DivShrinks
<1> QED  BY <1>1, <1>2

\* The addend at the scale of a product, and the sum before it is normalised.
Addend(s) == IF s.e = 0 THEN 0 ELSE s.m * 2 ^ (ScMul - ScAcc)
AlignedSum(s, p) ==
  LET sm == Addend(s)
  IN  IF sm = 0 THEN p
      ELSE IF p.m = 0 THEN [m |-> sm, e |-> s.e]
      ELSE IF s.e >= p.e THEN [m |-> sm + Aligned(p.m, s.e - p.e), e |-> s.e]
      ELSE [m |-> p.m + Aligned(sm, p.e - s.e), e |-> p.e]

LEMMA AddendBound ==
  ASSUME NEW s, IsSum(s)
  PROVE  Addend(s) \in Int /\ -(4 * 2 ^ ScMul) <= Addend(s) /\ Addend(s) <= 4 * 2 ^ ScMul
<1> DEFINE P  == 2 ^ ScMul
           H  == 2 ^ ScAcc
           c  == 2 ^ (ScMul - ScAcc)
           sm == IF s.e = 0 THEN 0 ELSE s.m * c
<1>1. P \in Nat \ {0} /\ H \in Nat \ {0} /\ c \in Nat \ {0} /\ P = c * H
  BY Units, ProductUnits
<1>2. s.m \in Int /\ s.e \in Int
  BY DEF IsSum
<1>3. sm \in Int /\ -(4 * P) <= sm /\ sm <= 4 * P
  <2>1. CASE s.e = 0
    BY <1>1, <2>1
  <2>2. CASE s.e # 0
    <3>1. -(2 * H) <= s.m /\ s.m <= 2 * H
      <4>1. (H <= s.m /\ s.m < 2 * H) \/ (-(2 * H) <= s.m /\ s.m < -H)
        BY <2>2, AccNormal DEF IsSum
      <4> HIDE DEF H
      <4> QED  BY <1>1, <1>2, <4>1
    <3> DEFINE sc == s.m * c
    <3>2. sm = sc
      BY <2>2
    <3> HIDE DEF H, P, c, sm
    <3>3. sc \in Int /\ sc <= (2 * H) * c /\ (-(2 * H)) * c <= sc
      BY <1>1, <1>2, <3>1, MulMono
    <3>4. (2 * H) * c = 2 * P /\ (-(2 * H)) * c = -(2 * P)
      BY <1>1
    <3> QED  BY <1>1, <3>2, <3>3, <3>4
  <2> QED  BY <2>1, <2>2
<1> QED  BY <1>3 DEF Addend

LEMMA AlignedSumBound ==
  ASSUME NEW s, IsSum(s), NEW p, IsProduct(p)
  PROVE  LET y == AlignedSum(s, p) IN
         y \in [m: Int, e: Int] /\ -(8 * 2 ^ ScMul) <= y.m /\ y.m <= 8 * 2 ^ ScMul
<1> DEFINE P   == 2 ^ ScMul
           sm  == Addend(s)
           sum == AlignedSum(s, p)
<1>1. sum = IF sm = 0 THEN p
            ELSE IF p.m = 0 THEN [m |-> sm, e |-> s.e]
            ELSE IF s.e >= p.e THEN [m |-> sm + Aligned(p.m, s.e - p.e), e |-> s.e]
            ELSE [m |-> p.m + Aligned(sm, p.e - s.e), e |-> p.e]
  BY DEF AlignedSum
<1>2. P \in Nat \ {0}
  BY ProductUnits
<1>3. s.m \in Int /\ s.e \in Int /\ p.m \in Int /\ p.e \in Int /\ -(4 * P) <= p.m /\ p.m <= 4 * P
  BY DEF IsSum, IsProduct
<1>4. sm \in Int /\ -(4 * P) <= sm /\ sm <= 4 * P
  BY AddendBound
<1>5. p \in [m: Int, e: Int]
  BY DEF IsProduct
<1> HIDE DEF P, sm, sum
<1>6. sum \in [m: Int, e: Int] /\ -(8 * P) <= sum.m /\ sum.m <= 8 * P
  <2>0. 4 * P \in Nat
    BY <1>2
  <2>1. CASE sm = 0
    BY <1>1, <1>2, <1>3, <1>5, <2>1
  <2>2. CASE sm # 0 /\ p.m = 0
    BY <1>1, <1>2, <1>3, <1>4, <2>2
  <2>3. CASE sm # 0 /\ p.m # 0 /\ s.e >= p.e
    <3>1. s.e - p.e \in Nat
      BY <1>3, <2>3
    <3> DEFINE al == Aligned(p.m, s.e - p.e)
    <3>2. al \in Int /\ -(4 * P) <= al /\ al <= 4 * P
      BY <1>3, <2>0, <3>1, AlignedBound
    <3>3. sum = [m |-> sm + al, e |-> s.e]
      BY <1>1, <2>3
    <3> HIDE DEF al
    <3>4. sm + al \in Int /\ -(8 * P) <= sm + al /\ sm + al <= 8 * P
      BY <1>2, <1>4, <3>2
    <3> QED  BY <1>3, <3>3, <3>4
  <2>4. CASE sm # 0 /\ p.m # 0 /\ ~(s.e >= p.e)
    <3>1. p.e - s.e \in Nat
      BY <1>3, <2>4
    <3> DEFINE al == Aligned(sm, p.e - s.e)
    <3>2. al \in Int /\ -(4 * P) <= al /\ al <= 4 * P
      BY <1>4, <2>0, <3>1, AlignedBound
    <3>3. sum = [m |-> p.m + al, e |-> p.e]
      BY <1>1, <2>4
    <3> HIDE DEF al
    <3>4. p.m + al \in Int /\ -(8 * P) <= p.m + al /\ p.m + al <= 8 * P
      BY <1>2, <1>3, <3>2
    <3> QED  BY <1>3, <3>3, <3>4
  <2> QED  BY <2>1, <2>2, <2>3, <2>4
<1> QED  BY <1>6 DEF P, sum

\* The adder: whatever is added, the sum is normalised.
LEMMA SumNormal ==
  ASSUME NEW s, IsSum(s), NEW p, IsProduct(p)
  PROVE  IsSum(DauAdd(s, p))
<1> DEFINE P   == 2 ^ ScMul
           H   == 2 ^ ScAcc
           c   == 2 ^ (ScMul - ScAcc)
           sum == AlignedSum(s, p)
           r   == NormAt(sum.m, sum.e, ScMul)
           t   == Scaled(r.m, ScAcc - ScMul)
<1>1. DauAdd(s, p) = IF r.m = 0 THEN Zero ELSE NormAt(t, r.e, ScAcc)
  BY DEF DauAdd, AlignedSum, Addend
<1>2. P \in Nat \ {0} /\ H \in Nat \ {0} /\ c \in Nat \ {0} /\ P = c * H /\ 2 ^ (ScMul + 4) = 16 * P
      /\ 2 ^ (ScAcc + 4) = 16 * H
  BY Units, ProductUnits
<1>3. sum \in [m: Int, e: Int] /\ -(8 * P) <= sum.m /\ sum.m <= 8 * P
  BY AlignedSumBound
<1> HIDE DEF P, H, c
<1> HIDE DEF sum
<1>4. r \in [m: Int, e: Int] /\ (r.m # 0 => Normal(r.m, ScMul))
  <2>1. sum.m \in Int /\ sum.e \in Int /\ -(2 ^ (ScMul + 4)) <= sum.m /\ sum.m < 2 ^ (ScMul + 4)
    BY <1>2, <1>3
  <2>2. ScMul \in Scales
    BY DEF Scales
  <2> QED  BY <2>1, <2>2, NormAtNormal DEF Zero
<1> HIDE DEF r
<1>5. CASE r.m = 0
  BY <1>1, <1>5, ZeroIsAcc, AccIsSum
<1>6. CASE r.m # 0
  <2>1. r.m \in Int /\ -(2 * P) <= r.m /\ r.m <= 2 * P
    <3>1. r.m \in Int /\ ((P <= r.m /\ r.m < 2 * P) \/ (-(2 * P) <= r.m /\ r.m < -P))
      BY <1>4, <1>6, NormalMeans DEF Scales, P
    <3> QED  BY <1>2, <3>1
  <2>2. t \in Int /\ -(16 * H) <= t /\ t < 16 * H
    <3>1. CASE ScAcc = ScMul
      <4>1. t = r.m * 2 ^ 0 /\ 2 ^ 0 = 1
        BY <3>1, DauWidths DEF Scaled
      <4>2. P = H
        BY <3>1 DEF P, H
      <4> QED  BY <1>2, <2>1, <4>1, <4>2
    <3>2. CASE ScAcc # ScMul
      <4>1. ~(ScAcc - ScMul >= 0) /\ -(ScAcc - ScMul) = ScMul - ScAcc
        BY <3>2, DauWidths
      <4>2. t = r.m \div c
        BY <4>1 DEF Scaled, c
      <4>3. t \in Int /\ \A y \in Int : y <= t <=> y * c <= r.m
        BY <1>2, <2>1, <4>2, DivSpec, DivAtLeast
      <4> HIDE DEF t
      <4>4. (16 * H) * c = 16 * P /\ (-(16 * H)) * c = -(16 * P) /\ 16 * H \in Int /\ -(16 * H) \in Int
        BY <1>2
      <4>5. -(16 * H) <= t
        BY <1>2, <2>1, <4>3, <4>4
      <4>6. ~(16 * H <= t)
        BY <1>2, <2>1, <4>3, <4>4
      <4> QED  BY <1>2, <4>3, <4>5, <4>6
    <3> QED  BY <3>1, <3>2
  <2> HIDE DEF t
  <2>3. NormAt(t, r.e, ScAcc) \in [m: Int, e: Int] /\ (t = 0 => NormAt(t, r.e, ScAcc) = Zero)
        /\ (t # 0 => Normal(NormAt(t, r.e, ScAcc).m, ScAcc))
    <3>1. r.e \in Int /\ -(2 ^ (ScAcc + 4)) <= t /\ t < 2 ^ (ScAcc + 4) /\ ScAcc \in Scales
      BY <1>2, <1>4, <2>2 DEF Scales
    <3> QED  BY <2>2, <3>1, NormAtNormal
  <2> QED  BY <1>1, <1>6, <2>3 DEF IsSum, Zero
<1> QED  BY <1>5, <1>6

LEMMA NormAtSum ==
  ASSUME NEW m \in Int, NEW e \in Int, -(16 * 2 ^ ScAcc) <= m, m < 16 * 2 ^ ScAcc
  PROVE  IsSum(NormAt(m, e, ScAcc))
<1>1. -(2 ^ (ScAcc + 4)) <= m /\ m < 2 ^ (ScAcc + 4) /\ ScAcc \in Scales
  BY Units DEF Scales
<1> QED  BY <1>1, NormAtNormal DEF IsSum, Zero

LEMMA NegatedSum ==
  ASSUME NEW a, IsAcc(a)
  PROVE  IsSum(AccNegate(a))
<1>1. CASE a.e = 0
  BY <1>1, AccIsSum DEF AccNegate
<1>2. CASE a.e # 0
  <2> DEFINE H == 2 ^ ScAcc
  <2>1. AccNegate(a) = NormAt(-a.m, a.e, ScAcc)
    BY <1>2 DEF AccNegate
  <2>2. H \in Nat \ {0}
    BY Units
  <2>3. a.m \in Int /\ a.e \in Int /\ ((H <= a.m /\ a.m < 2 * H) \/ (-(2 * H) <= a.m /\ a.m < -H))
    BY <1>2, AccNormal, AccIsSum DEF IsAcc, IsSum
  <2>4. -(16 * H) <= -a.m /\ -a.m < 16 * H /\ -a.m \in Int
    <3> HIDE DEF H
    <3> QED  BY <2>2, <2>3
  <2> QED  BY <2>1, <2>3, <2>4, NormAtSum
<1> QED  BY <1>1, <1>2

LEMMA RoundedSum ==
  ASSUME NEW a, IsAcc(a)
  PROVE  IsSum(AccRound(a))
<1>1. CASE a.e = 0
  BY <1>1, AccIsSum DEF AccRound
<1>2. CASE a.e # 0
  <2> DEFINE H == 2 ^ ScAcc
             g == 2 ^ GuardBits
             x == a.m + g \div 2
             q == x \div g
  <2>1. AccRound(a) = NormAt(q * g, a.e, ScAcc)
    BY <1>2 DEF AccRound
  <2>2. H \in Nat \ {0} /\ g \in Nat \ {0} /\ g <= H
    BY Units
  <2>3. a.m \in Int /\ a.e \in Int /\ ((H <= a.m /\ a.m < 2 * H) \/ (-(2 * H) <= a.m /\ a.m < -H))
    BY <1>2, AccNormal, AccIsSum DEF IsAcc, IsSum
  <2> HIDE DEF H, g
  <2>4. x \in Int /\ a.m <= x /\ x <= a.m + g
    BY <2>2, <2>3
  <2>5. q \in Int /\ q * g <= x /\ x < (q + 1) * g
    <3> HIDE DEF x
    <3> QED  BY <2>2, <2>4, DivSpec
  <2> HIDE DEF x, q
  <2>6. (q + 1) * g = q * g + g /\ q * g \in Int
    BY <2>2, <2>5
  <2>7. -(16 * H) <= q * g /\ q * g < 16 * H
    BY <2>2, <2>3, <2>4, <2>5, <2>6
  <2> QED  BY <2>1, <2>3, <2>6, <2>7, NormAtSum DEF H
<1> QED  BY <1>1, <1>2

-----------------------------------------------------------------------------
(* Integers *)

\* An integer of the lane's width has its exponent within range.
LEMMA IntegerIsAcc ==
  ASSUME NEW v \in Int, -(2 ^ ScAcc) <= v, v <= 2 ^ ScAcc
  PROVE  LET a == AccFromI64(v) IN
         /\ IsAcc(a)
         /\ v # 0 => \E k \in 0 .. ScAcc + 1 : a.m = v * 2 ^ k /\ a.e = Bias + ScAcc - k
<1> DEFINE H == 2 ^ ScAcc
           r == NormAt(v, Bias + ScAcc, ScAcc)
<1>1. CASE v = 0
  BY <1>1, ZeroIsAcc DEF AccFromI64
<1>2. CASE v # 0
  <2>1. AccFromI64(v) = r
    BY <1>2 DEF AccFromI64
  <2>2. H \in Nat \ {0} /\ 2 ^ (ScAcc + 4) = 16 * H /\ 2 ^ (ScAcc + 1) = 2 * H
    BY Units
  <2>3. /\ r \in [m: Int, e: Int] /\ Normal(r.m, ScAcc)
        /\ \E k \in -(ScMul + 4) .. ScMul + 1 : r.m = Scaled(v, k) /\ r.e = Bias + ScAcc - k
    <3> DEFINE b == Bias + ScAcc
    <3>1. b \in Int /\ -(2 ^ (ScAcc + 4)) <= v /\ v < 2 ^ (ScAcc + 4) /\ ScAcc \in Scales
      BY <2>2, DauWidths DEF Scales
    <3> HIDE DEF b
    <3>2. LET n == NormAt(v, b, ScAcc) IN
          /\ n \in [m: Int, e: Int] /\ Normal(n.m, ScAcc)
          /\ \E k \in -(ScMul + 4) .. ScMul + 1 : n.m = Scaled(v, k) /\ n.e = b - k
      BY <1>2, <3>1, NormAtNormal, Zenon
    <3>3. b = Bias + ScAcc /\ r = NormAt(v, b, ScAcc)
      BY DEF b
    <3> HIDE DEF r
    <3>4. r \in [m: Int, e: Int] /\ Normal(r.m, ScAcc)
      BY <3>2, <3>3, Zenon
    <3>5. PICK k \in -(ScMul + 4) .. ScMul + 1 : r.m = Scaled(v, k) /\ r.e = b - k
      BY <3>2, <3>3, Zenon
    <3>6. r.e = Bias + ScAcc - k
      BY <3>3, <3>5, DauWidths
    <3> QED  BY <3>4, <3>5, <3>6
  <2>4. PICK k \in -(ScMul + 4) .. ScMul + 1 : r.m = Scaled(v, k) /\ r.e = Bias + ScAcc - k
    BY <2>3
  <2> DEFINE y == r.m
  <2>5. y \in Int /\ ((H <= y /\ y < 2 * H) \/ (-(2 * H) <= y /\ y < -H))
    BY <2>3, AccNormal
  <2>6. k \in Int /\ k <= 4 * IntBits /\ -k <= 4 * IntBits
    BY DauWidths
  <2>7. -H <= v /\ v <= H
    OBVIOUS
  <2>8. k >= 0
    <3> SUFFICES ASSUME k < 0 PROVE FALSE
      BY <2>6
    <3> DEFINE s == 2 ^ (-k)
    <3>1. ~(k >= 0) /\ -k \in 0 .. 4 * IntBits /\ 0 \in 0 .. 4 * IntBits /\ 0 < -k /\ 0 <= -k
      BY <2>6, DauWidths
    <3>2. 2 ^ (-k) \in Nat \ {0} /\ 2 * 2 ^ 0 <= 2 ^ (-k)
      BY <3>1, PowersRise
    <3>3. s \in Nat \ {0} /\ 2 <= s
      <4>1. 2 ^ 0 = 1
        OBVIOUS
      <4> QED  BY <3>2, <4>1
    <3>4. y = v \div s
      BY <2>4, <3>1 DEF Scaled
    <3> HIDE DEF s, y, H
    <3>5. \A z \in Int : z <= y <=> z * s <= v
      BY <3>3, <3>4, DivAtLeast
    <3>6. 2 * H <= H * s /\ (-H) * s = -(H * s) /\ H * s \in Int /\ -H \in Int
      <4>1. 2 * H <= s * H
        BY <2>2, <3>3, MulMono
      <4> QED  BY <2>2, <3>3, <4>1
    <3>7. ~(H <= y)
      BY <2>2, <2>7, <3>5, <3>6
    <3>8. -H <= y
      BY <2>2, <2>7, <3>5, <3>6
    <3> QED  BY <2>2, <2>5, <3>7, <3>8
  <2>9. k <= ScAcc + 1
    <3> SUFFICES ASSUME ScAcc + 1 < k PROVE FALSE
      BY <2>6, DauWidths
    <3> DEFINE s == 2 ^ k
    <3>1. k \in 0 .. 4 * IntBits /\ ScAcc + 1 \in 0 .. 4 * IntBits /\ ScAcc + 1 <= k
      BY <2>6, <2>8, DauWidths
    <3>2. s \in Nat \ {0} /\ 2 * 2 ^ (ScAcc + 1) <= s
      BY <3>1, PowersRise
    <3>3. y = v * s
      BY <2>4, <2>8 DEF Scaled
    <3> HIDE DEF s, y, H
    <3>4. 4 * H <= s
      BY <2>2, <3>2
    <3>5. CASE v >= 1
      <4>1. 1 * s <= v * s
        BY <3>2, <3>5, MulMono
      <4> QED  BY <2>2, <2>5, <3>2, <3>3, <3>4, <4>1
    <3>6. CASE v <= -1
      <4>1. v * s <= (-1) * s
        BY <3>2, <3>6, MulMono
      <4> QED  BY <2>2, <2>5, <3>2, <3>3, <3>4, <4>1
    <3> QED  BY <1>2, <3>5, <3>6
  <2>10. r.e \in 0..MaxExp
    <3>1. r.e = Bias + ScAcc - k
      BY <2>4
    <3> HIDE DEF r
    <3> QED  BY <2>6, <2>8, <2>9, <3>1, DauWidths
  <2>11. IsAcc(r)
    <3> HIDE DEF r, y
    <3>1. r.m \in Int
      BY <2>3
    <3> QED  BY <2>3, <2>10 DEF IsAcc
  <2>12. k \in 0 .. ScAcc + 1 /\ r.m = v * 2 ^ k
    <3> HIDE DEF r
    <3> QED  BY <2>4, <2>6, <2>8, <2>9, DauWidths DEF Scaled
  <2> HIDE DEF r
  <2> QED  BY <2>1, <2>4, <2>11, <2>12
<1> QED  BY <1>1, <1>2

LEMMA LargestIsAcc == IsAcc(Largest) /\ IsAcc(Smallest)
<1> DEFINE H == 2 ^ ScAcc
<1>1. H \in Nat \ {0} /\ 2 ^ (ScAcc + 1) = 2 * H
  BY Units
<1>2. MaxExp \in 0..MaxExp
  BY DauWidths
<1>3. \A m \in Int : (H <= m /\ m < 2 * H) \/ (-(2 * H) <= m /\ m < -H) => Normal(m, ScAcc)
  BY AccNormal
<1> HIDE DEF H
<1>4. Normal(2 * H - 1, ScAcc) /\ Normal(-(2 * H), ScAcc) /\ 2 * H - 1 \in Int /\ -(2 * H) \in Int
  BY <1>1, <1>3
<1> QED  BY <1>1, <1>2, <1>4 DEF IsAcc, Largest, Smallest

\* An integer put into an accumulator's upper bits leaves it normalised.
LEMMA LaneIsAcc ==
  ASSUME NEW v \in Int, -(2 ^ ScAcc) <= v, v < 2 ^ ScAcc, NEW a, IsAcc(a)
  PROVE  IsAcc(IntLane(v, a))
<1> DEFINE H == 2 ^ ScAcc
           m == v + Implicit(v, ScAcc)
<1>1. H \in Nat \ {0}
  BY Units
<1>2. m = IF v < 0 THEN v - H ELSE v + H
  BY <1>1 DEF Implicit
<1>3. \A x \in Int : (H <= x /\ x < 2 * H) \/ (-(2 * H) <= x /\ x < -H) => Normal(x, ScAcc)
  BY AccNormal
<1> HIDE DEF H, m
<1>4. m \in Int /\ Normal(m, ScAcc)
  <2>1. -H <= v /\ v < H
    BY DEF H
  <2> QED  BY <1>1, <1>2, <1>3, <2>1
<1>5. IntLane(v, a) = [m |-> m, e |-> a.e]
  BY DEF IntLane, m
<1> QED  BY <1>4, <1>5 DEF IsAcc

LEMMA ToTopRange ==
  ASSUME NEW x \in Int, NEW n \in 1..IntBits
  PROVE  ToTop(x, n) \in Int /\ -(2 ^ ScAcc) <= ToTop(x, n) /\ ToTop(x, n) < 2 ^ ScAcc
<1> DEFINE H == 2 ^ ScAcc
           s == 2 ^ (IntBits - n)
           y == (x * s) % (2 * H)
<1>1. H \in Nat \ {0} /\ 2 ^ IntBits = 2 * H /\ 2 ^ (IntBits - 1) = H
  BY Units
<1>2. s \in Nat \ {0}
  <2>1. IntBits - n \in 0 .. 4 * IntBits
    BY DauWidths
  <2> QED  BY <2>1, PowersRise
<1>3. ToTop(x, n) = IF y >= H THEN y - 2 * H ELSE y
  BY <1>1 DEF ToTop, Sext
<1>4. y \in 0 .. 2 * H - 1
  <2> HIDE DEF H, s
  <2>1. x * s \in Int
    BY <1>2
  <2>2. \A z \in Int : z % (2 * H) \in 0 .. 2 * H - 1
    BY <1>1
  <2> QED  BY <2>1, <2>2
<1> HIDE DEF y, H
<1>5. LET r == IF y >= H THEN y - 2 * H ELSE y IN r \in Int /\ -H <= r /\ r < H
  BY <1>1, <1>4
<1> QED  BY <1>3, <1>5 DEF H

\* Bits of a lane, and what they are as a signed integer.
IntWidths == {ByteBits, HalfBits, IntBits}

LEMMA IntUnits ==
  ASSUME NEW n \in IntWidths
  PROVE  /\ n \in 1..IntBits /\ 2 ^ (n - 1) \in Nat \ {0} /\ 2 ^ n = 2 * 2 ^ (n - 1)
         /\ 2 ^ (n - 1) <= 2 ^ ScAcc
<1>1. n \in 1..IntBits
  BY WidthAssumption, DauWidths DEF IntWidths
<1>2. /\ n - 1 \in 0 .. 4 * IntBits /\ 1 \in 0 .. 4 * IntBits /\ (n - 1) + 1 <= 4 * IntBits
      /\ (n - 1) + 1 = n /\ ScAcc \in 0 .. 4 * IntBits /\ n - 1 <= ScAcc
  BY <1>1, DauWidths
<1>3. 2 ^ (n - 1) \in Nat \ {0} /\ 2 ^ ((n - 1) + 1) = 2 ^ (n - 1) * 2 ^ 1
  BY <1>2, Powers
<1>4. 2 ^ 1 = 2
  OBVIOUS
<1>5. 2 ^ (n - 1) <= 2 ^ ScAcc
  BY <1>2, PowersRise
<1> QED  BY <1>1, <1>2, <1>3, <1>4, <1>5

LEMMA TopBitsRange ==
  ASSUME NEW n \in IntWidths, NEW a, IsAcc(a)
  PROVE  TopBits(LaneOf(a), n) \in 0 .. 2 ^ n - 1
<1> DEFINE H == 2 ^ ScAcc
           v == LaneOf(a)
           s == 2 ^ (IntBits - n)
           y == v % (2 * H)
           q == y \div s
           N == 2 ^ n
<1>1. H \in Nat \ {0} /\ 2 ^ IntBits = 2 * H
  BY Units
<1>2. v \in Int
  BY <1>1 DEF LaneOf, Implicit, IsAcc
<1>3. s \in Nat \ {0} /\ N \in Nat \ {0} /\ 2 * H = s * N
  <2>1. n \in 1..IntBits
    BY IntUnits
  <2>2. n \in 0 .. 4 * IntBits /\ IntBits \in 0 .. 4 * IntBits /\ n <= IntBits
    BY <2>1, DauWidths
  <2>3. 2 ^ n \in Nat \ {0} /\ 2 ^ (IntBits - n) \in Nat \ {0} /\ 2 ^ IntBits = 2 ^ (IntBits - n) * 2 ^ n
    BY <2>2, PowersRise
  <2> QED  BY <1>1, <2>3
<1>4. TopBits(v, n) = q
  BY <1>1 DEF TopBits
<1> HIDE DEF H, v, s, N
<1>5. y \in 0 .. 2 * H - 1
  BY <1>1, <1>2
<1> HIDE DEF y
<1>6. q \in Int /\ \A z \in Int : z <= q <=> z * s <= y
  BY <1>1, <1>3, <1>5, DivSpec, DivAtLeast
<1>7. 0 <= q
  BY <1>3, <1>5, <1>6
<1>8. ~(N <= q)
  <2>1. N * s = 2 * H
    BY <1>3
  <2> QED  BY <1>1, <1>3, <1>5, <1>6, <2>1
<1> QED  BY <1>3, <1>4, <1>6, <1>7, <1>8 DEF v, N

LEMMA SignedRange ==
  ASSUME NEW n \in IntWidths, NEW x \in 0 .. 2 ^ n - 1
  PROVE  Sext(x, n) \in Int /\ -(2 ^ ScAcc) <= Sext(x, n) /\ Sext(x, n) <= 2 ^ ScAcc
BY IntUnits, Units DEF Sext

LEMMA ClampRange ==
  ASSUME NEW i \in Int, NEW n \in IntWidths
  PROVE  /\ IntMin(n) \in Int /\ IntMax(n) \in Int /\ 0 \in IntMin(n)..IntMax(n)
         /\ Clamp(i, n) \in IntMin(n)..IntMax(n)
<1>1. IntMin(n) \in Int /\ IntMax(n) \in Int /\ 0 \in IntMin(n)..IntMax(n)
  BY IntUnits DEF IntMin, IntMax
<1> QED  BY <1>1 DEF Clamp

LEMMA RoundedInt ==
  ASSUME NEW m \in Int, NEW sh \in 1 .. Reach + 1, NEW mode \in 0..3
  PROVE  Rounded(m, sh, mode) \in Int
<1>1. Reach \in Nat /\ Reach <= 3 * IntBits
  BY WidthAssumption, DauWidths
<1>2. sh \in 0 .. 4 * IntBits /\ sh - 1 \in 0 .. 4 * IntBits
  BY <1>1, DauWidths
<1>3. 2 ^ sh \in Nat \ {0} /\ 2 ^ (sh - 1) \in Nat \ {0}
  BY <1>2, PowersRise
<1> DEFINE floor == m \div 2 ^ sh
           half == m \div 2 ^ (sh - 1)
<1>4. floor \in Int /\ half \in Int
  BY <1>3, DivSpec
<1>5. /\ mode \in {0, 2} => Rounded(m, sh, mode) = floor + (half % 2)
      /\ mode = 1 => Rounded(m, sh, mode) = floor
      /\ mode = 3 => Rounded(m, sh, mode) \in {floor, floor + 1}
  BY DEF Rounded
<1> HIDE DEF floor, half
<1>6. floor + (half % 2) \in Int /\ floor + 1 \in Int
  BY <1>4
<1> QED  BY <1>4, <1>5, <1>6

\* An accumulator as an integer, by any rounding mode: within its range.
LEMMA ToIntRange ==
  ASSUME NEW a \in [m: Int, e: Int], a.e <= MaxExp + 1, NEW mode \in 0..3, NEW n \in IntWidths
  PROVE  AccToInt(a, mode, n) \in IntMin(n)..IntMax(n) /\ AccToInt(a, mode, n) \in Int
<1> DEFINE shift == a.e - Bias - ScAcc
           R == IntMin(n)..IntMax(n)
<1>1. shift \in Int /\ a.m \in Int
  BY DauWidths
<1>2. \A i \in Int : Clamp(i, n) \in R
  BY ClampRange
<1>3. 0 \in R /\ R \subseteq Int
  <2>1. Clamp(0, n) \in R /\ 0 \in R
    BY ClampRange
  <2> QED  BY <2>1
<1>4. CASE a.e = 0
  BY <1>3, <1>4 DEF AccToInt
<1>5. CASE a.e # 0 /\ shift >= 0
  <2>1. shift \in 0..Bias
    BY <1>1, <1>5, DauWidths
  <2>2. 2 ^ shift \in Nat
    <3>1. shift \in 0..FarExp
      BY <2>1, DauWidths DEF FarExp
    <3> HIDE DEF shift
    <3> QED  BY <3>1, FarRise
  <2>3. AccToInt(a, mode, n) = Clamp(a.m * 2 ^ shift, n)
    BY <1>5 DEF AccToInt
  <2>4. a.m * 2 ^ shift \in Int
    BY <1>1, <2>2
  <2> QED  BY <1>2, <1>3, <2>3, <2>4
<1>6. CASE a.e # 0 /\ ~(shift >= 0) /\ -shift > Reach + 1
  <2>1. AccToInt(a, mode, n) \in {0, Clamp(-1, n)}
    BY <1>6 DEF AccToInt
  <2> QED  BY <1>2, <1>3, <2>1
<1>7. CASE a.e # 0 /\ ~(shift >= 0) /\ ~(-shift > Reach + 1)
  <2>1. -shift \in 1 .. Reach + 1
    BY <1>1, <1>7, WidthAssumption
  <2>2. AccToInt(a, mode, n) = Clamp(Rounded(a.m, -shift, mode), n)
    BY <1>7 DEF AccToInt
  <2> HIDE DEF shift
  <2>3. Rounded(a.m, -shift, mode) \in Int
    BY <1>1, <2>1, RoundedInt
  <2> QED  BY <1>2, <1>3, <2>2, <2>3
<1> QED  BY <1>4, <1>5, <1>6, <1>7

-----------------------------------------------------------------------------
(* Companded and IEEE codes *)

\* The parts of a companded byte: M of CodeBits bits, and an exponent N.
LEMMA CodeParts ==
  ASSUME NEW u \in Nat
  PROVE  LET c == 2 ^ CodeBits
             M == u % c
             N == (u \div c) % 2 ^ (ByteBits - 1 - CodeBits)
         IN  /\ c \in Nat \ {0} /\ 2 ^ (CodeBits + 1) = 2 * c /\ M \in 0 .. c - 1
             /\ N \in Nat /\ 2 ^ N \in Nat \ {0} /\ (4 * c) * 2 ^ N <= 2 ^ ScAcc
<1> DEFINE c == 2 ^ CodeBits
           R == 2 ^ (ByteBits - 1 - CodeBits)
           M == u % c
           N == (u \div c) % R
<1>1. /\ CodeBits \in Nat /\ ByteBits \in Nat /\ CodeBits < ByteBits /\ ByteBits <= IntBits
      /\ CodeBits + R < ScAcc
  BY WidthAssumption, DauWidths
<1>2. /\ CodeBits \in 0 .. 4 * IntBits /\ 1 \in 0 .. 4 * IntBits /\ CodeBits + 1 <= 4 * IntBits
      /\ ByteBits - 1 - CodeBits \in 0 .. 4 * IntBits
  <2> HIDE DEF R
  <2> QED  BY <1>1, DauWidths
<1>3. c \in Nat \ {0} /\ 2 ^ (CodeBits + 1) = c * 2 ^ 1 /\ R \in Nat \ {0}
  <2>1. c \in Nat \ {0} /\ 2 ^ (CodeBits + 1) = c * 2 ^ 1
    BY <1>2, Powers
  <2> DEFINE k == ByteBits - 1 - CodeBits
  <2>2. k \in 0 .. 4 * IntBits /\ 0 \in 0 .. 4 * IntBits /\ 0 <= k
    BY <1>2, DauWidths
  <2> HIDE DEF k
  <2>3. 2 ^ k \in Nat \ {0}
    BY <2>2, PowersRise
  <2> QED  BY <2>1, <2>3 DEF k
<1>4. 2 ^ 1 = 2
  OBVIOUS
<1> HIDE DEF c, R
<1>5. M \in 0 .. c - 1 /\ u \div c \in Int
  BY <1>3, DivSpec
<1>6. N \in 0 .. R - 1
  <2> DEFINE x == u \div c
  <2>1. x \in Int
    BY <1>5
  <2> HIDE DEF x
  <2>2. x % R \in 0 .. R - 1
    BY <1>3, <2>1
  <2> QED  BY <2>2 DEF x
<1> HIDE DEF M, N
<1>7. /\ CodeBits + 2 \in 0 .. 4 * IntBits /\ N \in 0 .. 4 * IntBits /\ 2 \in 0 .. 4 * IntBits
      /\ CodeBits + 2 + N <= ScAcc /\ CodeBits + 2 + N \in 0 .. 4 * IntBits
      /\ ScAcc \in 0 .. 4 * IntBits /\ CodeBits + 2 + N <= 4 * IntBits /\ CodeBits + 2 <= 4 * IntBits
  BY <1>1, <1>3, <1>6, DauWidths
<1>8. 2 ^ (CodeBits + 2) = c * 2 ^ 2 /\ 2 ^ N \in Nat \ {0}
  BY <1>2, <1>7, Powers DEF c
<1>9. 2 ^ ((CodeBits + 2) + N) = 2 ^ (CodeBits + 2) * 2 ^ N
  BY <1>7, Powers
<1>10. 2 ^ ((CodeBits + 2) + N) <= 2 ^ ScAcc
  BY <1>7, PowersRise
<1>11. 2 ^ (CodeBits + 2) = 4 * c
  <2>1. 2 ^ 2 = 4
    OBVIOUS
  <2> QED  BY <1>3, <1>8, <2>1
<1>12. (4 * c) * 2 ^ N <= 2 ^ ScAcc
  BY <1>9, <1>10, <1>11
<1> QED  BY <1>3, <1>4, <1>5, <1>6, <1>8, <1>12 DEF c, R, M, N

LEMMA DecodedRange ==
  ASSUME NEW law, NEW b \in Code
  PROVE  LET v == Decode2x(law, b) IN v \in Int /\ -(2 ^ ScAcc) < v /\ v < 2 ^ ScAcc
<1> DEFINE H == 2 ^ ScAcc
           c == 2 ^ CodeBits
           R == 2 ^ (ByteBits - 1 - CodeBits)
<1>1. H \in Nat \ {0} /\ c \in Nat \ {0}
  <2>1. 0 \in Nat
    OBVIOUS
  <2> QED  BY <2>1, Units, CodeParts
<1>2. ASSUME NEW u \in Nat
      PROVE  LET M == u % c
                 p == 2 ^ ((u \div c) % R)
                 y == (2 * c + 1 + 2 * M) * p
             IN  /\ 2 ^ (CodeBits + 1) = 2 * c /\ 0 <= (1 + 2 * M) * 2 /\ (1 + 2 * M) * 2 < H
                 /\ (1 + 2 * M) * 2 \in Int
                 /\ y \in Int /\ 2 * c + 1 <= y /\ y < H
  <2> DEFINE M == u % c
             p == 2 ^ ((u \div c) % R)
             x == 2 * c + 1 + 2 * M
  <2>1. 2 ^ (CodeBits + 1) = 2 * c /\ M \in 0 .. c - 1 /\ p \in Nat \ {0} /\ (4 * c) * p <= H
    BY CodeParts
  <2> HIDE DEF M, p, c, H
  <2>2. x \in Nat \ {0} /\ x <= 4 * c - 1 /\ 2 * c + 1 <= x
    BY <1>1, <2>1
  <2> HIDE DEF x
  <2>3. x * p <= (4 * c) * p - p /\ x * p \in Int /\ x <= x * p /\ 4 * c <= (4 * c) * p
    <3>1. x * p <= (4 * c) * p - p
      <4>1. x * p <= (4 * c - 1) * p
        BY <1>1, <2>1, <2>2, MulMono
      <4>2. (4 * c - 1) * p = (4 * c) * p - p
        BY <1>1, <2>1
      <4> QED  BY <4>1, <4>2
    <3>2. x * p \in Nat \ {0} /\ x <= x * p
      BY <2>1, <2>2, Times
    <3>3. 4 * c <= (4 * c) * p
      <4>1. 4 * c \in Nat \ {0}
        BY <1>1
      <4> QED  BY <2>1, <4>1, Times
    <3> QED  BY <3>1, <3>2, <3>3
  <2>4. x * p < H /\ 2 * c + 1 <= x * p /\ (1 + 2 * M) * 2 < H /\ 0 <= (1 + 2 * M) * 2 /\ (1 + 2 * M) * 2 \in Int
    <3>1. (4 * c) * p \in Int
      BY <1>1, <2>1
    <3> DEFINE K == (4 * c) * p
    <3> HIDE DEF K
    <3>2. K \in Int /\ 4 * c <= K /\ K <= H
      BY <2>1, <2>3, <3>1 DEF K
    <3> QED  BY <1>1, <2>1, <2>2, <2>3, <3>2 DEF K
  <2> QED  BY <2>1, <2>3, <2>4 DEF M, p, c, H, x
<1>3. b \in Nat /\ 2 ^ ByteBits - 1 - b \in Nat
  BY IntUnits DEF Code, IntWidths
<1>4. BitXor(b, AlawMask) \in Nat
  <2>1. 2 ^ ByteBits \in Nat \ {0} /\ 2 ^ ByteBits <= 2 ^ IntBits /\ 2 ^ IntBits \in Nat
    <3>1. ByteBits \in 1..IntBits
      BY IntUnits DEF IntWidths
    <3>2. ByteBits \in 0 .. 4 * IntBits /\ IntBits \in 0 .. 4 * IntBits /\ ByteBits <= IntBits
      BY <3>1, DauWidths
    <3> QED  BY <3>2, PowersRise
  <2>2. b \in 0 .. 2 ^ IntBits - 1 /\ AlawMask \in 0 .. 2 ^ IntBits - 1
    BY <2>1, WidthAssumption DEF Code
  <2>3. BitAnd(b, AlawMask) \in 0..b /\ BitAnd(b, AlawMask) <= AlawMask
    BY <2>2, BitAssumption
  <2> QED  BY <2>1, <2>2, <2>3 DEF BitXor
<1>5. CASE law = "alaw"
  <2> DEFINE u == BitXor(b, AlawMask)
             M == u % c
             N == (u \div c) % R
             y == (2 * c + 1 + 2 * M) * 2 ^ N
             z == (1 + 2 * M) * 2
             v == IF N = 0 THEN z ELSE y
  <2>1. /\ 2 ^ (CodeBits + 1) = 2 * c /\ 0 <= z /\ z < H /\ z \in Int
        /\ y \in Int /\ 2 * c + 1 <= y /\ y < H
    BY <1>2, <1>4
  <2>2. Decode2x(law, b) = IF u >= 2 ^ (ByteBits - 1) THEN -v ELSE v
    BY <1>5, <2>1 DEF Decode2x, AlawDecode2x
  <2> HIDE DEF u, y, z, N, c, H
  <2>3. v \in Int /\ 0 <= v /\ v < H
    BY <1>1, <2>1
  <2> HIDE DEF v
  <2> QED  BY <1>1, <2>2, <2>3 DEF H
<1>6. CASE law # "alaw"
  <2> DEFINE u == 2 ^ ByteBits - 1 - b
             M == u % c
             N == (u \div c) % R
             y == (2 * c + 1 + 2 * M) * 2 ^ N
             v == y - (2 * c + 1)
  <2>1. 2 ^ (CodeBits + 1) = 2 * c /\ y \in Int /\ 2 * c + 1 <= y /\ y < H
    BY <1>2, <1>3
  <2>2. Decode2x(law, b) = IF u >= 2 ^ (ByteBits - 1) THEN -v ELSE v
    BY <1>6, <2>1 DEF Decode2x, MulawDecode2x
  <2> HIDE DEF u, y, N, c, H
  <2>3. v \in Int /\ 0 <= v /\ v < H
    BY <1>1, <2>1
  <2> HIDE DEF v
  <2> QED  BY <1>1, <2>2, <2>3 DEF H
<1> QED  BY <1>5, <1>6

\* There is a first of the nearest codes, and it has the value itself if any has.
LEMMA CompandedCode ==
  ASSUME NEW a, IsAcc(a), NEW law
  PROVE  /\ CompandedEncode(a, law) \in Code
         /\ LET v2 == AccToInt([a EXCEPT !.e = IF @ = 0 THEN 0 ELSE @ + 1], 0, IntBits) IN
            \A c \in Code : Decode2x(law, c) = v2 => Decode2x(law, CompandedEncode(a, law)) = v2
<1> DEFINE v2 == AccToInt([a EXCEPT !.e = IF @ = 0 THEN 0 ELSE @ + 1], 0, IntBits)
           dist(b) == IF Decode2x(law, b) >= v2 THEN Decode2x(law, b) - v2 ELSE v2 - Decode2x(law, b)
           First(b) == \A c \in Code : dist(b) < dist(c) \/ (dist(b) = dist(c) /\ b <= c)
<1>1. v2 \in Int
  <2> DEFINE x == [a EXCEPT !.e = IF @ = 0 THEN 0 ELSE @ + 1]
  <2>1. x \in [m: Int, e: Int] /\ x.e <= MaxExp + 1
    BY DauWidths DEF IsAcc
  <2>2. 0 \in 0..3 /\ IntBits \in IntWidths
    BY DEF IntWidths
  <2> HIDE DEF x
  <2>3. AccToInt(x, 0, IntBits) \in Int
    BY <2>1, <2>2, ToIntRange
  <2> QED  BY <2>3 DEF x
<1> HIDE DEF v2
<1>2. \A b \in Code : dist(b) \in Nat
  BY <1>1, DecodedRange
<1> HIDE DEF dist
<1>3. Code \subseteq Nat /\ Code # {}
  <2>1. 2 ^ ByteBits \in Nat \ {0}
    BY IntUnits DEF IntWidths
  <2> QED  BY <2>1 DEF Code
<1> DEFINE D == {dist(b) : b \in Code}
<1>4. PICK x \in D : \A y \in D : x <= y
  <2>1. D \subseteq Nat /\ D # {}
    BY <1>2, <1>3
  <2> HIDE DEF D
  <2> QED  BY <2>1, Least, Zenon
<1> DEFINE B == {b \in Code : dist(b) = x}
<1>5. PICK b \in B : \A c \in B : b <= c
  <2>1. B \subseteq Nat /\ B # {}
    BY <1>3, <1>4
  <2> HIDE DEF B
  <2> QED  BY <2>1, Least, Zenon
<1>6. b \in Code /\ First(b)
  <2>1. b \in Code /\ dist(b) = x /\ x \in Nat
    BY <1>2, <1>5
  <2>2. ASSUME NEW c \in Code PROVE dist(b) < dist(c) \/ (dist(b) = dist(c) /\ b <= c)
    <3>1. x <= dist(c) /\ dist(c) \in Nat
      BY <1>2, <1>4
    <3>2. CASE dist(c) = x
      BY <1>5, <2>1, <3>2
    <3>3. CASE dist(c) # x
      BY <2>1, <3>1, <3>3
    <3> QED  BY <3>2, <3>3
  <2> QED  BY <2>1, <2>2
<1>7. CompandedEncode(a, law) = CHOOSE b_1 \in Code : First(b_1)
  BY Zenon DEF CompandedEncode, v2, dist
<1> DEFINE x1 == CompandedEncode(a, law)
<1>8. x1 \in Code /\ First(x1)
  <2> HIDE DEF First
  <2> QED  BY <1>6, <1>7, Zenon
<1>9. ASSUME NEW c \in Code, Decode2x(law, c) = v2 PROVE Decode2x(law, x1) = v2
  <2>1. dist(c) = 0
    BY <1>1, <1>9 DEF dist
  <2>2. dist(x1) <= 0
    BY <1>2, <1>8, <1>9, <2>1
  <2> DEFINE y == Decode2x(law, x1)
  <2>3. y \in Int /\ dist(x1) = (IF y >= v2 THEN y - v2 ELSE v2 - y)
    BY <1>8, DecodedRange DEF dist
  <2> HIDE DEF y
  <2> QED  BY <1>1, <2>2, <2>3 DEF y
<1> QED  BY <1>8, <1>9 DEF v2

LEMMA IeeeSum ==
  ASSUME NEW w \in IeeeWord
  PROVE  IsSum(AccFromIeee(w))
<1> DEFINE H == 2 ^ ScAcc
           F == 2 ^ FracBits
           g == 2 ^ GuardBits
           m == H + w.f * g
           n == NormAt(-m, w.x + 1, ScAcc)
           r == IF w.s THEN n ELSE [m |-> m, e |-> w.x + 1]
<1>1. H \in Nat \ {0} /\ F \in Nat \ {0} /\ g \in Nat \ {0} /\ H = F * g
  BY Units
<1>2. AccFromIeee(w) \in {Zero, Smallest, Largest, r}
  BY DEF AccFromIeee
<1>3. w.f \in 0 .. F - 1 /\ w.x \in 0..MaxExp
  BY DEF IeeeWord
<1>4. \A x \in Int : (H <= x /\ x < 2 * H) => Normal(x, ScAcc)
  BY AccNormal
<1>5. m \in Int /\ H <= m /\ m < 2 * H
  <2> HIDE DEF H, F, g
  <2>1. w.f * g \in Nat /\ w.f * g <= (F - 1) * g /\ (F - 1) * g = F * g - g
    BY <1>1, <1>3, MulMono
  <2> QED  BY <1>1, <2>1
<1>6. w.x + 1 \in Int
  BY <1>3
<1>7. IsSum(n)
  <2> HIDE DEF m
  <2>1. -m \in Int /\ -(16 * H) <= -m /\ -m < 16 * H
    <3> HIDE DEF H
    <3> QED  BY <1>1, <1>5
  <2> QED  BY <1>6, <2>1, NormAtSum
<1>8. IsSum([m |-> m, e |-> w.x + 1])
  <2>1. Normal(m, ScAcc)
    BY <1>4, <1>5
  <2> HIDE DEF m
  <2> QED  BY <1>5, <1>6, <2>1 DEF IsSum
<1>9. IsSum(r)
  <2> HIDE DEF m, n
  <2> QED  BY <1>7, <1>8, Zenon
<1>10. IsSum(Zero) /\ IsSum(Smallest) /\ IsSum(Largest)
  BY ZeroIsAcc, LargestIsAcc, AccIsSum
<1> HIDE DEF r
<1> QED  BY <1>2, <1>9, <1>10
=============================================================================
