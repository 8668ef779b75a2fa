----------------------------- MODULE MCDataPath -----------------------------
(***************************************************************************)
(* Instances of DataPath for TLC: short programs on chosen operands, at    *)
(* widths small enough for every accumulator (3 + 2 fraction bits, 4       *)
(* exponent bits) and every register (6 bits) to be tried.                 *)
(***************************************************************************)
EXTENDS DataPath, Bitwise, TLC

MCBitAnd(a, b) == a & b

MCAccNo == {0, 1}
MCRegNo == {1, 2, 17, 25}    \* r1, r2, r15 and sp

NoFlags == [N |-> FALSE, Z |-> FALSE, U |-> FALSE, V |-> FALSE]
Zeros   == [n \in AccNo |-> Zero]
Idle == [ r |-> [c \in RegNo |-> 0], a |-> Zeros, aPipe |-> <<Zeros, Zeros, Zeros>>,
          dau |-> NoFlags, flagPipe |-> <<NoFlags, NoFlags, NoFlags, NoFlags>>,
          cau |-> [n |-> FALSE, z |-> FALSE, v |-> FALSE, c |-> FALSE], ctr |-> 0,
          dauc |-> [rnd |-> 0, inp |-> "linear", out |-> "linear", cond |-> FALSE],
          mem |-> (0 :> Zero), raised |-> {}, taken |-> FALSE ]

\* Registers r1 and r2, accumulators a0 and a1 (established long ago), memory.
With(r1, r2, a0, a1, m) ==
  [Idle EXCEPT !.r[1] = r1, !.r[2] = r2, !.a = (0 :> a0 @@ 1 :> a1),
               !.aPipe = [k \in 1..3 |-> (0 :> a0 @@ 1 :> a1)], !.mem = m]

Accs  == {Zero} \cup [m: {m \in -64..63 : Normal(m, ScAcc)}, e: 1..MaxExp]
Words == [m: -8..7, e: 0..MaxExp]

-----------------------------------------------------------------------------
(* Sums and products at the edges of mantissa and exponent *)

Addends == {Zero} \cup [m: {32, 33, 63, -64, -63, -33}, e: {1, 2, 8, 14, 15}]
Factors == ([m: {0, 7, -8, -1}, e: {8}] \X [m: {0, 1, 7, -8, -7, -1}, e: {1, 2, 3, 7, 8, 9, 13, 14, 15}])
           \cup ([m: {0, 7, -8, -1}, e: {1, 15}] \X [m: {0, 1, 7, -8, -7, -1}, e: {1, 2, 14, 15}])
Signs == {<<FALSE, FALSE>>, <<TRUE, FALSE>>, <<FALSE, TRUE>>}

Sums == { <<With(0, 4, a, Zero, 0 :> f[1] @@ 4 :> f[2]),
            <<Da(3, 0, 1, At(1), At(2), NoZ, sg[1], sg[2])>> >> :
          a \in Addends, f \in Factors, sg \in Signs }

\* Terms one or two exponents apart that nearly cancel: 13 * 13 and -42 * 4.
Cancels == { <<With(0, 4, [m |-> -42, e |-> e], Zero, 0 :> [m |-> 5, e |-> 11] @@ 4 :> [m |-> 5, e |-> f]),
               <<Da(3, 0, 1, At(1), At(2), NoZ, sg[1], sg[2])>> >> :
             e \in 7..15, f \in 1..15, sg \in Signs }

FewWords == { [m |-> 0, e |-> 8], [m |-> -8, e |-> 9], [m |-> 7, e |-> 15], Zero }
FewAccs  == { [m |-> 33, e |-> 8], [m |-> -64, e |-> 15], Zero }
Fields   == { At(1), Inc(2), [p |-> 1, i |-> 6], [p |-> 1, i |-> 1], Acc(0), Acc(1) }

Shapes == { <<With(0, 4, a, b, 0 :> x @@ 4 :> y),
              <<Da(f[1], f[2], 1, At(2), yf, z, FALSE, FALSE)>> >> :
            a \in FewAccs, b \in FewAccs, x \in FewWords, y \in FewWords,
            f \in ({1, 2, 3} \X {0, 1, 4, 5}) \cup {<<1, 6>>},
            yf \in {At(1), Acc(0), Acc(1)}, z \in {NoZ, Inc(1), [p |-> 15, i |-> 7]} }

\* X and Y through one pointer, which X moves from word to word.
Shared == { <<With(0, 8, a, Zero, 0 :> x @@ 4 :> y @@ 8 :> Zero),
              <<Da(f[1], f[2], 1, Inc(1), yf, At(2), FALSE, FALSE)>> >> :
            a \in FewAccs, x \in FewWords, y \in FewWords, yf \in {At(1), Inc(1)},
            f \in ({1, 2, 3} \X {0, 4, 5}) \cup {<<1, 6>>} }

-----------------------------------------------------------------------------
(* Conversions *)

DaucWith(rnd, law, cond) == [rnd |-> rnd, inp |-> law, out |-> law, cond |-> cond]

ThroughRegisters ==
  { <<[With(0, 4, a, Zero, 0 :> 0) EXCEPT !.dauc.rnd = rnd], ThroughInteger(n, Acc(1), NoZ)>> :
    a \in Accs, rnd \in {0, 1, 3}, n \in {ByteBits, HalfBits, IntBits} }

ThroughMemory ==
  { <<With(0, 4, a, Zero, 0 :> 0), ThroughInteger(n, At(1), At(1))>> :
    a \in Accs, n \in {ByteBits, HalfBits, IntBits} }

Rounds == { <<With(0, 4, a, Zero, 0 :> Zero), <<Special("round", 1, Acc(0), NoZ)>> >> : a \in Accs }

IeeeWords ==
  { <<With(0, 4, Zero, Zero, 0 :> w @@ 4 :> Zero),
      <<Special("ieee", 0, At(1), At(2)), Special("dsp", 1, At(2), At(1))>> >> : w \in Words }

IeeeSpecials ==
  { <<With(0, 4, Zero, Zero, 0 :> w @@ 4 :> Zero), <<Special("dsp", 1, At(1), Inc(1))>> >> :
    w \in [s: BOOLEAN, x: {0, MaxExp}, f: {0, 1}] }

Bytes ==
  { <<[With(0, 4, Zero, Zero, 0 :> b @@ 4 :> 0) EXCEPT !.dauc = DaucWith(0, law, FALSE)],
      <<Special("ic", 0, At(1), NoZ), Special("oc", 1, Acc(0), At(2))>> >> :
    b \in Code, law \in {"linear", "mulaw", "alaw"} }

Seeds == { <<With(0, 4, Zero, Zero, 0 :> w), <<Special("seed", 1, At(1), NoZ)>> >> : w \in Words }

\* Buffers of three cells, walked over in place, also beyond their end.
Sweeps ==
  { <<[With(0, 0, Zero, a, 0 :> [m |-> 1, e |-> 8] @@ 4 :> [m |-> 3, e |-> 0] @@ 8 :> [m |-> -8, e |-> 9])
         EXCEPT !.dau.N = f[1], !.dau.Z = f[2], !.dauc.cond = cond],
      Repeats(InPlace(g), k)>> :
    a \in FewAccs, f \in BOOLEAN \X BOOLEAN, cond \in BOOLEAN,
    g \in {"ifalt", "ifaeq", "ifagt"}, k \in 1..4 }

-----------------------------------------------------------------------------
(* Operands that are not mapped: addresses 0 and 4 are, 60 is not *)

One == [m |-> 0, e |-> 8]
FaultyData ==
  { <<With(p, q, [m |-> 33, e |-> 8], Zero, 0 :> One @@ 4 :> One), <<Da(3, 0, 0, xf, yf, z, FALSE, FALSE)>> >> :
    p \in {0, 60}, q \in {4, 60}, xf \in Fields, yf \in Fields, z \in {NoZ, At(2), Inc(1)} }

FaultySpecials ==
  { <<With(p, q, [m |-> 33, e |-> 8], Zero, 0 :> One @@ 4 :> One), <<Special(g, 0, yf, z)>> >> :
    p \in {0, 60}, q \in {4, 60}, g \in {"round", "ieee", "int32", "ifalt"}, yf \in Fields,
    z \in {NoZ, At(2), Inc(1)} }

Move(op, rh, rp, ri) == [op |-> op, w |-> "long", rh |-> rh, direct |-> FALSE, x |-> 0, rp |-> rp, ri |-> ri]
FaultyMoves ==
  { <<With(p, 9, Zero, Zero, 0 :> 33), <<Move(op, rh, 1, ri)>> >> :
    p \in {0, 60}, op \in {"load", "store"}, rh \in {1, 2}, ri \in {0, 2, 22, 23} }

-----------------------------------------------------------------------------
(* The CAU *)

Operands2 == {0, 1, 7, 8, 15, 31, 32, 63}

Alus ==
  { <<With(x, y, Zero, Zero, 0 :> 0), <<AluReg(f, short, 1, 1, 2, "true")>> >> :
    x \in LongWord, y \in Operands2, f \in AluFunctions, short \in BOOLEAN }

OtherAlus ==
  { <<[With(x, 8, Zero, Zero, 0 :> 0) EXCEPT !.r[25] = x, !.cau.c = carry], <<w>> >> :
    x \in {0, 4, 31, 32, 63}, carry \in BOOLEAN,
    w \in { AluReg("add", FALSE, 25, 25, 23, "true"), AluReg("add", FALSE, 25, 25, 22, "cs"),
            AluReg("rol", TRUE, 1, 1, 0, "true"), AluReg("add", TRUE, 1, 1, 23, "agt"),
            [op |-> "imm", short |-> TRUE, f |-> "cmp", rd |-> 1, n |-> 15],
            [op |-> "imm", short |-> FALSE, f |-> "add", rd |-> 1, n |-> 8],
            [op |-> "add3", short |-> TRUE, rd |-> 1, rs3 |-> 2, n |-> 9],
            [op |-> "shiftor", rd |-> 1, rs |-> 2, n |-> 2],
            [op |-> "set24", rd |-> 1, n |-> 5] } }

Conditions ==
  { <<[With(x, y, Zero, Zero, 0 :> 0) EXCEPT !.r[17] = z, !.flagPipe = [k \in 1..4 |-> fl]],
      <<AluReg("cmp", FALSE, 1, 1, 2, "true"), [op |-> "if", c |-> c]>> >> :
    x \in {0, 31, 32}, y \in {0, 31, 32, 63}, z \in {0}, fl \in {NoFlags, [NoFlags EXCEPT !.N = TRUE]},
    c \in {"false", "pl", "mi", "ne", "eq", "vc", "vs", "cc", "cs", "ge", "lt", "gt", "le", "hi", "ls",
           "auc", "aus", "age", "alt", "ane", "aeq", "avc", "avs", "agt", "ale"} }

Rotations ==
  { <<[With(x, 0, Zero, Zero, 0 :> 0) EXCEPT !.cau.c = carry],
      <<AluReg(f[1], short, 1, 1, 0, "true"), AluReg(f[2], short, 1, 1, 0, "true")>> >> :
    x \in LongWord, carry \in BOOLEAN, f \in {<<"rol", "ror">>, <<"ror", "rol">>}, short \in BOOLEAN }

ReverseCarry ==
  { <<With(0, 2 ^ (k - 1), Zero, Zero, 0 :> 0), Repeats(AluReg("cradd", short, 1, 1, 2, "true"), 2 ^ k)>> :
    k \in 1..IntBits, short \in BOOLEAN }

Loops == { <<With(x, 0, Zero, Zero, 0 :> 0), Repeats([op |-> "loop", rm |-> 1], 3)>> : x \in {0, 1, 2, 31, 32, 62, 63} }

Moves ==
  { <<With(0, 9, Zero, Zero, 0 :> v @@ 4 :> 0), <<LoadWord(w, rh, 1, ri), StoreDirect(w, rh, 4)>> >> :
    w \in {"byte", "char", "hbyte", "ushort", "short", "long"}, rh \in {1, 2}, ri \in {0, 22, 23},
    v \in {0, 1, 4, 5, 7} }

-----------------------------------------------------------------------------
MCStarts ==
  << Sums, Cancels, Shapes, Shared, ThroughRegisters, ThroughMemory, Rounds,
     IeeeWords, IeeeSpecials, Bytes, Seeds, Sweeps, FaultyData, FaultySpecials, FaultyMoves, Alus, OtherAlus, Conditions, Rotations,
     ReverseCarry, Loops, Moves >>

\* For what is said of taps and of underflow.
Taps == << {st \in Shapes : Tap(st[2][1])} >>
Underflows == << {st \in Sums : st[1].a[0].e = 1} >>
=============================================================================
