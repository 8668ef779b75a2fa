-------------------------- MODULE DataPathProofs --------------------------
(***************************************************************************)
(* Theorems about DataPath: what an aborted instruction has changed; that   *)
(* registers, accumulators and flags keep their types, so that every       *)
(* result is normal and in range; what the flags of the ALU say of its     *)
(* operands; what short programs of conversions, rotations and moves bring *)
(* back; how far a multiply/accumulate is from the exact sum of its terms; *)
(* and what programs that repeat an instruction, a conditional load over a *)
(* buffer or an addition with reversed carries, leave at every length.     *)
(* For all widths, registers and programs.                                 *)
(***************************************************************************)
EXTENDS DataPath, ArithmeticProofs, SequenceTheorems, TLAPS

-----------------------------------------------------------------------------
(* The struct's shape: what the operators on it leave alone *)

Shape(t) == DOMAIN t = StateFields /\ DOMAIN t.r = RegNo

\* u differs from t at most in what the CAU's part of the struct is not made of.
Kept(u, t) == Shape(u) /\ u.r = t.r /\ u.mem = t.mem /\ u.cau = t.cau

LEMMA TickKeeps ==
  ASSUME NEW t, Shape(t)
  PROVE  LET u == LatencyTick(t) IN
         /\ Kept(u, t) /\ u.a = t.a /\ u.dau = t.dau /\ u.ctr = t.ctr
         /\ u.raised = {} /\ u.flagPipe[4] = t.flagPipe[3]
BY SMT DEF Shape, StateFields, Kept, LatencyTick

LEMMA RaiseKeeps ==
  ASSUME NEW t, Shape(t), NEW vn
  PROVE  LET u == Raise(t, vn) IN
         /\ Kept(u, t) /\ u.a = t.a /\ u.dau = t.dau /\ u.ctr = t.ctr
         /\ u.raised = t.raised \cup {vn}
BY SMT DEF Shape, StateFields, Kept, Raise

\* Moving a pointer changes that pointer only.
LEMMA PostmodKeeps ==
  ASSUME NEW t, Shape(t), NEW p, NEW i, NEW size
  PROVE  LET u == DaPostmod(t, p, i, size) IN
         /\ Shape(u) /\ u.mem = t.mem /\ u.cau = t.cau
         /\ u.a = t.a /\ u.dau = t.dau /\ u.ctr = t.ctr /\ u.raised = t.raised
         /\ \A c \in RegNo \ {p} : u.r[c] = t.r[c]
BY SMT DEF Shape, StateFields, DaPostmod

LEMMA ReadMovesKeeps ==
  ASSUME NEW t, Shape(t), NEW f, NEW size
  PROVE  LET u == DaReadMoves(t, f, size) IN
         /\ Shape(u) /\ u.mem = t.mem /\ u.cau = t.cau
         /\ u.a = t.a /\ u.dau = t.dau /\ u.ctr = t.ctr /\ u.raised = t.raised
         /\ \A c \in RegNo : u.r[c] = t.r[c] \/ (c = f.p /\ ~FromAcc(f))
<1>1. CASE FromAcc(f)
  BY <1>1 DEF DaReadMoves
<1>2. CASE ~FromAcc(f)
  <2>1. DaReadMoves(t, f, size) = DaPostmod(t, f.p, f.i, size)
    BY <1>2 DEF DaReadMoves
  <2> QED  BY <1>2, <2>1, PostmodKeeps
<1> QED  BY <1>1, <1>2

LEMMA WithFlagsKeeps ==
  ASSUME NEW t, Shape(t), NEW f
  PROVE  Kept(WithFlags(t, f), t) /\ WithFlags(t, f).raised = t.raised
BY SMT DEF Shape, StateFields, Kept, WithFlags

LEMMA DaFlagsKeeps ==
  ASSUME NEW t, Shape(t), NEW a, NEW vu
  PROVE  LET u == DaFlags(t, a, vu).t IN
         Kept(u, t) /\ u.raised \subseteq t.raised \cup {UV}
<1> DEFINE r == IF vu THEN DaRange(a) ELSE a
           f == [N |-> Negative(r), Z |-> r.e = 0, U |-> vu /\ TooSmall(a), V |-> vu /\ OutOfRange(a)]
           u == WithFlags(t, f)
<1>1. DaFlags(t, a, vu).t = IF f.U \/ f.V THEN Raise(u, UV) ELSE u
  BY DEF DaFlags
<1> HIDE DEF f
<1>2. Kept(u, t) /\ u.raised = t.raised
  BY WithFlagsKeeps
<1>3. Kept(Raise(u, UV), u) /\ Raise(u, UV).raised = u.raised \cup {UV}
  BY <1>2, RaiseKeeps DEF Kept
<1> QED  BY <1>1, <1>2, <1>3 DEF Kept

\* A store that meets a bus error raises it and does nothing else.
LEMMA StoreZKeeps ==
  ASSUME NEW t, Shape(t), BUSERR \notin t.raised,
         NEW z, NEW y, NEW size, NEW v
  PROVE  LET u == DaStoreZ(t, z, y, size, v) IN
         /\ Shape(u)
         /\ BUSERR \in u.raised => u = Raise(t, BUSERR)
<1>1. CASE ~DaZWrites(z, y)
  BY <1>1 DEF DaStoreZ
<1>2. CASE DaZWrites(z, y) /\ ~Mapped(t, ZAddr(t, z, y))
  BY <1>2, RaiseKeeps DEF DaStoreZ, Kept
<1>3. CASE DaZWrites(z, y) /\ Mapped(t, ZAddr(t, z, y))
  <2> DEFINE u == [t EXCEPT !.mem[ZAddr(t, z, y)] = v]
  <2>1. Shape(u) /\ u.raised = t.raised
    BY SMT DEF Shape, StateFields
  <2>2. DaStoreZ(t, z, y, size, v) = DaPostmod(u, ZReg(z, y), z.i, size)
    BY <1>3 DEF DaStoreZ
  <2> HIDE DEF u
  <2> QED  BY <2>1, <2>2, PostmodKeeps
<1> QED  BY <1>1, <1>2, <1>3

\* So the end of a DA instruction leaves the result, whether it stores it or not.
Resulting(t, n, r) == [t EXCEPT !.a[n] = r]

LEMMA FinishKeeps ==
  ASSUME NEW t, Shape(t), BUSERR \notin t.raised,
         NEW n, NEW r, NEW z, NEW y, NEW size, NEW v
  PROVE  LET u == Finish(t, n, r, z, y, size, v) IN
         /\ Shape(u)
         /\ BUSERR \in u.raised => u = Raise(Resulting(t, n, r), BUSERR) /\ Kept(u, t)
<1> DEFINE b == Resulting(t, n, r)
<1>1. Shape(b) /\ Kept(b, t) /\ b.raised = t.raised
  BY SMT DEF Shape, StateFields, Kept, Resulting
<1>2. Finish(t, n, r, z, y, size, v) = DaStoreZ(b, z, y, size, v)
  BY DEF Finish, Resulting
<1> HIDE DEF b
<1>3. Kept(Raise(b, BUSERR), t)
  BY <1>1, RaiseKeeps DEF Kept
<1> QED  BY <1>1, <1>2, <1>3, StoreZKeeps DEF b

LEMMA FinishUnstored ==
  ASSUME NEW t, NEW n, NEW r, NEW y, NEW size, NEW v
  PROVE  Finish(t, n, r, NoZ, y, size, v) = Resulting(t, n, r)
BY DEF Finish, DaStoreZ, DaZWrites, NoZ, Resulting

-----------------------------------------------------------------------------
(* An instruction that meets a bus error *)

\* What an instruction has computed when it comes to its store.
LEMMA ConversionKeeps ==
  ASSUME NEW t, Shape(t), NEW w, NEW Y, w.g \in SpecialFunctions
  PROVE  LET c == Conversion(t, w, Y) IN
         Kept(c.t, t) /\ c.t.raised \subseteq t.raised \cup {UV, NAN}
<1> DEFINE a == DaAdder(Y)
           Flagged(fl) == [res |-> fl.res, t |-> fl.t, z |-> AccPack(fl.res)]
           c == Conversion(t, w, Y)
           OK(u) == Kept(u, t) /\ u.raised \subseteq t.raised \cup {UV, NAN}
<1>0. \A x, vu : OK(DaFlags(t, x, vu).t)
  BY DaFlagsKeeps
<1>1. \A x, vu : OK(Flagged(DaFlags(t, x, vu)).t)
  BY <1>0
<1>2. OK(t)
  BY DEF Kept
<1>3. \A b : OK([DaFlags(t, b, FALSE).t EXCEPT !.dau.U = AsWord(Y).e = MaxExp /\ SeedBits(AsWord(Y)).e = 0])
  <2> TAKE b
  <2> DEFINE u == DaFlags(t, b, FALSE).t
  <2>1. OK(u)
    BY <1>0, Zenon
  <2> HIDE DEF u
  <2>2. \A x : OK([u EXCEPT !.dau.U = x])
    BY <2>1, SMT DEF Kept, Shape, StateFields
  <2> QED  BY <2>2, Zenon DEF u
<1>4. OK(DspSpecial(t, Y.raw).t)
  <2> DEFINE f == [N |-> Y.raw.x # 0 /\ Y.raw.s, Z |-> Y.raw.x = 0, U |-> Y.raw.x = 0 /\ Y.raw.f # 0,
                   V |-> Y.raw.x # 0 /\ (~Y.raw.s \/ Y.raw.f # 0)]
             u == WithFlags(t, f)
  <2>1. DspSpecial(t, Y.raw).t = IF Y.raw.x # 0 /\ Y.raw.f # 0 THEN Raise(u, NAN) ELSE u
    BY DEF DspSpecial
  <2> HIDE DEF f
  <2>2. Kept(u, t) /\ u.raised = t.raised
    BY WithFlagsKeeps
  <2>3. Kept(Raise(u, NAN), u) /\ Raise(u, NAN).raised = u.raised \cup {NAN}
    BY <2>2, RaiseKeeps DEF Kept
  <2> QED  BY <2>1, <2>2, <2>3 DEF Kept
<1> HIDE DEF OK
<1>5. CASE w.g = "ic"
  <2>1. c = Flagged(DaFlags(t, IcValue(t, IntOperand(Y, ByteBits)), FALSE))
    BY <1>5 DEF Conversion
  <2> QED  BY <1>1, <2>1, Zenon DEF OK
<1>6. CASE w.g \in {"oc", "int16", "int32", "ieee", "ifalt", "ifaeq", "ifagt"}
  <2>1. CASE w.g = "oc"
    BY <1>2, <2>1, Zenon DEF Conversion, OK
  <2>2. CASE w.g = "int16"
    BY <1>2, <2>2 DEF Conversion, OK
  <2>3. CASE w.g = "int32"
    BY <1>2, <2>3 DEF Conversion, OK
  <2>4. CASE w.g = "ieee"
    BY <1>2, <2>4 DEF Conversion, OK
  <2>5. CASE w.g \in {"ifalt", "ifaeq", "ifagt"}
    BY <1>2, <2>5 DEF Conversion, OK
  <2> QED  BY <1>6, <2>1, <2>2, <2>3, <2>4, <2>5
<1>7. CASE w.g = "float16"
  <2>1. c = Flagged(DaFlags(t, AccFromI64(SignedOperand(Y, HalfBits)), FALSE))
    BY <1>7 DEF Conversion
  <2> QED  BY <1>1, <2>1, Zenon DEF OK
<1>8. CASE w.g = "float32"
  <2>1. c = Flagged(DaFlags(t, AccFromI64(SignedOperand(Y, IntBits)), FALSE))
    BY <1>8 DEF Conversion
  <2> QED  BY <1>1, <2>1, Zenon DEF OK
<1>9. CASE w.g = "round"
  <2>1. c = Flagged(DaFlags(t, AccRound(a), TRUE))
    BY <1>9 DEF Conversion
  <2> QED  BY <1>1, <2>1, Zenon DEF OK
<1>10. CASE w.g = "dsp"
  <2>1. c.t = IF Y.raw.x \in {0, MaxExp} THEN DspSpecial(t, Y.raw).t
              ELSE Flagged(DaFlags(t, AccFromIeee(Y.raw), TRUE)).t
    BY <1>10, SMT DEF Conversion
  <2> QED  BY <1>1, <1>4, <2>1, Zenon DEF OK
<1>11. CASE w.g = "seed"
  <2> DEFINE sb == SeedBits(AsWord(Y))
             fl == DaFlags(t, AccUnpack(sb), FALSE)
             u  == [fl.t EXCEPT !.dau.U = AsWord(Y).e = MaxExp /\ sb.e = 0]
  <2>0. c = [res |-> fl.res, z |-> sb, t |-> u]
    BY <1>11 DEF Conversion
  <2>1. c.t = u
    <3> HIDE DEF fl, sb, u, c
    <3> QED  BY <2>0
  <2> QED  BY <1>3, <2>1, Zenon DEF OK
<1> QED  BY <1>5, <1>6, <1>7, <1>8, <1>9, <1>10, <1>11 DEF SpecialFunctions, OK

-----------------------------------------------------------------------------
\* AbortKeepsState for one instruction, from t to u: x and y are read in turn, and
\* unstored is what there is when the store is all that is left to do.
Aborted(t, u, x, y, size, unstored) ==
  LET t1 == DaReadMoves(t, x, 4)
      t2 == DaReadMoves(t1, y, size)
  IN  /\ u.mem = t.mem /\ u.cau = t.cau
      /\ IF DaReadFaults(t, x) \/ DaReadFaults(t1, y)
         THEN /\ u.r = IF DaReadFaults(t, x) THEN t.r ELSE t1.r
              /\ u.a = t.a /\ u.dau = t.dau /\ u.ctr = t.ctr
         ELSE u = Raise(unstored, BUSERR) /\ u.r = t2.r

\* What exec_da() has computed when it comes to its accumulator.
DaSum(t0, w) ==
  LET X   == DaRead(t0, w.x)
      t1  == DaReadMoves(t0, w.x, 4)
      Y   == DaRead(t1, w.y)
      t2  == DaReadMoves(t1, w.y, 4)
      ad  == AdderIn(t2, w, Y)
      p   == ProductIn(t2, w, X, Y)
  IN  DaFlags(t2, DauAdd(IF w.fs THEN AccNegate(ad) ELSE ad, IF w.ss THEN [p EXCEPT !.m = -@] ELSE p), TRUE)

LEMMA DaEnds ==
  ASSUME NEW t0, NEW w,
         ~DaReadFaults(t0, w.x), ~DaReadFaults(DaReadMoves(t0, w.x, 4), w.y)
  PROVE  \E v : ExecDa(t0, w) = Finish(DaSum(t0, w).t, w.n, DaSum(t0, w).res, w.z,
                                      DaRead(DaReadMoves(t0, w.x, 4), w.y), 4, v)
<1> DEFINE X   == DaRead(t0, w.x)
           t1  == DaReadMoves(t0, w.x, 4)
           Y   == DaRead(t1, w.y)
           t2  == DaReadMoves(t1, w.y, 4)
           ad  == AdderIn(t2, w, Y)
           p   == ProductIn(t2, w, X, Y)
           sum == DauAdd(IF w.fs THEN AccNegate(ad) ELSE ad, IF w.ss THEN [p EXCEPT !.m = -@] ELSE p)
           fl  == DaFlags(t2, sum, TRUE)
           v   == IF ~Tap(w) THEN AccPack(fl.res)
                  ELSE IF Y.acc THEN AccPack([t2.a EXCEPT ![w.n] = fl.res][Y.n]) ELSE Y.raw
<1>1. ExecDa(t0, w) = Finish(fl.t, w.n, fl.res, w.z, Y, 4, v)
  <2>1. ExecDa(t0, w) = IF DaReadFaults(t0, w.x) THEN Raise(t0, BUSERR)
                        ELSE IF DaReadFaults(t1, w.y) THEN Raise(t1, BUSERR)
                        ELSE Finish(fl.t, w.n, fl.res, w.z, Y, 4, v)
    BY DEF ExecDa
  <2> HIDE DEF fl, v, Y
  <2> QED  BY <2>1
<1>2. DaSum(t0, w) = fl
  BY DEF DaSum
<1> HIDE DEF fl, v
<1> QED  BY <1>1, <1>2

\* The fields of an instruction but for Z are those of its unstored form.
LEMMA UnstoredDa ==
  ASSUME NEW t0, NEW w, w.op = "da",
         ~DaReadFaults(t0, w.x), ~DaReadFaults(DaReadMoves(t0, w.x, 4), w.y)
  PROVE  ExecInsn(t0, Unstored(w)) = Resulting(DaSum(t0, w).t, w.n, DaSum(t0, w).res)
<1> DEFINE s == Unstored(w)
<1>1. /\ s.op = "da" /\ s.fmt = w.fmt /\ s.m = w.m /\ s.n = w.n /\ s.x = w.x /\ s.y = w.y
      /\ s.z = NoZ /\ s.fs = w.fs /\ s.ss = w.ss
  BY DEF Unstored, Da
<1> HIDE DEF s
<1>2. DaSum(t0, s) = DaSum(t0, w)
  <2>1. \A t, X, Y : AdderIn(t, s, Y) = AdderIn(t, w, Y) /\ ProductIn(t, s, X, Y) = ProductIn(t, w, X, Y)
    BY <1>1 DEF AdderIn, ProductIn
  <2> QED  BY <1>1, <2>1, Zenon DEF DaSum
<1>3. PICK v : ExecDa(t0, s) = Finish(DaSum(t0, s).t, s.n, DaSum(t0, s).res, s.z,
                                    DaRead(DaReadMoves(t0, s.x, 4), s.y), 4, v)
  BY <1>1, DaEnds
<1>4. ExecInsn(t0, s) = ExecDa(t0, s)
  BY <1>1 DEF ExecInsn
<1> QED  BY <1>1, <1>2, <1>3, <1>4, FinishUnstored DEF s

LEMMA DaAborts ==
  ASSUME NEW t0, Shape(t0), t0.raised = {}, NEW w, w.op = "da"
  PROVE  LET u == ExecDa(t0, w) IN
         /\ Shape(u)
         /\ BUSERR \in u.raised => Aborted(t0, u, w.x, w.y, 4, ExecInsn(t0, Unstored(w)))
<1> DEFINE t1 == DaReadMoves(t0, w.x, 4)
           t2 == DaReadMoves(t1, w.y, 4)
           fl == DaSum(t0, w)
           u  == ExecDa(t0, w)
           i  == ExecInsn(t0, Unstored(w))
<1> SUFFICES Shape(u) /\ (BUSERR \in u.raised => Aborted(t0, u, w.x, w.y, 4, i))
  OBVIOUS
<1>1. /\ Shape(t1) /\ t1.mem = t0.mem /\ t1.cau = t0.cau /\ t1.raised = {}
      /\ t1.a = t0.a /\ t1.dau = t0.dau /\ t1.ctr = t0.ctr
  BY ReadMovesKeeps
<1>2. Shape(t2) /\ t2.mem = t0.mem /\ t2.cau = t0.cau /\ t2.raised = {}
  BY <1>1, ReadMovesKeeps
<1>3. Kept(fl.t, t2) /\ BUSERR \notin fl.t.raised
  <2> DEFINE Y   == DaRead(t1, w.y)
             ad  == AdderIn(t2, w, Y)
             p   == ProductIn(t2, w, DaRead(t0, w.x), Y)
             sum == DauAdd(IF w.fs THEN AccNegate(ad) ELSE ad, IF w.ss THEN [p EXCEPT !.m = -@] ELSE p)
  <2>1. fl = DaFlags(t2, sum, TRUE)
    BY DEF DaSum
  <2> HIDE DEF sum, t2, fl
  <2>2. \A vu : Kept(DaFlags(t2, sum, vu).t, t2) /\ BUSERR \notin DaFlags(t2, sum, vu).t.raised
    BY <1>2, DaFlagsKeeps DEF BUSERR, UV
  <2> QED  BY <2>1, <2>2, Zenon
<1> SUFFICES Shape(u) /\ (BUSERR \in u.raised =>
               /\ u.mem = t0.mem /\ u.cau = t0.cau
               /\ IF DaReadFaults(t0, w.x) \/ DaReadFaults(t1, w.y)
                  THEN /\ u.r = IF DaReadFaults(t0, w.x) THEN t0.r ELSE t1.r
                       /\ u.a = t0.a /\ u.dau = t0.dau /\ u.ctr = t0.ctr
                  ELSE u = Raise(i, BUSERR) /\ u.r = t2.r)
  BY DEF Aborted
<1>4. DaReadFaults(t0, w.x) => u = Raise(t0, BUSERR)
  BY DEF ExecDa
<1>5. ~DaReadFaults(t0, w.x) /\ DaReadFaults(t1, w.y) => u = Raise(t1, BUSERR)
  BY DEF ExecDa
<1>6. CASE DaReadFaults(t0, w.x)
  <2>1. Kept(u, t0) /\ u.a = t0.a /\ u.dau = t0.dau /\ u.ctr = t0.ctr
    BY <1>4, <1>6, RaiseKeeps
  <2> QED  BY <1>6, <2>1 DEF Kept
<1>7. CASE ~DaReadFaults(t0, w.x) /\ DaReadFaults(t1, w.y)
  <2>1. Kept(u, t1) /\ u.a = t1.a /\ u.dau = t1.dau /\ u.ctr = t1.ctr
    BY <1>1, <1>5, <1>7, RaiseKeeps
  <2> QED  BY <1>1, <1>7, <2>1 DEF Kept
<1>8. CASE ~DaReadFaults(t0, w.x) /\ ~DaReadFaults(t1, w.y)
  <2>1. i = Resulting(fl.t, w.n, fl.res)
    BY <1>8, UnstoredDa
  <2>2. PICK v : u = Finish(fl.t, w.n, fl.res, w.z, DaRead(t1, w.y), 4, v)
    BY <1>8, DaEnds
  <2> HIDE DEF t1, t2, fl, u, i
  <2>3. Shape(u) /\ (BUSERR \in u.raised => u = Raise(i, BUSERR) /\ Kept(u, fl.t))
    BY <1>3, <2>1, <2>2, FinishKeeps DEF Kept
  <2> QED  BY <1>2, <1>3, <1>8, <2>3 DEF Kept
<1> QED  BY <1>6, <1>7, <1>8

\* A conversion asks for the function and the accumulator of its instruction.
LEMMA ConversionUnstored ==
  ASSUME NEW t, NEW w, NEW Y, w.op = "special", w.g \in SpecialFunctions
  PROVE  LET s == Unstored(w) IN
         /\ s.op = "special" /\ s.g = w.g /\ s.n = w.n /\ s.y = w.y /\ s.z = NoZ
         /\ Conversion(t, s, Y) = Conversion(t, w, Y)
<1> DEFINE s == Unstored(w)
<1>1. s.op = "special" /\ s.g = w.g /\ s.n = w.n /\ s.y = w.y /\ s.z = NoZ
  BY DEF Unstored, Special
<1> HIDE DEF s
<1>2. Holds(t, s.g) <=> Holds(t, w.g)
  BY <1>1
<1>3. Conversion(t, s, Y) = Conversion(t, w, Y)
  BY <1>1, <1>2, Zenon DEF Conversion
<1> QED  BY <1>1, <1>3 DEF s

LEMMA SpecialAborts ==
  ASSUME NEW t0, Shape(t0), t0.raised = {}, NEW w, w.op = "special", w.g \in SpecialFunctions
  PROVE  LET u == ExecDaSpecial(t0, w) IN
         /\ Shape(u)
         /\ BUSERR \in u.raised =>
              Aborted(t0, u, Acc(0), w.y, ReadSize(w.g), ExecInsn(t0, Unstored(w)))
<1> DEFINE Y  == DaRead(t0, w.y)
           t1 == DaReadMoves(t0, w.y, ReadSize(w.g))
           c  == Conversion(t1, w, Y)
           b  == Resulting(c.t, w.n, c.res)
           k  == DaPostmodOnly(b, w.z, Y, StoreSize(w.g))
           z  == Finish(c.t, w.n, c.res, w.z, Y, StoreSize(w.g), c.z)
           u  == ExecDaSpecial(t0, w)
           s  == Unstored(w)
           i  == ExecInsn(t0, s)
<1>1. u = IF DaReadFaults(t0, w.y) THEN Raise(t0, BUSERR)
          ELSE IF Withheld(t1, w) THEN k ELSE z
  BY DEF ExecDaSpecial, Resulting
<1>3. /\ Shape(t1) /\ t1.mem = t0.mem /\ t1.cau = t0.cau /\ t1.raised = {}
  BY ReadMovesKeeps
<1>4. Kept(c.t, t1) /\ BUSERR \notin c.t.raised
  <2> HIDE DEF t1, Y
  <2> QED  BY <1>3, ConversionKeeps DEF BUSERR, UV, NAN
<1>5. ~DaReadFaults(t0, w.y) /\ ~Withheld(t1, w) => i = b
  <2>1. /\ s.op = "special" /\ s.g = w.g /\ s.n = w.n /\ s.y = w.y /\ s.z = NoZ
        /\ Conversion(t1, s, Y) = c
    BY ConversionUnstored
  <2>2. Withheld(t1, s) <=> Withheld(t1, w)
    <3> HIDE DEF s, t1
    <3> QED  BY <2>1 DEF Withheld
  <2>3. i = ExecDaSpecial(t0, s)
    <3> HIDE DEF s
    <3> QED  BY <2>1 DEF ExecInsn
  <2> SUFFICES ASSUME ~DaReadFaults(t0, s.y), ~Withheld(t1, s) PROVE i = b
    BY <2>1, <2>2
  <2>4. ExecDaSpecial(t0, s) = Finish(Conversion(t1, s, Y).t, s.n, Conversion(t1, s, Y).res, s.z, Y,
                                      StoreSize(s.g), Conversion(t1, s, Y).z)
    <3> HIDE DEF s
    <3> QED  BY <2>1 DEF ExecDaSpecial
  <2> HIDE DEF s, c, i, Y, t1
  <2> QED  BY <2>1, <2>3, <2>4, FinishUnstored
<1>6. /\ DaReadMoves(t0, Acc(0), 4) = t0 /\ ~DaReadFaults(t0, Acc(0))
  BY DEF DaReadMoves, DaReadFaults, FromAcc, Acc
<1> SUFFICES Shape(u) /\ (BUSERR \in u.raised =>
               /\ u.mem = t0.mem /\ u.cau = t0.cau
               /\ IF DaReadFaults(t0, w.y)
                  THEN u.r = t0.r /\ u.a = t0.a /\ u.dau = t0.dau /\ u.ctr = t0.ctr
                  ELSE u = Raise(i, BUSERR) /\ u.r = t1.r)
  BY <1>6 DEF Aborted
<1> HIDE DEF t1, c, u, Y, i
<1>7. Shape(z) /\ (BUSERR \in z.raised => z = Raise(b, BUSERR) /\ Kept(z, c.t))
  BY <1>4, FinishKeeps DEF Kept
<1>8. Shape(k) /\ BUSERR \notin k.raised
  <2>1. Shape(b) /\ b.raised = c.t.raised
    BY <1>4, SMT DEF Shape, StateFields, Kept, Resulting
  <2> HIDE DEF b
  <2> QED  BY <1>4, <2>1, PostmodKeeps DEF DaPostmodOnly
<1> HIDE DEF k, z, b
<1>9. CASE DaReadFaults(t0, w.y)
  <2>1. Kept(u, t0) /\ u.a = t0.a /\ u.dau = t0.dau /\ u.ctr = t0.ctr
    BY <1>1, <1>9, RaiseKeeps
  <2> QED  BY <1>9, <2>1 DEF Kept
<1>10. CASE ~DaReadFaults(t0, w.y) /\ Withheld(t1, w)
  BY <1>1, <1>8, <1>10
<1>11. CASE ~DaReadFaults(t0, w.y) /\ ~Withheld(t1, w)
  BY <1>1, <1>3, <1>4, <1>5, <1>7, <1>11 DEF Kept
<1> QED  BY <1>9, <1>10, <1>11

LEMMA RegwKeeps ==
  ASSUME NEW t, Shape(t), NEW code, NEW v
  PROVE  LET u == Regw(t, code, v) IN
         /\ Shape(u) /\ u.mem = t.mem /\ u.cau = t.cau /\ u.dau = t.dau
         /\ u.raised = t.raised
         /\ \A c \in RegNo : u.r[c] = IF c = code THEN v ELSE t.r[c]
<1>1. CASE code \in RegNo
  BY <1>1, SMT DEF Shape, StateFields, Regw
<1>2. CASE code \notin RegNo
  BY <1>2 DEF Regw
<1> QED  BY <1>1, <1>2

LEMMA AluKeeps ==
  ASSUME NEW t, Shape(t), NEW f, NEW a, NEW b, NEW rd, NEW h
  PROVE  LET u == Alu(t, f, a, b, rd, h)
             r == AluOp(t, f, a, b, h)
             v == IF f \in {"shl", "shr"} THEN r.res ELSE Extended(r.res, h, LongH)
         IN  /\ Shape(u) /\ u.raised = t.raised
             /\ f # "res5" => u.cau = r.f
             /\ \A c \in RegNo : u.r[c] = IF c = rd /\ StoresResult(f) THEN v ELSE t.r[c]
<1> DEFINE r == AluOp(t, f, a, b, h)
           v == IF f \in {"shl", "shr"} THEN r.res ELSE Extended(r.res, h, LongH)
           k == [t EXCEPT !.cau = r.f]
           u == Alu(t, f, a, b, rd, h)
<1> SUFFICES /\ Shape(u) /\ u.raised = t.raised
             /\ f # "res5" => u.cau = r.f
             /\ \A c \in RegNo : u.r[c] = IF c = rd /\ StoresResult(f) THEN v ELSE t.r[c]
  OBVIOUS
<1>1. u = IF f = "res5" THEN t ELSE IF StoresResult(f) THEN Regw(k, rd, v) ELSE k
  BY DEF Alu
<1> HIDE DEF r, v
<1>2. Shape(k) /\ k.r = t.r /\ k.raised = t.raised /\ k.cau = r.f
  BY SMT DEF Shape, StateFields
<1> HIDE DEF k, u
<1>3. LET x == Regw(k, rd, v) IN
      /\ Shape(x) /\ x.cau = k.cau /\ x.raised = k.raised
      /\ \A c \in RegNo : x.r[c] = IF c = rd THEN v ELSE k.r[c]
  BY <1>2, RegwKeeps
<1> QED  BY <1>1, <1>2, <1>3 DEF StoresResult

LEMMA CaPostmodKeeps ==
  ASSUME NEW t, Shape(t), NEW w
  PROVE  LET u == CaPostmod(t, w) IN
         Shape(u) /\ u.mem = t.mem /\ u.dau = t.dau /\ u.raised = t.raised
BY RegwKeeps DEF CaPostmod

\* A load or a store that faults raises it and does nothing else.
Undone(t, u) ==
  u.r = t.r /\ u.mem = t.mem /\ u.cau = t.cau /\ u.a = t.a /\ u.dau = t.dau /\ u.ctr = t.ctr

LEMMA MovesAbort ==
  ASSUME NEW t0, Shape(t0), t0.raised = {}, NEW w
  PROVE  /\ LET u == ExecLoad(t0, w) IN
            Shape(u) /\ (BUSERR \in u.raised => Undone(t0, u))
         /\ LET u == ExecStore(t0, w) IN
            Shape(u) /\ (BUSERR \in u.raised => Undone(t0, u))
<1>1. LET u == Raise(t0, BUSERR) IN Shape(u) /\ Undone(t0, u)
  BY RaiseKeeps DEF Kept, Undone
<1>2. ASSUME Mapped(t0, MoveAddr(t0, w))
      PROVE  LET u == ExecLoad(t0, w) IN Shape(u) /\ BUSERR \notin u.raised
  <2> DEFINE v == WExtend(w.w, t0.mem[MoveAddr(t0, w)])
             p == CaPostmod(t0, w)
             k == [p EXCEPT !.cau = FlagsNz(v, LongH)]
  <2>1. ExecLoad(t0, w) = Regw(k, w.rh, v)
    BY <1>2 DEF ExecLoad
  <2>2. Shape(p) /\ p.raised = {}
    BY CaPostmodKeeps
  <2> HIDE DEF p, v
  <2>3. Shape(k) /\ k.raised = {}
    BY <2>2, SMT DEF Shape, StateFields
  <2> HIDE DEF k
  <2> QED  BY <2>1, <2>3, RegwKeeps
<1>3. ASSUME Mapped(t0, MoveAddr(t0, w))
      PROVE  LET u == ExecStore(t0, w) IN Shape(u) /\ BUSERR \notin u.raised
  <2> DEFINE v == WSelect(w.w, Opval(t0, w.rh))
             x == MoveAddr(t0, w)
             k == [t0 EXCEPT !.mem[x] = v]
  <2>1. ExecStore(t0, w) = CaPostmod(k, w)
    BY <1>3 DEF ExecStore
  <2> HIDE DEF v, x
  <2>2. Shape(k) /\ k.raised = {}
    BY SMT DEF Shape, StateFields
  <2> HIDE DEF k
  <2> QED  BY <2>1, <2>2, CaPostmodKeeps
<1> QED  BY <1>1, <1>2, <1>3 DEF ExecLoad, ExecStore

\* The other instructions meet no bus error.
CauOps == {"alu", "imm", "add3", "shiftor", "set24", "if", "loop"}

LEMMA OthersKeep ==
  ASSUME NEW t0, Shape(t0), t0.raised = {}, NEW w, w.op \in CauOps
  PROVE  LET u == ExecInsn(t0, w) IN Shape(u) /\ BUSERR \notin u.raised
<1> DEFINE Good(u) == Shape(u) /\ u.raised = {}
<1>1. \A f, a, b, rd, h : Good(Alu(t0, f, a, b, rd, h))
  BY AluKeeps
<1>2. Good(t0)
  OBVIOUS
<1>3. ASSUME NEW t, Good(t)
      PROVE  \A code, v : Good(Regw(t, code, v))
  BY <1>3, RegwKeeps
<1>4. \A f : Good([t0 EXCEPT !.cau = f])
  BY SMT DEF Shape, StateFields
<1>5. \A x : Good([t0 EXCEPT !.taken = x])
  BY SMT DEF Shape, StateFields
<1> HIDE DEF Good
<1>6. Good(ExecAluReg(t0, w)) /\ Good(ExecAluImm(t0, w)) /\ Good(ExecAdd3(t0, w))
  BY <1>1, <1>2, Zenon DEF ExecAluReg, ExecAluImm, ExecAdd3
<1>7. Good(ExecShiftOr(t0, w)) /\ Good(ExecSet24(t0, w))
  BY <1>2, <1>3, <1>4, Zenon DEF ExecShiftOr, ExecSet24
<1>8. Good(ExecIf(t0, w)) /\ Good(ExecLoop(t0, w))
  BY <1>3, <1>5, Zenon DEF ExecIf, ExecLoop
<1> USE DEF Good
<1>9. CASE w.op \in {"alu", "imm", "add3"}
  BY <1>6, <1>9 DEF ExecInsn
<1>10. CASE w.op \in {"shiftor", "set24"}
  BY <1>7, <1>10 DEF ExecInsn
<1>11. CASE w.op \in {"if", "loop"}
  BY <1>8, <1>11 DEF ExecInsn
<1> QED  BY <1>9, <1>10, <1>11 DEF CauOps

-----------------------------------------------------------------------------
(* Abort *)

\* The struct keeps its shape, and what is left of the program is well-formed.
Inv0 == Shape(d) /\ Program(prog)

LEMMA TailProgram ==
  ASSUME NEW p, Program(p), p # <<>>
  PROVE  Program(Tail(p)) /\ Program(<<>>) /\ WellFormed(Head(p))
<1>1. p \in Seq({p[i] : i \in DOMAIN p}) /\ \A i \in DOMAIN p : WellFormed(p[i])
  BY DEF Program
<1>2. Len(p) \in Nat \ {0} /\ DOMAIN p = 1 .. Len(p)
  BY <1>1, EmptySeq, SMT
<1>3. WellFormed(Head(p))
  BY <1>1, <1>2
<1>4. Len(Tail(p)) = Len(p) - 1 /\ DOMAIN Tail(p) = 1 .. Len(p) - 1
      /\ \A i \in DOMAIN Tail(p) : Tail(p)[i] = p[i + 1] /\ i + 1 \in DOMAIN p
  BY <1>1, <1>2, SMT
<1>5. Tail(p) \in Seq({Tail(p)[i] : i \in DOMAIN Tail(p)})
  <2> DEFINE q == Tail(p)
             S == {q[i] : i \in DOMAIN q}
  <2>1. q \in Seq({p[i] : i \in DOMAIN p})
    BY <1>1, <1>2, SMT
  <2>2. q \in [1 .. Len(p) - 1 -> {p[i] : i \in DOMAIN p}]
    BY <1>4, <2>1, LenProperties
  <2> HIDE DEF q
  <2>3. q = [i \in DOMAIN q |-> q[i]] /\ DOMAIN q = 1 .. Len(p) - 1
    BY <2>2
  <2>4. q \in [1 .. Len(p) - 1 -> S]
    BY <2>3
  <2>5. Len(p) - 1 \in Nat
    BY <1>2
  <2> HIDE DEF S
  <2>6. q \in Seq(S)
    BY <2>4, <2>5, SeqDef
  <2> QED  BY <2>6 DEF q, S
<1>6. Program(<<>>)
  BY DEF Program
<1> QED  BY <1>1, <1>3, <1>4, <1>5, <1>6 DEF Program

\* The operands are met in the same way before and after the tick.
LEMMA ReadsAlike ==
  ASSUME NEW t, Shape(t), NEW u, Shape(u), u.r = t.r, u.mem = t.mem, NEW f, NEW size
  PROVE  LET t1 == DaReadMoves(t, f, size)
             u1 == DaReadMoves(u, f, size)
         IN  /\ Shape(t1) /\ Shape(u1) /\ u1.r = t1.r /\ u1.mem = t1.mem
             /\ DaReadFaults(u, f) <=> DaReadFaults(t, f)
<1> DEFINE step == CASE f.i = 0 -> 0
                     [] f.i = 6 -> -size
                     [] f.i = 7 -> size
                     [] OTHER -> t.r[16 + f.i]
           r1 == [t.r EXCEPT ![f.p] = Low(@ + step, LongH)]
<1>1. DaReadMoves(t, f, size).r = IF FromAcc(f) THEN t.r ELSE r1
  BY SMT DEF Shape, StateFields, DaReadMoves, DaPostmod
<1>2. DaReadMoves(u, f, size).r = IF FromAcc(f) THEN t.r ELSE r1
  BY SMT DEF Shape, StateFields, DaReadMoves, DaPostmod
<1> HIDE DEF r1
<1> QED  BY <1>1, <1>2, ReadMovesKeeps DEF DaReadFaults, Mapped

\* AbortKeepsState for the instruction w, from t to u.
KeepsState(t, u, w) ==
  LET da == w.op \in {"da", "special"}
      x  == IF w.op = "da" THEN w.x ELSE Acc(0)
      y  == IF da THEN w.y ELSE Acc(0)
      t1 == DaReadMoves(t, x, 4)
      t2 == DaReadMoves(t1, y, IF w.op = "da" THEN 4 ELSE ReadSize(w.g))
  IN  /\ u.mem = t.mem /\ u.cau = t.cau
      /\ IF ~da \/ DaReadFaults(t, x) \/ DaReadFaults(t1, y)
         THEN /\ u.r = IF DaReadFaults(t, x) THEN t.r ELSE t1.r
              /\ u.a = t.a /\ u.dau = t.dau /\ u.ctr = t.ctr
         ELSE u = Raise(Executed(t, Unstored(w)), BUSERR) /\ u.r = t2.r

LEMMA ExecutedAborts ==
  ASSUME NEW t, Shape(t), NEW w, WellFormed(w)
  PROVE  LET u == Executed(t, w) IN
         Shape(u) /\ (BUSERR \in u.raised => KeepsState(t, u, w))
<1> DEFINE t0 == LatencyTick(t)
           u  == Executed(t, w)
           i  == Executed(t, Unstored(w))
<1> SUFFICES Shape(u) /\ (BUSERR \in u.raised => KeepsState(t, u, w))
  OBVIOUS
<1>1. Kept(t0, t) /\ t0.a = t.a /\ t0.dau = t.dau /\ t0.ctr = t.ctr /\ t0.raised = {}
  BY TickKeeps
<1>2. u = ExecInsn(t0, w) /\ i = ExecInsn(t0, Unstored(w))
  BY DEF Executed
<1>3. /\ w.op \in CauOps \cup {"da", "special", "load", "store"}
      /\ w.op = "special" => w.g \in SpecialFunctions
  BY SMT DEF WellFormed, CauOps
<1> HIDE DEF t0, u, i
<1>4. ASSUME NEW x, NEW y, NEW size, Aborted(t0, u, x, y, size, i)
      PROVE  Aborted(t, u, x, y, size, i)
  <2> DEFINE t1 == DaReadMoves(t, x, 4)
             u1 == DaReadMoves(t0, x, 4)
             t2 == DaReadMoves(t1, y, size)
             u2 == DaReadMoves(u1, y, size)
  <2>1. t0.r = t.r /\ t0.mem = t.mem /\ t0.cau = t.cau /\ Shape(t0)
    BY <1>1 DEF Kept
  <2>2. /\ Shape(t1) /\ Shape(u1) /\ u1.r = t1.r /\ u1.mem = t1.mem
        /\ DaReadFaults(t0, x) <=> DaReadFaults(t, x)
    BY <2>1, ReadsAlike
  <2>3. u2.r = t2.r /\ (DaReadFaults(u1, y) <=> DaReadFaults(t1, y))
    <3> HIDE DEF t1, u1
    <3> QED  BY <2>2, ReadsAlike
  <2>4. /\ u.mem = t0.mem /\ u.cau = t0.cau
        /\ IF DaReadFaults(t0, x) \/ DaReadFaults(u1, y)
           THEN /\ u.r = IF DaReadFaults(t0, x) THEN t0.r ELSE u1.r
                /\ u.a = t0.a /\ u.dau = t0.dau /\ u.ctr = t0.ctr
           ELSE u = Raise(i, BUSERR) /\ u.r = u2.r
    BY <1>4 DEF Aborted
  <2> SUFFICES /\ u.mem = t.mem /\ u.cau = t.cau
               /\ IF DaReadFaults(t, x) \/ DaReadFaults(t1, y)
                  THEN /\ u.r = IF DaReadFaults(t, x) THEN t.r ELSE t1.r
                       /\ u.a = t.a /\ u.dau = t.dau /\ u.ctr = t.ctr
                  ELSE u = Raise(i, BUSERR) /\ u.r = t2.r
    BY DEF Aborted
  <2> HIDE DEF t1, u1, t2, u2
  <2> QED  BY <1>1, <2>1, <2>2, <2>3, <2>4
<1>5. CASE w.op = "da"
  <2>1. Shape(u) /\ (BUSERR \in u.raised => Aborted(t0, u, w.x, w.y, 4, i))
    BY <1>1, <1>2, <1>5, DaAborts DEF ExecInsn, Kept
  <2>2. BUSERR \in u.raised => Aborted(t, u, w.x, w.y, 4, i)
    BY <1>4, <2>1
  <2>3. Aborted(t, u, w.x, w.y, 4, i) => KeepsState(t, u, w)
    BY <1>5 DEF Aborted, KeepsState, i
  <2> QED  BY <2>1, <2>2, <2>3
<1>6. CASE w.op = "special"
  <2>1. Shape(u) /\ (BUSERR \in u.raised => Aborted(t0, u, Acc(0), w.y, ReadSize(w.g), i))
    BY <1>1, <1>2, <1>3, <1>6, SpecialAborts DEF ExecInsn, Kept
  <2>2. BUSERR \in u.raised => Aborted(t, u, Acc(0), w.y, ReadSize(w.g), i)
    BY <1>4, <2>1
  <2>3. Aborted(t, u, Acc(0), w.y, ReadSize(w.g), i) => KeepsState(t, u, w)
    BY <1>6 DEF Aborted, KeepsState, i
  <2> QED  BY <2>1, <2>2, <2>3
<1>7. CASE w.op \in {"load", "store"}
  <2>1. Shape(u) /\ (BUSERR \in u.raised => Undone(t0, u))
    BY <1>1, <1>2, <1>7, MovesAbort DEF ExecInsn, Kept
  <2>2. ~DaReadFaults(t, Acc(0)) /\ DaReadMoves(t, Acc(0), 4) = t
    BY DEF DaReadMoves, DaReadFaults, FromAcc, Acc
  <2> QED  BY <1>1, <1>7, <2>1, <2>2 DEF Undone, KeepsState, Kept
<1>8. CASE w.op \in CauOps
  BY <1>1, <1>2, <1>8, OthersKeep DEF Kept
<1> QED  BY <1>3, <1>5, <1>6, <1>7, <1>8

LEMMA InitShape == Init => Inv0
<1> SUFFICES ASSUME Init PROVE Inv0
  OBVIOUS
<1>1. PICK family \in DOMAIN Starts : \E st \in Starts[family] : start = st /\ d = st[1] /\ prog = st[2]
  BY DEF Init
<1>2. PICK st \in Starts[family] : d = st[1] /\ prog = st[2]
  BY <1>1
<1> QED  BY <1>2, StartsAssumption DEF Inv0, Shape, StateOK

LEMMA StepShape == Inv0 /\ [Next]_vars => Inv0'
<1> SUFFICES ASSUME Inv0, [Next]_vars PROVE Inv0'
  OBVIOUS
<1>1. CASE Step
  <2>1. prog # <<>> /\ d' = Executed(d, Head(prog)) /\ (prog' = <<>> \/ prog' = Tail(prog))
    BY <1>1 DEF Step
  <2>2. Program(prog') /\ WellFormed(Head(prog))
    BY <2>1, TailProgram DEF Inv0
  <2> QED  BY <2>1, <2>2, ExecutedAborts DEF Inv0
<1>2. CASE UNCHANGED vars
  BY <1>2 DEF Inv0, vars
<1> QED  BY <1>1, <1>2 DEF Next

\* An instruction that meets a bus error keeps what it has done before: at X
\* nothing, at Y the move of X's pointer, at Z both moves, the result, its flags
\* and its errors, as exec_da() and exec_da_special() meet their operands in turn.
THEOREM AbortedInstructions == Spec => AbortKeepsState
<1> DEFINE Aborts == BUSERR \in d'.raised => KeepsState(d, d', Head(prog))
<1>1. Inv0 /\ [Next]_vars => [Aborts]_vars
  <2> SUFFICES ASSUME Inv0, Step PROVE Aborts
    BY DEF Next
  <2>1. prog # <<>> /\ d' = Executed(d, Head(prog))
    BY DEF Step
  <2>2. WellFormed(Head(prog))
    BY <2>1, TailProgram DEF Inv0
  <2> QED  BY <2>1, <2>2, ExecutedAborts DEF Inv0
<1>2. AbortKeepsState <=> [][Aborts]_vars
  BY DEF AbortKeepsState, KeepsState
<1> HIDE DEF Aborts
<1>3. Inv0 /\ [][Next]_vars => [][Aborts]_vars
  BY <1>1, StepShape, PTL
<1> QED  BY <1>2, <1>3, InitShape, PTL DEF Spec

-----------------------------------------------------------------------------
(* Widths *)

\* The widths of an instruction: long words are a multiple of short ones.
LEMMA Widths ==
  /\ IntBits \in Nat \ {0} /\ {ByteBits, HalfBits} \subseteq 1..IntBits /\ 2 * ByteBits <= IntBits
  /\ LongH \in Nat \ {0} /\ ShortH \in Nat \ {0}
  /\ 2 ^ IntBits = 2 * LongH /\ 2 ^ HalfBits = 2 * ShortH
  /\ \E k \in Nat \ {0} : LongH = ShortH * k
<1>1. /\ IntBits \in Nat \ {0} /\ ByteBits \in 1..IntBits /\ HalfBits \in 1..IntBits
      /\ 2 * ByteBits <= IntBits
  BY WidthAssumption DEF IntBits, ScAcc
<1>2. \A n \in 1..IntBits : 2 ^ (n - 1) \in Nat \ {0} /\ 2 ^ n = 2 * 2 ^ (n - 1)
  <2> TAKE n \in 1..IntBits
  <2>1. /\ n - 1 \in 0 .. 4 * IntBits /\ 1 \in 0 .. 4 * IntBits /\ (n - 1) + 1 <= 4 * IntBits
        /\ (n - 1) + 1 = n
    BY <1>1
  <2>2. 2 ^ (n - 1) \in Nat \ {0} /\ 2 ^ ((n - 1) + 1) = 2 ^ (n - 1) * 2 ^ 1
    BY <2>1, Powers
  <2> QED  BY <2>1, <2>2
<1>3. /\ HalfBits - 1 \in 0 .. 4 * IntBits /\ IntBits - HalfBits \in 0 .. 4 * IntBits
      /\ (HalfBits - 1) + (IntBits - HalfBits) <= 4 * IntBits
      /\ (HalfBits - 1) + (IntBits - HalfBits) = IntBits - 1
  BY <1>1
<1>4. /\ 2 ^ (IntBits - HalfBits) \in Nat \ {0}
      /\ 2 ^ ((HalfBits - 1) + (IntBits - HalfBits)) = 2 ^ (HalfBits - 1) * 2 ^ (IntBits - HalfBits)
  BY <1>3, Powers
<1>5. LongH = ShortH * 2 ^ (IntBits - HalfBits)
  BY <1>3, <1>4 DEF LongH, ShortH
<1> QED  BY <1>1, <1>2, <1>4, <1>5 DEF LongH, ShortH

LEMMA WordHs ==
  ASSUME NEW short
  PROVE  /\ WordH(short) \in Nat \ {0}
         /\ \E k \in Nat \ {0} : LongH = WordH(short) * k
<1>1. LongH = LongH * 1
  BY Widths
<1> QED  BY <1>1, Widths DEF WordH

LEMMA WordRange ==
  ASSUME NEW x \in Int, NEW h \in Nat \ {0}
  PROVE  Low(x, LongH) \in LongWord /\ Signed(x, h) \in Int /\ Extended(x, h, LongH) \in LongWord
<1>1. \A y \in Int : y % (2 * LongH) \in LongWord
  BY Widths, SMT DEF LongWord
<1>2. Signed(x, h) \in Int
  BY LowRange DEF Signed
<1> QED  BY <1>1, <1>2 DEF Low, Extended

\* Extending a result by its sign keeps its lower bits.
LEMMA ExtendedLow ==
  ASSUME NEW h \in Nat \ {0}, \E k \in Nat \ {0} : LongH = h * k, NEW x \in Int
  PROVE  Low(Extended(x, h, LongH), h) = Low(x, h)
<1>1. PICK k \in Nat \ {0} : LongH = h * k
  OBVIOUS
<1> DEFINE l == Low(x, h)
           s == Signed(x, h)
<1>2. l \in 0 .. 2 * h - 1 /\ s = (IF l >= h THEN l - 2 * h ELSE l)
  BY LowRange DEF Signed, Sign
<1> HIDE DEF l, s
<1>3. 2 * LongH = (2 * h) * k /\ 2 * h <= 2 * LongH
  BY <1>1, Times
<1>4. Extended(x, h, LongH) = IF l >= h THEN l - 2 * h + 2 * LongH ELSE l
  <2>1. CASE l >= h
    <3>1. l - 2 * h + 2 * LongH \in 0 .. 2 * LongH - 1
      BY <1>2, <1>3, <2>1, Widths
    <3>2. s = (2 * LongH) * (-1) + (l - 2 * h + 2 * LongH)
      BY <1>2, <2>1, Widths
    <3>3. s % (2 * LongH) = l - 2 * h + 2 * LongH
      BY <3>1, <3>2, Widths
    <3> QED  BY <2>1, <3>3 DEF Extended, s
  <2>2. CASE l < h
    <3>1. s \in 0 .. 2 * LongH - 1
      BY <1>2, <1>3, <2>2, Widths
    <3>2. s % (2 * LongH) = s
      BY <3>1, Widths
    <3> QED  BY <1>2, <2>2, <3>2 DEF Extended, s
  <2> QED  BY <1>2, <2>1, <2>2
<1>5. CASE l >= h
  <2>1. l - 2 * h + 2 * LongH = (2 * h) * (k - 1) + l /\ k - 1 \in Int
    BY <1>2, <1>3
  <2>2. (l - 2 * h + 2 * LongH) % (2 * h) = l
    <3> DEFINE q == k - 1
    <3>1. \A y \in Int : y = (2 * h) * q + l => y % (2 * h) = l
      BY <1>2, <2>1, SMT
    <3> QED  BY <1>2, <2>1, <3>1, Widths
  <2> QED  BY <1>4, <1>5, <2>2 DEF Low, l
<1>6. CASE l < h
  <2>1. l % (2 * h) = l
    BY <1>2
  <2> QED  BY <1>4, <1>6, <2>1 DEF Low, l
<1> QED  BY <1>2, <1>5, <1>6

-----------------------------------------------------------------------------
(* Sums of terms: induction as the absence of a least counterexample *)

\* A sum of n terms: the recursive function exists, and its values are integers.
Sums(f, g, n) == f = [i \in 0..n |-> IF i = 0 THEN 0 ELSE f[i - 1] + g[i]]

LEMMA SumsExist ==
  ASSUME NEW n \in Nat, NEW g \in [1..n -> Int]
  PROVE  \E f : Sums(f, g, n)
<1> DEFINE T == {k \in Nat : k <= n /\ ~\E f \in [0..k -> Int] : Sums(f, g, k)}
<1> SUFFICES ASSUME T # {} PROVE FALSE
  OBVIOUS
<1>1. T \subseteq Nat
  OBVIOUS
<1> HIDE DEF T
<1>2. PICK k \in T : \A y \in T : k <= y
  BY <1>1, Least
<1>3. k \in Nat /\ k <= n /\ k - 1 \notin T
  <2>1. k \in Nat /\ k <= n
    BY DEF T
  <2> QED  BY <1>2, <2>1
<1>4. CASE k = 0
  <2>1. [i \in 0..0 |-> 0] \in [0..k -> Int] /\ Sums([i \in 0..0 |-> 0], g, k)
    BY <1>4 DEF Sums
  <2> QED  BY <1>2, <2>1 DEF T
<1>5. CASE k # 0
  <2>1. k - 1 \in Nat /\ k - 1 <= n
    BY <1>3, <1>5
  <2>2. PICK f \in [0 .. k - 1 -> Int] : Sums(f, g, k - 1)
    BY <1>3, <2>1 DEF T
  <2> DEFINE h == [i \in 0..k |-> IF i = k THEN f[k - 1] + g[k] ELSE f[i]]
  <2>3. h \in [0..k -> Int]
    BY <1>3, <1>5, <2>1
  <2>4. \A i \in 0..k : h[i] = IF i = 0 THEN 0 ELSE h[i - 1] + g[i]
    <3> TAKE i \in 0..k
    <3>1. CASE i = k
      BY <1>3, <1>5, <2>1, <3>1
    <3>2. CASE i # k
      <4>1. i \in 0 .. k - 1
        BY <1>3, <3>2
      <4>2. f[i] = IF i = 0 THEN 0 ELSE f[i - 1] + g[i]
        BY <2>2, <4>1, Zenon DEF Sums
      <4>3. h[i] = f[i] /\ (i # 0 => h[i - 1] = f[i - 1])
        BY <1>3, <3>2, <4>1
      <4> QED  BY <4>2, <4>3
    <3> QED  BY <3>1, <3>2
  <2> HIDE DEF h
  <2>5. Sums(h, g, k)
    BY <2>3, <2>4 DEF Sums
  <2> QED  BY <1>2, <2>3, <2>5 DEF T
<1> QED  BY <1>4, <1>5

LEMMA SumsAreIntegers ==
  ASSUME NEW n \in Nat, NEW g \in [1..n -> Int], NEW f, Sums(f, g, n)
  PROVE  \A i \in 0..n : f[i] \in Int
<1>1. \A i \in 0..n : f[i] = IF i = 0 THEN 0 ELSE f[i - 1] + g[i]
  BY Zenon DEF Sums
<1> DEFINE T == {i \in 0..n : f[i] \notin Int}
<1> SUFFICES ASSUME T # {} PROVE FALSE
  OBVIOUS
<1>2. T \subseteq Nat
  OBVIOUS
<1> HIDE DEF T
<1>3. PICK k \in T : \A y \in T : k <= y
  BY <1>2, Least
<1>4. k \in 0..n /\ k \in Nat /\ f[k] \notin Int /\ k - 1 \notin T
  BY <1>2, <1>3 DEF T
<1>5. CASE k = 0
  BY <1>1, <1>4, <1>5
<1>6. CASE k # 0
  <2>1. k - 1 \in 0..n /\ f[k - 1] \in Int
    BY <1>4, <1>6 DEF T
  <2> QED  BY <1>1, <1>4, <1>6, <2>1
<1> QED  BY <1>5, <1>6

\* Reversed bits are an integer.
LEMMA BitRevInt ==
  ASSUME NEW x \in Int, NEW n \in 0..IntBits
  PROVE  BitRev(x, n) \in Int
<1> DEFINE g == [i \in 1..n |-> ((x \div 2 ^ (i - 1)) % 2) * 2 ^ (n - i)]
           F(f) == f = [i \in 0..n |-> IF i = 0 THEN 0
                                       ELSE f[i - 1] + ((x \div 2 ^ (i - 1)) % 2) * 2 ^ (n - i)]
           rev == CHOOSE f : F(f)
<1>1. n \in Nat
  BY Widths
<1>2. g \in [1..n -> Int]
  <2>1. \A i \in 1..n : 2 ^ (i - 1) \in Nat \ {0} /\ 2 ^ (n - i) \in Nat \ {0}
    <3> TAKE i \in 1..n
    <3>1. i - 1 \in 0 .. 4 * IntBits /\ n - i \in 0 .. 4 * IntBits /\ (i - 1) + (n - i) <= 4 * IntBits
      BY Widths
    <3> QED  BY <3>1, Powers
  <2>2. \A a, b \in Nat \ {0} : ((x \div a) % 2) * b \in Int
    OBVIOUS
  <2> QED  BY <2>1, <2>2
<1>3. \A f : F(f) <=> Sums(f, g, n)
  <2> TAKE f
  <2>1. [i \in 0..n |-> IF i = 0 THEN 0 ELSE f[i - 1] + ((x \div 2 ^ (i - 1)) % 2) * 2 ^ (n - i)]
          = [i \in 0..n |-> IF i = 0 THEN 0 ELSE f[i - 1] + g[i]]
    BY <1>1
  <2> QED  BY <2>1, Zenon DEF Sums
<1>4. \E f : F(f)
  <2> HIDE DEF F, g
  <2> QED  BY <1>1, <1>2, <1>3, SumsExist, Zenon
<1>5. F(rev)
  <2> HIDE DEF F
  <2> QED  BY <1>4, Zenon
<1>6. rev[n] \in Int
  <2> HIDE DEF rev, F, g
  <2>1. Sums(rev, g, n) /\ n \in 0..n
    BY <1>1, <1>3, <1>5
  <2> QED  BY <1>1, <1>2, <2>1, SumsAreIntegers
<1>7. BitRev(x, n) = rev[n]
  BY DEF BitRev
<1> QED  BY <1>6, <1>7

-----------------------------------------------------------------------------
(* What the registers hold *)

LEMMA Registers ==
  ASSUME NEW t, t.r \in [RegNo -> LongWord], NEW code \in Source
  PROVE  Opval(t, code) \in LongWord
<1>1. {0, 1, 2 * LongH - 1} \subseteq LongWord
  BY Widths DEF LongWord
<1>2. CASE code \in RegNo
  BY <1>2, RegAssumption DEF Opval
<1>3. CASE code \in {0, 22, 23}
  BY <1>1, <1>3 DEF Opval
<1> QED  BY <1>2, <1>3 DEF Source

LEMMA RegwRegs ==
  ASSUME NEW t, Shape(t), t.r \in [RegNo -> LongWord], NEW code, NEW v \in LongWord
  PROVE  Regw(t, code, v).r \in [RegNo -> LongWord]
<1>1. CASE code \in RegNo
  BY <1>1, SMT DEF Shape, StateFields, Regw
<1>2. CASE code \notin RegNo
  BY <1>2 DEF Regw
<1> QED  BY <1>1, <1>2

\* A bitwise operation on words is below 2^IntBits.
LEMMA Bitwise ==
  ASSUME NEW a \in LongWord, NEW b \in LongWord
  PROVE  BitAnd(a, b) \in 0..a /\ BitOr(a, b) \in LongWord /\ BitXor(a, b) \in Int
<1>1. LongWord = 0 .. 2 ^ IntBits - 1
  BY Widths DEF LongWord
<1>2. BitAnd(a, b) \in 0..a /\ BitAnd(a, b) <= b /\ BitOr(a, b) < 2 ^ IntBits
  BY <1>1, BitAssumption
<1> QED  BY <1>1, <1>2, Widths DEF LongWord, BitOr, BitXor

LEMMA Shifts ==
  ASSUME NEW b \in Int
  PROVE  2 ^ Shift(b) \in Nat \ {0}
<1>1. Shift(b) \in 0 .. 4 * IntBits /\ 0 \in 0 .. 4 * IntBits /\ Shift(b) + 0 <= 4 * IntBits
  BY Widths DEF Shift
<1> QED  BY <1>1, Powers

\* What the ALU computes is an integer; what it shifts logically is a word of
\* the width of the operation.
LEMMA AluOpResult ==
  ASSUME NEW t, NEW f \in AluFunctions \ {"res5"}, NEW a \in Int, NEW b \in Int,
         NEW h \in {LongH, ShortH}
  PROVE  /\ AluOp(t, f, a, b, h).res \in Int
         /\ f \in {"shl", "shr"} => AluOp(t, f, a, b, h).res \in 0 .. 2 * h - 1
<1> DEFINE ua == Low(a, h)
           ub == Low(b, h)
           cin == IF t.cau.c THEN 1 ELSE 0
           r == AluOp(t, f, a, b, h)
<1>1. h \in Nat \ {0} /\ 2 * h - 1 <= 2 * LongH - 1 /\ Width(h) \in 0..IntBits
  <2>1. ShortH <= LongH
    BY Widths, Times
  <2> QED  BY <2>1, Widths DEF Width
<1>2. ua \in 0 .. 2 * h - 1 /\ ub \in 0 .. 2 * h - 1 /\ ua \in LongWord /\ ub \in LongWord
  <2>1. ua \in 0 .. 2 * h - 1 /\ ub \in 0 .. 2 * h - 1
    BY <1>1, LowRange
  <2>2. 0 .. 2 * h - 1 \subseteq LongWord
    BY <1>1, Widths DEF LongWord
  <2> QED  BY <2>1, <2>2
<1>3. \A x \in Int : Low(x, h) \in 0 .. 2 * h - 1
  BY <1>1, LowRange
<1> HIDE DEF ua, ub
<1>4. CASE f \in {"add", "rol"}
  <2>1. r = AluAdd(a, b, 0, h) \/ r = AluAdd(a, a, cin, h)
    BY <1>4 DEF AluOp
  <2>2. \A x, y \in Int, c \in {0, 1} : AluAdd(x, y, c, h).res \in Int
    BY <1>3 DEF AluAdd
  <2> QED  BY <1>4, <2>1, <2>2
<1>5. CASE f \in {"sub", "cmp", "rsub"}
  <2>1. r = AluSub(a, b, h) \/ r = AluSub(b, a, h)
    BY <1>5 DEF AluOp
  <2>2. \A x, y \in Int : AluSub(x, y, h).res \in Int
    BY <1>3 DEF AluSub
  <2> QED  BY <1>5, <2>1, <2>2
<1>6. CASE f = "cradd"
  <2> DEFINE sum == BitRev(Low(a, h), Width(h)) + BitRev(Low(b, h), Width(h))
  <2>1. r.res = BitRev(Low(sum, h), Width(h))
    BY <1>6 DEF AluOp, Cradd
  <2>2. sum \in Int
    BY <1>1, <1>3, BitRevInt
  <2> HIDE DEF sum
  <2> QED  BY <1>1, <1>3, <1>6, <2>1, <2>2, BitRevInt
<1>7. CASE f \in {"andc", "xor", "or", "and", "btst"}
  <2>1. r.res \in {ua - BitAnd(ua, ub), BitXor(ua, ub), BitOr(ua, ub), BitAnd(ua, ub)}
    BY <1>7 DEF AluOp, Plain, ua, ub
  <2>2. BitAnd(ua, ub) \in 0..ua /\ BitOr(ua, ub) \in LongWord /\ BitXor(ua, ub) \in Int
    BY <1>2, Bitwise
  <2>3. {ua, BitAnd(ua, ub), BitOr(ua, ub), BitXor(ua, ub)} \subseteq Int
    BY <1>2, <2>2 DEF LongWord
  <2> QED  BY <1>7, <2>1, <2>3
<1>8. CASE f = "shl"
  <2>1. r.res = Low(a * 2 ^ Shift(b), h)
    BY <1>8 DEF AluOp, Plain
  <2> QED  BY <1>3, <2>1, Shifts
<1>9. CASE f = "shr"
  <2>1. r.res = ua \div 2 ^ Shift(b)
    BY <1>9 DEF AluOp, Plain, ua
  <2>2. \A y \in Nat \ {0} : ua \div y \in 0..ua
    BY <1>2
  <2>3. ua \div 2 ^ Shift(b) \in 0..ua
    BY <2>2, Shifts
  <2> QED  BY <1>1, <1>2, <2>1, <2>3
<1>10. CASE f = "asr"
  <2>1. r.res = Low(Signed(a, h) \div 2 ^ Shift(b), h)
    BY <1>10 DEF AluOp, Plain
  <2>2. Signed(a, h) \div 2 ^ Shift(b) \in Int
    <3>1. \A x \in Int, y \in Nat \ {0} : x \div y \in Int
      OBVIOUS
    <3>2. Signed(a, h) \in Int
      BY <1>1, WordRange
    <3> QED  BY <3>1, <3>2, Shifts
  <2> QED  BY <1>3, <1>10, <2>1, <2>2
<1>11. CASE f = "ror"
  <2>1. r.res = ua \div 2 + cin * h
    BY <1>11 DEF AluOp, Ror, ua
  <2> QED  BY <1>1, <1>2, <1>11, <2>1
<1> QED  BY <1>4, <1>5, <1>6, <1>7, <1>8, <1>9, <1>10, <1>11 DEF AluFunctions

RegsTyped(t) == t.r \in [RegNo -> LongWord]

LEMMA AluRegs ==
  ASSUME NEW t, Shape(t), RegsTyped(t), NEW f \in AluFunctions, NEW a \in Int, NEW b \in Int,
         NEW rd, NEW h \in {LongH, ShortH}
  PROVE  RegsTyped(Alu(t, f, a, b, rd, h))
<1> DEFINE r == AluOp(t, f, a, b, h)
           v == IF f \in {"shl", "shr"} THEN r.res ELSE Extended(r.res, h, LongH)
           k == [t EXCEPT !.cau = r.f]
           u == Alu(t, f, a, b, rd, h)
<1>1. u = IF f = "res5" THEN t ELSE IF StoresResult(f) THEN Regw(k, rd, v) ELSE k
  BY DEF Alu
<1>2. f # "res5" => v \in LongWord
  <2>1. SUFFICES ASSUME f # "res5" PROVE v \in LongWord
    OBVIOUS
  <2>2. r.res \in Int /\ (f \in {"shl", "shr"} => r.res \in 0 .. 2 * h - 1)
    BY <2>1, AluOpResult
  <2>3. h \in Nat \ {0} /\ 0 .. 2 * h - 1 \subseteq LongWord
    <3>1. ShortH <= LongH
      BY Widths, Times
    <3> QED  BY <3>1, Widths DEF LongWord
  <2> HIDE DEF r
  <2> QED  BY <2>2, <2>3, WordRange
<1> HIDE DEF r, v, u
<1>3. Shape(k) /\ RegsTyped(k)
  BY SMT DEF Shape, StateFields, RegsTyped
<1> HIDE DEF k
<1>4. f # "res5" => RegsTyped(Regw(k, rd, v))
  BY <1>2, <1>3, RegwRegs DEF RegsTyped
<1> QED  BY <1>1, <1>3, <1>4 DEF u

LEMMA ExceptOutside ==
  ASSUME NEW A, NEW B, NEW f \in [A -> B], NEW p, p \notin A, NEW x
  PROVE  [f EXCEPT ![p] = x] \in [A -> B]
OBVIOUS

LEMMA PostmodRegs ==
  ASSUME NEW t, Shape(t), RegsTyped(t), NEW p, NEW f, Increment(f), NEW size \in Int
  PROVE  RegsTyped(DaPostmod(t, p, f.i, size))
<1> DEFINE step == CASE f.i = 0 -> 0 [] f.i = 6 -> -size [] f.i = 7 -> size [] OTHER -> t.r[16 + f.i]
<1>1. step \in Int
  <2>1. CASE f.i \in {0, 6, 7}
    BY <2>1
  <2>2. CASE f.i \in 1..5
    <3>1. t.r[16 + f.i] \in LongWord
      BY <2>2 DEF Increment, RegsTyped
    <3>2. step = t.r[16 + f.i]
      BY <2>2
    <3> QED  BY <3>1, <3>2, Widths DEF LongWord
  <2> QED  BY <2>1, <2>2 DEF Increment
<1>2. DaPostmod(t, p, f.i, size) = [t EXCEPT !.r[p] = Low(@ + step, LongH)]
  BY DEF DaPostmod
<1> HIDE DEF step
<1>3. p \in RegNo => Low(t.r[p] + step, LongH) \in LongWord
  <2>1. p \in RegNo => t.r[p] + step \in Int
    BY <1>1, Widths DEF RegsTyped, LongWord
  <2> QED  BY <2>1, WordRange, Widths
<1>4. \A x : (p \in RegNo => x \in LongWord) => RegsTyped([t EXCEPT !.r[p] = x])
  <2> TAKE x
  <2>1. CASE p \in RegNo
    BY <2>1, SMT DEF Shape, StateFields, RegsTyped
  <2>2. CASE p \notin RegNo
    <3>1. [t EXCEPT !.r[p] = x].r = [t.r EXCEPT ![p] = x]
      BY SMT DEF Shape, StateFields
    <3>2. [t.r EXCEPT ![p] = x] \in [RegNo -> LongWord]
      BY <2>2, ExceptOutside DEF RegsTyped
    <3> QED  BY <3>1, <3>2 DEF RegsTyped
  <2> QED  BY <2>1, <2>2
<1> QED  BY <1>2, <1>3, <1>4

LEMMA StoreZRegs ==
  ASSUME NEW t, Shape(t), RegsTyped(t), NEW n, NEW r, NEW z, Target(z), NEW y, NEW size \in Int, NEW v
  PROVE  /\ RegsTyped(Finish(t, n, r, z, y, size, v))
         /\ RegsTyped(DaPostmodOnly([t EXCEPT !.a[n] = r], z, y, size))
<1> DEFINE b == [t EXCEPT !.a[n] = r]
           x == ZAddr(b, z, y)
           m == [b EXCEPT !.mem[x] = v]
<1>1. Shape(b) /\ RegsTyped(b)
  BY SMT DEF Shape, StateFields, RegsTyped
<1>2. RegsTyped(Raise(b, BUSERR))
  BY <1>1, RaiseKeeps DEF RegsTyped, Kept
<1>3. Shape(m) /\ RegsTyped(m)
  <2> HIDE DEF b, x
  <2> QED  BY <1>1, SMT DEF Shape, StateFields, RegsTyped
<1>4. Finish(t, n, r, z, y, size, v) = DaStoreZ(b, z, y, size, v)
  BY DEF Finish
<1> HIDE DEF b
<1>5. /\ DaStoreZ(b, z, y, size, v) \in {b, Raise(b, BUSERR)} \/ DaZWrites(z, y)
      /\ DaStoreZ(b, z, y, size, v) \in {b, Raise(b, BUSERR), DaPostmod(m, ZReg(z, y), z.i, size)}
      /\ DaPostmodOnly(b, z, y, size) =
           IF DaZWrites(z, y) THEN DaPostmod(b, ZReg(z, y), z.i, size) ELSE b
  BY DEF DaStoreZ, DaPostmodOnly
<1> HIDE DEF m
<1>6. DaZWrites(z, y) => Increment(z)
  BY DEF DaZWrites, Target
<1>7. DaZWrites(z, y) => RegsTyped(DaPostmod(m, ZReg(z, y), z.i, size))
                          /\ RegsTyped(DaPostmod(b, ZReg(z, y), z.i, size))
  BY <1>1, <1>3, <1>6, PostmodRegs
<1> QED  BY <1>1, <1>2, <1>4, <1>5, <1>7 DEF b

LEMMA ReadMovesRegs ==
  ASSUME NEW t, Shape(t), RegsTyped(t), NEW f, Operand(f), NEW size \in Int
  PROVE  RegsTyped(DaReadMoves(t, f, size))
<1>1. CASE FromAcc(f)
  BY <1>1 DEF DaReadMoves
<1>2. CASE ~FromAcc(f)
  <2>1. Increment(f)
    BY <1>2 DEF Operand
  <2> QED  BY <1>2, <2>1, PostmodRegs DEF DaReadMoves
<1> QED  BY <1>1, <1>2

LEMMA DaRegs ==
  ASSUME NEW t0, Shape(t0), RegsTyped(t0), NEW w, w.op = "da", WellFormed(w)
  PROVE  RegsTyped(ExecDa(t0, w))
<1> DEFINE X   == DaRead(t0, w.x)
           t1  == DaReadMoves(t0, w.x, 4)
           Y   == DaRead(t1, w.y)
           t2  == DaReadMoves(t1, w.y, 4)
           ad  == AdderIn(t2, w, Y)
           p   == ProductIn(t2, w, X, Y)
           sum == DauAdd(IF w.fs THEN AccNegate(ad) ELSE ad, IF w.ss THEN [p EXCEPT !.m = -@] ELSE p)
           fl  == DaFlags(t2, sum, TRUE)
           v   == IF ~Tap(w) THEN AccPack(fl.res)
                  ELSE IF Y.acc THEN AccPack([t2.a EXCEPT ![w.n] = fl.res][Y.n]) ELSE Y.raw
           z   == Finish(fl.t, w.n, fl.res, w.z, Y, 4, v)
<1>1. ExecDa(t0, w) \in {Raise(t0, BUSERR), Raise(t1, BUSERR), z}
  BY DEF ExecDa
<1>2. Operand(w.x) /\ Operand(w.y) /\ Target(w.z)
  BY DEF WellFormed
<1>3. Shape(t1) /\ RegsTyped(t1)
  BY <1>2, ReadMovesKeeps, ReadMovesRegs
<1> HIDE DEF t1
<1>4. Shape(t2) /\ RegsTyped(t2)
  BY <1>2, <1>3, ReadMovesKeeps, ReadMovesRegs
<1> HIDE DEF t2, sum
<1>5. Shape(fl.t) /\ RegsTyped(fl.t)
  <2>1. \A vu : Kept(DaFlags(t2, sum, vu).t, t2)
    BY <1>4, DaFlagsKeeps
  <2>2. Kept(fl.t, t2)
    BY <2>1, Zenon
  <2> QED  BY <1>4, <2>2 DEF Kept, RegsTyped
<1> HIDE DEF fl, v, Y
<1>6. RegsTyped(z)
  <2>1. \A size \in Int : RegsTyped(Finish(fl.t, w.n, fl.res, w.z, Y, size, v))
    BY <1>2, <1>5, StoreZRegs
  <2>2. 4 \in Int
    OBVIOUS
  <2> QED  BY <2>1, <2>2, Zenon
<1>7. RegsTyped(Raise(t0, BUSERR)) /\ RegsTyped(Raise(t1, BUSERR))
  BY <1>3, RaiseKeeps DEF Kept, RegsTyped
<1> QED  BY <1>1, <1>6, <1>7

LEMMA SpecialRegs ==
  ASSUME NEW t0, Shape(t0), RegsTyped(t0), NEW w, w.op = "special", WellFormed(w)
  PROVE  RegsTyped(ExecDaSpecial(t0, w))
<1> DEFINE Y  == DaRead(t0, w.y)
           t1 == DaReadMoves(t0, w.y, ReadSize(w.g))
           c  == Conversion(t1, w, Y)
           b  == [c.t EXCEPT !.a[w.n] = c.res]
           k  == DaPostmodOnly(b, w.z, Y, StoreSize(w.g))
           z  == Finish(c.t, w.n, c.res, w.z, Y, StoreSize(w.g), c.z)
<1>1. ExecDaSpecial(t0, w) \in {Raise(t0, BUSERR), k, z}
  BY DEF ExecDaSpecial
<1>2. Operand(w.y) /\ Target(w.z) /\ w.g \in SpecialFunctions
  BY DEF WellFormed
<1>3. ReadSize(w.g) \in Int /\ StoreSize(w.g) \in Int
  BY DEF ReadSize, StoreSize
<1>4. Shape(t1) /\ RegsTyped(t1)
  BY <1>2, <1>3, ReadMovesKeeps, ReadMovesRegs
<1> HIDE DEF t1, Y
<1>5. Shape(c.t) /\ RegsTyped(c.t)
  BY <1>2, <1>4, ConversionKeeps DEF Kept, RegsTyped
<1> HIDE DEF c
<1>6. RegsTyped(z) /\ RegsTyped(k)
  BY <1>2, <1>3, <1>5, StoreZRegs
<1>7. RegsTyped(Raise(t0, BUSERR))
  BY RaiseKeeps DEF Kept, RegsTyped
<1> QED  BY <1>1, <1>6, <1>7

\* A datum of any type that is loaded is a word.
LEMMA LoadedWord ==
  ASSUME NEW w \in MoveTypes, NEW raw \in LongWord
  PROVE  WExtend(w, raw) \in LongWord
<1>1. raw \in Int
  BY Widths DEF LongWord
<1>2. \A n \in {ByteBits, HalfBits, IntBits} :
        2 ^ n \in Nat \ {0} /\ 2 ^ (n - 1) \in Nat \ {0} /\ 2 ^ n <= 2 * LongH
  <2> TAKE n \in {ByteBits, HalfBits, IntBits}
  <2>1. n \in 1..IntBits
    BY Widths
  <2>2. /\ n \in 0 .. 4 * IntBits /\ IntBits - n \in 0 .. 4 * IntBits /\ n + (IntBits - n) <= 4 * IntBits
        /\ n - 1 \in 0 .. 4 * IntBits /\ n + (IntBits - n) = IntBits
        /\ 0 \in 0 .. 4 * IntBits /\ (n - 1) + 0 <= 4 * IntBits
    BY <2>1, Widths
  <2>3. /\ 2 ^ n \in Nat \ {0} /\ 2 ^ (IntBits - n) \in Nat \ {0}
        /\ 2 ^ (n + (IntBits - n)) = 2 ^ n * 2 ^ (IntBits - n)
    BY <2>2, Powers
  <2>4. 2 ^ (n - 1) \in Nat \ {0}
    BY <2>2, Powers
  <2> QED  BY <2>2, <2>3, <2>4, Times, Widths
<1>3. \A n \in {ByteBits, HalfBits, IntBits} : raw % 2 ^ n \in 0 .. 2 ^ n - 1
  BY <1>1, <1>2
<1>4. WBits(w) \in {ByteBits, HalfBits, IntBits}
  BY SMT DEF WBits, WSize, MoveTypes
<1>5. CASE w \in {"byte", "ushort", "long"}
  <2>1. WExtend(w, raw) = raw % 2 ^ WBits(w)
    BY <1>5 DEF WExtend
  <2>2. \A n \in {ByteBits, HalfBits, IntBits} : raw % 2 ^ n \in LongWord
    BY <1>2, <1>3, Widths DEF LongWord
  <2> QED  BY <1>4, <2>1, <2>2
<1>6. CASE w \in {"char", "short"}
  <2>1. WExtend(w, raw) = Extended(raw, 2 ^ (WBits(w) - 1), LongH)
    BY <1>6 DEF WExtend
  <2>2. 2 ^ (WBits(w) - 1) \in Nat \ {0}
    BY <1>2, <1>4
  <2> QED  BY <1>1, <2>1, <2>2, WordRange
<1>7. CASE w = "hbyte"
  <2> DEFINE b == 2 ^ ByteBits
  <2>1. WExtend(w, raw) = (raw % b) * b
    BY <1>7 DEF WExtend
  <2>2. b \in Nat \ {0} /\ raw % b \in 0 .. b - 1
    BY <1>2, <1>3
  <2>3. b * b <= 2 * LongH
    <3>1. /\ ByteBits \in 0 .. 4 * IntBits /\ ByteBits + ByteBits <= 4 * IntBits
          /\ ByteBits + ByteBits \in 0 .. 4 * IntBits
          /\ IntBits - (ByteBits + ByteBits) \in 0 .. 4 * IntBits
          /\ (ByteBits + ByteBits) + (IntBits - (ByteBits + ByteBits)) <= 4 * IntBits
          /\ (ByteBits + ByteBits) + (IntBits - (ByteBits + ByteBits)) = IntBits
      BY Widths
    <3>2. 2 ^ (ByteBits + ByteBits) = b * b
      BY <3>1, Powers
    <3>3. /\ 2 ^ (ByteBits + ByteBits) \in Nat \ {0} /\ 2 ^ (IntBits - (ByteBits + ByteBits)) \in Nat \ {0}
          /\ 2 ^ ((ByteBits + ByteBits) + (IntBits - (ByteBits + ByteBits)))
               = 2 ^ (ByteBits + ByteBits) * 2 ^ (IntBits - (ByteBits + ByteBits))
      BY <3>1, Powers
    <3>4. 2 ^ (ByteBits + ByteBits) <= 2 ^ IntBits
      BY <3>1, <3>3, Times
    <3> QED  BY <3>2, <3>4, Widths
  <2> HIDE DEF b
  <2>4. (raw % b) * b \in Nat /\ (raw % b) * b + b <= b * b
    <3>1. \A x \in 0 .. b - 1 : x * b \in Nat /\ x * b + b <= b * b
      <4> TAKE x \in 0 .. b - 1
      <4>1. b * b = x * b + b + (b - 1 - x) * b /\ (b - 1 - x) * b \in Nat /\ x * b \in Nat
        BY <2>2
      <4> QED  BY <2>2, <4>1
    <3> QED  BY <2>2, <3>1
  <2> QED  BY <2>1, <2>2, <2>3, <2>4, Widths DEF LongWord
<1> QED  BY <1>5, <1>6, <1>7 DEF MoveTypes

LEMMA CaPostmodRegs ==
  ASSUME NEW t, Shape(t), RegsTyped(t), NEW w, w.op \in {"load", "store"}, WellFormed(w)
  PROVE  RegsTyped(CaPostmod(t, w))
<1>1. w.w \in MoveTypes /\ (~w.direct => w.rp \in Source /\ w.ri \in Source)
  BY DEF WellFormed
<1>2. CASE w.direct \/ w.ri = 0
  BY <1>2 DEF CaPostmod
<1>3. CASE ~(w.direct \/ w.ri = 0)
  <2> DEFINE delta == CASE w.ri = 23 -> WSize(w.w) [] w.ri = 22 -> -WSize(w.w) [] OTHER -> Opval(t, w.ri)
  <2>1. WSize(w.w) \in Int
    BY <1>1 DEF WSize, MoveTypes
  <2>2. Opval(t, w.ri) \in Int /\ Opval(t, w.rp) \in Int
    BY <1>1, <1>3, Registers, Widths DEF RegsTyped, LongWord
  <2>3. delta \in Int
    BY <2>1, <2>2
  <2>4. CaPostmod(t, w) = Regw(t, w.rp, Low(Opval(t, w.rp) + delta, LongH))
    BY <1>3 DEF CaPostmod
  <2> HIDE DEF delta
  <2>5. Low(Opval(t, w.rp) + delta, LongH) \in LongWord
    BY <2>2, <2>3, WordRange, Widths
  <2> QED  BY <2>4, <2>5, RegwRegs DEF RegsTyped
<1> QED  BY <1>2, <1>3

\* What Typed says of the next instruction.
Meets(t, w) == w.op = "load" /\ Mapped(t, MoveAddr(t, w)) => t.mem[MoveAddr(t, w)] \in LongWord

LEMMA MovesRegs ==
  ASSUME NEW t0, Shape(t0), RegsTyped(t0), NEW w, w.op \in {"load", "store"}, WellFormed(w), Meets(t0, w)
  PROVE  RegsTyped(IF w.op = "load" THEN ExecLoad(t0, w) ELSE ExecStore(t0, w))
<1>1. RegsTyped(Raise(t0, BUSERR))
  BY RaiseKeeps DEF Kept, RegsTyped
<1>2. ASSUME w.op = "load", Mapped(t0, MoveAddr(t0, w))
      PROVE  RegsTyped(ExecLoad(t0, w))
  <2> DEFINE v == WExtend(w.w, t0.mem[MoveAddr(t0, w)])
             p == CaPostmod(t0, w)
             k == [p EXCEPT !.cau = FlagsNz(v, LongH)]
  <2>1. ExecLoad(t0, w) = Regw(k, w.rh, v)
    BY <1>2 DEF ExecLoad
  <2>2. Shape(p) /\ RegsTyped(p)
    BY CaPostmodKeeps, CaPostmodRegs
  <2>3. v \in LongWord
    BY <1>2, LoadedWord DEF Meets, WellFormed
  <2> HIDE DEF p, v
  <2>4. Shape(k) /\ RegsTyped(k)
    BY <2>2, SMT DEF Shape, StateFields, RegsTyped
  <2> HIDE DEF k
  <2> QED  BY <2>1, <2>3, <2>4, RegwRegs DEF RegsTyped
<1>3. ASSUME Mapped(t0, MoveAddr(t0, w))
      PROVE  RegsTyped(ExecStore(t0, w))
  <2> DEFINE v == WSelect(w.w, Opval(t0, w.rh))
             x == MoveAddr(t0, w)
             k == [t0 EXCEPT !.mem[x] = v]
  <2>1. ExecStore(t0, w) = CaPostmod(k, w)
    BY <1>3 DEF ExecStore
  <2> HIDE DEF v, x
  <2>2. Shape(k) /\ RegsTyped(k)
    BY SMT DEF Shape, StateFields, RegsTyped
  <2> HIDE DEF k
  <2> QED  BY <2>1, <2>2, CaPostmodRegs
<1> QED  BY <1>1, <1>2, <1>3 DEF ExecLoad, ExecStore

LEMMA OthersRegs ==
  ASSUME NEW t0, Shape(t0), RegsTyped(t0), NEW w, w.op \in CauOps, WellFormed(w)
  PROVE  RegsTyped(ExecInsn(t0, w))
<1> DEFINE h == WordH(w.short)
<1>1. h \in {LongH, ShortH}
  BY DEF WordH
<1>2. \A c \in Source : Opval(t0, c) \in LongWord /\ Opval(t0, c) \in Int
  BY Registers, Widths DEF RegsTyped, LongWord
<1>3. \A n \in LongWord : Immediate(n) \in Int
  BY Widths, WordRange DEF Immediate, LongWord
<1>4. CASE w.op = "alu"
  <2>1. w.f \in AluFunctions /\ w.rs1 \in Source /\ w.rs2 \in Source
    BY <1>4 DEF WellFormed
  <2>2. Opval(t0, w.rs1) \in Int /\ AluOperand(t0, w) \in Int
    BY <1>2, <2>1, Widths DEF AluOperand
  <2>3. RegsTyped(ExecAluReg(t0, w))
    BY <1>1, <2>1, <2>2, AluRegs DEF ExecAluReg
  <2> QED  BY <1>4, <2>3 DEF ExecInsn
<1>5. CASE w.op = "imm"
  <2>1. w.f \in AluFunctions /\ w.rd \in Source /\ w.n \in LongWord
    BY <1>5 DEF WellFormed
  <2>2. RegsTyped(ExecAluImm(t0, w))
    BY <1>1, <1>2, <1>3, <2>1, AluRegs DEF ExecAluImm
  <2> QED  BY <1>5, <2>2 DEF ExecInsn
<1>6. CASE w.op = "add3"
  <2>1. w.rs3 \in Source /\ w.n \in LongWord
    BY <1>6 DEF WellFormed
  <2>2. "add" \in AluFunctions
    BY DEF AluFunctions
  <2>3. \A f \in AluFunctions : RegsTyped(Alu(t0, f, Opval(t0, w.rs3), Immediate(w.n), w.rd, h))
    BY <1>1, <1>2, <1>3, <2>1, AluRegs
  <2>4. RegsTyped(ExecAdd3(t0, w))
    BY <2>2, <2>3, Zenon DEF ExecAdd3
  <2> QED  BY <1>6, <2>4 DEF ExecInsn
<1>7. CASE w.op = "shiftor"
  <2> DEFINE res == BitOr(Opval(t0, w.rs), Low(w.n * 2 ^ HalfBits, LongH))
             k == [t0 EXCEPT !.cau = FlagsNz(res, LongH)]
  <2>1. w.rs \in Source /\ w.n \in LongWord
    BY <1>7 DEF WellFormed
  <2>2. w.n * 2 ^ HalfBits \in Int
    BY <2>1, Widths DEF LongWord
  <2>3. res \in LongWord
    BY <1>2, <2>1, <2>2, Bitwise, WordRange, Widths
  <2>4. ExecShiftOr(t0, w) = Regw(k, w.rd, res)
    BY DEF ExecShiftOr
  <2> HIDE DEF res
  <2>5. Shape(k) /\ RegsTyped(k)
    BY SMT DEF Shape, StateFields, RegsTyped
  <2> HIDE DEF k
  <2>6. RegsTyped(ExecShiftOr(t0, w))
    BY <2>3, <2>4, <2>5, RegwRegs DEF RegsTyped
  <2> QED  BY <1>7, <2>6 DEF ExecInsn
<1>8. CASE w.op = "set24"
  <2>1. w.n \in LongWord
    BY <1>8 DEF WellFormed
  <2> QED  BY <1>8, <2>1, RegwRegs DEF RegsTyped, ExecSet24, ExecInsn
<1>9. CASE w.op = "if"
  <2>1. RegsTyped(ExecIf(t0, w))
    BY SMT DEF ExecIf, Shape, StateFields, RegsTyped
  <2> QED  BY <1>9, <2>1 DEF ExecInsn
<1>10. CASE w.op = "loop"
  <2> DEFINE val == Opval(t0, w.rm)
             k == [t0 EXCEPT !.taken = ~Sign(val, LongH)]
  <2>1. w.rm \in Source
    BY <1>10 DEF WellFormed
  <2>2. val \in Int
    BY <1>2, <2>1
  <2>3. Low(val - 1, LongH) \in LongWord
    BY <2>2, WordRange, Widths
  <2>4. ExecLoop(t0, w) = Regw(k, w.rm, Low(val - 1, LongH))
    BY DEF ExecLoop
  <2> HIDE DEF val
  <2>5. Shape(k) /\ RegsTyped(k)
    BY SMT DEF Shape, StateFields, RegsTyped
  <2> HIDE DEF k
  <2>6. RegsTyped(ExecLoop(t0, w))
    BY <2>3, <2>4, <2>5, RegwRegs DEF RegsTyped
  <2> QED  BY <1>10, <2>6 DEF ExecInsn
<1> QED  BY <1>4, <1>5, <1>6, <1>7, <1>8, <1>9, <1>10 DEF CauOps

LEMMA ExecutedRegs ==
  ASSUME NEW t, Shape(t), RegsTyped(t), NEW w, WellFormed(w), Meets(t, w)
  PROVE  RegsTyped(Executed(t, w))
<1> DEFINE t0 == LatencyTick(t)
<1>1. Shape(t0) /\ RegsTyped(t0) /\ t0.r = t.r /\ t0.mem = t.mem
  BY TickKeeps DEF Kept, RegsTyped
<1>2. Executed(t, w) = ExecInsn(t0, w)
  BY DEF Executed
<1> HIDE DEF t0
<1>3. Meets(t0, w)
  BY <1>1 DEF Meets, Mapped, MoveAddr, Opval
<1>4. w.op \in CauOps \cup {"da", "special", "load", "store"}
  BY SMT DEF WellFormed, CauOps
<1>5. CASE w.op = "da"
  BY <1>1, <1>2, <1>5, DaRegs DEF ExecInsn
<1>6. CASE w.op = "special"
  BY <1>1, <1>2, <1>6, SpecialRegs DEF ExecInsn
<1>7. CASE w.op \in {"load", "store"}
  BY <1>1, <1>2, <1>3, <1>7, MovesRegs DEF ExecInsn
<1>8. CASE w.op \in CauOps
  BY <1>1, <1>2, <1>8, OthersRegs
<1> QED  BY <1>4, <1>5, <1>6, <1>7, <1>8

Inv1 == Inv0 /\ RegsTyped(d)

LEMMA InitRegs == Init => Inv1
<1> SUFFICES ASSUME Init PROVE Inv1
  OBVIOUS
<1>1. PICK family \in DOMAIN Starts : \E st \in Starts[family] : start = st /\ d = st[1] /\ prog = st[2]
  BY DEF Init
<1>2. PICK st \in Starts[family] : d = st[1] /\ prog = st[2]
  BY <1>1
<1>3. RegsTyped(d)
  BY <1>2, StartsAssumption DEF RegsTyped, StateOK
<1> QED  BY <1>3, InitShape DEF Inv1

LEMMA StepRegs == Inv1 /\ Typed /\ [Next]_vars => Inv1'
<1> SUFFICES ASSUME Inv1, Typed, [Next]_vars PROVE Inv1'
  OBVIOUS
<1>1. CASE Step
  <2>1. prog # <<>> /\ d' = Executed(d, Head(prog))
    BY <1>1 DEF Step
  <2>2. WellFormed(Head(prog))
    BY <2>1, TailProgram DEF Inv1, Inv0
  <2>3. Meets(d, Head(prog))
    BY <2>1 DEF Typed, Meets
  <2>4. RegsTyped(d')
    BY <2>1, <2>2, <2>3, ExecutedRegs DEF Inv1, Inv0
  <2> QED  BY <2>4, StepShape DEF Inv1, RegsTyped
<1>2. CASE UNCHANGED vars
  BY <1>2, StepShape DEF Inv1, RegsTyped, vars
<1> QED  BY <1>1, <1>2 DEF Next

-----------------------------------------------------------------------------
(* The flags of the ALU *)

\* The flags of the logic class compare the result with zero, whether it is the
\* whole register or has been extended to it.
LEMMA FlagsCompareZero ==
  ASSUME NEW h \in Nat \ {0}, NEW x \in Int, NEW v, Low(v, h) = Low(x, h), NEW f
  PROVE  Compares(FlagsNz(x, h), f, v, 0, h)
<1> DEFINE g == FlagsNz(x, h)
<1>1. g.n = Sign(x, h) /\ g.z = (Low(x, h) = 0) /\ g.v = FALSE /\ g.c = FALSE
  BY DEF FlagsNz
<1>2. Low(x, h) \in 0 .. 2 * h - 1 /\ Low(0, h) = 0
  BY LowRange, LowCases
<1>3. Signed(v, h) = (IF Low(x, h) >= h THEN Low(x, h) - 2 * h ELSE Low(x, h)) /\ Signed(0, h) = 0
  BY <1>2 DEF Signed, Sign
<1> HIDE DEF g
<1>4. /\ CondEval(g, f, "eq") <=> g.z
      /\ CondEval(g, f, "ne") <=> ~g.z
      /\ CondEval(g, f, "lt") <=> g.n # g.v
      /\ CondEval(g, f, "ge") <=> g.n = g.v
      /\ CondEval(g, f, "gt") <=> ~(g.z \/ g.n # g.v)
      /\ CondEval(g, f, "le") <=> g.z \/ g.n # g.v
      /\ CondEval(g, f, "cs") <=> g.c
      /\ CondEval(g, f, "cc") <=> ~g.c
      /\ CondEval(g, f, "hi") <=> ~(g.c \/ g.z)
      /\ CondEval(g, f, "ls") <=> g.c \/ g.z
  BY DEF CondEval
<1>5. /\ g.z <=> Low(x, h) = 0
      /\ g.c <=> FALSE
      /\ g.n # g.v <=> Low(x, h) >= h
      /\ g.n = g.v <=> ~(Low(x, h) >= h)
  <2>1. CASE Low(x, h) >= h
    <3>1. g.n = TRUE
      BY <1>1, <2>1, Zenon DEF Sign
    <3> QED  BY <1>1, <2>1, <3>1, Zenon
  <2>2. CASE ~(Low(x, h) >= h)
    <3>1. g.n = (Low(x, h) >= h)
      BY <1>1, Zenon DEF Sign
    <3>2. (Low(x, h) >= h) = FALSE
      BY <2>2, SMT
    <3>3. g.n = FALSE
      BY <3>1, <3>2, Zenon
    <3> QED  BY <1>1, <2>2, <3>3, Zenon
  <2> QED  BY <2>1, <2>2
<1>6. Compares(g, f, v, 0, h)
  BY <1>2, <1>3, <1>4, <1>5 DEF Compares
<1> QED  BY <1>6 DEF g

\* A conditional ALU instruction whose condition holds.
LEMMA AluStep ==
  ASSUME NEW t, Shape(t), RegsTyped(t), NEW w, w.op = "alu", WellFormed(w), w.rd \in RegNo,
         CondEval(t.cau, t.flagPipe[3], w.c), w.f # "res5"
  PROVE  LET h == WordH(w.short)
             a == Opval(t, w.rs1)
             b == AluOperand(t, w)
             r == AluOp(LatencyTick(t), w.f, a, b, h)
             v == IF w.f \in {"shl", "shr"} THEN r.res ELSE Extended(r.res, h, LongH)
             u == Executed(t, w)
         IN  /\ a \in Int /\ b \in Int /\ r.res \in Int
             /\ u.cau = r.f /\ u.raised = {}
             /\ \A c \in RegNo : c # w.rd => u.r[c] = t.r[c]
             /\ StoresResult(w.f) => u.r[w.rd] = v /\ Opval(u, w.rd) = v /\ Low(v, h) = Low(r.res, h)
<1> DEFINE h == WordH(w.short)
           a == Opval(t, w.rs1)
           b == AluOperand(t, w)
           t0 == LatencyTick(t)
           r == AluOp(t0, w.f, a, b, h)
           v == IF w.f \in {"shl", "shr"} THEN r.res ELSE Extended(r.res, h, LongH)
           u == Executed(t, w)
<1> SUFFICES /\ a \in Int /\ b \in Int /\ r.res \in Int
             /\ u.cau = r.f /\ u.raised = {}
             /\ \A c \in RegNo : c # w.rd => u.r[c] = t.r[c]
             /\ StoresResult(w.f) => u.r[w.rd] = v /\ Opval(u, w.rd) = v /\ Low(v, h) = Low(r.res, h)
  OBVIOUS
<1>1. /\ Shape(t0) /\ t0.r = t.r /\ t0.cau = t.cau /\ t0.flagPipe[4] = t.flagPipe[3]
      /\ t0.raised = {}
  BY TickKeeps DEF Kept
<1>2. w.f \in AluFunctions /\ w.rs1 \in Source /\ w.rs2 \in Source
  BY DEF WellFormed
<1>3. Opval(t, w.rs1) \in Int /\ Opval(t, w.rs2) \in Int
  BY <1>2, Registers, Widths DEF RegsTyped, LongWord
<1>4. a \in Int /\ b \in Int
  BY <1>3, Widths DEF AluOperand
<1>5. h \in {LongH, ShortH} /\ h \in Nat \ {0}
  BY WordHs DEF WordH
<1> HIDE DEF t0
<1>6. Opval(t0, w.rs1) = a /\ AluOperand(t0, w) = b
  BY <1>1 DEF Opval, AluOperand
<1>7. u = Alu(t0, w.f, a, b, w.rd, h)
  <2>1. u = ExecAluReg(t0, w)
    BY DEF Executed, ExecInsn, t0
  <2>2. ExecAluReg(t0, w) = Alu(t0, w.f, Opval(t0, w.rs1), AluOperand(t0, w), w.rd, h)
    BY <1>1 DEF ExecAluReg
  <2> QED  BY <1>6, <2>1, <2>2
<1> HIDE DEF a, b, h, u
<1>8. r.res \in Int
  BY <1>2, <1>4, <1>5, AluOpResult
<1> HIDE DEF r
<1>9. /\ u.cau = r.f /\ u.raised = {}
      /\ \A c \in RegNo : u.r[c] = IF c = w.rd /\ StoresResult(w.f) THEN v ELSE t0.r[c]
  BY <1>1, <1>7, AluKeeps DEF r
<1>10. Low(v, h) = Low(r.res, h)
  <2>1. \E k \in Nat \ {0} : LongH = h * k
    BY WordHs DEF h
  <2> QED  BY <1>5, <1>8, <2>1, ExtendedLow
<1>11. Opval(u, w.rd) = u.r[w.rd]
  BY RegAssumption DEF Opval
<1> QED  BY <1>1, <1>4, <1>8, <1>9, <1>10, <1>11

\* The conditional branches after an instruction decide as a comparison of its
\* operands, or of its result with zero, does (alu_op, set_flags, exec_move).
THEOREM ConditionsMeanComparisons == Spec /\ []Typed => ConditionsCompare
<1> DEFINE Compared ==
      prog # <<>> /\ BUSERR \notin d'.raised =>
        LET w == Head(prog) IN
        CASE w.op = "alu" /\ w.rd \in RegNo /\ CondEval(d.cau, d.flagPipe[3], w.c) /\ w.f # "res5" ->
               LET h == WordH(w.short)
                   a == Opval(d, w.rs1)
                   b == AluOperand(d, w)
                   r == Opval(d', w.rd)
               IN CASE w.f \in {"sub", "cmp"} -> Compares(d'.cau, d'.dau, a, b, h)
                    [] w.f = "rsub" -> Compares(d'.cau, d'.dau, b, a, h)
                    [] w.f \in {"add", "cradd", "rol", "ror", "btst"} -> TRUE
                    [] OTHER -> Compares(d'.cau, d'.dau, r, 0, h)
          [] w.op = "load" /\ w.rh \in RegNo -> Compares(d'.cau, d'.dau, d'.r[w.rh], 0, LongH)
          [] OTHER -> TRUE
<1>1. Inv1 /\ Typed /\ [Next]_vars => [Compared]_vars
  <2> SUFFICES ASSUME Inv1, Typed, Step, prog # <<>>, BUSERR \notin d'.raised PROVE Compared
    BY DEF Next
  <2> DEFINE w == Head(prog)
             h == WordH(w.short)
             a == Opval(d, w.rs1)
             b == AluOperand(d, w)
             r == AluOp(LatencyTick(d), w.f, a, b, h)
  <2>1. d' = Executed(d, w) /\ WellFormed(w) /\ Meets(d, w) /\ Shape(d) /\ RegsTyped(d)
    BY TailProgram DEF Step, Typed, Meets, Inv1, Inv0
  <2>2. ASSUME w.op = "alu", w.rd \in RegNo, CondEval(d.cau, d.flagPipe[3], w.c), w.f # "res5"
        PROVE  CASE w.f \in {"sub", "cmp"} -> Compares(d'.cau, d'.dau, a, b, h)
                 [] w.f = "rsub" -> Compares(d'.cau, d'.dau, b, a, h)
                 [] w.f \in {"add", "cradd", "rol", "ror", "btst"} -> TRUE
                 [] OTHER -> Compares(d'.cau, d'.dau, Opval(d', w.rd), 0, h)
    <3> HIDE DEF w
    <3>1. /\ a \in Int /\ b \in Int /\ r.res \in Int /\ d'.cau = r.f
          /\ StoresResult(w.f) => Low(Opval(d', w.rd), h) = Low(r.res, h)
      BY <2>1, <2>2, AluStep
    <3>2. h \in Nat \ {0} /\ w.f \in AluFunctions
      BY <2>1, <2>2, WordHs DEF WellFormed
    <3> HIDE DEF a, b, h
    <3>3. CASE w.f \in {"sub", "cmp"}
      <4>1. r = AluSub(a, b, h)
        BY <3>3 DEF AluOp
      <4> QED  BY <3>1, <3>2, <3>3, <4>1, ComparisonsDecide
    <3>4. CASE w.f = "rsub"
      <4>1. r = AluSub(b, a, h)
        BY <3>4 DEF AluOp
      <4> QED  BY <3>1, <3>2, <3>4, <4>1, ComparisonsDecide
    <3>5. CASE w.f \in {"add", "cradd", "rol", "ror", "btst"}
      BY <3>5
    <3>6. CASE w.f \in {"andc", "xor", "or", "and", "shl", "shr", "asr"}
      <4>1. r.f = FlagsNz(r.res, h)
        BY <3>6 DEF AluOp, Plain
      <4>2. StoresResult(w.f)
        BY <3>6 DEF StoresResult
      <4> HIDE DEF r
      <4>3. Compares(d'.cau, d'.dau, Opval(d', w.rd), 0, h)
        BY <3>1, <3>2, <4>1, <4>2, FlagsCompareZero
      <4> QED  BY <3>6, <4>3
    <3> QED  BY <2>2, <3>2, <3>3, <3>4, <3>5, <3>6 DEF AluFunctions
  <2>3. ASSUME w.op = "load", w.rh \in RegNo
        PROVE  Compares(d'.cau, d'.dau, d'.r[w.rh], 0, LongH)
    <3> DEFINE t0 == LatencyTick(d)
               v  == WExtend(w.w, t0.mem[MoveAddr(t0, w)])
               p  == CaPostmod(t0, w)
               k  == [p EXCEPT !.cau = FlagsNz(v, LongH)]
    <3>1. Shape(t0) /\ t0.r = d.r /\ t0.mem = d.mem /\ t0.raised = {}
      BY <2>1, TickKeeps DEF Kept
    <3> HIDE DEF w
    <3>2. d' = ExecLoad(t0, w)
      BY <2>1, <2>3 DEF Executed, ExecInsn
    <3> HIDE DEF t0
    <3>3. Mapped(t0, MoveAddr(t0, w))
      <4>1. Raise(t0, BUSERR).raised = t0.raised \cup {BUSERR}
        BY <3>1, RaiseKeeps
      <4> QED  BY <3>2, <4>1 DEF ExecLoad
    <3>4. MoveAddr(t0, w) = MoveAddr(d, w)
      BY <3>1 DEF MoveAddr, Opval
    <3>5. v \in LongWord
      BY <2>1, <2>3, <3>1, <3>3, <3>4, LoadedWord DEF Meets, Mapped, WellFormed
    <3>6. d' = Regw(k, w.rh, v)
      BY <3>2, <3>3 DEF ExecLoad
    <3>7. Shape(p)
      BY <3>1, CaPostmodKeeps
    <3> HIDE DEF p, v
    <3>8. Shape(k) /\ k.cau = FlagsNz(v, LongH)
      BY <3>7, SMT DEF Shape, StateFields
    <3> HIDE DEF k
    <3>9. d'.cau = FlagsNz(v, LongH) /\ d'.r[w.rh] = v
      BY <2>3, <3>6, <3>8, RegwKeeps
    <3>10. v \in Int /\ LongH \in Nat \ {0}
      BY <3>5, Widths DEF LongWord
    <3>11. Compares(FlagsNz(v, LongH), d'.dau, v, 0, LongH)
      BY <3>10, FlagsCompareZero
    <3> QED  BY <3>9, <3>11
  <2> QED  BY <2>2, <2>3
<1>2. ConditionsCompare <=> [][Compared]_vars
  BY DEF ConditionsCompare
<1> HIDE DEF Compared
<1>3. Inv1 /\ []Typed /\ [][Next]_vars => [][Compared]_vars
  BY <1>1, StepRegs, PTL
<1> QED  BY <1>2, <1>3, InitRegs, PTL DEF Spec

\* With its carry an addition, or a rotation to the left, gives the exact sum
\* of the operands, and the overflow flag says when the signed result is not it
\* (alu_add).
THEOREM SumsOfOperands == Spec /\ []Typed => SumsAreExact
<1> DEFINE Summed ==
      Completes("alu") /\ Head(prog).rd \in RegNo /\ CondEval(d.cau, d.flagPipe[3], Head(prog).c) =>
        LET w == Head(prog)
            h == WordH(w.short)
            a == Opval(d, w.rs1)
            r == Low(d'.r[w.rd], h)
        IN  CASE w.f = "add" -> Adds(d'.cau, r, a, AluOperand(d, w), 0, h)
              [] w.f = "rol" -> Adds(d'.cau, r, a, a, IF d.cau.c THEN 1 ELSE 0, h)
              [] OTHER -> TRUE
<1>1. Inv1 /\ Typed /\ [Next]_vars => [Summed]_vars
  <2> DEFINE w == Head(prog)
             h == WordH(w.short)
             a == Opval(d, w.rs1)
             b == AluOperand(d, w)
             t0 == LatencyTick(d)
             x == AluOp(t0, w.f, a, b, h)
             c == IF d.cau.c THEN 1 ELSE 0
             r == Low(d'.r[w.rd], h)
  <2> SUFFICES ASSUME Inv1, Typed, Step, Completes("alu"), w.rd \in RegNo,
                      CondEval(d.cau, d.flagPipe[3], w.c), w.f \in {"add", "rol"}
               PROVE  /\ w.f = "add" => Adds(d'.cau, r, a, b, 0, h)
                      /\ w.f = "rol" => Adds(d'.cau, r, a, a, c, h)
    BY DEF Next
  <2>1. d' = Executed(d, w) /\ WellFormed(w) /\ Shape(d) /\ RegsTyped(d) /\ w.op = "alu"
    BY TailProgram DEF Step, Completes, Inv1, Inv0
  <2>2. t0.cau = d.cau
    BY <2>1, TickKeeps DEF Kept
  <2> HIDE DEF w
  <2>3. /\ a \in Int /\ b \in Int /\ x.res \in Int /\ d'.cau = x.f
        /\ r = Low(x.res, h)
    BY <2>1, AluStep DEF StoresResult
  <2>4. h \in Nat \ {0}
    BY WordHs
  <2> HIDE DEF a, b, h, r
  <2>5. \A y \in Int, z \in Int, i \in {0, 1} :
          LET s == AluAdd(y, z, i, h) IN Adds(s.f, s.res, y, z, i, h) /\ Low(s.res, h) = s.res
    <3>1. ASSUME NEW y \in Int, NEW z \in Int, NEW i \in {0, 1}
          PROVE  Low(AluAdd(y, z, i, h).res, h) = AluAdd(y, z, i, h).res
      <4>1. AluAdd(y, z, i, h).res = Low(Low(y, h) + Low(z, h) + i, h)
        BY DEF AluAdd
      <4>2. Low(y, h) + Low(z, h) + i \in Int
        BY <2>4, LowRange
      <4>3. AluAdd(y, z, i, h).res \in 0 .. 2 * h - 1
        BY <2>4, <4>1, <4>2, LowRange
      <4> QED  BY <2>4, <4>3, LowCases
    <3> QED  BY <2>4, <3>1, AdditionsAreExact
  <2>6. CASE w.f = "add"
    <3>1. x = AluAdd(a, b, 0, h)
      BY <2>6 DEF AluOp
    <3> QED  BY <2>3, <2>5, <2>6, <3>1
  <2>7. CASE w.f = "rol"
    <3>1. x = AluAdd(a, a, c, h)
      BY <2>2, <2>7 DEF AluOp
    <3>2. c \in {0, 1}
      OBVIOUS
    <3> HIDE DEF c
    <3> QED  BY <2>3, <2>5, <2>7, <3>1, <3>2
  <2> QED  BY <2>6, <2>7
<1>2. SumsAreExact <=> [][Summed]_vars
  BY DEF SumsAreExact
<1> HIDE DEF Summed
<1>3. Inv1 /\ []Typed /\ [][Next]_vars => [][Summed]_vars
  BY <1>1, StepRegs, PTL
<1> QED  BY <1>2, <1>3, InitRegs, PTL DEF Spec

-----------------------------------------------------------------------------
(* Types: what a DA instruction leaves in accumulators, pipes and flags *)

AccFile(a) == DOMAIN a = AccNo /\ \A n \in AccNo : IsAcc(a[n])

\* StateOK but for the registers.
Typing(t) ==
  /\ Shape(t) /\ DOMAIN t.a = AccNo
  /\ \A n \in AccNo : IsAcc(t.a[n]) /\ \A k \in 1..3 : IsAcc(t.aPipe[k][n])
  /\ t.dau \in DauFlags /\ \A k \in 1..4 : t.flagPipe[k] \in DauFlags
  /\ t.cau \in Flags /\ t.ctr \in 0..63 /\ t.taken \in BOOLEAN
  /\ t.dauc \in [rnd: 0..3, inp: Laws, out: Laws, cond: BOOLEAN]
  /\ t.raised \subseteq {BUSERR, NAN, UV}

LEMMA StateTyping == \A t : StateOK(t) <=> Typing(t) /\ RegsTyped(t)
BY DEF StateOK, Typing, RegsTyped, Shape

LEMMA TickTyping ==
  ASSUME NEW t, Typing(t)
  PROVE  Typing(LatencyTick(t))
<1> DEFINE u == LatencyTick(t)
<1> SUFFICES Typing(u)
  OBVIOUS
<1>1. /\ Shape(u) /\ u.a = t.a /\ u.aPipe = <<t.a, t.aPipe[1], t.aPipe[2]>>
      /\ u.dau = t.dau /\ u.flagPipe = <<t.dau, t.flagPipe[1], t.flagPipe[2], t.flagPipe[3]>>
      /\ u.cau = t.cau /\ u.ctr = t.ctr /\ u.taken = FALSE /\ u.dauc = t.dauc /\ u.raised = {}
  BY SMT DEF Typing, Shape, StateFields, LatencyTick
<1> HIDE DEF u
<1>2. ASSUME NEW n \in AccNo, NEW k \in 1..3
      PROVE  IsAcc(u.aPipe[k][n])
  <2>1. k = 1 \/ k = 2 \/ k = 3
    OBVIOUS
  <2>2. IsAcc(t.a[n]) /\ IsAcc(t.aPipe[1][n]) /\ IsAcc(t.aPipe[2][n])
    BY DEF Typing
  <2>3. CASE k = 1
    BY <1>1, <2>2, <2>3
  <2>4. CASE k = 2
    BY <1>1, <2>2, <2>4
  <2>5. CASE k = 3
    BY <1>1, <2>2, <2>5
  <2> QED  BY <2>1, <2>3, <2>4, <2>5
<1>3. ASSUME NEW k \in 1..4
      PROVE  u.flagPipe[k] \in DauFlags
  <2>1. \A i \in 1..4 : t.flagPipe[i] \in DauFlags
    BY DEF Typing
  <2> QED  BY <1>1, <2>1 DEF Typing
<1> QED  BY <1>1, <1>2, <1>3 DEF Typing

\* The fields that Typing is about, but for raised and for the CAU's flags.
SameDau(u, t) ==
  /\ Shape(u) /\ u.a = t.a /\ u.aPipe = t.aPipe /\ u.dau = t.dau /\ u.flagPipe = t.flagPipe
  /\ u.ctr = t.ctr /\ u.dauc = t.dauc

LEMMA SameTyping ==
  ASSUME NEW t, Typing(t), NEW u, SameDau(u, t), u.cau \in Flags, u.taken \in BOOLEAN,
         u.raised \subseteq {BUSERR, NAN, UV}
  PROVE  Typing(u)
BY DEF Typing, SameDau

LEMMA RaiseTyping ==
  ASSUME NEW t, Typing(t), NEW vn \in {BUSERR, NAN, UV}
  PROVE  Typing(Raise(t, vn))
<1>1. LET u == Raise(t, vn) IN
      SameDau(u, t) /\ u.cau = t.cau /\ u.taken = t.taken /\ u.raised = t.raised \cup {vn}
  BY SMT DEF Typing, Shape, StateFields, SameDau, Raise
<1> QED  BY <1>1, SameTyping DEF Typing

LEMMA PostmodTyping ==
  ASSUME NEW t, Typing(t), NEW p, NEW i, NEW size
  PROVE  LET u == DaPostmod(t, p, i, size) IN
         /\ Typing(u) /\ SameDau(u, t) /\ u.mem = t.mem
<1>1. LET u == DaPostmod(t, p, i, size) IN
      /\ SameDau(u, t) /\ u.cau = t.cau /\ u.taken = t.taken /\ u.raised = t.raised /\ u.mem = t.mem
  BY SMT DEF Typing, Shape, StateFields, SameDau, DaPostmod
<1> QED  BY <1>1, SameTyping DEF Typing

LEMMA ReadMovesTyping ==
  ASSUME NEW t, Typing(t), NEW f, NEW size
  PROVE  LET u == DaReadMoves(t, f, size) IN
         /\ Typing(u) /\ SameDau(u, t) /\ u.mem = t.mem
<1>1. SameDau(t, t)
  BY DEF Typing, SameDau
<1> QED  BY <1>1, PostmodTyping DEF DaReadMoves

LEMMA WithFlagsTyping ==
  ASSUME NEW t, Typing(t), NEW f \in DauFlags
  PROVE  Typing(WithFlags(t, f))
<1> DEFINE u == WithFlags(t, f)
           c == 2 * t.ctr + (IF f.N THEN 1 ELSE 0)
<1> SUFFICES Typing(u)
  OBVIOUS
<1>1. /\ Shape(u) /\ u.a = t.a /\ u.aPipe = t.aPipe /\ u.dau = f /\ u.flagPipe = t.flagPipe
      /\ u.dauc = t.dauc /\ u.cau = t.cau /\ u.taken = t.taken /\ u.raised = t.raised
      /\ u.ctr = c % 64
  BY SMT DEF Typing, Shape, StateFields, WithFlags
<1>2. c % 64 \in 0..63
  <2>1. c \in Int
    BY DEF Typing
  <2> HIDE DEF c
  <2> QED  BY <2>1
<1> HIDE DEF u, c
<1> QED  BY <1>1, <1>2 DEF Typing

LEMMA RangeIsAcc ==
  ASSUME NEW a, IsSum(a)
  PROVE  IsAcc(DaRange(a))
<1>1. CASE a.e # 0 /\ (a.e > MaxExp \/ a.e < 1)
  BY <1>1, LargestIsAcc, ZeroIsAcc DEF DaRange, OutOfRange, TooSmall
<1>2. CASE a.e = 0 \/ (a.e <= MaxExp /\ a.e >= 1)
  <2>1. DaRange(a) = a
    BY <1>2, DauWidths DEF DaRange, OutOfRange, TooSmall, IsSum
  <2>2. a.e \in 0..MaxExp
    BY <1>2, DauWidths DEF IsSum
  <2> QED  BY <2>1, <2>2 DEF IsSum, IsAcc
<1> QED  BY <1>1, <1>2, DauWidths DEF IsSum

\* da_flags() puts a result within range and its flags beside it.
LEMMA DaFlagsTyping ==
  ASSUME NEW t, Typing(t), NEW a, NEW vu \in BOOLEAN, IsSum(a), ~vu => IsAcc(a)
  PROVE  LET fl == DaFlags(t, a, vu) IN Typing(fl.t) /\ IsAcc(fl.res)
<1> DEFINE r == IF vu THEN DaRange(a) ELSE a
           f == [N |-> Negative(r), Z |-> r.e = 0, U |-> vu /\ TooSmall(a), V |-> vu /\ OutOfRange(a)]
           u == WithFlags(t, f)
           fl == DaFlags(t, a, vu)
<1> SUFFICES Typing(fl.t) /\ IsAcc(fl.res)
  OBVIOUS
<1>1. fl.t = (IF f.U \/ f.V THEN Raise(u, UV) ELSE u) /\ fl.res = r
  BY DEF DaFlags
<1>2. f \in DauFlags
  BY DEF DauFlags, Negative, TooSmall, OutOfRange
<1>3. IsAcc(r)
  BY RangeIsAcc
<1> HIDE DEF f, r
<1>4. Typing(u)
  BY <1>2, WithFlagsTyping
<1> HIDE DEF u, fl
<1>5. Typing(Raise(u, UV))
  BY <1>4, RaiseTyping
<1> QED  BY <1>1, <1>3, <1>4, <1>5

LEMMA AccWritten ==
  ASSUME NEW t, Typing(t), NEW n \in AccNo, NEW r, IsAcc(r)
  PROVE  Typing([t EXCEPT !.a[n] = r])
<1> DEFINE u == [t EXCEPT !.a[n] = r]
<1> SUFFICES Typing(u)
  OBVIOUS
<1>1. /\ Shape(u) /\ u.a = [t.a EXCEPT ![n] = r] /\ u.aPipe = t.aPipe /\ u.dau = t.dau
      /\ u.flagPipe = t.flagPipe /\ u.ctr = t.ctr /\ u.dauc = t.dauc
      /\ u.cau = t.cau /\ u.taken = t.taken /\ u.raised = t.raised
  BY SMT DEF Typing, Shape, StateFields
<1> HIDE DEF u
<1>2. DOMAIN u.a = AccNo /\ \A k \in AccNo : IsAcc(u.a[k])
  BY <1>1, SMT DEF Typing
<1> QED  BY <1>1, <1>2 DEF Typing

LEMMA StoreZTyping ==
  ASSUME NEW t, Typing(t), NEW z, NEW y, NEW size, NEW v
  PROVE  Typing(DaStoreZ(t, z, y, size, v))
<1> DEFINE u == [t EXCEPT !.mem[ZAddr(t, z, y)] = v]
<1>1. SameDau(u, t) /\ u.cau = t.cau /\ u.taken = t.taken /\ u.raised = t.raised
  BY SMT DEF Typing, Shape, StateFields, SameDau
<1>2. Typing(u)
  <2> HIDE DEF u
  <2> QED  BY <1>1, SameTyping DEF Typing
<1>3. DaStoreZ(t, z, y, size, v) \in {t, Raise(t, BUSERR), DaPostmod(u, ZReg(z, y), z.i, size)}
  BY Zenon DEF DaStoreZ
<1> HIDE DEF u
<1> QED  BY <1>2, <1>3, RaiseTyping, PostmodTyping

LEMMA FinishTyping ==
  ASSUME NEW t, Typing(t), NEW n \in AccNo, NEW r, IsAcc(r), NEW z, NEW y, NEW size, NEW v
  PROVE  Typing(Finish(t, n, r, z, y, size, v))
BY AccWritten, StoreZTyping, Zenon DEF Finish

-----------------------------------------------------------------------------
(* Operands *)

\* What da_read() returns: an accumulator's two forms, or a datum of type T.
OperandOK(o, T) ==
  \/ o.acc = TRUE /\ IsAcc(o.val) /\ o.raw \in FloatWord
  \/ o.acc = FALSE /\ o.raw \in T

LEMMA ReadOperand ==
  ASSUME NEW t, Typing(t), NEW f, Operand(f), NEW T, Fits(t, f, T), ~DaReadFaults(t, f)
  PROVE  OperandOK(DaRead(t, f), T) /\ (DaRead(t, f).acc <=> FromAcc(f))
<1>1. CASE FromAcc(f)
  <2> DEFINE n == f.i % 4
  <2>1. n \in AccNo
    BY <1>1 DEF Operand
  <2> HIDE DEF n
  <2>2. IsAcc(t.a[n]) /\ IsAcc(t.aPipe[3][n])
    <3>1. 3 \in 1..3
      OBVIOUS
    <3> QED  BY <2>1, <3>1, Zenon DEF Typing
  <2>3. AccPack(t.aPipe[3][n]) \in FloatWord
    BY <2>2, Packed
  <2>4. DaRead(t, f) = [acc |-> TRUE, n |-> n, val |-> t.a[n], raw |-> AccPack(t.aPipe[3][n])]
    BY <1>1 DEF DaRead, n
  <2> QED  BY <1>1, <2>2, <2>3, <2>4 DEF OperandOK
<1>2. CASE ~FromAcc(f)
  <2>1. DaRead(t, f) = [acc |-> FALSE, raw |-> t.mem[t.r[f.p]], ea |-> t.r[f.p], preg |-> f.p]
    BY <1>2 DEF DaRead
  <2>2. t.mem[t.r[f.p]] \in T
    BY <1>2 DEF Fits
  <2> DEFINE raw == t.mem[t.r[f.p]]
             ea  == t.r[f.p]
             o   == [acc |-> FALSE, raw |-> raw, ea |-> ea, preg |-> f.p]
  <2>3. o.acc = FALSE /\ o.raw = raw
    OBVIOUS
  <2> HIDE DEF o
  <2> QED  BY <1>2, <2>1, <2>2, <2>3 DEF OperandOK, o
<1> QED  BY <1>1, <1>2

LEMMA FloatOperand ==
  ASSUME NEW o, OperandOK(o, FloatWord)
  PROVE  IsAcc(DaAdder(o)) /\ AsWord(o) \in FloatWord /\ o.raw \in FloatWord
BY Packed, Unpacked DEF OperandOK, DaAdder, AsWord

\* The types of integers in memory, by their widths.
Unsigned(n) == 0 .. 2 ^ n - 1

LEMMA UnsignedWords ==
  Code = Unsigned(ByteBits) /\ 0 .. 2 * ShortH - 1 = Unsigned(HalfBits) /\ LongWord = Unsigned(IntBits)
BY Widths DEF Code, LongWord, Unsigned

LEMMA IntegerOperand ==
  ASSUME NEW n \in IntWidths, NEW o, OperandOK(o, Unsigned(n))
  PROVE  IntOperand(o, n) \in Unsigned(n) /\ IsAcc(AccFromI64(SignedOperand(o, n)))
<1>1. IntOperand(o, n) \in Unsigned(n)
  BY TopBitsRange DEF OperandOK, IntOperand, Unsigned
<1>2. LET v == SignedOperand(o, n) IN v \in Int /\ -(2 ^ ScAcc) <= v /\ v <= 2 ^ ScAcc
  BY <1>1, SignedRange DEF Unsigned, SignedOperand
<1> QED  BY <1>1, <1>2, IntegerIsAcc

LEMMA ByteValue ==
  ASSUME NEW t, NEW code \in Code
  PROVE  IsAcc(IcValue(t, code))
<1>1. CASE t.dauc.inp = "linear"
  <2>1. code \in Int /\ -(2 ^ ScAcc) <= code /\ code <= 2 ^ ScAcc
    <3>1. ByteBits \in 0 .. 4 * IntBits /\ ScAcc \in 0 .. 4 * IntBits /\ ByteBits <= ScAcc
      BY Widths, DauWidths
    <3>2. 2 ^ ByteBits \in Nat \ {0} /\ 2 ^ ByteBits <= 2 ^ ScAcc /\ 2 ^ ScAcc \in Nat
      BY <3>1, PowersRise
    <3> QED  BY <3>2 DEF Code
  <2> QED  BY <1>1, <2>1, IntegerIsAcc DEF IcValue
<1>2. CASE t.dauc.inp # "linear"
  <2> DEFINE a == AccFromI64(Decode2x(t.dauc.inp, code))
  <2>1. IsAcc(a)
    <3> DEFINE D == Decode2x(t.dauc.inp, code)
    <3>1. D \in Int /\ -(2 ^ ScAcc) <= D /\ D <= 2 ^ ScAcc
      BY DecodedRange, Units
    <3> HIDE DEF D
    <3> QED  BY <3>1, IntegerIsAcc DEF D
  <2>2. IcValue(t, code) = [a EXCEPT !.e = IF @ = 0 THEN 0 ELSE @ - 1]
    BY <1>2 DEF IcValue
  <2> HIDE DEF a
  <2>3. a.e \in 0..MaxExp /\ MaxExp \in Nat
    BY <2>1, DauWidths DEF IsAcc
  <2>4. (IF a.e = 0 THEN 0 ELSE a.e - 1) \in 0..MaxExp /\ ((IF a.e = 0 THEN 0 ELSE a.e - 1) # 0 => a.e # 0)
    BY <2>3
  <2> QED  BY <2>1, <2>2, <2>4 DEF IsAcc
<1> QED  BY <1>1, <1>2

-----------------------------------------------------------------------------
(* Special functions *)

\* The exponent and mantissa of an integer result, in the lane of a.
LEMMA IntegerResults ==
  ASSUME NEW a, IsAcc(a), NEW x, x \in Int, NEW n \in IntWidths, NEW mode \in 0..3
  PROVE  /\ IsAcc(IntLane(ToTop(x, n), a)) /\ AccToInt(a, mode, n) \in Int
         /\ IsAcc(IntLane(AccToInt(a, mode, IntBits), a))
<1>1. n \in 1..IntBits
  BY IntUnits
<1>2. ToTop(x, n) \in Int /\ -(2 ^ ScAcc) <= ToTop(x, n) /\ ToTop(x, n) < 2 ^ ScAcc
  BY <1>1, ToTopRange
<1>3. a \in [m: Int, e: Int] /\ a.e <= MaxExp + 1
  BY DauWidths DEF IsAcc
<1>4. IntBits \in IntWidths /\ IntBits # ByteBits
  BY Widths DEF IntWidths
<1>5. AccToInt(a, mode, n) \in Int
  BY <1>3, ToIntRange
<1> DEFINE v == AccToInt(a, mode, IntBits)
<1>6. v \in IntMin(IntBits)..IntMax(IntBits) /\ v \in Int
  BY <1>3, <1>4, ToIntRange
<1>7. IntMin(IntBits) = -(2 ^ ScAcc) /\ IntMax(IntBits) = 2 ^ ScAcc - 1 /\ 2 ^ ScAcc \in Int
  <2>1. 2 ^ (IntBits - 1) = 2 ^ ScAcc /\ 2 ^ ScAcc \in Nat
    BY Units
  <2> QED  BY <1>4, <2>1 DEF IntMin, IntMax
<1> HIDE DEF v
<1>8. -(2 ^ ScAcc) <= v /\ v < 2 ^ ScAcc
  BY <1>6, <1>7
<1>9. IsAcc(IntLane(v, a))
  BY <1>6, <1>8, LaneIsAcc
<1> QED  BY <1>2, <1>5, <1>9, LaneIsAcc DEF v

LEMMA SpecialWords ==
  /\ \A sg : Infinity(sg) \in FloatWord
  /\ OneWord \in FloatWord
  /\ \A w \in FloatWord : SeedBits(w) \in FloatWord
<1> DEFINE F == 2 ^ FracBits
<1>1. F \in Nat \ {0} /\ MaxExp \in Nat /\ Bias \in 0..MaxExp
  BY Units, DauWidths
<1>2. ASSUME NEW sg PROVE Infinity(sg) \in FloatWord
  BY <1>1 DEF Infinity, FloatWord
<1>3. OneWord \in FloatWord
  BY <1>1 DEF OneWord, FloatWord
<1>4. ASSUME NEW w \in FloatWord PROVE SeedBits(w) \in FloatWord
  <2>1. w.m \in -F .. F - 1 /\ w.e \in 0..MaxExp
    BY DEF FloatWord
  <2> DEFINE m == IF w.m < 0 THEN -F - w.m - 1 ELSE F - 1 - w.m
  <2>2. SeedBits(w) = [m |-> m, e |-> MaxExp - w.e]
    BY DEF SeedBits
  <2>3. m \in -F .. F - 1 /\ MaxExp - w.e \in 0..MaxExp
    <3> HIDE DEF F
    <3> QED  BY <1>1, <2>1
  <2> HIDE DEF m
  <2> QED  BY <2>2, <2>3 DEF FloatWord
<1> QED  BY <1>2, <1>3, <1>4

\* What a special function computes is an accumulator's value, and its flags
\* are flags.
LEMMA ConversionTyping ==
  ASSUME NEW t, Typing(t), NEW w, w.g \in SpecialFunctions, w.n \in AccNo,
         NEW Y, OperandOK(Y, Datum(w.g)), w.g = "dsp" => Y.acc = FALSE
  PROVE  LET c == Conversion(t, w, Y) IN Typing(c.t) /\ IsAcc(c.res)
<1> DEFINE a == DaAdder(Y)
           Flagged(fl) == [res |-> fl.res, t |-> fl.t, z |-> AccPack(fl.res)]
           c == Conversion(t, w, Y)
           OK(x) == Typing(x.t) /\ IsAcc(x.res)
           mode == t.dauc.rnd
<1> SUFFICES OK(c)
  OBVIOUS
<1>1. mode \in 0..3
  BY DEF Typing
<1>2. ASSUME NEW x, NEW vu \in BOOLEAN, IsSum(x), ~vu => IsAcc(x)
      PROVE  OK(Flagged(DaFlags(t, x, vu)))
  BY <1>2, DaFlagsTyping
<1>3. ASSUME NEW x, IsAcc(x)
      PROVE  OK(Flagged(DaFlags(t, x, FALSE)))
  <2>1. IsSum(x)
    BY <1>3, AccIsSum
  <2> QED  BY <1>2, <1>3, <2>1
<1>4. ASSUME NEW r, IsAcc(r), NEW v
      PROVE  OK([res |-> r, t |-> t, z |-> v])
  BY <1>4
<1>5. {ByteBits, HalfBits, IntBits} = IntWidths
  BY DEF IntWidths
<1>6. CASE w.g = "ic"
  <2>1. Datum(w.g) = Unsigned(ByteBits)
    BY <1>6, UnsignedWords DEF Datum
  <2> DEFINE x == IcValue(t, IntOperand(Y, ByteBits))
  <2>2. IsAcc(x)
    BY <1>5, <2>1, IntegerOperand, ByteValue, UnsignedWords
  <2>3. c = Flagged(DaFlags(t, x, FALSE))
    BY <1>6 DEF Conversion
  <2> HIDE DEF x, OK, Flagged, c
  <2> QED  BY <1>3, <2>2, <2>3
<1>7. ASSUME NEW n \in {HalfBits, IntBits}, Datum(w.g) = Unsigned(n),
             c = Flagged(DaFlags(t, AccFromI64(SignedOperand(Y, n)), FALSE))
      PROVE  OK(c)
  <2> DEFINE x == AccFromI64(SignedOperand(Y, n))
  <2>1. IsAcc(x)
    BY <1>5, <1>7, IntegerOperand
  <2> HIDE DEF x, OK, Flagged, c
  <2> QED  BY <1>3, <1>7, <2>1 DEF x
<1>8. CASE w.g = "float16"
  <2>1. Datum(w.g) = Unsigned(HalfBits)
    BY <1>8, UnsignedWords DEF Datum
  <2>2. c = Flagged(DaFlags(t, AccFromI64(SignedOperand(Y, HalfBits)), FALSE))
    BY <1>8 DEF Conversion
  <2> HIDE DEF OK, Flagged, c
  <2> QED  BY <1>7, <2>1, <2>2
<1>9. CASE w.g = "float32"
  <2>1. Datum(w.g) = Unsigned(IntBits)
    BY <1>9, UnsignedWords DEF Datum
  <2>2. c = Flagged(DaFlags(t, AccFromI64(SignedOperand(Y, IntBits)), FALSE))
    BY <1>9 DEF Conversion
  <2> HIDE DEF OK, Flagged, c
  <2> QED  BY <1>7, <2>1, <2>2
<1>10. CASE w.g \in {"oc", "int16", "int32", "round", "ifalt", "ifaeq", "ifagt", "ieee", "seed"}
  <2>1. Datum(w.g) = FloatWord
    BY <1>10 DEF Datum
  <2>2. IsAcc(a) /\ AsWord(Y) \in FloatWord
    BY <2>1, FloatOperand
  <2> DEFINE ToInt(n) == AccToInt(a, mode, n)
  <2> HIDE DEF a, mode
  <2>3. \A n \in IntWidths : ToInt(n) \in Int
    BY <1>1, <2>2, IntegerResults
  <2>4. CASE w.g = "oc"
    <3>1. OcCode(t, a) \in Int
      <4>1. CompandedEncode(a, t.dauc.out) \in Int
        <5>1. Code \subseteq Int
          BY UnsignedWords DEF Unsigned
        <5> QED  BY <2>2, <5>1, CompandedCode
      <4> QED  BY <1>5, <2>3, <4>1 DEF OcCode, mode
    <3> DEFINE r == IntLane(ToTop(OcCode(t, a), ByteBits), a)
    <3>2. IsAcc(r)
      BY <1>1, <1>5, <2>2, <3>1, IntegerResults
    <3>3. c = [res |-> r, t |-> t, z |-> OcCode(t, a)]
      BY <2>4, Zenon DEF Conversion, a
    <3> HIDE DEF r, OK, c
    <3> QED  BY <1>4, <3>2, <3>3
  <2>5. CASE w.g = "int16"
    <3> DEFINE r == IntLane(ToTop(ToInt(HalfBits), HalfBits), a)
    <3>1. IsAcc(r)
      BY <1>1, <1>5, <2>2, <2>3, IntegerResults
    <3>2. c = [res |-> r, t |-> t, z |-> ToInt(HalfBits) % 2 ^ HalfBits]
      BY <2>5 DEF Conversion, a, mode
    <3> HIDE DEF r, OK, c
    <3> QED  BY <1>4, <3>1, <3>2
  <2>6. CASE w.g = "int32"
    <3> DEFINE r == IntLane(ToInt(IntBits), a)
    <3>1. IsAcc(r)
      BY <1>1, <1>5, <2>2, <2>3, IntegerResults
    <3>2. c = [res |-> r, t |-> t, z |-> ToInt(IntBits) % 2 ^ IntBits]
      BY <2>6 DEF Conversion, a, mode
    <3> HIDE DEF r, OK, c
    <3> QED  BY <1>4, <3>1, <3>2
  <2>7. CASE w.g = "round"
    <3>1. IsSum(AccRound(a))
      BY <2>2, RoundedSum
    <3>2. c = Flagged(DaFlags(t, AccRound(a), TRUE))
      BY <2>7 DEF Conversion, a
    <3> HIDE DEF OK, Flagged, c
    <3> QED  BY <1>2, <3>1, <3>2
  <2>8. CASE w.g \in {"ifalt", "ifaeq", "ifagt"}
    <3> DEFINE r == IF Holds(t, w.g) THEN a ELSE t.a[w.n]
    <3>1. IsAcc(r)
      BY <2>2 DEF Typing
    <3>2. c = [res |-> r, t |-> t, z |-> AccPack(r)]
      BY <2>8 DEF Conversion, a
    <3> HIDE DEF r, OK, c
    <3> QED  BY <1>4, <3>1, <3>2
  <2>9. CASE w.g = "ieee"
    <3>1. c = [res |-> a, t |-> t, z |-> AccToIeee(a)]
      BY <2>9 DEF Conversion, a
    <3> HIDE DEF OK, c
    <3> QED  BY <1>4, <2>2, <3>1
  <2>10. CASE w.g = "seed"
    <3> DEFINE sb == SeedBits(AsWord(Y))
               fl == DaFlags(t, AccUnpack(sb), FALSE)
               e  == AsWord(Y).e = MaxExp /\ sb.e = 0
               u  == [fl.t EXCEPT !.dau.U = e]
    <3>1. c = [res |-> fl.res, z |-> sb, t |-> u]
      BY <2>10 DEF Conversion
    <3>2. IsAcc(AccUnpack(sb))
      BY <2>2, SpecialWords, Unpacked
    <3>3. Typing(fl.t) /\ IsAcc(fl.res)
      <4>1. IsSum(AccUnpack(sb))
        BY <3>2, AccIsSum
      <4> QED  BY <3>2, <4>1, DaFlagsTyping
    <3>4. e \in BOOLEAN
      OBVIOUS
    <3> HIDE DEF fl, sb, e
    <3>5. /\ Shape(u) /\ u.a = fl.t.a /\ u.aPipe = fl.t.aPipe /\ u.dau = [fl.t.dau EXCEPT !.U = e]
          /\ u.flagPipe = fl.t.flagPipe /\ u.ctr = fl.t.ctr /\ u.dauc = fl.t.dauc
          /\ u.cau = fl.t.cau /\ u.taken = fl.t.taken /\ u.raised = fl.t.raised
      BY <3>3, SMT DEF Typing, Shape, StateFields
    <3>6. u.dau \in DauFlags
      BY <3>3, <3>4, <3>5, SMT DEF Typing, DauFlags
    <3> HIDE DEF u
    <3>7. Typing(u)
      BY <3>3, <3>5, <3>6 DEF Typing
    <3> HIDE DEF c
    <3> QED  BY <3>1, <3>3, <3>7
  <2> QED  BY <1>10, <2>4, <2>5, <2>6, <2>7, <2>8, <2>9, <2>10, Zenon
<1>11. CASE w.g = "dsp"
  <2>1. Y.raw \in IeeeWord
    BY <1>11 DEF OperandOK, Datum
  <2>2. CASE Y.raw.x \in {0, MaxExp}
    <3> DEFINE v == Y.raw
               f == [N |-> v.x # 0 /\ v.s, Z |-> v.x = 0, U |-> v.x = 0 /\ v.f # 0,
                     V |-> v.x # 0 /\ (~v.s \/ v.f # 0)]
               u == WithFlags(t, f)
               s == DspSpecial(t, v)
    <3>1. /\ s.t = (IF v.x # 0 /\ v.f # 0 THEN Raise(u, NAN) ELSE u)
          /\ s.res = (IF v.x = 0 THEN Zero ELSE AccUnpack(Infinity(v.s)))
      BY DEF DspSpecial
    <3>2. f \in DauFlags
      <4>1. v.s \in BOOLEAN
        BY <2>1 DEF IeeeWord
      <4> QED  BY <4>1 DEF DauFlags
    <3>3. IsAcc(s.res)
      BY <3>1, SpecialWords, Unpacked, ZeroIsAcc
    <3>4. c.res = s.res /\ c.t = s.t
      BY <1>11, <2>2 DEF Conversion
    <3> HIDE DEF f, s, c
    <3>5. Typing(u)
      BY <3>2, WithFlagsTyping
    <3> HIDE DEF u
    <3>6. Typing(Raise(u, NAN))
      BY <3>5, RaiseTyping
    <3> QED  BY <3>1, <3>3, <3>4, <3>5, <3>6
  <2>3. CASE Y.raw.x \notin {0, MaxExp}
    <3>1. c = Flagged(DaFlags(t, AccFromIeee(Y.raw), TRUE))
      BY <1>11, <2>3 DEF Conversion
    <3>2. IsSum(AccFromIeee(Y.raw))
      BY <2>1, IeeeSum
    <3> HIDE DEF OK, Flagged, c
    <3> QED  BY <1>2, <3>1, <3>2
  <2> QED  BY <2>2, <2>3
<1> QED  BY <1>6, <1>8, <1>9, <1>10, <1>11 DEF SpecialFunctions

-----------------------------------------------------------------------------
(* The instructions *)

LEMMA SumTyping ==
  ASSUME NEW t, Typing(t), NEW w, w.op = "da", WellFormed(w),
         NEW X, OperandOK(X, FloatWord), NEW Y, OperandOK(Y, FloatWord)
  PROVE  LET ad == AdderIn(t, w, Y)
             p  == ProductIn(t, w, X, Y)
         IN  IsSum(DauAdd(IF w.fs THEN AccNegate(ad) ELSE ad, IF w.ss THEN [p EXCEPT !.m = -@] ELSE p))
<1> DEFINE ad == AdderIn(t, w, Y)
           p  == ProductIn(t, w, X, Y)
           s  == IF w.fs THEN AccNegate(ad) ELSE ad
           q  == IF w.ss THEN [p EXCEPT !.m = -@] ELSE p
<1>1. IF w.fmt = 1 THEN w.m \in AccNo \cup {4, 5, 6} ELSE w.m \in AccNo \cup {4, 5}
  BY DEF WellFormed
<1>2. X.raw \in FloatWord /\ Y.raw \in FloatWord /\ IsAcc(DaAdder(Y))
  BY FloatOperand
<1>3. OneWord \in FloatWord /\ IsAcc(AccUnpack(OneWord)) /\ IsAcc(Zero)
  BY SpecialWords, Unpacked, ZeroIsAcc
<1>4. \A n \in AccNo : IsAcc(t.a[n]) /\ AccPack(t.aPipe[3][n]) \in FloatWord
  <2>1. 3 \in 1..3
    OBVIOUS
  <2> QED  BY <2>1, Packed DEF Typing
<1>5. IsAcc(ad)
  BY <1>1, <1>2, <1>3, <1>4 DEF AdderIn
<1>6. IsProduct(p)
  <2>1. IsProduct(Zero)
    <3>1. 2 ^ ScMul \in Nat
      BY ProductUnits
    <3> QED  BY <3>1 DEF IsProduct, Zero
  <2>2. CASE w.fmt # 1
    BY <1>2, <2>2, ProductBound DEF ProductIn
  <2>3. CASE w.fmt = 1 /\ w.m = 4
    BY <2>1, <2>3 DEF ProductIn
  <2>4. CASE w.fmt = 1 /\ w.m # 4
    <3> DEFINE m == IF w.m \in {5, 6} THEN OneWord ELSE AccPack(t.aPipe[3][w.m])
    <3>1. m \in FloatWord
      BY <1>1, <1>3, <1>4, <2>4
    <3>2. p = DauMul(m, X.raw)
      BY <2>4 DEF ProductIn
    <3> HIDE DEF m, p
    <3> QED  BY <1>2, <3>1, <3>2, ProductBound
  <2> QED  BY <2>2, <2>3, <2>4
<1> HIDE DEF ad, p
<1>7. IsSum(s)
  BY <1>5, NegatedSum, AccIsSum
<1>8. IsProduct(q)
  <2>1. 2 ^ ScMul \in Nat
    BY ProductUnits
  <2> DEFINE P == 2 ^ ScMul
  <2>2. p \in [m: Int, e: Int] /\ -(4 * P) <= p.m /\ p.m <= 4 * P /\ P \in Nat
    BY <1>6, <2>1 DEF IsProduct
  <2> HIDE DEF P
  <2>3. [p EXCEPT !.m = -@] \in [m: Int, e: Int] /\ [p EXCEPT !.m = -@].m = -p.m
    BY <2>2
  <2>4. -(4 * P) <= -p.m /\ -p.m <= 4 * P
    BY <2>2
  <2> QED  BY <1>6, <2>3, <2>4 DEF IsProduct, P
<1> HIDE DEF s, q
<1>9. IsSum(DauAdd(s, q))
  BY <1>7, <1>8, SumNormal
<1> QED  BY <1>9 DEF s, q, ad, p

LEMMA DaTyping ==
  ASSUME NEW t0, Typing(t0), NEW w, w.op = "da", WellFormed(w),
         Fits(t0, w.x, FloatWord), Fits(DaReadMoves(t0, w.x, 4), w.y, FloatWord)
  PROVE  Typing(ExecDa(t0, w))
<1> DEFINE X   == DaRead(t0, w.x)
           t1  == DaReadMoves(t0, w.x, 4)
           Y   == DaRead(t1, w.y)
           t2  == DaReadMoves(t1, w.y, 4)
           ad  == AdderIn(t2, w, Y)
           p   == ProductIn(t2, w, X, Y)
           sum == DauAdd(IF w.fs THEN AccNegate(ad) ELSE ad, IF w.ss THEN [p EXCEPT !.m = -@] ELSE p)
           fl  == DaFlags(t2, sum, TRUE)
           v   == IF ~Tap(w) THEN AccPack(fl.res)
                  ELSE IF Y.acc THEN AccPack([t2.a EXCEPT ![w.n] = fl.res][Y.n]) ELSE Y.raw
           z   == Finish(fl.t, w.n, fl.res, w.z, Y, 4, v)
           u   == ExecDa(t0, w)
<1> SUFFICES Typing(u)
  OBVIOUS
<1>1. u = IF DaReadFaults(t0, w.x) THEN Raise(t0, BUSERR)
          ELSE IF DaReadFaults(t1, w.y) THEN Raise(t1, BUSERR) ELSE z
  BY DEF ExecDa
<1>2. Operand(w.x) /\ Operand(w.y) /\ w.n \in AccNo
  BY DEF WellFormed
<1>3. Typing(t1) /\ Typing(t2)
  BY ReadMovesTyping
<1>4. Typing(Raise(t0, BUSERR)) /\ Typing(Raise(t1, BUSERR))
  BY <1>3, RaiseTyping
<1>5. ASSUME ~DaReadFaults(t0, w.x), ~DaReadFaults(t1, w.y)
      PROVE  Typing(z)
  <2>1. OperandOK(X, FloatWord)
    BY <1>2, <1>5, ReadOperand
  <2>2. OperandOK(Y, FloatWord)
    <3> HIDE DEF t1
    <3> QED  BY <1>2, <1>3, <1>5, ReadOperand DEF t1
  <2>3. IsSum(sum)
    <3> HIDE DEF X, Y, t2
    <3> QED  BY <1>3, <2>1, <2>2, SumTyping
  <2> HIDE DEF t2, sum
  <2>4. Typing(fl.t) /\ IsAcc(fl.res)
    BY <1>3, <2>3, DaFlagsTyping
  <2> HIDE DEF fl, v, Y
  <2> QED  BY <1>2, <2>4, FinishTyping
<1> HIDE DEF t1, z, u
<1> QED  BY <1>1, <1>4, <1>5

LEMMA SpecialTyping ==
  ASSUME NEW t0, Typing(t0), NEW w, w.op = "special", WellFormed(w),
         Fits(t0, w.y, Datum(w.g)), w.g = "dsp" => ~FromAcc(w.y)
  PROVE  Typing(ExecDaSpecial(t0, w))
<1> DEFINE Y  == DaRead(t0, w.y)
           t1 == DaReadMoves(t0, w.y, ReadSize(w.g))
           c  == Conversion(t1, w, Y)
           b  == [c.t EXCEPT !.a[w.n] = c.res]
           k  == DaPostmodOnly(b, w.z, Y, StoreSize(w.g))
           z  == Finish(c.t, w.n, c.res, w.z, Y, StoreSize(w.g), c.z)
           u  == ExecDaSpecial(t0, w)
<1> SUFFICES Typing(u)
  OBVIOUS
<1>1. u = IF DaReadFaults(t0, w.y) THEN Raise(t0, BUSERR)
          ELSE IF Withheld(t1, w) THEN k ELSE z
  BY DEF ExecDaSpecial
<1>2. Operand(w.y) /\ w.g \in SpecialFunctions /\ w.n \in AccNo
  BY DEF WellFormed
<1>3. Typing(t1) /\ Typing(Raise(t0, BUSERR))
  BY ReadMovesTyping, RaiseTyping
<1>4. ASSUME ~DaReadFaults(t0, w.y)
      PROVE  Typing(c.t) /\ IsAcc(c.res)
  <2>1. OperandOK(Y, Datum(w.g)) /\ (Y.acc <=> FromAcc(w.y))
    BY <1>2, <1>4, ReadOperand
  <2> HIDE DEF Y, t1
  <2>2. w.g = "dsp" => Y.acc = FALSE
    BY <2>1 DEF OperandOK
  <2> QED  BY <1>2, <1>3, <2>1, <2>2, ConversionTyping
<1> HIDE DEF t1, c, Y, u
<1>5. ASSUME ~DaReadFaults(t0, w.y)
      PROVE  Typing(k) /\ Typing(z)
  <2>1. Typing(z)
    BY <1>2, <1>4, <1>5, FinishTyping
  <2>2. Typing(b)
    BY <1>2, <1>4, <1>5, AccWritten
  <2> HIDE DEF b
  <2> QED  BY <2>1, <2>2, PostmodTyping DEF DaPostmodOnly
<1> HIDE DEF k, z
<1> QED  BY <1>1, <1>3, <1>5

\* The CAU's part of the struct, apart from registers and memory.
CauWrites(u, t) == SameDau(u, t) /\ u.cau \in Flags /\ u.taken \in BOOLEAN /\ u.raised = t.raised

LEMMA RegwWrites ==
  ASSUME NEW t, NEW u, CauWrites(u, t), NEW code, NEW v
  PROVE  CauWrites(Regw(u, code, v), t)
<1>1. CauWrites([u EXCEPT !.r[code] = v], t)
  BY SMT DEF CauWrites, SameDau, Shape, StateFields
<1> QED  BY <1>1 DEF Regw

LEMMA FlagsWritten ==
  ASSUME NEW t, NEW u, CauWrites(u, t), NEW f \in Flags
  PROVE  CauWrites([u EXCEPT !.cau = f], t)
BY SMT DEF CauWrites, SameDau, Shape, StateFields

LEMMA AluFlags ==
  ASSUME NEW t, NEW f \in AluFunctions \ {"res5"}, NEW a, NEW b, NEW h
  PROVE  AluOp(t, f, a, b, h).f \in Flags
<1>1. ASSUME NEW x, NEW c \in BOOLEAN
      PROVE  FlagsNz(x, h) \in Flags /\ [FlagsNz(x, h) EXCEPT !.c = c] \in Flags
  <2>1. FlagsNz(x, h) \in Flags
    BY DEF FlagsNz, Sign, Flags
  <2> QED  BY <2>1, SMT DEF Flags
<1>2. \A x : Plain(x, h).f \in Flags
  BY <1>1 DEF Plain
<1>3. \A x, y, c : AluAdd(x, y, c, h).f \in Flags
  BY DEF AluAdd, Sign, Flags
<1>4. \A x, y : AluSub(x, y, h).f \in Flags
  BY DEF AluSub, Sign, Flags
<1>5. Cradd(a, b, h).f \in Flags
  <2> DEFINE sum == BitRev(Low(a, h), Width(h)) + BitRev(Low(b, h), Width(h))
             res == BitRev(Low(sum, h), Width(h))
             c   == sum >= 2 * h
  <2>1. Cradd(a, b, h).f = [FlagsNz(res, h) EXCEPT !.c = c]
    BY DEF Cradd
  <2>2. c \in BOOLEAN
    OBVIOUS
  <2> HIDE DEF c, res
  <2> QED  BY <1>1, <2>1, <2>2
<1>6. \A x : Ror(a, x, h).f \in Flags
  <2> TAKE x
  <2> DEFINE res == Low(a, h) \div 2 + x * h
             c   == a % 2 = 1
  <2>1. Ror(a, x, h).f = [FlagsNz(res, h) EXCEPT !.c = c]
    BY DEF Ror
  <2>2. c \in BOOLEAN
    OBVIOUS
  <2> HIDE DEF c, res
  <2> QED  BY <1>1, <2>1, <2>2
<1> HIDE DEF Flags
<1>7. CASE f \in {"add", "sub", "cmp", "rsub", "rol"}
  BY <1>3, <1>4, <1>7 DEF AluOp
<1>8. CASE f = "cradd"
  BY <1>5, <1>8 DEF AluOp
<1>9. CASE f = "ror"
  BY <1>6, <1>9 DEF AluOp
<1>10. CASE f \in {"andc", "xor", "or", "and", "btst"}
  BY <1>2, <1>10 DEF AluOp
<1>11. CASE f \in {"shl", "shr", "asr"}
  BY <1>2, <1>11 DEF AluOp
<1> QED  BY <1>7, <1>8, <1>9, <1>10, <1>11 DEF AluFunctions

LEMMA AluWrites ==
  ASSUME NEW t, CauWrites(t, t), NEW f \in AluFunctions, NEW a, NEW b, NEW rd, NEW h
  PROVE  CauWrites(Alu(t, f, a, b, rd, h), t)
<1>1. CASE f = "res5"
  BY <1>1 DEF Alu
<1>2. CASE f # "res5"
  <2> DEFINE r == AluOp(t, f, a, b, h)
             v == IF f \in {"shl", "shr"} THEN r.res ELSE Extended(r.res, h, LongH)
             u == [t EXCEPT !.cau = r.f]
  <2>1. Alu(t, f, a, b, rd, h) = IF StoresResult(f) THEN Regw(u, rd, v) ELSE u
    BY <1>2 DEF Alu
  <2>2. r.f \in Flags
    BY <1>2, AluFlags
  <2> HIDE DEF r, v
  <2>3. CauWrites(u, t)
    BY <2>2, FlagsWritten
  <2> HIDE DEF u
  <2> QED  BY <2>1, <2>3, RegwWrites
<1> QED  BY <1>1, <1>2

LEMMA CondIsBoolean ==
  ASSUME NEW f \in Flags, NEW g \in DauFlags, NEW c \in CondCodes
  PROVE  CondEval(f, g, c) \in BOOLEAN
<1>1. /\ f.n \in BOOLEAN /\ f.z \in BOOLEAN /\ f.v \in BOOLEAN /\ f.c \in BOOLEAN
      /\ g.N \in BOOLEAN /\ g.Z \in BOOLEAN /\ g.U \in BOOLEAN /\ g.V \in BOOLEAN
  BY DEF Flags, DauFlags
<1>2. CASE c \in {"false", "true", "pl", "mi", "ne", "eq", "vc", "vs", "cc", "cs"}
  BY <1>1, <1>2 DEF CondEval
<1>3. CASE c \in {"ge", "lt", "gt", "le", "hi", "ls"}
  BY <1>1, <1>3 DEF CondEval
<1>4. CASE c \in {"auc", "aus", "age", "alt", "ane", "aeq", "avc", "avs", "agt", "ale"}
  BY <1>1, <1>4 DEF CondEval
<1> QED  BY <1>2, <1>3, <1>4 DEF CondCodes

LEMMA CauTyping ==
  ASSUME NEW t, Typing(t), NEW w, WellFormed(w), w.op \in CauOps \cup {"load", "store"}
  PROVE  Typing(ExecInsn(t, w))
<1> DEFINE u == ExecInsn(t, w)
<1> SUFFICES Typing(u)
  OBVIOUS
<1>1. CauWrites(t, t)
  BY DEF Typing, CauWrites, SameDau
<1>2. ASSUME CauWrites(u, t) PROVE Typing(u)
  <2> HIDE DEF u
  <2> QED  BY <1>2, SameTyping DEF CauWrites, Typing
<1>3. \A x : FlagsNz(x, LongH) \in Flags
  BY DEF FlagsNz, Sign, Flags
<1>4. \A x \in BOOLEAN : CauWrites([t EXCEPT !.taken = x], t)
  BY <1>1, SMT DEF CauWrites, SameDau, Shape, StateFields
<1>5. "add" \in AluFunctions
  BY DEF AluFunctions
<1>6. CASE w.op = "alu"
  <2>1. w.f \in AluFunctions /\ u = ExecAluReg(t, w)
    BY <1>6 DEF ExecInsn, WellFormed
  <2> QED  BY <1>1, <1>2, <2>1, AluWrites DEF ExecAluReg
<1>7. CASE w.op = "imm"
  <2>1. w.f \in AluFunctions /\ u = ExecAluImm(t, w)
    BY <1>7 DEF ExecInsn, WellFormed
  <2> QED  BY <1>1, <1>2, <2>1, AluWrites DEF ExecAluImm
<1>8. CASE w.op = "add3"
  <2>1. u = ExecAdd3(t, w)
    BY <1>8 DEF ExecInsn
  <2> QED  BY <1>1, <1>2, <1>5, <2>1, AluWrites DEF ExecAdd3
<1>9. CASE w.op = "shiftor"
  <2>1. u = ExecShiftOr(t, w)
    BY <1>9 DEF ExecInsn
  <2> QED  BY <1>1, <1>2, <1>3, <2>1, FlagsWritten, RegwWrites DEF ExecShiftOr
<1>10. CASE w.op = "set24"
  <2>1. u = ExecSet24(t, w)
    BY <1>10 DEF ExecInsn
  <2> QED  BY <1>1, <1>2, <2>1, RegwWrites DEF ExecSet24
<1>11. CASE w.op = "if"
  <2>1. w.c \in CondCodes /\ u = ExecIf(t, w)
    BY <1>11 DEF ExecInsn, WellFormed
  <2>2. CondEval(t.cau, t.flagPipe[4], w.c) \in BOOLEAN
    <3>1. 4 \in 1..4
      OBVIOUS
    <3> QED  BY <2>1, <3>1, CondIsBoolean DEF Typing
  <2> QED  BY <1>2, <1>4, <2>1, <2>2 DEF ExecIf
<1>12. CASE w.op = "loop"
  <2> DEFINE x == ~Sign(Opval(t, w.rm), LongH)
             b == [t EXCEPT !.taken = x]
  <2>1. u = Regw(b, w.rm, Low(Opval(t, w.rm) - 1, LongH))
    BY <1>12 DEF ExecInsn, ExecLoop
  <2>2. x \in BOOLEAN
    BY DEF Sign
  <2> HIDE DEF x
  <2>3. CauWrites(b, t)
    BY <1>4, <2>2
  <2> HIDE DEF b
  <2> QED  BY <1>2, <2>1, <2>3, RegwWrites
<1>13. CASE w.op = "load"
  <2> DEFINE v == WExtend(w.w, t.mem[MoveAddr(t, w)])
             b == CaPostmod(t, w)
             k == [b EXCEPT !.cau = FlagsNz(v, LongH)]
  <2>1. u = IF ~Mapped(t, MoveAddr(t, w)) THEN Raise(t, BUSERR) ELSE Regw(k, w.rh, v)
    BY <1>13 DEF ExecInsn, ExecLoad
  <2>2. CauWrites(b, t)
    BY <1>1, RegwWrites DEF CaPostmod
  <2> HIDE DEF v, b
  <2>3. CauWrites(k, t)
    BY <1>3, <2>2, FlagsWritten
  <2> HIDE DEF k
  <2> QED  BY <1>2, <2>1, <2>3, RegwWrites, RaiseTyping
<1>14. CASE w.op = "store"
  <2> DEFINE v == WSelect(w.w, Opval(t, w.rh))
             b == [t EXCEPT !.mem[MoveAddr(t, w)] = v]
  <2>1. u = IF ~Mapped(t, MoveAddr(t, w)) THEN Raise(t, BUSERR) ELSE CaPostmod(b, w)
    BY <1>14 DEF ExecInsn, ExecStore
  <2> HIDE DEF v
  <2>2. CauWrites(b, t)
    BY <1>1, SMT DEF CauWrites, SameDau, Shape, StateFields
  <2> HIDE DEF b
  <2>3. CauWrites(CaPostmod(b, w), t)
    BY <2>2, RegwWrites DEF CaPostmod
  <2> QED  BY <1>2, <2>1, <2>3, RaiseTyping
<1> QED  BY <1>6, <1>7, <1>8, <1>9, <1>10, <1>11, <1>12, <1>13, <1>14 DEF CauOps

\* The data an instruction reads are of the types it takes them for.
DataFit(t, w) ==
  CASE w.op = "da" -> Fits(t, w.x, FloatWord) /\ Fits(DaReadMoves(t, w.x, 4), w.y, FloatWord)
    [] w.op = "special" -> Fits(t, w.y, Datum(w.g)) /\ (w.g = "dsp" => ~FromAcc(w.y))
    [] OTHER -> TRUE

LEMMA ExecutedTyping ==
  ASSUME NEW t, Typing(t), NEW w, WellFormed(w), DataFit(t, w)
  PROVE  Typing(Executed(t, w))
<1> DEFINE t0 == LatencyTick(t)
<1>1. Typing(t0) /\ t0.r = t.r /\ t0.mem = t.mem
  BY TickTyping, TickKeeps DEF Typing, Kept
<1>2. Executed(t, w) = ExecInsn(t0, w)
  BY DEF Executed
<1> HIDE DEF t0
<1>3. \A f, T : Fits(t, f, T) <=> Fits(t0, f, T)
  BY <1>1 DEF Fits, DaReadFaults, Mapped
<1>4. \A f, g, T : Fits(DaReadMoves(t, g, 4), f, T) <=> Fits(DaReadMoves(t0, g, 4), f, T)
  <2>1. ASSUME NEW g
        PROVE  LET u == DaReadMoves(t, g, 4)
                   v == DaReadMoves(t0, g, 4)
               IN  u.r = v.r /\ u.mem = v.mem
    <3>1. \A p, i : LET u == DaPostmod(t, p, i, 4)
                        v == DaPostmod(t0, p, i, 4)
                    IN  u.r = v.r /\ u.mem = v.mem
      BY <1>1, SMT DEF DaPostmod, Typing, Shape, StateFields
    <3> QED  BY <1>1, <3>1 DEF DaReadMoves
  <2>2. ASSUME NEW f, NEW T, NEW u, NEW v, u.r = v.r, u.mem = v.mem
        PROVE  Fits(u, f, T) <=> Fits(v, f, T)
    BY <2>2 DEF Fits, DaReadFaults, Mapped
  <2> QED  BY <2>1, <2>2
<1>5. w.op \in CauOps \cup {"da", "special", "load", "store"}
  BY SMT DEF WellFormed, CauOps
<1>6. CASE w.op = "da"
  <2>1. Fits(t0, w.x, FloatWord) /\ Fits(DaReadMoves(t0, w.x, 4), w.y, FloatWord)
    BY <1>3, <1>4, <1>6 DEF DataFit
  <2> QED  BY <1>1, <1>2, <1>6, <2>1, DaTyping DEF ExecInsn
<1>7. CASE w.op = "special"
  <2>1. Fits(t0, w.y, Datum(w.g)) /\ (w.g = "dsp" => ~FromAcc(w.y))
    BY <1>3, <1>7 DEF DataFit
  <2> QED  BY <1>1, <1>2, <1>7, <2>1, SpecialTyping DEF ExecInsn
<1>8. CASE w.op \in CauOps \cup {"load", "store"}
  BY <1>1, <1>2, <1>8, CauTyping
<1> QED  BY <1>5, <1>6, <1>7, <1>8

Inv2 == Inv1 /\ Typing(d)

LEMMA InitTyping == Init => Inv2
<1> SUFFICES ASSUME Init PROVE Inv2
  OBVIOUS
<1>1. PICK family \in DOMAIN Starts : \E st \in Starts[family] : start = st /\ d = st[1] /\ prog = st[2]
  BY DEF Init
<1>2. PICK st \in Starts[family] : d = st[1] /\ prog = st[2]
  BY <1>1
<1>3. Typing(d)
  BY <1>2, StartsAssumption, StateTyping
<1> QED  BY <1>3, InitRegs DEF Inv2

LEMMA StepTyping == Inv2 /\ Typed /\ [Next]_vars => Inv2'
<1> SUFFICES ASSUME Inv2, Typed, [Next]_vars PROVE Inv2'
  OBVIOUS
<1>1. Inv1'
  BY StepRegs DEF Inv2
<1>2. CASE Step
  <2>1. prog # <<>> /\ d' = Executed(d, Head(prog))
    BY <1>2 DEF Step
  <2>2. WellFormed(Head(prog))
    BY <2>1, TailProgram DEF Inv2, Inv1, Inv0
  <2>3. DataFit(d, Head(prog))
    BY <2>1 DEF Typed, DataFit
  <2>4. Typing(d')
    BY <2>1, <2>2, <2>3, ExecutedTyping DEF Inv2
  <2> QED  BY <1>1, <2>4 DEF Inv2, Typing
<1>3. CASE UNCHANGED vars
  BY <1>1, <1>3 DEF Inv2, vars
<1> QED  BY <1>2, <1>3 DEF Next

\* In programs that read memory as what has been written there, every
\* accumulator and every stage of its pipe is zero or normalised, with an
\* exponent in range, and flags and registers stay within their widths,
\* whatever the instructions and operands (norm_at, da_flags, acc_int_lane).
THEOREM AccumulatorsNormal == Spec /\ []Typed => []TypeOK
<1>1. Inv2 /\ Typed => TypeOK
  BY StateTyping DEF Inv2, Inv1, TypeOK
<1> QED  BY <1>1, InitTyping, StepTyping, PTL DEF Spec

-----------------------------------------------------------------------------
(* Short programs, from their start to their end *)

\* An instruction that has been found to be one, and its data to be typed.
Ready(t, w) == Typing(t) /\ RegsTyped(t) /\ WellFormed(w) /\ Meets(t, w) /\ DataFit(t, w)

LEMMA ExecutedReady ==
  ASSUME NEW t, NEW w, Ready(t, w)
  PROVE  Typing(Executed(t, w)) /\ RegsTyped(Executed(t, w))
BY ExecutedTyping, ExecutedRegs DEF Ready, Typing

\* Where a program of one or two instructions is.
OneDone(s0, p) == p # <<>> /\ Ready(s0, Head(p)) /\ BUSERR \notin Executed(s0, Head(p)).raised
Way(s0, p) ==
  LET s1 == Executed(s0, Head(p))
      w2 == Head(Tail(p))
  IN  \/ prog = p /\ d = s0
      \/ prog = Tail(p) /\ d = s1 /\ OneDone(s0, p)
      \/ prog = Tail(Tail(p)) /\ Tail(p) # <<>> /\ d = Executed(s1, w2) /\ OneDone(s0, p) /\ Ready(s1, w2)
      \/ prog = <<>> /\ BUSERR \in d.raised

Inv3 == Inv2 /\ Program(start[2]) /\ (Len(start[2]) <= 2 => Way(start[1], start[2]))

LEMMA ProgramTail ==
  ASSUME NEW p, Program(p)
  PROVE  /\ Len(p) \in Nat
         /\ p # <<>> => Len(Tail(p)) = Len(p) - 1 /\ Program(Tail(p))
         /\ Len(p) = 0 <=> p = <<>>
<1>1. p \in Seq({p[i] : i \in DOMAIN p})
  BY DEF Program
<1>2. Len(p) \in Nat /\ (p # <<>> => Len(Tail(p)) = Len(p) - 1) /\ (Len(p) = 0 <=> p = <<>>)
  BY <1>1, EmptySeq, SMT
<1> QED  BY <1>2, TailProgram

LEMMA InitWay == Init => Inv3
<1> SUFFICES ASSUME Init PROVE Inv3
  OBVIOUS
<1>1. PICK family \in DOMAIN Starts : \E st \in Starts[family] : start = st /\ d = st[1] /\ prog = st[2]
  BY DEF Init
<1>2. PICK st \in Starts[family] : start = st /\ d = st[1] /\ prog = st[2]
  BY <1>1
<1>3. Program(start[2])
  BY <1>2, StartsAssumption
<1> QED  BY <1>2, <1>3, InitTyping DEF Inv3, Way

LEMMA StepWay == Inv3 /\ Typed /\ [Next]_vars => Inv3'
<1> SUFFICES ASSUME Inv3, Typed, [Next]_vars PROVE Inv3'
  OBVIOUS
<1>1. Inv2'
  BY StepTyping DEF Inv3
<1>2. CASE UNCHANGED vars
  BY <1>1, <1>2 DEF Inv3, vars, Way
<1>3. CASE Step
  <2> DEFINE s0 == start[1]
             p  == start[2]
             s1 == Executed(s0, Head(p))
             w2 == Head(Tail(p))
  <2>1. /\ prog # <<>> /\ d' = Executed(d, Head(prog)) /\ start' = start
        /\ prog' = IF BUSERR \in d'.raised THEN <<>> ELSE Tail(prog)
    BY <1>3 DEF Step
  <2>2. Ready(d, Head(prog))
    <3>1. WellFormed(Head(prog)) /\ Typing(d) /\ RegsTyped(d)
      BY <2>1, TailProgram DEF Inv3, Inv2, Inv1, Inv0
    <3>2. Meets(d, Head(prog)) /\ DataFit(d, Head(prog))
      BY <2>1 DEF Typed, Meets, DataFit
    <3> QED  BY <3>1, <3>2 DEF Ready
  <2>3. SUFFICES ASSUME Len(p) <= 2, BUSERR \notin d'.raised
                 PROVE  Way(s0, p)'
    BY <1>1, <2>1 DEF Inv3, Way
  <2>4. prog' = Tail(prog)
    BY <2>1, <2>3
  <2>5. CASE prog = p /\ d = s0
    <3>1. OneDone(s0, p)
      BY <2>1, <2>2, <2>3, <2>5 DEF OneDone
    <3> QED  BY <2>1, <2>4, <2>5, <3>1 DEF Way
  <2>6. CASE prog = Tail(p) /\ d = s1 /\ OneDone(s0, p)
    BY <2>1, <2>2, <2>4, <2>6 DEF Way
  <2>7. CASE prog = Tail(Tail(p)) /\ Tail(p) # <<>> /\ OneDone(s0, p)
    <3>1. Program(p) /\ p # <<>>
      BY <2>7 DEF Inv3, OneDone
    <3>2. Len(Tail(Tail(p))) = 0 /\ Program(Tail(Tail(p)))
      <4> DEFINE q == Tail(p)
      <4>1. Program(q) /\ Len(p) \in Nat /\ Len(q) = Len(p) - 1
        BY <3>1, ProgramTail
      <4> HIDE DEF q
      <4>2. q # <<>>
        BY <2>7 DEF q
      <4>3. Program(Tail(q)) /\ Len(Tail(q)) = Len(q) - 1 /\ Len(Tail(q)) \in Nat
        <5>1. Program(Tail(q)) /\ Len(Tail(q)) = Len(q) - 1
          BY <4>1, <4>2, ProgramTail
        <5> QED  BY <5>1, ProgramTail
      <4>4. Len(Tail(q)) = 0
        <5> DEFINE k == Len(p)
                   l == Len(Tail(q))
        <5>1. k \in Nat /\ l \in Nat /\ l = k - 1 - 1 /\ k <= 2
          BY <2>3, <4>1, <4>3
        <5> HIDE DEF k, l
        <5>2. l = 0
          BY <5>1
        <5> QED  BY <5>2 DEF l
      <4> QED  BY <4>3, <4>4, Zenon DEF q
    <3> QED  BY <2>1, <2>7, <3>2, ProgramTail
  <2> QED  BY <2>1, <2>3, <2>5, <2>6, <2>7 DEF Inv3, Way
<1> QED  BY <1>2, <1>3 DEF Next

LEMMA RanOne ==
  ASSUME Inv3, NEW w, Ran(<<w>>)
  PROVE  d = Executed(start[1], w) /\ Ready(start[1], w)
<1> DEFINE p == <<w>>
<1>1. start[2] = p /\ prog = <<>> /\ BUSERR \notin d.raised
  BY DEF Ran
<1>2. Len(p) <= 2 /\ Head(p) = w /\ p # <<>> /\ Tail(p) = <<>>
  OBVIOUS
<1> HIDE DEF p
<1> QED  BY <1>1, <1>2 DEF Inv3, Way, OneDone

LEMMA RanTwo ==
  ASSUME Inv3, NEW v, NEW w, Ran(<<v, w>>)
  PROVE  LET s1 == Executed(start[1], v) IN
         /\ d = Executed(s1, w) /\ BUSERR \notin s1.raised /\ BUSERR \notin d.raised
         /\ Ready(start[1], v) /\ Ready(s1, w)
<1> DEFINE p == <<v, w>>
<1>1. start[2] = p /\ prog = <<>> /\ BUSERR \notin d.raised
  BY DEF Ran
<1>2. /\ Len(p) <= 2 /\ Head(p) = v /\ p # <<>> /\ Tail(p) = <<w>>
      /\ Tail(p) # <<>> /\ Head(Tail(p)) = w
  OBVIOUS
<1> HIDE DEF p
<1> QED  BY <1>1, <1>2 DEF Inv3, Way, OneDone

-----------------------------------------------------------------------------
(* Rotations *)

LEMMA DivMod ==
  ASSUME NEW x \in Int, NEW k \in Nat \ {0}
  PROVE  x \div k \in Int /\ (x % k) \in 0 .. k - 1 /\ x = k * (x \div k) + (x % k)
OBVIOUS

Carry(t) == IF t.cau.c THEN 1 ELSE 0

\* One rotation of register 1, to the left and to the right.
LEMMA Rotated ==
  ASSUME NEW t, Shape(t), RegsTyped(t), NEW short \in BOOLEAN, NEW f \in {"rol", "ror"},
         WellFormed(AluReg(f, short, 1, 1, 0, "true"))
  PROVE  LET h == WordH(short)
             l == Low(t.r[1], h)
             u == Executed(t, AluReg(f, short, 1, 1, 0, "true"))
             k == Low(u.r[1], h)
         IN  /\ h \in Nat \ {0} /\ l \in 0 .. 2 * h - 1
             /\ f = "rol" => k = Low(l + l + Carry(t), h) /\ (u.cau.c <=> l + l + Carry(t) >= 2 * h)
             /\ f = "ror" => k = l \div 2 + Carry(t) * h /\ (u.cau.c <=> l % 2 = 1)
<1> DEFINE w == AluReg(f, short, 1, 1, 0, "true")
           h == WordH(short)
           a == t.r[1]
           l == Low(a, h)
           t0 == LatencyTick(t)
           r == AluOp(t0, f, a, Opval(t, 0), h)
           u == Executed(t, w)
           c == Carry(t)
<1>1. w.op = "alu" /\ w.f = f /\ w.short = short /\ w.rd = 1 /\ w.rs1 = 1 /\ w.rs2 = 0 /\ w.c = "true"
      /\ WellFormed(w)
  BY DEF AluReg
<1>2. 1 \in RegNo
  BY <1>1 DEF WellFormed, Source
<1>3. h \in Nat \ {0}
  BY WordHs
<1>4. a \in Nat
  BY <1>2, Widths DEF RegsTyped, LongWord
<1>5. Opval(t, 1) = a /\ AluOperand(t, w) = Opval(t, 0)
  BY <1>1 DEF Opval, AluOperand, SpBump
<1>6. CondEval(t.cau, t.flagPipe[3], w.c) /\ w.f # "res5" /\ StoresResult(w.f) /\ w.f \notin {"shl", "shr"}
  BY <1>1 DEF CondEval, StoresResult
<1> HIDE DEF w
<1>7. r.res \in Int /\ u.cau = r.f /\ Low(u.r[1], h) = Low(r.res, h)
  <2>1. /\ WordH(w.short) = h /\ Opval(t, w.rs1) = a /\ w.rd \in RegNo
        /\ AluOp(t0, w.f, Opval(t, w.rs1), AluOperand(t, w), WordH(w.short)) = r
    BY <1>1, <1>2, <1>5
  <2> HIDE DEF h, a, t0
  <2> QED  BY <1>1, <1>6, <2>1, AluStep DEF t0
<1>8. t0.cau = t.cau
  BY TickKeeps DEF Kept
<1>9. l \in 0 .. 2 * h - 1
  BY <1>3, <1>4, LowRange
<1>10. c \in {0, 1}
  BY DEF Carry
<1>11. CASE f = "rol"
  <2> DEFINE sum == l + l + c
  <2>1. r.res = Low(sum, h) /\ r.f.c = (sum >= 2 * h)
    BY <1>8, <1>11 DEF AluOp, AluAdd, Carry
  <2>2. Low(Low(sum, h), h) = Low(sum, h)
    <3> HIDE DEF l, c
    <3>1. sum \in Int
      BY <1>9, <1>10
    <3> HIDE DEF sum
    <3> DEFINE k == Low(sum, h)
    <3>2. k \in 0 .. 2 * h - 1
      BY <1>3, <3>1, LowRange
    <3> HIDE DEF k
    <3>3. Low(k, h) = k
      BY <1>3, <3>2 DEF Low
    <3> QED  BY <3>3 DEF k
  <2> QED  BY <1>3, <1>7, <1>9, <1>11, <2>1, <2>2 DEF w
<1>12. CASE f = "ror"
  <2> DEFINE k == l \div 2 + c * h
  <2>1. r.res = k /\ r.f.c = (a % 2 = 1)
    BY <1>8, <1>12 DEF AluOp, Ror, Carry, FlagsNz
  <2>2. a % 2 = l % 2
    <3> DEFINE n == 2 * h
               q == h * (a \div n)
    <3>1. n \in Nat \ {0}
      BY <1>3
    <3>2. a \div n \in Int /\ (a % n) \in 0 .. n - 1 /\ a = n * (a \div n) + (a % n)
      <4>1. a \in Int /\ n \in Nat \ {0}
        BY <1>4, <3>1
      <4> HIDE DEF n, a
      <4> QED  BY ONLY <4>1, DivMod, Zenon
    <3>4. n * (a \div n) = 2 * q /\ q \in Int
      BY <1>3, <3>2
    <3>5. a = 2 * q + l
      BY <3>2, <3>4 DEF Low
    <3> HIDE DEF l, q
    <3> QED  BY <1>4, <1>9, <3>4, <3>5
  <2>3. Low(k, h) = k
    <3> HIDE DEF l, c
    <3>1. k \in 0 .. 2 * h - 1
      BY <1>3, <1>9, <1>10
    <3> HIDE DEF k
    <3> QED  BY <1>3, <3>1 DEF Low
  <2> HIDE DEF k
  <2> QED  BY <1>3, <1>7, <1>9, <1>12, <2>1, <2>2, <2>3 DEF w, k
<1> QED  BY <1>11, <1>12

\* A rotation through the carry has another that undoes it (alu_op: ROL, ROR).
THEOREM RotationsUndone == Spec /\ []Typed => []RotatesBack
<1>1. ASSUME Inv3 PROVE RotatesBack
  <2> SUFFICES ASSUME NEW short \in BOOLEAN
               PROVE  LET rol == AluReg("rol", short, 1, 1, 0, "true")
                          ror == AluReg("ror", short, 1, 1, 0, "true")
                      IN  Ran(<<rol, ror>>) \/ Ran(<<ror, rol>>) =>
                            /\ Low(d.r[1], WordH(short)) = Low(start[1].r[1], WordH(short))
                            /\ d.cau.c = start[1].cau.c
    BY DEF RotatesBack
  <2> DEFINE W(f) == AluReg(f, short, 1, 1, 0, "true")
             h  == WordH(short)
             s0 == start[1]
             l0 == Low(s0.r[1], h)
             Back == Low(d.r[1], h) = l0 /\ (d.cau.c <=> s0.cau.c)
  <2>1. ASSUME NEW f \in {"rol", "ror"}, NEW g \in {"rol", "ror"} \ {f}, Ran(<<W(f), W(g)>>)
        PROVE  Back
    <3> DEFINE s1 == Executed(s0, W(f))
               l1 == Low(s1.r[1], h)
               l2 == Low(d.r[1], h)
               c0 == Carry(s0)
               c1 == Carry(s1)
    <3>1. d = Executed(s1, W(g)) /\ Ready(s0, W(f)) /\ Ready(s1, W(g))
      BY <1>1, <2>1, RanTwo
    <3>2. /\ h \in Nat \ {0} /\ l0 \in 0 .. 2 * h - 1
          /\ f = "rol" => l1 = Low(l0 + l0 + c0, h) /\ (s1.cau.c <=> l0 + l0 + c0 >= 2 * h)
          /\ f = "ror" => l1 = l0 \div 2 + c0 * h /\ (s1.cau.c <=> l0 % 2 = 1)
      BY <3>1, Rotated DEF Ready, Typing
    <3> HIDE DEF s1
    <3>3. /\ l1 \in 0 .. 2 * h - 1
          /\ g = "rol" => l2 = Low(l1 + l1 + c1, h) /\ (d.cau.c <=> l1 + l1 + c1 >= 2 * h)
          /\ g = "ror" => l2 = l1 \div 2 + c1 * h /\ (d.cau.c <=> l1 % 2 = 1)
      BY <3>1, Rotated DEF Ready, Typing
    <3>4. c0 \in {0, 1} /\ (s0.cau.c <=> c0 = 1) /\ c1 \in {0, 1} /\ (s1.cau.c <=> c1 = 1)
      BY DEF Carry
    <3> HIDE DEF l0, l1, l2, c0, c1, h
    <3>5. CASE f = "rol"
      <4>1. l1 = IF l0 + l0 + c0 < 2 * h THEN l0 + l0 + c0 ELSE l0 + l0 + c0 - 2 * h
        BY <3>2, <3>4, <3>5, LowCases
      <4>2. l2 = l1 \div 2 + c1 * h /\ (d.cau.c <=> l1 % 2 = 1) /\ (c1 = 1 <=> l0 + l0 + c0 >= 2 * h)
        BY <3>2, <3>3, <3>4, <3>5
      <4>3. PICK q \in Int : l1 = 2 * q + c0 /\ q = IF c1 = 1 THEN l0 - h ELSE l0
        BY <3>2, <3>4, <4>1, <4>2
      <4>4. l1 \div 2 = q /\ (l1 % 2 = 1 <=> c0 = 1)
        BY <3>4, <4>3
      <4>5. c1 * h = IF c1 = 1 THEN h ELSE 0
        BY <3>2, <3>4
      <4>6. l2 = l0
        BY <3>2, <4>2, <4>3, <4>4, <4>5
      <4> QED  BY <3>4, <4>2, <4>4, <4>6 DEF l0, l2
    <3>6. CASE f = "ror"
      <4>1. l1 = l0 \div 2 + c0 * h /\ (c1 = 1 <=> l0 % 2 = 1)
        BY <3>2, <3>4, <3>6
      <4>2. PICK q \in Nat : q = l0 \div 2 /\ l0 = 2 * q + c1
        BY <3>2, <3>4, <4>1
      <4>3. l1 + l1 + c1 = l0 + (IF c0 = 1 THEN 2 * h ELSE 0)
        BY <3>2, <3>4, <4>1, <4>2
      <4>4. l2 = Low(l1 + l1 + c1, h) /\ (d.cau.c <=> l1 + l1 + c1 >= 2 * h)
        BY <3>3, <3>6
      <4>5. l2 = l0
        BY <3>2, <3>4, <4>3, <4>4, LowCases
      <4> QED  BY <3>2, <3>4, <4>3, <4>4, <4>5 DEF l0, l2
    <3> QED  BY <3>5, <3>6
  <2>2. Ran(<<W("rol"), W("ror")>>) \/ Ran(<<W("ror"), W("rol")>>) => Back
    BY <2>1
  <2>3. d.cau.c \in BOOLEAN
    BY <1>1 DEF Inv3, Inv2, Typing, Flags
  <2>4. ASSUME Ran(<<W("rol"), W("ror")>>) \/ Ran(<<W("ror"), W("rol")>>)
        PROVE  s0.cau.c \in BOOLEAN
    <3>1. \E f \in {"rol", "ror"} : Ready(s0, W(f))
      BY <1>1, <2>4, RanTwo
    <3> QED  BY <3>1 DEF Ready, Typing, Flags
  <2> QED  BY <2>2, <2>3, <2>4, Zenon
<1> QED  BY <1>1, InitWay, StepWay, PTL DEF Spec

-----------------------------------------------------------------------------
(* Data of every type *)

\* The widths of a datum.
LEMMA DatumWidths ==
  ASSUME NEW n \in {ByteBits, HalfBits, IntBits}
  PROVE  /\ 2 ^ n \in Nat \ {0} /\ 2 ^ (n - 1) \in Nat \ {0} /\ 2 ^ n = 2 * 2 ^ (n - 1)
         /\ \E k \in Nat \ {0} : LongH = 2 ^ (n - 1) * k
<1>1. n \in 1..IntBits
  BY Widths
<1>2. /\ n - 1 \in 0 .. 4 * IntBits /\ 1 \in 0 .. 4 * IntBits /\ (n - 1) + 1 <= 4 * IntBits
      /\ (n - 1) + 1 = n /\ IntBits - n \in 0 .. 4 * IntBits
      /\ (n - 1) + (IntBits - n) <= 4 * IntBits /\ (n - 1) + (IntBits - n) = IntBits - 1
  BY <1>1, Widths
<1>3. 2 ^ (n - 1) \in Nat \ {0} /\ 2 ^ ((n - 1) + 1) = 2 ^ (n - 1) * 2 ^ 1
  BY <1>2, Powers
<1>4. 2 ^ (IntBits - n) \in Nat \ {0} /\ 2 ^ ((n - 1) + (IntBits - n)) = 2 ^ (n - 1) * 2 ^ (IntBits - n)
  BY <1>2, Powers
<1>5. 2 ^ n = 2 ^ (n - 1) * 2
  BY <1>2, <1>3
<1>6. LongH = 2 ^ (n - 1) * 2 ^ (IntBits - n)
  BY <1>2, <1>4 DEF LongH
<1> QED  BY <1>3, <1>4, <1>5, <1>6

\* Storing a datum that has been loaded as the same type gives it back.
LEMMA SelectExtend ==
  ASSUME NEW w \in MoveTypes, NEW raw \in LongWord
  PROVE  WSelect(w, WExtend(w, raw)) = raw % 2 ^ WBits(w)
<1>1. raw \in Int
  BY Widths DEF LongWord
<1>2. WBits(w) \in {ByteBits, HalfBits, IntBits}
  BY SMT DEF WBits, WSize, MoveTypes
<1> DEFINE h == 2 ^ (WBits(w) - 1)
           n == 2 ^ WBits(w)
<1>3. h \in Nat \ {0} /\ n = 2 * h /\ n \in Nat \ {0} /\ \E k \in Nat \ {0} : LongH = h * k
  BY <1>2, DatumWidths
<1>4. raw % n \in 0 .. n - 1
  <2> HIDE DEF n
  <2> QED  BY <1>1, <1>3
<1>5. CASE w \in {"byte", "ushort", "long"}
  <2>1. WExtend(w, raw) = raw % n /\ WSelect(w, raw % n) = (raw % n) % n
    BY <1>5 DEF WExtend, WSelect
  <2> DEFINE x == raw % n
  <2>2. x % n = x
    <3> HIDE DEF x
    <3>1. x \in 0 .. n - 1
      BY <1>4 DEF x
    <3>2. n \in Nat \ {0}
      BY <1>3
    <3> HIDE DEF n
    <3> QED  BY ONLY <3>1, <3>2
  <2> QED  BY <2>1, <2>2
<1>6. CASE w \in {"char", "short"}
  <2>1. WExtend(w, raw) = Extended(raw, h, LongH)
    BY <1>6 DEF WExtend
  <2> DEFINE x == Extended(raw, h, LongH)
  <2>2. WSelect(w, x) = x % n
    BY <1>6 DEF WSelect
  <2>3. Low(x, h) = Low(raw, h)
    <3> HIDE DEF h
    <3> QED  BY <1>1, <1>3, ExtendedLow
  <2>4. x % n = raw % n
    <3> HIDE DEF x, h, n
    <3> QED  BY <1>3, <2>3, Zenon DEF Low
  <2> QED  BY <2>1, <2>2, <2>4
<1>7. CASE w = "hbyte"
  <2> DEFINE b == 2 ^ ByteBits
             x == raw % b
  <2>1. WBits(w) = ByteBits
    BY <1>7, SMT DEF WBits, WSize
  <2>2. WExtend(w, raw) = x * b
    BY <1>7 DEF WExtend
  <2>3. WSelect(w, x * b) = ((x * b) \div b) % b
    BY <1>7 DEF WSelect
  <2>4. x \in 0 .. b - 1 /\ b \in Nat \ {0}
    BY <1>3, <1>4, <2>1
  <2> HIDE DEF x, b
  <2>5. (x * b) \div b = x
    <3> DEFINE q == (x * b) \div b
    <3>1. q \in Int /\ q * b <= x * b /\ x * b < (q + 1) * b
      BY <2>4, DivSpec
    <3> HIDE DEF q
    <3>2. ~(q < x)
      <4>1. q < x => (q + 1) * b <= x * b
        BY <2>4, <3>1, MulMono
      <4> QED  BY <2>4, <3>1, <4>1
    <3>3. ~(x < q)
      <4>1. x < q => (x + 1) * b <= q * b
        BY <2>4, <3>1, MulMono
      <4>2. (x + 1) * b = x * b + b
        BY <2>4
      <4> QED  BY <2>4, <3>1, <4>1, <4>2
    <3> QED  BY <2>4, <3>1, <3>2, <3>3 DEF q
  <2>6. x % b = x
    BY <2>4
  <2> QED  BY <2>1, <2>2, <2>3, <2>5, <2>6 DEF x, b
<1> QED  BY <1>5, <1>6, <1>7 DEF MoveTypes

\* What a load leaves in its register, and a store to an address of its own in memory.
LEMMA Loaded ==
  ASSUME NEW t, Shape(t), NEW w, w.op = "load", w.rh \in RegNo, BUSERR \notin Executed(t, w).raised
  PROVE  Executed(t, w).r[w.rh] = WExtend(w.w, t.mem[MoveAddr(t, w)]) /\ Mapped(t, MoveAddr(t, w))
<1> DEFINE t0 == LatencyTick(t)
           x == MoveAddr(t, w)
           v == WExtend(w.w, t.mem[x])
           p == CaPostmod(t0, w)
           k == [p EXCEPT !.cau = FlagsNz(v, LongH)]
           u == Executed(t, w)
<1>1. Shape(t0) /\ t0.r = t.r /\ t0.mem = t.mem
  BY TickKeeps DEF Kept
<1>2. u = ExecLoad(t0, w)
  BY DEF Executed, ExecInsn
<1> HIDE DEF t0
<1>3. MoveAddr(t0, w) = x
  BY <1>1 DEF MoveAddr, Opval
<1> HIDE DEF x, u
<1>4. u = IF x \notin DOMAIN t.mem THEN Raise(t0, BUSERR) ELSE Regw(k, w.rh, v)
  BY <1>1, <1>2, <1>3 DEF ExecLoad, Mapped
<1>5. x \in DOMAIN t.mem
  BY <1>1, <1>4, RaiseKeeps DEF u
<1>6. Shape(p)
  BY <1>1, CaPostmodKeeps
<1> HIDE DEF p, v
<1>7. Shape(k)
  BY <1>6, SMT DEF Shape, StateFields
<1> HIDE DEF k
<1> QED  BY <1>4, <1>5, <1>7, RegwKeeps DEF Mapped, v, x, u

LEMMA Stored ==
  ASSUME NEW t, Shape(t), NEW w, w.op = "store", w.direct, w.rh \in RegNo,
         BUSERR \notin Executed(t, w).raised
  PROVE  Executed(t, w).mem[w.x] = WSelect(w.w, t.r[w.rh])
<1> DEFINE t0 == LatencyTick(t)
           v == WSelect(w.w, t.r[w.rh])
           k == [t0 EXCEPT !.mem[w.x] = v]
           u == Executed(t, w)
<1>1. Shape(t0) /\ t0.r = t.r /\ t0.mem = t.mem
  BY TickKeeps DEF Kept
<1>2. u = ExecStore(t0, w)
  BY DEF Executed, ExecInsn
<1> HIDE DEF t0
<1>3. MoveAddr(t0, w) = w.x /\ Opval(t0, w.rh) = t.r[w.rh]
  BY <1>1, RegAssumption DEF MoveAddr, Opval
<1> HIDE DEF u
<1>4. u = IF w.x \notin DOMAIN t0.mem THEN Raise(t0, BUSERR) ELSE k
  BY <1>2, <1>3 DEF ExecStore, Mapped, CaPostmod
<1>5. w.x \in DOMAIN t0.mem
  BY <1>1, <1>4, RaiseKeeps DEF u
<1> HIDE DEF v
<1>6. k.mem[w.x] = v
  BY <1>1, <1>5, SMT DEF Shape, StateFields
<1> QED  BY <1>4, <1>5, <1>6 DEF u, v

\* A register carries a datum of any type, also the pointer that is loaded
\* through itself (exec_move, w_extend, w_select).
THEOREM DataCarried == Spec /\ []Typed => []MovesCarry
<1>1. ASSUME Inv3 PROVE MovesCarry
  <2> SUFFICES ASSUME NEW w \in MoveTypes, NEW rh \in {1, 2}, NEW ri \in {0, 22, 23},
                      Ran(<<LoadWord(w, rh, 1, ri), StoreDirect(w, rh, 4)>>)
               PROVE  d.mem[4] = start[1].mem[start[1].r[1]] % 2 ^ WBits(w)
    BY DEF MovesCarry, MoveTypes
  <2> DEFINE ld == LoadWord(w, rh, 1, ri)
             st == StoreDirect(w, rh, 4)
             s0 == start[1]
             s1 == Executed(s0, ld)
             raw == s0.mem[s0.r[1]]
  <2>1. /\ d = Executed(s1, st) /\ BUSERR \notin s1.raised /\ BUSERR \notin d.raised
        /\ Ready(s0, ld) /\ Ready(s1, st)
    BY <1>1, RanTwo
  <2>2. /\ ld.op = "load" /\ ld.rh = rh /\ ld.w = w /\ ~ld.direct /\ ld.rp = 1
        /\ st.op = "store" /\ st.direct /\ st.rh = rh /\ st.x = 4 /\ st.w = w
    BY DEF LoadWord, StoreDirect
  <2> HIDE DEF ld, st
  <2>3. rh \in RegNo
    BY <2>1, <2>2 DEF Ready, WellFormed, Source
  <2>4. MoveAddr(s0, ld) = s0.r[1]
    BY <2>2 DEF MoveAddr, Opval
  <2>5. Shape(s0) /\ Shape(s1)
    BY <2>1 DEF Ready, Typing
  <2> HIDE DEF s0
  <2>6. s1.r[rh] = WExtend(w, raw) /\ Mapped(s0, MoveAddr(s0, ld))
    BY <2>1, <2>2, <2>3, <2>4, <2>5, Loaded
  <2>7. raw \in LongWord
    BY <2>1, <2>2, <2>4, <2>6 DEF Ready, Meets
  <2> HIDE DEF s1, raw
  <2>8. d.mem[4] = WSelect(w, s1.r[rh])
    BY <2>1, <2>2, <2>3, <2>5, Stored
  <2> QED  BY <2>6, <2>7, <2>8, SelectExtend DEF raw, s0
<1> QED  BY <1>1, InitWay, StepWay, PTL DEF Spec

-----------------------------------------------------------------------------
(* Seeds *)

\* Four times the product of two numbers is at most the square of their sum.
LEMMA Parabola ==
  ASSUME NEW n \in Nat, NEW x \in 0..n
  PROVE  x * (n - x) \in Nat /\ 4 * (x * (n - x)) <= n * n
<1>1. x * (n - x) \in Nat
  OBVIOUS
<1> DEFINE y == n - 2 * x
<1>2. y * y = n * n - 4 * (x * (n - x))
  OBVIOUS
<1>3. y * y >= 0
  <2>1. y \in Int
    OBVIOUS
  <2> HIDE DEF y
  <2>2. \/ y >= 0
        \/ (-y) * (-y) = y * y /\ -y >= 0
    BY <2>1
  <2> QED  BY <2>1, <2>2
<1> DEFINE z == y * y
           p == n * n
           q == x * (n - x)
<1>4. p \in Int /\ z \in Int
  OBVIOUS
<1>5. z = p - 4 * q /\ z >= 0 /\ q \in Nat
  BY <1>1, <1>2, <1>3
<1> HIDE DEF z, p, q
<1>6. 4 * q <= p
  BY <1>4, <1>5
<1> QED  BY <1>1, <1>6 DEF p, q

\* A number and its seed: the product is close to one, in the units of a product.
LEMMA SeedProduct ==
  ASSUME NEW y \in FloatWord, y.e # 0
  PROVE  LET s == SeedBits(y)
             one == 2 ^ (2 * FracBits + 1)
             ulp == 2 ^ (FracBits + 1)
             product == Mant24Full(y) * Mant24Full(s)
         IN  /\ s.e \in Int /\ y.e + s.e = 2 * Bias - 1
             /\ one - ulp <= product /\ 8 * product <= 9 * one + 8 * ulp
<1> DEFINE F == 2 ^ FracBits
           G == F * F
           s == SeedBits(y)
           one == 2 ^ (2 * FracBits + 1)
           ulp == 2 ^ (FracBits + 1)
<1>1. F \in Nat \ {0} /\ G \in Nat \ {0} /\ ulp = 2 * F /\ one = 2 * G
  <2>1. /\ FracBits \in 0 .. 4 * IntBits /\ 2 * FracBits \in 0 .. 4 * IntBits /\ 1 \in 0 .. 4 * IntBits
        /\ FracBits + FracBits = 2 * FracBits /\ 2 * FracBits + 1 <= 4 * IntBits
        /\ FracBits + FracBits <= 4 * IntBits /\ FracBits + 1 <= 4 * IntBits
    BY DauWidths
  <2>2. F \in Nat \ {0} /\ 2 ^ (FracBits + 1) = F * 2 ^ 1 /\ 2 ^ (FracBits + FracBits) = G
    BY <2>1, Powers
  <2>3. 2 ^ (2 * FracBits) \in Nat \ {0} /\ 2 ^ (2 * FracBits + 1) = 2 ^ (2 * FracBits) * 2 ^ 1
    BY <2>1, Powers
  <2>4. 2 ^ (2 * FracBits) = G
    BY <2>1, <2>2
  <2> HIDE DEF F, G
  <2> QED  BY <2>2, <2>3, <2>4
<1>2. y.m \in Int /\ -F <= y.m /\ y.m < F /\ y.e \in 0..MaxExp
  BY <1>1 DEF FloatWord
<1>3. s.e = MaxExp - y.e /\ s.m = (IF y.m < 0 THEN -F - y.m - 1 ELSE F - 1 - y.m)
  BY DEF SeedBits
<1>4. s.e \in Int /\ y.e + s.e = 2 * Bias - 1
  BY <1>2, <1>3, DauWidths
<1> DEFINE a == Mant24Full(y)
           b == Mant24Full(s)
<1>5. a = (IF y.m < 0 THEN y.m - F ELSE y.m + F) /\ b = (IF s.m < 0 THEN s.m - F ELSE s.m + F)
  BY <1>1, <1>2, <1>3 DEF Mant24Full, Implicit
<1> HIDE DEF F, s, one, ulp
<1> DEFINE k == IF y.m < 0 THEN -1 - y.m ELSE y.m
           q == k * ((F - 1) - k)
<1>6. k \in 0 .. F - 1 /\ F - 1 \in Nat
  BY <1>1, <1>2
<1>7. q \in Nat /\ 4 * q <= (F - 1) * (F - 1)
  BY <1>6, Parabola
<1>8. (F - 1) * (F - 1) = G - 2 * F + 1
  BY <1>1
<1>9. a * b = 2 * G + q + (IF y.m < 0 THEN 2 * F ELSE -F)
  <2>1. ASSUME y.m < 0
        PROVE  a * b = 2 * G + k * ((F - 1) - k) + 2 * F
    <3>1. a = -(F + 1 + k) /\ b = -(2 * F - k)
      BY <1>1, <1>2, <1>3, <1>5, <2>1
    <3>2. a * b = 2 * G + k * ((F - 1) - k) + 2 * F
      <4> HIDE DEF a, b, k
      <4> QED  BY <1>1, <1>6, <3>1
    <3> QED  BY <3>2
  <2>2. ASSUME y.m >= 0
        PROVE  a * b = 2 * G + k * ((F - 1) - k) - F
    <3>1. a = F + k /\ b = 2 * F - 1 - k
      BY <1>1, <1>2, <1>3, <1>5, <2>2
    <3>2. a * b = 2 * G + k * ((F - 1) - k) - F
      <4> HIDE DEF a, b, k
      <4> QED  BY <1>1, <1>6, <3>1
    <3> QED  BY <3>2
  <2> DEFINE p == a * b
             r == k * ((F - 1) - k)
             l == 2 * G
  <2>3. CASE y.m < 0
    <3>1. p = l + r + 2 * F
      BY <2>1, <2>3
    <3> HIDE DEF p, r, l
    <3> QED  BY <2>3, <3>1 DEF p, r, l
  <2>4. CASE ~(y.m < 0)
    <3>1. p = l + r - F
      BY <1>2, <2>2, <2>4
    <3>2. p \in Int /\ l \in Int /\ r \in Int
      <4>1. a \in Int /\ b \in Int
        BY <1>1, <1>2, <1>3, <1>5
      <4> HIDE DEF a, b, G
      <4>2. p \in Int
        BY <4>1
      <4> QED  BY <1>1, <1>7, <4>2
    <3> HIDE DEF p, r, l
    <3>3. p = l + r + (-F)
      BY <1>1, <3>1, <3>2
    <3> QED  BY <2>4, <3>3 DEF p, r, l
  <2> QED  BY <2>3, <2>4
<1> HIDE DEF k, q, a, b, G
<1>10. one - ulp <= a * b /\ 8 * (a * b) <= 9 * one + 8 * ulp
  <2> DEFINE p == a * b
             f == (F - 1) * (F - 1)
  <2>1. p = 2 * G + q + (IF y.m < 0 THEN 2 * F ELSE -F) /\ 4 * q <= f /\ f = G - 2 * F + 1
    BY <1>7, <1>8, <1>9
  <2> HIDE DEF p, f
  <2>2. one - ulp <= p /\ 8 * p <= 9 * one + 8 * ulp
    BY <1>1, <1>7, <2>1
  <2> QED  BY <2>2 DEF p
<1> QED  BY <1>4, <1>10 DEF s, one, ulp, a, b

\* The accumulator a special function has computed is there when it completes.
LEMMA SpecialResult ==
  ASSUME NEW t, Typing(t), NEW w, w.op = "special", WellFormed(w), Fits(t, w.y, Datum(w.g)),
         w.g = "dsp" => ~FromAcc(w.y), BUSERR \notin ExecDaSpecial(t, w).raised
  PROVE  LET Y  == DaRead(t, w.y)
             t1 == DaReadMoves(t, w.y, ReadSize(w.g))
         IN  /\ ~DaReadFaults(t, w.y)
             /\ ExecDaSpecial(t, w).a[w.n] = Conversion(t1, w, Y).res
<1> DEFINE Y  == DaRead(t, w.y)
           t1 == DaReadMoves(t, w.y, ReadSize(w.g))
           c  == Conversion(t1, w, Y)
           b  == [c.t EXCEPT !.a[w.n] = c.res]
           k  == DaPostmodOnly(b, w.z, Y, StoreSize(w.g))
           z  == DaStoreZ(b, w.z, Y, StoreSize(w.g), c.z)
           u  == ExecDaSpecial(t, w)
<1>1. u = IF DaReadFaults(t, w.y) THEN Raise(t, BUSERR) ELSE IF Withheld(t1, w) THEN k ELSE z
  BY DEF ExecDaSpecial, Finish
<1>2. Operand(w.y) /\ w.g \in SpecialFunctions /\ w.n \in AccNo
  BY DEF WellFormed
<1>3. Typing(t1) /\ Shape(t)
  BY ReadMovesTyping DEF Typing
<1> HIDE DEF u
<1>4. ~DaReadFaults(t, w.y)
  BY <1>1, <1>3, RaiseKeeps DEF u
<1>5. Typing(c.t) /\ IsAcc(c.res)
  <2>1. OperandOK(Y, Datum(w.g)) /\ (Y.acc <=> FromAcc(w.y))
    BY <1>2, <1>4, ReadOperand
  <2> HIDE DEF Y, t1
  <2>2. w.g = "dsp" => Y.acc = FALSE
    BY <2>1 DEF OperandOK
  <2> QED  BY <1>2, <1>3, <2>1, <2>2, ConversionTyping
<1> HIDE DEF c, Y, t1
<1>6. Shape(b) /\ b.a[w.n] = c.res
  BY <1>2, <1>5, SMT DEF Typing, Shape, StateFields
<1> HIDE DEF b
<1>7. k.a = b.a
  BY <1>6, PostmodKeeps DEF DaPostmodOnly
<1>8. z.a = b.a
  <2> DEFINE m == [b EXCEPT !.mem[ZAddr(b, w.z, Y)] = c.z]
  <2>1. Shape(m) /\ m.a = b.a
    BY <1>6, SMT DEF Shape, StateFields
  <2>2. z \in {b, Raise(b, BUSERR), DaPostmod(m, ZReg(w.z, Y), w.z.i, StoreSize(w.g))}
    BY Zenon DEF DaStoreZ
  <2> HIDE DEF m
  <2> QED  BY <1>6, <2>1, <2>2, RaiseKeeps, PostmodKeeps
<1> HIDE DEF k, z
<1> QED  BY <1>1, <1>4, <1>6, <1>7, <1>8 DEF Y, t1, c, u

\* The product of a number and its seed is between 1 and 9/8 up to a unit of
\* the last place, for every number of every width: Newton's iteration
\* converges from there (exec_da_special: SEED).
THEOREM SeedsConverge == Spec /\ []Typed => SeedIsClose
<1> DEFINE Close ==
      Completes("special") /\ Head(prog).g = "seed" =>
        LET y == AsWord(DaRead(d, Head(prog).y))
            s == SeedBits(y)
            one == 2 ^ (2 * FracBits + 1)
            ulp == 2 ^ (FracBits + 1)
            product == Mant24Full(y) * Mant24Full(s)
        IN  y.e \in 1 .. MaxExp - 1 =>
              /\ y.e + s.e = 2 * Bias - 1
              /\ one - ulp <= product /\ 8 * product <= 9 * one + 8 * ulp
              /\ d'.a[Head(prog).n] = AccUnpack(s)
<1>1. Inv2 /\ Typed /\ [Next]_vars => [Close]_vars
  <2> DEFINE w == Head(prog)
             y == AsWord(DaRead(d, w.y))
             t == LatencyTick(d)
             Y == DaRead(t, w.y)
             t1 == DaReadMoves(t, w.y, ReadSize(w.g))
  <2> SUFFICES ASSUME Inv2, Typed, Step, Completes("special"), w.g = "seed",
                      y.e \in 1 .. MaxExp - 1
               PROVE  LET s == SeedBits(y)
                          one == 2 ^ (2 * FracBits + 1)
                          ulp == 2 ^ (FracBits + 1)
                          product == Mant24Full(y) * Mant24Full(s)
                      IN  /\ y.e + s.e = 2 * Bias - 1
                          /\ one - ulp <= product /\ 8 * product <= 9 * one + 8 * ulp
                          /\ d'.a[w.n] = AccUnpack(s)
    BY DEF Next
  <2>1. /\ d' = Executed(d, w) /\ WellFormed(w) /\ Typing(d) /\ w.op = "special"
        /\ BUSERR \notin d'.raised /\ Fits(d, w.y, Datum(w.g))
    BY TailProgram DEF Step, Completes, Inv2, Inv1, Inv0, Typed
  <2> HIDE DEF w
  <2>2. d' = ExecDaSpecial(t, w) /\ Typing(t) /\ t.a = d.a /\ t.r = d.r /\ t.mem = d.mem
    BY <2>1, TickKeeps, TickTyping DEF Executed, ExecInsn, Typing, Kept
  <2> HIDE DEF t
  <2>3. Fits(t, w.y, Datum(w.g))
    BY <2>1, <2>2 DEF Fits, DaReadFaults, Mapped
  <2>4. ~DaReadFaults(t, w.y) /\ d'.a[w.n] = Conversion(t1, w, Y).res
    BY <2>1, <2>2, <2>3, SpecialResult
  <2>5. OperandOK(Y, FloatWord)
    <3>1. Operand(w.y) /\ Datum(w.g) = FloatWord
      BY <2>1 DEF WellFormed, Datum
    <3> QED  BY <2>2, <2>3, <2>4, <3>1, ReadOperand
  <2>6. y = AsWord(Y)
    BY <2>2 DEF AsWord, DaRead
  <2> HIDE DEF Y, y, t1
  <2>7. y \in FloatWord
    BY <2>5, <2>6, FloatOperand
  <2>8. Conversion(t1, w, Y).res = AccUnpack(SeedBits(y))
    BY <2>6 DEF Conversion, DaFlags
  <2> QED  BY <2>4, <2>7, <2>8, SeedProduct
<1>2. SeedIsClose <=> [][Close]_vars
  BY DEF SeedIsClose
<1> HIDE DEF Close
<1>3. Inv2 /\ []Typed /\ [][Next]_vars => [][Close]_vars
  BY <1>1, StepTyping, PTL
<1> QED  BY <1>2, <1>3, InitTyping, PTL DEF Spec

-----------------------------------------------------------------------------
(* Normal forms *)

LEMMA TimesKeepsOrder ==
  ASSUME NEW a \in Int, NEW b \in Int, NEW k \in Nat \ {0}
  PROVE  a <= b <=> a * k <= b * k
<1>1. a <= b => a * k <= b * k
  BY MulMono
<1>2. ASSUME b < a PROVE b * k < a * k
  <2>1. (b + 1) * k <= a * k
    BY <1>2, MulMono
  <2>2. (b + 1) * k = b * k + k /\ b * k \in Int /\ a * k \in Int
    OBVIOUS
  <2> QED  BY <2>1, <2>2
<1>3. a * k \in Int /\ b * k \in Int
  OBVIOUS
<1> QED  BY <1>1, <1>2, <1>3

\* A scaled number against a bound, and the same with a longer shift.
LEMMA ScaledShift ==
  ASSUME NEW m \in Int, NEW c \in Int, NEW j \in -(4 * IntBits) .. 4 * IntBits,
         NEW k \in -(4 * IntBits) .. 4 * IntBits, j <= k, k - j <= 4 * IntBits
  PROVE  c <= Scaled(m, j) <=> c * 2 ^ (k - j) <= Scaled(m, k)
<1> DEFINE s == 2 ^ (k - j)
<1>1. IntBits \in Nat
  BY DauWidths
<1>2. k - j \in 0 .. 4 * IntBits /\ j \in Int /\ k \in Int
  BY <1>1
<1>3. s \in Nat \ {0}
  BY <1>2, PowersRise
<1>4. CASE j >= 0
  <2> DEFINE p == 2 ^ j
  <2>1. /\ j \in 0 .. 4 * IntBits /\ k \in 0 .. 4 * IntBits
        /\ j + (k - j) <= 4 * IntBits /\ j + (k - j) = k
    BY <1>1, <1>2, <1>4
  <2>2. p \in Nat \ {0} /\ 2 ^ (j + (k - j)) = p * s
    BY <1>2, <2>1, Powers
  <2>3. Scaled(m, j) = m * p /\ Scaled(m, k) = m * (p * s)
    BY <1>2, <1>4, <2>1, <2>2 DEF Scaled
  <2> HIDE DEF p, s
  <2>4. m * (p * s) = (m * p) * s /\ m * p \in Int
    BY <1>3, <2>2
  <2>5. c <= m * p <=> c * s <= (m * p) * s
    BY <1>3, <2>4, TimesKeepsOrder
  <2> QED  BY <2>3, <2>4, <2>5 DEF s
<1>5. CASE k < 0
  <2> DEFINE p == 2 ^ (-k)
             q == 2 ^ (-j)
  <2>1. /\ -k \in 0 .. 4 * IntBits /\ -j \in 0 .. 4 * IntBits
        /\ (k - j) + (-k) <= 4 * IntBits /\ (k - j) + (-k) = -j
    BY <1>1, <1>2, <1>5
  <2>2. p \in Nat \ {0} /\ q \in Nat \ {0} /\ 2 ^ ((k - j) + (-k)) = s * p
    BY <1>2, <2>1, Powers
  <2>3. q = s * p
    BY <2>1, <2>2
  <2>4. Scaled(m, j) = m \div q /\ Scaled(m, k) = m \div p
    BY <1>2, <1>5 DEF Scaled
  <2> HIDE DEF p, q, s
  <2>5. c * s \in Int /\ (c * s) * p = c * q
    BY <1>3, <2>2, <2>3
  <2>6. (c <= m \div q <=> c * q <= m) /\ (c * s <= m \div p <=> (c * s) * p <= m)
    BY <2>2, <2>5, DivAtLeast
  <2> QED  BY <2>4, <2>5, <2>6 DEF s
<1>6. CASE j < 0 /\ k >= 0
  <2> DEFINE p == 2 ^ k
             q == 2 ^ (-j)
  <2>1. /\ k \in 0 .. 4 * IntBits /\ -j \in 0 .. 4 * IntBits
        /\ -j + k <= 4 * IntBits /\ -j + k = k - j
    BY <1>1, <1>2, <1>6
  <2>2. p \in Nat \ {0} /\ q \in Nat \ {0} /\ 2 ^ (-j + k) = q * p
    BY <2>1, Powers
  <2>3. s = q * p
    BY <2>1, <2>2
  <2>4. Scaled(m, j) = m \div q /\ Scaled(m, k) = m * p
    BY <1>2, <1>6 DEF Scaled
  <2> HIDE DEF p, q, s
  <2>5. c * s = (c * q) * p /\ c * q \in Int
    BY <2>2, <2>3
  <2>6. (c <= m \div q <=> c * q <= m) /\ (c * q <= m <=> (c * q) * p <= m * p)
    BY <2>2, <2>5, DivAtLeast, TimesKeepsOrder
  <2> QED  BY <2>4, <2>5, <2>6 DEF s
<1> QED  BY <1>2, <1>4, <1>5, <1>6

\* Two shifts of a number are not both normal.
LEMMA NormalOnce ==
  ASSUME NEW sc \in Scales, NEW m \in Int, NEW j \in -(4 * IntBits) .. 4 * IntBits,
         NEW k \in -(4 * IntBits) .. 4 * IntBits, j < k, k - j <= 4 * IntBits,
         Normal(Scaled(m, j), sc), Normal(Scaled(m, k), sc)
  PROVE  FALSE
<1> DEFINE H == 2 ^ sc
           s == 2 ^ (k - j)
           x == Scaled(m, j)
           y == Scaled(m, k)
<1>1. j \in Int /\ k \in Int /\ IntBits \in Nat
  BY DauWidths
<1>2. k - j \in 0 .. 4 * IntBits /\ 0 \in 0 .. 4 * IntBits /\ 0 < k - j
  BY <1>1
<1>3. s \in Nat /\ 2 * 2 ^ 0 <= s /\ 2 ^ 0 = 1
  BY <1>2, PowersRise
<1>4. H \in Nat \ {0} /\ x \in Int /\ y \in Int
  BY NormalMeans
<1>5. ((H <= x /\ x < 2 * H) \/ (-(2 * H) <= x /\ x < -H)) /\ -(2 * H) <= y /\ y < 2 * H
  BY <1>4, NormalMeans
<1> HIDE DEF H
<1>6. (H <= x <=> H * s <= y) /\ (-H <= x <=> (-H) * s <= y)
  <2>1. H \in Int /\ -H \in Int /\ j <= k
    BY <1>1, <1>4
  <2> QED  BY <2>1, ScaledShift
<1> HIDE DEF s, x, y
<1>7. 2 * H <= H * s /\ (-H) * s <= -(2 * H)
  <2>1. H * s = 2 * H + H * (s - 2) /\ H * (s - 2) \in Nat /\ (-H) * s = -(H * s) /\ H * s \in Int
    BY <1>3, <1>4
  <2> QED  BY <1>4, <2>1
<1>8. H * s \in Int /\ (-H) * s \in Int
  BY <1>3, <1>4
<1> QED  BY <1>4, <1>5, <1>6, <1>7, <1>8

\* A shift that normalises is the one norm_at() takes.
LEMMA NormAtIs ==
  ASSUME NEW sc \in Scales, NEW m \in Int \ {0}, NEW k \in -2 .. ScAcc, Normal(Scaled(m, k), sc), NEW e
  PROVE  NormAt(m, e, sc) = [m |-> Scaled(m, k), e |-> e - k]
<1> DEFINE i == CHOOSE i \in -(ScMul + 4) .. ScMul + 1 : Normal(Scaled(m, i), sc)
<1>1. k \in -(ScMul + 4) .. ScMul + 1
  BY DauWidths
<1>2. i \in -(ScMul + 4) .. ScMul + 1 /\ Normal(Scaled(m, i), sc)
  <2>1. \E x \in -(ScMul + 4) .. ScMul + 1 : Normal(Scaled(m, x), sc)
    BY <1>1
  <2> QED  BY <2>1, Zenon
<1>3. NormAt(m, e, sc) = [m |-> Scaled(m, i), e |-> e - i]
  BY DEF NormAt
<1> HIDE DEF i
<1>4. /\ i \in -(4 * IntBits) .. 4 * IntBits /\ k \in -(4 * IntBits) .. 4 * IntBits
      /\ k - i <= 4 * IntBits /\ i - k <= 4 * IntBits /\ i \in Int /\ k \in Int
  BY <1>2, DauWidths
<1>5. ~(i < k) /\ ~(k < i)
  BY <1>2, <1>4, NormalOnce
<1>6. i = k
  BY <1>4, <1>5
<1> QED  BY <1>3, <1>6

\* round of a number, in memory words' units: the nearest, renormalised.
LEMMA RoundedNear ==
  ASSUME NEW x, IsAcc(x), x.e # 0
  PROVE  LET H == 2 ^ ScAcc
             g == 2 ^ GuardBits
             r == AccRound(x)
         IN  \E v \in Int :
               /\ -g < 2 * (v - x.m) /\ 2 * (v - x.m) <= g
               /\ \/ r.m = v /\ r.e = x.e
                  \/ r.m = H /\ v = 2 * H /\ r.e = x.e + 1
                  \/ r.m = -(2 * H) /\ v = -H /\ r.e = x.e - 1
               /\ \E n \in Int : r.m = n * g
<1> DEFINE F == 2 ^ FracBits
           H == 2 ^ ScAcc
           g == 2 ^ GuardBits
           h == g \div 2
           z == x.m + h
           q == z \div g
           v == q * g
<1>1. AccRound(x) = NormAt(v, x.e, ScAcc)
  BY DEF AccRound
<1>2. H \in Nat \ {0} /\ F \in Nat \ {0} /\ g \in Nat \ {0} /\ H = F * g /\ ScAcc \in Scales
  BY Units DEF Scales
<1>3. x.m \in Int /\ x.e \in Int /\ ((H <= x.m /\ x.m < 2 * H) \/ (-(2 * H) <= x.m /\ x.m < -H))
  BY AccNormal, AccIsSum DEF IsAcc, IsSum
<1>4. (g = 1 /\ h = 0) \/ (g = 2 * h /\ h \in Nat)
  <2>1. CASE GuardBits = 0
    <3>1. g = 1
      BY <2>1
    <3> QED  BY <3>1
  <2>2. CASE GuardBits # 0
    <3>1. /\ GuardBits - 1 \in 0 .. 4 * IntBits /\ 1 \in 0 .. 4 * IntBits
          /\ (GuardBits - 1) + 1 <= 4 * IntBits /\ (GuardBits - 1) + 1 = GuardBits
      BY <2>2, DauWidths
    <3>2. 2 ^ (GuardBits - 1) \in Nat \ {0} /\ 2 ^ ((GuardBits - 1) + 1) = 2 ^ (GuardBits - 1) * 2 ^ 1
      BY <3>1, Powers
    <3> DEFINE p == 2 ^ (GuardBits - 1)
    <3>3. p \in Nat /\ g = 2 * p
      BY <3>1, <3>2
    <3> HIDE DEF p, g
    <3> QED  BY <3>3
  <2> QED  BY <2>1, <2>2
<1> HIDE DEF H, F, g
<1>5. q \in Int /\ q * g <= z /\ z < (q + 1) * g /\ z \in Int
  <2>1. z \in Int
    BY <1>3, <1>4
  <2> HIDE DEF z
  <2> QED  BY <1>2, <2>1, DivSpec
<1>6. (q + 1) * g = v + g /\ v \in Int
  <2> HIDE DEF q
  <2> QED  BY <1>2, <1>5
<1> HIDE DEF h, q
<1>7. -g < 2 * (v - x.m) /\ 2 * (v - x.m) <= g
  <2> DEFINE w == q * g
  <2>1. w \in Int /\ w <= z /\ z < w + g
    BY <1>5, <1>6
  <2> HIDE DEF w
  <2>2. -g < 2 * (w - x.m) /\ 2 * (w - x.m) <= g
    BY <1>2, <1>3, <1>4, <2>1
  <2> QED  BY <2>2 DEF w
<1> HIDE DEF z
\* v is a multiple of g within the range of x.m, its ends included.
<1>8. (H <= v /\ v <= 2 * H) \/ (-(2 * H) <= v /\ v <= -H)
  <2>1. /\ F \in Int /\ 2 * F \in Int /\ -(2 * F) \in Int /\ -F \in Int
        /\ (2 * F) * g = 2 * H /\ (-F) * g = -H /\ (-(2 * F)) * g = -(2 * H)
    BY <1>2
  <2>2. ASSUME NEW c \in Int, x.m < c * g PROVE v <= c * g
    <3>1. CASE q <= c
      BY <1>2, <1>5, <3>1, MulMono
    <3>2. CASE c + 1 <= q
      <4>1. (c + 1) * g <= v
        BY <1>2, <1>5, <3>2, MulMono
      <4>2. (c + 1) * g = c * g + g /\ c * g \in Int
        BY <1>2
      <4>3. 2 * (v - x.m) > g
        <5> DEFINE b == c * g
                   w == q * g
        <5>1. b \in Int /\ w \in Int /\ b + g <= w /\ x.m < b
          BY <1>6, <2>2, <4>1, <4>2
        <5> HIDE DEF b, w
        <5>2. 2 * (w - x.m) > g
          BY <1>2, <1>3, <5>1
        <5> QED  BY <5>2 DEF w
      <4> QED  BY <1>2, <1>3, <1>6, <1>7, <4>3
    <3> QED  BY <1>5, <3>1, <3>2
  <2>3. ASSUME NEW c \in Int, c * g <= x.m PROVE c * g <= v
    <3>1. CASE c <= q
      BY <1>2, <1>5, <3>1, MulMono
    <3>2. CASE q <= c - 1
      <4>1. v <= (c - 1) * g
        BY <1>2, <1>5, <3>2, MulMono
      <4>2. (c - 1) * g = c * g - g /\ c * g \in Int
        BY <1>2
      <4>3. 2 * (v - x.m) <= -g
        <5> DEFINE b == c * g
                   w == q * g
        <5>1. b \in Int /\ w \in Int /\ w <= b - g /\ b <= x.m
          BY <1>6, <2>3, <4>1, <4>2
        <5> HIDE DEF b, w
        <5>2. 2 * (w - x.m) <= -g
          BY <1>2, <1>3, <5>1
        <5> QED  BY <5>2 DEF w
      <4> QED  BY <1>2, <1>3, <1>6, <1>7, <4>3
    <3> QED  BY <1>5, <3>1, <3>2
  <2>4. (F * g <= x.m /\ x.m < (2 * F) * g) \/ ((-(2 * F)) * g <= x.m /\ x.m < (-F) * g)
    BY <1>2, <1>3, <2>1
  <2>5. F * g <= x.m => F * g <= v
    BY <2>1, <2>3
  <2>6. x.m < (2 * F) * g => v <= (2 * F) * g
    BY <2>1, <2>2
  <2>7. (-(2 * F)) * g <= x.m => (-(2 * F)) * g <= v
    BY <2>1, <2>3
  <2>8. x.m < (-F) * g => v <= (-F) * g
    BY <2>1, <2>2
  <2> HIDE DEF v
  <2> QED  BY <1>2, <2>1, <2>4, <2>5, <2>6, <2>7, <2>8
<1> DEFINE r == AccRound(x)
<1> SUFFICES /\ \/ r.m = v /\ r.e = x.e
                \/ r.m = H /\ v = 2 * H /\ r.e = x.e + 1
                \/ r.m = -(2 * H) /\ v = -H /\ r.e = x.e - 1
             /\ \E n \in Int : r.m = n * g
  BY <1>6, <1>7 DEF H, g
<1>9. \E n \in Int : v = n * g
  BY <1>5
<1> HIDE DEF v
<1>10. \A y : y \in Int /\ ((H <= y /\ y < 2 * H) \/ (-(2 * H) <= y /\ y < -H)) => Normal(y, ScAcc)
  BY AccNormal DEF H
<1>11. v # 0 /\ {-1, 0, 1} \subseteq -2 .. ScAcc
  BY <1>2, <1>6, <1>8, DauWidths
<1>12. \A k \in {-1, 0, 1} : Normal(Scaled(v, k), ScAcc) => r = [m |-> Scaled(v, k), e |-> x.e - k]
  BY <1>1, <1>2, <1>6, <1>11, NormAtIs
<1> HIDE DEF r
<1>13. CASE v = 2 * H
  <2>1. Scaled(v, -1) = v \div 2
    <3>1. \A k \in Int : k < 0 => Scaled(v, k) = v \div 2 ^ (-k)
      BY DEF Scaled
    <3>2. PICK k \in Int : k + 1 = 0
      OBVIOUS
    <3>3. k < 0 /\ -k = 1
      BY <3>2
    <3>4. k = -1
      BY <3>2
    <3>5. Scaled(v, k) = v \div 2 ^ 1
      BY <3>1, <3>3
    <3>6. 2 ^ 1 = 2
      OBVIOUS
    <3> QED  BY <3>4, <3>5, <3>6
  <2>2. v \div 2 = H
    BY <1>2, <1>13
  <2>3. Normal(Scaled(v, -1), ScAcc)
    BY <1>2, <1>10, <2>1, <2>2
  <2>4. r = [m |-> H, e |-> x.e - (-1)]
    BY <1>12, <2>1, <2>2, <2>3
  <2>5. r.m = H /\ r.e = x.e + 1
    BY <1>3, <2>4
  <2> QED  BY <1>2, <1>13, <2>5
<1>14. CASE v = -H
  <2>1. Scaled(v, 1) = v * 2
    BY DEF Scaled
  <2>2. v * 2 = -(2 * H)
    BY <1>2, <1>14
  <2>3. Normal(Scaled(v, 1), ScAcc)
    BY <1>2, <1>10, <2>1, <2>2
  <2>4. r = [m |-> -(2 * H), e |-> x.e - 1]
    BY <1>12, <2>1, <2>2, <2>3
  <2>5. -(2 * H) = (-(2 * F)) * g /\ -(2 * F) \in Int
    BY <1>2
  <2> QED  BY <1>14, <2>4, <2>5
<1>15. CASE v # 2 * H /\ v # -H
  <2>1. Scaled(v, 0) = v
    BY <1>6 DEF Scaled
  <2>2. Normal(v, ScAcc)
    BY <1>2, <1>6, <1>8, <1>10, <1>15
  <2>3. r = [m |-> v, e |-> x.e]
    BY <1>3, <1>12, <2>1, <2>2
  <2> QED  BY <1>9, <2>3
<1> QED  BY <1>13, <1>14, <1>15

\* round is to the nearest memory word, ties upwards, also across a power of
\* two, for every number of every width (acc_round, norm_at).
THEOREM RoundingNearest == Spec /\ []Typed => []RoundsToNearest
<1>1. ASSUME Inv3 PROVE RoundsToNearest
  <2> DEFINE w == Special("round", 1, Acc(0), NoZ)
             s0 == start[1]
             x == s0.a[0]
             r == d.a[1]
             u == Lower(x.e, r.e)
             gain == 2 * (InUnits(r, u) - InUnits(x, u))
             unit == 2 ^ (GuardBits + x.e - u)
  <2> SUFFICES ASSUME Ran(<<w>>), x.e # 0, r.e # 0, ~d.dau.V
               PROVE  r.m % 2 ^ GuardBits = 0 /\ -unit < gain /\ gain <= unit
    BY DEF RoundsToNearest
  <2>1. d = Executed(s0, w) /\ Ready(s0, w) /\ BUSERR \notin d.raised
    BY <1>1, RanOne DEF Ran
  <2> DEFINE t == LatencyTick(s0)
             fl == DaFlags(t, AccRound(x), TRUE)
  <2>2. Typing(s0) /\ 0 \in AccNo /\ 1 \in AccNo
    BY <2>1 DEF Ready, WellFormed, Special, Acc, Operand, FromAcc
  <2>3. IsAcc(x)
    BY <2>2 DEF Typing
  <2>4. t.a = s0.a /\ Shape(t) /\ Typing(t)
    BY <2>2, TickKeeps, TickTyping DEF Typing
  <2>5. d = [fl.t EXCEPT !.a[1] = fl.res]
    <3>1. d = ExecDaSpecial(t, w)
      BY <2>1 DEF Executed, ExecInsn, Special
    <3> HIDE DEF t
    <3>2. DaRead(t, Acc(0)).acc = TRUE /\ DaRead(t, Acc(0)).val = x
      BY <2>4 DEF DaRead, FromAcc, Acc
    <3>3. ~DaReadFaults(t, Acc(0)) /\ \A n : DaReadMoves(t, Acc(0), n) = t
      BY DEF DaReadFaults, DaReadMoves, FromAcc, Acc
    <3>4. \A y : ~DaZWrites(NoZ, y)
      BY DEF DaZWrites, NoZ
    <3> DEFINE Y == DaRead(t, Acc(0))
               c == Conversion(t, w, Y)
    <3>5. DaAdder(Y) = x
      BY <3>2 DEF DaAdder
    <3> HIDE DEF Y
    <3>6. c = [res |-> fl.res, t |-> fl.t, z |-> AccPack(fl.res)]
      <4>1. w.g = "round"
        BY DEF Special
      <4> HIDE DEF w
      <4> QED  BY <3>5, <4>1 DEF Conversion
    <3>7. w.y = Acc(0) /\ w.z = NoZ /\ w.n = 1 /\ w.g = "round"
      BY DEF Special
    <3> HIDE DEF w, fl
    <3>8. c.res = fl.res /\ c.t = fl.t
      BY <3>6
    <3> HIDE DEF c
    <3>9. d = Finish(c.t, 1, c.res, NoZ, Y, StoreSize(w.g), c.z)
      BY <3>1, <3>3, <3>7 DEF ExecDaSpecial, Withheld, Y, c
    <3> QED  BY <3>4, <3>8, <3>9 DEF Finish, DaStoreZ
  <2> DEFINE a == AccRound(x)
  <2>6. fl.res = DaRange(a) /\ (fl.t.dau.V <=> OutOfRange(a)) /\ Typing(fl.t)
    <3>1. IsSum(a)
      BY <2>3, RoundedSum
    <3> HIDE DEF a
    <3> DEFINE f == [N |-> Negative(DaRange(a)), Z |-> DaRange(a).e = 0, U |-> TRUE /\ TooSmall(a),
                     V |-> TRUE /\ OutOfRange(a)]
               k == WithFlags(t, f)
    <3>2. fl.res = DaRange(a) /\ fl.t \in {k, Raise(k, UV)}
      BY Zenon DEF DaFlags, a
    <3>3. Typing(fl.t)
      BY <2>4, <3>1, DaFlagsTyping DEF a
    <3> HIDE DEF f, t
    <3>4. k.dau = f /\ Shape(k)
      BY <2>4, SMT DEF WithFlags, Shape, StateFields
    <3> HIDE DEF k, fl
    <3>5. fl.t.dau = f
      BY <3>2, <3>4, RaiseKeeps
    <3>6. f.V <=> OutOfRange(a)
      BY DEF f, OutOfRange
    <3> QED  BY <3>2, <3>3, <3>5, <3>6
  <2>7. r = fl.res /\ d.dau = fl.t.dau
    <3> HIDE DEF fl
    <3> QED  BY <2>2, <2>5, <2>6, SMT DEF Typing, Shape, StateFields
  <2>8. r = a
    <3> HIDE DEF fl, a
    <3>1. ~OutOfRange(a)
      BY <2>6, <2>7
    <3>2. r.e # 0
      OBVIOUS
    <3> HIDE DEF r
    <3> QED  BY <2>6, <2>7, <3>1, <3>2 DEF DaRange, Zero
  <2> DEFINE H == 2 ^ ScAcc
             g == 2 ^ GuardBits
  <2>9. PICK v \in Int :
          /\ -g < 2 * (v - x.m) /\ 2 * (v - x.m) <= g
          /\ \/ a.m = v /\ a.e = x.e
             \/ a.m = H /\ v = 2 * H /\ a.e = x.e + 1
             \/ a.m = -(2 * H) /\ v = -H /\ a.e = x.e - 1
          /\ \E n \in Int : a.m = n * g
    BY <2>3, RoundedNear
  <2>10. H \in Nat \ {0} /\ g \in Nat \ {0} /\ 2 ^ (GuardBits + 1) = 2 * g
    <3>1. /\ GuardBits \in 0 .. 4 * IntBits /\ 1 \in 0 .. 4 * IntBits /\ GuardBits + 1 <= 4 * IntBits
      BY DauWidths
    <3>2. g \in Nat \ {0} /\ 2 ^ (GuardBits + 1) = g * 2 ^ 1
      BY <3>1, Powers
    <3> QED  BY <3>2, Units
  <2>11. x.m \in Int /\ x.e \in Int /\ x.m # 0
    BY <2>3, <2>10, AccNormal, AccIsSum DEF IsAcc, IsSum
  <2>12. GuardBits \in Nat
    BY DauWidths
  <2>13. a.m % g = 0
    <3>1. PICK n \in Int : a.m = n * g
      BY <2>9
    <3> HIDE DEF g, a
    <3>2. \A y \in Int : y = n * g => y % g = 0
      BY <2>10
    <3>3. n * g \in Int
      BY <2>10
    <3> QED  BY <3>1, <3>2, <3>3
  <2>16. r.m # 0
    <3>1. IsSum(a) /\ a.e # 0
      BY <2>3, <2>8, RoundedSum
    <3> HIDE DEF a, r
    <3> QED  BY <2>8, <2>10, <3>1, AccNormal DEF IsSum
  <2> HIDE DEF a, x, r
  <2>15. \A y, k : y.m # 0 /\ y.e - u = k => InUnits(y, u) = y.m * 2 ^ k
    BY DEF InUnits
  <2>14. -unit < gain /\ gain <= unit
    <3>1. CASE a.m = v /\ a.e = x.e
      <4>1. u = x.e /\ GuardBits + x.e - u = GuardBits /\ x.e - u = 0 /\ r.e - u = 0
        BY <2>8, <2>11, <2>12, <3>1 DEF Lower
      <4>2. 2 ^ 0 = 1
        OBVIOUS
      <4> HIDE DEF u
      <4>3. InUnits(x, u) = x.m * 2 ^ 0
        BY <2>11, <2>15, <4>1
      <4>4. InUnits(r, u) = r.m * 2 ^ 0
        BY <2>15, <2>16, <4>1
      <4>5. InUnits(x, u) = x.m /\ InUnits(r, u) = v
        BY <2>8, <2>9, <2>10, <2>11, <3>1, <4>2, <4>3, <4>4
      <4> QED  BY <2>9, <4>1, <4>5
    <3>2. CASE a.m = H /\ v = 2 * H /\ a.e = x.e + 1
      <4>1. u = x.e /\ GuardBits + x.e - u = GuardBits /\ x.e - u = 0 /\ r.e - u = 1
        BY <2>8, <2>11, <2>12, <3>2 DEF Lower
      <4>2. 2 ^ 0 = 1 /\ 2 ^ 1 = 2
        OBVIOUS
      <4> HIDE DEF u, H
      <4>3. InUnits(x, u) = x.m * 2 ^ 0
        BY <2>11, <2>15, <4>1
      <4>4. InUnits(r, u) = r.m * 2 ^ 1
        BY <2>15, <2>16, <4>1
      <4>5. InUnits(x, u) = x.m /\ InUnits(r, u) = v
        BY <2>8, <2>9, <2>10, <2>11, <3>2, <4>2, <4>3, <4>4
      <4> QED  BY <2>9, <4>1, <4>5
    <3>3. CASE a.m = -(2 * H) /\ v = -H /\ a.e = x.e - 1
      <4>1. /\ u = x.e - 1 /\ GuardBits + x.e - u = GuardBits + 1 /\ x.e - u = 1 /\ r.e - u = 0
        BY <2>8, <2>11, <2>12, <3>3 DEF Lower
      <4>2. 2 ^ 0 = 1 /\ 2 ^ 1 = 2
        OBVIOUS
      <4> HIDE DEF u, H
      <4>3. InUnits(x, u) = x.m * 2 ^ 1
        BY <2>11, <2>15, <4>1
      <4>4. InUnits(r, u) = r.m * 2 ^ 0
        BY <2>15, <2>16, <4>1
      <4>5. InUnits(x, u) = 2 * x.m /\ InUnits(r, u) = 2 * v
        BY <2>8, <2>9, <2>10, <2>11, <3>3, <4>2, <4>3, <4>4
      <4>6. unit = 2 * g
        BY <2>10, <4>1
      <4> HIDE DEF g, unit
      <4> QED  BY <2>9, <2>10, <2>11, <4>5, <4>6
    <3> QED  BY <2>9, <3>1, <3>2, <3>3
  <2> QED  BY <2>8, <2>13, <2>14 DEF r, x
<1> QED  BY <1>1, InitWay, StepWay, PTL DEF Spec

-----------------------------------------------------------------------------
(* Rounding to an integer *)

\* The signs of a number and of its quotient, rounded downwards.
LEMMA DivSign ==
  ASSUME NEW x \in Int, NEW k \in Nat \ {0}
  PROVE  (x < 0 => x \div k < 0) /\ (x >= 0 => x \div k >= 0)
<1> DEFINE q == x \div k
<1>1. q \in Int /\ \A y \in Int : y <= q <=> y * k <= x
  BY DivSpec, DivAtLeast
<1> HIDE DEF q
<1>2. 0 * k = 0
  OBVIOUS
<1>3. 0 <= q <=> 0 <= x
  BY <1>1, <1>2
<1> QED  BY <1>1, <1>3 DEF q

LEMMA RoundedIsNearest ==
  ASSUME NEW m \in Int, NEW sh \in 1 .. Reach + 1, NEW mode \in 0..3
  PROVE  Rounded(m, sh, mode) \in Int /\ RoundsTo(m, 2 ^ sh, mode, Rounded(m, sh, mode))
<1> DEFINE unit == 2 ^ sh
           p == 2 ^ (sh - 1)
           f == m \div unit
           h == m \div p
           b == h % 2
           j == Rounded(m, sh, mode)
<1>1. unit \in Nat \ {0} /\ p \in Nat \ {0} /\ unit = 2 * p
  <2>1. /\ sh - 1 \in 0 .. 4 * IntBits /\ 1 \in 0 .. 4 * IntBits /\ (sh - 1) + 1 <= 4 * IntBits
        /\ (sh - 1) + 1 = sh
    BY WidthAssumption, DauWidths
  <2>2. p \in Nat \ {0} /\ 2 ^ ((sh - 1) + 1) = p * 2 ^ 1
    BY <2>1, Powers
  <2>3. unit = p * 2
    BY <2>1, <2>2
  <2> HIDE DEF unit, p
  <2> QED  BY <2>2, <2>3
<1>2. j \in Int
  BY RoundedInt
<1>3. /\ mode \in {0, 2} => j = f + b
      /\ mode = 1 => j = f
      /\ mode = 3 => j = IF m < 0 /\ m % unit # 0 THEN f + 1 ELSE f
  BY DEF Rounded
<1> HIDE DEF unit, p, j
<1>4. f \in Int /\ f * unit <= m /\ m < (f + 1) * unit
  BY <1>1, DivSpec
<1>5. h \in Int /\ h * p <= m /\ m < (h + 1) * p
  BY <1>1, DivSpec
<1>6. m = unit * f + (m % unit) /\ (m % unit) \in 0 .. unit - 1
  BY <1>1, DivMod
<1>7. (m < 0 => f < 0) /\ (m >= 0 => f >= 0)
  BY <1>1, DivSign
<1> HIDE DEF f, h
<1>8. (f + 1) * unit = f * unit + unit /\ f * unit \in Int /\ unit * f = f * unit /\ (f - 1) * unit = f * unit - unit
  BY <1>1, <1>4
\* Half a unit below and above.
<1>9. ASSUME mode \in {0, 2}
      PROVE  (2 * j - 1) * unit <= 2 * m /\ 2 * m < (2 * j + 1) * unit
  <2>1. b \in {0, 1}
    BY <1>5
  <2>2. h = 2 * f + b
    <3>1. (2 * f) * p = f * unit /\ (2 * f + 2) * p = (f + 1) * unit
      BY <1>1, <1>4
    <3> DEFINE l == 2 * f
               u == 2 * f + 2
    <3>2. l \in Int /\ u \in Int /\ l * p <= m /\ m < u * p
      BY <1>4, <3>1
    <3>3. \A y \in Int : y <= h <=> y * p <= m
      BY <1>1, DivAtLeast DEF h
    <3> HIDE DEF l, u
    <3>4. l <= h /\ ~(u <= h)
      <4>1. u * p \in Int
        BY <1>1, <3>2
      <4> QED  BY <3>2, <3>3, <4>1
    <3> QED  BY <1>4, <1>5, <3>4 DEF l, u
  <2>3. j = f + b
    BY <1>3, <1>9
  <2> HIDE DEF b
  <2>4. CASE b = 0
    <3>1. (2 * j - 1) * unit = 2 * (f * unit) - unit /\ (2 * j + 1) * unit = 2 * (h * p) + 2 * p
      BY <1>1, <1>4, <2>2, <2>3, <2>4
    <3>2. (h + 1) * p = h * p + p /\ h * p \in Int
      BY <1>1, <1>5
    <3> DEFINE y == f * unit
               z == h * p
    <3>3. y \in Int /\ z \in Int /\ y <= m /\ m < z + p
      BY <1>4, <1>5, <1>8, <3>2
    <3> HIDE DEF y, z
    <3>4. 2 * y - unit <= 2 * m /\ 2 * m < 2 * z + 2 * p
      BY <1>1, <3>3
    <3> QED  BY <3>1, <3>4 DEF y, z
  <2>5. CASE b = 1
    <3>1. (2 * j - 1) * unit = 2 * (h * p) /\ (2 * j + 1) * unit = 2 * (f * unit) + 3 * unit
      BY <1>1, <1>4, <2>2, <2>3, <2>5
    <3> DEFINE y == f * unit
               z == h * p
    <3>2. y \in Int /\ z \in Int /\ m < y + unit /\ z <= m
      BY <1>1, <1>4, <1>5, <1>8
    <3> HIDE DEF y, z
    <3>3. 2 * z <= 2 * m /\ 2 * m < 2 * y + 3 * unit
      BY <1>1, <3>2
    <3> QED  BY <3>1, <3>3 DEF y, z
  <2> QED  BY <2>1, <2>4, <2>5
<1>10. CASE mode \in {0, 2}
  <2>1. RoundsTo(m, unit, mode, j) <=> (2 * j - 1) * unit <= 2 * m /\ 2 * m < (2 * j + 1) * unit
    <3>1. mode # 1 /\ mode # 3
      BY <1>10
    <3> QED  BY <1>10, <3>1, Zenon DEF RoundsTo
  <2> QED  BY <1>2, <1>9, <1>10, <2>1, Zenon DEF unit, j
<1>11. CASE mode = 1
  <2>1. j = f
    BY <1>3, <1>11
  <2> QED  BY <1>2, <1>4, <1>11, <2>1 DEF RoundsTo, unit, j
<1>12. CASE mode = 3
  <2>1. CASE m >= 0
    <3>1. j = f /\ ~(m < 0)
      BY <1>3, <1>12, <2>1
    <3> QED  BY <1>2, <1>4, <1>7, <1>12, <2>1, <3>1 DEF RoundsTo, unit, j
  <2>2. CASE m < 0 /\ m % unit # 0
    <3>1. j = f + 1
      BY <1>3, <1>12, <2>2
    <3>2. j <= 0 /\ (j - 1) * unit < m /\ m <= j * unit
      <4> DEFINE y == f * unit
                 r == m % unit
      <4>1. y \in Int /\ m = y + r /\ r \in 0 .. unit - 1 /\ r # 0 /\ y + unit = (f + 1) * unit
        BY <1>6, <1>8, <2>2
      <4>2. (j - 1) * unit = y /\ j * unit = y + unit
        <5>1. j - 1 = f
          BY <1>4, <3>1
        <5> QED  BY <3>1, <4>1, <5>1
      <4> HIDE DEF y, r
      <4>3. y < m /\ m <= y + unit
        BY <1>1, <4>1
      <4> QED  BY <1>4, <1>7, <2>2, <3>1, <4>2, <4>3
    <3> QED  BY <1>2, <1>12, <2>2, <3>2 DEF RoundsTo, unit, j
  <2>3. CASE m < 0 /\ m % unit = 0
    <3>1. j = f
      BY <1>3, <1>12, <2>3
    <3>2. j <= 0 /\ (j - 1) * unit < m /\ m <= j * unit
      <4> DEFINE y == f * unit
      <4>1. y \in Int /\ m = y /\ (f - 1) * unit = y - unit
        BY <1>6, <1>8, <2>3
      <4> HIDE DEF y
      <4>2. y - unit < m /\ m <= y
        BY <1>1, <4>1
      <4> QED  BY <1>4, <1>7, <2>3, <3>1, <4>1, <4>2 DEF y
    <3> QED  BY <1>2, <1>12, <2>3, <3>2 DEF RoundsTo, unit, j
  <2> QED  BY <2>1, <2>2, <2>3
<1> QED  BY <1>10, <1>11, <1>12

LEMMA RoundsBy ==
  ASSUME NEW num, NEW unit, NEW mode \in 0..3, NEW j,
         mode \in {0, 2} => (2 * j - 1) * unit <= 2 * num /\ 2 * num < (2 * j + 1) * unit,
         mode = 1 => j * unit <= num /\ num < (j + 1) * unit,
         mode = 3 => IF num < 0 THEN j <= 0 /\ (j - 1) * unit < num /\ num <= j * unit
                     ELSE j >= 0 /\ j * unit <= num /\ num < (j + 1) * unit
  PROVE  RoundsTo(num, unit, mode, j)
<1>1. CASE mode \in {0, 2}
  <2>1. mode # 1 /\ mode # 3
    BY <1>1
  <2> QED  BY <1>1, <2>1, Zenon DEF RoundsTo
<1>2. CASE mode = 1
  <2>1. mode \notin {0, 2} /\ mode # 3
    BY <1>2
  <2> QED  BY <1>2, <2>1, Zenon DEF RoundsTo
<1>3. CASE mode = 3
  <2>1. mode \notin {0, 2} /\ mode # 1
    BY <1>3
  <2> QED  BY <1>3, <2>1, Zenon DEF RoundsTo
<1> QED  BY <1>1, <1>2, <1>3

\* What has been rounded beyond a number has been beyond it before.
LEMMA RoundsBeyond ==
  ASSUME NEW num \in Int, NEW unit \in Nat \ {0}, NEW mode \in 0..3, NEW j \in Int,
         RoundsTo(num, unit, mode, j), NEW c \in Int
  PROVE  /\ 0 <= c /\ c < j => c * unit < num
         /\ c <= 0 /\ j < c => num < c * unit
<1>1. c * unit \in Int /\ j * unit \in Int /\ 2 * num \in Int /\ \A y \in Int : y * unit \in Int
  OBVIOUS
<1>2. CASE mode \in {0, 2}
  <2>1. (2 * j - 1) * unit <= 2 * num /\ 2 * num < (2 * j + 1) * unit
    <3>1. mode # 1 /\ mode # 3
      BY <1>2
    <3> QED  BY <1>2, <3>1, Zenon DEF RoundsTo
  <2> DEFINE y == c * unit
  <2>2. y \in Int /\ (2 * c + 1) * unit = 2 * y + unit /\ (2 * c - 1) * unit = 2 * y - unit
    OBVIOUS
  <2>3. ASSUME c < j PROVE c * unit < num
    <3>1. (2 * c + 1) * unit <= (2 * j - 1) * unit
      BY <2>3, MulMono
    <3> DEFINE z == (2 * j - 1) * unit
    <3>2. z \in Int /\ z <= 2 * num /\ 2 * y + unit <= z
      BY <2>1, <2>2, <3>1
    <3> HIDE DEF y, z
    <3>3. y < num
      BY <2>2, <3>2
    <3> QED  BY <3>3 DEF y
  <2>4. ASSUME j < c PROVE num < c * unit
    <3>1. (2 * j + 1) * unit <= (2 * c - 1) * unit
      BY <2>4, MulMono
    <3> DEFINE z == (2 * j + 1) * unit
    <3>2. z \in Int /\ 2 * num < z /\ z <= 2 * y - unit
      BY <2>1, <2>2, <3>1
    <3> HIDE DEF y, z
    <3>3. num < y
      BY <2>2, <3>2
    <3> QED  BY <3>3 DEF y
  <2> QED  BY <2>3, <2>4
<1>3. ASSUME c < j, j * unit <= num PROVE c * unit < num
  <2>1. (c + 1) * unit <= j * unit /\ (c + 1) * unit = c * unit + unit
    BY <1>3, MulMono
  <2> DEFINE y == c * unit
             z == j * unit
  <2>2. y \in Int /\ z \in Int /\ y + unit <= z /\ z <= num
    BY <1>1, <1>3, <2>1
  <2> HIDE DEF y, z
  <2>3. y < num
    BY <2>2
  <2> QED  BY <2>3 DEF y
<1>4. ASSUME j < c, num < (j + 1) * unit PROVE num < c * unit
  <2>1. (j + 1) * unit <= c * unit
    BY <1>4, MulMono
  <2> DEFINE y == c * unit
             z == (j + 1) * unit
  <2>2. y \in Int /\ z \in Int /\ z <= y /\ num < z
    BY <1>1, <1>4, <2>1
  <2> HIDE DEF y, z
  <2>3. num < y
    BY <2>2
  <2> QED  BY <2>3 DEF y
<1>5. CASE mode = 1
  BY <1>3, <1>4, <1>5 DEF RoundsTo
<1>6. CASE mode = 3 /\ num >= 0
  <2>1. j >= 0 /\ j * unit <= num /\ num < (j + 1) * unit
    BY <1>6 DEF RoundsTo
  <2> QED  BY <1>3, <1>4, <2>1
<1>7. CASE mode = 3 /\ num < 0
  <2>1. j <= 0 /\ (j - 1) * unit < num /\ num <= j * unit
    BY <1>7 DEF RoundsTo
  <2>2. ASSUME j < c PROVE num < c * unit
    <3>1. (j + 1) * unit <= c * unit /\ (j + 1) * unit = j * unit + unit
      BY <2>2, MulMono
    <3> DEFINE y == c * unit
               z == j * unit
    <3>2. y \in Int /\ z \in Int /\ z + unit <= y /\ num <= z
      BY <1>1, <2>1, <3>1
    <3> HIDE DEF y, z
    <3>3. num < y
      BY <3>2
    <3> QED  BY <3>3 DEF y
  <2> QED  BY <2>1, <2>2
<1> QED  BY <1>2, <1>5, <1>6, <1>7

\* A number rounded, or saturated on its own side.
Judged(num, unit, mode, n, i) ==
  /\ i \in IntMin(n)..IntMax(n)
  /\ \/ RoundsTo(num, unit, mode, i)
     \/ i = IntMax(n) /\ num > i * unit
     \/ i = IntMin(n) /\ num < i * unit

LEMMA ClampJudged ==
  ASSUME NEW num \in Int, NEW unit \in Nat \ {0}, NEW mode \in 0..3, NEW j \in Int,
         RoundsTo(num, unit, mode, j), NEW n \in IntWidths
  PROVE  Judged(num, unit, mode, n, Clamp(j, n))
<1> DEFINE lo == IntMin(n)
           hi == IntMax(n)
<1>1. lo \in Int /\ hi \in Int /\ lo <= 0 /\ 0 <= hi /\ Clamp(j, n) \in lo..hi
  BY ClampRange
<1>2. Clamp(j, n) = IF j < lo THEN lo ELSE IF j > hi THEN hi ELSE j
  BY DEF Clamp
<1> HIDE DEF lo, hi
<1>3. CASE j < lo
  <2>1. Clamp(j, n) = lo /\ num < lo * unit
    BY <1>1, <1>2, <1>3, RoundsBeyond
  <2> QED  BY <1>1, <2>1 DEF Judged, lo, hi
<1>4. CASE j > hi
  <2>1. Clamp(j, n) = hi /\ hi * unit < num
    BY <1>1, <1>2, <1>4, RoundsBeyond
  <2>2. hi * unit \in Int
    BY <1>1
  <2> QED  BY <1>1, <2>1, <2>2 DEF Judged, lo, hi
<1>5. CASE ~(j < lo) /\ ~(j > hi)
  <2>1. Clamp(j, n) = j
    BY <1>2, <1>5
  <2> QED  BY <1>1, <2>1 DEF Judged, lo, hi
<1> QED  BY <1>3, <1>4, <1>5

\* Powers beyond the widths of numbers, as exponents allow.
LEMMA FarPowers ==
  ASSUME NEW k \in Int, Reach + 1 < k, k <= Bias + ScAcc
  PROVE  2 ^ k \in Nat \ {0} /\ 2 ^ (ScAcc + 2) <= 2 ^ k
<1>1. k \in 0..FarExp /\ ScAcc + 2 \in 0..FarExp /\ ScAcc + 2 <= k
  BY WidthAssumption, DauWidths DEF FarExp
<1> QED  BY <1>1, FarRise

\* An accumulator as an integer of n bits, by any rounding mode (acc_to_int).
LEMMA ToIntRounds ==
  ASSUME NEW x, IsAcc(x), NEW mode \in 0..3, NEW n \in IntWidths
  PROVE  LET k    == Bias + ScAcc - x.e
             unit == 2 ^ Higher(k, 0)
             num  == IF x.e = 0 THEN 0 ELSE x.m * 2 ^ Higher(-k, 0)
         IN  Judged(num, unit, mode, n, AccToInt(x, mode, n))
<1> DEFINE shift == x.e - Bias - ScAcc
           k    == Bias + ScAcc - x.e
           unit == 2 ^ Higher(k, 0)
           num  == IF x.e = 0 THEN 0 ELSE x.m * 2 ^ Higher(-k, 0)
           H    == 2 ^ ScAcc
           i    == AccToInt(x, mode, n)
<1> SUFFICES Judged(num, unit, mode, n, i)
  OBVIOUS
<1>1. x.e \in 0..MaxExp /\ shift \in Int /\ k \in Int /\ -k = shift /\ k <= Bias + ScAcc /\ -k <= Bias
  BY DauWidths DEF IsAcc
<1>2. 2 ^ 0 = 1
  OBVIOUS
<1>3. CASE x.e = 0
  <2>1. Higher(k, 0) = k
    BY <1>1, <1>3, DauWidths DEF Higher
  <2>2. unit \in Nat \ {0} /\ num = 0
    <3>1. k \in 0..FarExp
      BY <1>1, <1>3, DauWidths DEF FarExp
    <3> HIDE DEF k
    <3>2. 2 ^ k \in Nat \ {0}
      BY <3>1, FarRise
    <3> QED  BY <1>3, <2>1, <3>2
  <2>3. i = 0
    BY <1>3 DEF AccToInt
  <2>4. 0 \in IntMin(n)..IntMax(n)
    BY ClampRange
  <2> HIDE DEF unit, num, i
  <2>5. RoundsTo(0, unit, mode, 0)
    <3>1. (2 * 0 - 1) * unit <= 2 * 0 /\ 2 * 0 < (2 * 0 + 1) * unit /\ 0 * unit <= 0 /\ 0 < (0 + 1) * unit
      BY <2>2
    <3>2. ~(0 < 0) /\ 0 >= 0
      OBVIOUS
    <3>3. mode = 0 \/ mode = 1 \/ mode = 2 \/ mode = 3
      OBVIOUS
    <3> QED  BY <3>1, <3>2, <3>3 DEF RoundsTo
  <2> QED  BY <2>2, <2>3, <2>4, <2>5 DEF Judged
<1> HIDE DEF H
<1>4. /\ H \in Nat \ {0} /\ 2 ^ (ScAcc + 2) = 4 * H
      /\ x.e # 0 => x.m \in Int /\ -(2 * H) <= x.m /\ x.m < 2 * H
  <2>1. H \in Nat \ {0}
    BY Units DEF H
  <2>2. /\ ScAcc \in 0 .. 4 * IntBits /\ 2 \in 0 .. 4 * IntBits /\ ScAcc + 2 <= 4 * IntBits
    BY DauWidths
  <2>3. 2 ^ (ScAcc + 2) = H * 2 ^ 2
    BY <2>2, Powers DEF H
  <2>4. 2 ^ 2 = 4
    OBVIOUS
  <2>5. x.e # 0 => x.m \in Int /\ ((H <= x.m /\ x.m < 2 * H) \/ (-(2 * H) <= x.m /\ x.m < -H))
    BY AccNormal DEF IsAcc, H
  <2> QED  BY <2>1, <2>3, <2>4, <2>5
<1>5. CASE x.e # 0 /\ shift >= 0
  <2>1. Higher(k, 0) = 0 /\ Higher(-k, 0) = shift
    BY <1>1, <1>5 DEF Higher
  <2>2. 2 ^ shift \in Nat
    <3>1. shift \in 0..FarExp
      BY <1>1, <1>5, DauWidths DEF FarExp
    <3> HIDE DEF shift
    <3> QED  BY <3>1, FarRise
  <2>3. unit = 1 /\ num = x.m * 2 ^ shift
    BY <1>2, <1>5, <2>1
  <2>4. i = Clamp(x.m * 2 ^ shift, n)
    BY <1>5 DEF AccToInt
  <2>5. x.m * 2 ^ shift \in Int
    BY <1>4, <1>5, <2>2
  <2> DEFINE j == x.m * 2 ^ shift
  <2> HIDE DEF unit, num, i, shift, j
  <2>6. RoundsTo(j, 1, mode, j)
    <3>1. j \in Int
      BY <2>5 DEF j
    <3>2. /\ (2 * j - 1) * 1 <= 2 * j /\ 2 * j < (2 * j + 1) * 1 /\ j * 1 = j /\ j < (j + 1) * 1
          /\ (j - 1) * 1 < j /\ j <= j
      BY <3>1
    <3>3. IF j < 0 THEN j <= 0 ELSE j >= 0
      BY <3>1
    <3>4. j * 1 <= j /\ j <= j * 1
      BY <3>2, Zenon
    <3> QED  BY <3>2, <3>3, <3>4, RoundsBy, Zenon
  <2>7. num = j /\ i = Clamp(j, n) /\ j \in Int /\ 1 \in Nat \ {0}
    BY <2>3, <2>4, <2>5 DEF j
  <2> QED  BY <2>3, <2>6, <2>7, ClampJudged
<1>6. CASE x.e # 0 /\ ~(shift >= 0)
  <2>1. k > 0 /\ Higher(k, 0) = k /\ Higher(-k, 0) = 0 /\ -shift = k
    BY <1>1, <1>6 DEF Higher
  <2>2. unit = 2 ^ k /\ num = x.m
    <3>1. num = x.m * 1
      BY <1>2, <1>6, <2>1
    <3>2. x.m * 1 = x.m
      BY <1>4, <1>6
    <3> QED  BY <2>1, <3>1, <3>2
  <2>3. CASE k > Reach + 1
    <3>1. unit \in Nat \ {0} /\ 4 * H <= unit
      BY <1>1, <1>4, <2>2, <2>3, FarPowers
    <3>2. i = IF mode = 1 /\ x.m < 0 THEN Clamp(-1, n) ELSE 0
      BY <1>6, <2>1, <2>3 DEF AccToInt
    <3> HIDE DEF unit, num, i
    <3>3. CASE mode = 1 /\ x.m < 0
      <4>1. PICK j \in Int : j + 1 = 0
        OBVIOUS
      <4>2. x.m \in Int /\ j * unit = -unit /\ (j + 1) * unit = 0
        BY <1>4, <1>6, <3>1, <4>1
      <4>3. j * unit <= x.m /\ x.m < (j + 1) * unit
        BY <1>4, <1>6, <3>1, <3>3, <4>2
      <4>4. mode \notin {0, 2} /\ mode # 3
        BY <3>3
      <4>5. RoundsTo(x.m, unit, mode, j)
        BY <4>3, <4>4, RoundsBy, Zenon
      <4>6. j = -1
        BY <4>1
      <4> QED  BY <2>2, <3>1, <3>2, <3>3, <4>2, <4>5, <4>6, ClampJudged
    <3>4. CASE ~(mode = 1 /\ x.m < 0)
      <4>1. RoundsTo(x.m, unit, mode, 0)
        <5> DEFINE j == 0
        <5>1. x.m \in Int /\ j * unit = 0 /\ (j + 1) * unit = unit /\ (2 * j + 1) * unit = unit
          BY <1>4, <1>6, <3>1
        <5>2. \A y \in Int : y + 1 = 0 => y * unit = -unit
          BY <3>1
        <5>3. PICK y \in Int : y + 1 = 0
          OBVIOUS
        <5>4. 2 * j - 1 = y /\ j - 1 = y
          BY <5>3
        <5> HIDE DEF j
        <5>5. (2 * j - 1) * unit = -unit /\ (j - 1) * unit = -unit
          BY <5>2, <5>3, <5>4
        <5>6. (2 * j - 1) * unit <= 2 * x.m /\ 2 * x.m < (2 * j + 1) * unit
          BY <1>4, <1>6, <3>1, <5>1, <5>5
        <5>7. mode = 1 => j * unit <= x.m /\ x.m < (j + 1) * unit
          BY <1>4, <1>6, <3>1, <3>4, <5>1
        <5>8. IF x.m < 0 THEN j <= 0 /\ (j - 1) * unit < x.m /\ x.m <= j * unit
              ELSE j >= 0 /\ j * unit <= x.m /\ x.m < (j + 1) * unit
          <6>1. j <= 0 /\ j >= 0
            BY DEF j
          <6> QED  BY <1>4, <1>6, <3>1, <5>1, <5>5, <6>1
        <5>9. RoundsTo(x.m, unit, mode, j)
          BY <5>6, <5>7, <5>8, RoundsBy, Zenon
        <5> QED  BY <5>9 DEF j
      <4>2. 0 \in IntMin(n)..IntMax(n)
        BY ClampRange
      <4> QED  BY <2>2, <3>2, <3>4, <4>1, <4>2 DEF Judged
    <3> QED  BY <3>3, <3>4
  <2>4. CASE ~(k > Reach + 1)
    <3>1. k \in 1 .. Reach + 1
      BY <1>1, <2>1, <2>4, WidthAssumption
    <3>2. i = Clamp(Rounded(x.m, k, mode), n)
      BY <1>6, <2>1, <2>4 DEF AccToInt
    <3> HIDE DEF k, i, unit, num
    <3>3. 2 ^ k \in Nat \ {0}
      <4>1. k \in 0 .. 4 * IntBits
        BY <3>1, WidthAssumption, DauWidths
      <4> QED  BY <4>1, PowersRise
    <3>4. Rounded(x.m, k, mode) \in Int /\ RoundsTo(x.m, 2 ^ k, mode, Rounded(x.m, k, mode)) /\ x.m \in Int
      BY <1>4, <1>6, <3>1, RoundedIsNearest
    <3> QED  BY <2>2, <3>2, <3>3, <3>4, ClampJudged
  <2> QED  BY <2>3, <2>4
<1> QED  BY <1>3, <1>5, <1>6

-----------------------------------------------------------------------------
(* Integers on their way through a lane or memory *)

LEMMA DivModIs ==
  ASSUME NEW x \in Int, NEW k \in Nat \ {0}, NEW q \in Int, NEW r \in 0 .. k - 1, x = q * k + r
  PROVE  x \div k = q /\ (x % k) = r
<1> DEFINE y == q * k
           z == (q + 1) * k
<1>1. y \in Int /\ z \in Int /\ z = y + k /\ y <= x /\ ~(z <= x)
  <2>1. y \in Int /\ z = y + k
    OBVIOUS
  <2> HIDE DEF z
  <2>2. x = y + r
    OBVIOUS
  <2> HIDE DEF y
  <2> QED  BY <2>1, <2>2
<1>2. q <= x \div k /\ ~(q + 1 <= x \div k) /\ x \div k \in Int
  BY <1>1, DivSpec, DivAtLeast
<1>3. x \div k = q
  BY <1>2
<1>4. x = k * q + (x % k) /\ (x % k) \in Int
  <2>1. (x % k) \in 0 .. k - 1 /\ x = k * (x \div k) + (x % k)
    BY DivMod
  <2>2. x = k * q + (x % k)
    BY <1>3, <2>1, Zenon
  <2>3. (x % k) \in Int
    BY <2>1
  <2> QED  BY <2>2, <2>3
<1> QED  BY <1>3, <1>4

\* The n bits at the top of a long that an integer has been moved up to.
LEMMA TopOfTop ==
  ASSUME NEW x \in Int, NEW n \in IntWidths
  PROVE  TopBits(ToTop(x, n), n) = x % 2 ^ n
<1> DEFINE L == 2 ^ IntBits
           s == 2 ^ (IntBits - n)
           N == 2 ^ n
           q == x \div N
           r == x % N
           p == r * s
           y == (x * s) % L
           v == ToTop(x, n)
<1>1. L \in Nat \ {0} /\ s \in Nat \ {0} /\ N \in Nat \ {0} /\ L = s * N /\ 2 ^ (IntBits - 1) \in Int
  <2>1. n \in 1..IntBits
    BY IntUnits
  <2>2. n \in 0 .. 4 * IntBits /\ IntBits \in 0 .. 4 * IntBits /\ n <= IntBits
    BY <2>1, DauWidths
  <2>3. L \in Nat \ {0} /\ s \in Nat \ {0} /\ N \in Nat \ {0} /\ L = s * N
    BY <2>2, PowersRise
  <2>4. 2 ^ (IntBits - 1) \in Int
    BY Units
  <2> QED  BY <2>3, <2>4
<1>2. q \in Int /\ r \in 0 .. N - 1 /\ x = N * q + r
  BY <1>1, DivMod
<1>3. v = IF y >= 2 ^ (IntBits - 1) THEN y - L ELSE y
  BY DEF ToTop, Sext
<1>4. TopBits(v, n) = (v % L) \div s
  BY DEF TopBits
<1> HIDE DEF L, s, N, v, q, r
<1>5. p \in 0 .. L - 1
  <2>1. 0 <= r * s /\ (r + 1) * s <= N * s /\ (r + 1) * s = r * s + s
    BY <1>1, <1>2, MulMono
  <2>2. N * s = L /\ r * s \in Int
    BY <1>1, <1>2
  <2> DEFINE z == (r + 1) * s
             l == N * s
  <2>3. z = p + s /\ z <= l /\ l = L /\ 0 <= p /\ p \in Int
    BY <2>1, <2>2
  <2> HIDE DEF z, l, p
  <2> QED  BY <1>1, <2>3
<1>6. x * s = q * L + p
  <2>1. x * s = (N * q + r) * s
    BY <1>2
  <2>2. (N * q + r) * s = q * (s * N) + r * s
    BY ONLY <1>1, <1>2
  <2> QED  BY <1>1, <2>1, <2>2
<1>7. y = p
  <2>1. x * s \in Int
    BY <1>1
  <2> HIDE DEF p
  <2> QED  BY <1>1, <1>2, <1>5, <1>6, <2>1, DivModIs
<1>8. v % L = p
  <2> HIDE DEF p, y
  <2>1. CASE v = y - L
    <3>1. v \in Int /\ v = (0 - 1) * L + p /\ 0 - 1 \in Int
      BY <1>1, <1>5, <1>7, <2>1
    <3> QED  BY <1>1, <1>5, <3>1, DivModIs
  <2>2. CASE v = y
    <3>1. v \in Int /\ v = 0 * L + p
      BY <1>1, <1>5, <1>7, <2>2
    <3> QED  BY <1>1, <1>5, <3>1, DivModIs
  <2> QED  BY <1>3, <2>1, <2>2
<1>9. p \div s = r
  <2>1. p = r * s + 0 /\ 0 \in 0 .. s - 1 /\ p \in Int /\ r \in Int
    BY <1>1, <1>2, <1>5
  <2> HIDE DEF p
  <2> QED  BY <1>1, <2>1, DivModIs
<1> QED  BY <1>4, <1>8, <1>9 DEF v, r, N

\* A long is all of its lane.
LEMMA WholeLane ==
  ASSUME NEW v \in Int
  PROVE  TopBits(v, IntBits) = v % 2 ^ IntBits
<1>1. IntBits - IntBits = 0 /\ 2 ^ 0 = 1 /\ 2 ^ IntBits \in Nat \ {0}
  BY Units, DauWidths
<1> DEFINE y == v % 2 ^ IntBits
<1>2. y \in Int
  BY <1>1
<1>3. TopBits(v, IntBits) = y \div 1
  BY <1>1 DEF TopBits
<1> HIDE DEF y
<1>4. y \div 1 = y
  BY <1>2
<1> QED  BY <1>3, <1>4 DEF y

LEMMA LaneReads ==
  ASSUME NEW v \in Int, -(2 ^ ScAcc) <= v, v < 2 ^ ScAcc, NEW a
  PROVE  LaneOf(IntLane(v, a)) = IF a.e = 0 THEN 0 ELSE v
<1> DEFINE H == 2 ^ ScAcc
           m == v + Implicit(v, ScAcc)
<1>1. H \in Nat \ {0}
  BY Units
<1>2. IntLane(v, a).m = m /\ IntLane(v, a).e = a.e
  BY DEF IntLane
<1>3. m = (IF v < 0 THEN v - H ELSE v + H) /\ Implicit(m, ScAcc) = IF m < 0 THEN -H ELSE H
  BY <1>1 DEF Implicit
<1>4. m - Implicit(m, ScAcc) = v
  <2>1. -H <= v /\ v < H
    OBVIOUS
  <2> HIDE DEF H, m
  <2> QED  BY <1>1, <1>3, <2>1
<1> QED  BY <1>2, <1>4 DEF LaneOf

\* The code of a signed integer stands for it; that of a byte is the byte.
LEMMA SignedCode ==
  ASSUME NEW n \in IntWidths, NEW i \in IntMin(n)..IntMax(n)
  PROVE  /\ i \in Int /\ i % 2 ^ n \in 0 .. 2 ^ n - 1
         /\ IF n = ByteBits THEN i % 2 ^ n = i ELSE Sext(i % 2 ^ n, n) = i
<1> DEFINE N == 2 ^ n
           h == 2 ^ (n - 1)
           c == i % N
<1>1. h \in Nat \ {0} /\ N = 2 * h /\ N \in Nat \ {0}
  BY IntUnits
<1>2. i \in Int
  BY ClampRange
<1>3. c \in 0 .. N - 1
  BY <1>1, <1>2
<1>4. CASE n = ByteBits
  <2>1. i \in 0 .. N - 1
    BY <1>4 DEF IntMin, IntMax
  <2> HIDE DEF N, c
  <2>2. i = 0 * N + i
    BY <1>1, <1>2
  <2>3. c = i
    BY <1>1, <1>2, <2>1, <2>2, DivModIs DEF c
  <2> QED  BY <1>2, <1>3, <1>4, <2>3 DEF c, N
<1>5. CASE n # ByteBits
  <2>1. -h <= i /\ i < h
    BY <1>1, <1>2, <1>5 DEF IntMin, IntMax
  <2>2. Sext(c, n) = IF c >= h THEN c - N ELSE c
    BY DEF Sext
  <2> HIDE DEF N, h
  <2>3. CASE i < 0
    <3>1. i = (0 - 1) * N + (i + N) /\ i + N \in 0 .. N - 1 /\ 0 - 1 \in Int /\ i + N >= h
      BY <1>1, <1>2, <2>1, <2>3
    <3>2. c = i + N
      BY <1>1, <1>2, <3>1, DivModIs
    <3> HIDE DEF c
    <3> QED  BY <1>1, <1>2, <1>3, <1>5, <2>2, <3>1, <3>2 DEF c, N
  <2>4. CASE i >= 0
    <3>1. i = 0 * N + i /\ i \in 0 .. N - 1
      BY <1>1, <1>2, <2>1, <2>4
    <3>2. c = i
      BY <1>1, <1>2, <3>1, DivModIs
    <3> HIDE DEF c
    <3> QED  BY <1>1, <1>2, <1>3, <1>5, <2>1, <2>2, <3>2 DEF c, N
  <2> QED  BY <1>2, <2>3, <2>4
<1> QED  BY <1>4, <1>5

\* The number an integer becomes has its value.
LEMMA ValueOfInteger ==
  ASSUME NEW v \in Int, -(2 ^ ScAcc) <= v, v <= 2 ^ ScAcc
  PROVE  ValueIs(AccFromI64(v), v)
<1>1. CASE v = 0
  BY <1>1 DEF AccFromI64, ValueIs, Zero
<1>2. CASE v # 0
  <2> DEFINE a == AccFromI64(v)
  <2>1. PICK k \in 0 .. ScAcc + 1 : a.m = v * 2 ^ k /\ a.e = Bias + ScAcc - k
    BY <1>2, IntegerIsAcc
  <2> HIDE DEF a
  <2>2. Bias + ScAcc - a.e = k /\ k >= 0 /\ a.e # 0
    <3>1. k <= ScAcc + 1 /\ ScAcc \in Nat /\ Bias \in Nat /\ ScAcc < Bias /\ k \in Nat
      BY DauWidths
    <3>2. Bias + ScAcc - (Bias + ScAcc - k) = k
      BY <3>1
    <3>3. Bias + ScAcc - k >= Bias - 1
      BY <3>1
    <3>4. ScAcc >= 1
      BY DauWidths
    <3> QED  BY <2>1, <3>1, <3>2, <3>3, <3>4
  <2>3. a.m = v * 2 ^ (Bias + ScAcc - a.e)
    BY <2>1, <2>2
  <2> QED  BY <2>2, <2>3 DEF ValueIs, a
<1> QED  BY <1>1, <1>2

-----------------------------------------------------------------------------
(* The two instructions an integer goes through *)

OutOf(n) == IF n = ByteBits THEN "oc" ELSE IF n = HalfBits THEN "int16" ELSE "int32"
Into(n)  == IF n = ByteBits THEN "ic" ELSE IF n = HalfBits THEN "float16" ELSE "float32"

LEMMA IntegerProgram ==
  ASSUME NEW n \in IntWidths, NEW y, NEW z
  PROVE  ThroughInteger(n, y, z) = <<Special(OutOf(n), 1, Acc(0), z), Special(Into(n), 1, y, NoZ)>>
<1>1. ByteBits # HalfBits /\ HalfBits # IntBits /\ ByteBits # IntBits
  BY WidthAssumption, DauWidths
<1> QED  BY <1>1, Zenon DEF ThroughInteger, OutOf, Into, IntWidths

\* The lane an integer is left in, and the word it is stored as.
IntegerLane(n, i, x) == IntLane(IF n = IntBits THEN i ELSE ToTop(i, n), x)

LEMMA LaneCarries ==
  ASSUME NEW n \in IntWidths, NEW x, IsAcc(x), NEW mode \in 0..3
  PROVE  LET i == AccToInt(x, mode, n) IN TopBits(LaneOf(IntegerLane(n, i, x)), n) = i % 2 ^ n
<1> DEFINE i == AccToInt(x, mode, n)
           v == IF n = IntBits THEN i ELSE ToTop(i, n)
           N == 2 ^ n
<1>1. i \in IntMin(n)..IntMax(n) /\ i \in Int
  BY ToIntRange, DauWidths DEF IsAcc
<1>2. N \in Nat \ {0} /\ n \in 1..IntBits
  BY IntUnits
<1>3. v \in Int /\ -(2 ^ ScAcc) <= v /\ v < 2 ^ ScAcc
  <2>1. CASE n = IntBits
    <3>1. 2 ^ (IntBits - 1) = 2 ^ ScAcc /\ 2 ^ ScAcc \in Nat /\ IntBits # ByteBits
      BY Units, WidthAssumption, DauWidths
    <3> HIDE DEF i
    <3>2. -(2 ^ ScAcc) <= i /\ i <= 2 ^ ScAcc - 1
      BY <1>1, <2>1, <3>1 DEF IntMin, IntMax
    <3> QED  BY <1>1, <2>1, <3>1, <3>2
  <2>2. CASE n # IntBits
    <3> HIDE DEF i
    <3> QED  BY <1>1, <1>2, <2>2, ToTopRange
  <2> QED  BY <2>1, <2>2
<1>4. LaneOf(IntegerLane(n, i, x)) = IF x.e = 0 THEN 0 ELSE v
  <2> HIDE DEF i
  <2> QED  BY <1>3, LaneReads DEF IntegerLane
<1>5. TopBits(v, n) = i % N
  <2> HIDE DEF i
  <2> QED  BY <1>1, TopOfTop, WholeLane
<1>6. CASE x.e = 0
  <2>1. i = 0
    BY <1>6 DEF AccToInt
  <2>2. TopBits(0, n) = 0
    <3>1. 2 ^ IntBits \in Nat \ {0} /\ 2 ^ (IntBits - n) \in Nat \ {0}
      <4>1. IntBits - n \in 0 .. 4 * IntBits /\ IntBits \in 0 .. 4 * IntBits
        BY <1>2, DauWidths
      <4> QED  BY <4>1, PowersRise
    <3> DEFINE L == 2 ^ IntBits
               s == 2 ^ (IntBits - n)
    <3>2. TopBits(0, n) = (0 % L) \div s
      BY DEF TopBits
    <3> HIDE DEF L, s
    <3>3. 0 % L = 0
      BY <3>1 DEF L
    <3>4. 0 \div s = 0
      BY <3>1 DEF s
    <3> QED  BY <3>2, <3>3, <3>4
  <2>3. 0 % N = 0
    <3> HIDE DEF N
    <3> QED  BY <1>2
  <2> QED  BY <1>4, <1>6, <2>1, <2>2, <2>3
<1> QED  BY <1>4, <1>5, <1>6

\* Integer functions leave dauc as it is; those that yield an integer leave
\* the flags too.
LEMMA FlagsDauc ==
  ASSUME NEW t, Shape(t), NEW a
  PROVE  LET fl == DaFlags(t, a, FALSE) IN
         fl.res = a /\ Shape(fl.t) /\ fl.t.dauc = t.dauc /\ fl.t.raised = t.raised /\ fl.t.a = t.a
<1> DEFINE f == [N |-> Negative(a), Z |-> a.e = 0, U |-> FALSE /\ TooSmall(a), V |-> FALSE /\ OutOfRange(a)]
           u == WithFlags(t, f)
<1>1. DaFlags(t, a, FALSE).res = a
  BY DEF DaFlags
<1>2. DaFlags(t, a, FALSE).t = IF f.U \/ f.V THEN Raise(u, UV) ELSE u
  BY DEF DaFlags
<1>3. ~f.U /\ ~f.V
  OBVIOUS
<1> HIDE DEF f
<1>4. Shape(u) /\ u.dauc = t.dauc /\ u.raised = t.raised /\ u.a = t.a
  BY SMT DEF WithFlags, Shape, StateFields
<1> HIDE DEF u
<1>5. DaFlags(t, a, FALSE).t = u
  BY <1>2, <1>3, Zenon
<1> QED  BY <1>1, <1>4, <1>5, Zenon

LEMMA IntegerOut ==
  ASSUME NEW t, Typing(t), NEW n \in IntWidths, n = ByteBits => t.dauc.out = "linear",
         NEW z, NEW Y, NEW x, DaAdder(Y) = x, IsAcc(x)
  PROVE  LET c == Conversion(t, Special(OutOf(n), 1, Acc(0), z), Y)
             i == AccToInt(x, t.dauc.rnd, n)
         IN  c.t = t /\ c.res = IntegerLane(n, i, x) /\ c.z = i % 2 ^ n
<1> DEFINE w == Special(OutOf(n), 1, Acc(0), z)
           i == AccToInt(x, t.dauc.rnd, n)
           c == Conversion(t, w, Y)
<1>1. ByteBits # HalfBits /\ HalfBits # IntBits /\ ByteBits # IntBits
  BY WidthAssumption, DauWidths
<1>2. w.g = OutOf(n)
  BY DEF Special
<1>3. i \in IntMin(n)..IntMax(n)
  BY ToIntRange, DauWidths DEF IsAcc, Typing
<1> HIDE DEF w
<1>4. CASE n = ByteBits
  <2>1. w.g = "oc" /\ OcCode(t, x) = i /\ n # IntBits
    BY <1>1, <1>2, <1>4 DEF OutOf, OcCode
  <2>2. c = [res |-> IntLane(ToTop(OcCode(t, x), ByteBits), x), t |-> t, z |-> OcCode(t, x)]
    BY <2>1 DEF Conversion
  <2> HIDE DEF c, i
  <2>3. i % 2 ^ n = i
    BY <1>3, <1>4, SignedCode
  <2> QED  BY <1>4, <2>1, <2>2, <2>3 DEF IntegerLane, c, w, i
<1>5. CASE n = HalfBits
  <2>1. w.g = "int16" /\ n # IntBits
    BY <1>1, <1>2, <1>5 DEF OutOf
  <2>2. c = [res |-> IntLane(ToTop(i, HalfBits), x), t |-> t, z |-> i % 2 ^ HalfBits]
    BY <1>5, <2>1 DEF Conversion
  <2> HIDE DEF c, i
  <2> QED  BY <1>5, <2>1, <2>2 DEF IntegerLane, c, w, i
<1>6. CASE n = IntBits
  <2>1. w.g = "int32"
    BY <1>1, <1>2, <1>6 DEF OutOf
  <2>2. c = [res |-> IntLane(i, x), t |-> t, z |-> i % 2 ^ IntBits]
    BY <1>6, <2>1 DEF Conversion
  <2> HIDE DEF c, i
  <2> QED  BY <1>6, <2>2 DEF IntegerLane, c, w, i
<1> QED  BY <1>4, <1>5, <1>6 DEF IntWidths

LEMMA IntegerIn ==
  ASSUME NEW t, Typing(t), NEW n \in IntWidths, n = ByteBits => t.dauc.inp = "linear",
         NEW y, NEW z, NEW Y, NEW i \in IntMin(n)..IntMax(n), IntOperand(Y, n) = i % 2 ^ n
  PROVE  LET c == Conversion(t, Special(Into(n), 1, y, z), Y) IN
         /\ c.res = AccFromI64(i) /\ Shape(c.t)
         /\ c.t.dauc = t.dauc /\ c.t.raised = t.raised /\ c.t.a = t.a
<1> DEFINE w == Special(Into(n), 1, y, z)
           c == Conversion(t, w, Y)
           fl == DaFlags(t, AccFromI64(i), FALSE)
<1>1. ByteBits # HalfBits /\ HalfBits # IntBits /\ ByteBits # IntBits
  BY WidthAssumption, DauWidths
<1>2. w.g = Into(n)
  BY DEF Special
<1> HIDE DEF w
<1>3. c = [res |-> fl.res, t |-> fl.t, z |-> AccPack(fl.res)]
  <2>1. CASE n = ByteBits
    <3>1. w.g = "ic" /\ IntOperand(Y, ByteBits) = i
      BY <1>2, <2>1, SignedCode DEF Into
    <3>2. IcValue(t, IntOperand(Y, ByteBits)) = AccFromI64(i)
      BY <2>1, <3>1 DEF IcValue
    <3> QED  BY <3>1, <3>2 DEF Conversion
  <2>2. CASE n = HalfBits
    <3>1. w.g = "float16" /\ SignedOperand(Y, HalfBits) = i
      BY <1>1, <1>2, <2>2, SignedCode DEF Into, SignedOperand
    <3> QED  BY <3>1 DEF Conversion
  <2>3. CASE n = IntBits
    <3>1. w.g = "float32" /\ SignedOperand(Y, IntBits) = i
      BY <1>1, <1>2, <2>3, SignedCode DEF Into, SignedOperand
    <3> QED  BY <3>1 DEF Conversion
  <2> QED  BY <2>1, <2>2, <2>3 DEF IntWidths
<1> HIDE DEF fl, c
<1>4. c.res = fl.res /\ c.t = fl.t
  BY <1>3
<1>5. /\ fl.res = AccFromI64(i) /\ Shape(fl.t)
      /\ fl.t.dauc = t.dauc /\ fl.t.raised = t.raised /\ fl.t.a = t.a
  <2>1. Shape(t)
    BY DEF Typing
  <2> QED  BY <2>1, FlagsDauc, Zenon DEF fl
<1> QED  BY <1>4, <1>5 DEF c, w

LEMMA DaucKept ==
  /\ \A t : Shape(t) => LatencyTick(t).dauc = t.dauc
  /\ \A t, vn : Shape(t) => Raise(t, vn).dauc = t.dauc
  /\ \A t, p, i, size : Shape(t) => DaPostmod(t, p, i, size).dauc = t.dauc
  /\ \A t, f, size : Shape(t) => DaReadMoves(t, f, size).dauc = t.dauc
<1>1. \A t : Shape(t) => LatencyTick(t).dauc = t.dauc
  BY SMT DEF LatencyTick, Shape, StateFields
<1>2. \A t, vn : Shape(t) => Raise(t, vn).dauc = t.dauc
  BY SMT DEF Raise, Shape, StateFields
<1>3. \A t, p, i, size : Shape(t) => DaPostmod(t, p, i, size).dauc = t.dauc
  BY SMT DEF DaPostmod, Shape, StateFields
<1> QED  BY <1>1, <1>2, <1>3 DEF DaReadMoves

\* The end of an instruction whose Z field is none, or register 1 left as it is.
LEMMA Finished ==
  ASSUME NEW t, Shape(t), RegsTyped(t), 1 \in AccNo, NEW r, DOMAIN t.a = AccNo,
         NEW z \in {NoZ, At(1)}, z = At(1) => 1 \in RegNo, NEW Y, NEW size, NEW v,
         BUSERR \notin Finish(t, 1, r, z, Y, size, v).raised
  PROVE  LET u == Finish(t, 1, r, z, Y, size, v) IN
         /\ u.a[1] = r /\ u.dauc = t.dauc
         /\ z = At(1) => u.mem[u.r[1]] = v
<1> DEFINE b == [t EXCEPT !.a[1] = r]
           m == [b EXCEPT !.mem[b.r[1]] = v]
           u == Finish(t, 1, r, z, Y, size, v)
<1>1. Shape(b) /\ b.a[1] = r /\ b.r = t.r /\ b.dauc = t.dauc
  BY SMT DEF Shape, StateFields
<1>2. u = DaStoreZ(b, z, Y, size, v)
  BY DEF Finish
<1> HIDE DEF b, u
<1>3. CASE z = NoZ
  <2>1. ~DaZWrites(z, Y) /\ z # At(1)
    BY <1>3 DEF DaZWrites, NoZ, At
  <2>2. u = b
    BY <1>2, <2>1 DEF DaStoreZ
  <2> QED  BY <1>1, <2>1, <2>2 DEF u
<1>4. CASE z = At(1)
  <2>1. DaZWrites(z, Y) /\ ZAddr(b, z, Y) = b.r[1] /\ ZReg(z, Y) = 1 /\ z.i = 0
    BY <1>4 DEF DaZWrites, At, ZAddr, ZReg
  <2>2. Raise(b, BUSERR).raised = b.raised \cup {BUSERR}
    BY <1>1, RaiseKeeps
  <2>3. Mapped(b, b.r[1])
    BY <1>2, <2>1, <2>2 DEF DaStoreZ, u
  <2>4. u = DaPostmod(m, 1, 0, size)
    BY <1>2, <2>1, <2>3 DEF DaStoreZ
  <2>5. Shape(m) /\ m.a = b.a /\ m.r = b.r /\ m.dauc = b.dauc /\ m.mem[b.r[1]] = v
    BY <1>1, <2>3, SMT DEF Shape, StateFields, Mapped
  <2> HIDE DEF m
  <2>6. u.a = m.a /\ u.mem = m.mem /\ u.dauc = m.dauc
    BY <2>4, <2>5, PostmodKeeps, DaucKept
  <2>7. m.r[1] \in Int /\ 0 <= m.r[1] /\ m.r[1] < 2 * LongH /\ LongH \in Nat \ {0}
    BY <1>1, <1>4, <2>5, Widths DEF RegsTyped, LongWord
  <2>8. Low(m.r[1] + 0, LongH) = m.r[1]
    <3> DEFINE x == m.r[1]
               L == 2 * LongH
    <3>1. x \in Int /\ x = 0 * L + x /\ L \in Nat \ {0} /\ x \in 0 .. L - 1
      BY <2>7
    <3> HIDE DEF x, L
    <3>2. x % L = x /\ x + 0 = x
      BY <3>1, DivModIs
    <3> QED  BY <3>2 DEF Low, x, L
  <2>9. u.r[1] = m.r[1]
    <3>1. u = [m EXCEPT !.r[1] = Low(@ + 0, LongH)]
      BY <2>4 DEF DaPostmod
    <3>2. u.r[1] = Low(m.r[1] + 0, LongH)
      BY <1>4, <2>5, <3>1, SMT DEF Shape, StateFields
    <3> QED  BY <2>8, <3>2
  <2> QED  BY <1>1, <2>5, <2>6, <2>9 DEF u
<1> QED  BY <1>3, <1>4

\* The first of the two instructions leaves the integer, where it has been asked for.
LEMMA IntegerLeft ==
  ASSUME NEW s0, NEW n \in IntWidths, NEW z \in {NoZ, At(1)},
         Ready(s0, Special(OutOf(n), 1, Acc(0), z)), n = ByteBits => s0.dauc.out = "linear",
         BUSERR \notin Executed(s0, Special(OutOf(n), 1, Acc(0), z)).raised
  PROVE  LET s1 == Executed(s0, Special(OutOf(n), 1, Acc(0), z))
             i  == AccToInt(s0.a[0], s0.dauc.rnd, n)
         IN  /\ IsAcc(s0.a[0]) /\ s0.dauc.rnd \in 0..3
             /\ s1.a[1] = IntegerLane(n, i, s0.a[0]) /\ s1.dauc = s0.dauc
             /\ z = At(1) => s1.mem[s1.r[1]] = i % 2 ^ n
<1> DEFINE w == Special(OutOf(n), 1, Acc(0), z)
           s1 == Executed(s0, w)
           x == s0.a[0]
           i == AccToInt(x, s0.dauc.rnd, n)
           t == LatencyTick(s0)
           Y == DaRead(t, Acc(0))
           c == Conversion(t, w, Y)
<1>1. w.op = "special" /\ w.g = OutOf(n) /\ w.n = 1 /\ w.y = Acc(0) /\ w.z = z
  BY DEF Special
<1>2. Typing(s0) /\ RegsTyped(s0) /\ 0 \in AccNo /\ 1 \in AccNo /\ (z = At(1) => 1 \in RegNo)
  <2>1. WellFormed(w) /\ Typing(s0) /\ RegsTyped(s0)
    BY DEF Ready
  <2> HIDE DEF w
  <2>2. Operand(Acc(0)) /\ Target(z) /\ 1 \in AccNo
    BY <1>1, <2>1 DEF WellFormed
  <2> QED  BY <2>1, <2>2 DEF Operand, Target, Acc, At, FromAcc
<1>3. IsAcc(x) /\ s0.dauc.rnd \in 0..3
  BY <1>2 DEF Typing
<1>4. /\ t.a = s0.a /\ t.r = s0.r /\ Typing(t) /\ t.dauc = s0.dauc /\ t.raised = {}
  BY <1>2, TickKeeps, TickTyping, DaucKept DEF Typing, Kept
<1> HIDE DEF t
<1>5. DaAdder(Y) = x
  BY <1>4 DEF DaRead, DaAdder, FromAcc, Acc
<1>6. ~DaReadFaults(t, Acc(0)) /\ \A k : DaReadMoves(t, Acc(0), k) = t
  BY DEF DaReadFaults, DaReadMoves, FromAcc, Acc
<1> HIDE DEF Y
<1>7. c.t = t /\ c.res = IntegerLane(n, i, x) /\ c.z = i % 2 ^ n
  BY <1>3, <1>4, <1>5, IntegerOut
<1> HIDE DEF w, c, i
<1>8. s1 = Finish(t, 1, c.res, z, Y, StoreSize(w.g), c.z)
  <2>1. s1 = ExecDaSpecial(t, w)
    BY <1>1 DEF Executed, ExecInsn, t
  <2>2. ~Withheld(t, w)
    BY <1>1 DEF Withheld, OutOf
  <2> HIDE DEF s1
  <2> QED  BY <1>1, <1>6, <1>7, <2>1, <2>2 DEF ExecDaSpecial, Y, c
<1>9. RegsTyped(t)
  BY <1>2, <1>4 DEF RegsTyped
<1>10. BUSERR \notin s1.raised
  BY DEF w
<1> HIDE DEF s1
<1>11. s1.a[1] = c.res /\ s1.dauc = t.dauc /\ (z = At(1) => s1.mem[s1.r[1]] = c.z)
  BY <1>2, <1>4, <1>8, <1>9, <1>10, Finished DEF Typing
<1> QED  BY <1>3, <1>4, <1>7, <1>11 DEF s1, w, i

\* The second takes it from there.
LEMMA IntegerTaken ==
  ASSUME NEW s1, NEW n \in IntWidths, NEW y, NEW i \in IntMin(n)..IntMax(n),
         Ready(s1, Special(Into(n), 1, y, NoZ)), n = ByteBits => s1.dauc.inp = "linear",
         \/ y = Acc(1) /\ TopBits(LaneOf(s1.a[1]), n) = i % 2 ^ n
         \/ y = At(1) /\ s1.mem[s1.r[1]] = i % 2 ^ n,
         BUSERR \notin Executed(s1, Special(Into(n), 1, y, NoZ)).raised
  PROVE  LET s2 == Executed(s1, Special(Into(n), 1, y, NoZ)) IN
         s2.a[1] = AccFromI64(i) /\ s2.dauc = s1.dauc
<1> DEFINE w == Special(Into(n), 1, y, NoZ)
           s2 == Executed(s1, w)
           t == LatencyTick(s1)
           Y == DaRead(t, y)
           t1 == DaReadMoves(t, y, ReadSize(w.g))
           c == Conversion(t1, w, Y)
<1>1. w.op = "special" /\ w.g = Into(n) /\ w.n = 1 /\ w.y = y /\ w.z = NoZ
  BY DEF Special
<1>2. Typing(s1) /\ RegsTyped(s1) /\ 1 \in AccNo
  <2>1. WellFormed(w) /\ Typing(s1) /\ RegsTyped(s1)
    BY DEF Ready
  <2> HIDE DEF w
  <2> QED  BY <1>1, <2>1 DEF WellFormed
<1>3. t.a = s1.a /\ t.r = s1.r /\ t.mem = s1.mem /\ Typing(t) /\ t.dauc = s1.dauc /\ t.raised = {}
  BY <1>2, TickKeeps, TickTyping, DaucKept DEF Typing, Kept
<1> HIDE DEF t
<1>4. IntOperand(Y, n) = i % 2 ^ n
  <2>1. CASE y = Acc(1) /\ TopBits(LaneOf(s1.a[1]), n) = i % 2 ^ n
    <3>1. Y.acc = TRUE /\ Y.val = s1.a[1]
      BY <1>3, <2>1 DEF DaRead, FromAcc, Acc
    <3> HIDE DEF Y
    <3> QED  BY <2>1, <3>1 DEF IntOperand
  <2>2. CASE y = At(1) /\ s1.mem[s1.r[1]] = i % 2 ^ n
    <3>1. ~FromAcc(y) /\ y.p = 1
      BY <2>2 DEF FromAcc, At
    <3>2. Y.acc = FALSE /\ Y.raw = s1.mem[s1.r[1]]
      BY <1>3, <3>1 DEF DaRead
    <3> HIDE DEF Y
    <3> QED  BY <2>2, <3>2 DEF IntOperand
  <2> QED  BY <2>1, <2>2
<1>5. Typing(t1) /\ t1.dauc = t.dauc
  <2>1. Shape(t)
    BY <1>3 DEF Typing
  <2> QED  BY <1>3, <2>1, ReadMovesTyping, DaucKept
<1> HIDE DEF t1, Y
<1>6. /\ c.res = AccFromI64(i) /\ Shape(c.t)
      /\ c.t.dauc = t1.dauc /\ c.t.a = t1.a
  BY <1>3, <1>4, <1>5, IntegerIn
<1>7. s2 = ExecDaSpecial(t, w)
  BY <1>1 DEF Executed, ExecInsn, t
<1>8. ~Withheld(t1, w)
  BY <1>1 DEF Withheld, Into
<1>9. BUSERR \notin s2.raised
  OBVIOUS
<1> HIDE DEF w, c, s2
<1>10. ~DaReadFaults(t, y)
  <2>1. Raise(t, BUSERR).raised = t.raised \cup {BUSERR}
    BY <1>3, RaiseKeeps DEF Typing
  <2> QED  BY <1>1, <1>7, <1>9, <2>1 DEF ExecDaSpecial
<1>11. s2 = [c.t EXCEPT !.a[1] = c.res]
  <2>1. s2 = Finish(c.t, 1, c.res, NoZ, Y, StoreSize(w.g), c.z)
    BY <1>1, <1>7, <1>8, <1>10 DEF ExecDaSpecial, Y, t1, c
  <2>2. ~DaZWrites(NoZ, Y)
    BY DEF DaZWrites, NoZ
  <2> QED  BY <2>1, <2>2 DEF Finish, DaStoreZ
<1>12. DOMAIN c.t.a = AccNo
  BY <1>5, <1>6 DEF Typing
<1>13. s2.a[1] = c.res /\ s2.dauc = c.t.dauc
  BY <1>2, <1>6, <1>11, <1>12, SMT DEF Shape, StateFields
<1> QED  BY <1>3, <1>5, <1>6, <1>13 DEF s2, w

\* dauc is the program's to change, and these instructions do not.
LEMMA IntegerDauc ==
  ASSUME NEW s, Typing(s), NEW w, w.op = "special",
         w.g \in {"ic", "oc", "float16", "float32", "int16", "int32"}
  PROVE  Executed(s, w).dauc = s.dauc
<1> DEFINE t  == LatencyTick(s)
           Y  == DaRead(t, w.y)
           t1 == DaReadMoves(t, w.y, ReadSize(w.g))
           c  == Conversion(t1, w, Y)
           b  == [c.t EXCEPT !.a[w.n] = c.res]
           m  == [b EXCEPT !.mem[ZAddr(b, w.z, Y)] = c.z]
           size == StoreSize(w.g)
           u  == Executed(s, w)
<1>1. Typing(t) /\ Shape(t) /\ t.dauc = s.dauc
  BY TickTyping, DaucKept DEF Typing
<1> HIDE DEF t
<1>2. Typing(t1) /\ Shape(t1) /\ t1.dauc = t.dauc
  BY <1>1, ReadMovesTyping, DaucKept DEF Typing
<1> HIDE DEF t1, Y
<1>3. c.t = t1 \/ \E a : c.t = DaFlags(t1, a, FALSE).t
  <2>1. CASE w.g \in {"oc", "int16", "int32"}
    BY <2>1 DEF Conversion
  <2>2. CASE w.g = "ic"
    BY <2>2 DEF Conversion
  <2>3. CASE w.g = "float16"
    BY <2>3 DEF Conversion
  <2>4. CASE w.g = "float32"
    BY <2>4 DEF Conversion
  <2> QED  BY <2>1, <2>2, <2>3, <2>4
<1> HIDE DEF c
<1>4. Shape(c.t) /\ c.t.dauc = t1.dauc
  <2>1. \A a : Shape(DaFlags(t1, a, FALSE).t) /\ DaFlags(t1, a, FALSE).t.dauc = t1.dauc
    BY <1>2, FlagsDauc, Zenon
  <2> QED  BY <1>2, <1>3, <2>1, Zenon
<1>5. Shape(b) /\ b.dauc = c.t.dauc
  BY <1>4, SMT DEF Shape, StateFields
<1> HIDE DEF b
<1>6. Shape(m) /\ m.dauc = b.dauc
  BY <1>5, SMT DEF Shape, StateFields
<1> HIDE DEF m
<1>7. u \in {Raise(t, BUSERR), b, Raise(b, BUSERR), DaPostmod(m, ZReg(w.z, Y), w.z.i, size),
             DaPostmod(b, ZReg(w.z, Y), w.z.i, size)}
  <2>1. u = ExecDaSpecial(t, w)
    BY DEF Executed, ExecInsn, t
  <2> HIDE DEF u, size
  <2>2. DaStoreZ(b, w.z, Y, size, c.z) \in {b, Raise(b, BUSERR), DaPostmod(m, ZReg(w.z, Y), w.z.i, size)}
    BY Zenon DEF DaStoreZ, m
  <2>3. DaPostmodOnly(b, w.z, Y, size) \in {b, DaPostmod(b, ZReg(w.z, Y), w.z.i, size)}
    BY Zenon DEF DaPostmodOnly
  <2>4. u \in {Raise(t, BUSERR), DaStoreZ(b, w.z, Y, size, c.z), DaPostmodOnly(b, w.z, Y, size)}
    BY <2>1, Zenon DEF ExecDaSpecial, Finish, Y, t1, c, b, size
  <2> QED  BY <2>2, <2>3, <2>4
<1> HIDE DEF u
<1>8. u.dauc = s.dauc
  BY <1>1, <1>2, <1>4, <1>5, <1>6, <1>7, DaucKept
<1> QED  BY <1>8 DEF u

\* int32 and float32, int16 and float16, and linear oc and ic, are inverse to
\* each other up to rounding and saturation, through memory and through an
\* accumulator's lane, for every number, width and rounding mode
\* (acc_to_int, acc_from_i64, acc_int_lane, da_read_int).
THEOREM IntegersComeBack == Spec /\ []Typed => []IntegersRoundTrip
<1>1. ASSUME Inv3 PROVE IntegersRoundTrip
  <2> SUFFICES ASSUME NEW n \in IntWidths, NEW y, NEW z,
                      (y = Acc(1) /\ z = NoZ) \/ (y = At(1) /\ z = At(1)),
                      Ran(ThroughInteger(n, y, z)),
                      n = ByteBits => d.dauc.inp = "linear" /\ d.dauc.out = "linear"
               PROVE  LET x    == start[1].a[0]
                          k    == Bias + ScAcc - x.e
                          unit == 2 ^ Higher(k, 0)
                          num  == IF x.e = 0 THEN 0 ELSE x.m * 2 ^ Higher(-k, 0)
                      IN  \E i \in IntMin(n)..IntMax(n) :
                            /\ ValueIs(d.a[1], i)
                            /\ \/ RoundsTo(num, unit, d.dauc.rnd, i)
                               \/ i = IntMax(n) /\ num > i * unit
                               \/ i = IntMin(n) /\ num < i * unit
    BY Zenon DEF IntegersRoundTrip, IntWidths
  <2> DEFINE s0 == start[1]
             v  == Special(OutOf(n), 1, Acc(0), z)
             w  == Special(Into(n), 1, y, NoZ)
             s1 == Executed(s0, v)
             x  == s0.a[0]
             i  == AccToInt(x, s0.dauc.rnd, n)
             k    == Bias + ScAcc - x.e
             unit == 2 ^ Higher(k, 0)
             num  == IF x.e = 0 THEN 0 ELSE x.m * 2 ^ Higher(-k, 0)
  <2>1. Ran(<<v, w>>)
    BY IntegerProgram
  <2>2. /\ d = Executed(s1, w) /\ BUSERR \notin s1.raised /\ BUSERR \notin d.raised
        /\ Ready(s0, v) /\ Ready(s1, w)
    BY <1>1, <2>1, RanTwo
  <2>3. d.dauc = s1.dauc /\ s1.dauc = s0.dauc
    <3>1. v.op = "special" /\ v.g \in {"oc", "int16", "int32"} /\ w.op = "special"
          /\ w.g \in {"ic", "float16", "float32"}
      BY DEF Special, OutOf, Into
    <3>2. Typing(s0) /\ Typing(s1)
      BY <2>2 DEF Ready
    <3> HIDE DEF v, w
    <3>3. Executed(s0, v).dauc = s0.dauc
      BY <3>1, <3>2, IntegerDauc
    <3> HIDE DEF s1
    <3>4. Executed(s1, w).dauc = s1.dauc
      BY <3>1, <3>2, IntegerDauc
    <3> QED  BY <2>2, <3>3, <3>4 DEF s1
  <2>4. z \in {NoZ, At(1)} /\ (z = NoZ => y = Acc(1)) /\ (y = At(1) => z = At(1)) /\ y \in {Acc(1), At(1)}
    <3>1. NoZ.p # At(1).p /\ Acc(1).p # At(1).p
      BY DEF NoZ, At, Acc
    <3>2. NoZ # At(1) /\ Acc(1) # At(1)
      BY <3>1, Zenon
    <3> QED  BY <3>2, Zenon
  <2>5. /\ IsAcc(x) /\ s0.dauc.rnd \in 0..3
        /\ s1.a[1] = IntegerLane(n, i, x)
        /\ z = At(1) => s1.mem[s1.r[1]] = i % 2 ^ n
    BY <2>2, <2>3, <2>4, IntegerLeft
  <2> HIDE DEF s1
  <2>6. \/ y = Acc(1) /\ TopBits(LaneOf(s1.a[1]), n) = i % 2 ^ n
        \/ y = At(1) /\ s1.mem[s1.r[1]] = i % 2 ^ n
    <3>1. TopBits(LaneOf(IntegerLane(n, i, x)), n) = i % 2 ^ n
      BY <2>5, LaneCarries
    <3> HIDE DEF i
    <3> QED  BY <2>4, <2>5, <3>1
  <2>7. i \in IntMin(n)..IntMax(n) /\ i \in Int
    BY <2>5, ToIntRange, DauWidths DEF IsAcc
  <2>8. Judged(num, unit, s0.dauc.rnd, n, i)
    BY <2>5, ToIntRounds
  <2> HIDE DEF i, num, unit
  <2>9. d.a[1] = AccFromI64(i)
    <3>1. n = ByteBits => s1.dauc.inp = "linear"
      BY <2>3
    <3>2. BUSERR \notin Executed(s1, w).raised
      BY <2>2, Zenon
    <3>3. Ready(s1, w)
      BY <2>2, Zenon
    <3>4. Executed(s1, w).a[1] = AccFromI64(i)
      BY ONLY n \in IntWidths, <2>6, <2>7, <3>1, <3>2, <3>3, IntegerTaken, Zenon
    <3> QED  BY <2>2, <3>4, Zenon
  <2>10. ValueIs(AccFromI64(i), i)
    <3>1. -(2 ^ ScAcc) <= i /\ i <= 2 ^ ScAcc
      <4> DEFINE N == 2 ^ n
                 h == 2 ^ (n - 1)
                 H == 2 ^ ScAcc
      <4>1. h \in Nat /\ N = 2 * h /\ h <= H /\ H \in Nat
        BY IntUnits, Units
      <4>2. n = ByteBits => N <= H
        <5>1. ASSUME n = ByteBits PROVE n \in 0 .. 4 * IntBits /\ ScAcc \in 0 .. 4 * IntBits /\ n <= ScAcc
          BY <5>1, WidthAssumption, DauWidths
        <5> QED  BY <5>1, PowersRise
      <4>3. n = ByteBits => 0 <= i /\ i <= N - 1
        BY <2>7 DEF IntMin, IntMax
      <4>4. n # ByteBits => -h <= i /\ i <= h - 1
        BY <2>7 DEF IntMin, IntMax
      <4> HIDE DEF N, h, H
      <4>5. -H <= i /\ i <= H
        BY <2>7, <4>1, <4>2, <4>3, <4>4
      <4> QED  BY <4>5 DEF H
    <3> QED  BY <2>7, <3>1, ValueOfInteger
  <2> QED  BY <2>3, <2>7, <2>8, <2>9, <2>10 DEF Judged, num, unit
<1> QED  BY <1>1, InitWay, StepWay, PTL DEF Spec

-----------------------------------------------------------------------------
(* Multiply/accumulates against the exact sum of their terms *)

LEMMA FarWidths ==
  /\ Bias \in Nat /\ ScMul \in Nat /\ MaxExp = 2 * Bias - 1
  /\ FarExp = 3 * Bias + ScMul /\ FarExp \in Nat /\ Bias >= 3 /\ ScMul >= 2 /\ ScMul + 2 <= 2 * Bias
  /\ Reach \in Nat /\ ScMul + 2 <= Reach /\ Reach <= FarExp
<1>1. /\ CodeBits \in Nat /\ ByteBits \in Nat /\ CodeBits < ByteBits /\ 2 * ByteBits <= IntBits
      /\ CodeBits + 2 ^ (ByteBits - 1 - CodeBits) < ScAcc /\ Reach \in 2 * FracBits + 2 .. 3 * IntBits
  BY WidthAssumption
<1>2. ByteBits - 1 - CodeBits \in 0 .. 4 * IntBits
  BY <1>1, DauWidths
<1>3. 2 ^ (ByteBits - 1 - CodeBits) \in Nat \ {0}
  BY <1>2, PowersRise
<1>4. ScAcc >= 2
  BY <1>1, <1>3, DauWidths
<1> QED  BY <1>1, <1>4, DauWidths DEF FarExp

\* Where a mantissa lies, by the shift that normalises it.
LEMMA PlaceOf ==
  ASSUME NEW m \in Int \ {0}, NEW k \in -(ScMul + 4) .. ScMul + 1, Normal(Scaled(m, k), ScMul)
  PROVE  LET b == ScMul + 1 - k IN
         /\ b \in 0..FarExp
         /\ m > 0 => b > 0 /\ 2 ^ (b - 1) <= m /\ m < 2 ^ b
         /\ m < 0 => -(2 ^ b) <= m /\ (b > 0 => m < -(2 ^ (b - 1)))
<1> DEFINE H == 2 ^ ScMul
           b == ScMul + 1 - k
           n == Scaled(m, k)
           p == 2 ^ (b - 1)
           q == 2 ^ b
<1>1. b \in 0..FarExp /\ b \in Int /\ k \in Int
  BY FarWidths
<1>2. H \in Nat \ {0} /\ n \in Int /\ ((H <= n /\ n < 2 * H) \/ (-(2 * H) <= n /\ n < -H))
      /\ 2 ^ (ScMul + 1) = 2 * H
  BY NormalMeans DEF Scales
<1>3. q \in Nat \ {0} /\ (b > 0 => p \in Nat \ {0} /\ q = 2 * p)
  <2>1. q \in Nat \ {0}
    BY <1>1, FarRise
  <2>2. ASSUME b > 0 PROVE p \in Nat \ {0} /\ q = 2 * p
    <3>1. b - 1 \in 0..FarExp /\ b - (b - 1) = 1
      BY <1>1, <2>2, FarWidths
    <3>2. p \in Nat \ {0} /\ q = 2 ^ (b - (b - 1)) * p
      BY <1>1, <3>1, FarRise
    <3>3. 2 ^ 1 = 2
      OBVIOUS
    <3> QED  BY <3>1, <3>2, <3>3
  <2> QED  BY <2>1, <2>2
<1>4. CASE b = 0
  <2>1. k = ScMul + 1 /\ k >= 0
    BY <1>1, <1>4, FarWidths
  <2>2. n = m * (2 * H)
    BY <1>2, <2>1 DEF Scaled
  <2>3. q = 1
    <3>1. 2 ^ 0 = 1
      OBVIOUS
    <3> HIDE DEF b
    <3> QED  BY <1>4, <3>1
  <2> HIDE DEF H, n, q, p
  <2>4. ~(1 <= m) /\ -1 <= m
    <3> DEFINE K == 2 * H
    <3>1. K \in Nat \ {0} /\ n = m * K /\ -K <= n /\ n < K
      BY <1>2, <2>2
    <3> HIDE DEF K
    <3>2. (1 <= m <=> 1 * K <= m * K) /\ (-1 <= m <=> (-1) * K <= m * K)
      BY <3>1, TimesKeepsOrder
    <3> QED  BY <3>1, <3>2
  <2> QED  BY <1>1, <1>4, <2>3, <2>4 DEF q
<1>5. CASE b > 0
  <2>1. \A c \in Int : (c * H <= n <=> c * p <= m)
    <3> TAKE c \in Int
    <3>1. CASE k >= 0
      <4> DEFINE s == 2 ^ k
      <4>1. n = m * s
        BY <3>1 DEF Scaled
      <4>2. k \in 0..FarExp /\ ScMul \in 0..FarExp /\ k <= ScMul /\ ScMul - k = b - 1
        BY <1>1, <1>5, <3>1, FarWidths
      <4>3. s \in Nat \ {0} /\ H = p * s
        BY <4>2, FarRise
      <4> HIDE DEF s, H, p, n
      <4>4. c * H = (c * p) * s /\ c * p \in Int
        BY <1>3, <1>5, <4>3
      <4> QED  BY <4>1, <4>3, <4>4, TimesKeepsOrder
    <3>2. CASE k < 0
      <4> DEFINE s == 2 ^ (-k)
      <4>1. n = m \div s
        BY <1>1, <3>2 DEF Scaled
      <4>2. ScMul \in 0..FarExp /\ b - 1 \in 0..FarExp /\ ScMul <= b - 1 /\ (b - 1) - ScMul = -k
        BY <1>1, <1>5, <3>2, FarWidths
      <4>3. s \in Nat \ {0} /\ p = s * H
        BY <4>2, FarRise
      <4> HIDE DEF s, H, p, n
      <4>4. c * p = (c * H) * s /\ c * H \in Int
        BY <1>2, <4>3
      <4> QED  BY <4>1, <4>3, <4>4, DivAtLeast
    <3> QED  BY <1>1, <3>1, <3>2
  <2> HIDE DEF n, H, p, q
  <2>2. 1 * H <= n <=> 1 * p <= m
    BY <2>1
  <2>3. 2 * H <= n <=> 2 * p <= m
    BY <2>1
  <2>4. (0 - 1) * H <= n <=> (0 - 1) * p <= m
    BY <2>1
  <2>5. (0 - 2) * H <= n <=> (0 - 2) * p <= m
    BY <2>1
  <2>6. p \in Nat \ {0} /\ q = 2 * p
    BY <1>3, <1>5
  <2>7. IF m > 0 THEN p <= m /\ m < q ELSE -q <= m /\ m < -p
    <3>1. 0 * H <= n <=> 0 * p <= m
      BY <2>1
    <3> QED  BY <1>2, <2>2, <2>3, <2>4, <2>5, <2>6, <3>1
  <2> QED  BY <1>1, <1>5, <2>6, <2>7 DEF p, q
<1> QED  BY <1>1, <1>4, <1>5

\* How a sum compares with a power of two, by its exponent when normalised.
LEMMA LessPlace ==
  ASSUME NEW x \in [m: Int \ {0}, e: Int], NEW k \in -(ScMul + 4) .. ScMul + 1, Normal(Scaled(x.m, k), ScMul),
         NEW j \in Int, j - x.e <= 3 * Bias
  PROVE  /\ Less(x, 1, j) <=> x.m < 0 \/ x.e - k < j
         /\ Less(x, 0 - 1, j) <=> x.m < 0 /\ ~(x.e - k < j)
<1> DEFINE m == x.m
           b == ScMul + 1 - k
           places == x.e - ScMul - j
           p == -places
           q == 2 ^ b
           h == 2 ^ (b - 1)
           r == 2 ^ p
<1>0. m \in Int \ {0} /\ x.e \in Int /\ k \in Int /\ ScMul \in Nat /\ places \in Int
  BY FarWidths
<1>1. /\ b \in 0..FarExp
      /\ m > 0 => b > 0 /\ h <= m /\ m < q
      /\ m < 0 => -q <= m /\ (b > 0 => m < -h)
  BY <1>0, PlaceOf
<1>2. x.e - k < j <=> p >= b
  BY <1>0
<1>3. CASE places > 0
  <2>1. ~(p >= b)
    BY <1>0, <1>1, <1>3
  <2>2. (Less(x, 1, j) <=> 2 * m < 1) /\ (Less(x, 0 - 1, j) <=> 2 * m < 0 - 1)
    BY <1>3 DEF Less
  <2> QED  BY <1>0, <1>2, <2>1, <2>2
<1>4. CASE ~(places > 0)
  <2>1. p \in 0..FarExp
    BY <1>0, <1>4, FarWidths
  <2>2. (Less(x, 1, j) <=> m < 1 * r) /\ (Less(x, 0 - 1, j) <=> m < (0 - 1) * r)
    BY <1>4 DEF Less
  <2>3. r \in Nat \ {0} /\ q \in Nat \ {0}
    BY <1>1, <2>1, FarRise
  <2>4. CASE p >= b
    <3>1. q <= r
      BY <1>1, <2>1, <2>4, FarRise
    <3> HIDE DEF p, q, r, b, h
    <3>2. m > 0 => m < r
      BY <1>0, <1>1, <2>3, <3>1
    <3>3. ~(m < (0 - 1) * r)
      BY <1>0, <1>1, <2>3, <3>1
    <3> QED  BY <1>0, <1>2, <2>2, <2>3, <2>4, <3>2, <3>3
  <2>5. CASE ~(p >= b)
    <3>1. b > 0 /\ b - 1 \in 0..FarExp /\ p <= b - 1
      BY <1>0, <1>1, <2>1, <2>5, FarWidths
    <3>2. r <= h /\ h \in Nat \ {0}
      BY <2>1, <3>1, FarRise
    <3> HIDE DEF p, q, r, b, h
    <3>3. m > 0 => ~(m < r)
      BY <1>0, <1>1, <2>3, <3>2
    <3>4. m < 0 => m < (0 - 1) * r /\ m < r
      BY <1>0, <1>1, <2>3, <3>1, <3>2
    <3>5. m > 0 => ~(m < (0 - 1) * r)
      BY <1>0, <2>3
    <3> QED  BY <1>0, <1>2, <2>2, <2>3, <2>5, <3>3, <3>4, <3>5
  <2> QED  BY <2>4, <2>5
<1> QED  BY <1>3, <1>4

IsTerm(x) ==
  /\ x \in [m: Int, e: 2 - Bias .. 3 * Bias]
  /\ -(4 * 2 ^ ScMul) <= x.m /\ x.m <= 4 * 2 ^ ScMul

TermSum(A, B) ==
  IF A.m = 0 THEN B ELSE IF B.m = 0 THEN A
  ELSE IF A.e >= B.e THEN [m |-> A.m + Aligned(B.m, A.e - B.e), e |-> A.e]
  ELSE [m |-> B.m + Aligned(A.m, B.e - A.e), e |-> B.e]

\* What aligning a term loses, in the term's own units.
LEMMA AlignError ==
  ASSUME NEW l \in Int, -(4 * 2 ^ ScMul) <= l, l <= 4 * 2 ^ ScMul, NEW n \in 0..FarExp
  PROVE  LET D == 2 ^ n
             r == l - Aligned(l, n) * D
         IN  /\ Aligned(l, n) \in Int /\ D \in Nat \ {0} /\ r \in Int /\ -D < r /\ r < D
             /\ n < Reach => 0 <= r
<1> DEFINE D == 2 ^ n
           P == 2 ^ ScMul
           al == Aligned(l, n)
<1>1. D \in Nat \ {0} /\ Reach \in Nat
  BY FarRise, FarWidths
<1>2. CASE n > Reach
  <2>1. al = 0
    BY <1>2 DEF Aligned
  <2>2. 4 * P \in Nat /\ 4 * P < D
    <3>1. ScMul + 2 \in 0..FarExp /\ ScMul \in 0..FarExp /\ ScMul + 2 < n /\ (ScMul + 2) - ScMul = 2
      BY <1>2, FarWidths
    <3>2. ScMul <= ScMul + 2 /\ ScMul + 2 <= n
      BY <3>1, FarWidths
    <3>4. 2 ^ (ScMul + 2) = 2 ^ ((ScMul + 2) - ScMul) * P /\ P \in Nat \ {0}
      BY <3>1, <3>2, FarRise
    <3>5. 2 * 2 ^ (ScMul + 2) <= D
      BY <3>1, <3>2, FarRise
    <3>3. 2 ^ 2 = 4
      OBVIOUS
    <3> HIDE DEF P, D
    <3> QED  BY <1>1, <3>1, <3>3, <3>4, <3>5
  <2> HIDE DEF al, D, P
  <2> QED  BY <1>1, <1>2, <2>1, <2>2 DEF al, D, P
<1>3. CASE ~(n > Reach)
  <2>1. al = l \div D
    BY <1>3 DEF Aligned
  <2> HIDE DEF D, al
  <2>2. al \in Int /\ al * D <= l /\ l < (al + 1) * D
    BY <1>1, <2>1, DivSpec
  <2>3. (al + 1) * D = al * D + D /\ al * D \in Int
    BY <1>1, <2>2
  <2> QED  BY <1>1, <2>2, <2>3 DEF D, al
<1> QED  BY <1>2, <1>3

\* A sum of two terms against their exact sum.
LEMMA SumError ==
  ASSUME NEW A, IsTerm(A), A.e \in 0 .. 2 * Bias, NEW B, IsTerm(B)
  PROVE  LET x == ExactSum(<<A, B>>)
             s == TermSum(A, B)
             D == 2 ^ (s.e - x.e)
             r == x.m - s.m * D
         IN  /\ x \in [m: Int, e: 2 - Bias .. 3 * Bias] /\ s \in [m: Int, e: 2 - Bias .. 3 * Bias]
             /\ s.e - x.e \in 0..FarExp /\ D \in Nat \ {0}
             /\ r \in Int /\ -D < r /\ r < D
             /\ ~Distant(<<A, B>>) => 0 <= r /\ s = FlooredSum(<<A, B>>)
<1> DEFINE ts == <<A, B>>
           x == ExactSum(ts)
           s == TermSum(A, B)
           D == 2 ^ (s.e - x.e)
           r == x.m - s.m * D
           y == FlooredSum(ts)
           e == IF A.m = 0 \/ B.m = 0 THEN x.e ELSE Higher(A.e, B.e)
           Goal == /\ x \in [m: Int, e: 2 - Bias .. 3 * Bias] /\ s \in [m: Int, e: 2 - Bias .. 3 * Bias]
                   /\ s.e - x.e \in 0..FarExp /\ D \in Nat \ {0}
                   /\ r \in Int /\ -D < r /\ r < D
                   /\ ~Distant(ts) => 0 <= r /\ s = y
<1> SUFFICES Goal
  OBVIOUS
<1>1. ts[1] = A /\ ts[2] = B
  OBVIOUS
<1>2. /\ A \in [m: Int, e: 2 - Bias .. 3 * Bias] /\ B \in [m: Int, e: 2 - Bias .. 3 * Bias]
      /\ A.m \in Int /\ B.m \in Int /\ A.e \in Int /\ B.e \in Int
  BY FarWidths DEF IsTerm
<1>3. \A z, u : InUnits(z, u) = IF z.m = 0 THEN 0 ELSE z.m * 2 ^ (z.e - u)
  BY DEF InUnits
<1>4. y = [m |-> x.m \div 2 ^ (e - x.e), e |-> e]
  BY <1>1 DEF FlooredSum
<1>5. 2 ^ 0 = 1
  OBVIOUS
<1>6. \A z \in [m: Int, e: 2 - Bias .. 3 * Bias] : InUnits(z, z.e) = z.m
  <2> TAKE z \in [m: Int, e: 2 - Bias .. 3 * Bias]
  <2>1. z.e \in Int /\ z.m \in Int
    BY FarWidths
  <2>2. z.e - z.e = 0
    BY <2>1
  <2>3. InUnits(z, z.e) = IF z.m = 0 THEN 0 ELSE z.m * 2 ^ (z.e - z.e)
    BY <1>3, Zenon
  <2>4. 2 ^ (z.e - z.e) = 1
    BY <1>5, <2>2
  <2> QED  BY <2>1, <2>3, <2>4
<1> HIDE DEF ts
<1>7. ASSUME NEW z \in {A, B}, s = z, x = [m |-> z.m, e |-> z.e], e = x.e
      PROVE  Goal
  <2>1. z \in [m: Int, e: 2 - Bias .. 3 * Bias] /\ z.e \in Int /\ z.m \in Int
    BY <1>2
  <2>2. s.e - x.e = 0 /\ e - x.e = 0
    BY <1>7, <2>1
  <2>3. D = 1
    BY <1>5, <2>2
  <2>4. r = 0
    BY <1>7, <2>1, <2>3
  <2>5. y = z
    <3>1. x.m \div 1 = z.m
      BY <1>7, <2>1
    <3>2. 2 ^ (e - x.e) = 1
      BY <1>5, <2>2
    <3>3. y = [m |-> x.m \div 1, e |-> e]
      BY <1>4, <3>2
    <3>4. y = [m |-> z.m, e |-> z.e]
      BY <1>7, <3>1, <3>3
    <3> QED  BY <2>1, <3>4
  <2> HIDE DEF x, s, D, r, y, e
  <2> QED  BY <1>7, <2>1, <2>2, <2>3, <2>4, <2>5, FarWidths
<1>8. ASSUME NEW h \in {A, B}, NEW l \in {A, B}, A.m # 0, B.m # 0, h.e - l.e \in 0..FarExp, e = h.e,
             s = [m |-> h.m + Aligned(l.m, h.e - l.e), e |-> h.e],
             x = [m |-> h.m * 2 ^ (h.e - l.e) + l.m, e |-> l.e],
             Distant(ts) <=> h.e - l.e >= Reach
      PROVE  Goal
  <2> DEFINE n == h.e - l.e
             al == Aligned(l.m, n)
  <2>1. /\ h \in [m: Int, e: 2 - Bias .. 3 * Bias] /\ l \in [m: Int, e: 2 - Bias .. 3 * Bias]
        /\ h.e \in Int /\ l.e \in Int /\ h.m \in Int /\ l.m \in Int
        /\ -(4 * 2 ^ ScMul) <= l.m /\ l.m <= 4 * 2 ^ ScMul
    BY <1>2 DEF IsTerm
  <2>2. n \in 0..FarExp
    BY <1>8
  <2>3. s.e - x.e = n /\ e - x.e = n
    BY <1>8
  <2>4. /\ al \in Int /\ 2 ^ n \in Nat \ {0} /\ l.m - al * 2 ^ n \in Int
        /\ -(2 ^ n) < l.m - al * 2 ^ n /\ l.m - al * 2 ^ n < 2 ^ n
        /\ n < Reach => 0 <= l.m - al * 2 ^ n
    BY <2>1, <2>2, AlignError
  <2>5. s.m = h.m + al /\ s.e = h.e /\ x.m = h.m * D + l.m /\ x.e = l.e /\ D = 2 ^ n
    BY <1>8, <2>3
  <2> HIDE DEF n, al, x, s, D, y, e
  <2>6. r = l.m - al * D /\ x.m = s.m * D + r
    BY <2>1, <2>4, <2>5
  <2>7. ASSUME ~Distant(ts) PROVE 0 <= r /\ s = y
    <3>1. 0 <= r
      BY <1>8, <2>1, <2>2, <2>4, <2>5, <2>6, <2>7, FarWidths DEF n
    <3> HIDE DEF r
    <3>2. s.m \in Int /\ D \in Nat \ {0} /\ r \in 0 .. D - 1 /\ x.m \in Int
      BY <2>1, <2>4, <2>5, <2>6, <3>1
    <3>3. x.m \div D = s.m
      BY <2>6, <3>2, DivModIs
    <3>4. y = [m |-> s.m, e |-> s.e]
      BY <1>4, <1>8, <2>3, <2>5, <3>3
    <3> QED  BY <1>8, <3>1, <3>4
  <2>8. x \in [m: Int, e: 2 - Bias .. 3 * Bias] /\ s \in [m: Int, e: 2 - Bias .. 3 * Bias]
    <3>1. h.m * 2 ^ n + l.m \in Int /\ h.m + al \in Int
      BY <2>1, <2>4
    <3> QED  BY <1>8, <2>1, <3>1 DEF n, al
  <2> QED  BY <2>2, <2>3, <2>4, <2>5, <2>6, <2>7, <2>8
<1>9. CASE A.m = 0
  <2>1. s = B
    BY <1>9 DEF TermSum
  <2>2. x = [m |-> InUnits(A, B.e) + InUnits(B, B.e), e |-> B.e]
    BY <1>1, <1>9 DEF ExactSum
  <2>3. x = [m |-> B.m, e |-> B.e]
    BY <1>2, <1>3, <1>6, <1>9, <2>2
  <2>4. e = x.e
    BY <1>9
  <2> HIDE DEF Goal, s, x, e
  <2> QED  BY <1>7, <2>1, <2>3, <2>4
<1>10. CASE A.m # 0 /\ B.m = 0
  <2>1. s = A
    BY <1>10 DEF TermSum
  <2>2. x = [m |-> InUnits(A, A.e) + InUnits(B, A.e), e |-> A.e]
    BY <1>1, <1>10 DEF ExactSum
  <2>3. x = [m |-> A.m, e |-> A.e]
    BY <1>2, <1>3, <1>6, <1>10, <2>2
  <2>4. e = x.e
    BY <1>10
  <2> HIDE DEF Goal, s, x, e
  <2> QED  BY <1>7, <2>1, <2>3, <2>4
<1>11. CASE A.m # 0 /\ B.m # 0
  <2>1. x = LET u == Lower(A.e, B.e) IN [m |-> InUnits(A, u) + InUnits(B, u), e |-> u]
    BY <1>1, <1>11 DEF ExactSum
  <2>2. e = Higher(A.e, B.e)
    BY <1>11
  <2>3. Distant(ts) <=> A.e - B.e >= Reach \/ B.e - A.e >= Reach
    BY <1>1, <1>11 DEF Distant
  <2>4. CASE A.e >= B.e
    <3>1. Lower(A.e, B.e) = B.e /\ Higher(A.e, B.e) = A.e /\ A.e - B.e \in 0..FarExp
      BY <1>2, <2>4, FarWidths DEF Lower, Higher
    <3>2. s = [m |-> A.m + Aligned(B.m, A.e - B.e), e |-> A.e]
      BY <1>11, <2>4 DEF TermSum
    <3>3. x = [m |-> A.m * 2 ^ (A.e - B.e) + B.m, e |-> B.e]
      BY <1>2, <1>3, <1>6, <1>11, <2>1, <3>1
    <3>4. Distant(ts) <=> A.e - B.e >= Reach
      BY <1>2, <2>3, <2>4, FarWidths
    <3>5. e = A.e
      BY <2>2, <3>1
    <3> HIDE DEF Goal, s, x, e
    <3> QED  BY <1>8, <1>11, <3>1, <3>2, <3>3, <3>4, <3>5
  <2>5. CASE ~(A.e >= B.e)
    <3>1. Lower(A.e, B.e) = A.e /\ Higher(A.e, B.e) = B.e /\ B.e - A.e \in 0..FarExp
      BY <1>2, <2>5, FarWidths DEF Lower, Higher
    <3>2. s = [m |-> B.m + Aligned(A.m, B.e - A.e), e |-> B.e]
      BY <1>11, <2>5 DEF TermSum
    <3>3. x = [m |-> B.m * 2 ^ (B.e - A.e) + A.m, e |-> A.e]
      <4> DEFINE c == B.m * 2 ^ (B.e - A.e)
      <4>1. x = [m |-> A.m + c, e |-> A.e]
        BY <1>2, <1>3, <1>6, <1>11, <2>1, <3>1
      <4>2. c \in Int
        <5>1. 2 ^ (B.e - A.e) \in Nat
          BY <3>1, FarRise
        <5> QED  BY <1>2, <5>1
      <4> HIDE DEF c, x
      <4>3. A.m + c = c + A.m
        BY <1>2, <4>2
      <4> QED  BY <4>1, <4>3 DEF c
    <3>4. Distant(ts) <=> B.e - A.e >= Reach
      BY <1>2, <2>3, <2>5, FarWidths
    <3>5. e = B.e
      BY <2>2, <3>1
    <3> HIDE DEF Goal, s, x, e
    <3> QED  BY <1>8, <1>11, <3>1, <3>2, <3>3, <3>4, <3>5
  <2> QED  BY <2>4, <2>5
<1> QED  BY <1>2, <1>9, <1>10, <1>11

\* A product is zero or at least one.
IsWhole(p) == p.m = 0 \/ p.m >= 2 ^ ScMul \/ p.m <= -(2 ^ ScMul)

\* Overflow is that of the exact sum: what alignment loses does not cross it.
LEMMA FloorLess ==
  ASSUME NEW A, IsTerm(A), A.e \in 0 .. 2 * Bias, NEW B, IsTerm(B), IsWhole(B), ~Distant(<<A, B>>),
         NEW c \in {1, 0 - 1}
  PROVE  Less(ExactSum(<<A, B>>), c, 2 * Bias) <=> Less(TermSum(A, B), c, 2 * Bias)
<1> DEFINE j  == 2 * Bias
           x  == ExactSum(<<A, B>>)
           y  == TermSum(A, B)
           n  == y.e - x.e
           D  == 2 ^ n
           px == x.e - ScMul - j
           py == y.e - ScMul - j
<1> SUFFICES Less(x, c, j) <=> Less(y, c, j)
  OBVIOUS
<1>1. /\ x.m \in Int /\ x.e \in 2 - Bias .. 3 * Bias /\ y.m \in Int /\ y.e \in 2 - Bias .. 3 * Bias
      /\ n \in 0..FarExp /\ D \in Nat \ {0} /\ x.m - y.m * D \in 0 .. D - 1
  <2> DEFINE r == x.m - y.m * D
  <2>1. /\ x \in [m: Int, e: 2 - Bias .. 3 * Bias] /\ y \in [m: Int, e: 2 - Bias .. 3 * Bias]
        /\ n \in 0..FarExp /\ D \in Nat \ {0} /\ r \in Int /\ r < D /\ 0 <= r
    BY SumError, Zenon
  <2> HIDE DEF x, y, n, D, r
  <2>2. r \in 0 .. D - 1
    BY <2>1
  <2> QED  BY <2>1, <2>2 DEF r
<1>2. /\ Less(x, c, j) <=> IF px > 0 THEN 2 * x.m < c ELSE x.m < c * 2 ^ (-px)
      /\ Less(y, c, j) <=> IF py > 0 THEN 2 * y.m < c ELSE y.m < c * 2 ^ (-py)
  BY DEF Less
<1>3. CASE n = 0
  <2>1. D = 1
    <3>1. 2 ^ 0 = 1
      OBVIOUS
    <3> HIDE DEF n
    <3> QED  BY <1>3, <3>1
  <2>2. px = py /\ x.m = y.m
    <3> HIDE DEF x, y, D
    <3> QED  BY <1>1, <1>3, <2>1
  <2> HIDE DEF px, py
  <2> QED  BY <1>2, <2>2
<1>4. CASE ~(py > 0)
  <2> DEFINE q == 2 ^ (-py)
             Q == 2 ^ (-px)
  <2>1. -py \in 0..FarExp /\ -px \in 0..FarExp /\ -py <= -px /\ (-px) - (-py) = n /\ ~(px > 0)
    <3> HIDE DEF x, y
    <3> QED  BY <1>1, <1>4, FarWidths
  <2> HIDE DEF px, py
  <2>2. q \in Nat \ {0} /\ Q = D * q /\ Q \in Nat \ {0}
    BY <2>1, FarRise
  <2>3. y.m = x.m \div D
    <3> DEFINE r == x.m - y.m * D
    <3> HIDE DEF x, y, D
    <3>1. r \in 0 .. D - 1 /\ x.m = y.m * D + r
      BY <1>1
    <3> HIDE DEF r
    <3> QED  BY <1>1, <3>1, DivModIs
  <2> HIDE DEF x, y, q, Q, D, n
  <2>4. c * Q = (c * q) * D /\ c * q \in Int /\ c * Q \in Int
    <3>1. c \in Int
      OBVIOUS
    <3>2. c * Q = c * (D * q) /\ c * (D * q) = (c * q) * D
      BY <1>1, <2>2, <3>1
    <3> QED  BY <2>2, <3>1, <3>2
  <2>5. c * q <= y.m <=> (c * q) * D <= x.m
    BY <1>1, <2>3, <2>4, DivAtLeast
  <2>6. (Less(x, c, j) <=> x.m < c * Q) /\ (Less(y, c, j) <=> y.m < c * q)
    BY <1>2, <1>4, <2>1 DEF q, Q
  <2>7. (x.m < c * Q <=> ~(c * Q <= x.m)) /\ (y.m < c * q <=> ~(c * q <= y.m))
    BY <1>1, <2>4
  <2> QED  BY <2>4, <2>5, <2>6, <2>7
<1>5. CASE n > 0 /\ py > 0
  <2> DEFINE P == 2 ^ ScMul
             Q == 2 ^ (-px)
             al == Aligned(A.m, n)
  <2>1. /\ A.m # 0 /\ B.m # 0 /\ ~(A.e >= B.e)
        /\ x.e = A.e /\ y.e = B.e /\ y.m = B.m + al
    <3>1. A.e \in Int /\ B.e \in Int /\ A.e <= 2 * Bias
      BY FarWidths DEF IsTerm
    <3>2. A.m # 0
      <4> SUFFICES ASSUME A.m = 0 PROVE FALSE
        OBVIOUS
      <4>1. y = B /\ x.e = B.e
        BY DEF TermSum, ExactSum
      <4> HIDE DEF x, y
      <4> QED  BY <1>5, <3>1, <4>1
    <3>3. B.m # 0
      <4> SUFFICES ASSUME B.m = 0 PROVE FALSE
        OBVIOUS
      <4>1. y = A /\ x.e = A.e
        BY <3>2 DEF TermSum, ExactSum
      <4> HIDE DEF x, y
      <4> QED  BY <1>5, <3>1, <4>1
    <3>4. ~(A.e >= B.e)
      <4> SUFFICES ASSUME A.e >= B.e PROVE FALSE
        OBVIOUS
      <4>1. y.e = A.e
        BY <3>2, <3>3 DEF TermSum
      <4> HIDE DEF x, y
      <4> QED  BY <1>1, <1>5, <3>1, <4>1, FarWidths
    <3>5. x.e = A.e
      BY <3>1, <3>2, <3>3, <3>4 DEF ExactSum, Lower
    <3>6. y = [m |-> B.m + Aligned(A.m, B.e - A.e), e |-> B.e]
      BY <3>2, <3>3, <3>4 DEF TermSum
    <3>7. y.e = B.e /\ n = B.e - A.e
      BY <3>5, <3>6
    <3> QED  BY <3>2, <3>3, <3>4, <3>5, <3>6, <3>7
  <2>2. /\ -px \in 0..FarExp /\ -px <= n /\ ScMul + 1 \in 0..FarExp /\ ScMul + 1 <= n
        /\ ScMul \in 0..FarExp /\ (ScMul + 1) - ScMul = 1 /\ ~(px > 0) /\ px # 0
    <3> HIDE DEF x, y
    <3> QED  BY <1>1, <1>5, <2>1, FarWidths
  <2>3. P \in Nat \ {0} /\ 2 * P <= D /\ 4 <= P /\ Q \in Nat \ {0} /\ Q <= D
    <3> HIDE DEF x, y, n, px
    <3>1. ScMul <= ScMul + 1 /\ ScMul < ScMul + 1 /\ 2 \in 0..FarExp /\ 2 <= ScMul
      BY FarWidths
    <3>2. P \in Nat \ {0} /\ 2 * P <= 2 ^ (ScMul + 1)
      BY <2>2, <3>1, FarRise
    <3>3. 2 ^ (ScMul + 1) <= D
      BY <1>1, <2>2, FarRise
    <3>4. 4 <= P
      <4>1. 2 ^ 2 <= 2 ^ ScMul
        BY <2>2, <3>1, FarRise
      <4>2. 2 ^ 2 = 4
        OBVIOUS
      <4> QED  BY <4>1, <4>2
    <3>5. Q \in Nat \ {0} /\ Q <= D
      BY <1>1, <2>2, FarRise
    <3>6. 2 ^ (ScMul + 1) \in Nat
      BY <2>2, FarRise
    <3> HIDE DEF P, Q, D
    <3> QED  BY <1>1, <3>2, <3>3, <3>4, <3>5, <3>6
  <2>4. /\ A.m \in Int /\ -(4 * P) <= A.m /\ A.m <= 4 * P
        /\ B.m \in Int /\ (B.m >= P \/ B.m <= -P)
    BY <2>1 DEF IsTerm, IsWhole
  <2>5. /\ al \in Int /\ A.m - al * D \in Int /\ -D < A.m - al * D /\ A.m - al * D < D
    <3> HIDE DEF x, y, n
    <3> QED  BY <1>1, <2>4, AlignError
  <2>6. -2 <= al /\ al <= 2
    <3> HIDE DEF x, y, n, D, P, al
    <3>1. -3 * D < al * D /\ al * D < 3 * D
      BY <1>1, <2>3, <2>4, <2>5
    <3>2. (3 <= al <=> 3 * D <= al * D) /\ (al <= 0 - 3 <=> al * D <= (0 - 3) * D)
      BY <1>1, <2>5, TimesKeepsOrder
    <3> QED  BY <1>1, <2>5, <3>1, <3>2
  <2> HIDE DEF al, P, x, y, D, Q, n, px, py
  <2>7. y.m >= 2 \/ y.m <= 0 - 2
    BY <1>1, <2>1, <2>3, <2>4, <2>5, <2>6
  <2>8. (2 <= y.m <=> 2 * D <= y.m * D) /\ (y.m <= 0 - 2 <=> y.m * D <= (0 - 2) * D)
    BY <1>1, TimesKeepsOrder
  <2>9. (Less(x, c, j) <=> x.m < c * Q) /\ (Less(y, c, j) <=> 2 * y.m < c)
    BY <1>2, <1>5, <2>2 DEF Q
  <2>10. y.m * D \in Int /\ c * Q \in Int
    BY <1>1, <2>3
  <2>11. CASE c = 1
    BY <1>1, <2>3, <2>7, <2>8, <2>9, <2>10, <2>11
  <2>12. CASE c = 0 - 1
    BY <1>1, <2>3, <2>7, <2>8, <2>9, <2>10, <2>12
  <2> QED  BY <2>11, <2>12
<1> QED  BY <1>1, <1>3, <1>4, <1>5

\* A normalised sum, truncated to an accumulator's mantissa, is normalised.
LEMMA TruncatedNormal ==
  ASSUME NEW n, Normal(n, ScMul)
  PROVE  LET t == Scaled(n, ScAcc - ScMul) IN
         Normal(t, ScAcc) /\ t \in Int \ {0} /\ (t < 0 <=> n < 0)
<1> DEFINE P == 2 ^ ScMul
           H == 2 ^ ScAcc
           c == 2 ^ (ScMul - ScAcc)
           t == Scaled(n, ScAcc - ScMul)
<1>1. P \in Nat \ {0} /\ H \in Nat \ {0} /\ c \in Nat \ {0} /\ P = c * H
  BY Units, ProductUnits
<1>2. n \in Int /\ ((P <= n /\ n < 2 * P) \/ (-(2 * P) <= n /\ n < -P))
  BY NormalMeans DEF Scales
<1>3. t \in Int /\ \A y \in Int : y <= t <=> y * c <= n
  <2>1. CASE ScAcc = ScMul
    <3>1. t = n * 2 ^ 0 /\ 2 ^ 0 = 1 /\ c = 2 ^ 0
      BY <2>1, DauWidths DEF Scaled
    <3> HIDE DEF t, c
    <3> QED  BY <1>2, <3>1
  <2>2. CASE ScAcc # ScMul
    <3>1. t = n \div c
      BY <2>2, DauWidths DEF Scaled
    <3> HIDE DEF t, c
    <3> QED  BY <1>1, <1>2, <3>1, DivSpec, DivAtLeast
  <2> QED  BY <2>1, <2>2
<1> HIDE DEF P, H, c, t
<1>4. /\ H <= t <=> H * c <= n
      /\ 2 * H <= t <=> (2 * H) * c <= n
      /\ (0 - 1) * H <= t <=> ((0 - 1) * H) * c <= n
      /\ (0 - 2) * H <= t <=> ((0 - 2) * H) * c <= n
      /\ 0 <= t <=> 0 * c <= n
  <2>1. H \in Int /\ 2 * H \in Int /\ (0 - 1) * H \in Int /\ (0 - 2) * H \in Int /\ 0 \in Int
    BY <1>1
  <2> QED  BY ONLY <1>3, <2>1, Zenon
<1>5. H * c = P /\ (2 * H) * c = 2 * P /\ ((0 - 1) * H) * c = -P /\ ((0 - 2) * H) * c = -(2 * P) /\ 0 * c = 0
  BY <1>1
<1>6. t \in Int /\ ((H <= t /\ t < 2 * H) \/ (-(2 * H) <= t /\ t < -H)) /\ (t < 0 <=> n < 0)
  BY <1>1, <1>2, <1>3, <1>4, <1>5
<1>7. Normal(t, ScAcc)
  BY <1>6, AccNormal DEF H
<1> QED  BY <1>1, <1>6, <1>7 DEF t

\* What the adder makes of an aligned sum.
Truncated(y) ==
  LET r == NormAt(y.m, y.e, ScMul)
  IN  IF r.m = 0 THEN Zero ELSE NormAt(Scaled(r.m, ScAcc - ScMul), r.e, ScAcc)

LEMMA TruncatedIs ==
  ASSUME NEW y \in [m: Int, e: Int], -(8 * 2 ^ ScMul) <= y.m, y.m <= 8 * 2 ^ ScMul
  PROVE  /\ y.m = 0 => Truncated(y) = Zero
         /\ y.m # 0 => \E k \in -(ScMul + 4) .. ScMul + 1 :
              LET t == Scaled(Scaled(y.m, k), ScAcc - ScMul) IN
              /\ Normal(Scaled(y.m, k), ScMul) /\ Normal(t, ScAcc) /\ t \in Int
              /\ (t < 0 <=> y.m < 0) /\ Truncated(y) = [m |-> t, e |-> y.e - k]
<1> DEFINE r == NormAt(y.m, y.e, ScMul)
<1>1. y.m \in Int /\ y.e \in Int /\ -(2 ^ (ScMul + 4)) <= y.m /\ y.m < 2 ^ (ScMul + 4) /\ ScMul \in Scales
  BY ProductUnits DEF Scales
<1>2. /\ r \in [m: Int, e: Int]
      /\ y.m = 0 => r = Zero
      /\ y.m # 0 => /\ Normal(r.m, ScMul)
                    /\ \E k \in -(ScMul + 4) .. ScMul + 1 : r.m = Scaled(y.m, k) /\ r.e = y.e - k
  BY <1>1, NormAtNormal, Zenon
<1>3. CASE y.m = 0
  BY <1>2, <1>3 DEF Truncated, Zero
<1>4. CASE y.m # 0
  <2>1. PICK k \in -(ScMul + 4) .. ScMul + 1 : r.m = Scaled(y.m, k) /\ r.e = y.e - k
    BY <1>2, <1>4
  <2> DEFINE n == Scaled(y.m, k)
             t == Scaled(n, ScAcc - ScMul)
  <2>2. Normal(n, ScMul)
    BY <1>2, <1>4, <2>1
  <2>3. Normal(t, ScAcc) /\ t \in Int \ {0} /\ (t < 0 <=> n < 0)
    BY <2>2, TruncatedNormal
  <2>4. r.m # 0 /\ (n < 0 <=> y.m < 0)
    <3> DEFINE P == 2 ^ ScMul
               b == ScMul + 1 - k
               q == 2 ^ b
               h == 2 ^ (b - 1)
    <3>1. n \in Int /\ P \in Nat \ {0} /\ ((P <= n /\ n < 2 * P) \/ (-(2 * P) <= n /\ n < -P))
      BY <2>2, NormalMeans DEF Scales
    <3>2. n # 0
      <4> HIDE DEF n, P
      <4> QED  BY <3>1
    <3>3. n < 0 <=> y.m < 0
      <4>1. CASE k >= 0
        <5>1. k \in 0..FarExp
          BY <4>1, FarWidths
        <5>2. 2 ^ k \in Nat \ {0}
          BY <5>1, FarRise
        <5> DEFINE s == 2 ^ k
        <5>3. n = y.m * s
          BY <4>1 DEF Scaled
        <5> HIDE DEF n, s
        <5>4. 0 <= y.m <=> 0 * s <= y.m * s
          BY <1>1, <5>2, TimesKeepsOrder DEF s
        <5> QED  BY <1>1, <3>1, <5>2, <5>3, <5>4 DEF s
      <4>2. CASE k < 0
        <5>1. -k \in 0..FarExp
          BY <4>2, FarWidths
        <5>2. 2 ^ (-k) \in Nat \ {0}
          BY <5>1, FarRise
        <5> DEFINE s == 2 ^ (-k)
        <5>3. n = y.m \div s
          BY <4>2 DEF Scaled
        <5> HIDE DEF n, s
        <5>4. 0 <= y.m \div s <=> 0 * s <= y.m
          BY <1>1, <5>2, DivAtLeast DEF s
        <5> QED  BY <1>1, <3>1, <5>2, <5>3, <5>4 DEF s
      <4> QED  BY <4>1, <4>2, FarWidths
    <3> QED  BY <2>1, <3>2, <3>3
  <2>5. NormAt(t, r.e, ScAcc) = [m |-> t, e |-> y.e - k]
    <3> HIDE DEF t, r
    <3>1. Scaled(t, 0) = t
      <4>1. 2 ^ 0 = 1
        OBVIOUS
      <4> QED  BY <2>3, <4>1 DEF Scaled
    <3>2. 0 \in -2 .. ScAcc /\ ScAcc \in Scales
      BY DauWidths DEF Scales
    <3>3. NormAt(t, r.e, ScAcc) = [m |-> Scaled(t, 0), e |-> r.e - 0]
      BY <2>3, <3>1, <3>2, NormAtIs
    <3>4. r.e - 0 = y.e - k
      BY <1>1, <2>1, FarWidths
    <3> QED  BY <3>1, <3>3, <3>4
  <2>6. Truncated(y) = [m |-> t, e |-> y.e - k]
    BY <2>1, <2>4, <2>5 DEF Truncated
  <2> QED  BY <1>4, <2>2, <2>3, <2>4, <2>6
<1> QED  BY <1>3, <1>4

\* Flags, zero and saturation of a sum, against the exact one.
LEMMA SumJudged ==
  ASSUME NEW A, IsTerm(A), A.e \in 0 .. 2 * Bias, NEW B, IsTerm(B), IsWhole(B), ~Distant(<<A, B>>),
         LET s == TermSum(A, B) IN -(8 * 2 ^ ScMul) <= s.m /\ s.m <= 8 * 2 ^ ScMul
  PROVE  LET x == ExactSum(<<A, B>>)
             y == FlooredSum(<<A, B>>)
             a == Truncated(TermSum(A, B))
             r == DaRange(a)
             tooLarge == ~Less(x, 1, MaxExp + 1)
             tooSmall == Less(x, -1, MaxExp + 1)
             tiny     == Less(y, 1, 1) /\ ~Less(y, -1, 1)
         IN  /\ OutOfRange(a) <=> tooLarge \/ tooSmall
             /\ tooLarge => r = Largest
             /\ tooSmall => r = Smallest
             /\ r.e = 0 <=> tiny
             /\ Negative(r) <=> x.m < 0 /\ ~tiny
             /\ TooSmall(a) => tiny
<1> DEFINE x == ExactSum(<<A, B>>)
           y == TermSum(A, B)
           a == Truncated(y)
           r == DaRange(a)
           j == 2 * Bias
<1>1. PICK c : c + 1 = 0 /\ c = -1
  OBVIOUS
<1>2. MaxExp + 1 = j /\ MaxExp \in Nat /\ MaxExp # 0 /\ j \in Int /\ j >= 1 /\ c = 0 - 1
  BY <1>1, FarWidths
<1>3. /\ y = FlooredSum(<<A, B>>) /\ y \in [m: Int, e: 2 - Bias .. 3 * Bias]
      /\ x.m \in Int /\ (x.m < 0 <=> y.m < 0)
  <2> DEFINE n == y.e - x.e
             D == 2 ^ n
             e == x.m - y.m * D
  <2>1. /\ x \in [m: Int, e: 2 - Bias .. 3 * Bias] /\ y \in [m: Int, e: 2 - Bias .. 3 * Bias]
        /\ D \in Nat \ {0} /\ e \in Int /\ e < D /\ 0 <= e /\ y = FlooredSum(<<A, B>>)
    BY SumError, Zenon
  <2> HIDE DEF x, y, D
  <2>2. (0 <= y.m <=> 0 * D <= y.m * D) /\ (y.m <= 0 - 1 <=> y.m * D <= (0 - 1) * D)
    BY <2>1, TimesKeepsOrder
  <2>3. y.m * D \in Int /\ y.m \in Int /\ x.m \in Int /\ e = x.m - y.m * D
    BY <2>1
  <2> HIDE DEF e
  <2> QED  BY <2>1, <2>2, <2>3
<1>4. (Less(x, 1, j) <=> Less(y, 1, j)) /\ (Less(x, c, j) <=> Less(y, c, j))
  BY <1>2, FloorLess
<1> DEFINE tooLarge == ~Less(y, 1, j)
           tooSmall == Less(y, c, j)
           tiny     == Less(y, 1, 1) /\ ~Less(y, c, 1)
<1>5. /\ OutOfRange(a) <=> tooLarge \/ tooSmall
      /\ tooLarge => r = Largest
      /\ tooSmall => r = Smallest
      /\ r.e = 0 <=> tiny
      /\ Negative(r) <=> y.m < 0 /\ ~tiny
      /\ TooSmall(a) => tiny
  <2>0. y \in [m: Int, e: Int] /\ y.m \in Int /\ y.e \in Int
    BY <1>3
  <2>1. CASE y.m = 0
    <3>1. a = Zero
      BY <2>0, <2>1, TruncatedIs
    <3>2. \A i \in {1, j} : Less(y, 1, i) /\ ~Less(y, c, i)
      <4> TAKE i \in {1, j}
      <4> DEFINE p == y.e - ScMul - i
                 q == 2 ^ (-p)
      <4>1. p > 0 \/ -p \in 0..FarExp
        <5> HIDE DEF y
        <5> QED  BY <1>2, <1>3, FarWidths
      <4>2. CASE p > 0
        BY <1>1, <2>1, <4>2 DEF Less
      <4>3. CASE ~(p > 0)
        <5>1. q \in Nat \ {0}
          BY <4>1, <4>3, FarRise
        <5>2. (Less(y, 1, i) <=> 0 < 1 * q) /\ (Less(y, c, i) <=> 0 < c * q)
          BY <2>1, <4>3 DEF Less
        <5> HIDE DEF q, p, y
        <5> QED  BY <1>2, <5>1, <5>2
      <4> QED  BY <4>2, <4>3
    <3>3. Less(y, 1, 1) /\ ~Less(y, c, 1) /\ Less(y, 1, j) /\ ~Less(y, c, j)
      BY <3>2
    <3>4. r = Zero /\ ~OutOfRange(a) /\ ~Negative(r)
      BY <3>1 DEF DaRange, OutOfRange, TooSmall, Negative, Zero
    <3>5. r.e = 0
      BY <3>4 DEF Zero
    <3> HIDE DEF y, a, r
    <3> QED  BY <2>1, <3>3, <3>4, <3>5
  <2>2. CASE y.m # 0
    <3>1. PICK k \in -(ScMul + 4) .. ScMul + 1 :
            LET t == Scaled(Scaled(y.m, k), ScAcc - ScMul) IN
            /\ Normal(Scaled(y.m, k), ScMul) /\ Normal(t, ScAcc) /\ t \in Int
            /\ (t < 0 <=> y.m < 0) /\ a = [m |-> t, e |-> y.e - k]
      BY <2>0, <2>2, TruncatedIs
    <3> DEFINE re == y.e - k
    <3>2. Normal(Scaled(y.m, k), ScMul) /\ a.m \in Int /\ (a.m < 0 <=> y.m < 0) /\ a.e = re
      BY <3>1
    <3>3. re \in Int /\ y \in [m: Int \ {0}, e: Int] /\ j - y.e <= 3 * Bias /\ 1 - y.e <= 3 * Bias
      <4> HIDE DEF y, a
      <4> QED  BY <1>2, <1>3, <2>2, FarWidths
    <3>4. /\ Less(y, 1, j) <=> y.m < 0 \/ re < j
          /\ Less(y, c, j) <=> y.m < 0 /\ ~(re < j)
          /\ Less(y, 1, 1) <=> y.m < 0 \/ re < 1
          /\ Less(y, c, 1) <=> y.m < 0 /\ ~(re < 1)
      BY <1>2, <3>2, <3>3, LessPlace
    <3>5. /\ OutOfRange(a) <=> re >= j
          /\ TooSmall(a) <=> re < 0
      <4> HIDE DEF a, re
      <4> QED  BY <1>2, <3>2, <3>3 DEF OutOfRange, TooSmall
    <3>6. r = IF OutOfRange(a) THEN (IF a.m < 0 THEN Smallest ELSE Largest)
              ELSE IF TooSmall(a) THEN Zero ELSE a
      BY DEF DaRange
    <3>7. /\ Smallest.e = MaxExp /\ Smallest.m < 0 /\ Largest.e = MaxExp /\ ~(Largest.m < 0)
          /\ Zero.e = 0
      BY Units DEF Smallest, Largest, Zero
    <3>8. tiny <=> re < 1
      <4> HIDE DEF y, re
      <4> QED  BY <3>3, <3>4
    <3>9. (tooLarge <=> ~(y.m < 0) /\ re >= j) /\ (tooSmall <=> y.m < 0 /\ re >= j)
      <4> HIDE DEF y, re
      <4> QED  BY <1>2, <3>3, <3>4
    <3> HIDE DEF y, re, a, r, tooLarge, tooSmall, tiny
    <3>10. (r.e = 0 <=> re < 1) /\ (Negative(r) <=> y.m < 0 /\ ~(re < 1))
      BY <1>2, <3>2, <3>3, <3>5, <3>6, <3>7 DEF Negative
    <3> QED  BY <1>2, <3>2, <3>3, <3>5, <3>6, <3>8, <3>9, <3>10
  <2> QED  BY <2>1, <2>2
<1> HIDE DEF x, y, a, r, j
<1>6. y = FlooredSum(<<A, B>>) /\ x = ExactSum(<<A, B>>) /\ a = Truncated(TermSum(A, B)) /\ r = DaRange(a)
  BY <1>3 DEF x, a, r, y
<1> QED  BY <1>1, <1>2, <1>3, <1>4, <1>5, <1>6

\* Two mantissas multiply to no less than the unit.
LEMMA TimesWhole ==
  ASSUME NEW a \in Int, NEW b \in Int, NEW F \in Nat, F <= a \/ a <= -F, F <= b \/ b <= -F
  PROVE  a * b \in Int /\ (F * F <= a * b \/ a * b <= -(F * F))
<1>1. \A x, y \in Int : F <= x /\ F <= y => F * F <= x * y
  <2> TAKE x \in Int, y \in Int
  <2> HAVE F <= x /\ F <= y
  <2>1. F * F <= x * F /\ F * x <= y * x
    <3>1. F \in Int /\ F <= x /\ F <= y /\ x \in Nat
      OBVIOUS
    <3> QED  BY <3>1, MulMono
  <2>2. x * F = F * x /\ y * x = x * y
    OBVIOUS
  <2> QED  BY <2>1, <2>2
<1>2. a * b \in Int /\ (-a) * b = -(a * b) /\ a * (-b) = -(a * b) /\ (-a) * (-b) = a * b
      /\ -a \in Int /\ -b \in Int
  OBVIOUS
<1>3. CASE F <= a /\ F <= b
  BY <1>1, <1>2, <1>3
<1>4. CASE a <= -F /\ b <= -F
  <2>1. F <= -a /\ F <= -b
    BY <1>4
  <2>2. F * F <= (-a) * (-b)
    BY <1>1, <1>2, <2>1
  <2> QED  BY <1>2, <2>2
<1>5. CASE a <= -F /\ F <= b
  <2>1. F <= -a
    BY <1>5
  <2>2. F * F <= (-a) * b
    BY <1>1, <1>2, <1>5, <2>1
  <2>3. F * F \in Int
    OBVIOUS
  <2> QED  BY <1>2, <2>2, <2>3
<1>6. CASE F <= a /\ b <= -F
  <2>1. F <= -b
    BY <1>6
  <2>2. F * F <= a * (-b)
    BY <1>1, <1>2, <1>6, <2>1
  <2>3. F * F \in Int
    OBVIOUS
  <2> QED  BY <1>2, <2>2, <2>3
<1> QED  BY <1>3, <1>4, <1>5, <1>6

LEMMA ProductTerm ==
  ASSUME NEW x \in FloatWord, NEW y \in FloatWord
  PROVE  IsTerm(DauMul(x, y)) /\ IsWhole(DauMul(x, y))
<1> DEFINE p == DauMul(x, y)
<1>1. p \in [m: Int, e: Int] /\ -(4 * 2 ^ ScMul) <= p.m /\ p.m <= 4 * 2 ^ ScMul
  BY ProductBound DEF IsProduct
<1>2. CASE x.e = 0 \/ y.e = 0
  <2>1. p = Zero /\ 0 \in 2 - Bias .. 3 * Bias
    BY <1>2, FarWidths DEF DauMul
  <2> QED  BY <1>1, <2>1 DEF IsTerm, IsWhole, Zero
<1>3. CASE ~(x.e = 0 \/ y.e = 0)
  <2> DEFINE F == 2 ^ FracBits
             a == Mant24Full(x)
             b == Mant24Full(y)
  <2>1. p = [m |-> a * b, e |-> x.e + y.e - Bias]
    BY <1>3 DEF DauMul
  <2>2. p.e \in 2 - Bias .. 3 * Bias
    <3>1. x.e \in 1..MaxExp /\ y.e \in 1..MaxExp
      BY <1>3, FarWidths DEF FloatWord
    <3>2. p.e = x.e + y.e - Bias
      BY <2>1
    <3> HIDE DEF p
    <3> QED  BY <3>1, <3>2, FarWidths
  <2>3. F \in Nat /\ a \in Int /\ b \in Int /\ (F <= a \/ a <= -F) /\ (F <= b \/ b <= -F)
    <3>1. F \in Nat \ {0}
      BY Units
    <3>2. a \in Int /\ ((F <= a /\ a < 2 * F) \/ (-(2 * F) <= a /\ a < -F))
      BY Mantissas
    <3>3. b \in Int /\ ((F <= b /\ b < 2 * F) \/ (-(2 * F) <= b /\ b < -F))
      BY Mantissas
    <3> HIDE DEF a, b, F
    <3> QED  BY <3>1, <3>2, <3>3
  <2>4. F * F = 2 ^ ScMul
    BY ProductUnits
  <2>5. p.m = a * b
    BY <2>1
  <2> HIDE DEF a, b, F, p
  <2>6. F * F <= a * b \/ a * b <= -(F * F)
    BY <2>3, TimesWhole
  <2>7. p \in [m: Int, e: 2 - Bias .. 3 * Bias]
    BY <1>1, <2>2
  <2> QED  BY <1>1, <2>4, <2>5, <2>6, <2>7 DEF IsTerm, IsWhole, p
<1> QED  BY <1>2, <1>3

\* Negation moves an exponent by one at most, and not below zero.
LEMMA NegatedExp ==
  ASSUME NEW a, IsAcc(a)
  PROVE  AccNegate(a).e \in 0 .. 2 * Bias
<1> DEFINE H == 2 ^ ScAcc
<1>1. a.e \in 0..MaxExp
  BY DEF IsAcc
<1>2. CASE a.e = 0
  BY <1>1, <1>2, FarWidths DEF AccNegate
<1>3. CASE a.e # 0
  <2>1. AccNegate(a) = NormAt(-a.m, a.e, ScAcc)
    BY <1>3 DEF AccNegate
  <2>2. H \in Nat \ {0} /\ a.m \in Int /\ ((H <= a.m /\ a.m < 2 * H) \/ (-(2 * H) <= a.m /\ a.m < -H))
    BY <1>3, Units, AccNormal DEF IsAcc
  <2>3. \A m \in Int : (H <= m /\ m < 2 * H) \/ (-(2 * H) <= m /\ m < -H) => Normal(m, ScAcc)
    BY AccNormal
  <2>4. ScAcc \in Scales /\ -1 \in -2 .. ScAcc /\ 0 \in -2 .. ScAcc /\ 1 \in -2 .. ScAcc
    BY DauWidths DEF Scales
  <2>5. 2 ^ 0 = 1 /\ 2 ^ 1 = 2
    OBVIOUS
  <2>6. -a.m \in Int \ {0}
    <3> HIDE DEF H
    <3> QED  BY <2>2
  <2>7. ASSUME NEW k \in {-1, 0, 1}, Normal(Scaled(-a.m, k), ScAcc)
        PROVE  AccNegate(a).e = a.e - k
    <3>1. k \in -2 .. ScAcc
      BY <2>4
    <3>2. NormAt(-a.m, a.e, ScAcc) = [m |-> Scaled(-a.m, k), e |-> a.e - k]
      BY <2>4, <2>6, <2>7, <3>1, NormAtIs
    <3> QED  BY <2>1, <3>2
  <2>8. CASE a.m = H
    <3>1. Scaled(-a.m, 1) = -(2 * H)
      <4>1. Scaled(-a.m, 1) = (-a.m) * 2 ^ 1
        BY DEF Scaled
      <4> HIDE DEF H
      <4> QED  BY <2>2, <2>5, <2>8, <4>1
    <3>2. Normal(Scaled(-a.m, 1), ScAcc)
      <4> DEFINE m == Scaled(-a.m, 1)
      <4>1. m \in Int /\ -(2 * H) <= m /\ m < -H
        <5> HIDE DEF H, m
        <5> QED  BY <2>2, <3>1 DEF m
      <4> HIDE DEF m
      <4> QED  BY <2>3, <4>1 DEF m
    <3>3. AccNegate(a).e = a.e - 1
      BY <2>7, <3>2
    <3> QED  BY <1>1, <1>3, <3>3, FarWidths
  <2>9. CASE a.m = -(2 * H)
    <3>1. Scaled(-a.m, -1) = H
      <4>1. Scaled(-a.m, -1) = (-a.m) \div 2 ^ 1
        <5>1. PICK k \in Int : k + 1 = 0 /\ k = -1
          OBVIOUS
        <5>2. \A i \in Int : i + 1 = 0 => ~(i >= 0) /\ -i = 1
          OBVIOUS
        <5>3. \A i : ~(i >= 0) /\ -i = 1 => Scaled(-a.m, i) = (-a.m) \div 2 ^ 1
          BY DEF Scaled
        <5> QED  BY <5>1, <5>2, <5>3, Zenon
      <4>2. -a.m = 2 * H
        <5> HIDE DEF H
        <5> QED  BY <2>2, <2>9
      <4> HIDE DEF H
      <4>3. (2 * H) \div 2 = H
        BY <2>2
      <4> QED  BY <2>5, <4>1, <4>2, <4>3
    <3>2. Normal(Scaled(-a.m, -1), ScAcc)
      <4> DEFINE m == Scaled(-a.m, -1)
      <4>1. m \in Int /\ H <= m /\ m < 2 * H
        <5> HIDE DEF H, m
        <5> QED  BY <2>2, <3>1 DEF m
      <4> HIDE DEF m
      <4> QED  BY <2>3, <4>1 DEF m
    <3>3. AccNegate(a).e = a.e - (-1)
      BY <2>7, <3>2
    <3> QED  BY <1>1, <1>3, <3>3, FarWidths
  <2>10. CASE a.m # H /\ a.m # -(2 * H)
    <3>1. Scaled(-a.m, 0) = -a.m
      BY <2>2, <2>5 DEF Scaled
    <3>2. Normal(Scaled(-a.m, 0), ScAcc)
      <4>1. (H <= -a.m /\ -a.m < 2 * H) \/ (-(2 * H) <= -a.m /\ -a.m < -H)
        <5> HIDE DEF H
        <5> QED  BY <2>2, <2>10
      <4> QED  BY <2>3, <2>6, <3>1, <4>1
    <3>3. AccNegate(a).e = a.e - 0
      BY <2>7, <3>2
    <3> QED  BY <1>1, <1>3, <3>3, FarWidths
  <2> QED  BY <2>8, <2>9, <2>10
<1> QED  BY <1>2, <1>3

\* What exec_da() hands its adder are the terms of the exact sum.
LEMMA DaTerms ==
  ASSUME NEW d0, NEW t, t = LatencyTick(d0), Typing(t), NEW w, w.op = "da", WellFormed(w),
         NEW t1, t1 = DaReadMoves(t, w.x, 4), NEW t2, t2 = DaReadMoves(t1, w.y, 4),
         NEW X, X = DaRead(t, w.x), OperandOK(X, FloatWord),
         NEW Y, Y = DaRead(t1, w.y), OperandOK(Y, FloatWord)
  PROVE  LET ts  == SumTerms(d0, w)
             ad  == AdderIn(t2, w, Y)
             p   == ProductIn(t2, w, X, Y)
             sum == DauAdd(IF w.fs THEN AccNegate(ad) ELSE ad, IF w.ss THEN [p EXCEPT !.m = -@] ELSE p)
             s   == TermSum(ts[1], ts[2])
         IN  /\ ts = <<ts[1], ts[2]>> /\ IsTerm(ts[1]) /\ ts[1].e \in 0 .. 2 * Bias
             /\ IsTerm(ts[2]) /\ IsWhole(ts[2])
             /\ -(8 * 2 ^ ScMul) <= s.m /\ s.m <= 8 * 2 ^ ScMul
             /\ sum = Truncated(s)
<1> DEFINE ad == AdderIn(t2, w, Y)
           p  == ProductIn(t2, w, X, Y)
           a  == IF w.fs THEN AccNegate(ad) ELSE ad
           q  == IF w.ss THEN [p EXCEPT !.m = -@] ELSE p
           A  == [m |-> IF a.e = 0 THEN 0 ELSE a.m * 2 ^ (ScMul - ScAcc), e |-> a.e]
           B  == [m |-> IF w.ss THEN -p.m ELSE p.m, e |-> p.e]
           ts == SumTerms(d0, w)
<1>1. Typing(t1) /\ Typing(t2) /\ t1.a = t.a /\ t1.aPipe = t.aPipe /\ t2.a = t.a /\ t2.aPipe = t1.aPipe
  BY ReadMovesTyping DEF SameDau
<1>2. p = ProductIn(t1, w, X, Y)
  BY <1>1 DEF ProductIn
<1>3. ts = <<A, B>>
  BY <1>2 DEF SumTerms
<1>4. IF w.fmt = 1 THEN w.m \in AccNo \cup {4, 5, 6} ELSE w.m \in AccNo \cup {4, 5}
  BY DEF WellFormed
<1>5. X.raw \in FloatWord /\ Y.raw \in FloatWord /\ IsAcc(DaAdder(Y))
  BY FloatOperand
<1>6. OneWord \in FloatWord /\ IsAcc(AccUnpack(OneWord)) /\ IsAcc(Zero)
  BY SpecialWords, Unpacked, ZeroIsAcc
<1>7. \A n \in AccNo : IsAcc(t2.a[n]) /\ AccPack(t2.aPipe[3][n]) \in FloatWord
  <2>1. 3 \in 1..3
    OBVIOUS
  <2> QED  BY <1>1, <2>1, Packed DEF Typing
<1>8. IsAcc(ad)
  BY <1>4, <1>5, <1>6, <1>7 DEF AdderIn
<1>9. IsTerm(p) /\ IsWhole(p)
  <2>1. IsTerm(Zero) /\ IsWhole(Zero)
    <3>1. 2 ^ ScMul \in Nat /\ 0 \in 2 - Bias .. 3 * Bias
      BY ProductUnits, FarWidths
    <3> QED  BY <3>1 DEF IsTerm, IsWhole, Zero
  <2>2. CASE w.fmt # 1
    BY <1>5, <2>2, ProductTerm DEF ProductIn
  <2>3. CASE w.fmt = 1 /\ w.m = 4
    BY <2>1, <2>3 DEF ProductIn
  <2>4. CASE w.fmt = 1 /\ w.m # 4
    <3> DEFINE m == IF w.m \in {5, 6} THEN OneWord ELSE AccPack(t2.aPipe[3][w.m])
    <3>1. m \in FloatWord
      BY <1>4, <1>6, <1>7, <2>4
    <3>2. p = DauMul(m, X.raw)
      BY <2>4 DEF ProductIn
    <3> HIDE DEF m, p
    <3> QED  BY <1>5, <3>1, <3>2, ProductTerm
  <2> QED  BY <2>2, <2>3, <2>4
<1> HIDE DEF ad, p, ts
<1>10. IsSum(a) /\ a.e \in 0 .. 2 * Bias
  <2>1. CASE w.fs = TRUE
    BY <1>8, <2>1, NegatedSum, NegatedExp
  <2>2. CASE w.fs # TRUE
    <3>1. a = ad
      <4>1. w.fs \in BOOLEAN
        BY DEF WellFormed
      <4> QED  BY <2>2, <4>1
    <3>2. ad.e \in 0 .. 2 * Bias
      BY <1>8, FarWidths DEF IsAcc
    <3> QED  BY <1>8, <3>1, <3>2, AccIsSum
  <2> QED  BY <2>1, <2>2
<1>11. /\ q \in [m: Int, e: 2 - Bias .. 3 * Bias] /\ B = q /\ IsTerm(B) /\ IsWhole(B)
  <2> DEFINE P == 2 ^ ScMul
  <2>1. p \in [m: Int, e: 2 - Bias .. 3 * Bias] /\ -(4 * P) <= p.m /\ p.m <= 4 * P /\ P \in Nat
        /\ (p.m = 0 \/ p.m >= P \/ p.m <= -P)
    BY <1>9, ProductUnits DEF IsTerm, IsWhole
  <2> HIDE DEF P
  <2>2. CASE w.ss = TRUE
    <3>1. q = [p EXCEPT !.m = -p.m] /\ B = [m |-> -p.m, e |-> p.e]
      BY <2>2
    <3>2. q = B /\ B \in [m: Int, e: 2 - Bias .. 3 * Bias] /\ B.m = -p.m
      BY <2>1, <3>1
    <3> HIDE DEF q, B
    <3>3. -(4 * P) <= B.m /\ B.m <= 4 * P /\ (B.m = 0 \/ B.m >= P \/ B.m <= -P)
      BY <2>1, <3>2
    <3> QED  BY <3>2, <3>3 DEF IsTerm, IsWhole, P
  <2>3. CASE w.ss # TRUE
    <3>1. w.ss \in BOOLEAN
      BY DEF WellFormed
    <3>2. q = p /\ B = [m |-> p.m, e |-> p.e]
      BY <2>3, <3>1
    <3> HIDE DEF q, B
    <3>3. B = p
      BY <2>1, <3>2
    <3> QED  BY <1>9, <2>1, <3>2, <3>3
  <2> QED  BY <2>2, <2>3
<1> HIDE DEF a, q, B
<1>12. A.m = Addend(a) /\ A.e = a.e
  BY DEF Addend
<1>13. AlignedSum(a, q) = TermSum(A, B)
  <2>1. AlignedSum(a, q) = IF A.m = 0 THEN q
          ELSE IF q.m = 0 THEN [m |-> A.m, e |-> a.e]
          ELSE IF a.e >= q.e THEN [m |-> A.m + Aligned(q.m, a.e - q.e), e |-> a.e]
          ELSE [m |-> q.m + Aligned(A.m, q.e - a.e), e |-> q.e]
    BY <1>12 DEF AlignedSum
  <2>2. A = [m |-> A.m, e |-> a.e]
    OBVIOUS
  <2> HIDE DEF A
  <2> QED  BY <1>11, <1>12, <2>1, <2>2, Zenon DEF TermSum
<1>14. IsTerm(A)
  <2>1. Addend(a) \in Int /\ -(4 * 2 ^ ScMul) <= Addend(a) /\ Addend(a) <= 4 * 2 ^ ScMul
    BY <1>10, AddendBound
  <2>2. A = [m |-> Addend(a), e |-> a.e]
    BY <1>12
  <2>3. a.e \in 2 - Bias .. 3 * Bias
    BY <1>10, FarWidths
  <2> HIDE DEF A
  <2> QED  BY <2>1, <2>2, <2>3 DEF IsTerm
<1>15. IsProduct(q)
  BY <1>11, FarWidths DEF IsTerm, IsProduct
<1>16. LET s == TermSum(A, B) IN -(8 * 2 ^ ScMul) <= s.m /\ s.m <= 8 * 2 ^ ScMul
  BY <1>10, <1>13, <1>15, AlignedSumBound
<1>17. DauAdd(a, q) = Truncated(TermSum(A, B))
  <2>1. DauAdd(a, q) = Truncated(AlignedSum(a, q))
    BY DEF DauAdd, Truncated, AlignedSum, Addend
  <2> QED  BY <1>13, <2>1
<1> HIDE DEF A
<1>18. ts[1] = A /\ ts[2] = B /\ ts = <<ts[1], ts[2]>>
  BY <1>3
<1> QED  BY <1>10, <1>11, <1>12, <1>14, <1>16, <1>17, <1>18 DEF ts, a, q, ad, p

\* What exec_da() has left when it completes.
LEMMA DaResult ==
  ASSUME NEW t, Typing(t), t.raised = {}, NEW w, w.op = "da", WellFormed(w),
         Fits(t, w.x, FloatWord), Fits(DaReadMoves(t, w.x, 4), w.y, FloatWord),
         BUSERR \notin ExecDa(t, w).raised
  PROVE  LET X   == DaRead(t, w.x)
             t1  == DaReadMoves(t, w.x, 4)
             Y   == DaRead(t1, w.y)
             t2  == DaReadMoves(t1, w.y, 4)
             ad  == AdderIn(t2, w, Y)
             p   == ProductIn(t2, w, X, Y)
             sum == DauAdd(IF w.fs THEN AccNegate(ad) ELSE ad, IF w.ss THEN [p EXCEPT !.m = -@] ELSE p)
             r   == DaRange(sum)
             u   == ExecDa(t, w)
         IN  /\ OperandOK(X, FloatWord) /\ OperandOK(Y, FloatWord)
             /\ u.a[w.n] = r
             /\ u.dau = [N |-> Negative(r), Z |-> r.e = 0, U |-> TooSmall(sum), V |-> OutOfRange(sum)]
             /\ UV \in u.raised <=> TooSmall(sum) \/ OutOfRange(sum)
<1> DEFINE X   == DaRead(t, w.x)
           t1  == DaReadMoves(t, w.x, 4)
           Y   == DaRead(t1, w.y)
           t2  == DaReadMoves(t1, w.y, 4)
           ad  == AdderIn(t2, w, Y)
           p   == ProductIn(t2, w, X, Y)
           sum == DauAdd(IF w.fs THEN AccNegate(ad) ELSE ad, IF w.ss THEN [p EXCEPT !.m = -@] ELSE p)
           r   == DaRange(sum)
           f   == [N |-> Negative(r), Z |-> r.e = 0, U |-> TRUE /\ TooSmall(sum), V |-> TRUE /\ OutOfRange(sum)]
           h   == WithFlags(t2, f)
           fl  == DaFlags(t2, sum, TRUE)
           v   == IF ~Tap(w) THEN AccPack(fl.res)
                  ELSE IF Y.acc THEN AccPack([t2.a EXCEPT ![w.n] = fl.res][Y.n]) ELSE Y.raw
           b   == [fl.t EXCEPT !.a[w.n] = fl.res]
           z   == DaStoreZ(b, w.z, Y, 4, v)
           u   == ExecDa(t, w)
<1>1. u = IF DaReadFaults(t, w.x) THEN Raise(t, BUSERR)
          ELSE IF DaReadFaults(t1, w.y) THEN Raise(t1, BUSERR) ELSE z
  BY DEF ExecDa, Finish
<1>2. Operand(w.x) /\ Operand(w.y) /\ w.n \in AccNo
  BY DEF WellFormed
<1>3. Typing(t1) /\ Typing(t2) /\ Shape(t) /\ Shape(t1) /\ Shape(t2)
  BY ReadMovesTyping DEF Typing
<1>4. BUSERR \in Raise(t, BUSERR).raised /\ BUSERR \in Raise(t1, BUSERR).raised
  BY <1>3, RaiseKeeps
<1>5. ~DaReadFaults(t, w.x) /\ ~DaReadFaults(t1, w.y)
  <2> HIDE DEF u, z, t1
  <2> QED  BY <1>1, <1>4 DEF u
<1>6. t2.raised = {}
  <2>1. t1.raised = {} /\ t2.raised = t1.raised
    BY <1>3, ReadMovesKeeps
  <2> QED  BY <2>1
<1>7. OperandOK(X, FloatWord)
  BY <1>2, <1>5, ReadOperand
<1>8. OperandOK(Y, FloatWord)
  <2> HIDE DEF t1
  <2> QED  BY <1>2, <1>3, <1>5, ReadOperand DEF t1
<1>9. IsSum(sum)
  <2> HIDE DEF X, Y, t2
  <2> QED  BY <1>3, <1>7, <1>8, SumTyping
<1> HIDE DEF sum, t2
<1>10. Typing(fl.t) /\ IsAcc(fl.res)
  BY <1>3, <1>9, DaFlagsTyping
<1>11. fl.t = (IF f.U \/ f.V THEN Raise(h, UV) ELSE h) /\ fl.res = r
  BY DEF DaFlags
<1>12. Shape(h) /\ h.dau = f /\ h.raised = {}
  BY <1>3, <1>6, SMT DEF Shape, StateFields, WithFlags
<1>13. fl.t.dau = f /\ fl.t.raised = IF f.U \/ f.V THEN {UV} ELSE {}
  <2>1. Raise(h, UV).dau = h.dau /\ Raise(h, UV).raised = h.raised \cup {UV}
    <3> HIDE DEF h
    <3> QED  BY <1>12, RaiseKeeps
  <2> HIDE DEF fl, f, h
  <2> QED  BY <1>11, <1>12, <2>1
<1> HIDE DEF fl, v, Y, f
<1>14. Shape(b) /\ b.a[w.n] = r /\ b.dau = f /\ b.raised = fl.t.raised
  BY <1>2, <1>10, <1>11, <1>13, SMT DEF Typing, Shape, StateFields
<1> HIDE DEF b, r
<1>15. z.a = b.a /\ z.dau = b.dau /\ (UV \in z.raised <=> UV \in b.raised)
  <2> DEFINE m == [b EXCEPT !.mem[ZAddr(b, w.z, Y)] = v]
  <2>1. Shape(m) /\ m.a = b.a /\ m.dau = b.dau /\ m.raised = b.raised
    BY <1>14, SMT DEF Shape, StateFields
  <2>2. z \in {b, Raise(b, BUSERR), DaPostmod(m, ZReg(w.z, Y), w.z.i, 4)}
    BY Zenon DEF DaStoreZ
  <2> HIDE DEF m
  <2>3. UV # BUSERR
    BY DEF UV, BUSERR
  <2> QED  BY <1>14, <2>1, <2>2, <2>3, RaiseKeeps, PostmodKeeps
<1> HIDE DEF z, u
<1>16. u = z
  BY <1>1, <1>5
<1>17. f = [N |-> Negative(r), Z |-> r.e = 0, U |-> TooSmall(sum), V |-> OutOfRange(sum)]
  BY DEF f, TooSmall, OutOfRange
<1>18. UV \in u.raised <=> TooSmall(sum) \/ OutOfRange(sum)
  BY <1>13, <1>14, <1>15, <1>16, <1>17
<1> QED  BY <1>7, <1>8, <1>14, <1>15, <1>16, <1>17, <1>18 DEF X, Y, t2, sum, r, u

\* A step that completes a multiply/accumulate, seen from its exact terms.
LEMMA DaStep ==
  ASSUME Inv2, Typed, Step, Completes("da")
  PROVE  LET w  == Head(prog)
             ts == SumTerms(d, w)
             s  == TermSum(ts[1], ts[2])
             a  == Truncated(s)
             r  == DaRange(a)
         IN  /\ ts = <<ts[1], ts[2]>> /\ IsTerm(ts[1]) /\ ts[1].e \in 0 .. 2 * Bias
             /\ IsTerm(ts[2]) /\ IsWhole(ts[2])
             /\ -(8 * 2 ^ ScMul) <= s.m /\ s.m <= 8 * 2 ^ ScMul
             /\ d'.a[w.n] = r
             /\ d'.dau = [N |-> Negative(r), Z |-> r.e = 0, U |-> TooSmall(a), V |-> OutOfRange(a)]
             /\ UV \in d'.raised <=> TooSmall(a) \/ OutOfRange(a)
<1> DEFINE w  == Head(prog)
           t  == LatencyTick(d)
           t1 == DaReadMoves(t, w.x, 4)
           t2 == DaReadMoves(t1, w.y, 4)
           X  == DaRead(t, w.x)
           Y  == DaRead(t1, w.y)
           ad  == AdderIn(t2, w, Y)
           p   == ProductIn(t2, w, X, Y)
           sum == DauAdd(IF w.fs THEN AccNegate(ad) ELSE ad, IF w.ss THEN [p EXCEPT !.m = -@] ELSE p)
           ts  == SumTerms(d, w)
           s   == TermSum(ts[1], ts[2])
<1>1. /\ d' = Executed(d, w) /\ WellFormed(w) /\ Typing(d) /\ w.op = "da" /\ BUSERR \notin d'.raised
      /\ Fits(d, w.x, FloatWord) /\ Fits(DaReadMoves(d, w.x, 4), w.y, FloatWord)
  BY TailProgram DEF Step, Completes, Inv2, Inv1, Inv0, Typed
<1> HIDE DEF w
<1>2. d' = ExecDa(t, w) /\ Typing(t) /\ t.a = d.a /\ t.r = d.r /\ t.mem = d.mem /\ t.raised = {}
  BY <1>1, TickKeeps, TickTyping DEF Executed, ExecInsn, Typing, Kept
<1>3. t = LatencyTick(d)
  OBVIOUS
<1> HIDE DEF t
<1>4. Fits(t, w.x, FloatWord)
  BY <1>1, <1>2 DEF Fits, DaReadFaults, Mapped
<1>5. Fits(t1, w.y, FloatWord)
  <2> DEFINE u == DaReadMoves(d, w.x, 4)
  <2>1. t1.mem = t.mem /\ u.mem = d.mem
    BY <1>1, <1>2, ReadMovesTyping
  <2>2. t1.r = u.r
    <3>1. Shape(t) /\ Shape(d)
      BY <1>1, <1>2 DEF Typing
    <3> QED  BY <1>2, <3>1, SMT DEF DaReadMoves, DaPostmod, Shape, StateFields
  <2> HIDE DEF t1, u
  <2> QED  BY <1>1, <1>2, <2>1, <2>2 DEF Fits, DaReadFaults, Mapped, u
<1> DEFINE r == DaRange(sum)
<1>6. /\ OperandOK(X, FloatWord) /\ OperandOK(Y, FloatWord)
      /\ d'.a[w.n] = r
      /\ d'.dau = [N |-> Negative(r), Z |-> r.e = 0, U |-> TooSmall(sum), V |-> OutOfRange(sum)]
      /\ UV \in d'.raised <=> TooSmall(sum) \/ OutOfRange(sum)
  <2>1. BUSERR \notin ExecDa(t, w).raised
    BY <1>1, <1>2
  <2>2. Fits(DaReadMoves(t, w.x, 4), w.y, FloatWord)
    BY <1>5
  <2>3. Typing(t) /\ t.raised = {} /\ w.op = "da" /\ WellFormed(w) /\ Fits(t, w.x, FloatWord)
    BY <1>1, <1>2, <1>4
  <2>4. LET X_1   == DaRead(t, w.x)
            t1_1  == DaReadMoves(t, w.x, 4)
            Y_1   == DaRead(t1_1, w.y)
            t2_1  == DaReadMoves(t1_1, w.y, 4)
            ad_1  == AdderIn(t2_1, w, Y_1)
            p_1   == ProductIn(t2_1, w, X_1, Y_1)
            sum_1 == DauAdd(IF w.fs THEN AccNegate(ad_1) ELSE ad_1, IF w.ss THEN [p_1 EXCEPT !.m = -@] ELSE p_1)
            r_1   == DaRange(sum_1)
            u_1   == ExecDa(t, w)
        IN  /\ OperandOK(X_1, FloatWord) /\ OperandOK(Y_1, FloatWord)
            /\ u_1.a[w.n] = r_1
            /\ u_1.dau = [N |-> Negative(r_1), Z |-> r_1.e = 0, U |-> TooSmall(sum_1), V |-> OutOfRange(sum_1)]
            /\ UV \in u_1.raised <=> TooSmall(sum_1) \/ OutOfRange(sum_1)
    BY ONLY <2>1, <2>2, <2>3, DaResult, Zenon
  <2> DEFINE u == ExecDa(t, w)
  <2>5. /\ OperandOK(X, FloatWord) /\ OperandOK(Y, FloatWord)
        /\ u.a[w.n] = r
        /\ u.dau = [N |-> Negative(r), Z |-> r.e = 0, U |-> TooSmall(sum), V |-> OutOfRange(sum)]
        /\ UV \in u.raised <=> TooSmall(sum) \/ OutOfRange(sum)
    BY <2>4, Zenon
  <2>6. d' = u
    BY <1>2
  <2> HIDE DEF X, Y, sum, r, u
  <2> QED  BY <2>5, <2>6
<1>7. /\ ts = <<ts[1], ts[2]>> /\ IsTerm(ts[1]) /\ ts[1].e \in 0 .. 2 * Bias
      /\ IsTerm(ts[2]) /\ IsWhole(ts[2])
      /\ -(8 * 2 ^ ScMul) <= s.m /\ s.m <= 8 * 2 ^ ScMul
      /\ sum = Truncated(s)
  <2>1. /\ t = LatencyTick(d) /\ Typing(t) /\ w.op = "da" /\ WellFormed(w)
        /\ t1 = DaReadMoves(t, w.x, 4) /\ t2 = DaReadMoves(t1, w.y, 4)
        /\ X = DaRead(t, w.x) /\ OperandOK(X, FloatWord) /\ Y = DaRead(t1, w.y) /\ OperandOK(Y, FloatWord)
    BY <1>1, <1>2, <1>3, <1>6
  <2> HIDE DEF t1, t2, X, Y
  <2>2. LET ts_1  == SumTerms(d, w)
            ad_1  == AdderIn(t2, w, Y)
            p_1   == ProductIn(t2, w, X, Y)
            sum_1 == DauAdd(IF w.fs THEN AccNegate(ad_1) ELSE ad_1, IF w.ss THEN [p_1 EXCEPT !.m = -@] ELSE p_1)
            s_1   == TermSum(ts_1[1], ts_1[2])
        IN  /\ ts_1 = <<ts_1[1], ts_1[2]>> /\ IsTerm(ts_1[1]) /\ ts_1[1].e \in 0 .. 2 * Bias
            /\ IsTerm(ts_1[2]) /\ IsWhole(ts_1[2])
            /\ -(8 * 2 ^ ScMul) <= s_1.m /\ s_1.m <= 8 * 2 ^ ScMul
            /\ sum_1 = Truncated(s_1)
    BY ONLY <2>1, DaTerms, SMTT(60)
  <2> QED  BY <2>2, Zenon
<1> HIDE DEF sum, ts, s
<1> QED  BY <1>6, <1>7 DEF ts, s, w

\* Of every sum of two terms within the adder's reach of each other: overflow,
\* saturation and sign by the exact sum, zero and flushing by the floored sum that
\* the alignment leaves, and vector 5 with U or V (da_flags).
THEOREM SumsJudged == Spec /\ []Typed => RangeJudged
<1> DEFINE Judge ==
      Completes("da") =>
        LET w  == Head(prog)
            ts == SumTerms(d, w)
            x  == ExactSum(ts)
            y  == FlooredSum(ts)
            tooLarge == ~Less(x, 1, MaxExp + 1)
            tooSmall == Less(x, -1, MaxExp + 1)
            tiny     == Less(y, 1, 1) /\ ~Less(y, -1, 1)
        IN  ~Distant(ts) =>
              /\ d'.dau.V <=> tooLarge \/ tooSmall
              /\ tooLarge => d'.a[w.n] = Largest
              /\ tooSmall => d'.a[w.n] = Smallest
              /\ d'.a[w.n].e = 0 <=> tiny
              /\ d'.dau.Z <=> tiny
              /\ d'.dau.N <=> x.m < 0 /\ ~tiny
              /\ d'.dau.U => tiny
              /\ UV \in d'.raised <=> d'.dau.U \/ d'.dau.V
<1>1. Inv2 /\ Typed /\ [Next]_vars => [Judge]_vars
  <2> DEFINE w  == Head(prog)
             ts == SumTerms(d, w)
             x  == ExactSum(ts)
             y  == FlooredSum(ts)
             a  == Truncated(TermSum(ts[1], ts[2]))
             r  == DaRange(a)
             tooLarge == ~Less(x, 1, MaxExp + 1)
             tooSmall == Less(x, -1, MaxExp + 1)
             tiny     == Less(y, 1, 1) /\ ~Less(y, -1, 1)
  <2> SUFFICES ASSUME Inv2, Typed, Step, Completes("da"), ~Distant(ts)
               PROVE  /\ d'.dau.V <=> tooLarge \/ tooSmall
                      /\ tooLarge => d'.a[w.n] = Largest
                      /\ tooSmall => d'.a[w.n] = Smallest
                      /\ d'.a[w.n].e = 0 <=> tiny
                      /\ d'.dau.Z <=> tiny
                      /\ d'.dau.N <=> x.m < 0 /\ ~tiny
                      /\ d'.dau.U => tiny
                      /\ UV \in d'.raised <=> d'.dau.U \/ d'.dau.V
    BY DEF Next
  <2>1. LET s == TermSum(ts[1], ts[2]) IN
        /\ ts = <<ts[1], ts[2]>> /\ IsTerm(ts[1]) /\ ts[1].e \in 0 .. 2 * Bias
        /\ IsTerm(ts[2]) /\ IsWhole(ts[2])
        /\ -(8 * 2 ^ ScMul) <= s.m /\ s.m <= 8 * 2 ^ ScMul
        /\ d'.a[w.n] = r
        /\ d'.dau = [N |-> Negative(r), Z |-> r.e = 0, U |-> TooSmall(a), V |-> OutOfRange(a)]
        /\ UV \in d'.raised <=> TooSmall(a) \/ OutOfRange(a)
    BY DaStep, Zenon
  <2> HIDE DEF w, ts, a, r
  <2>2. /\ OutOfRange(a) <=> tooLarge \/ tooSmall
        /\ tooLarge => r = Largest
        /\ tooSmall => r = Smallest
        /\ r.e = 0 <=> tiny
        /\ Negative(r) <=> x.m < 0 /\ ~tiny
        /\ TooSmall(a) => tiny
    <3> DEFINE A == ts[1]
               B == ts[2]
    <3>1. ts = <<A, B>>
      BY <2>1
    <3> HIDE DEF A, B
    <3>2. /\ IsTerm(A) /\ A.e \in 0 .. 2 * Bias /\ IsTerm(B) /\ IsWhole(B) /\ ~Distant(<<A, B>>)
          /\ LET s == TermSum(A, B) IN -(8 * 2 ^ ScMul) <= s.m /\ s.m <= 8 * 2 ^ ScMul
      BY <2>1, <3>1 DEF A, B
    <3>3. LET x_1 == ExactSum(<<A, B>>)
              y_1 == FlooredSum(<<A, B>>)
              a_1 == Truncated(TermSum(A, B))
              r_1 == DaRange(a_1)
              tooLarge_1 == ~Less(x_1, 1, MaxExp + 1)
              tooSmall_1 == Less(x_1, -1, MaxExp + 1)
              tiny_1     == Less(y_1, 1, 1) /\ ~Less(y_1, -1, 1)
         IN  /\ OutOfRange(a_1) <=> tooLarge_1 \/ tooSmall_1
             /\ tooLarge_1 => r_1 = Largest
             /\ tooSmall_1 => r_1 = Smallest
             /\ r_1.e = 0 <=> tiny_1
             /\ Negative(r_1) <=> x_1.m < 0 /\ ~tiny_1
             /\ TooSmall(a_1) => tiny_1
      BY <3>2, SumJudged, Zenon
    <3>4. a = Truncated(TermSum(A, B)) /\ r = DaRange(a)
      BY DEF a, r, A, B
    <3> HIDE DEF tooLarge, tooSmall, tiny
    <3> QED  BY <3>1, <3>3, <3>4, Zenon DEF tooLarge, tooSmall, tiny
  <2> HIDE DEF tooLarge, tooSmall, tiny, x
  <2>3. /\ d'.dau.N = Negative(r) /\ d'.dau.Z = (r.e = 0) /\ d'.dau.U = TooSmall(a) /\ d'.dau.V = OutOfRange(a)
        /\ d'.a[w.n] = r /\ (UV \in d'.raised <=> TooSmall(a) \/ OutOfRange(a))
    BY <2>1
  <2> QED  BY <2>2, <2>3, Zenon
<1>2. RangeJudged <=> [][Judge]_vars
  BY DEF RangeJudged
<1> HIDE DEF Judge
<1>3. Inv2 /\ []Typed /\ [][Next]_vars => [][Judge]_vars
  BY <1>1, StepTyping, PTL
<1> QED  BY <1>2, <1>3, InitTyping, PTL DEF Spec

\* Scaling up or down, then down again, is one floor.
LEMMA ScaledTwice ==
  ASSUME NEW m \in Int, NEW k \in -(ScMul + 4) .. ScMul + 1,
         NEW g, g = ScMul - ScAcc, NEW t, t = Scaled(Scaled(m, k), ScAcc - ScMul)
  PROVE  /\ t \in Int
         /\ k >= g => 2 ^ (k - g) \in Nat \ {0} /\ t = m * 2 ^ (k - g)
         /\ k < g  => LET q == 2 ^ (g - k) IN q \in Nat \ {0} /\ 0 <= m - t * q /\ m - t * q < q
<1> DEFINE n == Scaled(m, k)
           c == 2 ^ g
<1>1. g \in 0..FarExp /\ k \in Int /\ g \in Int
  BY DauWidths, FarWidths
<1>2. c \in Nat \ {0}
  BY <1>1, FarRise
<1>3. n \in Int /\ (k >= 0 => 2 ^ k \in Nat \ {0} /\ n = m * 2 ^ k)
      /\ (k < 0 => 2 ^ (-k) \in Nat \ {0} /\ n = m \div 2 ^ (-k))
  <2>1. CASE k >= 0
    <3>1. 2 ^ k \in Nat \ {0}
      <4>1. k \in 0..FarExp
        BY <2>1, FarWidths
      <4> QED  BY <4>1, FarRise
    <3> DEFINE s == 2 ^ k
    <3>2. n = m * s
      BY <2>1 DEF Scaled
    <3> HIDE DEF s, n
    <3> QED  BY <2>1, <3>1, <3>2 DEF s
  <2>2. CASE k < 0
    <3>1. 2 ^ (-k) \in Nat \ {0}
      <4>1. -k \in 0..FarExp
        BY <2>2, FarWidths
      <4> QED  BY <4>1, FarRise
    <3> DEFINE s == 2 ^ (-k)
    <3>2. n = m \div s
      BY <1>1, <2>2 DEF Scaled
    <3> HIDE DEF s, n
    <3>3. n \in Int
      BY <3>1, <3>2, DivSpec DEF s
    <3> QED  BY <2>2, <3>1, <3>2, <3>3 DEF s
  <2> QED  BY <1>1, <2>1, <2>2
<1>4. t \in Int /\ \A i \in Int : i <= t <=> i * c <= n
  <2> HIDE DEF n, c
  <2>1. CASE g = 0
    <3>1. ScAcc - ScMul = 0
      BY <1>1, <2>1, DauWidths
    <3>2. 2 ^ 0 = 1
      OBVIOUS
    <3>3. c = 1
      BY <2>1, <3>2 DEF c
    <3>4. Scaled(n, 0) = n * 2 ^ 0
      BY DEF Scaled
    <3>5. t = n
      BY <1>3, <3>1, <3>2, <3>4 DEF n
    <3> QED  BY <1>3, <3>3, <3>5
  <2>2. CASE g # 0
    <3>1. t = n \div c
      <4>1. -(ScAcc - ScMul) = g /\ ~(ScAcc - ScMul >= 0)
        BY <1>1, <2>2, DauWidths
      <4> QED  BY <4>1 DEF Scaled, n, c
    <3> HIDE DEF n, c
    <3> QED  BY <1>2, <1>3, <3>1, DivSpec, DivAtLeast
  <2> QED  BY <2>1, <2>2
<1> HIDE DEF n, c
<1>5. CASE k >= g
  <2> DEFINE s == 2 ^ (k - g)
  <2>1. k \in 0..FarExp /\ g <= k /\ k >= 0
    BY <1>1, <1>5, FarWidths
  <2>2. s \in Nat \ {0} /\ 2 ^ k = s * c
    BY <1>1, <2>1, FarRise DEF c
  <2> HIDE DEF s
  <2>3. n = (m * s) * c /\ m * s \in Int
    BY <1>2, <1>3, <2>1, <2>2
  <2>4. \A i \in Int : i <= t <=> i <= m * s
    <3> TAKE i \in Int
    <3>1. i <= m * s <=> i * c <= (m * s) * c
      BY <1>2, <2>3, TimesKeepsOrder
    <3> QED  BY <1>4, <2>3, <3>1
  <2>5. t <= m * s /\ m * s <= t
    BY <1>4, <2>3, <2>4
  <2>6. t = m * s
    BY <1>4, <2>3, <2>5
  <2> QED  BY <1>1, <1>4, <1>5, <2>2, <2>6 DEF s
<1>6. CASE k < g
  <2> DEFINE q == 2 ^ (g - k)
  <2>1. q \in Nat \ {0} /\ \A i \in Int : i * c <= n <=> i * q <= m
    <3>1. CASE k >= 0
      <4> DEFINE s == 2 ^ k
      <4>1. k \in 0..FarExp /\ k <= g
        BY <1>1, <1>6, <3>1, FarWidths
      <4>2. s \in Nat \ {0} /\ q \in Nat \ {0} /\ c = q * s
        BY <1>1, <4>1, FarRise DEF c
      <4>3. n = m * s
        BY <1>3, <3>1
      <4> HIDE DEF s, q
      <4>4. \A i \in Int : i * c = (i * q) * s /\ i * q \in Int
        BY <4>2
      <4>5. \A i \in Int : i * c <= n <=> i * q <= m
        <5> TAKE i \in Int
        <5>1. i * q <= m <=> (i * q) * s <= m * s
          BY <4>2, <4>4, TimesKeepsOrder
        <5> QED  BY <4>3, <4>4, <5>1
      <4> QED  BY <4>2, <4>5
    <3>2. CASE k < 0
      <4> DEFINE s == 2 ^ (-k)
      <4>1. g - k \in 0..FarExp /\ g <= g - k /\ (g - k) - g = -k
        BY <1>1, <3>2, FarWidths, DauWidths
      <4>2. q \in Nat \ {0} /\ q = s * c /\ s \in Nat \ {0}
        BY <1>1, <4>1, FarRise DEF c
      <4>3. n = m \div s
        BY <1>3, <3>2
      <4> HIDE DEF s, q
      <4>4. \A i \in Int : i * q = (i * c) * s /\ i * c \in Int
        BY <1>2, <4>2
      <4>5. \A i \in Int : i * c <= n <=> i * q <= m
        <5> TAKE i \in Int
        <5>1. i * c <= m \div s <=> (i * c) * s <= m
          BY <4>2, <4>4, DivAtLeast
        <5> QED  BY <4>3, <4>4, <5>1
      <4> QED  BY <4>2, <4>5
    <3> QED  BY <1>1, <3>1, <3>2
  <2> HIDE DEF q
  <2>2. \A i \in Int : i <= t <=> i * q <= m
    BY <1>4, <2>1
  <2>3. t * q <= m /\ ~((t + 1) * q <= m)
    BY <1>4, <2>2
  <2>4. (t + 1) * q = t * q + q /\ t * q \in Int
    BY <1>4, <2>1
  <2> QED  BY <1>1, <1>4, <1>6, <2>1, <2>3, <2>4 DEF q
<1> QED  BY <1>1, <1>5, <1>6

\* Where the terms of a sum lie above the unit in which its loss is measured.
LEMMA TermPlaces ==
  ASSUME NEW A, IsTerm(A), A.e \in 0 .. 2 * Bias, NEW B, IsTerm(B), NEW v \in 1 .. MaxExp
  PROVE  LET x == ExactSum(<<A, B>>)
             s == TermSum(A, B)
             u == Lower(x.e, v)
             h == Higher(A.e, B.e)
         IN  /\ s.e <= h /\ h - u \in 0..FarExp /\ u \in Int /\ h \in Int
             /\ x.e \in Int /\ u <= x.e /\ u <= v /\ 2 - Bias <= u
<1> DEFINE x == ExactSum(<<A, B>>)
           s == TermSum(A, B)
           u == Lower(x.e, v)
           h == Higher(A.e, B.e)
<1>1. A.e \in Int /\ B.e \in 2 - Bias .. 3 * Bias /\ B.e \in Int /\ v \in Int /\ A.e <= 2 * Bias
  BY FarWidths DEF IsTerm
<1>2. s.e = IF A.m = 0 THEN B.e ELSE IF B.m = 0 THEN A.e ELSE IF A.e >= B.e THEN A.e ELSE B.e
  BY DEF TermSum
<1>3. x.e = IF A.m = 0 THEN B.e ELSE IF B.m = 0 THEN A.e ELSE IF A.e < B.e THEN A.e ELSE B.e
  BY DEF ExactSum, Lower
<1>4. u = IF x.e < v THEN x.e ELSE v
  BY DEF Lower
<1>5. h = IF A.e > B.e THEN A.e ELSE B.e
  BY DEF Higher
<1> HIDE DEF x, s, u, h
<1> QED  BY <1>1, <1>2, <1>3, <1>4, <1>5, FarWidths DEF x, s, u, h

\* What a result in range loses of the exact sum.
LEMMA SumLoses ==
  ASSUME NEW A, IsTerm(A), A.e \in 0 .. 2 * Bias, NEW B, IsTerm(B),
         LET s == TermSum(A, B) IN -(8 * 2 ^ ScMul) <= s.m /\ s.m <= 8 * 2 ^ ScMul
  PROVE  LET ts == <<A, B>>
             x  == ExactSum(ts)
             a  == Truncated(TermSum(A, B))
             f  == DaRange(a)
             r  == [m |-> f.m * 2 ^ (ScMul - ScAcc), e |-> f.e]
             u  == Lower(x.e, r.e)
             unit == 2 ^ (Higher(r.e + ScMul - ScAcc, Higher(A.e, B.e)) - u)
             lost == InUnits(x, u) - InUnits(r, u)
         IN  r.e # 0 /\ ~OutOfRange(a) => lost < unit /\ lost > (IF Distant(ts) THEN -unit ELSE -1)
<1> DEFINE ts == <<A, B>>
           x  == ExactSum(ts)
           y  == TermSum(A, B)
           a  == Truncated(y)
           f  == DaRange(a)
           g  == ScMul - ScAcc
           r  == [m |-> f.m * 2 ^ g, e |-> f.e]
           u  == Lower(x.e, r.e)
           top  == Higher(r.e + g, Higher(A.e, B.e))
           unit == 2 ^ (top - u)
           lost == InUnits(x, u) - InUnits(r, u)
           n == y.e - x.e
           D == 2 ^ n
           z == x.m - y.m * D
<1> SUFFICES ASSUME r.e # 0, ~OutOfRange(a)
             PROVE  lost < unit /\ lost > (IF Distant(ts) THEN -unit ELSE -1)
  OBVIOUS
<1>1. /\ x \in [m: Int, e: 2 - Bias .. 3 * Bias] /\ y \in [m: Int, e: 2 - Bias .. 3 * Bias]
      /\ n \in 0..FarExp /\ D \in Nat \ {0} /\ z \in Int /\ -D < z /\ z < D
      /\ ~Distant(ts) => 0 <= z
  BY SumError, Zenon
<1>2. /\ x.m \in Int /\ x.e \in Int /\ y.m \in Int /\ y.e \in Int /\ y \in [m: Int, e: Int]
      /\ g \in 0..FarExp /\ g \in Int
  <2>1. g \in 0..FarExp /\ g \in Int
    BY DauWidths, FarWidths
  <2> HIDE DEF x, y, g
  <2> QED  BY <1>1, <2>1, FarWidths
<1>3. y.m # 0
  <2> SUFFICES ASSUME y.m = 0 PROVE FALSE
    OBVIOUS
  <2>1. a = Zero
    BY <1>2, TruncatedIs
  <2>2. f = Zero
    BY <2>1 DEF DaRange, OutOfRange, TooSmall, Zero
  <2> QED  BY <2>2 DEF Zero
<1>4. PICK k \in -(ScMul + 4) .. ScMul + 1 :
        LET t == Scaled(Scaled(y.m, k), ScAcc - ScMul) IN
        /\ Normal(Scaled(y.m, k), ScMul) /\ Normal(t, ScAcc) /\ t \in Int
        /\ (t < 0 <=> y.m < 0) /\ a = [m |-> t, e |-> y.e - k]
  BY <1>2, <1>3, TruncatedIs
<1> DEFINE t == Scaled(Scaled(y.m, k), ScAcc - ScMul)
           v == y.e - k
<1>5. f = [m |-> t, e |-> v] /\ v \in 1 .. MaxExp /\ v \in Int /\ k \in Int
  <2>1. a.e = v /\ a = [m |-> t, e |-> v] /\ v \in Int /\ k \in Int
    BY <1>2, <1>4, FarWidths
  <2>2. f = IF TooSmall(a) THEN Zero ELSE a
    BY DEF DaRange
  <2>3. f.e # 0
    OBVIOUS
  <2> HIDE DEF a, f, v, t
  <2>4. ~TooSmall(a)
    BY <2>2, <2>3 DEF Zero
  <2> QED  BY <2>1, <2>2, <2>3, <2>4, FarWidths DEF TooSmall, OutOfRange
<1>6. r.m = t * 2 ^ g /\ r.e = v
  BY <1>5
<1> DEFINE h == Higher(A.e, B.e)
<1>7. /\ y.e <= h /\ h - u \in 0..FarExp /\ u \in Int /\ h \in Int
      /\ u <= x.e /\ u <= v /\ 2 - Bias <= u
  <2>1. u = Lower(x.e, v)
    BY <1>6
  <2> HIDE DEF x, y, v, r
  <2> QED  BY <1>5, <2>1, TermPlaces DEF x, y
<1>8. top \in Int /\ v + g <= top /\ h <= top /\ top - u \in 0..FarExp
  <2>1. top = IF v + g > h THEN v + g ELSE h
    BY <1>6 DEF Higher
  <2>2. v + g - u \in Int /\ v + g - u <= FarExp
    <3>1. g <= ScMul
      BY DauWidths
    <3> HIDE DEF v, u, g
    <3> QED  BY <1>2, <1>5, <1>7, <3>1, FarWidths
  <2> HIDE DEF v, u, h, top, g
  <2> QED  BY <1>2, <1>5, <1>7, <2>1, <2>2, FarWidths
<1> DEFINE W == 2 ^ (x.e - u)
           H == 2 ^ (y.e - u)
           K == 2 ^ ((v + g) - u)
           R == 2 ^ (v - u)
           c == 2 ^ g
<1>9. /\ W \in Nat \ {0} /\ H \in Nat \ {0} /\ K \in Nat \ {0} /\ R \in Nat \ {0} /\ c \in Nat \ {0}
      /\ unit \in Nat \ {0} /\ H <= unit /\ K <= unit /\ H = D * W /\ K = R * c
  <2> DEFINE i == x.e - u
             j == y.e - u
             l == (v + g) - u
             o == v - u
             b == top - u
  <2> HIDE DEF x, y, u, v, g, top, h
  <2>1. /\ i \in 0..FarExp /\ j \in 0..FarExp /\ l \in 0..FarExp /\ o \in 0..FarExp /\ b \in 0..FarExp
        /\ i <= j /\ j - i = n /\ j <= b /\ l <= b /\ g <= l /\ l - g = o
    BY <1>1, <1>2, <1>5, <1>7, <1>8, FarWidths
  <2> HIDE DEF i, j, l, o, b, n
  <2>2. 2 ^ i \in Nat \ {0} /\ 2 ^ j \in Nat \ {0} /\ 2 ^ j = D * 2 ^ i
    BY <2>1, FarRise
  <2>3. 2 ^ b \in Nat \ {0} /\ 2 ^ j <= 2 ^ b /\ 2 ^ l <= 2 ^ b /\ 2 ^ l \in Nat \ {0}
    BY <2>1, FarRise
  <2>4. 2 ^ o \in Nat \ {0} /\ c \in Nat \ {0} /\ 2 ^ l = 2 ^ o * c
    BY <1>2, <2>1, FarRise
  <2> QED  BY <2>2, <2>3, <2>4 DEF i, j, l, o, b
<1>10. /\ t \in Int
       /\ k >= g => 2 ^ (k - g) \in Nat \ {0} /\ t = y.m * 2 ^ (k - g)
       /\ k < g  => LET q == 2 ^ (g - k) IN q \in Nat \ {0} /\ 0 <= y.m - t * q /\ y.m - t * q < q
  <2>1. g = ScMul - ScAcc /\ t = Scaled(Scaled(y.m, k), ScAcc - ScMul)
    OBVIOUS
  <2> HIDE DEF y, g, t
  <2> QED  BY <1>2, <2>1, ScaledTwice
<1>11. lost = x.m * W - t * K
  <2>1. InUnits(x, u) = x.m * W
    <3>1. InUnits(x, u) = IF x.m = 0 THEN 0 ELSE x.m * W
      BY DEF InUnits
    <3> HIDE DEF x, W, u
    <3> QED  BY <1>2, <1>9, <3>1
  <2>2. InUnits(r, u) = t * K
    <3>1. InUnits(r, u) = IF r.m = 0 THEN 0 ELSE r.m * 2 ^ (r.e - u)
      BY DEF InUnits
    <3>2. 2 ^ (r.e - u) = R
      BY <1>6
    <3> HIDE DEF r, R, u, t, c, K
    <3>3. r.m = t * c
      BY <1>6 DEF c
    <3>4. (t * c) * R = t * K
      BY <1>9, <1>10
    <3>5. t * c = 0 => (t * c) * R = 0
      BY <1>9
    <3> QED  BY <3>1, <3>2, <3>3, <3>4, <3>5
  <2> HIDE DEF x, r, u, W, K, t
  <2> QED  BY <2>1, <2>2
<1>12. PICK e \in Int : y.m * H - t * K = e /\ 0 <= e /\ (e + H <= H \/ e + H <= K)
  <2>1. CASE k >= g
    <3> DEFINE q == 2 ^ (k - g)
    <3>1. H = q * K
      <4> DEFINE j == y.e - u
                 l == (v + g) - u
      <4>1. j \in 0..FarExp /\ l \in 0..FarExp /\ l <= j /\ j - l = k - g
        <5> HIDE DEF y, u, g, top, h
        <5> QED  BY <1>2, <1>5, <1>7, <1>8, <2>1, FarWidths
      <4> HIDE DEF j, l
      <4>2. 2 ^ j = q * 2 ^ l
        BY <4>1, FarRise
      <4> QED  BY <4>2 DEF j, l
    <3> HIDE DEF H, K, t, q, y, g
    <3>2. q \in Nat \ {0} /\ t = y.m * q
      BY <1>10, <2>1 DEF q
    <3>3. y.m * H = t * K
      BY <1>2, <1>9, <3>1, <3>2
    <3>4. t * K \in Int /\ y.m * H - t * K = 0
      BY <1>9, <1>10, <3>3
    <3> QED  BY <1>9, <3>4
  <2>2. CASE k < g
    <3> DEFINE q == 2 ^ (g - k)
               e == y.m - t * q
    <3>1. K = q * H
      <4> DEFINE j == y.e - u
                 l == (v + g) - u
      <4>1. j \in 0..FarExp /\ l \in 0..FarExp /\ j <= l /\ l - j = g - k
        <5> HIDE DEF y, u, g, top, h
        <5> QED  BY <1>1, <1>2, <1>5, <1>7, <1>8, <2>2, FarWidths
      <4> HIDE DEF j, l
      <4>2. 2 ^ l = q * 2 ^ j
        BY <4>1, FarRise
      <4> QED  BY <4>2 DEF j, l
    <3> HIDE DEF H, K, t, q, y, g
    <3>2. q \in Nat \ {0} /\ 0 <= e /\ e <= q - 1 /\ e \in Int
      <4>1. q \in Nat \ {0} /\ 0 <= y.m - t * q /\ y.m - t * q < q
        BY <1>10, <2>2 DEF q
      <4> QED  BY <1>2, <1>10, <4>1
    <3>3. y.m = t * q + e /\ t * q \in Int
      BY <1>2, <1>10, <3>2
    <3> HIDE DEF e
    <3>4. y.m * H = t * K + e * H /\ t * K \in Int /\ e * H \in Int
      <4>1. (t * q + e) * H = (t * q) * H + e * H /\ (t * q) * H = t * (q * H)
        BY <1>9, <1>10, <3>2
      <4> QED  BY <1>9, <1>10, <3>1, <3>2, <3>3, <4>1
    <3>5. e * H <= (q - 1) * H /\ 0 * H <= e * H /\ (q - 1) * H + H = K
      BY <1>9, <3>1, <3>2, TimesKeepsOrder
    <3> QED  BY <1>9, <3>2, <3>4, <3>5
  <2> QED  BY <1>2, <1>5, <2>1, <2>2
<1>13. z * W \in Int /\ z * W < H /\ -H < z * W /\ (0 <= z => 0 <= z * W)
       /\ x.m * W = y.m * H + z * W
  <2> HIDE DEF x, y, W, H, D
  <2>1. x.m = y.m * D + z
    BY <1>1, <1>2
  <2> HIDE DEF z
  <2>2. x.m * W = y.m * H + z * W
    <3>1. (y.m * D + z) * W = (y.m * D) * W + z * W /\ (y.m * D) * W = y.m * (D * W)
      BY <1>1, <1>2, <1>9
    <3> QED  BY <1>9, <2>1, <3>1
  <2>3. (D <= z <=> D * W <= z * W) /\ (z <= -D <=> z * W <= (-D) * W) /\ (0 <= z <=> 0 * W <= z * W)
    BY <1>1, <1>9, TimesKeepsOrder
  <2>4. (-D) * W = -H /\ z * W \in Int
    BY <1>1, <1>9
  <2> QED  BY <1>1, <1>9, <2>2, <2>3, <2>4
<1> HIDE DEF ts, x, y, r, u, unit, lost, W, H, K, t, z, D
<1>14. lost = z * W + e
  <2>1. t * K \in Int /\ y.m * H \in Int
    BY <1>2, <1>9, <1>10
  <2> QED  BY <1>11, <1>12, <1>13, <2>1
<1>15. lost < unit /\ lost > -unit /\ (~Distant(ts) => 0 <= lost) /\ lost \in Int
  <2> DEFINE m == z * W
  <2>1. /\ m \in Int /\ m < H /\ -H < m /\ (~Distant(ts) => 0 <= m) /\ lost = m + e
        /\ H \in Nat /\ K \in Nat /\ unit \in Nat /\ H <= unit /\ K <= unit
    BY <1>1, <1>9, <1>13, <1>14
  <2> HIDE DEF m
  <2> QED  BY <1>12, <2>1
<1> QED  BY <1>15

\* What a multiply/accumulate loses to its two truncations, of a term aligned
\* and of the sum cut to the mantissa of an accumulator (exec_da, dau_add).
THEOREM SumsTruncated == Spec /\ []Typed => SumTruncates
<1> DEFINE Keep ==
      Completes("da") =>
        LET w  == Head(prog)
            ts == SumTerms(d, w)
            x  == ExactSum(ts)
            r  == [m |-> d'.a[w.n].m * 2 ^ (ScMul - ScAcc), e |-> d'.a[w.n].e]
            u  == Lower(x.e, r.e)
            unit == 2 ^ (Higher(r.e + ScMul - ScAcc, Higher(ts[1].e, ts[2].e)) - u)
            lost == InUnits(x, u) - InUnits(r, u)
        IN  r.e # 0 /\ ~d'.dau.V => lost < unit /\ lost > (IF Distant(ts) THEN -unit ELSE -1)
<1>1. Inv2 /\ Typed /\ [Next]_vars => [Keep]_vars
  <2> DEFINE w  == Head(prog)
             ts == SumTerms(d, w)
             a  == Truncated(TermSum(ts[1], ts[2]))
             f  == DaRange(a)
             x  == ExactSum(ts)
             r  == [m |-> d'.a[w.n].m * 2 ^ (ScMul - ScAcc), e |-> d'.a[w.n].e]
             u  == Lower(x.e, r.e)
             unit == 2 ^ (Higher(r.e + ScMul - ScAcc, Higher(ts[1].e, ts[2].e)) - u)
             lost == InUnits(x, u) - InUnits(r, u)
  <2> SUFFICES ASSUME Inv2, Typed, Step, Completes("da"), r.e # 0 /\ ~d'.dau.V
               PROVE  lost < unit /\ lost > (IF Distant(ts) THEN -unit ELSE -1)
    BY DEF Next
  <2>1. LET s == TermSum(ts[1], ts[2]) IN
        /\ ts = <<ts[1], ts[2]>> /\ IsTerm(ts[1]) /\ ts[1].e \in 0 .. 2 * Bias
        /\ IsTerm(ts[2]) /\ IsWhole(ts[2])
        /\ -(8 * 2 ^ ScMul) <= s.m /\ s.m <= 8 * 2 ^ ScMul
        /\ d'.a[w.n] = f
        /\ d'.dau = [N |-> Negative(f), Z |-> f.e = 0, U |-> TooSmall(a), V |-> OutOfRange(a)]
        /\ UV \in d'.raised <=> TooSmall(a) \/ OutOfRange(a)
    BY DaStep, Zenon
  <2>2. d'.a[w.n] = f /\ (d'.dau.V <=> OutOfRange(a))
    <3> HIDE DEF w, ts, a, f
    <3>1. d'.dau.V = OutOfRange(a)
      BY <2>1
    <3> QED  BY <2>1, <3>1, Zenon
  <2> HIDE DEF w, ts, a
  <2> DEFINE A == ts[1]
             B == ts[2]
  <2>3. ts = <<A, B>>
    BY <2>1
  <2> HIDE DEF A, B
  <2>4. /\ IsTerm(A) /\ A.e \in 0 .. 2 * Bias /\ IsTerm(B)
        /\ LET s == TermSum(A, B) IN -(8 * 2 ^ ScMul) <= s.m /\ s.m <= 8 * 2 ^ ScMul
    BY <2>1 DEF A, B
  <2>5. LET ts_1 == <<A, B>>
            x_1  == ExactSum(ts_1)
            a_1  == Truncated(TermSum(A, B))
            f_1  == DaRange(a_1)
            r_1  == [m |-> f_1.m * 2 ^ (ScMul - ScAcc), e |-> f_1.e]
            u_1  == Lower(x_1.e, r_1.e)
            unit_1 == 2 ^ (Higher(r_1.e + ScMul - ScAcc, Higher(A.e, B.e)) - u_1)
            lost_1 == InUnits(x_1, u_1) - InUnits(r_1, u_1)
        IN  r_1.e # 0 /\ ~OutOfRange(a_1) =>
              lost_1 < unit_1 /\ lost_1 > (IF Distant(ts_1) THEN -unit_1 ELSE -1)
    BY ONLY <2>4, SumLoses, Zenon
  <2>6. a = Truncated(TermSum(A, B)) /\ r = [m |-> f.m * 2 ^ (ScMul - ScAcc), e |-> f.e]
    BY <2>2 DEF a, A, B
  <2> DEFINE x_1  == ExactSum(<<A, B>>)
             r_1  == [m |-> DaRange(Truncated(TermSum(A, B))).m * 2 ^ (ScMul - ScAcc),
                      e |-> DaRange(Truncated(TermSum(A, B))).e]
             u_1  == Lower(x_1.e, r_1.e)
             unit_1 == 2 ^ (Higher(r_1.e + ScMul - ScAcc, Higher(A.e, B.e)) - u_1)
             lost_1 == InUnits(x_1, u_1) - InUnits(r_1, u_1)
  <2>7. r_1.e # 0 /\ ~OutOfRange(Truncated(TermSum(A, B))) =>
          lost_1 < unit_1 /\ lost_1 > (IF Distant(<<A, B>>) THEN -unit_1 ELSE -1)
    BY <2>5, Zenon
  <2>8. r = r_1 /\ x = x_1
    BY <2>3, <2>6
  <2>9. u = u_1
    BY <2>8 DEF u, u_1
  <2> HIDE DEF r, r_1, x, x_1, u, u_1
  <2>10. unit = unit_1 /\ lost = lost_1
    BY <2>8, <2>9 DEF A, B
  <2> HIDE DEF unit, unit_1, lost, lost_1
  <2>11. r_1.e # 0 /\ ~OutOfRange(Truncated(TermSum(A, B)))
    BY <2>2, <2>6, <2>8
  <2> QED  BY <2>3, <2>7, <2>10, <2>11
<1>2. SumTruncates <=> [][Keep]_vars
  BY DEF SumTruncates
<1> HIDE DEF Keep
<1>3. Inv2 /\ []Typed /\ [][Next]_vars => [][Keep]_vars
  BY <1>1, StepTyping, PTL
<1> QED  BY <1>2, <1>3, InitTyping, PTL DEF Spec

-----------------------------------------------------------------------------
(* IEEE words and bytes, there and back *)

LEMMA SameRegister ==
  ASSUME NEW x \in LongWord
  PROVE  Low(x + 0, LongH) = x
<1> DEFINE L == 2 * LongH
<1>1. L \in Nat \ {0} /\ x \in 0 .. L - 1 /\ x = 0 * L + x /\ x \in Int
  BY Widths DEF LongWord
<1> HIDE DEF L
<1>2. x % L = x /\ x + 0 = x
  BY <1>1, DivModIs
<1> QED  BY <1>2 DEF Low, L

\* A field without a movement leaves the registers as they are.
LEMMA Unmoved ==
  ASSUME NEW t, Shape(t), RegsTyped(t), NEW p \in RegNo, NEW size
  PROVE  LET u == DaPostmod(t, p, 0, size) IN
         RegsTyped(u) /\ \A q \in RegNo : u.r[q] = t.r[q]
<1> DEFINE u == DaPostmod(t, p, 0, size)
<1>1. u = [t EXCEPT !.r[p] = Low(@ + 0, LongH)]
  BY DEF DaPostmod
<1>2. u.r = [t.r EXCEPT ![p] = Low(@ + 0, LongH)]
  BY <1>1, SMT DEF Shape, StateFields
<1>3. \A q \in RegNo : t.r[q] \in LongWord /\ Low(t.r[q] + 0, LongH) = t.r[q]
  BY SameRegister DEF RegsTyped
<1>4. \A q \in RegNo : u.r[q] = t.r[q]
  BY <1>2, <1>3, SMT DEF RegsTyped
<1>5. DOMAIN t.r = RegNo
  BY DEF Shape
<1> HIDE DEF u
<1>6. u.r \in [RegNo -> LongWord]
  BY <1>2, <1>3, <1>4, <1>5
<1> QED  BY <1>4, <1>6 DEF RegsTyped, u

\* How a special instruction whose fields do not move pointers ends: from the
\* state t with its operand Y read, and its two results.
SpecialEnd(s, w, t, Y) ==
  LET c == Conversion(t, w, Y)
      u == Executed(s, w)
  IN  /\ Typing(t) /\ t.dauc = s.dauc
      /\ FromAcc(w.y) => Y.acc = TRUE /\ Y.val = s.a[w.y.i % 4]
      /\ ~FromAcc(w.y) => Y.acc = FALSE /\ Y.raw = s.mem[s.r[w.y.p]] /\ Y.raw \in Datum(w.g)
      /\ u.a[w.n] = c.res /\ \A q \in RegNo : u.r[q] = s.r[q]
      /\ w.z.p = 0 => u.mem = s.mem
      /\ w.z.p # 0 => u.mem[s.r[w.z.p]] = c.z

LEMMA SpecialEnds ==
  ASSUME NEW s, NEW w, Ready(s, w), w.op = "special", w.g \notin {"ifalt", "ifaeq", "ifagt"},
         FromAcc(w.y) \/ w.y.i = 0, w.z.p # 15, w.z.p = 0 \/ w.z.i = 0,
         BUSERR \notin Executed(s, w).raised
  PROVE  \E t, Y : SpecialEnd(s, w, t, Y)
<1> DEFINE t0 == LatencyTick(s)
           Y  == DaRead(t0, w.y)
           t  == DaReadMoves(t0, w.y, ReadSize(w.g))
           c  == Conversion(t, w, Y)
           b  == [c.t EXCEPT !.a[w.n] = c.res]
           size == StoreSize(w.g)
           x  == b.r[w.z.p]
           m  == [b EXCEPT !.mem[x] = c.z]
           u  == Executed(s, w)
<1>1. /\ Typing(s) /\ RegsTyped(s) /\ WellFormed(w) /\ w.n \in AccNo /\ w.g \in SpecialFunctions
      /\ (FromAcc(w.y) \/ w.y.p \in RegNo) /\ (w.z.p # 0 => w.z.p \in RegNo) /\ Operand(w.y)
      /\ Fits(s, w.y, Datum(w.g)) /\ (w.g = "dsp" => ~FromAcc(w.y))
  BY DEF Ready, WellFormed, Operand, Target, DataFit
<1>2. /\ Typing(t0) /\ Shape(t0) /\ RegsTyped(t0) /\ t0.a = s.a /\ t0.r = s.r /\ t0.mem = s.mem
      /\ t0.dauc = s.dauc /\ t0.raised = {}
  BY <1>1, TickKeeps, TickTyping, DaucKept DEF Typing, Kept, RegsTyped
<1>3. u = ExecDaSpecial(t0, w)
  BY DEF Executed, ExecInsn
<1>4. ~Withheld(t, w)
  BY DEF Withheld
<1>5. BUSERR \notin u.raised
  OBVIOUS
<1> HIDE DEF t0, u
<1>6. ~DaReadFaults(t0, w.y)
  <2>1. Raise(t0, BUSERR).raised = t0.raised \cup {BUSERR}
    BY <1>2, RaiseKeeps
  <2> QED  BY <1>3, <1>5, <2>1 DEF ExecDaSpecial
<1>7. u = DaStoreZ(b, w.z, Y, size, c.z)
  BY <1>3, <1>4, <1>6, Zenon DEF ExecDaSpecial, Finish, t, Y, c, b, size
<1>8. FromAcc(w.y) => Y.acc = TRUE /\ Y.val = s.a[w.y.i % 4]
  BY <1>2 DEF DaRead
<1>9. ~FromAcc(w.y) => Y.acc = FALSE /\ Y.raw = s.mem[s.r[w.y.p]] /\ Y.raw \in Datum(w.g)
  BY <1>1, <1>2, <1>6 DEF DaRead, Fits, DaReadFaults, Mapped
<1>10. /\ Typing(t) /\ Shape(t) /\ t.dauc = s.dauc /\ RegsTyped(t) /\ t.mem = s.mem
       /\ \A q \in RegNo : t.r[q] = s.r[q]
  <2>1. Typing(t) /\ t.mem = s.mem /\ t.dauc = s.dauc
    BY <1>2, ReadMovesTyping, DaucKept
  <2>2. CASE FromAcc(w.y)
    BY <1>2, <2>1, <2>2 DEF DaReadMoves, Typing
  <2>3. CASE ~FromAcc(w.y)
    <3>1. t = DaPostmod(t0, w.y.p, 0, ReadSize(w.g))
      BY <2>3 DEF DaReadMoves
    <3> HIDE DEF t
    <3> QED  BY <1>1, <1>2, <2>1, <2>3, <3>1, Unmoved DEF Typing
  <2> QED  BY <2>2, <2>3
<1>11. /\ Shape(c.t) /\ c.t.r = t.r /\ c.t.mem = t.mem
  BY <1>1, <1>10, ConversionKeeps DEF Kept
<1>12. Typing(c.t)
  <2>1. OperandOK(Y, Datum(w.g)) /\ (w.g = "dsp" => Y.acc = FALSE)
    <3>1. Fits(t0, w.y, Datum(w.g))
      BY <1>1, <1>2 DEF Fits, DaReadFaults, Mapped
    <3>2. OperandOK(Y, Datum(w.g))
      BY <1>1, <1>2, <1>6, <3>1, ReadOperand
    <3> QED  BY <1>1, <1>9, <3>2
  <2> HIDE DEF Y, t
  <2> QED  BY <1>1, <1>10, <2>1, ConversionTyping
<1> HIDE DEF t, Y, c
<1>13. Shape(b) /\ b.r = c.t.r /\ b.mem = c.t.mem /\ b.a[w.n] = c.res
  BY <1>1, <1>11, <1>12, SMT DEF Shape, StateFields, Typing
<1>14. RegsTyped(b)
  BY <1>10, <1>11, <1>13 DEF RegsTyped
<1> HIDE DEF b, size
<1>15. CASE w.z.p = 0
  <2>1. u = b
    BY <1>7, <1>15 DEF DaStoreZ, DaZWrites
  <2> QED  BY <1>8, <1>9, <1>10, <1>11, <1>13, <1>15, <2>1 DEF c, u, SpecialEnd
<1>16. CASE w.z.p # 0
  <2>1. DaZWrites(w.z, Y) /\ ZAddr(b, w.z, Y) = x /\ ZReg(w.z, Y) = w.z.p /\ w.z.i = 0
    BY <1>16 DEF DaZWrites, ZAddr, ZReg
  <2>2. Mapped(b, x)
    <3>1. Raise(b, BUSERR).raised = b.raised \cup {BUSERR}
      BY <1>13, RaiseKeeps
    <3> QED  BY <1>5, <1>7, <2>1, <3>1 DEF DaStoreZ
  <2>3. u = DaPostmod(m, w.z.p, 0, size)
    BY <1>7, <2>1, <2>2 DEF DaStoreZ
  <2>4. Shape(m) /\ m.a = b.a /\ m.r = b.r /\ m.mem[x] = c.z
    BY <1>13, <2>2, SMT DEF Shape, StateFields, Mapped
  <2>5. RegsTyped(m)
    BY <1>14, <2>4 DEF RegsTyped
  <2> HIDE DEF m
  <2>6. u.a = m.a /\ u.mem = m.mem /\ \A q \in RegNo : u.r[q] = m.r[q]
    BY <1>1, <1>16, <2>3, <2>4, <2>5, PostmodKeeps, Unmoved
  <2>7. x = s.r[w.z.p]
    BY <1>1, <1>10, <1>11, <1>13, <1>16
  <2> HIDE DEF x
  <2> QED  BY <1>8, <1>9, <1>10, <1>11, <1>13, <1>16, <2>4, <2>6, <2>7 DEF c, u, SpecialEnd
<1> QED  BY <1>15, <1>16

LEMMA RoundsToItself ==
  ASSUME NEW v \in Int, NEW u \in Nat \ {0}, NEW mode \in 0..3, NEW i \in Int,
         RoundsTo(v * u, u, mode, i)
  PROVE  i = v
<1> DEFINE num == v * u
<1>1. /\ num \in Int /\ i * u \in Int /\ (i + 1) * u \in Int /\ (i - 1) * u \in Int
      /\ (2 * i - 1) * u \in Int /\ (2 * i + 1) * u \in Int /\ 2 * num = (2 * v) * u
      /\ (2 * v) * u \in Int
  OBVIOUS
<1>2. \A a, b \in Int : (a <= b <=> a * u <= b * u)
  BY TimesKeepsOrder
<1>3. /\ i <= v <=> i * u <= num
      /\ v <= i <=> num <= i * u
      /\ i + 1 <= v <=> (i + 1) * u <= num
      /\ v <= i - 1 <=> num <= (i - 1) * u
  <2>1. i + 1 \in Int /\ i - 1 \in Int
    OBVIOUS
  <2> QED  BY <1>2, <2>1
<1>4. /\ 2 * i - 1 <= 2 * v <=> (2 * i - 1) * u <= (2 * v) * u
      /\ 2 * i + 1 <= 2 * v <=> (2 * i + 1) * u <= (2 * v) * u
  <2>1. 2 * i + 1 \in Int /\ 2 * i - 1 \in Int /\ 2 * v \in Int
    OBVIOUS
  <2> QED  BY <1>2, <2>1
<1>5. RoundsTo(num, u, mode, i)
  OBVIOUS
<1> DEFINE p == i * u
           p1 == (i + 1) * u
           p2 == (i - 1) * u
           q1 == (2 * i - 1) * u
           q2 == (2 * i + 1) * u
           n2 == (2 * v) * u
<1>6. \/ mode \in {0, 2} /\ q1 <= 2 * num /\ 2 * num < q2
      \/ mode = 1 /\ p <= num /\ num < p1
      \/ mode = 3 /\ IF num < 0 THEN p2 < num /\ num <= p ELSE p <= num /\ num < p1
  <2> HIDE DEF num
  <2>1. CASE mode \in {0, 2}
    BY <1>5, <2>1 DEF RoundsTo
  <2>2. CASE mode = 1
    BY <1>5, <2>2 DEF RoundsTo
  <2>3. CASE mode = 3
    BY <1>5, <2>3 DEF RoundsTo
  <2> QED  BY <2>1, <2>2, <2>3
<1> HIDE DEF num, p, p1, p2, q1, q2, n2
<1>7. /\ num \in Int /\ p \in Int /\ p1 \in Int /\ p2 \in Int /\ q1 \in Int /\ q2 \in Int /\ 2 * num = n2
      /\ (i <= v <=> p <= num) /\ (v <= i <=> num <= p)
      /\ (i + 1 <= v <=> p1 <= num) /\ (v <= i - 1 <=> num <= p2)
      /\ (2 * i - 1 <= 2 * v <=> q1 <= n2) /\ (2 * i + 1 <= 2 * v <=> q2 <= n2)
  BY <1>1, <1>3, <1>4 DEF num, p, p1, p2, q1, q2, n2
<1> QED  BY <1>6, <1>7

\* A number of an integer within range becomes that integer again.
LEMMA ExactInteger ==
  ASSUME NEW v \in Int, -(2 ^ ScAcc) <= v, v <= 2 ^ ScAcc, NEW mode \in 0..3,
         NEW n \in IntWidths, v \in IntMin(n)..IntMax(n)
  PROVE  AccToInt(AccFromI64(v), mode, n) = v
<1> DEFINE x == AccFromI64(v)
           k    == Bias + ScAcc - x.e
           unit == 2 ^ Higher(k, 0)
           num  == IF x.e = 0 THEN 0 ELSE x.m * 2 ^ Higher(-k, 0)
           i    == AccToInt(x, mode, n)
<1>1. IsAcc(x) /\ ValueIs(x, v)
  BY IntegerIsAcc, ValueOfInteger
<1> HIDE DEF x
<1>2. Judged(num, unit, mode, n, i)
  BY <1>1, ToIntRounds
<1>3. k \in 0 .. Bias + ScAcc /\ unit = 2 ^ k /\ unit \in Nat \ {0} /\ num = v * unit
  <2>1. x.e \in 0..MaxExp /\ x.m \in Int /\ MaxExp = 2 * Bias - 1 /\ Bias \in Nat /\ ScAcc \in Nat
        /\ ScAcc < Bias
    BY <1>1, DauWidths DEF IsAcc
  <2>2. x.e # 0 => k >= 0 /\ x.m = v * 2 ^ k
    BY <1>1 DEF ValueIs
  <2>3. k \in 0 .. Bias + ScAcc
    BY <2>1, <2>2
  <2>4. Higher(k, 0) = k /\ Higher(-k, 0) = 0
    BY <2>3 DEF Higher
  <2>5. 2 ^ k \in Nat \ {0}
    <3>1. k \in 0..FarExp
      BY <2>1, <2>3, DauWidths DEF FarExp
    <3> HIDE DEF k
    <3> QED  BY <3>1, FarRise
  <2>6. 2 ^ 0 = 1 /\ 2 ^ Higher(-k, 0) = 1
    <3> DEFINE z == Higher(-k, 0)
    <3>1. z = 0
      BY <2>4
    <3>2. 2 ^ 0 = 1
      OBVIOUS
    <3> HIDE DEF z
    <3>3. 2 ^ z = 1
      BY <3>1, <3>2, Zenon
    <3> QED  BY <3>2, <3>3, Zenon DEF z
  <2> HIDE DEF k
  <2>7. unit = 2 ^ k
    BY <2>4
  <2>8. CASE x.e = 0
    <3>1. v = 0
      BY <1>1, <2>8 DEF ValueIs
    <3>2. num = 0
      BY <2>8
    <3> HIDE DEF num, unit
    <3> QED  BY <2>3, <2>5, <2>7, <3>1, <3>2
  <2>9. CASE x.e # 0
    <3>1. num = x.m * 1
      BY <2>6, <2>9
    <3> HIDE DEF num, unit
    <3> QED  BY <2>1, <2>2, <2>3, <2>5, <2>9, <2>7, <3>1
  <2> QED  BY <2>8, <2>9
<1> HIDE DEF i, num, unit, k
<1>4. i \in IntMin(n)..IntMax(n) /\ IntMin(n) \in Int /\ IntMax(n) \in Int
  <2>1. IntMin(n) \in Int /\ IntMax(n) \in Int
    BY ClampRange
  <2> QED  BY <1>2, <2>1 DEF Judged
<1>5. CASE RoundsTo(num, unit, mode, i)
  <2>1. i \in Int /\ RoundsTo(v * unit, unit, mode, i)
    BY <1>3, <1>4, <1>5
  <2>2. i = v
    BY <1>3, <2>1, RoundsToItself
  <2> QED  BY <2>2 DEF i, x
<1>6. CASE ~RoundsTo(num, unit, mode, i)
  <2>1. (i = IntMax(n) /\ num > i * unit) \/ (i = IntMin(n) /\ num < i * unit)
    BY <1>2, <1>6 DEF Judged
  <2>2. (v <= i <=> v * unit <= i * unit) /\ (i <= v <=> i * unit <= v * unit)
        /\ v * unit \in Int /\ i * unit \in Int
    BY <1>3, <1>4, TimesKeepsOrder
  <2> QED  BY <1>3, <1>4, <2>1, <2>2
<1> QED  BY <1>5, <1>6

\* A companded byte, decoded and encoded, is one of the same value.
LEMMA CompandedBack ==
  ASSUME NEW t, t.dauc.inp # "linear", NEW b \in Code
  PROVE  LET law == t.dauc.inp
             a == IcValue(t, b)
         IN  /\ IsAcc(a) /\ CompandedEncode(a, law) \in Code
             /\ Decode2x(law, CompandedEncode(a, law)) = Decode2x(law, b)
<1> DEFINE law == t.dauc.inp
           D == Decode2x(law, b)
           x == AccFromI64(D)
           a == [x EXCEPT !.e = IF @ = 0 THEN 0 ELSE @ - 1]
           y == [a EXCEPT !.e = IF @ = 0 THEN 0 ELSE @ + 1]
<1>1. IcValue(t, b) = a /\ IsAcc(a)
  BY ByteValue DEF IcValue
<1>2. D \in Int /\ -(2 ^ ScAcc) < D /\ D < 2 ^ ScAcc /\ 2 ^ ScAcc \in Nat
  BY DecodedRange, Units
<1> HIDE DEF D
<1>3. IsAcc(x) /\ (D # 0 => \E k \in 0 .. ScAcc + 1 : x.e = Bias + ScAcc - k)
  BY <1>2, IntegerIsAcc
<1>4. x.e = 0 \/ x.e >= 2
  <2>1. CASE D = 0
    BY <2>1 DEF AccFromI64, Zero
  <2>2. CASE D # 0
    <3>1. PICK k \in 0 .. ScAcc + 1 : x.e = Bias + ScAcc - k
      BY <1>3, <2>2
    <3> HIDE DEF x
    <3>2. Bias >= 3
      <4>1. ScAcc \in Nat /\ ScAcc < Bias /\ ScAcc >= 2 /\ Bias \in Nat
        <5>1. CodeBits \in Nat /\ 2 ^ (ByteBits - 1 - CodeBits) \in Nat \ {0}
              /\ CodeBits + 2 ^ (ByteBits - 1 - CodeBits) < ScAcc
          <6>1. ByteBits - 1 - CodeBits \in 0 .. 4 * IntBits
            BY WidthAssumption, DauWidths
          <6> QED  BY <6>1, PowersRise, WidthAssumption
        <5> QED  BY <5>1, DauWidths
      <4> HIDE DEF D
      <4> QED  BY ONLY <4>1
    <3> QED  BY <3>1, <3>2, DauWidths
  <2> QED  BY <2>1, <2>2
<1> HIDE DEF x
<1>5. y = x
  <2>1. x \in [m: Int, e: 0..MaxExp]
    BY <1>3 DEF IsAcc
  <2>2. x.m \in Int /\ x.e \in Int /\ x = [m |-> x.m, e |-> x.e]
    BY <2>1
  <2> DEFINE m0 == x.m
             e0 == x.e
             e1 == IF e0 = 0 THEN 0 ELSE e0 - 1
  <2>3. a = [m |-> m0, e |-> e1]
    BY <2>2
  <2> HIDE DEF a
  <2>4. y = [m |-> m0, e |-> IF e1 = 0 THEN 0 ELSE e1 + 1]
    <3> HIDE DEF m0, e1
    <3>1. a.e = e1 /\ a.m = m0
      BY <2>3
    <3> QED  BY <2>3
  <2>5. (IF e1 = 0 THEN 0 ELSE e1 + 1) = e0
    BY <1>4, <2>2
  <2> QED  BY <2>2, <2>4, <2>5
<1>6. AccToInt(x, 0, IntBits) = D
  <2>1. D \in IntMin(IntBits) .. IntMax(IntBits)
    <3>1. 2 ^ (IntBits - 1) = 2 ^ ScAcc /\ IntBits # ByteBits
      BY Units, WidthAssumption, DauWidths
    <3> QED  BY <1>2, <3>1 DEF IntMin, IntMax
  <2>2. IntBits \in IntWidths /\ 0 \in 0..3
    BY DEF IntWidths
  <2> QED  BY <1>2, <2>1, <2>2, ExactInteger DEF x
<1> HIDE DEF a
<1>7. /\ CompandedEncode(a, law) \in Code
      /\ \A c \in Code : Decode2x(law, c) = AccToInt(y, 0, IntBits)
             => Decode2x(law, CompandedEncode(a, law)) = AccToInt(y, 0, IntBits)
  BY <1>1, CompandedCode
<1> QED  BY <1>1, <1>5, <1>6, <1>7 DEF D

LEMMA PackedAgain ==
  ASSUME NEW w \in FloatWord, w.e # 0
  PROVE  AccPack(AccUnpack(w)) = w
<1> DEFINE F == 2 ^ FracBits
           g == 2 ^ GuardBits
           x == Mant24Full(w)
           q == (x * g) \div g
<1>1. F \in Nat \ {0} /\ g \in Nat \ {0}
  BY Units
<1>2. x \in Int /\ ((F <= x /\ x < 2 * F) \/ (-(2 * F) <= x /\ x < -F))
  BY Mantissas
<1>3. w.m \in Int /\ w.e \in 0..MaxExp /\ -F <= w.m /\ w.m < F /\ w = [m |-> w.m, e |-> w.e]
  BY <1>1 DEF FloatWord
<1>4. x = IF w.m < 0 THEN w.m - F ELSE w.m + F
  BY <1>1, <1>3 DEF Mant24Full, Implicit
<1>5. AccUnpack(w) = [m |-> x * g, e |-> w.e]
  BY DEF AccUnpack
<1> HIDE DEF x, g, F
<1>6. q = x
  <2>1. q \in Int /\ q * g <= x * g /\ x * g < (q + 1) * g /\ x * g \in Int
    BY <1>1, <1>2, DivSpec
  <2> HIDE DEF q
  <2>2. (q <= x <=> q * g <= x * g) /\ (q + 1 <= x <=> (q + 1) * g <= x * g)
    BY <1>1, <1>2, <2>1, TimesKeepsOrder
  <2>3. (q + 1) * g \in Int /\ q * g \in Int
    BY <1>1, <2>1
  <2> QED  BY <1>2, <2>1, <2>2, <2>3
<1>7. x * g # 0
  <2>1. (1 <= x <=> 1 * g <= x * g) /\ (x <= 0 - 1 <=> x * g <= (0 - 1) * g)
    BY <1>1, <1>2, TimesKeepsOrder
  <2>2. 1 * g = g /\ (0 - 1) * g = -g
    BY <1>1
  <2> QED  BY <1>1, <1>2, <2>1, <2>2
<1>8. w.e % 2 ^ ExpBits = w.e
  <2>1. w.e \in 0 .. 2 * Bias - 1
    BY <1>3, DauWidths
  <2>2. w.e % (2 * Bias) = w.e
    BY <2>1, DauWidths
  <2> QED  BY <2>2, DauWidths
<1>9. AccPack(AccUnpack(w)) = [m |-> q - Implicit(q, FracBits), e |-> w.e % 2 ^ ExpBits]
  <2> DEFINE a == AccUnpack(w)
  <2>1. a.m = x * g /\ a.e = w.e
    BY <1>5
  <2> HIDE DEF a
  <2> QED  BY <1>7, <2>1 DEF AccPack, a, g
<1>10. x - Implicit(x, FracBits) = w.m
  BY <1>1, <1>2, <1>3, <1>4 DEF Implicit, F
<1> QED  BY <1>3, <1>6, <1>8, <1>9, <1>10

\* What IEEE cannot represent, and what it cannot but as an infinity.
Lost(w) == w.e = 0 \/ (w.e = 1 /\ Mant24Full(w) # -(2 ^ (FracBits + 1)))
Topmost(w) == w.e = MaxExp /\ Mant24Full(w) = -(2 ^ (FracBits + 1))

LEMMA IeeeBack ==
  ASSUME NEW w \in FloatWord
  PROVE  LET x == AccUnpack(w)
             v == AccToIeee(x)
         IN  /\ Lost(w) => v.x = 0
             /\ ~Lost(w) /\ Topmost(w) => v = [s |-> TRUE, x |-> MaxExp, f |-> 0]
             /\ ~Lost(w) /\ ~Topmost(w) => v.x \in 1 .. MaxExp - 1 /\ AccFromIeee(v) = x
<1> DEFINE F == 2 ^ FracBits
           g == 2 ^ GuardBits
           H == 2 ^ ScAcc
           M == Mant24Full(w)
           x == AccUnpack(w)
           v == AccToIeee(x)
<1>1. H \in Nat \ {0} /\ F \in Nat \ {0} /\ g \in Nat \ {0} /\ H = F * g
      /\ 2 ^ (ScAcc + 1) = 2 * H /\ 2 ^ (FracBits + 1) = 2 * F
  BY Units
<1>2. M \in Int /\ ((F <= M /\ M < 2 * F) \/ (-(2 * F) <= M /\ M < -F))
  BY Mantissas
<1>3. w.e \in 0..MaxExp /\ MaxExp \in Nat /\ MaxExp >= 2
  BY DauWidths DEF FloatWord
<1>4. CASE w.e = 0
  <2>1. x = Zero
    BY <1>4 DEF AccUnpack
  <2>2. v = [s |-> FALSE, x |-> 0, f |-> 0]
    BY <2>1 DEF AccToIeee, Zero
  <2> QED  BY <1>4, <2>2 DEF Lost
<1>5. CASE w.e # 0
  <2> DEFINE n == M * g
             p == IF M = -(2 * F) THEN H ELSE IF M < 0 THEN -n ELSE n
             e == IF M = -(2 * F) THEN w.e ELSE w.e - 1
             s == M < 0
  <2>1. x = [m |-> n, e |-> w.e]
    BY <1>5 DEF AccUnpack
  <2>2. /\ n \in Int /\ (2 * F) * g = 2 * H /\ (-(2 * F)) * g = -(2 * H)
        /\ (M < 0 <=> n < 0) /\ n # 0 /\ (M = -(2 * F) <=> n = -(2 * H))
    <3> HIDE DEF F, g, H, M
    <3>1. n \in Int /\ (2 * F) * g = 2 * H /\ (-(2 * F)) * g = -(2 * H) /\ 1 * g = g /\ 0 * g = 0
          /\ (0 - 1) * g = -g
      BY <1>1, <1>2
    <3>2. \A y \in Int : (y <= M <=> y * g <= n) /\ (M <= y <=> n <= y * g)
      BY <1>1, <1>2, TimesKeepsOrder
    <3>3. 2 * F \in Int /\ -(2 * F) \in Int /\ 0 - 1 \in Int
      BY <1>1
    <3>4. (1 <= M <=> g <= n) /\ (M <= 0 - 1 <=> n <= -g)
      BY <3>1, <3>2, <3>3
    <3>5. (-(2 * F) <= M <=> -(2 * H) <= n) /\ (M <= -(2 * F) <=> n <= -(2 * H))
      BY <3>1, <3>2, <3>3
    <3> HIDE DEF n
    <3> QED  BY <1>1, <1>2, <3>1, <3>4, <3>5
  <2>3. v = IF e >= MaxExp THEN [s |-> s, x |-> MaxExp, f |-> 0]
            ELSE IF e <= 0 THEN [s |-> s, x |-> 0, f |-> 0]
            ELSE [s |-> s, x |-> e, f |-> (p - H) \div g]
    <3> HIDE DEF n, M, F, H, g, x
    <3>1. x.m = n /\ x.e = w.e
      BY <2>1
    <3>2. Smallest.m = -(2 * H)
      BY <1>1 DEF Smallest, H
    <3> DEFINE sg == x.m < 0
               m  == IF x.m = Smallest.m THEN 2 ^ ScAcc ELSE IF sg THEN -x.m ELSE x.m
               e1 == (IF x.m = Smallest.m THEN x.e + 1 ELSE x.e) - 1
    <3>3. AccToIeee(x) = IF e1 >= MaxExp THEN [s |-> sg, x |-> MaxExp, f |-> 0]
                         ELSE IF e1 <= 0 THEN [s |-> sg, x |-> 0, f |-> 0]
                         ELSE [s |-> sg, x |-> e1, f |-> (m - 2 ^ ScAcc) \div 2 ^ GuardBits]
      BY <1>5, <2>2, <3>1, Zenon DEF AccToIeee
    <3>4. sg = s /\ m = p /\ e1 = e
      BY <1>1, <1>3, <2>2, <3>1, <3>2 DEF H
    <3> HIDE DEF sg, m, e1, s, p, e
    <3> QED  BY <3>3, <3>4 DEF H, g
  <2> HIDE DEF x, v
  <2>4. CASE M = -(2 * F)
    <3>1. e = w.e /\ p = H /\ s = TRUE
      <4> HIDE DEF M, F, H
      <4> QED  BY <1>1, <2>4
    <3>2. ~Lost(w)
      BY <1>1, <1>5, <2>4 DEF Lost
    <3>3. Topmost(w) <=> w.e = MaxExp
      BY <1>1, <2>4 DEF Topmost
    <3> HIDE DEF p, e, s
    <3>4. CASE w.e = MaxExp
      <4>1. v = [s |-> TRUE, x |-> MaxExp, f |-> 0]
        BY <1>3, <2>3, <3>1, <3>4
      <4> QED  BY <3>2, <3>3, <3>4, <4>1 DEF v, x
    <3>5. CASE w.e # MaxExp
      <4>1. (H - H) \div g = 0
        <5> HIDE DEF H, g
        <5> QED  BY <1>1
      <4>2. v = [s |-> TRUE, x |-> w.e, f |-> 0]
        <5> HIDE DEF H, g, F, M
        <5>1. ~(e >= MaxExp) /\ ~(e <= 0)
          BY <1>3, <1>5, <3>1, <3>5
        <5>2. (p - H) \div g = 0
          BY <3>1, <4>1
        <5>3. v = [s |-> s, x |-> e, f |-> (p - H) \div g]
          BY <2>3, <5>1, Zenon
        <5> QED  BY <3>1, <5>2, <5>3, Zenon
      <4>3. AccFromIeee(v) = [m |-> -(2 * H), e |-> w.e]
        <5>1. 2 ^ ScAcc + 0 * 2 ^ GuardBits = H
          BY <1>1
        <5>2. NormAt(-H, w.e + 1, ScAcc) = [m |-> -(2 * H), e |-> w.e]
          <6>1. Scaled(-H, 1) = -(2 * H)
            <7> DEFINE K == -H
            <7>1. K \in Int /\ K * 2 = -(2 * H)
              <8> HIDE DEF H
              <8> QED  BY <1>1
            <7>2. Scaled(K, 1) = K * 2 ^ 1 /\ 2 ^ 1 = 2
              BY DEF Scaled
            <7> HIDE DEF K
            <7>3. Scaled(K, 1) = K * 2
              BY <7>2
            <7> QED  BY <7>1, <7>3 DEF K
          <6>2. Normal(-(2 * H), ScAcc) /\ -H \in Int \ {0}
            <7> DEFINE B == -(2 * H)
            <7>1. B \in Int /\ -(2 * H) <= B /\ B < -H
              <8> HIDE DEF H
              <8> QED  BY <1>1
            <7> HIDE DEF B
            <7>2. Normal(B, ScAcc)
              BY <7>1, AccNormal DEF H
            <7>3. -H \in Int \ {0}
              BY <1>1
            <7> QED  BY <7>2, <7>3 DEF B
          <6>3. 1 \in -2 .. ScAcc /\ ScAcc \in Scales
            BY DauWidths DEF Scales
          <6> DEFINE K == -H
                     ee == w.e + 1
          <6>4. K \in Int \ {0} /\ Normal(Scaled(K, 1), ScAcc) /\ Scaled(K, 1) = -(2 * H) /\ ee - 1 = w.e
            BY <1>3, <6>1, <6>2
          <6> HIDE DEF K, ee
          <6>5. NormAt(K, ee, ScAcc) = [m |-> Scaled(K, 1), e |-> ee - 1]
            BY <6>3, <6>4, NormAtIs
          <6> QED  BY <6>4, <6>5 DEF K, ee
        <5> DEFINE r == [m |-> -(2 * H), e |-> w.e]
        <5>3. r.e = w.e
          OBVIOUS
        <5>4. v.x = w.e /\ v.s = TRUE /\ v.f = 0
          BY <4>2
        <5> HIDE DEF r, v
        <5>5. 2 ^ ScAcc + v.f * 2 ^ GuardBits = H
          BY <5>1, <5>4
        <5>6. NormAt(-(2 ^ ScAcc + v.f * 2 ^ GuardBits), v.x + 1, ScAcc) = r
          BY <5>2, <5>4, <5>5 DEF r
        <5>7. ~(r.e > MaxExp) /\ ~(r.e < 1) /\ v.x # 0
          BY <1>3, <1>5, <5>3, <5>4
        <5> QED  BY <5>4, <5>6, <5>7 DEF AccFromIeee, r
      <4>4. x = [m |-> -(2 * H), e |-> w.e]
        BY <2>1, <2>2, <2>4 DEF x
      <4> HIDE DEF H
      <4> QED  BY <1>3, <1>5, <3>2, <3>3, <3>5, <4>2, <4>3, <4>4 DEF v, x
    <3> QED  BY <3>4, <3>5
  <2>5. CASE M # -(2 * F)
    <3>1. e = w.e - 1 /\ p = (IF M < 0 THEN -n ELSE n)
      BY <2>5
    <3>2. ~Topmost(w) /\ (Lost(w) <=> w.e = 1)
      BY <1>1, <1>5, <2>5 DEF Lost, Topmost
    <3>3. CASE w.e = 1
      <4>1. v.x = 0
        <5> HIDE DEF p, s
        <5> QED  BY <1>3, <2>3, <3>1, <3>3
      <4> QED  BY <3>2, <3>3, <4>1 DEF v, x
    <3>4. CASE w.e # 1
      <4> DEFINE A == IF M < 0 THEN -M ELSE M
                 f == A - F
      <4>1. A \in Int /\ F <= A /\ A < 2 * F /\ f \in Nat /\ p = A * g /\ p - H = f * g /\ H + f * g = p
            /\ p \in Int /\ (s => F < A)
        <5> HIDE DEF F, g, H, M
        <5>1. A \in Int /\ F <= A /\ A < 2 * F /\ f \in Nat /\ (s => F < A)
          BY <1>1, <1>2, <2>5
        <5>2. p = A * g
          BY <1>1, <1>2, <3>1
        <5>3. f * g = A * g - F * g /\ A * g \in Int
          BY <1>1, <5>1
        <5> HIDE DEF A, f, p, s
        <5> QED  BY <1>1, <5>1, <5>2, <5>3
      <4>2. (f * g) \div g = f
        <5> HIDE DEF f, g
        <5>1. f * g = f * g + 0 /\ f * g \in Int /\ 0 \in 0 .. g - 1
          BY <1>1, <4>1
        <5> QED  BY <1>1, <4>1, <5>1, DivModIs
      <4>3. v = [s |-> s, x |-> w.e - 1, f |-> f]
        <5> HIDE DEF f, p, s, g, H
        <5> QED  BY <1>3, <1>5, <2>3, <3>1, <3>4, <4>1, <4>2
      <4>4. /\ n \in Int /\ (s => -p = n) /\ (~s => p = n) /\ Normal(n, ScAcc)
        <5>1. IsAcc(x)
          BY Unpacked DEF x
        <5>2. x.e # 0 /\ x.m = n
          BY <1>5, <2>1 DEF x
        <5>3. Normal(n, ScAcc)
          BY <5>1, <5>2 DEF IsAcc
        <5> HIDE DEF n
        <5> QED  BY <2>2, <3>1, <5>3
      <4>5. AccFromIeee(v) = [m |-> n, e |-> w.e]
        <5>1. v.x = w.e - 1 /\ v.s = s /\ v.f = f
          BY <4>3
        <5>2. 2 ^ ScAcc + v.f * 2 ^ GuardBits = p
          BY <4>1, <5>1
        <5>3. v.x + 1 = w.e /\ v.x # 0
          BY <1>3, <1>5, <3>4, <5>1
        <5> DEFINE r == [m |-> n, e |-> w.e]
        <5>4. r.e = w.e
          OBVIOUS
        <5>5. s => NormAt(-p, w.e, ScAcc) = r
          <6>1. Scaled(n, 0) = n
            <7> HIDE DEF n
            <7>1. Scaled(n, 0) = n * 2 ^ 0 /\ 2 ^ 0 = 1
              BY DEF Scaled
            <7>2. n * 1 = n
              BY <4>4
            <7> QED  BY <7>1, <7>2
          <6>2. 0 \in -2 .. ScAcc /\ ScAcc \in Scales
            BY DauWidths DEF Scales
          <6> HIDE DEF n
          <6>3. NormAt(n, w.e, ScAcc) = [m |-> Scaled(n, 0), e |-> w.e - 0]
            BY <2>2, <4>4, <6>1, <6>2, NormAtIs
          <6>4. w.e - 0 = w.e
            BY <1>3
          <6> HIDE DEF p, s
          <6> QED  BY <4>4, <6>1, <6>3, <6>4
        <5>6. ~s => [m |-> p, e |-> w.e] = r
          BY <4>4
        <5> HIDE DEF r, v, p, s, n
        <5>7. ~(r.e > MaxExp) /\ ~(r.e < 1) /\ s \in BOOLEAN
          BY <1>3, <1>5, <5>4 DEF s
        <5> QED  BY <5>1, <5>2, <5>3, <5>5, <5>6, <5>7 DEF AccFromIeee, r
      <4>6. x = [m |-> n, e |-> w.e]
        BY <2>1 DEF x
      <4>7. w.e - 1 \in 1 .. MaxExp - 1
        BY <1>3, <1>5, <3>4
      <4>8. v.x = w.e - 1
        BY <4>3
      <4> HIDE DEF n
      <4> QED  BY <3>2, <3>4, <4>5, <4>6, <4>7, <4>8 DEF v, x
    <3> QED  BY <3>3, <3>4
  <2> QED  BY <2>4, <2>5
<1> QED  BY <1>4, <1>5

\* dsp undoes ieee on every word that IEEE represents.
LEMMA DspBack ==
  ASSUME NEW t, NEW w \in FloatWord, NEW j, j.g = "dsp", NEW Y,
         Y.raw = AccToIeee(AccUnpack(w))
  PROVE  LET c == Conversion(t, j, Y) IN
         /\ c.res = IF Lost(w) THEN Zero ELSE AccUnpack(w)
         /\ c.z = IF Lost(w) THEN Zero ELSE w
<1> DEFINE x == AccUnpack(w)
           v == AccToIeee(x)
           c == Conversion(t, j, Y)
<1>1. /\ Lost(w) => v.x = 0
      /\ ~Lost(w) /\ Topmost(w) => v = [s |-> TRUE, x |-> MaxExp, f |-> 0]
      /\ ~Lost(w) /\ ~Topmost(w) => v.x \in 1 .. MaxExp - 1 /\ AccFromIeee(v) = x
  BY IeeeBack
<1>2. MaxExp \in Nat /\ MaxExp >= 2
  BY DauWidths
<1>3. Y.raw = v
  OBVIOUS
<1> HIDE DEF v
<1>4. CASE Lost(w)
  <2>1. v.x = 0 /\ v.x \in {0, MaxExp}
    BY <1>1, <1>4
  <2>2. c.res = DspSpecial(t, v).res /\ c.z = Zero
    BY <1>3, <2>1 DEF Conversion
  <2>3. DspSpecial(t, v).res = Zero
    BY <2>1 DEF DspSpecial
  <2> HIDE DEF c
  <2> QED  BY <1>4, <2>2, <2>3 DEF c
<1>5. CASE ~Lost(w) /\ Topmost(w)
  <2>1. v.x = MaxExp /\ v.s = TRUE /\ v.x \in {0, MaxExp} /\ v.x # 0
    BY <1>1, <1>2, <1>5
  <2>2. c.res = DspSpecial(t, v).res /\ c.z = Infinity(v.s)
    BY <1>3, <2>1 DEF Conversion
  <2>3. DspSpecial(t, v).res = AccUnpack(Infinity(v.s))
    BY <2>1 DEF DspSpecial
  <2>4. Infinity(TRUE) = w
    <3> DEFINE F == 2 ^ FracBits
    <3>1. F \in Nat \ {0} /\ 2 ^ (FracBits + 1) = 2 * F
      BY Units
    <3>2. w.m \in Int /\ -F <= w.m /\ w.m < F /\ w = [m |-> w.m, e |-> w.e]
      BY <3>1 DEF FloatWord
    <3>3. Mant24Full(w) = IF w.m < 0 THEN w.m - F ELSE w.m + F
      BY <3>1, <3>2 DEF Mant24Full, Implicit
    <3>4. w.e = MaxExp /\ Mant24Full(w) = -(2 * F)
      BY <1>5, <3>1 DEF Topmost
    <3>5. Infinity(TRUE) = [m |-> -F, e |-> MaxExp]
      BY DEF Infinity
    <3> HIDE DEF F
    <3>6. w.m = -F
      BY <3>1, <3>2, <3>3, <3>4
    <3> QED  BY <3>2, <3>4, <3>5, <3>6
  <2> HIDE DEF c
  <2> QED  BY <1>5, <2>1, <2>2, <2>3, <2>4 DEF c
<1>6. CASE ~Lost(w) /\ ~Topmost(w)
  <2>1. v.x \notin {0, MaxExp} /\ AccFromIeee(v) = x
    BY <1>1, <1>2, <1>6
  <2>2. c.res = DaFlags(t, x, TRUE).res /\ c.z = AccPack(DaFlags(t, x, TRUE).res)
    <3> HIDE DEF x
    <3> QED  BY <1>3, <2>1 DEF Conversion
  <2>3. w.e # 0 /\ x.e = w.e /\ w.e \in 0..MaxExp
    <3>1. w.e # 0
      BY <1>6 DEF Lost
    <3> QED  BY <3>1 DEF AccUnpack, FloatWord
  <2>4. AccPack(x) = w
    BY <2>3, PackedAgain
  <2> HIDE DEF x
  <2>5. DaFlags(t, x, TRUE).res = DaRange(x)
    BY DEF DaFlags
  <2>6. DaRange(x) = x
    BY <1>2, <2>3 DEF DaRange, OutOfRange, TooSmall
  <2> HIDE DEF c
  <2> QED  BY <1>6, <2>2, <2>4, <2>5, <2>6 DEF c, x
<1> QED  BY <1>4, <1>5, <1>6

(* A word stored as IEEE and read back is the word it was, unless IEEE has   *)
(* no number that small, and a byte decoded and encoded by one law is a byte *)
(* of the same value, the same byte when the law is linear.                  *)
THEOREM CodesComeBack == Spec /\ []Typed => []CodesRoundTrip
<1>1. ASSUME Inv3 PROVE CodesRoundTrip
  <2> DEFINE s0 == start[1]
  <2>1. ASSUME Ran(<<Special("ieee", 0, At(1), At(2)), Special("dsp", 1, At(2), At(1))>>)
        PROVE  LET w == s0.mem[s0.r[1]] IN
               /\ d.a[1] = IF Lost(w) THEN Zero ELSE AccUnpack(w)
               /\ d.mem[d.r[1]] = IF Lost(w) THEN Zero ELSE w
    <3> DEFINE i1 == Special("ieee", 0, At(1), At(2))
               i2 == Special("dsp", 1, At(2), At(1))
               s1 == Executed(s0, i1)
               w  == s0.mem[s0.r[1]]
    <3>1. /\ d = Executed(s1, i2) /\ BUSERR \notin s1.raised /\ BUSERR \notin d.raised
          /\ Ready(s0, i1) /\ Ready(s1, i2)
      BY <1>1, <2>1, RanTwo
    <3>2. /\ i1.op = "special" /\ i1.g = "ieee" /\ i1.n = 0 /\ i1.y = At(1) /\ i1.z = At(2)
          /\ i2.op = "special" /\ i2.g = "dsp" /\ i2.n = 1 /\ i2.y = At(2) /\ i2.z = At(1)
      BY DEF Special
    <3>3. /\ At(1).p = 1 /\ At(1).i = 0 /\ At(2).p = 2 /\ At(2).i = 0
          /\ ~FromAcc(At(1)) /\ ~FromAcc(At(2))
      BY DEF At, FromAcc
    <3>4. 1 \in RegNo /\ 2 \in RegNo
      <4>1. WellFormed(i1)
        BY <3>1 DEF Ready
      <4> HIDE DEF i1
      <4> QED  BY <3>2, <3>3, <4>1 DEF WellFormed, Operand, Target
    <3> HIDE DEF i1, i2
    <3>5. w \in FloatWord /\ s1.mem[s0.r[2]] = AccToIeee(AccUnpack(w))
          /\ s1.r[1] = s0.r[1] /\ s1.r[2] = s0.r[2]
      <4>1. PICK t, Y : SpecialEnd(s0, i1, t, Y)
        BY <3>1, <3>2, <3>3, SpecialEnds
      <4> DEFINE c == Conversion(t, i1, Y)
      <4>2. Y.acc = FALSE /\ Y.raw = w /\ Y.raw \in Datum("ieee") /\ s1.mem[s0.r[2]] = c.z
            /\ s1.r[1] = s0.r[1] /\ s1.r[2] = s0.r[2]
        BY <3>2, <3>3, <3>4, <4>1 DEF SpecialEnd
      <4>3. Datum("ieee") = FloatWord
        BY DEF Datum
      <4>4. c.z = AccToIeee(DaAdder(Y)) /\ DaAdder(Y) = AccUnpack(Y.raw)
        BY <3>2, <4>2 DEF Conversion, DaAdder
      <4> HIDE DEF c, s1
      <4> QED  BY <4>2, <4>3, <4>4
    <3> HIDE DEF s1
    <3>6. PICK t, Y : SpecialEnd(s1, i2, t, Y)
      BY <3>1, <3>2, <3>3, SpecialEnds
    <3> DEFINE c == Conversion(t, i2, Y)
    <3>7. Y.raw = AccToIeee(AccUnpack(w)) /\ d.a[1] = c.res /\ d.mem[s1.r[1]] = c.z /\ d.r[1] = s1.r[1]
      <4> HIDE DEF c, w
      <4> QED  BY <3>1, <3>2, <3>3, <3>4, <3>5, <3>6 DEF c, SpecialEnd
    <3>8. c.res = (IF Lost(w) THEN Zero ELSE AccUnpack(w)) /\ c.z = (IF Lost(w) THEN Zero ELSE w)
      <4> HIDE DEF w
      <4> QED  BY <3>2, <3>5, <3>7, DspBack DEF w
    <3> HIDE DEF c
    <3> QED  BY <3>7, <3>8
  <2>2. ASSUME Ran(<<Special("ic", 0, At(1), NoZ), Special("oc", 1, Acc(0), At(2))>>),
               d.dauc.inp = d.dauc.out
        PROVE  LET law == d.dauc.inp
                   was == s0.mem[s0.r[1]]
                   is  == d.mem[d.r[2]]
               IN  IF law = "linear" THEN is = was ELSE Decode2x(law, is) = Decode2x(law, was)
    <3> DEFINE i1 == Special("ic", 0, At(1), NoZ)
               i2 == Special("oc", 1, Acc(0), At(2))
               s1 == Executed(s0, i1)
               b  == s0.mem[s0.r[1]]
    <3>1. /\ d = Executed(s1, i2) /\ BUSERR \notin s1.raised /\ BUSERR \notin d.raised
          /\ Ready(s0, i1) /\ Ready(s1, i2)
      BY <1>1, <2>2, RanTwo
    <3>2. /\ i1.op = "special" /\ i1.g = "ic" /\ i1.n = 0 /\ i1.y = At(1) /\ i1.z = NoZ
          /\ i2.op = "special" /\ i2.g = "oc" /\ i2.n = 1 /\ i2.y = Acc(0) /\ i2.z = At(2)
      BY DEF Special
    <3>3. /\ At(1).p = 1 /\ At(1).i = 0 /\ At(2).p = 2 /\ At(2).i = 0 /\ NoZ.p = 0
          /\ ~FromAcc(At(1)) /\ FromAcc(Acc(0)) /\ Acc(0).i = 0
      BY DEF At, FromAcc, NoZ, Acc
    <3>4. 1 \in RegNo /\ 2 \in RegNo /\ Typing(s0) /\ Typing(s1)
      <4>1. WellFormed(i1) /\ WellFormed(i2) /\ Typing(s0) /\ Typing(s1)
        BY <3>1 DEF Ready
      <4> HIDE DEF i1, i2, s1
      <4> QED  BY <3>2, <3>3, <4>1 DEF WellFormed, Operand, Target
    <3> HIDE DEF i1, i2
    <3>5. s1.dauc = s0.dauc
      BY <3>2, <3>4, IntegerDauc
    <3>6. \E t : Typing(t) /\ t.dauc = s0.dauc /\ b \in Code /\ s1.a[0] = IcValue(t, b)
                 /\ s1.r[2] = s0.r[2]
      <4>1. PICK t, Y : SpecialEnd(s0, i1, t, Y)
        BY <3>1, <3>2, <3>3, SpecialEnds
      <4> DEFINE c == Conversion(t, i1, Y)
      <4>2. Y.acc = FALSE /\ Y.raw = b /\ Y.raw \in Datum("ic") /\ s1.a[0] = c.res /\ s1.r[2] = s0.r[2]
        BY <3>2, <3>3, <3>4, <4>1 DEF SpecialEnd
      <4>3. Datum("ic") = Code
        BY DEF Datum
      <4>4. c.res = DaFlags(t, IcValue(t, IntOperand(Y, ByteBits)), FALSE).res
        BY <3>2 DEF Conversion
      <4>5. c.res = IcValue(t, IntOperand(Y, ByteBits)) /\ IntOperand(Y, ByteBits) = Y.raw
        BY <4>2, <4>4 DEF DaFlags, IntOperand
      <4> HIDE DEF c, s1, b
      <4> QED  BY <4>1, <4>2, <4>3, <4>5 DEF SpecialEnd
    <3> HIDE DEF s1
    <3>7. PICK t1 : Typing(t1) /\ t1.dauc = s0.dauc /\ b \in Code /\ s1.a[0] = IcValue(t1, b)
                    /\ s1.r[2] = s0.r[2]
      BY <3>6
    <3>8. PICK t, Y : SpecialEnd(s1, i2, t, Y)
      BY <3>1, <3>2, <3>3, SpecialEnds
    <3> DEFINE c == Conversion(t, i2, Y)
               is == d.mem[d.r[2]]
    <3>9. Y.acc = TRUE /\ Y.val = s1.a[0] /\ is = c.z
      <4>1. 0 % 4 = 0
        OBVIOUS
      <4> HIDE DEF c, b
      <4> QED  BY <3>1, <3>2, <3>3, <3>4, <3>8, <4>1 DEF c, SpecialEnd
    <3>10. c.z = OcCode(t, IcValue(t1, b))
      <4>1. c.z = OcCode(t, DaAdder(Y)) /\ DaAdder(Y) = s1.a[0]
        BY <3>2, <3>9 DEF Conversion, DaAdder
      <4> HIDE DEF c
      <4> QED  BY <3>7, <4>1
    <3>11. t.dauc = s0.dauc /\ t1.dauc = s0.dauc /\ d.dauc = s0.dauc
      <4>1. d.dauc = s1.dauc
        BY <3>1, <3>2, <3>4, IntegerDauc
      <4> QED  BY <3>5, <3>7, <3>8, <4>1 DEF SpecialEnd
    <3> HIDE DEF c, is, b
    <3>12. CASE d.dauc.inp = "linear"
      <4>1. IcValue(t1, b) = AccFromI64(b) /\ is = AccToInt(AccFromI64(b), t.dauc.rnd, ByteBits)
        BY <2>2, <3>9, <3>10, <3>11, <3>12 DEF IcValue, OcCode
      <4>2. b \in Int /\ -(2 ^ ScAcc) <= b /\ b <= 2 ^ ScAcc /\ b \in IntMin(ByteBits) .. IntMax(ByteBits)
        <5>1. ByteBits \in 0 .. 4 * IntBits /\ ScAcc \in 0 .. 4 * IntBits /\ ByteBits <= ScAcc
          BY Widths, DauWidths
        <5>2. 2 ^ ByteBits \in Nat \ {0} /\ 2 ^ ByteBits <= 2 ^ ScAcc /\ 2 ^ ScAcc \in Nat
          BY <5>1, PowersRise
        <5>3. b \in 0 .. 2 ^ ByteBits - 1
          BY <3>7 DEF Code
        <5> QED  BY <5>2, <5>3 DEF IntMin, IntMax
      <4>3. t.dauc.rnd \in 0..3
        BY <3>8 DEF Typing, SpecialEnd
      <4>4. ByteBits \in IntWidths
        BY DEF IntWidths
      <4>5. is = b
        BY <4>1, <4>2, <4>3, <4>4, ExactInteger
      <4> QED  BY <3>12, <4>5 DEF is, b
    <3>13. CASE d.dauc.inp # "linear"
      <4> DEFINE law == d.dauc.inp
      <4>1. t1.dauc.inp = law /\ t.dauc.out = law /\ law # "linear"
        BY <2>2, <3>11, <3>13
      <4>2. is = CompandedEncode(IcValue(t1, b), law)
        BY <3>9, <3>10, <4>1 DEF OcCode
      <4>3. Decode2x(law, CompandedEncode(IcValue(t1, b), law)) = Decode2x(law, b)
        BY <3>7, <4>1, CompandedBack
      <4>4. Decode2x(law, is) = Decode2x(law, b)
        BY <4>2, <4>3
      <4> QED  BY <3>13, <4>4 DEF is, b
    <3> QED  BY <3>12, <3>13
  <2> QED  BY <2>1, <2>2 DEF CodesRoundTrip, Lost
<1> QED  BY <1>1, InitWay, StepWay, PTL DEF Spec

-----------------------------------------------------------------------------
(* Conditional loads that walk over a buffer *)

Conditional == {"ifalt", "ifaeq", "ifagt"}

\* What a conditional load in place leaves at the address s0.r[1] it reads.
Repacked(s, g, x) ==
  IF Holds(s, g) THEN AccPack(AccUnpack(s.mem[x]))
  ELSE IF s.dauc.cond THEN s.mem[x] ELSE AccPack(s.a[1])

InPlaceEnd(s, g, u) ==
  LET x == s.r[1] IN
  /\ 1 \in RegNo /\ x \in LongWord
  /\ ~Mapped(s, x) => BUSERR \in u.raised /\ u.mem = s.mem
  /\ Mapped(s, x) =>
       /\ BUSERR \notin u.raised /\ u.r[1] = Low(x + 4, LongH)
       /\ s.mem[x] \in FloatWord /\ u.dau = s.dau /\ u.dauc = s.dauc
       /\ ~Holds(s, g) => u.a[1] = s.a[1]
       /\ DOMAIN u.mem = DOMAIN s.mem
       /\ \A z \in DOMAIN s.mem : u.mem[z] = IF z = x THEN Repacked(s, g, x) ELSE s.mem[z]

LEMMA InPlaceStep ==
  ASSUME NEW s, NEW g \in Conditional, Ready(s, InPlace(g))
  PROVE  InPlaceEnd(s, g, Executed(s, InPlace(g)))
<1> DEFINE w  == InPlace(g)
           t0 == LatencyTick(s)
           Y  == DaRead(t0, w.y)
           t  == DaReadMoves(t0, w.y, ReadSize(w.g))
           c  == Conversion(t, w, Y)
           b  == [c.t EXCEPT !.a[w.n] = c.res]
           x  == s.r[1]
           m  == [b EXCEPT !.mem[x] = c.z]
           u  == Executed(s, w)
<1>1. /\ w.op = "special" /\ w.g = g /\ w.n = 1 /\ w.y.p = 1 /\ w.y.i = 0 /\ w.z.p = 15 /\ w.z.i = 7
      /\ ~FromAcc(w.y)
  BY DEF InPlace, Special, At, FromAcc
<1> HIDE DEF w
<1>2. Typing(s) /\ RegsTyped(s) /\ WellFormed(w) /\ DataFit(s, w)
  BY DEF Ready, w
<1>3. 1 \in RegNo /\ x \in LongWord /\ Fits(s, w.y, FloatWord) /\ 1 \in AccNo /\ w.g \in SpecialFunctions
  <2>1. Operand(w.y) /\ w.n \in AccNo /\ w.g \in SpecialFunctions
    BY <1>1, <1>2 DEF WellFormed
  <2>2. 1 \in RegNo
    BY <1>1, <2>1 DEF Operand
  <2>3. Fits(s, w.y, Datum(w.g))
    BY <1>1, <1>2 DEF DataFit
  <2>4. Datum(w.g) = FloatWord
    BY <1>1 DEF Datum, Conditional
  <2> QED  BY <1>1, <1>2, <2>1, <2>2, <2>3, <2>4 DEF RegsTyped
<1>4. /\ Typing(t0) /\ Shape(t0) /\ RegsTyped(t0) /\ t0.a = s.a /\ t0.r = s.r /\ t0.mem = s.mem
      /\ t0.dauc = s.dauc /\ t0.dau = s.dau /\ t0.raised = {}
  BY <1>2, TickKeeps, TickTyping, DaucKept DEF Typing, Kept, RegsTyped
<1>5. u = ExecDaSpecial(t0, w)
  BY <1>1 DEF Executed, ExecInsn
<1> HIDE DEF t0, u
<1>6. DaReadFaults(t0, w.y) <=> ~Mapped(s, x)
  BY <1>1, <1>4 DEF DaReadFaults, Mapped
<1>7. CASE ~Mapped(s, x)
  <2>1. u = Raise(t0, BUSERR)
    BY <1>5, <1>6, <1>7, Zenon DEF ExecDaSpecial
  <2>2. BUSERR \in u.raised /\ u.mem = s.mem
    BY <1>4, <2>1, RaiseKeeps DEF Kept
  <2> QED  BY <1>3, <1>7, <2>2 DEF InPlaceEnd, u, w
<1>8. CASE Mapped(s, x)
  <2>1. Y.acc = FALSE /\ Y.raw = s.mem[x] /\ Y.ea = x /\ Y.preg = 1 /\ Y.raw \in FloatWord
    BY <1>1, <1>3, <1>4, <1>6, <1>8 DEF DaRead, Fits, DaReadFaults, Mapped
  <2>2. /\ Shape(t) /\ RegsTyped(t) /\ t.mem = s.mem /\ t.a = s.a /\ t.dau = s.dau /\ t.dauc = s.dauc
        /\ t.raised = {} /\ t.r[1] = x
    <3>1. t = DaPostmod(t0, 1, 0, ReadSize(w.g))
      BY <1>1 DEF DaReadMoves
    <3> HIDE DEF t
    <3> QED  BY <1>3, <1>4, <3>1, Unmoved, PostmodKeeps, DaucKept
  <2>3. /\ c.t = t /\ c.res = IF Holds(t, g) THEN AccUnpack(Y.raw) ELSE t.a[1]
        /\ c.z = AccPack(c.res)
    <3>1. DaAdder(Y) = AccUnpack(Y.raw)
      BY <2>1 DEF DaAdder
    <3> HIDE DEF t, Y
    <3> QED  BY <1>1, <3>1 DEF Conversion, Conditional
  <2>4. Holds(t, g) <=> Holds(s, g)
    BY <2>2 DEF Holds
  <2>5. Withheld(t, w) <=> s.dauc.cond /\ ~Holds(s, g)
    BY <1>1, <2>2, <2>4 DEF Withheld, Conditional
  <2>6. /\ DaZWrites(w.z, Y) /\ ZReg(w.z, Y) = 1 /\ StoreSize(w.g) = 4
        /\ \A v : ZAddr(v, w.z, Y) = x
    BY <1>1, <2>1 DEF DaZWrites, ZReg, ZAddr, StoreSize, Conditional
  <2> HIDE DEF t, Y, c
  <2>7. /\ Shape(b) /\ b.r = t.r /\ b.mem = s.mem /\ b.dau = s.dau /\ b.dauc = s.dauc /\ b.raised = {}
        /\ b.a[1] = c.res
    <3>1. 1 \in DOMAIN t.a
      BY <1>3, <1>4, <2>2 DEF Typing
    <3> QED  BY <1>1, <2>2, <2>3, <3>1, SMT DEF Shape, StateFields
  <2> HIDE DEF b
  <2>8. ~Holds(s, g) => b.a[1] = s.a[1]
    BY <2>2, <2>3, <2>4, <2>7
  <2>9. ASSUME NEW v, Shape(v), v.r = t.r
        PROVE  LET k == DaPostmod(v, 1, 7, 4) IN
               /\ k.r[1] = Low(x + 4, LongH) /\ k.mem = v.mem /\ k.a = v.a /\ k.dau = v.dau
               /\ k.dauc = v.dauc /\ k.raised = v.raised
    <3> DEFINE k == DaPostmod(v, 1, 7, 4)
    <3>1. k.mem = v.mem /\ k.a = v.a /\ k.dau = v.dau /\ k.dauc = v.dauc /\ k.raised = v.raised
      BY <2>9, PostmodKeeps, DaucKept
    <3>2. k = [v EXCEPT !.r[1] = Low(@ + 4, LongH)]
      BY DEF DaPostmod
    <3> HIDE DEF k
    <3>3. k.r[1] = Low(x + 4, LongH)
      BY <1>3, <2>2, <2>9, <3>2, SMT DEF Shape, StateFields
    <3> QED  BY <3>1, <3>3 DEF k
  <2>10. CASE Withheld(t, w)
    <3>1. u = DaPostmod(b, 1, 7, 4)
      BY <1>1, <1>5, <1>6, <1>8, <2>6, <2>10, Zenon DEF ExecDaSpecial, DaPostmodOnly, t, Y, c, b
    <3>2. /\ u.r[1] = Low(x + 4, LongH) /\ u.mem = b.mem /\ u.a = b.a /\ u.dau = b.dau
          /\ u.dauc = b.dauc /\ u.raised = b.raised
      BY <2>7, <2>9, <3>1
    <3>3. Repacked(s, g, x) = s.mem[x]
      BY <2>5, <2>10 DEF Repacked
    <3> QED  BY <1>3, <1>8, <2>1, <2>7, <2>8, <3>2, <3>3 DEF InPlaceEnd, u, w
  <2>11. CASE ~Withheld(t, w)
    <3>1. u = DaStoreZ(b, w.z, Y, StoreSize(w.g), c.z)
      BY <1>5, <1>6, <1>8, <2>11, Zenon DEF ExecDaSpecial, Finish, t, Y, c, b
    <3>2. u = DaPostmod(m, 1, 7, 4)
      <4>1. Mapped(b, x)
        BY <1>8, <2>7 DEF Mapped
      <4> QED  BY <1>1, <2>6, <3>1, <4>1, Zenon DEF DaStoreZ
    <3>3. /\ Shape(m) /\ m.r = t.r /\ m.mem = [s.mem EXCEPT ![x] = c.z] /\ m.a = b.a /\ m.dau = b.dau
          /\ m.dauc = b.dauc /\ m.raised = b.raised
      BY <2>7, SMT DEF Shape, StateFields
    <3> HIDE DEF m
    <3>4. /\ u.r[1] = Low(x + 4, LongH) /\ u.mem = m.mem /\ u.a = m.a /\ u.dau = m.dau
          /\ u.dauc = m.dauc /\ u.raised = m.raised
      BY <2>9, <3>2, <3>3
    <3>5. Repacked(s, g, x) = c.z
      BY <2>1, <2>2, <2>3, <2>4, <2>5, <2>11 DEF Repacked
    <3>6. DOMAIN u.mem = DOMAIN s.mem
          /\ \A z \in DOMAIN s.mem : u.mem[z] = IF z = x THEN c.z ELSE s.mem[z]
      BY <3>3, <3>4
    <3> QED  BY <1>3, <1>8, <2>1, <2>7, <2>8, <3>3, <3>4, <3>5, <3>6 DEF InPlaceEnd, u, w
  <2> QED  BY <2>10, <2>11
<1> QED  BY <1>7, <1>8

LEMMA LowAgain ==
  ASSUME NEW h \in Nat \ {0}, NEW a \in Int, NEW b \in Int
  PROVE  Low(Low(a, h) + b, h) = Low(a + b, h)
<1> DEFINE L == 2 * h
           r  == a % L
           q  == a \div L
           r2 == (r + b) % L
           q2 == (r + b) \div L
<1>1. L \in Nat \ {0}
  OBVIOUS
<1> HIDE DEF L
<1>2. r \in 0 .. L - 1 /\ q \in Int /\ a = q * L + r
  BY <1>1
<1> HIDE DEF r, q
<1>3. r2 \in 0 .. L - 1 /\ q2 \in Int /\ r + b = q2 * L + r2 /\ r + b \in Int
  BY <1>1, <1>2
<1> HIDE DEF r2, q2
<1>4. a + b = (q + q2) * L + r2
  <2>1. (q + q2) * L = q * L + q2 * L /\ q * L \in Int /\ q2 * L \in Int
    BY <1>1, <1>2, <1>3
  <2> QED  BY <1>2, <1>3, <2>1
<1>5. (a + b) % L = r2
  <2>1. a + b \in Int /\ q + q2 \in Int
    BY <1>2, <1>3
  <2> QED  BY <1>1, <1>3, <1>4, <2>1, DivModIs
<1> QED  BY <1>5 DEF Low, L, r, r2

LEMMA RepackTwice ==
  ASSUME NEW w \in FloatWord
  PROVE  LET v == AccPack(AccUnpack(w)) IN AccPack(AccUnpack(v)) = v
<1>1. CASE w.e = 0
  <2>1. AccUnpack(w) = Zero /\ AccPack(Zero) = Zero /\ AccUnpack(Zero) = Zero
    BY <1>1 DEF AccUnpack, AccPack, Zero
  <2> QED  BY <2>1
<1>2. CASE w.e # 0
  BY <1>2, PackedAgain
<1> QED  BY <1>1, <1>2

LEMMA RepeatsEnds ==
  ASSUME NEW w, NEW n \in Nat
  PROVE  /\ Len(Repeats(w, n)) = n
         /\ n = 0 <=> Repeats(w, n) = <<>>
         /\ n # 0 => Head(Repeats(w, n)) = w /\ Tail(Repeats(w, n)) = Repeats(w, n - 1)
<1>1. Repeats(w, n) \in Seq({w}) /\ Len(Repeats(w, n)) = n
  BY DEF Repeats
<1>2. ASSUME n # 0
      PROVE  Head(Repeats(w, n)) = w /\ Tail(Repeats(w, n)) = Repeats(w, n - 1)
  BY <1>1, <1>2 DEF Repeats
<1>3. n = 0 <=> Repeats(w, n) = <<>>
  BY <1>1, EmptySeq
<1> QED  BY <1>1, <1>2, <1>3

\* The j-th word of a buffer, and a buffer of which m words have been passed.
Cell(s0, j) == Low(s0.r[1] + 4 * j, LongH)

Swept(s0, g, m, t) ==
  /\ DOMAIN t.mem = DOMAIN s0.mem
  /\ \A j \in 0 .. m - 1 : Mapped(s0, Cell(s0, j)) /\ s0.mem[Cell(s0, j)] \in FloatWord
  /\ \A x \in DOMAIN s0.mem :
       t.mem[x] = IF \E j \in 0 .. m - 1 : x = Cell(s0, j) THEN Repacked(s0, g, x) ELSE s0.mem[x]

Sweeping(s0, g, m, t) ==
  /\ Swept(s0, g, m, t)
  /\ t.dau = s0.dau /\ t.dauc = s0.dauc
  /\ ~Holds(s0, g) => t.a[1] = s0.a[1]
  /\ IF m = 0 THEN t.r = s0.r ELSE s0.r[1] \in LongWord /\ t.r[1] = Cell(s0, m)

LEMMA SweepStep ==
  ASSUME NEW s0, NEW g \in Conditional, NEW m \in Nat, NEW t,
         Sweeping(s0, g, m, t), Ready(t, InPlace(g))
  PROVE  LET u == Executed(t, InPlace(g)) IN
         IF Mapped(s0, Cell(s0, m)) THEN Sweeping(s0, g, m + 1, u) /\ BUSERR \notin u.raised
         ELSE Swept(s0, g, m, u) /\ BUSERR \in u.raised
<1> DEFINE u == Executed(t, InPlace(g))
           y == t.r[1]
           x0 == s0.r[1]
           Past(x) == \E j \in 0 .. m - 1 : x = Cell(s0, j)
<1>1. InPlaceEnd(t, g, u)
  BY InPlaceStep
<1> HIDE DEF u
<1>2. y \in LongWord /\ x0 \in LongWord
  BY <1>1 DEF InPlaceEnd, Sweeping
<1>3. LongWord \subseteq Int
  BY Widths DEF LongWord
<1>4. y = Cell(s0, m)
  <2>1. CASE m = 0
    <3>1. y = x0
      BY <2>1 DEF Sweeping
    <3>2. x0 + 4 * m = x0 + 0
      BY <1>2, <1>3, <2>1
    <3> QED  BY <1>2, <3>1, <3>2, SameRegister DEF Cell
  <2> QED  BY <2>1 DEF Sweeping
<1>5. Mapped(t, y) <=> Mapped(s0, y)
  BY DEF Mapped, Sweeping, Swept
<1>6. CASE ~Mapped(s0, y)
  <2>1. BUSERR \in u.raised /\ u.mem = t.mem
    BY <1>1, <1>5, <1>6 DEF InPlaceEnd
  <2>2. Swept(s0, g, m, u)
    BY <2>1 DEF Sweeping, Swept
  <2> QED  BY <1>4, <1>6, <2>1, <2>2 DEF u
<1>7. CASE Mapped(s0, y)
  <2>1. /\ BUSERR \notin u.raised /\ u.r[1] = Low(y + 4, LongH)
        /\ t.mem[y] \in FloatWord /\ u.dau = t.dau /\ u.dauc = t.dauc
        /\ ~Holds(t, g) => u.a[1] = t.a[1]
        /\ DOMAIN u.mem = DOMAIN t.mem
        /\ \A z \in DOMAIN t.mem : u.mem[z] = IF z = y THEN Repacked(t, g, y) ELSE t.mem[z]
    BY <1>1, <1>5, <1>7 DEF InPlaceEnd
  <2>2. Holds(t, g) <=> Holds(s0, g)
    BY DEF Holds, Sweeping
  <2>3. t.mem[y] = (IF Past(y) THEN Repacked(s0, g, y) ELSE s0.mem[y]) /\ s0.mem[y] \in FloatWord
    <3>1. t.mem[y] = IF Past(y) THEN Repacked(s0, g, y) ELSE s0.mem[y]
      BY <1>7 DEF Sweeping, Swept, Mapped
    <3>2. Past(y) => s0.mem[y] \in FloatWord
      BY DEF Sweeping, Swept
    <3> QED  BY <2>1, <3>1, <3>2
  <2>4. Repacked(t, g, y) = Repacked(s0, g, y)
    <3>1. CASE Holds(s0, g)
      <4>1. Repacked(t, g, y) = AccPack(AccUnpack(t.mem[y])) /\ Repacked(s0, g, y) = AccPack(AccUnpack(s0.mem[y]))
        BY <2>2, <3>1 DEF Repacked
      <4>2. AccPack(AccUnpack(AccPack(AccUnpack(s0.mem[y])))) = AccPack(AccUnpack(s0.mem[y]))
        BY <2>3, RepackTwice
      <4> QED  BY <2>3, <4>1, <4>2, Zenon
    <3>2. CASE ~Holds(s0, g) /\ s0.dauc.cond
      <4>1. Repacked(t, g, y) = t.mem[y] /\ Repacked(s0, g, y) = s0.mem[y]
        BY <2>2, <3>2 DEF Repacked, Sweeping
      <4> QED  BY <2>3, <4>1
    <3>3. CASE ~Holds(s0, g) /\ ~s0.dauc.cond
      BY <2>2, <3>3 DEF Repacked, Sweeping
    <3> QED  BY <3>1, <3>2, <3>3
  <2>5. 0 .. (m + 1) - 1 = (0 .. m - 1) \cup {m}
    OBVIOUS
  <2>6. Swept(s0, g, m + 1, u)
    <3>1. DOMAIN u.mem = DOMAIN s0.mem
      BY <2>1 DEF Sweeping, Swept
    <3>2. \A j \in 0 .. (m + 1) - 1 : Mapped(s0, Cell(s0, j)) /\ s0.mem[Cell(s0, j)] \in FloatWord
      BY <1>4, <1>7, <2>3, <2>5 DEF Sweeping, Swept
    <3>3. ASSUME NEW x \in DOMAIN s0.mem
          PROVE  u.mem[x] = IF \E j \in 0 .. (m + 1) - 1 : x = Cell(s0, j)
                            THEN Repacked(s0, g, x) ELSE s0.mem[x]
      <4>1. (\E j \in 0 .. (m + 1) - 1 : x = Cell(s0, j)) <=> Past(x) \/ x = y
        BY <1>4, <2>5
      <4>2. t.mem[x] = (IF Past(x) THEN Repacked(s0, g, x) ELSE s0.mem[x]) /\ x \in DOMAIN t.mem
        BY DEF Sweeping, Swept
      <4>3. u.mem[x] = IF x = y THEN Repacked(s0, g, y) ELSE t.mem[x]
        BY <2>1, <2>4, <4>2
      <4> HIDE DEF Past
      <4> QED  BY <4>1, <4>2, <4>3
    <3> QED  BY <3>1, <3>2, <3>3 DEF Swept
  <2>7. u.r[1] = Cell(s0, m + 1)
    <3>1. x0 + 4 * m \in Int /\ (x0 + 4 * m) + 4 = x0 + 4 * (m + 1)
      <4>1. x0 \in Int
        BY <1>2, <1>3
      <4> HIDE DEF x0
      <4> QED  BY <4>1
    <3>2. Low(Low(x0 + 4 * m, LongH) + 4, LongH) = Low((x0 + 4 * m) + 4, LongH)
      <4>1. LongH \in Nat \ {0} /\ x0 + 4 * m \in Int /\ 4 \in Int
        BY <3>1, Widths
      <4> QED  BY ONLY <4>1, LowAgain, Zenon
    <3> HIDE DEF x0, y
    <3> QED  BY <1>4, <2>1, <3>1, <3>2 DEF Cell, x0
  <2>8. Sweeping(s0, g, m + 1, u)
    <3>1. m + 1 # 0
      OBVIOUS
    <3> QED  BY <1>2, <2>1, <2>2, <2>6, <2>7, <3>1 DEF Sweeping
  <2> QED  BY <1>4, <1>7, <2>1, <2>8 DEF u
<1> QED  BY <1>6, <1>7

\* Where a sweep is: on its way, or at an end that is not mapped.
Sweep ==
  \A g \in Conditional : start[2] = Repeats(InPlace(g), Len(start[2])) =>
    LET N == Len(start[2])
        s0 == start[1]
    IN  \/ \E m \in 0 .. N : prog = Repeats(InPlace(g), N - m) /\ Sweeping(s0, g, m, d)
        \/ \E m \in 0 .. N - 1 : /\ prog = <<>> /\ BUSERR \in d.raised
                                 /\ ~Mapped(s0, Cell(s0, m)) /\ Swept(s0, g, m, d)

Inv4 == Inv3 /\ Sweep

LEMMA InitSweep == Init => Inv4
<1> SUFFICES ASSUME Init PROVE Sweep
  BY InitWay DEF Inv4
<1>1. start[1] = d /\ start[2] = prog
  BY DEF Init
<1>2. Program(start[2])
  BY InitWay DEF Inv3
<1> SUFFICES ASSUME NEW g \in Conditional, start[2] = Repeats(InPlace(g), Len(start[2]))
             PROVE  \E m \in 0 .. Len(start[2]) : /\ prog = Repeats(InPlace(g), Len(start[2]) - m)
                                                  /\ Sweeping(start[1], g, m, d)
  BY Zenon DEF Sweep
<1> DEFINE N == Len(start[2])
<1>3. N \in Nat
  BY <1>2, ProgramTail
<1>4. Sweeping(d, g, 0, d)
  <2>1. 0 .. 0 - 1 = {}
    OBVIOUS
  <2> QED  BY <2>1 DEF Sweeping, Swept
<1> HIDE DEF N
<1>5. N - 0 = N /\ 0 \in 0 .. N
  BY <1>3
<1> QED  BY <1>1, <1>4, <1>5 DEF N

LEMMA StepSweep == Inv4 /\ Typed /\ [Next]_vars => Inv4'
<1> SUFFICES ASSUME Inv4, Typed, [Next]_vars PROVE Inv4'
  OBVIOUS
<1>1. Inv3'
  BY StepWay DEF Inv4
<1>2. CASE UNCHANGED vars
  BY <1>1, <1>2 DEF Inv4, Sweep, vars
<1>3. CASE Step
  <2>1. /\ prog # <<>> /\ d' = Executed(d, Head(prog)) /\ start' = start
        /\ prog' = IF BUSERR \in d'.raised THEN <<>> ELSE Tail(prog)
    BY <1>3 DEF Step
  <2>2. Ready(d, Head(prog))
    <3>1. WellFormed(Head(prog)) /\ Typing(d) /\ RegsTyped(d)
      BY <2>1, TailProgram DEF Inv4, Inv3, Inv2, Inv1, Inv0
    <3>2. Meets(d, Head(prog)) /\ DataFit(d, Head(prog))
      BY <2>1 DEF Typed, Meets, DataFit
    <3> QED  BY <3>1, <3>2 DEF Ready
  <2> DEFINE s0 == start[1]
             N  == Len(start[2])
  <2>3. N \in Nat
    BY ProgramTail DEF Inv4, Inv3
  <2> SUFFICES ASSUME NEW g \in Conditional, start[2] = Repeats(InPlace(g), N)
               PROVE  \/ \E m \in 0 .. N : prog' = Repeats(InPlace(g), N - m) /\ Sweeping(s0, g, m, d')
                      \/ \E m \in 0 .. N - 1 : /\ prog' = <<>> /\ BUSERR \in d'.raised
                                               /\ ~Mapped(s0, Cell(s0, m)) /\ Swept(s0, g, m, d')
    BY <1>1, <2>1, Zenon DEF Inv4, Sweep
  <2>4. PICK m \in 0 .. N : prog = Repeats(InPlace(g), N - m) /\ Sweeping(s0, g, m, d)
    BY <2>1 DEF Inv4, Sweep
  <2> HIDE DEF N, s0
  <2>5. N - m \in Nat /\ m \in Nat
    BY <2>3, <2>4
  <2>6. N - m # 0 /\ Head(prog) = InPlace(g) /\ Tail(prog) = Repeats(InPlace(g), N - m - 1)
    BY <2>1, <2>4, <2>5, RepeatsEnds
  <2>7. N - m - 1 = N - (m + 1) /\ m + 1 \in 0 .. N /\ m \in 0 .. N - 1
    BY <2>3, <2>4, <2>5, <2>6
  <2>8. IF Mapped(s0, Cell(s0, m)) THEN Sweeping(s0, g, m + 1, d') /\ BUSERR \notin d'.raised
        ELSE Swept(s0, g, m, d') /\ BUSERR \in d'.raised
    <3>1. Ready(d, InPlace(g)) /\ d' = Executed(d, InPlace(g))
      BY <2>1, <2>2, <2>6
    <3> QED  BY <2>4, <2>5, <3>1, SweepStep
  <2>9. CASE Mapped(s0, Cell(s0, m))
    BY <2>1, <2>6, <2>7, <2>8, <2>9
  <2>10. CASE ~Mapped(s0, Cell(s0, m))
    BY <2>1, <2>7, <2>8, <2>10
  <2> QED  BY <2>9, <2>10
<1> QED  BY <1>2, <1>3 DEF Next

(* A sweep of conditional loads in place, of any length and from any         *)
(* address, leaves every word it has passed as the condition and dauc say,   *)
(* stops before the first word that is not mapped, and touches nothing else. *)
THEOREM SweepsInPlace == Spec /\ []Typed => []InPlaceSweeps
<1>1. ASSUME Inv4 PROVE InPlaceSweeps
  <2> DEFINE s0 == start[1]
             N  == Len(start[2])
             Passed(x) == \E j \in 0 .. Done - 1 :
                            x = Cell(s0, j) /\ \A i \in 0 .. j : Mapped(d, Cell(s0, i))
  <2> SUFFICES ASSUME NEW g \in Conditional, start[2] = Repeats(InPlace(g), N)
               PROVE  /\ Done > 0 /\ BUSERR \notin d.raised => d.r[1] = Cell(s0, Done)
                      /\ \A x \in DOMAIN d.mem :
                           d.mem[x] = IF Passed(x) THEN Repacked(s0, g, x) ELSE s0.mem[x]
    BY Zenon DEF InPlaceSweeps, Conditional, Cell, Repacked
  <2>1. N \in Nat
    BY <1>1, ProgramTail DEF Inv4, Inv3
  <2>2. \/ \E m \in 0 .. N : prog = Repeats(InPlace(g), N - m) /\ Sweeping(s0, g, m, d)
        \/ \E m \in 0 .. N - 1 : /\ prog = <<>> /\ BUSERR \in d.raised
                                 /\ ~Mapped(s0, Cell(s0, m)) /\ Swept(s0, g, m, d)
    BY <1>1 DEF Inv4, Sweep
  <2> HIDE DEF N, s0
  <2>3. CASE \E m \in 0 .. N : prog = Repeats(InPlace(g), N - m) /\ Sweeping(s0, g, m, d)
    <3>1. PICK m \in 0 .. N : prog = Repeats(InPlace(g), N - m) /\ Sweeping(s0, g, m, d)
      BY <2>3
    <3>2. Done = m
      <4> DEFINE k == N - m
      <4>1. k \in Nat
        BY <2>1
      <4> HIDE DEF k
      <4>2. Len(prog) = k
        <5>1. prog = Repeats(InPlace(g), k)
          BY <3>1 DEF k
        <5> QED  BY <4>1, <5>1, RepeatsEnds
      <4>3. N - k = m
        BY <2>1 DEF k
      <4> QED  BY <4>2, <4>3 DEF Done, N
    <3>3. \A x : Passed(x) <=> \E j \in 0 .. m - 1 : x = Cell(s0, j)
      <4>1. \A j \in 0 .. m - 1 : \A i \in 0 .. j : i \in 0 .. m - 1
        BY <2>1
      <4>2. \A j \in 0 .. m - 1 : Mapped(d, Cell(s0, j))
        BY <3>1 DEF Sweeping, Swept, Mapped
      <4> QED  BY <3>2, <4>1, <4>2
    <3>4. Done > 0 => d.r[1] = Cell(s0, Done)
      <4>1. m > 0 => m # 0
        BY <2>1
      <4> QED  BY <3>1, <3>2, <4>1 DEF Sweeping
    <3> HIDE DEF Passed
    <3> QED  BY <3>1, <3>3, <3>4 DEF Sweeping, Swept
  <2>4. CASE \E m \in 0 .. N - 1 : /\ prog = <<>> /\ BUSERR \in d.raised
                                   /\ ~Mapped(s0, Cell(s0, m)) /\ Swept(s0, g, m, d)
    <3>1. PICK m \in 0 .. N - 1 : /\ prog = <<>> /\ BUSERR \in d.raised
                                  /\ ~Mapped(s0, Cell(s0, m)) /\ Swept(s0, g, m, d)
      BY <2>4
    <3>2. Done = N
      BY <2>1, <3>1 DEF Done, N
    <3>3. \A x : Passed(x) <=> \E j \in 0 .. m - 1 : x = Cell(s0, j)
      <4>1. \A j \in 0 .. m - 1 : j \in 0 .. N - 1 /\ \A i \in 0 .. j : i \in 0 .. m - 1
        BY <2>1
      <4>2. \A j \in 0 .. m - 1 : Mapped(d, Cell(s0, j))
        BY <3>1 DEF Swept, Mapped
      <4>3. ~Mapped(d, Cell(s0, m))
        BY <3>1 DEF Swept, Mapped
      <4>4. \A j \in 0 .. N - 1 : j \in 0 .. m - 1 \/ m \in 0 .. j
        BY <2>1
      <4> QED  BY <3>2, <4>1, <4>2, <4>3, <4>4
    <3> HIDE DEF Passed
    <3> QED  BY <3>1, <3>3 DEF Swept
  <2> QED  BY <2>2, <2>3, <2>4
<1> QED  BY <1>1, InitSweep, StepSweep, PTL DEF Spec

-----------------------------------------------------------------------------
(* Bits, and additions whose carries go from left to right *)

\* Bit i of x.
BitOf(x, i) == (x \div 2 ^ i) % 2

LEMMA TwoTo ==
  ASSUME NEW i \in 0..IntBits
  PROVE  /\ 2 ^ i \in Nat \ {0} /\ 2 ^ 0 = 1
         /\ i > 0 => 2 ^ (i - 1) \in Nat \ {0} /\ 2 ^ i = 2 * 2 ^ (i - 1)
<1>1. i \in 0 .. 4 * IntBits /\ IntBits \in Nat
  BY Widths
<1>2. 2 ^ i \in Nat \ {0}
  BY <1>1, PowersRise
<1>3. ASSUME i > 0 PROVE 2 ^ (i - 1) \in Nat \ {0} /\ 2 ^ i = 2 * 2 ^ (i - 1)
  <2>1. i - 1 \in 0 .. 4 * IntBits /\ i - 1 <= i /\ i - (i - 1) = 1
    BY <1>1, <1>3
  <2>2. 2 ^ (i - 1) \in Nat \ {0} /\ 2 ^ i = 2 ^ (i - (i - 1)) * 2 ^ (i - 1)
    BY <1>1, <2>1, PowersRise
  <2>3. 2 ^ 1 = 2
    OBVIOUS
  <2> QED  BY <2>1, <2>2, <2>3
<1> QED  BY <1>2, <1>3

LEMMA DivDiv ==
  ASSUME NEW x \in Nat, NEW a \in Nat \ {0}, NEW b \in Nat \ {0}
  PROVE  (x \div a) \div b = x \div (a * b) /\ x \div a \in Nat
<1> DEFINE q  == x \div a
           r  == x % a
           q2 == q \div b
           r2 == q % b
           s  == a * r2 + r
<1>1. q \in Nat /\ r \in 0 .. a - 1 /\ x = a * q + r
  OBVIOUS
<1> HIDE DEF q, r
<1>2. q2 \in Int /\ r2 \in 0 .. b - 1 /\ q = b * q2 + r2
  BY <1>1
<1> HIDE DEF q2, r2
<1>3. a * b \in Nat \ {0}
  BY Times
<1>4. s \in 0 .. a * b - 1
  <2>1. r2 * a <= (b - 1) * a /\ 0 * a <= r2 * a
    BY <1>2, MulMono
  <2>2. (b - 1) * a = a * b - a /\ 0 * a = 0 /\ r2 * a = a * r2 /\ a * r2 \in Int
    BY <1>2
  <2> QED  BY <1>1, <1>3, <2>1, <2>2
<1>5. x = q2 * (a * b) + s
  <2>1. a * q = a * (b * q2) + a * r2
    BY <1>2
  <2>2. a * (b * q2) = q2 * (a * b) /\ q2 * (a * b) \in Int /\ a * r2 \in Int
    BY <1>2
  <2> QED  BY <1>1, <2>1, <2>2
<1> HIDE DEF s
<1>6. x \div (a * b) = q2
  BY <1>2, <1>3, <1>4, <1>5, DivModIs
<1> QED  BY <1>1, <1>6 DEF q2, q

\* The bits of a number: the lowest, and the others by halving it.
LEMMA Halved ==
  ASSUME NEW x \in Nat, NEW i \in 0 .. IntBits - 1
  PROVE  /\ x \div 2 ^ i = 2 * (x \div 2 ^ (i + 1)) + BitOf(x, i)
         /\ x \div 2 ^ (i + 1) \in Nat /\ BitOf(x, i) \in {0, 1} /\ x \div 2 ^ i \in Nat
         /\ x \div 2 ^ (i + 1) = (x \div 2) \div 2 ^ i
<1> DEFINE p == 2 ^ i
           p1 == 2 ^ (i + 1)
           q == x \div p
<1>1. p \in Nat \ {0} /\ p1 = p * 2 /\ p1 = 2 * p /\ p1 \in Nat \ {0}
  <2>1. i + 1 \in 0..IntBits /\ i + 1 > 0 /\ (i + 1) - 1 = i /\ i \in 0..IntBits
    BY Widths
  <2> QED  BY <2>1, TwoTo
<1> HIDE DEF p, p1
<1>2. (x \div p) \div 2 = x \div p1 /\ (x \div 2) \div p = x \div p1 /\ q \in Nat
  <2>1. 2 \in Nat \ {0}
    OBVIOUS
  <2>2. (x \div p) \div 2 = x \div (p * 2) /\ (x \div 2) \div p = x \div (2 * p) /\ x \div p \in Nat
    BY <1>1, <2>1, DivDiv, Zenon
  <2>3. x \div (p * 2) = x \div p1 /\ x \div (2 * p) = x \div p1
    BY <1>1, Zenon
  <2> QED  BY <2>2, <2>3, Zenon
<1>3. q \div 2 = x \div p1
  BY <1>2
<1> HIDE DEF q
<1>4. q = 2 * (q \div 2) + (q % 2) /\ q \div 2 \in Nat /\ (q % 2) \in {0, 1}
  BY <1>2
<1>5. BitOf(x, i) = q % 2
  BY DEF BitOf, p, q
<1>6. q = 2 * (x \div p1) + BitOf(x, i) /\ x \div p1 \in Nat /\ BitOf(x, i) \in {0, 1}
  BY <1>3, <1>4, <1>5, Zenon
<1>7. x \div p1 = (x \div 2) \div p
  BY <1>2, Zenon
<1> QED  BY <1>2, <1>6, <1>7, Zenon DEF p, p1, q

\* Numbers of n bits are equal when their bits are.
LEMMA SameBits ==
  ASSUME NEW n \in 0..IntBits, NEW x \in 0 .. 2 ^ n - 1, NEW y \in 0 .. 2 ^ n - 1,
         \A i \in 0 .. n - 1 : BitOf(x, i) = BitOf(y, i)
  PROVE  x = y
<1> DEFINE T == {i \in 0..n : x \div 2 ^ i = y \div 2 ^ i}
<1>1. n \in Nat /\ x \in Nat /\ y \in Nat /\ 2 ^ n \in Nat \ {0}
  BY TwoTo, Widths
<1>2. n \in T
  <2> DEFINE p == 2 ^ n
  <2>1. p \in Nat \ {0} /\ x \in 0 .. p - 1 /\ y \in 0 .. p - 1 /\ x = 0 * p + x /\ y = 0 * p + y
    BY <1>1
  <2> HIDE DEF p
  <2>2. x \div p = 0 /\ y \div p = 0
    BY <1>1, <2>1, DivModIs
  <2> QED  BY <1>1, <2>2 DEF p
<1>3. T \subseteq Nat
  OBVIOUS
<1> HIDE DEF T
<1>4. PICK k \in T : \A j \in T : k <= j
  BY <1>2, <1>3, Least
<1>5. k \in 0..n /\ x \div 2 ^ k = y \div 2 ^ k
  BY DEF T
<1>6. CASE k = 0
  <2> DEFINE p == 2 ^ k
  <2>1. p = 1
    BY <1>6, TwoTo
  <2>2. x \div p = y \div p
    BY <1>5
  <2> HIDE DEF p
  <2> QED  BY <1>1, <2>1, <2>2
<1>7. CASE k # 0
  <2> DEFINE j == k - 1
  <2>1. j \in 0 .. n - 1 /\ j + 1 = k /\ j \in 0..n /\ j \in 0 .. IntBits - 1
    BY <1>1, <1>5, <1>7, Widths
  <2> HIDE DEF j
  <2>2. /\ x \div 2 ^ j = 2 * (x \div 2 ^ (j + 1)) + BitOf(x, j)
        /\ y \div 2 ^ j = 2 * (y \div 2 ^ (j + 1)) + BitOf(y, j)
    BY <1>1, <2>1, Halved
  <2>3. x \div 2 ^ j = y \div 2 ^ j
    BY <1>5, <2>1, <2>2
  <2>4. j \in T
    BY <2>1, <2>3 DEF T
  <2> QED  BY <1>4, <1>5, <2>1, <2>4
<1> QED  BY <1>6, <1>7

\* A number of n bits whose bits from k on are not set is one of k bits.
LEMMA LowBits ==
  ASSUME NEW n \in 0..IntBits, NEW x \in 0 .. 2 ^ n - 1, NEW k \in 0..n,
         \A i \in k .. n - 1 : BitOf(x, i) = 0
  PROVE  x < 2 ^ k
<1> DEFINE T == {i \in k..n : x < 2 ^ i}
<1>1. n \in Nat /\ x \in Nat /\ k \in Nat
  BY TwoTo, Widths
<1>2. n \in T /\ T \subseteq Nat
  BY <1>1, TwoTo
<1> HIDE DEF T
<1>3. PICK i \in T : \A j \in T : i <= j
  BY <1>2, Least
<1>4. i \in k..n /\ x < 2 ^ i
  BY DEF T
<1>5. CASE i # k
  <2> DEFINE j == i - 1
             p == 2 ^ j
             q == x \div p
  <2>1. j \in k .. n - 1 /\ j + 1 = i /\ j \in k..n /\ j \in 0 .. IntBits - 1 /\ i \in 0..IntBits /\ i > 0
    BY <1>1, <1>4, <1>5, Widths
  <2>2. p \in Nat \ {0} /\ 2 ^ i = 2 * p
    BY <2>1, TwoTo
  <2>3. q \in Nat /\ q * p <= x /\ x < (q + 1) * p
    <3> HIDE DEF p
    <3>1. q \in Nat
      BY <1>1, <2>2
    <3> QED  BY <1>1, <2>2, <3>1, DivSpec
  <2>4. q % 2 = 0
    BY <2>1 DEF BitOf
  <2> HIDE DEF q, p
  <2>5. q < 2
    <3>1. q * p <= 2 * p - 1
      <4>1. q * p \in Int
        BY <2>2, <2>3
      <4> QED  BY <1>1, <1>4, <2>2, <2>3, <4>1
    <3>2. 2 <= q <=> 2 * p <= q * p
      BY <2>2, <2>3, TimesKeepsOrder
    <3>3. q * p \in Int /\ 2 * p \in Int
      BY <2>2, <2>3
    <3> QED  BY <2>3, <3>1, <3>2, <3>3
  <2>6. q = 0
    BY <2>3, <2>4, <2>5
  <2>7. x < p
    BY <2>2, <2>3, <2>6
  <2> HIDE DEF j
  <2>8. j \in T
    BY <2>1, <2>7 DEF T, p
  <2> QED  BY <1>3, <1>4, <2>1, <2>8
<1> QED  BY <1>4, <1>5

\* A bit appended below the others.
LEMMA Appended ==
  ASSUME NEW i \in 1..IntBits, NEW q \in 0 .. 2 ^ (i - 1) - 1, NEW c \in {0, 1}
  PROVE  LET y == 2 * q + c IN
         /\ y \in 0 .. 2 ^ i - 1 /\ BitOf(y, 0) = c
         /\ \A j \in 1 .. i - 1 : BitOf(y, j) = BitOf(q, j - 1)
<1> DEFINE y == 2 * q + c
           p == 2 ^ (i - 1)
<1>1. p \in Nat \ {0} /\ 2 ^ i = 2 * p /\ 2 ^ 0 = 1 /\ IntBits \in Nat
  <2>1. i \in 0..IntBits /\ i > 0
    BY Widths
  <2> QED  BY <2>1, TwoTo, Widths
<1>2. q \in Nat /\ q <= p - 1
  BY <1>1
<1> HIDE DEF p
<1>3. y \in Nat /\ y <= 2 * p - 1 /\ y \div 2 = q /\ (y % 2) = c
  BY <1>1, <1>2
<1> HIDE DEF y
<1>4. BitOf(y, 0) = c
  <2>1. y \div 1 = y
    BY <1>3
  <2>2. y \div 2 ^ 0 = y
    BY <1>1, <2>1, Zenon
  <2> QED  BY <1>3, <2>2 DEF BitOf
<1>5. ASSUME NEW j \in 1 .. i - 1 PROVE BitOf(y, j) = BitOf(q, j - 1)
  <2> DEFINE k == j - 1
  <2>1. k \in 0 .. IntBits - 1 /\ k + 1 = j
    BY <1>1
  <2> HIDE DEF k
  <2>2. y \div 2 ^ (k + 1) = (y \div 2) \div 2 ^ k
    BY <1>3, <2>1, Halved
  <2>3. y \div 2 ^ j = q \div 2 ^ k
    BY <1>3, <2>1, <2>2, Zenon
  <2> QED  BY <2>3, Zenon DEF BitOf, k
<1> QED  BY <1>1, <1>3, <1>4, <1>5 DEF y

LEMMA Reversed ==
  ASSUME NEW x \in Nat, NEW n \in 0..IntBits
  PROVE  /\ BitRev(x, n) \in 0 .. 2 ^ n - 1
         /\ \A i \in 0 .. n - 1 : BitOf(BitRev(x, n), i) = BitOf(x, n - 1 - i)
<1> DEFINE g == [i \in 1..n |-> ((x \div 2 ^ (i - 1)) % 2) * 2 ^ (n - i)]
           F(f) == f = [i \in 0..n |-> IF i = 0 THEN 0
                                       ELSE f[i - 1] + ((x \div 2 ^ (i - 1)) % 2) * 2 ^ (n - i)]
           rev == CHOOSE f : F(f)
<1>1. n \in Nat /\ n <= IntBits /\ IntBits \in Nat
  BY Widths
<1>2. /\ \A i \in 1..n : g[i] = BitOf(x, i - 1) * 2 ^ (n - i)
      /\ g \in [1..n -> Int]
  <2>1. ASSUME NEW i \in 1..n PROVE BitOf(x, i - 1) * 2 ^ (n - i) \in Int
    <3>1. i - 1 \in 0 .. IntBits - 1 /\ n - i \in 0 .. IntBits
      BY <1>1
    <3>2. BitOf(x, i - 1) \in {0, 1} /\ 2 ^ (n - i) \in Nat \ {0}
      BY <3>1, Halved, TwoTo
    <3> QED  BY <3>2
  <2>2. \A i \in 1..n : ((x \div 2 ^ (i - 1)) % 2) * 2 ^ (n - i) = BitOf(x, i - 1) * 2 ^ (n - i)
    BY DEF BitOf
  <2> QED  BY <2>1, <2>2
<1>3. \A f : F(f) <=> Sums(f, g, n)
  <2> TAKE f
  <2>1. [i \in 0..n |-> IF i = 0 THEN 0 ELSE f[i - 1] + ((x \div 2 ^ (i - 1)) % 2) * 2 ^ (n - i)]
          = [i \in 0..n |-> IF i = 0 THEN 0 ELSE f[i - 1] + g[i]]
    BY <1>1
  <2> QED  BY <2>1, Zenon DEF Sums
<1>4. \E f : F(f)
  <2> HIDE DEF F, g
  <2> QED  BY <1>1, <1>2, <1>3, SumsExist, Zenon
<1>5. F(rev)
  <2> HIDE DEF F
  <2> QED  BY <1>4, Zenon
<1>6. BitRev(x, n) = rev[n]
  BY DEF BitRev
<1> HIDE DEF rev, F
<1>7. \A i \in 0..n : rev[i] = IF i = 0 THEN 0 ELSE rev[i - 1] + g[i]
  <2> HIDE DEF g
  <2>1. Sums(rev, g, n)
    BY <1>3, <1>5
  <2> QED  BY <2>1, Zenon DEF Sums
<1> HIDE DEF g
<1> DEFINE Good(i) == \E q \in 0 .. 2 ^ i - 1 :
                        /\ rev[i] = q * 2 ^ (n - i)
                        /\ \A j \in 0 .. i - 1 : BitOf(q, j) = BitOf(x, i - 1 - j)
           T == {i \in 0..n : ~Good(i)}
<1>8. T = {}
  <2> SUFFICES ASSUME T # {} PROVE FALSE
    OBVIOUS
  <2>1. T \subseteq Nat
    OBVIOUS
  <2> HIDE DEF T
  <2>2. PICK i \in T : \A j \in T : i <= j
    BY <2>1, Least
  <2>3. i \in 0..n /\ ~Good(i)
    BY DEF T
  <2>4. CASE i = 0
    <3>1. 2 ^ 0 = 1 /\ 0 .. 0 - 1 = {} /\ 2 ^ (n - 0) \in Nat
      <4>1. n - 0 \in 0..IntBits
        BY <1>1
      <4> QED  BY <4>1, TwoTo
    <3>2. 0 \in 0 .. 2 ^ 0 - 1 /\ rev[0] = 0 * 2 ^ (n - 0)
      <4>1. rev[0] = 0
        BY <1>1, <1>7
      <4> DEFINE p == 2 ^ (n - 0)
      <4>2. p \in Nat
        BY <3>1
      <4> HIDE DEF p
      <4>3. 0 * p = 0
        BY <4>2
      <4> QED  BY <3>1, <4>1, <4>3 DEF p
    <3>3. Good(0)
      BY <3>1, <3>2
    <3> QED  BY <2>3, <2>4, <3>3
  <2>5. CASE i # 0
    <3> DEFINE k == i - 1
               c == BitOf(x, k)
               P == 2 ^ (n - i)
    <3>1. k \in 0..n /\ k < i /\ k \in 0 .. IntBits - 1 /\ i \in 1..IntBits /\ i \in 1..n
          /\ n - k \in 0..IntBits /\ n - k > 0 /\ (n - k) - 1 = n - i /\ i \in Nat
      BY <1>1, <2>3, <2>5
    <3>2. Good(k)
      <4>1. k \notin T
        BY <2>2, <3>1
      <4> HIDE DEF Good, k
      <4> QED  BY <3>1, <4>1 DEF T
    <3>3. PICK q \in 0 .. 2 ^ k - 1 : /\ rev[k] = q * 2 ^ (n - k)
                                      /\ \A j \in 0 .. k - 1 : BitOf(q, j) = BitOf(x, k - 1 - j)
      BY <3>2
    <3>4. c \in {0, 1}
      <4> HIDE DEF k
      <4> QED  BY <3>1, Halved
    <3>5. P \in Nat \ {0} /\ 2 ^ (n - k) = 2 * P
      <4> HIDE DEF k
      <4>1. 2 ^ ((n - k) - 1) \in Nat \ {0} /\ 2 ^ (n - k) = 2 * 2 ^ ((n - k) - 1)
        BY <3>1, TwoTo
      <4> QED  BY <3>1, <4>1
    <3> DEFINE y == 2 * q + c
    <3> HIDE DEF c
    <3>6. /\ y \in 0 .. 2 ^ i - 1 /\ BitOf(y, 0) = c
          /\ \A j \in 1 .. i - 1 : BitOf(y, j) = BitOf(q, j - 1)
      BY <3>1, <3>3, <3>4, Appended
    <3>7. rev[i] = y * P
      <4>1. rev[i] = rev[k] + c * P
        BY <1>2, <1>7, <2>5, <3>1 DEF c
      <4>2. q \in Int /\ rev[k] = q * (2 * P)
        <5>1. 2 ^ k \in Nat
          BY <3>1, TwoTo
        <5> QED  BY <3>3, <3>5, <5>1
      <4> HIDE DEF P, k
      <4> QED  BY <3>4, <3>5, <4>1, <4>2
    <3>8. \A j \in 0 .. i - 1 : BitOf(y, j) = BitOf(x, i - 1 - j)
      <4> TAKE j \in 0 .. i - 1
      <4> HIDE DEF y
      <4>1. CASE j = 0
        <5>1. i - 1 - j = k
          BY <3>1, <4>1
        <5> QED  BY <3>6, <4>1, <5>1 DEF c
      <4>2. CASE j # 0
        <5>1. j \in 1 .. i - 1 /\ j - 1 \in 0 .. k - 1 /\ k - 1 - (j - 1) = i - 1 - j
          BY <3>1, <4>2
        <5>2. BitOf(y, j) = BitOf(q, j - 1) /\ BitOf(q, j - 1) = BitOf(x, k - 1 - (j - 1))
          BY <3>3, <3>6, <5>1
        <5> QED  BY <5>1, <5>2
      <4> QED  BY <4>1, <4>2
    <3> HIDE DEF y
    <3>9. Good(i)
      BY <3>6, <3>7, <3>8
    <3> QED  BY <2>3, <3>9
  <2> QED  BY <2>4, <2>5
<1>9. Good(n)
  <2> HIDE DEF Good
  <2> QED  BY <1>1, <1>8
<1>10. PICK q \in 0 .. 2 ^ n - 1 : /\ rev[n] = q * 2 ^ (n - n)
                                   /\ \A j \in 0 .. n - 1 : BitOf(q, j) = BitOf(x, n - 1 - j)
  BY <1>9
<1>11. rev[n] = q
  <2> DEFINE z == n - n
  <2>1. z = 0 /\ 2 ^ 0 = 1
    BY <1>1, TwoTo
  <2>2. rev[n] = q * 2 ^ z
    BY <1>10
  <2> HIDE DEF z
  <2>3. 2 ^ z = 1
    BY <2>1, Zenon
  <2>4. q \in Int
    BY <1>1, TwoTo
  <2> QED  BY <2>2, <2>3, <2>4
<1> QED  BY <1>6, <1>10, <1>11

\* Reversing twice brings a number of n bits back.
LEMMA ReversedTwice ==
  ASSUME NEW n \in 0..IntBits, NEW x \in 0 .. 2 ^ n - 1
  PROVE  BitRev(BitRev(x, n), n) = x
<1> DEFINE y == BitRev(x, n)
           z == BitRev(y, n)
<1>1. x \in Nat /\ n \in Nat /\ 2 ^ n \in Nat
  BY TwoTo, Widths
<1>2. y \in 0 .. 2 ^ n - 1 /\ \A i \in 0 .. n - 1 : BitOf(y, i) = BitOf(x, n - 1 - i)
  BY <1>1, Reversed
<1> HIDE DEF y
<1>3. y \in Nat
  BY <1>1, <1>2
<1>4. z \in 0 .. 2 ^ n - 1 /\ \A i \in 0 .. n - 1 : BitOf(z, i) = BitOf(y, n - 1 - i)
  BY <1>3, Reversed
<1> HIDE DEF z
<1>5. \A i \in 0 .. n - 1 : n - 1 - i \in 0 .. n - 1 /\ n - 1 - (n - 1 - i) = i
  BY <1>1
<1>6. \A i \in 0 .. n - 1 : BitOf(z, i) = BitOf(x, i)
  BY <1>2, <1>4, <1>5
<1>7. z = x
  BY <1>4, <1>6, SameBits
<1> QED  BY <1>7 DEF y, z

\* 2^a shifted to the right by i places.
LEMMA PowerShifted ==
  ASSUME NEW a \in 0..IntBits, NEW i \in 0..IntBits, NEW x \in Nat
  PROVE  /\ i <= a => (x * 2 ^ a) \div 2 ^ i = x * 2 ^ (a - i)
         /\ i < a  => BitOf(x * 2 ^ a, i) = 0
<1> DEFINE p == 2 ^ a
           q == 2 ^ i
           s == 2 ^ (a - i)
<1>1. ASSUME i <= a
      PROVE  p = s * q /\ s \in Nat \ {0} /\ q \in Nat \ {0} /\ (i < a => \E z \in Nat : s = 2 * z)
  <2>1. a \in 0 .. 4 * IntBits /\ i \in 0 .. 4 * IntBits /\ a - i \in 0..IntBits
    BY <1>1, Widths
  <2>2. p = s * q /\ s \in Nat \ {0} /\ q \in Nat \ {0}
    BY <1>1, <2>1, PowersRise
  <2>3. ASSUME i < a PROVE \E z \in Nat : s = 2 * z
    <3> DEFINE j == a - i
    <3>1. j \in 0..IntBits /\ j > 0
      BY <2>1, <2>3
    <3> HIDE DEF j
    <3>2. 2 ^ (j - 1) \in Nat /\ 2 ^ j = 2 * 2 ^ (j - 1)
      BY <3>1, TwoTo
    <3> QED  BY <3>2 DEF j
  <2> QED  BY <2>2, <2>3
<1> HIDE DEF p, q, s
<1>2. ASSUME i <= a PROVE (x * p) \div q = x * s
  <2> DEFINE y == x * p
             v == x * s
  <2>1. y = v * q + 0 /\ y \in Int /\ v \in Int /\ 0 \in 0 .. q - 1
    BY <1>1, <1>2
  <2> HIDE DEF y, v
  <2>2. y \div q = v
    BY <1>1, <1>2, <2>1, DivModIs
  <2> QED  BY <2>2 DEF y, v
<1>3. ASSUME i < a PROVE ((x * p) \div q) % 2 = 0
  <2>1. i <= a
    BY <1>3
  <2>2. PICK z \in Nat : s = 2 * z
    BY <1>1, <1>3, <2>1
  <2> DEFINE v == x * z
  <2>3. x * s = v * 2 + 0 /\ v \in Int /\ x * s \in Int
    BY <2>2
  <2> DEFINE y == x * s
  <2> HIDE DEF v, y
  <2>4. 0 \in 0 .. 2 - 1 /\ 2 \in Nat \ {0} /\ y = v * 2 + 0 /\ y \in Int
    BY <2>3 DEF y
  <2>5. (y % 2) = 0
    BY <2>3, <2>4, DivModIs
  <2> QED  BY <1>2, <2>1, <2>5 DEF y
<1> QED  BY <1>2, <1>3 DEF BitOf, p, q, s

\* The bits of 2^a, and its reverse.
LEMMA PowerBits ==
  ASSUME NEW n \in 1..IntBits, NEW a \in 0 .. n - 1, NEW i \in 0 .. n - 1
  PROVE  2 ^ a \in 0 .. 2 ^ n - 1 /\ BitOf(2 ^ a, i) = IF i = a THEN 1 ELSE 0
<1> DEFINE p == 2 ^ a
           q == 2 ^ i
<1>1. /\ a \in 0..IntBits /\ i \in 0..IntBits /\ a \in 0 .. 4 * IntBits /\ i \in 0 .. 4 * IntBits
      /\ n \in 0 .. 4 * IntBits /\ IntBits \in Nat /\ a < n
  BY Widths
<1>2. p \in Nat \ {0} /\ q \in Nat \ {0} /\ 2 * p <= 2 ^ n /\ 2 ^ n \in Nat
  BY <1>1, PowersRise
<1>3. p \in 0 .. 2 ^ n - 1
  <2> HIDE DEF p
  <2> QED  BY <1>2
<1>4. CASE i < a
  <2>1. 1 * p = p /\ 1 \in Nat
    BY <1>2
  <2>2. BitOf(1 * p, i) = 0
    BY <1>1, <1>4, <2>1, PowerShifted
  <2> HIDE DEF p
  <2>3. BitOf(p, i) = 0
    BY <2>1, <2>2, Zenon
  <2> QED  BY <1>1, <1>3, <1>4, <2>3 DEF p
<1>5. CASE i = a
  <2>1. p \div p = 1
    <3> HIDE DEF p
    <3>1. p = 1 * p + 0 /\ 0 \in 0 .. p - 1
      BY <1>2
    <3> QED  BY <1>2, <3>1, DivModIs
  <2>2. BitOf(p, i) = 1 % 2
    BY <1>5, <2>1 DEF BitOf
  <2> HIDE DEF p
  <2> QED  BY <1>3, <1>5, <2>2 DEF p
<1>6. CASE i > a
  <2>1. 2 * p <= q
    BY <1>1, <1>6, PowersRise
  <2>2. p \div q = 0
    <3> HIDE DEF p, q
    <3>1. p = 0 * q + p /\ p \in 0 .. q - 1
      BY <1>2, <2>1
    <3> QED  BY <1>2, <3>1, DivModIs
  <2>3. BitOf(p, i) = 0 % 2
    BY <2>2 DEF BitOf
  <2> HIDE DEF p
  <2> QED  BY <1>1, <1>3, <1>6, <2>3 DEF p
<1> QED  BY <1>1, <1>4, <1>5, <1>6

LEMMA PowerReversed ==
  ASSUME NEW n \in 1..IntBits, NEW a \in 0 .. n - 1
  PROVE  BitRev(2 ^ a, n) = 2 ^ (n - 1 - a) /\ 2 ^ (n - 1 - a) \in 0 .. 2 ^ n - 1
<1> DEFINE b == n - 1 - a
           x == 2 ^ a
           y == BitRev(x, n)
           z == 2 ^ b
<1>1. b \in 0 .. n - 1 /\ n \in 0..IntBits /\ n \in Nat /\ 0 \in 0 .. n - 1 /\ 2 ^ n \in Nat
  <2>1. n \in 0..IntBits /\ n \in Nat
    BY Widths
  <2> QED  BY <2>1, TwoTo
<1>2. x \in 0 .. 2 ^ n - 1 /\ x \in Nat /\ \A i \in 0 .. n - 1 : BitOf(x, i) = IF i = a THEN 1 ELSE 0
  <2>1. x \in 0 .. 2 ^ n - 1
    BY <1>1, PowerBits
  <2> QED  BY <1>1, <2>1, PowerBits
<1>3. z \in 0 .. 2 ^ n - 1 /\ \A i \in 0 .. n - 1 : BitOf(z, i) = IF i = b THEN 1 ELSE 0
  <2> HIDE DEF b
  <2>1. z \in 0 .. 2 ^ n - 1
    BY <1>1, PowerBits
  <2> QED  BY <1>1, <2>1, PowerBits
<1> HIDE DEF x, z
<1>4. y \in 0 .. 2 ^ n - 1 /\ \A i \in 0 .. n - 1 : BitOf(y, i) = BitOf(x, n - 1 - i)
  BY <1>1, <1>2, Reversed
<1> HIDE DEF y
<1>5. \A i \in 0 .. n - 1 : n - 1 - i \in 0 .. n - 1 /\ (n - 1 - i = a <=> i = b)
  BY <1>1
<1>6. \A i \in 0 .. n - 1 : BitOf(y, i) = BitOf(z, i)
  BY <1>2, <1>3, <1>4, <1>5
<1>7. y = z
  BY <1>1, <1>3, <1>4, <1>6, SameBits
<1> QED  BY <1>3, <1>7 DEF y, x, z, b

\* Multiples of 2^(n-k), of which n bits are kept: the bits of the factor, from
\* the bit n - k on.
LEMMA MultipleBits ==
  ASSUME NEW n \in 1..IntBits, NEW k \in 1..n, NEW m \in Nat
  PROVE  LET y == (m * 2 ^ (n - k)) % 2 ^ n IN
         /\ y \in 0 .. 2 ^ n - 1
         /\ \A i \in 0 .. n - k - 1 : BitOf(y, i) = 0
         /\ \A j \in 0 .. k - 1 : BitOf(y, (n - k) + j) = BitOf(m, j)
<1> DEFINE s == n - k
           S == 2 ^ s
           K == 2 ^ k
           N == 2 ^ n
           t == m \div K
           r == m % K
           y == (m * S) % N
<1>1. /\ s \in 0..IntBits /\ k \in 0..IntBits /\ n \in 0..IntBits /\ s \in 0 .. 4 * IntBits
      /\ k \in 0 .. 4 * IntBits /\ s + k = n /\ s + k <= 4 * IntBits /\ IntBits \in Nat
  BY Widths
<1>2. S \in Nat \ {0} /\ K \in Nat \ {0} /\ N = S * K /\ N \in Nat \ {0}
  <2> HIDE DEF s
  <2>1. 2 ^ s \in Nat \ {0} /\ 2 ^ k \in Nat \ {0} /\ 2 ^ (s + k) = 2 ^ s * 2 ^ k
    BY <1>1, Powers
  <2> QED  BY <1>1, <2>1, TwoTo
<1> HIDE DEF S, K, N, s
<1>3. t \in Nat /\ r \in 0 .. K - 1 /\ m = K * t + r
  BY <1>2
<1> HIDE DEF t, r
<1>4. y = r * S /\ r * S \in 0 .. N - 1
  <2> DEFINE v == r * S
             z == m * S
  <2>1. v \in 0 .. N - 1
    <3>1. r * S <= (K - 1) * S /\ 0 * S <= r * S
      BY <1>2, <1>3, MulMono
    <3>2. (K - 1) * S = N - S /\ 0 * S = 0 /\ r * S \in Int
      BY <1>2, <1>3
    <3> QED  BY <1>2, <3>1, <3>2
  <2>2. z = t * N + v /\ z \in Int
    BY <1>2, <1>3
  <2> HIDE DEF v, z
  <2>3. N \in Nat \ {0} /\ t \in Int /\ z \in Int /\ v \in 0 .. N - 1 /\ z = t * N + v
    BY <1>2, <1>3, <2>1, <2>2
  <2>4. (z % N) = v
    BY ONLY <2>3, DivModIs, Zenon
  <2> QED  BY <2>1, <2>4 DEF v, z
<1> HIDE DEF y
<1>5. ASSUME NEW i \in 0 .. s - 1 PROVE BitOf(y, i) = 0
  <2>1. i \in 0..IntBits /\ i < s /\ r \in Nat
    BY <1>1, <1>3
  <2>2. BitOf(r * 2 ^ s, i) = 0
    BY <1>1, <2>1, PowerShifted
  <2> QED  BY <1>4, <2>2 DEF S
<1>6. ASSUME NEW j \in 0 .. k - 1 PROVE BitOf(y, s + j) = BitOf(m, j)
  <2> DEFINE J == 2 ^ j
             Z == 2 ^ (k - j)
  <2>1. j \in 0..IntBits /\ j \in 0 .. 4 * IntBits /\ s + j <= 4 * IntBits /\ j < k /\ j <= k
        /\ k - j \in 0..IntBits /\ k - j > 0
    BY <1>1
  <2>2. J \in Nat \ {0} /\ 2 ^ (s + j) = S * J
    BY <1>1, <2>1, Powers DEF S
  <2>3. K = Z * J /\ \E z \in Nat : Z = 2 * z
    <3>1. K = Z * J
      BY <1>1, <2>1, PowersRise DEF K
    <3> DEFINE l == k - j
    <3>2. l \in 0..IntBits /\ l > 0
      BY <2>1
    <3> HIDE DEF l
    <3>3. 2 ^ (l - 1) \in Nat /\ 2 ^ l = 2 * 2 ^ (l - 1)
      BY <3>2, TwoTo
    <3> QED  BY <3>1, <3>3 DEF l
  <2> HIDE DEF J, Z
  <2>4. (y \div S) \div J = y \div (S * J) /\ y \div S = r
    <3>1. y \in Nat /\ y \in Int /\ r \in Int /\ y = r * S + 0 /\ 0 \in 0 .. S - 1
      BY <1>2, <1>3, <1>4
    <3>2. (y \div S) \div J = y \div (S * J)
      BY <1>2, <2>2, <3>1, DivDiv
    <3>3. y \div S = r
      BY <1>2, <3>1, DivModIs
    <3> QED  BY <3>2, <3>3
  <2>5. PICK z \in Nat : Z = 2 * z
    BY <2>3
  <2> DEFINE q == r \div J
             c == r % J
             v == z * t
             w == 2 * v + q
  <2>6. q \in Nat /\ c \in 0 .. J - 1 /\ r = J * q + c
    BY <1>2, <1>3, <2>2
  <2> HIDE DEF q, c
  <2>7. m = w * J + c /\ w \in Int /\ v \in Nat
    <3>1. K * t = (2 * v) * J /\ v \in Nat
      <4>1. K * t = ((2 * z) * J) * t
        BY <2>3, <2>5
      <4> QED  BY <1>3, <2>2, <2>5, <4>1
    <3> HIDE DEF v
    <3>2. (2 * v + q) * J = (2 * v) * J + q * J /\ q * J = J * q /\ (2 * v) * J \in Int /\ q * J \in Int
      BY <2>2, <2>6, <3>1
    <3> QED  BY <1>3, <2>6, <3>1, <3>2
  <2>8. m \div J = w
    <3> HIDE DEF w
    <3> QED  BY <2>2, <2>6, <2>7, DivModIs
  <2>9. (w % 2) = (q % 2)
    <3> HIDE DEF v
    <3> QED  BY <2>6, <2>7
  <2>10. BitOf(y, s + j) = q % 2
    BY <2>2, <2>4 DEF BitOf, q
  <2> HIDE DEF w, q
  <2> QED  BY <2>8, <2>9, <2>10 DEF BitOf, J
<1> QED  BY <1>4, <1>5, <1>6 DEF y, N, S, s

\* The word that cradd adds with.
LEMMA Reversal ==
  ASSUME NEW short
  PROVE  LET h == WordH(short)
             n == Width(h)
         IN  h \in Nat \ {0} /\ n \in 1..IntBits /\ 2 ^ n = 2 * h
BY Widths DEF WordH, Width

CraddWord(short) == AluReg("cradd", short, 1, 1, 2, "true")

\* One addition with the carries from left to right.
LEMMA CarriesReversed ==
  ASSUME NEW short \in BOOLEAN, NEW t, Ready(t, CraddWord(short))
  PROVE  LET h == WordH(short)
             n == Width(h)
             u == Executed(t, CraddWord(short))
             sum == BitRev(Low(t.r[1], h), n) + BitRev(Low(t.r[2], h), n)
         IN  /\ u.raised = {} /\ u.r[2] = t.r[2]
             /\ Low(u.r[1], h) = BitRev(Low(sum, h), n)
<1> DEFINE w == CraddWord(short)
           h == WordH(short)
           n == Width(h)
           u == Executed(t, w)
           t0 == LatencyTick(t)
           a == t.r[1]
           b == t.r[2]
           sum == BitRev(Low(a, h), n) + BitRev(Low(b, h), n)
           res == BitRev(Low(sum, h), n)
           r == AluOp(t0, "cradd", a, b, h)
<1>1. w.op = "alu" /\ w.f = "cradd" /\ w.short = short /\ w.rd = 1 /\ w.rs1 = 1 /\ w.rs2 = 2 /\ w.c = "true"
  BY DEF CraddWord, AluReg
<1>2. 1 \in RegNo /\ 2 \in RegNo /\ Shape(t) /\ RegsTyped(t) /\ WellFormed(w)
  BY <1>1 DEF Ready, WellFormed, Source, Typing
<1>3. Opval(t, w.rs1) = a /\ AluOperand(t, w) = b
  BY <1>1 DEF Opval, AluOperand, SpBump
<1>4. CondEval(t.cau, t.flagPipe[3], w.c) /\ w.f # "res5" /\ StoresResult(w.f)
  BY <1>1 DEF CondEval, StoresResult
<1>5. r.res = res
  BY DEF AluOp, Cradd
<1>6. h \in Nat \ {0} /\ n \in 1..IntBits /\ n \in 0..IntBits /\ 2 ^ n = 2 * h
  BY Reversal
<1>7. res \in 0 .. 2 * h - 1
  <2>1. a \in Nat /\ b \in Nat
    BY <1>2, Widths DEF RegsTyped, LongWord
  <2>2. Low(a, h) \in Nat /\ Low(b, h) \in Nat
    <3> HIDE DEF a, b, h, n
    <3>1. Low(a, h) \in 0 .. 2 * h - 1 /\ Low(b, h) \in 0 .. 2 * h - 1
      BY <1>6, <2>1, LowRange
    <3> QED  BY <1>6, <3>1
  <2>3. sum \in Nat
    BY <1>6, <2>2, Reversed
  <2> HIDE DEF sum
  <2>4. Low(sum, h) \in Nat
    <3> HIDE DEF h, n
    <3>1. Low(sum, h) \in 0 .. 2 * h - 1
      BY <1>6, <2>3, LowRange
    <3> QED  BY <1>6, <3>1
  <2> QED  BY <1>6, <2>4, Reversed
<1>8. u.raised = {} /\ u.r[2] = b /\ Low(u.r[1], h) = Low(r.res, h)
  <2>1. /\ WordH(w.short) = h /\ w.rd \in RegNo /\ 2 # w.rd
        /\ AluOp(t0, w.f, Opval(t, w.rs1), AluOperand(t, w), WordH(w.short)) = r
    BY <1>1, <1>2, <1>3
  <2> HIDE DEF w, h, a, t0, r
  <2> QED  BY <1>1, <1>2, <1>4, <2>1, AluStep DEF t0
<1> HIDE DEF res, h
<1>9. Low(res, h) = res
  BY <1>6, <1>7 DEF Low
<1> QED  BY <1>5, <1>8, <1>9 DEF res, h, w

\* A register to which half of 2^k has been added m times with the carries
\* reversed.
Visiting(short, k, m, t) ==
  LET h == WordH(short)
      n == Width(h)
  IN  t.r[2] = 2 ^ (k - 1) /\ Low(t.r[1], h) = BitRev(Low(m * 2 ^ (n - k), h), n)

LEMMA VisitStep ==
  ASSUME NEW short \in BOOLEAN, NEW k \in 1 .. Width(WordH(short)), NEW m \in Nat, NEW t,
         Visiting(short, k, m, t), Ready(t, CraddWord(short))
  PROVE  LET u == Executed(t, CraddWord(short)) IN
         BUSERR \notin u.raised /\ Visiting(short, k, m + 1, u)
<1> DEFINE u == Executed(t, CraddWord(short))
           h == WordH(short)
           n == Width(h)
           S == 2 ^ (n - k)
           p == 2 ^ (k - 1)
           y == m * S
           A == Low(y, h)
<1>1. h \in Nat \ {0} /\ n \in 1..IntBits /\ n \in 0..IntBits /\ 2 ^ n = 2 * h /\ n \in Nat
  BY Reversal, Widths
<1>2. /\ u.raised = {} /\ u.r[2] = p /\ t.r[2] = p
      /\ Low(u.r[1], h) = BitRev(Low(BitRev(BitRev(A, n), n) + BitRev(Low(p, h), n), h), n)
  BY CarriesReversed DEF Visiting
<1>3. p \in 0 .. 2 ^ n - 1 /\ BitRev(p, n) = S /\ S \in Nat
  <2> DEFINE a == k - 1
  <2>1. a \in 0 .. n - 1 /\ n - 1 - a = n - k
    BY <1>1
  <2> HIDE DEF a, n
  <2>2. 0 \in 0 .. n - 1 /\ n - 1 - a \in 0 .. n - 1 /\ n \in 1..IntBits
    BY <1>1, <2>1
  <2>3. 2 ^ a \in 0 .. 2 ^ n - 1
    BY <2>1, <2>2, PowerBits
  <2>4. BitRev(2 ^ a, n) = 2 ^ (n - 1 - a) /\ 2 ^ (n - 1 - a) \in 0 .. 2 ^ n - 1
    BY <2>1, <2>2, PowerReversed
  <2> QED  BY <2>1, <2>3, <2>4 DEF a
<1> HIDE DEF S, p
<1>4. y \in Nat /\ A \in 0 .. 2 ^ n - 1
  <2>1. y \in Nat
    BY <1>3
  <2> HIDE DEF y, h, n
  <2>2. Low(y, h) \in 0 .. 2 * h - 1
    BY <1>1, <2>1, LowRange
  <2> QED  BY <1>1, <2>1, <2>2
<1>5. BitRev(BitRev(A, n), n) = A
  BY <1>1, <1>4, ReversedTwice
<1>6. Low(p, h) = p
  BY <1>1, <1>3 DEF Low
<1>7. Low(A + S, h) = Low(y + S, h)
  <2>1. h \in Nat \ {0} /\ y \in Int /\ S \in Int
    BY <1>1, <1>3, <1>4
  <2> HIDE DEF y, h, n
  <2> QED  BY ONLY <2>1, LowAgain, Zenon DEF A
<1>8. y + S = (m + 1) * S
  BY <1>3
<1> HIDE DEF y, A, h, u
<1>9. Low(u.r[1], h) = BitRev(Low((m + 1) * S, h), n)
  BY <1>2, <1>3, <1>5, <1>6, <1>7, <1>8
<1> QED  BY <1>2, <1>9 DEF Visiting, u, S, p, h

\* What the register holds then.
LEMMA Visited ==
  ASSUME NEW short \in BOOLEAN, NEW k \in 1 .. Width(WordH(short)), NEW m \in Nat, NEW t,
         Visiting(short, k, m, t)
  PROVE  LET r1 == Low(t.r[1], WordH(short)) IN
         r1 < 2 ^ k /\ \A i \in 0 .. k - 1 : BitOf(r1, i) = BitOf(m, k - 1 - i)
<1> DEFINE h == WordH(short)
           n == Width(h)
           y == (m * 2 ^ (n - k)) % 2 ^ n
           r1 == Low(t.r[1], h)
<1>1. h \in Nat \ {0} /\ n \in 1..IntBits /\ n \in 0..IntBits /\ 2 ^ n = 2 * h /\ n \in Nat /\ k \in 1..n
  BY Reversal, Widths
<1>2. r1 = BitRev(y, n)
  BY <1>1 DEF Visiting, Low
<1> HIDE DEF n, h, r1
<1>3. /\ y \in 0 .. 2 ^ n - 1
      /\ \A i \in 0 .. n - k - 1 : BitOf(y, i) = 0
      /\ \A j \in 0 .. k - 1 : BitOf(y, (n - k) + j) = BitOf(m, j)
  BY <1>1, MultipleBits
<1> HIDE DEF y
<1>4. r1 \in 0 .. 2 ^ n - 1 /\ \A i \in 0 .. n - 1 : BitOf(r1, i) = BitOf(y, n - 1 - i)
  BY <1>1, <1>2, <1>3, Reversed
<1>5. \A i \in 0 .. k - 1 : BitOf(r1, i) = BitOf(m, k - 1 - i)
  <2> TAKE i \in 0 .. k - 1
  <2> DEFINE j == k - 1 - i
  <2>1. i \in 0 .. n - 1 /\ j \in 0 .. k - 1 /\ n - 1 - i = (n - k) + j
    BY <1>1
  <2> QED  BY <1>3, <1>4, <2>1
<1>6. \A i \in k .. n - 1 : BitOf(r1, i) = 0
  <2> TAKE i \in k .. n - 1
  <2>1. i \in 0 .. n - 1 /\ n - 1 - i \in 0 .. n - k - 1
    BY <1>1
  <2> QED  BY <1>3, <1>4, <2>1
<1>7. r1 < 2 ^ k
  BY <1>1, <1>4, <1>6, LowBits
<1> QED  BY <1>5, <1>7 DEF r1, h

\* Nothing, reversed.
LEMMA ZeroReversed ==
  ASSUME NEW n \in 1..IntBits
  PROVE  BitRev(0, n) = 0
<1>1. n \in 0..IntBits /\ 2 ^ n \in Nat \ {0} /\ n \in Nat
  BY TwoTo, Widths
<1>2. \A i \in 0 .. n - 1 : BitOf(0, i) = 0
  <2> TAKE i \in 0 .. n - 1
  <2>1. i \in 0..IntBits
    BY <1>1, Widths
  <2> DEFINE p == 2 ^ i
  <2>2. p \in Nat \ {0}
    BY <2>1, TwoTo
  <2>3. (0 \div p) % 2 = 0
    <3> HIDE DEF p
    <3>1. 0 = 0 * p + 0 /\ 0 \in 0 .. p - 1
      BY <2>2
    <3>2. 0 \div p = 0
      BY <2>2, <3>1, DivModIs
    <3> QED  BY <3>2
  <2> QED  BY <2>3 DEF BitOf
<1> DEFINE y == BitRev(0, n)
<1>3. y \in 0 .. 2 ^ n - 1 /\ \A i \in 0 .. n - 1 : BitOf(y, i) = BitOf(0, n - 1 - i)
  BY <1>1, Reversed
<1> HIDE DEF y
<1>4. \A i \in 0 .. n - 1 : n - 1 - i \in 0 .. n - 1
  BY <1>1
<1>5. \A i \in 0 .. n - 1 : BitOf(y, i) = BitOf(0, i)
  BY <1>2, <1>3, <1>4
<1>6. 0 \in 0 .. 2 ^ n - 1
  BY <1>1
<1>7. y = 0
  BY <1>1, <1>3, <1>5, <1>6, SameBits
<1> QED  BY <1>7 DEF y

Table(short, k) ==
  /\ start[2] = Repeats(CraddWord(short), Len(start[2]))
  /\ start[1].r[1] = 0 /\ start[1].r[2] = 2 ^ (k - 1)

\* How many entries of the table have been passed.
Visit ==
  \A short \in BOOLEAN : \A k \in 1 .. Width(WordH(short)) :
    Table(short, k) =>
      \E m \in 0 .. Len(start[2]) : /\ prog = Repeats(CraddWord(short), Len(start[2]) - m)
                                    /\ Visiting(short, k, m, d)

Inv5 == Inv3 /\ Visit

LEMMA InitVisit == Init => Inv5
<1> SUFFICES ASSUME Init PROVE Visit
  BY InitWay DEF Inv5
<1>1. start[1] = d /\ start[2] = prog
  BY DEF Init
<1>2. Program(start[2])
  BY InitWay DEF Inv3
<1> DEFINE N == Len(start[2])
<1>3. N \in Nat
  BY <1>2, ProgramTail
<1> SUFFICES ASSUME NEW short \in BOOLEAN, NEW k \in 1 .. Width(WordH(short)), Table(short, k)
             PROVE  \E m \in 0 .. N : prog = Repeats(CraddWord(short), N - m) /\ Visiting(short, k, m, d)
  BY Zenon DEF Visit
<1>4. Visiting(short, k, 0, d)
  <2> DEFINE h == WordH(short)
             n == Width(h)
             S == 2 ^ (n - k)
  <2>1. h \in Nat \ {0} /\ n \in 1..IntBits /\ n - k \in 0..IntBits
    <3>1. h \in Nat \ {0} /\ n \in 1..IntBits /\ k \in 1..n
      BY Reversal
    <3> HIDE DEF n, h
    <3> QED  BY <3>1, Widths
  <2>2. S \in Nat
    <3> DEFINE s == n - k
    <3>1. s \in 0..IntBits
      BY <2>1
    <3> HIDE DEF s
    <3>2. 2 ^ s \in Nat
      BY <3>1, TwoTo
    <3> QED  BY <3>2 DEF s
  <2> HIDE DEF S
  <2>3. 0 * S = 0
    BY <2>2
  <2>4. Low(0, h) = 0
    <3> HIDE DEF h
    <3> QED  BY <2>1 DEF Low
  <2>5. BitRev(0, n) = 0
    BY <2>1, ZeroReversed
  <2>6. d.r[1] = 0 /\ d.r[2] = 2 ^ (k - 1)
    BY <1>1 DEF Table
  <2>7. Low(d.r[1], h) = BitRev(Low(0 * S, h), n)
    BY <2>3, <2>4, <2>5, <2>6
  <2> QED  BY <2>6, <2>7 DEF Visiting, S
<1> HIDE DEF N
<1>5. N - 0 = N /\ 0 \in 0 .. N
  BY <1>3
<1>6. prog = Repeats(CraddWord(short), N)
  BY <1>1 DEF N, Table
<1> QED  BY <1>4, <1>5, <1>6

LEMMA StepVisit == Inv5 /\ Typed /\ [Next]_vars => Inv5'
<1> SUFFICES ASSUME Inv5, Typed, [Next]_vars PROVE Inv5'
  OBVIOUS
<1>1. Inv3'
  BY StepWay DEF Inv5
<1>2. CASE UNCHANGED vars
  BY <1>1, <1>2 DEF Inv5, Visit, Table, vars
<1>3. CASE Step
  <2>1. /\ prog # <<>> /\ d' = Executed(d, Head(prog)) /\ start' = start
        /\ prog' = IF BUSERR \in d'.raised THEN <<>> ELSE Tail(prog)
    BY <1>3 DEF Step
  <2>2. Ready(d, Head(prog))
    <3>1. WellFormed(Head(prog)) /\ Typing(d) /\ RegsTyped(d)
      BY <2>1, TailProgram DEF Inv5, Inv3, Inv2, Inv1, Inv0
    <3>2. Meets(d, Head(prog)) /\ DataFit(d, Head(prog))
      BY <2>1 DEF Typed, Meets, DataFit
    <3> QED  BY <3>1, <3>2 DEF Ready
  <2> DEFINE N == Len(start[2])
  <2>3. N \in Nat
    BY ProgramTail DEF Inv5, Inv3
  <2> SUFFICES ASSUME NEW short \in BOOLEAN, NEW k \in 1 .. Width(WordH(short)), Table(short, k)
               PROVE  \E m \in 0 .. N : prog' = Repeats(CraddWord(short), N - m) /\ Visiting(short, k, m, d')
    BY <1>1, <2>1, Zenon DEF Inv5, Visit, Table
  <2>4. PICK m \in 0 .. N : prog = Repeats(CraddWord(short), N - m) /\ Visiting(short, k, m, d)
    BY DEF Inv5, Visit
  <2> HIDE DEF N
  <2>5. N - m \in Nat /\ m \in Nat
    BY <2>3, <2>4
  <2>6. /\ N - m # 0 /\ Head(prog) = CraddWord(short)
        /\ Tail(prog) = Repeats(CraddWord(short), N - m - 1)
    BY <2>1, <2>4, <2>5, RepeatsEnds
  <2>7. N - m - 1 = N - (m + 1) /\ m + 1 \in 0 .. N
    BY <2>3, <2>4, <2>5, <2>6
  <2>8. BUSERR \notin d'.raised /\ Visiting(short, k, m + 1, d')
    <3>1. Ready(d, CraddWord(short)) /\ d' = Executed(d, CraddWord(short))
      BY <2>1, <2>2, <2>6
    <3> QED  BY <2>4, <2>5, <3>1, VisitStep
  <2> QED  BY <2>1, <2>6, <2>7, <2>8
<1> QED  BY <1>2, <1>3 DEF Next

(* However often cradd adds half of 2^k to a cleared register, after m times *)
(* the register holds the low k bits of m in reverse: an FFT's table of any  *)
(* size a register can index is visited in bit-reversed order.               *)
THEOREM TablesVisited == Spec /\ []Typed => []ReverseCarrySweeps
<1>1. ASSUME Inv5 PROVE ReverseCarrySweeps
  <2> DEFINE N == Len(start[2])
  <2> SUFFICES ASSUME NEW short \in BOOLEAN, NEW k \in 1 .. Width(WordH(short)), Table(short, k)
               PROVE  LET r1 == Low(d.r[1], WordH(short)) IN
                      r1 < 2 ^ k /\ \A i \in 0 .. k - 1 : BitOf(r1, i) = BitOf(Done, k - 1 - i)
    BY Zenon DEF ReverseCarrySweeps, Table, CraddWord, BitOf
  <2>1. N \in Nat
    BY <1>1, ProgramTail DEF Inv5, Inv3
  <2>2. PICK m \in 0 .. N : prog = Repeats(CraddWord(short), N - m) /\ Visiting(short, k, m, d)
    BY <1>1 DEF Inv5, Visit
  <2> HIDE DEF N
  <2>3. Done = m
    <3> DEFINE j == N - m
    <3>1. j \in Nat
      BY <2>1
    <3> HIDE DEF j
    <3>2. Len(prog) = j
      <4>1. prog = Repeats(CraddWord(short), j)
        BY <2>2 DEF j
      <4> QED  BY <3>1, <4>1, RepeatsEnds
    <3>3. N - j = m
      BY <2>1 DEF j
    <3> QED  BY <3>2, <3>3 DEF Done, N
  <2>4. m \in Nat
    BY <2>1
  <2> QED  BY <2>2, <2>3, <2>4, Visited
<1> QED  BY <1>1, InitVisit, StepVisit, PTL DEF Spec

=============================================================================
