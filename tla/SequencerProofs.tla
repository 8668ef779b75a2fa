-------------------------- MODULE SequencerProofs --------------------------
(***************************************************************************)
(* Theorems about Sequencer, for every set of programs, every host and     *)
(* both kinds of memory: its types, the count of a live hardware loop, the *)
(* lock of pcw and the bound on the steps that execute nothing.            *)
(*                                                                         *)
(* The first three are facts about the struct alone, which every C         *)
(* function preserves (Good); the last follows the processing level        *)
(* through a fault.                                                        *)
(***************************************************************************)
EXTENDS Sequencer, TLAPS

Counted(l) == l.active => l.count > 0

Good(t) ==
  /\ t \in State
  /\ Counted(t.ctx.loop)
  /\ Counted(t.sh.loop)
  /\ t.pcwLocked => t.pcw.b13

Errors == {BUSERR, ILLOP, AERR, UV}

-----------------------------------------------------------------------------
(* Instruction words *)

\* A decoded word has the fields its operation uses.
LEMMA InsnFields ==
  ASSUME NEW w \in Insn
  PROVE  /\ w.op = "set"  => w.reg \in Reg /\ w.v \in Nat
         /\ w.op = "goto" => w.base \in Reg /\ w.off \in Nat
         /\ w.op = "if"   => w.off \in Nat
         /\ w.op = "call" => w.off \in Nat
         /\ w.op = "do"   => w.k \in Nat /\ w.count \in Nat \ {0} /\ w.lock \in BOOLEAN
         /\ w.op = "emr"  => w.v \in SUBSET (0..15)
         /\ w.op = "pcw"  => w.v \in [comp: BOOLEAN, b13: BOOLEAN]
         /\ w.op = "load" => w.v \in Nat /\ w.x \in Operand
         /\ w.op = "store" => w.z \in Operand
         /\ w.op = "da"   => w.x \in Operand /\ w.y \in Operand /\ w.z \in Operand
         /\ w.op \in {"nop", "ireturn", "waiti", "sftrst", "bkpt", "illop", "set",
                      "goto", "if", "call", "do", "emr", "pcw", "load", "store", "da"}
  BY DEF Insn

\* Every word in memory decodes.
LEMMA WordType ==
  ASSUME prog \in DOMAIN Programs, NEW t \in State, NEW x, Mapped(t, x)
  PROVE  Word(t, x) \in Insn
<1>1. t.pcw.comp \in BOOLEAN
  BY DEF State
<1> QED
  BY <1>1, ProgramsAssumption DEF Mapped, Word, Words

-----------------------------------------------------------------------------
(* The C functions *)

\* Replacing the live context by one whose loop is counted.
LEMMA CtxGood ==
  ASSUME NEW t, Good(t), NEW c \in Ctx, Counted(c.loop)
  PROVE  Good([t EXCEPT !.ctx = c])
<1> DEFINE u == [t EXCEPT !.ctx = c]
<1>1. u \in State /\ u.ctx = c /\ u.sh = t.sh /\ u.pcw = t.pcw /\ u.pcwLocked = t.pcwLocked
  BY DEF Good, State
<1> HIDE DEF u
<1>2. Good(u)
  BY <1>1 DEF Good
<1> QED
  BY <1>2 DEF u

\* take_error() keeps the struct good, whatever it does with the exception.
LEMMA TakeErrorGood ==
  ASSUME NEW t, Good(t), NEW vn \in Errors
  PROVE  Good(TakeError(t, vn))
<1> DEFINE u == [t EXCEPT !.lastVector = vn]
           l == [t.ctx.loop EXCEPT !.active = FALSE]
           c == [t.ctx EXCEPT !.loop = l]
           p == [t.pcw EXCEPT !.b13 = FALSE]
           x == t.evtp + vn * 8
           n == ~Maskable(vn)
           w == [u EXCEPT !.ctx = c, !.waiting = FALSE, !.nonmaskable = n,
                          !.level = "ERROR", !.pcw = p, !.pcwLocked = FALSE,
                          !.r20 = t.cur + 8, !.pc = x, !.npc = x + 4]
<1>1. Good(u)
  BY DEF Good, State, Errors, BUSERR, ILLOP, AERR, UV
<1>2. Good([u EXCEPT !.level = "DERROR"])
  BY <1>1 DEF Good, State, Levels
<1>3. Good(w)
  <2>1. c \in Ctx /\ c.loop = l /\ ~l.active
    BY DEF Good, State, Ctx, Loop
  <2>2. x \in Nat /\ t.cur \in Nat
    BY DEF Good, State, Errors, BUSERR, ILLOP, AERR, UV
  <2>3. n \in BOOLEAN
    BY DEF Maskable
  <2>4. p \in [comp: BOOLEAN, b13: BOOLEAN]
    BY DEF Good, State
  <2>5. u \in State /\ Counted(u.sh.loop)
    BY <1>1 DEF Good
  <2> HIDE DEF u, l, c, p, x, n
  <2>6. w \in State
    <3> DEFINE w1 == [u EXCEPT !.ctx = c, !.waiting = FALSE, !.nonmaskable = n,
                               !.level = "ERROR"]
    <3>1. w1 \in State
      BY <2>1, <2>3, <2>5 DEF State, Levels
    <3> DEFINE w2 == [w1 EXCEPT !.pcw = p, !.pcwLocked = FALSE]
    <3> HIDE DEF w1
    <3>2. w2 \in State
      BY <3>1, <2>4 DEF State
    <3>3. w = [w2 EXCEPT !.r20 = t.cur + 8, !.pc = x, !.npc = x + 4]
      BY <2>5 DEF State, w1
    <3>4. x + 4 \in Nat /\ t.cur + 8 \in Nat
      BY <2>2
    <3> HIDE DEF w, w2
    <3> QED
      BY <3>2, <3>3, <3>4, <2>2 DEF State
  <2>7. w.ctx = c /\ w.sh = u.sh /\ w.pcwLocked = FALSE
    BY <2>5 DEF State
  <2> HIDE DEF w
  <2> QED
    BY <2>1, <2>5, <2>6, <2>7 DEF Good, Counted
<1>4. TakeError(t, vn) \in {u, [u EXCEPT !.level = "DERROR"], w}
  BY DEF TakeError
<1> HIDE DEF u, w
<1> QED
  BY <1>1, <1>2, <1>3, <1>4

LEMMA MemAccessGood ==
  ASSUME NEW t, Good(t), NEW f
  PROVE  Good(MemAccess(t, f))
<1> DEFINE u == IF f.mis THEN TakeError(t, AERR) ELSE t
<1>1. Good(u)
  BY TakeErrorGood DEF Errors
<1>2. Good(TakeError(u, BUSERR))
  BY <1>1, TakeErrorGood DEF Errors
<1>3. MemAccess(t, f) \in {u, TakeError(u, BUSERR)}
  BY DEF MemAccess
<1> HIDE DEF u
<1> QED
  BY <1>1, <1>2, <1>3

\* A post-modification leaves pointers.
LEMMA PastType ==
  ASSUME NEW p \in Ptr, NEW o \in Operand
  PROVE  Past(p, o) \in Ptr
<1>1. o.i \in DOMAIN Move
  BY DEF Operand
<1>2. Move[o.i] \in [Ptr -> Ptr]
  BY <1>1, PtrAssumption
<1> QED
  BY <1>2 DEF Past

LEMMA AccessGood ==
  ASSUME NEW t, Good(t), NEW o \in Operand
  PROVE  Good(Access(t, o))
<1> DEFINE m == MemAccess(t, o.f)
           p == Past(t.ptr, o)
           u == [m EXCEPT !.ptr = p]
<1>1. Good(m)
  BY MemAccessGood
<1>2. p \in Ptr
  BY PastType DEF Good, State
<1>3. Good(u)
  <2> HIDE DEF m, p
  <2> QED BY <1>1, <1>2 DEF Good, State
<1>4. Access(t, o) \in {t, m, u}
  BY DEF Access
<1> HIDE DEF m, u
<1> QED
  BY <1>1, <1>3, <1>4

LEMMA PinTickGood ==
  ASSUME NEW t, Good(t)
  PROVE  Good(PinTick(t))
<1> DEFINE f == [i \in 0..1 |-> t.pulse[i] = 0]
           g == [i \in 0..1 |-> IF t.pulse[i] = 0 THEN 0 ELSE t.pulse[i] - 1]
           c == [t.ctx EXCEPT !.ir = f]
           u == [t EXCEPT !.ctx = c]
<1>1. t.ctx \in Ctx /\ t.pulse \in [0..1 -> Nat]
  BY DEF Good, State
<1>2. c \in Ctx /\ c.loop = t.ctx.loop
  BY <1>1 DEF Ctx
<1>3. Good(u)
  BY <1>2, CtxGood DEF Good
<1>4. g \in [0..1 -> Nat]
  BY <1>1
<1>5. PinTick(t) = [u EXCEPT !.pulse = g]
  BY DEF PinTick, Good, State
<1> HIDE DEF u, g
<1> QED
  BY <1>3, <1>4, <1>5 DEF Good, State

LEMMA LatencyTickGood ==
  ASSUME NEW t, Good(t)
  PROVE  Good(LatencyTick(t))
<1> DEFINE ap == <<t.ctx.a, t.ctx.aPipe[1], t.ctx.aPipe[2]>>
           fp == <<t.ctx.flag, t.ctx.flagPipe[1], t.ctx.flagPipe[2], t.ctx.flagPipe[3]>>
           c  == [t.ctx EXCEPT !.aPipe = ap, !.flagPipe = fp]
<1>1. t.ctx \in Ctx
  BY DEF Good, State
<1>2. ap \in [1..3 -> Acc] /\ fp \in [1..4 -> BOOLEAN]
  BY <1>1 DEF Ctx
<1>3. c \in Ctx /\ c.loop = t.ctx.loop
  <2> HIDE DEF ap, fp
  <2> QED BY <1>1, <1>2 DEF Ctx
<1>4. LatencyTick(t) = [t EXCEPT !.ctx = c]
  BY DEF LatencyTick, Good, State
<1> QED
  BY <1>3, <1>4, CtxGood DEF Good

LEMMA RegisterGood ==
  ASSUME NEW t, Good(t), NEW reg \in Reg
  PROVE  /\ Opval(t, reg) \in Nat
         /\ \A v \in Nat : Good(Regw(t, reg, v))
<1>1. Opval(t, reg) \in Nat
  BY DEF Opval, Reg, Good, State
<1>2. ASSUME NEW v \in Nat
      PROVE  Good(Regw(t, reg, v))
  <2>1. /\ Good([t EXCEPT !.r1 = v])
        /\ Good([t EXCEPT !.r20 = v])
        /\ Good([t EXCEPT !.evtp = v])
    BY DEF Good, State
  <2>2. /\ Good([t EXCEPT !.npc = v])
        /\ Good([t EXCEPT !.pcsh = v])
    BY DEF Good, State
  <2> QED
    BY <2>1, <2>2 DEF Regw, Reg
<1> QED
  BY <1>1, <1>2

LEMMA ExecLoadGood ==
  ASSUME NEW t, Good(t), NEW w, w.v \in Nat, w.x \in Operand
  PROVE  Good(ExecLoad(t, w))
<1>1. Good(Access(t, w.x))
  BY AccessGood
<1>2. \A u : Good(u) => Good([u EXCEPT !.r1 = w.v])
  BY DEF Good, State
<1> QED
  BY <1>1, <1>2 DEF ExecLoad

LEMMA ExecDaGood ==
  ASSUME NEW t, Good(t), NEW w, w.x \in Operand, w.y \in Operand, w.z \in Operand
  PROVE  Good(ExecDa(t, w))
<1> DEFINE t0 == Access(t, w.x)
           t1 == Access(t0, w.y)
           v  == Dau[<<t1.ctx.a, t1.ctx.aPipe[3]>>]
           t2 == [t1 EXCEPT !.ctx.flag = v \in AccNeg]
           t3 == IF w.uv THEN TakeError(t2, UV) ELSE t2
           t4 == [t3 EXCEPT !.ctx.a = v]
<1>1. Good(t0) /\ Good(t1)
  <2>1. Good(t0)
    BY AccessGood
  <2> HIDE DEF t0
  <2> QED
    BY <2>1, AccessGood
<1>2. v \in Acc
  <2> HIDE DEF t1
  <2> QED BY <1>1, DauAssumption DEF Good, State, Ctx
<1>3. Good(t2)
  <2> HIDE DEF t1, v
  <2> DEFINE b == v \in AccNeg
             c == [t1.ctx EXCEPT !.flag = b]
  <2>1. b \in BOOLEAN
    OBVIOUS
  <2>2. c \in Ctx /\ c.loop = t1.ctx.loop
    <3> HIDE DEF b
    <3> QED BY <1>1, <2>1 DEF Good, State, Ctx
  <2>3. Good([t1 EXCEPT !.ctx = c])
    <3> HIDE DEF c
    <3> QED BY <1>1, <2>2, CtxGood DEF Good
  <2> QED
    BY <2>3 DEF c, b
<1>4. Good(t3)
  <2> HIDE DEF t2
  <2> QED BY <1>3, TakeErrorGood DEF Errors
<1>5. Good(t4)
  <2> HIDE DEF t3, v
  <2> DEFINE c == [t3.ctx EXCEPT !.a = v]
  <2>1. c \in Ctx /\ c.loop = t3.ctx.loop
    BY <1>4, <1>2 DEF Good, State, Ctx
  <2>2. Good([t3 EXCEPT !.ctx = c])
    <3> HIDE DEF c
    <3> QED BY <1>4, <2>1, CtxGood DEF Good
  <2> QED
    BY <2>2 DEF c
<1>6. ExecDa(t, w) \in {t0, t1, Access(t4, w.z)}
  BY DEF ExecDa
<1> HIDE DEF t0, t1, t4
<1> QED
  BY <1>1, <1>5, <1>6, AccessGood

LEMMA ExecDoGood ==
  ASSUME NEW t, Good(t), NEW w, w.k \in Nat, w.count \in Nat \ {0}, w.lock \in BOOLEAN
  PROVE  Good(ExecDo(t, w))
<1> DEFINE l == [active |-> TRUE, lock |-> w.lock, start |-> t.pc,
                 end |-> t.pc + 4 * w.k, count |-> w.count]
           c == [t.ctx EXCEPT !.loop = l]
<1>1. l \in Loop /\ Counted(l)
  BY DEF Loop, Counted, Good, State
<1>2. c \in Ctx /\ c.loop = l
  <2> HIDE DEF l
  <2> QED BY <1>1 DEF Good, State, Ctx
<1>3. Good([t EXCEPT !.ctx = c])
  <2> HIDE DEF c, l
  <2> QED BY <1>1, <1>2, CtxGood
<1> QED
  BY <1>3 DEF ExecDo

LEMMA BackEdgeGood ==
  ASSUME NEW t, Good(t), NEW x
  PROVE  Good(BackEdge(t, x))
<1> DEFINE l  == t.ctx.loop
           l1 == [l EXCEPT !.count = 0, !.active = FALSE]
           c1 == [t.ctx EXCEPT !.loop = l1]
           l2 == [l EXCEPT !.count = @ - 1]
           c2 == [t.ctx EXCEPT !.loop = l2]
<1>1. l \in Loop /\ t.ctx \in Ctx
  BY DEF Good, State, Ctx
<1>2. Good([t EXCEPT !.ctx = c1])
  <2>1. l1 \in Loop /\ Counted(l1)
    BY <1>1 DEF Loop, Counted
  <2>2. c1 \in Ctx /\ c1.loop = l1
    BY <1>1, <2>1 DEF Ctx
  <2> HIDE DEF l1, c1
  <2> QED
    BY <2>1, <2>2, CtxGood
<1>3. ASSUME l.active, l.count # 1
      PROVE  Good([t EXCEPT !.ctx = c2, !.pc = l.start, !.npc = l.start + 4])
  <2>1. l2 \in Loop /\ Counted(l2)
    BY <1>1, <1>3 DEF Loop, Counted, Good
  <2>2. c2 \in Ctx /\ c2.loop = l2
    BY <1>1, <2>1 DEF Ctx
  <2>3. Good([t EXCEPT !.ctx = c2])
    <3> HIDE DEF l2, c2
    <3> QED BY <2>1, <2>2, CtxGood
  <2>4. l.start \in Nat /\ l.start + 4 \in Nat
    BY <1>1 DEF Loop
  <2> HIDE DEF c2, l
  <2> QED
    BY <2>3, <2>4 DEF Good, State
<1>4. CASE ~(l.active /\ x = l.end)
  BY <1>4 DEF BackEdge
<1>5. CASE l.active /\ x = l.end /\ l.count = 1
  <2>1. BackEdge(t, x) = [t EXCEPT !.ctx = c1]
    BY <1>5 DEF BackEdge
  <2> QED BY <1>2, <2>1
<1>6. CASE l.active /\ x = l.end /\ l.count # 1
  <2>1. BackEdge(t, x) = [t EXCEPT !.ctx = c2, !.pc = l.start, !.npc = l.start + 4]
    BY <1>6 DEF BackEdge
  <2> QED BY <1>3, <1>6, <2>1
<1> QED
  BY <1>4, <1>5, <1>6

LEMMA DoIreturnGood ==
  ASSUME NEW t, Good(t)
  PROVE  Good(DoIreturn(t))
<1> DEFINE u == IF t.level = "INTERRUPT"
                THEN [t EXCEPT !.ctx = t.sh, !.level = "BASE"] ELSE t
<1>1. Good(u)
  <2>1. t.sh \in Ctx /\ Counted(t.sh.loop)
    BY DEF Good, State
  <2>2. Good([t EXCEPT !.ctx = t.sh])
    BY <2>1, CtxGood
  <2>3. Good([t EXCEPT !.ctx = t.sh, !.level = "BASE"])
    BY <2>2 DEF Good, State, Levels
  <2> QED
    BY <2>3
<1>2. t.pcsh \in Nat /\ t.pcsh + 4 \in Nat
  BY DEF Good, State
<1>3. DoIreturn(t) = [u EXCEPT !.pc = t.pcsh, !.npc = t.pcsh + 4, !.irshPending = TRUE]
  BY DEF DoIreturn
<1> HIDE DEF u
<1> QED
  BY <1>1, <1>2, <1>3 DEF Good, State

LEMMA WriteGood ==
  ASSUME NEW t, Good(t)
  PROVE  /\ \A v \in SUBSET (0..15) : Good(WriteEmr(t, v))
         /\ \A v \in [comp: BOOLEAN, b13: BOOLEAN] : Good(WritePcw(t, v))
<1>1. ASSUME NEW v \in SUBSET (0..15)
      PROVE  Good(WriteEmr(t, v))
  <2>1. (IF 0 \in v THEN t.pending \ {EXT1} ELSE t.pending) \in SUBSET (8..15)
    BY DEF Good, State
  <2> QED
    BY <2>1 DEF WriteEmr, Good, State
<1>2. ASSUME NEW v \in [comp: BOOLEAN, b13: BOOLEAN]
      PROVE  Good(WritePcw(t, v))
  <2>1. v.b13 \in BOOLEAN
    OBVIOUS
  <2> QED
    BY <2>1 DEF WritePcw, Good, State
<1> QED
  BY <1>1, <1>2

\* exec_insn()
LEMMA ExecGood ==
  ASSUME NEW t, Good(t), NEW w \in Insn
  PROVE  Good(Exec(t, w))
<1> USE InsnFields
<1>1. CASE w.op \in {"nop", "bkpt"}
  BY <1>1 DEF Exec
<1>2. CASE w.op = "illop"
  BY <1>2, TakeErrorGood DEF Exec, Errors
<1>3. CASE w.op = "ireturn"
  BY <1>3, DoIreturnGood DEF Exec
<1>4. CASE w.op = "waiti"
  <2> DEFINE b == t.waiting \/ Enabled(t) = {}
  <2>1. b \in BOOLEAN
    OBVIOUS
  <2>2. Exec(t, w) = [t EXCEPT !.waiting = b]
    BY <1>4 DEF Exec, Good, State
  <2> HIDE DEF b
  <2> QED
    BY <2>1, <2>2 DEF Good, State
<1>5. CASE w.op = "sftrst"
  <2>1. Exec(t, w) = [t EXCEPT !.level = "BASE", !.nonmaskable = FALSE]
    BY <1>5 DEF Exec
  <2> QED
    BY <2>1 DEF Good, State, Levels
<1>6. CASE w.op = "set"
  <2>1. Exec(t, w) = Regw(t, w.reg, w.v)
    BY <1>6 DEF Exec
  <2> QED
    BY <1>6, <2>1, RegisterGood
<1>7. CASE w.op = "goto"
  <2>1. Exec(t, w) = [t EXCEPT !.npc = Opval(t, w.base) + w.off]
    BY <1>7 DEF Exec
  <2>2. Opval(t, w.base) + w.off \in Nat
    BY <1>7, RegisterGood
  <2> QED
    BY <2>1, <2>2 DEF Good, State
<1>8. CASE w.op = "if"
  <2>1. Exec(t, w) \in {t, [t EXCEPT !.npc = w.off]}
    BY <1>8 DEF Exec
  <2> QED
    BY <1>8, <2>1 DEF Good, State
<1>9. CASE w.op = "call"
  <2>1. Exec(t, w) = [t EXCEPT !.r1 = t.cur + 8, !.npc = w.off]
    BY <1>9 DEF Exec
  <2>2. t.cur + 8 \in Nat /\ w.off \in Nat
    BY <1>9 DEF Good, State
  <2> QED
    BY <2>1, <2>2 DEF Good, State
<1>10. CASE w.op = "do"
  BY <1>10, ExecDoGood DEF Exec
<1>11. CASE w.op = "emr"
  BY <1>11, WriteGood DEF Exec
<1>12. CASE w.op = "pcw"
  BY <1>12, WriteGood DEF Exec
<1>13. CASE w.op = "load"
  BY <1>13, ExecLoadGood DEF Exec
<1>14. CASE w.op = "store"
  BY <1>14, AccessGood DEF Exec
<1>15. CASE w.op = "da"
  BY <1>15, ExecDaGood DEF Exec
<1> QED
  BY <1>1, <1>2, <1>3, <1>4, <1>5, <1>6, <1>7, <1>8, <1>9, <1>10, <1>11, <1>12,
     <1>13, <1>14, <1>15

-----------------------------------------------------------------------------
(* dsp3210_step() *)

\* The highest-priority enabled request is one of the interrupt vectors.
LEMMA PendingVectorType ==
  ASSUME NEW t, Enabled(t) # {}
  PROVE  PendingVector(t) \in 8..15
<1>1. Enabled(t) \subseteq 8..15
  BY DEF Enabled
<1>2. \E v \in Enabled(t) : \A u \in Enabled(t) : v <= u
  BY <1>1
<1> QED
  BY <1>1, <1>2 DEF PendingVector

LEMMA TakeInterruptGood ==
  ASSUME prog \in DOMAIN Programs, NEW t, Good(t), NEW vn \in 8..15
  PROVE  /\ Good(TakeInterrupt(t, vn))
         /\ TakeInterrupt(t, vn).level = "INTERRUPT"
         /\ TakeInterrupt(t, vn).nonmaskable = t.nonmaskable
<1> DEFINE l  == [t.ctx.loop EXCEPT !.active = FALSE]
           c  == [t.ctx EXCEPT !.loop = l]
           ir == IF t.prefetchAddr = t.pc THEN t.prefetch
                 ELSE IF RawReadable(t, t.pc) THEN Word(t, t.pc) ELSE Nop
           x  == t.evtp + vn * 8
           p  == t.pending \ {vn}
           u  == [t EXCEPT !.ctx = c]
           v  == [u EXCEPT !.sh = t.ctx, !.irsh = ir, !.irshAddr = t.pc,
                           !.pcsh = t.pc + 4]
           w  == [v EXCEPT !.lastVector = vn, !.pending = p,
                           !.level = "INTERRUPT", !.pc = x, !.npc = x + 4]
<1>1. c \in Ctx /\ c.loop = l /\ Counted(l)
  BY DEF Good, State, Ctx, Loop, Counted
<1>2. ir \in Insn
  <2>1. Nop \in Insn
    BY DEF Nop, Insn
  <2>2. t.prefetch \in Insn /\ t \in State
    BY DEF Good, State
  <2> QED
    BY <2>1, <2>2, WordType DEF RawReadable
<1>3. t.pc \in Nat /\ t.pc + 4 \in Nat /\ x \in Nat /\ x + 4 \in Nat
  BY DEF Good, State
<1>4. p \in SUBSET (8..15) /\ vn \in -1..15
  BY DEF Good, State
<1>5. t.ctx \in Ctx /\ Counted(t.ctx.loop)
  BY DEF Good, State
<1>6. Good(u) /\ u.nonmaskable = t.nonmaskable
  <2> HIDE DEF c, l
  <2> QED BY <1>1, CtxGood DEF Good, State
<1>7. Good(v) /\ v.nonmaskable = t.nonmaskable
  <2> HIDE DEF u, ir
  <2> QED BY <1>2, <1>3, <1>5, <1>6 DEF Good, State
<1>8. Good(w) /\ w.level = "INTERRUPT" /\ w.nonmaskable = t.nonmaskable
  <2> HIDE DEF v, p, x
  <2> QED BY <1>3, <1>4, <1>7 DEF Good, State, Levels
<1>9. TakeInterrupt(t, vn) = w
  <2> DEFINE w1 == [t EXCEPT !.lastVector = vn, !.pending = p, !.sh = t.ctx,
                             !.ctx.loop.active = FALSE, !.irsh = ir,
                             !.irshAddr = t.pc, !.pcsh = t.pc + 4,
                             !.level = "INTERRUPT", !.pc = x, !.npc = x + 4]
  <2>1. TakeInterrupt(t, vn) = w1
    BY DEF TakeInterrupt, Saved
  <2>2. w1 = w
    <3> HIDE DEF ir, p, x
    <3> QED BY DEF Good, State, Ctx, Loop
  <2> QED
    BY <2>1, <2>2
<1> HIDE DEF w
<1> QED
  BY <1>8, <1>9

\* A step reaches the choice between replay and fetch with a good struct, at
\* the level it began with, or at interrupt level from base level.
LEMMA ReadyGood ==
  ASSUME prog \in DOMAIN Programs, Good(s)
  PROVE  /\ Good(Ready)
         /\ Ready.nonmaskable = s.nonmaskable
         /\ \/ Ready.level = s.level
            \/ s.level = "BASE" /\ Ready.level = "INTERRUPT"
<1> DEFINE a == PinTick(s)
           b == Wake(a)
           c == Recognise(b)
<1>1. Good(a) /\ a.level = s.level /\ a.nonmaskable = s.nonmaskable
  <2>1. Good(a)
    BY PinTickGood
  <2>2. a.level = s.level /\ a.nonmaskable = s.nonmaskable
    <3> DEFINE irs == [i \in 0..1 |-> s.pulse[i] = 0]
               ps == [i \in 0..1 |-> IF s.pulse[i] = 0 THEN 0 ELSE s.pulse[i] - 1]
    <3>1. a = [s EXCEPT !.ctx.ir = irs, !.pulse = ps]
      BY DEF PinTick
    <3> HIDE DEF a, irs, ps
    <3> QED BY <3>1 DEF Good, State
  <2> QED
    BY <2>1, <2>2
<1>2. Good(b) /\ b.level = s.level /\ b.nonmaskable = s.nonmaskable
  <2> HIDE DEF a
  <2> QED BY <1>1 DEF Wake, Good, State
<1>3. /\ Good(c)
      /\ c.nonmaskable = s.nonmaskable
      /\ c.level = s.level \/ (s.level = "BASE" /\ c.level = "INTERRUPT")
  <2> HIDE DEF b
  <2>1. CASE Interruptible(b) /\ Enabled(b) # {}
    <3>1. PendingVector(b) \in 8..15
      BY <2>1, PendingVectorType
    <3>2. b.level = "BASE"
      BY <2>1 DEF Interruptible
    <3> QED
      BY <1>2, <2>1, <3>1, <3>2, TakeInterruptGood DEF Recognise
  <2>2. CASE ~(Interruptible(b) /\ Enabled(b) # {})
    BY <1>2, <2>2 DEF Recognise
  <2> QED
    BY <2>1, <2>2
<1>4. Ready = [c EXCEPT !.intDefer = FALSE]
  BY DEF Ready
<1> HIDE DEF c
<1> QED
  BY <1>3, <1>4 DEF Good, State

LEMMA ReplayedGood ==
  ASSUME NEW t, Good(t)
  PROVE  Good(Replayed(t))
<1> DEFINE u == [t EXCEPT !.irshPending = FALSE, !.cur = t.irshAddr, !.prefetchAddr = 1]
<1>1. Good(u) /\ t.irsh \in Insn
  BY DEF Good, State
<1> HIDE DEF u
<1>2. Good(Exec(LatencyTick(u), t.irsh))
  BY <1>1, LatencyTickGood, ExecGood
<1> QED
  BY <1>2, BackEdgeGood DEF Replayed, u

LEMMA ExecutedGood ==
  ASSUME prog \in DOMAIN Programs, NEW t, Good(t), ~MemFails(t, FetchFault(t))
  PROVE  Good(Executed(t))
<1> DEFINE w == Word(t, Align(t.pc))
           u == [t EXCEPT !.cur = t.pc]
           a == Advanced(u)
           b == LatencyTick(a)
           d == Prefetched(b)
<1>1. w \in Insn
  <2>1. FetchFault(t).bus = ~Mapped(t, Align(t.pc))
    BY DEF FetchFault
  <2>2. Mapped(t, Align(t.pc))
    BY <2>1 DEF MemFails
  <2> QED
    BY <2>2, WordType DEF Good
<1>2. Good(u)
  BY DEF Good, State
<1>3. Good(a)
  <2> HIDE DEF u
  <2> DEFINE m == MemAccess(u, FetchFault(u))
  <2>1. Good(m)
    BY <1>2, MemAccessGood
  <2>2. u.npc \in Nat /\ u.npc + 4 \in Nat
    BY <1>2 DEF Good, State
  <2>3. a = [m EXCEPT !.pc = u.npc, !.npc = u.npc + 4]
    BY DEF Advanced
  <2> HIDE DEF m, a
  <2> QED
    BY <2>1, <2>2, <2>3 DEF Good, State
<1>4. Good(b)
  <2> HIDE DEF a
  <2> QED BY <1>3, LatencyTickGood
<1>5. Good(d)
  <2> HIDE DEF b
  <2>1. CASE RawReadable(b, b.pc)
    <3>1. Word(b, b.pc) \in Insn
      BY <1>4, <2>1, WordType DEF RawReadable, Good
    <3>2. d = [b EXCEPT !.prefetch = Word(b, b.pc), !.prefetchAddr = b.pc]
      BY <2>1 DEF Prefetched
    <3> HIDE DEF d
    <3> QED
      BY <1>4, <3>1, <3>2 DEF Good, State
  <2>2. CASE ~RawReadable(b, b.pc)
    BY <1>4, <2>2 DEF Prefetched, Good, State
  <2> QED
    BY <2>1, <2>2
<1>6. Good(Exec(d, w))
  <2> HIDE DEF d, w
  <2> QED BY <1>1, <1>5, ExecGood
<1> QED
  BY <1>6, BackEdgeGood DEF Executed

\* A fault moves the core one stage on: to error level, there to a
\* non-maskable error, from there to double error.
LEMMA FaultStage ==
  ASSUME NEW t, Good(t), NEW f, MemFails(t, f)
  PROVE  LET u == MemAccess(t, f)
         IN  /\ t.level \in {"BASE", "INTERRUPT"} => u.level = "ERROR"
             /\ t.level = "ERROR" /\ ~t.nonmaskable => u.level = "ERROR" /\ u.nonmaskable
             /\ t.level = "ERROR" /\ t.nonmaskable => u.level = "DERROR"
<1>1. ASSUME NEW v, Good(v), NEW vn \in {BUSERR, AERR}, Taken(v, vn)
      PROVE  /\ v.level \in {"BASE", "INTERRUPT"} => TakeError(v, vn).level = "ERROR"
             /\ v.level = "ERROR" /\ v.nonmaskable => TakeError(v, vn).level = "DERROR"
             /\ v.level = "ERROR" /\ ~v.nonmaskable =>
                  TakeError(v, vn).level = "ERROR" /\ TakeError(v, vn).nonmaskable
  <2>1. v.level = "ERROR" => vn = BUSERR
    BY <1>1 DEF Taken, Maskable, BUSERR, AERR
  <2>2. ~Maskable(BUSERR)
    BY DEF Maskable, BUSERR
  <2> QED
    BY <1>1, <2>1, <2>2 DEF TakeError, Good, State
<1>2. CASE f.mis /\ Taken(t, AERR)
  <2>1. MemAccess(t, f) = TakeError(t, AERR)
    BY <1>2 DEF MemAccess
  <2> QED
    BY <1>1, <1>2, <2>1
<1>3. CASE ~(f.mis /\ Taken(t, AERR))
  <2> DEFINE u == IF f.mis THEN TakeError(t, AERR) ELSE t
  <2>1. Good(u)
    BY TakeErrorGood DEF Errors
  <2>2. u.level = t.level /\ u.nonmaskable = t.nonmaskable
    BY <1>3 DEF TakeError, Good, State
  <2>3. MemAccess(t, f) = TakeError(u, BUSERR)
    BY <1>3 DEF MemAccess, MemFails
  <2>4. Taken(u, BUSERR)
    BY DEF Taken, Maskable, BUSERR
  <2> HIDE DEF u
  <2> QED
    BY <1>1, <2>1, <2>2, <2>3, <2>4
<1> QED
  BY <1>2, <1>3

-----------------------------------------------------------------------------
(* The specification *)

IInv ==
  /\ prog \in DOMAIN Programs
  /\ Good(s)
  /\ status \in {"ok", "waiti", "bkpt", "derror"}
  /\ stalled \in Nat
  /\ StallBounded

LEMMA ResetGood ==
  ASSUME NEW t, Good(t), NEW strap \in [comp: BOOLEAN, b13: BOOLEAN]
  PROVE  Good(ResetState(t, strap)) /\ ResetState(t, strap).level = "BASE"
<1> DEFINE q == Quiesced(t)
           l == [t.ctx.loop EXCEPT !.active = FALSE, !.lock = FALSE]
           c == [Ctx0 EXCEPT !.loop = l]
           g == [i \in 0..1 |-> 0]
           u == [q EXCEPT !.ctx = c]
           v == [u EXCEPT !.r1 = 0, !.r20 = t.pc, !.evtp = 0, !.ptr = Ptr0, !.pc = 0,
                          !.npc = 4, !.pcsh = 0]
           w == [v EXCEPT !.pcw = strap, !.pcwLocked = FALSE,
                          !.lastVector = -1, !.cur = 0, !.pulse = g]
<1>1. Good(q) /\ q.level = "BASE"
  <2> DEFINE q1 == [t EXCEPT !.level = "BASE", !.nonmaskable = FALSE, !.pending = {},
                             !.emr = {}, !.waiting = FALSE, !.intDefer = FALSE]
             q2 == [q1 EXCEPT !.prefetchAddr = 1, !.irshPending = FALSE,
                              !.irsh = [op |-> "illop"], !.irshAddr = 0]
  <2>1. Good(q1) /\ q1.level = "BASE"
    BY DEF Good, State, Levels
  <2>2. [op |-> "illop"] \in Insn
    BY DEF Insn
  <2>3. Good(q2) /\ q2.level = "BASE"
    <3> HIDE DEF q1
    <3> QED BY <2>1, <2>2 DEF Good, State
  <2>4. q = q2
    BY DEF Quiesced, Good, State
  <2> HIDE DEF q, q2
  <2> QED
    BY <2>3, <2>4
<1>2. Ctx0 \in Ctx
  <2>1. [i \in 1..3 |-> Acc0] \in [1..3 -> Acc]
    BY DauAssumption
  <2>2. [active |-> FALSE, lock |-> FALSE, start |-> 0, end |-> 0, count |-> 0] \in Loop
    BY DEF Loop
  <2> QED
    BY <2>1, <2>2, DauAssumption DEF Ctx0, Ctx
<1>3. c \in Ctx /\ Counted(c.loop)
  <2>1. l \in Loop /\ Counted(l)
    BY DEF Good, State, Ctx, Loop, Counted
  <2> HIDE DEF l
  <2> QED
    BY <1>2, <2>1 DEF Ctx
<1>4. Good(u) /\ u.level = "BASE"
  <2> HIDE DEF q, c
  <2> QED BY <1>1, <1>3, CtxGood DEF Good, State
<1>5. Good(v) /\ v.level = "BASE"
  <2>1. t.pc \in Nat
    BY DEF Good, State
  <2> HIDE DEF u
  <2> QED BY <1>4, <2>1, PtrAssumption DEF Good, State
<1>6. g \in [0..1 -> Nat]
  OBVIOUS
<1>7. Good(w) /\ w.level = "BASE"
  <2> DEFINE v1 == [v EXCEPT !.pcw = strap, !.pcwLocked = FALSE]
             v2 == [v1 EXCEPT !.lastVector = -1, !.cur = 0, !.pulse = g]
  <2>1. Good(v1) /\ v1.level = "BASE"
    <3> HIDE DEF v
    <3> QED BY <1>5 DEF Good, State
  <2>2. -1 \in -1..15 /\ 0 \in Nat
    OBVIOUS
  <2>3. Good(v2) /\ v2.level = "BASE"
    <3> HIDE DEF v1, g
    <3> QED BY <2>1, <2>2, <1>6 DEF Good, State
  <2>4. v2 = w
    <3> HIDE DEF v, g
    <3> QED BY <1>5 DEF Good, State
  <2> HIDE DEF v2, w
  <2> QED
    BY <2>3, <2>4
<1>8. ResetState(t, strap) = w
  <2> HIDE DEF c, g
  <2>1. q \in State
    BY <1>1 DEF Good
  <2> HIDE DEF q
  <2> QED BY <2>1 DEF ResetState, q, c, l, g, State
<1> HIDE DEF w
<1> QED
  BY <1>7, <1>8

\* The struct before the first reset.
LEMMA BlankGood == Good(Blank)
<1>1. Ctx0 \in Ctx /\ ~Ctx0.loop.active
  <2>1. [i \in 1..3 |-> Acc0] \in [1..3 -> Acc]
    BY DauAssumption
  <2>2. [active |-> FALSE, lock |-> FALSE, start |-> 0, end |-> 0, count |-> 0] \in Loop
    BY DEF Loop
  <2> QED
    BY <2>1, <2>2, DauAssumption DEF Ctx0, Ctx
<1>2. [op |-> "illop"] \in Insn
  BY DEF Insn
<1>3. [i \in 0..1 |-> 0] \in [0..1 -> Nat]
  OBVIOUS
<1>4. Blank \in State
  <2> HIDE DEF Ctx0
  <2> QED BY <1>1, <1>2, <1>3, PtrAssumption DEF Blank, State, Levels
<1>5. Blank.ctx = Ctx0 /\ Blank.sh = Ctx0 /\ Blank.pcwLocked = FALSE
  BY DEF Blank
<1> QED
  BY <1>1, <1>4, <1>5 DEF Good, Counted

LEMMA InitIInv == Init => IInv
<1> SUFFICES ASSUME Init PROVE IInv
  OBVIOUS
<1> DEFINE strap == [comp |-> FALSE, b13 |-> FALSE]
<1>1. Good(s) /\ s.level = "BASE"
  BY BlankGood, ResetGood DEF Init
<1>2. /\ prog \in DOMAIN Programs
      /\ status \in {"ok", "waiti", "bkpt", "derror"}
      /\ stalled = 0
  BY DEF Init
<1>3. StallBounded
  BY <1>1, <1>2 DEF StallBounded
<1> QED
  BY <1>1, <1>2, <1>3 DEF IInv

LEMMA NextIInv == IInv /\ [Next]_vars => IInv'
<1> SUFFICES ASSUME IInv, [Next]_vars PROVE IInv'
  OBVIOUS
<1>g. prog \in DOMAIN Programs /\ Good(s) /\ s \in State /\ stalled \in Nat
  BY DEF IInv, Good
<1>1. CASE StepHalted
  BY <1>1 DEF StepHalted, IInv, StallBounded
<1>2. CASE StepAsleep
  <2>1. Good(s')
    BY <1>g, <1>2, PinTickGood, LatencyTickGood DEF StepAsleep
  <2>2. s'.level = s.level /\ s'.nonmaskable = s.nonmaskable
    BY <1>g, <1>2 DEF StepAsleep, LatencyTick, PinTick, State
  <2> QED
    BY <1>2, <2>1, <2>2 DEF StepAsleep, IInv, StallBounded
<1>3. CASE StepReplay
  <2>1. Good(Ready)
    BY <1>g, ReadyGood
  <2>2. Good(s')
    BY <1>3, <2>1, ReplayedGood DEF StepReplay
  <2> QED
    BY <1>3, <1>g, <2>2 DEF StepReplay, IInv, StallBounded, StatusOf
<1>4. CASE StepFetchFault
  <2> DEFINE t == [Ready EXCEPT !.cur = Ready.pc]
             f == FetchFault(Ready)
  <2>1. /\ Good(Ready)
        /\ Ready.nonmaskable = s.nonmaskable
        /\ Ready.level = s.level \/ (s.level = "BASE" /\ Ready.level = "INTERRUPT")
    BY <1>g, ReadyGood
  <2>2. /\ Good(t)
        /\ t.level = Ready.level
        /\ t.nonmaskable = Ready.nonmaskable
        /\ Taken(t, AERR) = Taken(Ready, AERR)
    BY <2>1 DEF Good, State, Taken
  <2>3. MemFails(t, f) /\ s' = MemAccess(t, f)
    BY <1>4, <2>2 DEF StepFetchFault, MemFails
  <2>4. s.level # "DERROR" /\ s.level \in Levels
    BY <1>4, <1>g DEF StepFetchFault, Awake, State
  <2> HIDE DEF t, f
  <2>5. Good(s')
    BY <2>2, <2>3, MemAccessGood
  <2>6. /\ s.level \in {"BASE", "INTERRUPT"} => s'.level = "ERROR"
        /\ s.level = "ERROR" /\ ~s.nonmaskable => s'.level = "ERROR" /\ s'.nonmaskable
        /\ s.level = "ERROR" /\ s.nonmaskable => s'.level = "DERROR"
    BY <2>1, <2>2, <2>3, FaultStage
  <2>7. StallBounded'
    BY <1>4, <1>g, <2>4, <2>6 DEF StepFetchFault, StallBounded, IInv, Levels
  <2> QED
    BY <1>4, <1>g, <2>5, <2>7 DEF StepFetchFault, IInv
<1>5. CASE StepExecute
  <2>1. Good(Ready) /\ ~MemFails(Ready, FetchFault(Ready)) /\ s' = Executed(Ready)
    BY <1>5, <1>g, ReadyGood DEF StepExecute
  <2>2. Good(s')
    BY <1>g, <2>1, ExecutedGood
  <2> QED
    BY <1>5, <1>g, <2>2 DEF StepExecute, IInv, StallBounded, StatusOf
<1>6. ASSUME NEW strap \in Straps, Reset(strap)
      PROVE  IInv'
  <2>1. Good(s') /\ s'.level = "BASE"
    BY <1>6, <1>g, ResetGood, HostAssumption DEF Reset
  <2>2. strap.comp \in BOOLEAN
    BY HostAssumption
  <2> QED
    BY <1>6, <1>g, <2>1, <2>2 DEF Reset, IInv, StallBounded
<1>7. ASSUME NEW v \in Vectors, RequestInterrupt(v)
      PROVE  IInv'
  <2>1. Good(s') /\ s'.level = s.level /\ s'.nonmaskable = s.nonmaskable
    BY <1>7, <1>g DEF RequestInterrupt, Good, State
  <2> QED
    BY <1>7, <2>1 DEF RequestInterrupt, IInv, StallBounded
<1>8. ASSUME NEW v \in Vectors, NEW slots \in Slots, ExtPulse(v, slots)
      PROVE  IInv'
  <2> DEFINE i == IF v = EXT0 THEN 0 ELSE 1
             t == [s EXCEPT !.pending = @ \cup {v}]
             c == [s.ctx EXCEPT !.ir = [@ EXCEPT ![i] = FALSE]]
             g == [s.pulse EXCEPT ![i] = slots]
             u == [t EXCEPT !.ctx = c]
             w == [u EXCEPT !.pulse = g]
  <2>1. Good(t) /\ t.level = s.level /\ t.nonmaskable = s.nonmaskable
    BY <1>8, <1>g DEF ExtPulse, EXT0, EXT1, Good, State
  <2>2. c \in Ctx /\ c.loop = s.ctx.loop /\ g \in [0..1 -> Nat]
    BY <1>g, HostAssumption DEF State, Ctx
  <2>3. Good(u) /\ u.level = s.level /\ u.nonmaskable = s.nonmaskable
    <3>1. Counted(c.loop)
      BY <1>g, <2>2 DEF Good
    <3> HIDE DEF t, c
    <3> QED BY <2>1, <2>2, <3>1, CtxGood DEF Good, State
  <2>4. Good(w) /\ w.level = s.level /\ w.nonmaskable = s.nonmaskable
    <3> HIDE DEF u, g
    <3> QED BY <2>2, <2>3 DEF Good, State
  <2>5. s' \in {t, w}
    BY <1>8, <1>g DEF ExtPulse, State
  <2> HIDE DEF t, w
  <2> QED
    BY <1>8, <2>1, <2>4, <2>5 DEF ExtPulse, IInv, StallBounded
<1>9. CASE UNCHANGED vars
  BY <1>9 DEF vars, IInv, StallBounded, Good
<1> QED
  BY <1>1, <1>2, <1>3, <1>4, <1>5, <1>6, <1>7, <1>8, <1>9 DEF Next, Step, Host

LEMMA Invariance == Spec => []IInv
BY InitIInv, NextIInv, PTL DEF Spec

-----------------------------------------------------------------------------
\* The struct keeps its types, whatever program it runs and whatever the host
\* does between the steps: dsp3210_step() and all it calls.
THEOREM TypeCorrect == Spec => []TypeOK
<1>1. IInv => TypeOK
  BY DEF IInv, Good, TypeOK
<1> QED
  BY <1>1, Invariance, PTL

\* Fetch faults end: no more than three steps in a row return STEP_OK without
\* executing an instruction (mem_read, take_error).
THEOREM StallsAreBounded == Spec => []StallBounded
<1>1. IInv => StallBounded
  BY DEF IInv
<1> QED
  BY <1>1, Invariance, PTL

\* The do_count of a live or set-aside loop is positive when the back-edge
\* decrements it (exec_insn, dsp3210_step, take_interrupt, do_ireturn).
THEOREM LoopsAreCounted == Spec => []LoopCounted
<1>1. IInv => LoopCounted
  BY DEF IInv, Good, Counted, LoopCounted
<1> QED
  BY <1>1, Invariance, PTL

\* pcw_locked implies pcw[13] (ior_write, take_error, dsp3210_reset).
THEOREM LocksAreShown == Spec => []LockShown
<1>1. IInv => LockShown
  BY DEF IInv, Good, LockShown
<1> QED
  BY <1>1, Invariance, PTL
=============================================================================
