------------------------ MODULE TransparencyProofs -------------------------
(***************************************************************************)
(* The refinement of BaseProgram by Sequencer, for every set of programs,  *)
(* every DAU and every host: as long as the core is Tame, the base program *)
(* runs as if there were no interrupts, and each reset starts it afresh.   *)
(*                                                                         *)
(* Latched is what holds between an interrupt and its return.  A step at   *)
(* base level, or of the replay, is one of BaseProgram (BaseStep); a step  *)
(* in a handler, whether it enters, runs or leaves it, is none.            *)
(***************************************************************************)
EXTENDS SequencerProofs

\* The displaced word and where to go on behind it, and the prefetch that
\* may become the displaced word.
Latched ==
  /\ InHandler => ~s.irshPending /\ s.pcsh = s.irshAddr + 4
  /\ s.irshPending => s.pc = s.irshAddr + 4 /\ s.npc = s.pc + 4
  /\ Displaced => Fetchable(s.irshAddr) /\ s.irsh = Words(FALSE)[s.irshAddr]
  /\ s.prefetchAddr = 1 \/ (Fetchable(s.prefetchAddr) /\ s.prefetch = Words(FALSE)[s.prefetchAddr])

-----------------------------------------------------------------------------
(* Words that raise no error *)

\* All that the base program and its handlers rely on, but the context; the
\* pointers are left at p.
Steady(t, p, u) ==
  /\ u.pc = t.pc /\ u.npc = t.npc /\ u.cur = t.cur /\ u.pcsh = t.pcsh /\ u.r1 = t.r1 /\ u.ptr = p
  /\ u.irsh = t.irsh /\ u.irshAddr = t.irshAddr /\ u.irshPending = t.irshPending
  /\ u.prefetch = t.prefetch /\ u.prefetchAddr = t.prefetchAddr
  /\ u.emr = t.emr /\ u.level = t.level /\ u.waiting = t.waiting /\ u.sh = t.sh

MaskedFault(t, f) == ~f.bus /\ (f.mis => AERR \notin t.emr)

LEMMA MaskedError ==
  ASSUME NEW t \in State, NEW vn \in {AERR, UV}, vn \notin t.emr
  PROVE  /\ ~Taken(t, vn)
         /\ TakeError(t, vn) = [t EXCEPT !.lastVector = vn]
BY DEF TakeError, Taken, Maskable, AERR, UV

LEMMA MaskedAccess ==
  ASSUME NEW t \in State, NEW f, MaskedFault(t, f)
  PROVE  /\ ~MemFails(t, f)
         /\ Steady(t, t.ptr, MemAccess(t, f)) /\ MemAccess(t, f).ctx = t.ctx
<1>1. f.mis => TakeError(t, AERR) = [t EXCEPT !.lastVector = AERR] /\ ~Taken(t, AERR)
  BY MaskedError DEF MaskedFault
<1>2. MemAccess(t, f) \in {t, [t EXCEPT !.lastVector = AERR]}
  BY <1>1 DEF MaskedFault, MemAccess
<1>3. ~MemFails(t, f)
  BY <1>1 DEF MaskedFault, MemFails
<1> QED
  BY <1>2, <1>3 DEF Steady, State

MaskedOperand(t, o) == o.mem => MaskedFault(t, o.f)

LEMMA MaskedOperandAccess ==
  ASSUME NEW t, Good(t), NEW o \in Operand, MaskedOperand(t, o)
  PROVE  /\ ~AccessFails(t, o)
         /\ Steady(t, Past(t.ptr, o), Access(t, o)) /\ Access(t, o).ctx = t.ctx
         /\ Good(Access(t, o))
<1> DEFINE m == MemAccess(t, o.f)
           p == Past(t.ptr, o)
           u == [m EXCEPT !.ptr = p]
<1>t. t \in State
  BY DEF Good
<1>1. Good(Access(t, o))
  BY AccessGood
<1>2. CASE ~o.mem
  BY <1>1, <1>2 DEF Access, AccessFails, Past, Steady
<1>3. CASE o.mem
  <2>1. ~MemFails(t, o.f) /\ Steady(t, t.ptr, m) /\ m.ctx = t.ctx
    BY <1>t, <1>3, MaskedAccess DEF MaskedOperand
  <2>2. Access(t, o) = u
    BY <1>3, <2>1 DEF Access
  <2>3. m \in State
    BY MemAccessGood DEF Good
  <2> HIDE DEF m, p
  <2>4. Steady(t, p, u) /\ u.ctx = t.ctx
    BY <2>1, <2>3 DEF Steady, State
  <2> QED
    BY <1>1, <1>3, <2>1, <2>2, <2>4 DEF AccessFails, p
<1> QED
  BY <1>2, <1>3

\* Below, a word that is Quiet in t.
QuietIn(t, w) ==
  /\ w.op # "illop"
  /\ \A o \in Operands(w) : MaskedOperand(t, o)
  /\ w.op = "da" /\ w.uv => UV \notin t.emr

\* Where the word w leaves the pointers.
PointedBy(t, w) ==
  CASE w.op = "load"  -> Past(t.ptr, w.x)
    [] w.op = "store" -> Past(t.ptr, w.z)
    [] w.op = "da"    -> Past(Past(Past(t.ptr, w.x), w.y), w.z)
    [] OTHER -> t.ptr

\* An operation that has only the operands its word names.
LEMMA OperandsOf ==
  ASSUME NEW w \in Insn
  PROVE  /\ w.op = "load"  => Operands(w) = {w.x} /\ w.x \in Operand
         /\ w.op = "store" => Operands(w) = {w.z} /\ w.z \in Operand
         /\ w.op = "da"    => Operands(w) = {w.x, w.y, w.z} /\ w.x \in Operand
                                                          /\ w.y \in Operand /\ w.z \in Operand
         /\ w.op \notin {"load", "store", "da"} => Operands(w) = {}
BY InsnFields DEF Operands

LEMMA QuietDa ==
  ASSUME NEW t, Good(t), NEW w \in Insn, w.op = "da", QuietIn(t, w)
  PROVE  LET e == ExecDa(t, w)
             v == Dau[<<t.ctx.a, t.ctx.aPipe[3]>>]
         IN  /\ Steady(t, PointedBy(t, w), e)
             /\ e.ctx.a = v /\ e.ctx.flag = (v \in AccNeg)
             /\ e.ctx.aPipe = t.ctx.aPipe /\ e.ctx.flagPipe = t.ctx.flagPipe
             /\ e.ctx.loop = t.ctx.loop
<1> DEFINE t0 == Access(t, w.x)
           t1 == Access(t0, w.y)
           v  == Dau[<<t1.ctx.a, t1.ctx.aPipe[3]>>]
           n  == v \in AccNeg
           c2 == [t1.ctx EXCEPT !.flag = n]
           t2 == [t1 EXCEPT !.ctx = c2]
           t3 == IF w.uv THEN TakeError(t2, UV) ELSE t2
           c4 == [c2 EXCEPT !.a = v]
           t4 == [t3 EXCEPT !.ctx = c4]
           e  == Access(t4, w.z)
           px == Past(t.ptr, w.x)
           py == Past(px, w.y)
           pz == Past(py, w.z)
<1>0. /\ t \in State /\ w.x \in Operand /\ w.y \in Operand /\ w.z \in Operand
      /\ MaskedOperand(t, w.x) /\ MaskedOperand(t, w.y) /\ MaskedOperand(t, w.z)
      /\ w.uv => UV \notin t.emr
  BY OperandsOf DEF Good, QuietIn
<1>x. Good(t0) /\ ~AccessFails(t, w.x) /\ Steady(t, px, t0) /\ t0.ctx = t.ctx
  BY <1>0, MaskedOperandAccess
<1> HIDE DEF t0, px
<1>y. Good(t1) /\ ~AccessFails(t0, w.y) /\ Steady(t, py, t1) /\ t1.ctx = t.ctx
  <2>1. MaskedOperand(t0, w.y) /\ t0.ptr = px
    BY <1>0, <1>x DEF MaskedOperand, MaskedFault, Steady
  <2>2. Good(t1) /\ ~AccessFails(t0, w.y) /\ Steady(t0, py, t1) /\ t1.ctx = t0.ctx
    BY <1>0, <1>x, <2>1, MaskedOperandAccess
  <2> HIDE DEF t1, py
  <2> QED
    BY <1>x, <2>2 DEF Steady
<1> HIDE DEF t1, py
<1>1. t1 \in State /\ t1.ctx \in Ctx
  BY <1>y DEF Good, State
<1>4. v \in Acc /\ n \in BOOLEAN
  BY <1>1, DauAssumption DEF Ctx
<1>5. /\ c2 \in Ctx /\ c2.a = t.ctx.a /\ c2.flag = n /\ c2.aPipe = t.ctx.aPipe
      /\ c2.flagPipe = t.ctx.flagPipe /\ c2.loop = t.ctx.loop
  BY <1>1, <1>y, <1>4 DEF Ctx
<1>6. /\ c4 \in Ctx /\ c4.a = v /\ c4.flag = n /\ c4.aPipe = t.ctx.aPipe
      /\ c4.flagPipe = t.ctx.flagPipe /\ c4.loop = t.ctx.loop
  <2> HIDE DEF c2, v, n
  <2> QED BY <1>4, <1>5 DEF Ctx
<1>7. Good(t2) /\ Steady(t, py, t2) /\ t2.ctx = c2
  <2> HIDE DEF c2
  <2>1. Steady(t, py, t2) /\ t2.ctx = c2
    BY <1>1, <1>y, <1>5 DEF State, Steady
  <2>2. c2.loop = t1.ctx.loop
    BY <1>y, <1>5
  <2>3. Good(t2)
    BY <1>y, <1>5, <2>2, CtxGood DEF Good
  <2> QED
    BY <2>1, <2>3
<1>8. Good(t3) /\ Steady(t, py, t3) /\ t3.ctx = c2
  <2> HIDE DEF t2, c2
  <2>1. t2.emr = t.emr /\ t2 \in State
    BY <1>7 DEF Steady, Good
  <2>2. w.uv => TakeError(t2, UV) = [t2 EXCEPT !.lastVector = UV]
    BY <2>1, <1>0, MaskedError
  <2>3. t3 \in {t2, [t2 EXCEPT !.lastVector = UV]}
    BY <2>2
  <2>4. Good(t3)
    BY <1>7, TakeErrorGood DEF Errors
  <2> HIDE DEF t3
  <2> QED BY <2>1, <2>3, <2>4, <1>7 DEF State, Steady, UV
<1>9. Good(t4) /\ Steady(t, py, t4) /\ t4.ctx = c4
  <2> HIDE DEF t3, c4, c2
  <2>1. t3 \in State /\ c4.loop = t3.ctx.loop
    BY <1>5, <1>6, <1>8 DEF Good
  <2>2. Steady(t, py, t4) /\ t4.ctx = c4
    BY <1>6, <1>8, <2>1 DEF State, Steady
  <2>3. Good(t4)
    BY <1>6, <1>8, <2>1, CtxGood DEF Good
  <2> QED
    BY <2>2, <2>3
<1>10. Steady(t, pz, e) /\ e.ctx = c4
  <2> HIDE DEF t4, c4
  <2>1. MaskedOperand(t4, w.z) /\ t4.ptr = py
    BY <1>0, <1>9 DEF MaskedOperand, MaskedFault, Steady
  <2>2. Steady(t4, pz, e) /\ e.ctx = t4.ctx
    BY <1>0, <2>1, <1>9, MaskedOperandAccess
  <2> HIDE DEF e, pz
  <2> QED BY <2>2, <1>9 DEF Steady
<1>11. ExecDa(t, w) = e
  <2>1. t4 = [t3 EXCEPT !.ctx.a = v]
    <3>1. t3 \in State
      BY <1>8 DEF Good
    <3> HIDE DEF t3, c2, v
    <3> QED BY <1>8, <3>1 DEF State
  <2>2. t2 = [t1 EXCEPT !.ctx.flag = n]
    OBVIOUS
  <2> HIDE DEF v, n, t2, t3, t4
  <2> QED BY <1>x, <1>y, <2>1, <2>2 DEF ExecDa, t0, t1, v, n, t2, t3, t4
<1>12. v = Dau[<<t.ctx.a, t.ctx.aPipe[3]>>]
  BY <1>y
<1>13. pz = PointedBy(t, w)
  BY DEF PointedBy, px, py
<1> HIDE DEF e, c4, v, n, pz
<1> QED
  BY <1>6, <1>10, <1>11, <1>12, <1>13 DEF n

-----------------------------------------------------------------------------
(* A word of the base program *)

TargetOf(t, w) ==
  CASE w.op = "goto" -> (IF w.base = "r1" THEN t.r1 ELSE 0) + w.off
    [] w.op = "call" -> w.off
    [] w.op = "if" /\ t.ctx.flagPipe[4] -> w.off
    [] OTHER -> t.npc

WrittenBy(t, w) ==
  CASE w.op = "load" -> w.v
    [] w.op = "set" /\ w.reg = "r1" -> w.v
    [] w.op = "call" -> t.cur + 8
    [] OTHER -> t.r1

ResultOf(t) == Dau[<<t.ctx.a, t.ctx.aPipe[3]>>]

LoopBy(t, w) ==
  IF w.op = "do" THEN [active |-> TRUE, lock |-> w.lock, start |-> t.pc,
                       end |-> t.pc + 4 * w.k, count |-> w.count]
                 ELSE t.ctx.loop

\* What the word w does to a core at base level in whose pipes it executes.
BaseOutcome(t, w, e) ==
  /\ e.pc = t.pc /\ e.npc = TargetOf(t, w)
  /\ e.r1 = WrittenBy(t, w) /\ e.ptr = PointedBy(t, w)
  /\ e.level = t.level /\ e.irshPending = t.irshPending
  /\ e.prefetch = t.prefetch /\ e.prefetchAddr = t.prefetchAddr
  /\ e.waiting \in (IF w.op = "waiti" THEN BOOLEAN ELSE {FALSE})
  /\ e.ctx.a = (IF w.op = "da" THEN ResultOf(t) ELSE t.ctx.a)
  /\ e.ctx.flag = (IF w.op = "da" THEN ResultOf(t) \in AccNeg ELSE t.ctx.flag)
  /\ e.ctx.aPipe = t.ctx.aPipe /\ e.ctx.flagPipe = t.ctx.flagPipe
  /\ e.ctx.loop = LoopBy(t, w)

LEMMA BaseExec ==
  ASSUME NEW t, Good(t), t.level = "BASE", ~t.waiting, NEW w \in Insn, QuietIn(t, w), w.op # "ireturn",
         w.op = "goto" => w.base \in {"zero", "r1"}, w.op = "set" => w.reg # "pc",
         NEW e, e = Exec(t, w)
  PROVE  BaseOutcome(t, w, e)
<1> USE InsnFields
<1>t. t \in State /\ t.waiting = FALSE
  BY DEF Good, State
<1>1. CASE w.op \in {"nop", "bkpt"}
  <2>1. e = t
    BY <1>1 DEF Exec
  <2> QED BY <1>1, <1>t, <2>1 DEF BaseOutcome, TargetOf, WrittenBy, PointedBy, LoopBy
<1>2. CASE w.op = "waiti"
  <2> DEFINE b == t.waiting \/ Enabled(t) = {}
  <2>1. e = [t EXCEPT !.waiting = b] /\ b \in BOOLEAN
    BY <1>2, <1>t DEF Exec
  <2> HIDE DEF b
  <2> QED BY <1>2, <1>t, <2>1 DEF BaseOutcome, TargetOf, WrittenBy, PointedBy, LoopBy, State
<1>3. CASE w.op = "sftrst"
  <2>1. e = [t EXCEPT !.level = "BASE", !.nonmaskable = FALSE]
    BY <1>3 DEF Exec
  <2> QED BY <1>3, <1>t, <2>1 DEF BaseOutcome, TargetOf, WrittenBy, PointedBy, LoopBy, State
<1>4. CASE w.op = "set"
  <2>1. e = Regw(t, w.reg, w.v) /\ w.reg \in {"zero", "r1", "r20", "evtp", "pcsh"}
    BY <1>4 DEF Exec, Reg
  <2>2. \/ e = t /\ w.reg # "r1"
        \/ e = [t EXCEPT !.r1 = w.v] /\ w.reg = "r1"
        \/ e = [t EXCEPT !.r20 = w.v] /\ w.reg # "r1"
        \/ e = [t EXCEPT !.evtp = w.v] /\ w.reg # "r1"
        \/ e = [t EXCEPT !.pcsh = w.v] /\ w.reg # "r1"
    BY <2>1 DEF Regw
  <2>3. /\ TargetOf(t, w) = t.npc /\ LoopBy(t, w) = t.ctx.loop /\ PointedBy(t, w) = t.ptr
        /\ WrittenBy(t, w) = IF w.reg = "r1" THEN w.v ELSE t.r1
    BY <1>4 DEF TargetOf, WrittenBy, PointedBy, LoopBy
  <2>4. /\ e.pc = t.pc /\ e.npc = t.npc /\ e.level = t.level /\ e.irshPending = t.irshPending
        /\ e.prefetch = t.prefetch /\ e.prefetchAddr = t.prefetchAddr
        /\ e.waiting = FALSE /\ e.ctx = t.ctx /\ e.ptr = t.ptr
    BY <1>t, <2>2 DEF State
  <2>5. e.r1 = IF w.reg = "r1" THEN w.v ELSE t.r1
    BY <1>t, <2>2 DEF State
  <2> QED BY <1>4, <2>3, <2>4, <2>5 DEF BaseOutcome
<1>5. CASE w.op = "goto"
  <2> DEFINE x == Opval(t, w.base) + w.off
  <2>1. e = [t EXCEPT !.npc = x]
    BY <1>5 DEF Exec
  <2>2. x = (IF w.base = "r1" THEN t.r1 ELSE 0) + w.off
    BY <1>5 DEF Opval
  <2> HIDE DEF x
  <2> QED BY <1>5, <1>t, <2>1, <2>2 DEF BaseOutcome, TargetOf, WrittenBy, PointedBy, LoopBy, State
<1>6. CASE w.op = "if"
  <2>1. \/ t.ctx.flagPipe[4] /\ e = [t EXCEPT !.npc = w.off]
        \/ ~t.ctx.flagPipe[4] /\ e = t
    BY <1>6 DEF Exec
  <2> QED BY <1>6, <1>t, <2>1 DEF BaseOutcome, TargetOf, WrittenBy, PointedBy, LoopBy, State
<1>7. CASE w.op = "call"
  <2>1. e = [t EXCEPT !.r1 = t.cur + 8, !.npc = w.off]
    BY <1>7 DEF Exec
  <2> QED BY <1>7, <1>t, <2>1 DEF BaseOutcome, TargetOf, WrittenBy, PointedBy, LoopBy, State
<1>8. CASE w.op = "do"
  <2> DEFINE l == LoopBy(t, w)
             c == [t.ctx EXCEPT !.loop = l]
  <2>1. e = [t EXCEPT !.ctx = c]
    BY <1>8 DEF Exec, ExecDo, LoopBy
  <2>2. c.a = t.ctx.a /\ c.flag = t.ctx.flag /\ c.aPipe = t.ctx.aPipe /\ c.flagPipe = t.ctx.flagPipe /\ c.loop = l
    BY <1>t DEF State, Ctx
  <2> HIDE DEF c, l
  <2> QED BY <1>8, <1>t, <2>1, <2>2 DEF BaseOutcome, TargetOf, WrittenBy, PointedBy, State, l
<1>9. CASE w.op = "emr"
  <2> DEFINE p == IF 0 \in w.v THEN t.pending \ {EXT1} ELSE t.pending
  <2>1. e = [t EXCEPT !.emr = w.v, !.pending = p]
    BY <1>9 DEF Exec, WriteEmr
  <2> HIDE DEF p
  <2> QED BY <1>9, <1>t, <2>1 DEF BaseOutcome, TargetOf, WrittenBy, PointedBy, LoopBy, State
<1>10. CASE w.op = "pcw"
  <2>1. e \in {t, [t EXCEPT !.pcw = w.v, !.pcwLocked = w.v.b13]}
    BY <1>10 DEF Exec, WritePcw
  <2> QED BY <1>10, <1>t, <2>1 DEF BaseOutcome, TargetOf, WrittenBy, PointedBy, LoopBy, State
<1>11. CASE w.op = "load"
  <2> DEFINE u == Access(t, w.x)
             p == PointedBy(t, w)
  <2>1. /\ ~AccessFails(t, w.x) /\ Steady(t, Past(t.ptr, w.x), u) /\ u.ctx = t.ctx
        /\ u \in State /\ p = Past(t.ptr, w.x)
    BY <1>11, OperandsOf, MaskedOperandAccess DEF QuietIn, Good, PointedBy
  <2>2. e = [u EXCEPT !.r1 = w.v]
    BY <1>11, <2>1 DEF Exec, ExecLoad
  <2> HIDE DEF u, p
  <2>5. /\ e.pc = t.pc /\ e.npc = t.npc /\ e.level = t.level /\ e.irshPending = t.irshPending
        /\ e.prefetch = t.prefetch /\ e.prefetchAddr = t.prefetchAddr
        /\ e.waiting = FALSE /\ e.ctx = t.ctx /\ e.r1 = w.v /\ e.ptr = p
    BY <1>t, <2>1, <2>2 DEF State, Steady
  <2>4. TargetOf(t, w) = t.npc /\ LoopBy(t, w) = t.ctx.loop /\ WrittenBy(t, w) = w.v
    BY <1>11 DEF TargetOf, WrittenBy, LoopBy
  <2> QED BY <1>11, <2>4, <2>5 DEF BaseOutcome, p
<1>12. CASE w.op = "store"
  <2>1. Steady(t, PointedBy(t, w), e) /\ e.ctx = t.ctx
    BY <1>12, OperandsOf, MaskedOperandAccess DEF QuietIn, Exec, PointedBy
  <2> QED BY <1>12, <1>t, <2>1 DEF BaseOutcome, TargetOf, WrittenBy, LoopBy, Steady
<1>13. CASE w.op = "da"
  <2>1. e = ExecDa(t, w)
    BY <1>13 DEF Exec
  <2>2. /\ Steady(t, PointedBy(t, w), e)
        /\ e.ctx.a = ResultOf(t) /\ e.ctx.flag = (ResultOf(t) \in AccNeg)
        /\ e.ctx.aPipe = t.ctx.aPipe /\ e.ctx.flagPipe = t.ctx.flagPipe
        /\ e.ctx.loop = t.ctx.loop
    BY <1>13, <2>1, QuietDa DEF ResultOf
  <2> QED BY <1>13, <1>t, <2>2 DEF BaseOutcome, TargetOf, WrittenBy, LoopBy, Steady
<1> QED
  BY <1>1, <1>2, <1>3, <1>4, <1>5, <1>6, <1>7, <1>8, <1>9, <1>10, <1>11, <1>12, <1>13 DEF QuietIn

\* What the base program finds again when the handler returns.
Kept(t, u) ==
  /\ u.r1 = t.r1 /\ u.ptr = t.ptr /\ u.level = t.level /\ u.sh = t.sh /\ u.pcsh = t.pcsh
  /\ u.irsh = t.irsh /\ u.irshAddr = t.irshAddr /\ u.irshPending = t.irshPending
  /\ u.prefetch = t.prefetch /\ u.prefetchAddr = t.prefetchAddr

\* The back-edge of the loop behind it.
AtEnd(l, x) == l.active /\ x = l.end

\* The loop and the two pcs behind it; nothing else changes.
Turned(e, x, b) ==
  /\ IF AtEnd(e.ctx.loop, x) /\ e.ctx.loop.count > 1
       THEN b.pc = e.ctx.loop.start /\ b.npc = e.ctx.loop.start + 4
       ELSE b.pc = e.pc /\ b.npc = e.npc
  /\ IF ~AtEnd(e.ctx.loop, x) THEN b.ctx.loop = e.ctx.loop
     ELSE IF e.ctx.loop.count = 1 THEN ~b.ctx.loop.active
     ELSE b.ctx.loop = [e.ctx.loop EXCEPT !.count = @ - 1]

LEMMA BaseEdge ==
  ASSUME NEW e, Good(e), NEW x, NEW b, b = BackEdge(e, x)
  PROVE  /\ Turned(e, x, b)
         /\ b.ctx.a = e.ctx.a /\ b.ctx.flag = e.ctx.flag
         /\ b.ctx.aPipe = e.ctx.aPipe /\ b.ctx.flagPipe = e.ctx.flagPipe
         /\ b.waiting = e.waiting /\ Kept(e, b)
<1> DEFINE l  == e.ctx.loop
           atEnd == l.active /\ x = l.end
           l1 == [l EXCEPT !.count = 0, !.active = FALSE]
           l2 == [l EXCEPT !.count = @ - 1]
           c1 == [e.ctx EXCEPT !.loop = l1]
           c2 == [e.ctx EXCEPT !.loop = l2]
<1>1. e \in State /\ e.ctx \in Ctx /\ l \in Loop /\ (l.active => l.count > 0) /\ l.count \in Nat
  BY DEF Good, Counted, State, Ctx, Loop
<1>2. ~atEnd => b = e
  BY DEF BackEdge
<1>3. atEnd /\ l.count = 1 => b = [e EXCEPT !.ctx = c1]
  BY DEF BackEdge
<1>4. atEnd /\ l.count # 1 => b = [e EXCEPT !.ctx = c2, !.pc = l.start, !.npc = l.start + 4]
  BY DEF BackEdge
<1>5. /\ c1.loop = l1 /\ ~l1.active /\ c1.a = e.ctx.a /\ c1.flag = e.ctx.flag
      /\ c1.aPipe = e.ctx.aPipe /\ c1.flagPipe = e.ctx.flagPipe
  BY <1>1 DEF Ctx, Loop
<1>6. /\ c2.loop = l2 /\ c2.a = e.ctx.a /\ c2.flag = e.ctx.flag
      /\ c2.aPipe = e.ctx.aPipe /\ c2.flagPipe = e.ctx.flagPipe
  BY <1>1 DEF Ctx, Loop
<1>7. CASE ~atEnd
  BY <1>2, <1>7 DEF Turned, AtEnd, Kept
<1>8. CASE atEnd /\ l.count = 1
  <2> HIDE DEF c1, l1
  <2>1. b = [e EXCEPT !.ctx = c1]
    BY <1>3, <1>8
  <2>2. b.ctx = c1 /\ b.pc = e.pc /\ b.npc = e.npc /\ b.waiting = e.waiting /\ Kept(e, b)
    BY <1>1, <2>1 DEF State, Kept
  <2> QED BY <1>1, <1>5, <1>8, <2>2 DEF Turned, AtEnd
<1>9. CASE atEnd /\ l.count # 1
  <2>1. l.count > 1
    BY <1>1, <1>9
  <2>2. b = [e EXCEPT !.ctx = c2, !.pc = l.start, !.npc = l.start + 4]
    BY <1>4, <1>9
  <2> DEFINE y == l.start + 4
  <2> HIDE DEF c2, y
  <2>3. b.pc = l.start /\ b.npc = y /\ b.ctx = c2 /\ b.waiting = e.waiting /\ Kept(e, b)
    BY <1>1, <2>2 DEF State, y, Kept
  <2> QED BY <1>6, <1>9, <2>1, <2>3 DEF y, Turned, AtEnd
<1> QED
  BY <1>7, <1>8, <1>9

-----------------------------------------------------------------------------
(* A word of a handler *)

HandlerIn(t, w) ==
  /\ QuietIn(t, w) /\ w.op \notin {"sftrst", "call", "load"}
  /\ w.op = "set" => w.reg \notin {"r1", "pcsh"}
  /\ \A o \in Operands(w) : \A p \in Ptr : Past(p, o) = p

LEMMA SteadyKept ==
  ASSUME NEW t, NEW u, Steady(t, t.ptr, u)
  PROVE  Kept(t, u)
BY DEF Steady, Kept

LEMMA HandlerExec ==
  ASSUME NEW t, Good(t), NEW w \in Insn, HandlerIn(t, w), w.op # "ireturn", NEW e, e = Exec(t, w)
  PROVE  Kept(t, e)
<1> USE InsnFields
<1>t. t \in State /\ QuietIn(t, w)
  BY DEF Good, HandlerIn
<1>1. CASE w.op \in {"nop", "bkpt"}
  BY <1>1 DEF Exec, Kept
<1>2. CASE w.op = "waiti"
  <2> DEFINE b == t.waiting \/ Enabled(t) = {}
  <2>1. e = [t EXCEPT !.waiting = b]
    BY <1>2, <1>t DEF Exec
  <2> HIDE DEF b
  <2> QED BY <1>t, <2>1 DEF Kept, State
<1>3. CASE w.op = "set"
  <2>1. e = Regw(t, w.reg, w.v) /\ w.reg \in {"zero", "r20", "evtp", "pc"}
    BY <1>3 DEF Exec, Reg, HandlerIn
  <2>2. e \in {t, [t EXCEPT !.r20 = w.v], [t EXCEPT !.evtp = w.v], [t EXCEPT !.npc = w.v]}
    BY <2>1 DEF Regw
  <2> QED BY <1>t, <2>2 DEF Kept, State
<1>4. CASE w.op = "goto"
  <2> DEFINE x == Opval(t, w.base) + w.off
  <2>1. e = [t EXCEPT !.npc = x]
    BY <1>4 DEF Exec
  <2> HIDE DEF x
  <2> QED BY <1>t, <2>1 DEF Kept, State
<1>5. CASE w.op = "if"
  <2>1. e \in {t, [t EXCEPT !.npc = w.off]}
    BY <1>5 DEF Exec
  <2> QED BY <1>t, <2>1 DEF Kept, State
<1>6. CASE w.op = "do"
  <2> DEFINE c == [t.ctx EXCEPT !.loop = LoopBy(t, w)]
  <2>1. e = [t EXCEPT !.ctx = c]
    BY <1>6 DEF Exec, ExecDo, LoopBy
  <2> HIDE DEF c
  <2> QED BY <1>t, <2>1 DEF Kept, State
<1>7. CASE w.op = "emr"
  <2> DEFINE p == IF 0 \in w.v THEN t.pending \ {EXT1} ELSE t.pending
  <2>1. e = [t EXCEPT !.emr = w.v, !.pending = p]
    BY <1>7 DEF Exec, WriteEmr
  <2> HIDE DEF p
  <2> QED BY <1>t, <2>1 DEF Kept, State
<1>8. CASE w.op = "pcw"
  <2>1. e \in {t, [t EXCEPT !.pcw = w.v, !.pcwLocked = w.v.b13]}
    BY <1>8 DEF Exec, WritePcw
  <2> QED BY <1>t, <2>1 DEF Kept, State
<1>p. t.ptr \in Ptr
  BY DEF Good, State
<1>9. CASE w.op = "store"
  <2>1. e = Access(t, w.z) /\ MaskedOperand(t, w.z) /\ w.z \in Operand /\ Past(t.ptr, w.z) = t.ptr
    BY <1>9, <1>t, <1>p, OperandsOf DEF QuietIn, Exec, HandlerIn
  <2>2. Steady(t, t.ptr, e)
    BY <2>1, MaskedOperandAccess
  <2> QED BY <2>2, SteadyKept
<1>10. CASE w.op = "da"
  <2>1. e = ExecDa(t, w)
    BY <1>10 DEF Exec
  <2>0. PointedBy(t, w) = t.ptr
    BY <1>10, <1>p, OperandsOf DEF PointedBy, HandlerIn
  <2>2. Steady(t, PointedBy(t, w), ExecDa(t, w))
    BY <1>10, <1>t, QuietDa
  <2>3. Kept(t, ExecDa(t, w))
    BY <2>0, <2>2, SteadyKept
  <2> QED BY <2>1, <2>3
<1> QED
  BY <1>1, <1>2, <1>3, <1>4, <1>5, <1>6, <1>7, <1>8, <1>9, <1>10 DEF HandlerIn, QuietIn

-----------------------------------------------------------------------------
(* The time base, the host's pins and the choice of what to execute *)

LEMMA Ticked ==
  ASSUME NEW t, Good(t), NEW u, u = LatencyTick(t)
  PROVE  /\ Good(u) /\ Steady(t, t.ptr, u) /\ u.pcw = t.pcw
         /\ u.ctx.a = t.ctx.a /\ u.ctx.flag = t.ctx.flag /\ u.ctx.loop = t.ctx.loop
         /\ u.ctx.aPipe = <<t.ctx.a, t.ctx.aPipe[1], t.ctx.aPipe[2]>>
         /\ u.ctx.flagPipe = <<t.ctx.flag, t.ctx.flagPipe[1], t.ctx.flagPipe[2], t.ctx.flagPipe[3]>>
<1> DEFINE ap == <<t.ctx.a, t.ctx.aPipe[1], t.ctx.aPipe[2]>>
           fp == <<t.ctx.flag, t.ctx.flagPipe[1], t.ctx.flagPipe[2], t.ctx.flagPipe[3]>>
           c  == [t.ctx EXCEPT !.aPipe = ap, !.flagPipe = fp]
<1>1. t \in State /\ t.ctx \in Ctx
  BY DEF Good, State
<1>2. /\ c.a = t.ctx.a /\ c.flag = t.ctx.flag /\ c.loop = t.ctx.loop
      /\ c.aPipe = ap /\ c.flagPipe = fp
  <2> HIDE DEF ap, fp
  <2> QED BY <1>1 DEF Ctx
<1>3. u = [t EXCEPT !.ctx = c]
  BY <1>1 DEF LatencyTick, State
<1>4. u.ctx = c /\ Steady(t, t.ptr, u) /\ u.pcw = t.pcw
  <2> HIDE DEF c
  <2> QED BY <1>1, <1>3 DEF Steady, State
<1>5. Good(u)
  BY LatencyTickGood
<1> QED
  BY <1>2, <1>4, <1>5

\* The part of the context that the base program sees.
SameCtx(c, d) ==
  c.a = d.a /\ c.flag = d.flag /\ c.aPipe = d.aPipe /\ c.flagPipe = d.flagPipe /\ c.loop = d.loop

\* As it was, but for a core that has woken up.
Calm(t, u) ==
  /\ u.pc = t.pc /\ u.npc = t.npc /\ Kept(t, u) /\ u.emr = t.emr /\ u.pcw = t.pcw
  /\ SameCtx(u.ctx, t.ctx) /\ ~u.waiting

\* What the core executes next comes after the pulse counters and a wake-up.
LEMMA Woken ==
  ASSUME Good(s), NEW a, a = Wake(PinTick(s))
  PROVE  Good(a) /\ Calm(s, a) /\ a.intDefer = (s.intDefer \/ s.waiting)
<1> DEFINE f == [i \in 0..1 |-> s.pulse[i] = 0]
           g == [i \in 0..1 |-> IF s.pulse[i] = 0 THEN 0 ELSE s.pulse[i] - 1]
           c == [s.ctx EXCEPT !.ir = f]
           p == PinTick(s)
<1>1. s \in State /\ s.ctx \in Ctx /\ s.waiting \in BOOLEAN /\ s.intDefer \in BOOLEAN
  BY DEF Good, State
<1>2. SameCtx(c, s.ctx)
  <2> HIDE DEF f
  <2> QED BY <1>1 DEF Ctx, SameCtx
<1>3. p = [s EXCEPT !.ctx = c, !.pulse = g]
  BY <1>1 DEF PinTick, State
<1>4. Good(p)
  BY PinTickGood
<1>5. /\ p.pc = s.pc /\ p.npc = s.npc /\ Kept(s, p) /\ p.emr = s.emr /\ p.pcw = s.pcw /\ p.ctx = c
      /\ p.waiting = s.waiting /\ p.intDefer = s.intDefer
  <2> HIDE DEF c, g, p
  <2> QED BY <1>1, <1>3 DEF State, Kept
<1> HIDE DEF p, c
<1> DEFINE v == [p EXCEPT !.waiting = FALSE, !.intDefer = TRUE]
<1>6. a = IF p.waiting THEN v ELSE p
  BY DEF Wake, p
<1>7. p \in State
  BY <1>4 DEF Good
<1>8. Good(v)
  BY <1>4 DEF Good, State
<1>9. CASE s.waiting
  <2>1. a = v
    BY <1>5, <1>6, <1>9
  <2>2. /\ v.pc = p.pc /\ v.npc = p.npc /\ v.emr = p.emr /\ v.pcw = p.pcw /\ v.ctx = p.ctx
        /\ Kept(p, v) /\ v.waiting = FALSE /\ v.intDefer = TRUE
    BY <1>7 DEF State, Kept
  <2>3. Kept(s, v)
    BY <1>5, <2>2 DEF Kept
  <2> HIDE DEF v
  <2> QED BY <1>1, <1>2, <1>5, <1>8, <1>9, <2>1, <2>2, <2>3 DEF Calm
<1>10. CASE ~s.waiting
  <2>1. a = p
    BY <1>5, <1>6, <1>10
  <2> QED BY <1>1, <1>2, <1>4, <1>5, <1>10, <2>1 DEF Calm
<1> QED
  BY <1>9, <1>10

-----------------------------------------------------------------------------
(* Fetching *)

\* Flat: the hooks are off and both processor modes see the same words.
Flat == prog \in DOMAIN Programs /\ ~Hooked /\ Words(TRUE) = Words(FALSE)

LEMMA FlatWords ==
  ASSUME Flat, NEW t \in State, NEW x, Fetchable(x)
  PROVE  /\ RawReadable(t, x) /\ Mapped(t, x)
         /\ Word(t, x) = Words(FALSE)[x] /\ Words(FALSE)[x] \in Insn
<1>1. t.pcw.comp \in BOOLEAN
  BY DEF State
<1>2. Words(t.pcw.comp) = Words(FALSE)
  BY <1>1 DEF Flat
<1>3. Words(FALSE)[x] \in Insn
  BY ProgramsAssumption DEF Flat, Fetchable, Words
<1> QED
  BY <1>2, <1>3 DEF Flat, RawReadable, Mapped, Word, Fetchable

RightPrefetch(t) ==
  t.prefetchAddr = 1 \/ (Fetchable(t.prefetchAddr) /\ t.prefetch = Words(FALSE)[t.prefetchAddr])

\* A prefetch is of the word at its address.
LEMMA Ahead ==
  ASSUME Flat, NEW t, Good(t), NEW u, u = Prefetched(t)
  PROVE  /\ Good(u) /\ RightPrefetch(u)
         /\ u.pc = t.pc /\ u.npc = t.npc /\ u.cur = t.cur /\ u.ctx = t.ctx /\ u.emr = t.emr
         /\ u.r1 = t.r1 /\ u.ptr = t.ptr /\ u.level = t.level /\ u.sh = t.sh /\ u.pcsh = t.pcsh
         /\ u.irsh = t.irsh /\ u.irshAddr = t.irshAddr /\ u.irshPending = t.irshPending
         /\ u.waiting = t.waiting
<1>t. t \in State /\ t.pc \in Nat
  BY DEF Good, State
<1>1. CASE RawReadable(t, t.pc)
  <2> DEFINE w == Word(t, t.pc)
             x == t.pc
  <2>1. Fetchable(x) /\ w = Words(FALSE)[x] /\ w \in Insn
    <3>1. t.pcw.comp \in BOOLEAN
      BY <1>t DEF State
    <3>2. Words(t.pcw.comp) = Words(FALSE)
      BY <3>1 DEF Flat
    <3>3. Fetchable(x)
      BY <1>1, <3>2 DEF RawReadable, Mapped, Fetchable
    <3> QED BY <1>t, <3>3, FlatWords
  <2>2. u = [t EXCEPT !.prefetch = w, !.prefetchAddr = x]
    BY <1>1 DEF Prefetched
  <2> HIDE DEF w
  <2>3. u.prefetch = w /\ u.prefetchAddr = x
    BY <1>t, <2>2 DEF State
  <2>4. Good(u)
    BY <1>t, <2>1, <2>2 DEF Good, State
  <2>5. RightPrefetch(u)
    BY <2>1, <2>3 DEF RightPrefetch
  <2> QED BY <1>t, <2>2, <2>4, <2>5 DEF State
<1>2. CASE ~RawReadable(t, t.pc)
  <2>1. u = [t EXCEPT !.prefetchAddr = 1]
    BY <1>2 DEF Prefetched
  <2>2. Good(u)
    BY <2>1 DEF Good, State
  <2> QED BY <1>t, <2>1, <2>2 DEF State, RightPrefetch
<1> QED
  BY <1>1, <1>2

\* The core with which a fetched word executes.
Fetched(t) == Prefetched(LatencyTick(Advanced([t EXCEPT !.cur = t.pc])))

LEMMA Fetch ==
  ASSUME Flat, NEW t, Good(t), Fetchable(t.pc), NEW v, v = Fetched(t)
  PROVE  /\ ~MemFails(t, FetchFault(t))
         /\ Word(t, Align(t.pc)) = Words(FALSE)[t.pc] /\ Words(FALSE)[t.pc] \in Insn
         /\ Executed(t) = BackEdge(Exec(v, Words(FALSE)[t.pc]), t.pc)
         /\ Good(v) /\ RightPrefetch(v)
         /\ v.pc = t.npc /\ v.npc = t.npc + 4 /\ v.cur = t.pc /\ v.emr = t.emr
         /\ v.r1 = t.r1 /\ v.ptr = t.ptr /\ v.level = t.level /\ v.sh = t.sh /\ v.pcsh = t.pcsh
         /\ v.irsh = t.irsh /\ v.irshAddr = t.irshAddr /\ v.irshPending = t.irshPending
         /\ v.waiting = t.waiting
         /\ v.ctx.a = t.ctx.a /\ v.ctx.flag = t.ctx.flag /\ v.ctx.loop = t.ctx.loop
         /\ v.ctx.aPipe = <<t.ctx.a, t.ctx.aPipe[1], t.ctx.aPipe[2]>>
         /\ v.ctx.flagPipe = <<t.ctx.flag, t.ctx.flagPipe[1], t.ctx.flagPipe[2], t.ctx.flagPipe[3]>>
<1> DEFINE x == t.pc
           u == [t EXCEPT !.cur = x]
           y == t.npc
           a == [u EXCEPT !.pc = y, !.npc = y + 4]
           b == LatencyTick(a)
<1>t. t \in State /\ t.pc \in Nat /\ t.npc \in Nat
  BY DEF Good, State
<1>1. Align(t.pc) = t.pc /\ t.pc % 4 = 0
  BY <1>t DEF Align, Fetchable
<1>2. /\ Mapped(t, t.pc) /\ Word(t, t.pc) = Words(FALSE)[t.pc] /\ Words(FALSE)[t.pc] \in Insn
      /\ ~FetchFault(t).mis /\ ~FetchFault(t).bus
  BY <1>t, <1>1, FlatWords DEF FetchFault
<1>3. /\ u.pc = x /\ u.npc = y /\ u.pcw = t.pcw /\ u.cur = x /\ u.ctx = t.ctx /\ u.emr = t.emr
      /\ u.r1 = t.r1 /\ u.ptr = t.ptr /\ u.level = t.level /\ u.sh = t.sh /\ u.pcsh = t.pcsh
      /\ u.irsh = t.irsh /\ u.irshAddr = t.irshAddr /\ u.irshPending = t.irshPending
      /\ u.waiting = t.waiting
  BY <1>t DEF State
<1>4. Good(u)
  BY <1>t DEF Good, State
<1>5. Advanced(u) = a
  <2> HIDE DEF u, x
  <2>1. ~FetchFault(u).mis /\ ~FetchFault(u).bus
    BY <1>2, <1>3 DEF FetchFault, Mapped, x
  <2>2. MemAccess(u, FetchFault(u)) = u
    BY <2>1 DEF MemAccess
  <2> QED BY <1>3, <2>2 DEF Advanced
<1>6. /\ a.pc = y /\ a.npc = y + 4 /\ a.cur = x /\ a.ctx = t.ctx /\ a.emr = t.emr
      /\ a.r1 = t.r1 /\ a.ptr = t.ptr /\ a.level = t.level /\ a.sh = t.sh /\ a.pcsh = t.pcsh
      /\ a.irsh = t.irsh /\ a.irshAddr = t.irshAddr /\ a.irshPending = t.irshPending
      /\ a.waiting = t.waiting
  <2> HIDE DEF u, x, y
  <2> QED BY <1>3, <1>4 DEF Good, State
<1>7. Good(a)
  <2> DEFINE z == y + 4
  <2>1. y \in Nat /\ z \in Nat
    BY <1>t
  <2> HIDE DEF u, x, y, z
  <2>2. Good([u EXCEPT !.pc = y, !.npc = z])
    BY <1>4, <2>1 DEF Good, State
  <2> QED BY <2>2 DEF z
<1>8. v = Prefetched(b)
  BY <1>5 DEF Fetched
<1>9. Executed(t) = BackEdge(Exec(v, Words(FALSE)[t.pc]), t.pc)
  BY <1>1, <1>2 DEF Executed, Fetched
<1> HIDE DEF a, u
<1>10. /\ Good(b) /\ Steady(a, a.ptr, b)
       /\ b.ctx.a = a.ctx.a /\ b.ctx.flag = a.ctx.flag /\ b.ctx.loop = a.ctx.loop
       /\ b.ctx.aPipe = <<a.ctx.a, a.ctx.aPipe[1], a.ctx.aPipe[2]>>
       /\ b.ctx.flagPipe = <<a.ctx.flag, a.ctx.flagPipe[1], a.ctx.flagPipe[2], a.ctx.flagPipe[3]>>
  BY <1>7, Ticked
<1> HIDE DEF b
<1>11. /\ Good(v) /\ RightPrefetch(v)
       /\ v.pc = b.pc /\ v.npc = b.npc /\ v.cur = b.cur /\ v.ctx = b.ctx /\ v.emr = b.emr
       /\ v.r1 = b.r1 /\ v.ptr = b.ptr /\ v.level = b.level /\ v.sh = b.sh /\ v.pcsh = b.pcsh
       /\ v.irsh = b.irsh /\ v.irshAddr = b.irshAddr /\ v.irshPending = b.irshPending
       /\ v.waiting = b.waiting
  BY <1>8, <1>10, Ahead
<1>12. ~MemFails(t, FetchFault(t))
  BY <1>2 DEF MemFails
<1> QED
  BY <1>1, <1>2, <1>6, <1>9, <1>10, <1>11, <1>12 DEF Steady

-----------------------------------------------------------------------------
(* Taking an interrupt, or not *)

\* A core that has just entered a handler: the word at pc is set aside.
Entered(t, u) ==
  /\ t.level = "BASE" /\ ~t.waiting /\ ~t.irshPending /\ t.npc = t.pc + 4
  /\ u.level = "INTERRUPT" /\ ~u.waiting /\ ~u.irshPending
  /\ u.irshAddr = t.pc /\ u.pcsh = t.pc + 4 /\ u.irsh = Words(FALSE)[t.pc]
  /\ SameCtx(u.sh, t.ctx) /\ u.r1 = t.r1 /\ u.ptr = t.ptr /\ u.emr = t.emr
  /\ u.prefetch = t.prefetch /\ u.prefetchAddr = t.prefetchAddr

LEMMA Entering ==
  ASSUME Flat, NEW t, Good(t), RightPrefetch(t), Fetchable(t.pc), ~t.waiting,
         Interruptible(t), NEW vn \in 8..15, NEW u, u = TakeInterrupt(t, vn)
  PROVE  Good(u) /\ Entered(t, u)
<1> DEFINE c  == [t.ctx EXCEPT !.loop.active = FALSE]
           ir == IF t.prefetchAddr = t.pc THEN t.prefetch
                 ELSE IF RawReadable(t, t.pc) THEN Word(t, t.pc) ELSE Nop
           x  == t.evtp + vn * 8
           p  == t.pending \ {vn}
           o  == t.ctx
           y  == t.pc
           z  == t.pc + 4
<1>t. t \in State /\ t.pc \in Nat
  BY DEF Good, State
<1>1. ir = Words(FALSE)[t.pc]
  <2>1. t.pc # 1
    BY <1>t DEF Fetchable
  <2>2. t.prefetchAddr = t.pc => t.prefetch = Words(FALSE)[t.pc]
    BY <2>1 DEF RightPrefetch
  <2> QED BY <1>t, <2>2, FlatWords
<1>2. u = [t EXCEPT !.lastVector = vn, !.pending = p, !.sh = o, !.ctx = c, !.irsh = ir,
                    !.irshAddr = y, !.pcsh = z, !.level = "INTERRUPT",
                    !.pc = x, !.npc = x + 4]
  BY <1>t DEF TakeInterrupt, Saved, State
<1> DEFINE q == x + 4
<1>3. u = [t EXCEPT !.lastVector = vn, !.pending = p, !.sh = o, !.ctx = c, !.irsh = ir,
                    !.irshAddr = y, !.pcsh = z, !.level = "INTERRUPT",
                    !.pc = x, !.npc = q]
  BY <1>2
<1> HIDE DEF c, ir, x, p, o, y, z, q
<1>4. /\ u.level = "INTERRUPT" /\ u.waiting = t.waiting /\ u.irshPending = t.irshPending
      /\ u.irshAddr = y /\ u.pcsh = z /\ u.irsh = ir /\ u.sh = o /\ u.r1 = t.r1 /\ u.ptr = t.ptr /\ u.emr = t.emr
      /\ u.prefetch = t.prefetch /\ u.prefetchAddr = t.prefetchAddr
  BY <1>t, <1>3 DEF State
<1>5. Good(u)
  BY TakeInterruptGood DEF Flat
<1>6. SameCtx(u.sh, t.ctx)
  BY <1>4 DEF SameCtx, o
<1> QED
  BY <1>1, <1>4, <1>5, <1>6 DEF Entered, Interruptible, y, z

\* A step begins with the core as it was, or with one that has entered a handler.
LEMMA Choice ==
  ASSUME Flat, Good(s), Latched, Tame, NEW t, t = Ready
  PROVE  Good(t) /\ ~t.waiting /\ (Calm(s, t) \/ Entered(s, t))
<1> DEFINE a == Wake(PinTick(s))
           n == PendingVector(a)
           u == Recognise(a)
<1>1. Good(a) /\ Calm(s, a) /\ a.intDefer = (s.intDefer \/ s.waiting)
  BY Woken
<1>2. t = [u EXCEPT !.intDefer = FALSE]
  BY DEF Ready
<1> HIDE DEF a, u
<1>3. Good(t)
  BY ReadyGood DEF Flat
<1>4. CASE Interruptible(a) /\ Enabled(a) # {}
  <2>1. n \in 8..15 /\ u = TakeInterrupt(a, n)
    BY <1>4, PendingVectorType DEF Recognise, u
  <2>2. /\ ~a.intDefer /\ ~a.irshPending /\ a.level = "BASE" /\ ~a.waiting
        /\ ~s.waiting /\ s.level = "BASE" /\ ~s.irshPending /\ a.pc = s.pc
    BY <1>1, <1>4 DEF Interruptible, Calm, Kept
  <2>3. Fetchable(a.pc) /\ RightPrefetch(a)
    BY <1>1, <2>2 DEF Tame, InHandler, Latched, RightPrefetch, Calm, Kept
  <2> HIDE DEF n
  <2>4. Good(u) /\ Entered(a, u)
    BY <1>1, <1>4, <2>1, <2>2, <2>3, Entering
  <2>5. Entered(a, t)
    <3>1. u \in State
      BY <2>4 DEF Good
    <3> QED BY <1>2, <2>4, <3>1 DEF Entered, State
  <2>6. Entered(s, t)
    BY <1>1, <2>2, <2>5 DEF Entered, Calm, Kept, SameCtx
  <2> QED BY <1>3, <2>5, <2>6 DEF Entered
<1>5. CASE ~(Interruptible(a) /\ Enabled(a) # {})
  <2>1. u = a /\ a \in State
    BY <1>1, <1>5 DEF Recognise, u, Good
  <2>2. Calm(s, t)
    BY <1>1, <1>2, <2>1 DEF Calm, Kept, State
  <2> QED BY <1>3, <2>2 DEF Calm
<1> QED
  BY <1>4, <1>5

-----------------------------------------------------------------------------
(* One word of a handler, and one of the base program *)

\* In the handler still, or returned to the displaced word.
HandlerOutcome(t, b) ==
  /\ b.r1 = t.r1 /\ b.ptr = t.ptr /\ b.irsh = t.irsh /\ b.irshAddr = t.irshAddr /\ RightPrefetch(b)
  /\ \/ b.level = "INTERRUPT" /\ ~b.irshPending /\ b.pcsh = t.pcsh /\ b.sh = t.sh
     \/ /\ b.level = "BASE" /\ b.irshPending /\ ~b.waiting
        /\ b.pc = t.pcsh /\ b.npc = t.pcsh + 4 /\ SameCtx(b.ctx, t.sh)

LEMMA HandlerStep ==
  ASSUME Flat, NEW t, Good(t), t.level = "INTERRUPT", ~t.irshPending, ~t.waiting,
         Fetchable(t.pc), HandlerIn(t, Words(FALSE)[t.pc]),
         t.sh.loop.active => t.sh.loop.end # t.pc, NEW b, b = Executed(t)
  PROVE  HandlerOutcome(t, b)
<1> DEFINE w == Words(FALSE)[t.pc]
           v == Fetched(t)
           e == Exec(v, w)
<1>1. /\ w \in Insn /\ b = BackEdge(e, t.pc) /\ Good(v) /\ RightPrefetch(v)
      /\ v.r1 = t.r1 /\ v.ptr = t.ptr /\ v.level = t.level /\ v.sh = t.sh /\ v.pcsh = t.pcsh
      /\ v.irsh = t.irsh /\ v.irshAddr = t.irshAddr /\ v.irshPending = t.irshPending
      /\ v.waiting = t.waiting /\ v.emr = t.emr
  BY Fetch
<1>2. HandlerIn(v, w)
  BY <1>1 DEF HandlerIn, QuietIn, MaskedOperand, MaskedFault
<1>3. Good(e)
  BY <1>1, ExecGood
<1> HIDE DEF v, w
<1>4. CASE w.op # "ireturn"
  <2>1. Kept(v, e)
    BY <1>1, <1>2, <1>4, HandlerExec
  <2>2. Kept(e, b)
    BY <1>1, <1>3, BaseEdge
  <2> QED BY <1>1, <2>1, <2>2 DEF Kept, HandlerOutcome, RightPrefetch
<1>5. CASE w.op = "ireturn"
  <2> DEFINE c == v.sh
             y == v.pcsh
             z == v.pcsh + 4
  <2>1. e = [v EXCEPT !.ctx = c, !.level = "BASE", !.pc = y, !.npc = z, !.irshPending = TRUE]
    BY <1>1, <1>5 DEF Exec, DoIreturn, Good, State
  <2> HIDE DEF c, y, z, e
  <2>2. /\ e.ctx = c /\ e.level = "BASE" /\ e.pc = y /\ e.npc = z /\ e.irshPending = TRUE
        /\ e.waiting = v.waiting /\ e.r1 = v.r1 /\ e.ptr = v.ptr /\ e.irsh = v.irsh /\ e.irshAddr = v.irshAddr
        /\ e.prefetch = v.prefetch /\ e.prefetchAddr = v.prefetchAddr
    BY <1>1, <2>1 DEF Good, State
  <2>3. b = e
    BY <1>1, <2>2 DEF BackEdge, c
  <2> QED BY <1>1, <2>2, <2>3 DEF HandlerOutcome, RightPrefetch, SameCtx, c, y, z
<1> QED
  BY <1>4, <1>5

BaseIn(t, w) ==
  /\ QuietIn(t, w) /\ w.op # "ireturn"
  /\ w.op = "goto" => w.base \in {"zero", "r1"}
  /\ w.op = "set"  => w.reg # "pc"

\* The core behind the word w of the base program at the address x.
BaseDone(v, w, x, b) ==
  LET l == LoopBy(v, w)
      atEnd == l.active /\ x = l.end
  IN  /\ b.level = "BASE" /\ b.irshPending = v.irshPending
      /\ b.prefetch = v.prefetch /\ b.prefetchAddr = v.prefetchAddr
      /\ IF atEnd /\ l.count > 1 THEN b.pc = l.start /\ b.npc = l.start + 4
                                 ELSE b.pc = v.pc /\ b.npc = TargetOf(v, w)
      /\ IF ~atEnd THEN b.ctx.loop = l
         ELSE IF l.count = 1 THEN ~b.ctx.loop.active
         ELSE b.ctx.loop = [l EXCEPT !.count = @ - 1]
      /\ b.r1 = WrittenBy(v, w) /\ b.ptr = PointedBy(v, w)
      /\ b.ctx.a = (IF w.op = "da" THEN ResultOf(v) ELSE v.ctx.a)
      /\ b.ctx.flag = (IF w.op = "da" THEN ResultOf(v) \in AccNeg ELSE v.ctx.flag)
      /\ b.ctx.aPipe = v.ctx.aPipe /\ b.ctx.flagPipe = v.ctx.flagPipe
      /\ b.waiting \in (IF w.op = "waiti" THEN BOOLEAN ELSE {FALSE})
      /\ l \in Loop

LEMMA BaseStep ==
  ASSUME NEW v, Good(v), v.level = "BASE", ~v.waiting, NEW w \in Insn, BaseIn(v, w), NEW x,
         NEW b, b = BackEdge(Exec(v, w), x)
  PROVE  BaseDone(v, w, x, b)
<1> DEFINE e == Exec(v, w)
<1>1. BaseOutcome(v, w, e)
  BY BaseExec DEF BaseIn
<1>2. Good(e)
  BY ExecGood
<1> HIDE DEF e
<1>3. /\ e.ctx.loop = LoopBy(v, w) /\ e.ctx.loop \in Loop
  BY <1>1, <1>2 DEF BaseOutcome, Good, State, Ctx
<1>4. b = BackEdge(e, x)
  BY DEF e
<1>5. /\ Turned(e, x, b) /\ Kept(e, b)
      /\ b.ctx.a = e.ctx.a /\ b.ctx.flag = e.ctx.flag
      /\ b.ctx.aPipe = e.ctx.aPipe /\ b.ctx.flagPipe = e.ctx.flagPipe
      /\ b.waiting = e.waiting
  BY <1>2, <1>4, BaseEdge
<1> QED
  BY <1>1, <1>3, <1>5 DEF BaseDone, BaseOutcome, Turned, AtEnd, Kept

-----------------------------------------------------------------------------
(* The steps of BaseProgram *)

\* A core v at base level that is about to execute the word w at the address x,
\* one tick after the step began.
AboutTo(v, w, x) ==
  /\ x = (IF s.irshPending THEN s.irshAddr ELSE s.pc)
  /\ Fetchable(x) /\ w = Words(FALSE)[x]
  /\ v.pc = (IF s.irshPending THEN s.pc ELSE s.npc) /\ v.npc = v.pc + 4
  /\ v.cur = x /\ v.r1 = s.r1 /\ v.ptr = s.ptr
  /\ v.ctx.a = s.ctx.a /\ v.ctx.flag = s.ctx.flag /\ v.ctx.loop = s.ctx.loop
  /\ v.ctx.aPipe = <<s.ctx.a, s.ctx.aPipe[1], s.ctx.aPipe[2]>>
  /\ v.ctx.flagPipe = <<s.ctx.flag, s.ctx.flagPipe[1], s.ctx.flagPipe[2], s.ctx.flagPipe[3]>>

LEMMA Executes ==
  ASSUME Flat, Good(s), s.level = "BASE", NEW v, NEW w \in Insn, NEW x,
         AboutTo(v, w, x), ~v.irshPending, BaseDone(v, w, x, s'), prog' = prog
  PROVE  Base!Execute
<1> DEFINE pcB == IF Displaced THEN s.irshAddr ELSE s.pc
           npcB == IF InHandler THEN s.irshAddr + 4 ELSE IF s.irshPending THEN s.pc ELSE s.npc
           loopB == IF BaseCtx.loop.active THEN BaseCtx.loop ELSE Ctx0.loop
           l  == LoopBy(v, w)
           lB == Base!Looping(w)
           atEnd == l.active /\ x = l.end
<1>1. ~InHandler /\ Displaced = s.irshPending /\ BaseCtx = s.ctx
  BY DEF InHandler, Displaced, BaseCtx, Good, State
<1>2. s'.level = "BASE" /\ ~s'.irshPending
  BY DEF BaseDone
<1>3. ~InHandler' /\ ~Displaced' /\ BaseCtx' = s'.ctx
  BY <1>2 DEF InHandler, Displaced, BaseCtx
<1>4. pcB = x /\ npcB = v.pc /\ v.npc = v.pc + 4
  BY <1>1 DEF AboutTo
<1>5. l \in Loop /\ (w.op = "do" => l.active)
  BY DEF BaseDone, LoopBy
<1>6. Ctx0.loop = Base!Idle /\ ~Ctx0.loop.active
  BY DEF Ctx0, Base!Idle
<1>7. lB = IF l.active THEN l ELSE Ctx0.loop
  <2>1. CASE w.op = "do"
    BY <1>4, <1>5, <2>1 DEF Base!Looping, LoopBy
  <2>2. CASE w.op # "do"
    BY <1>1, <2>2 DEF Base!Looping, LoopBy, AboutTo
  <2> QED BY <2>1, <2>2
<1>8. Base!Target(w) = TargetOf(v, w)
  <2>1. v.ctx.flagPipe[4] = s.ctx.flagPipe[3]
    BY DEF AboutTo
  <2> QED BY <1>1, <1>4, <2>1 DEF Base!Target, TargetOf, AboutTo
<1>9. Base!Written(w) = WrittenBy(v, w)
  BY <1>1, <1>4 DEF Base!Written, WrittenBy, AboutTo
<1>p. Base!Pointed(w) = PointedBy(v, w)
  BY DEF Base!Pointed, Base!Past, Past, PointedBy, AboutTo
<1>10. /\ Base!Computed(w).a = (IF w.op = "da" THEN ResultOf(v) ELSE v.ctx.a)
       /\ Base!Computed(w).flag = (IF w.op = "da" THEN ResultOf(v) \in AccNeg ELSE v.ctx.flag)
       /\ Base!Computed(w) = [a |-> Base!Computed(w).a, flag |-> Base!Computed(w).flag]
  <2>1. v.ctx.a = s.ctx.a /\ v.ctx.flag = s.ctx.flag /\ v.ctx.aPipe[3] = s.ctx.aPipe[2]
    BY DEF AboutTo
  <2> QED BY <1>1, <2>1 DEF Base!Computed, ResultOf
<1> HIDE DEF l, lB, pcB, npcB
<1>11. IF lB.active /\ x = lB.end /\ lB.count > 1
         THEN s'.pc = lB.start /\ s'.npc = lB.start + 4
         ELSE s'.pc = npcB /\ s'.npc = Base!Target(w)
  BY <1>4, <1>6, <1>7, <1>8 DEF BaseDone, l
<1>12. (IF s'.ctx.loop.active THEN s'.ctx.loop ELSE Ctx0'.loop) =
         IF ~(lB.active /\ x = lB.end) THEN lB
         ELSE IF lB.count = 1 THEN Base!Idle ELSE [lB EXCEPT !.count = @ - 1]
  <2>1. Ctx0' = Ctx0
    BY DEF Ctx0
  <2>2. CASE ~atEnd
    <3>1. s'.ctx.loop = l
      BY <2>2 DEF BaseDone, l
    <3> QED BY <1>6, <1>7, <2>1, <2>2, <3>1
  <2>3. CASE atEnd /\ l.count = 1
    <3>1. ~s'.ctx.loop.active
      BY <2>3 DEF BaseDone, l
    <3> QED BY <1>6, <1>7, <2>1, <2>3, <3>1
  <2>4. CASE atEnd /\ l.count # 1
    <3>1. s'.ctx.loop = [l EXCEPT !.count = @ - 1]
      BY <2>4 DEF BaseDone, l
    <3>2. s'.ctx.loop.active
      BY <1>5, <2>4, <3>1 DEF Loop
    <3> QED BY <1>7, <2>4, <3>1, <3>2
  <2> QED BY <2>2, <2>3, <2>4
<1>13. s'.r1 = Base!Written(w) /\ s'.ptr = Base!Pointed(w)
  BY <1>9, <1>p DEF BaseDone
<1>14. [a |-> s'.ctx.a, flag |-> s'.ctx.flag] = Base!Computed(w)
  <2>1. s'.ctx.a = Base!Computed(w).a /\ s'.ctx.flag = Base!Computed(w).flag
    BY <1>10 DEF BaseDone
  <2> QED BY <1>10, <2>1
<1>15. /\ s'.ctx.aPipe = <<BaseCtx.a, BaseCtx.aPipe[1], BaseCtx.aPipe[2]>>
       /\ s'.ctx.flagPipe = <<BaseCtx.flag, BaseCtx.flagPipe[1], BaseCtx.flagPipe[2], BaseCtx.flagPipe[3]>>
  BY <1>1 DEF BaseDone, AboutTo
<1>16. s'.waiting \in (IF w.op = "waiti" THEN BOOLEAN ELSE {FALSE})
  BY DEF BaseDone
<1>17. Words(FALSE)' = Words(FALSE)
  BY DEF Words
<1>18. x \in DOMAIN Words(FALSE) /\ w = Words(FALSE)[x]
  BY DEF AboutTo, Fetchable
<1>19. /\ pcB' = s'.pc /\ npcB' = s'.npc
       /\ loopB' = (IF s'.ctx.loop.active THEN s'.ctx.loop ELSE Ctx0'.loop)
       /\ BaseCtx.a' = s'.ctx.a /\ BaseCtx.flag' = s'.ctx.flag
       /\ BaseCtx.aPipe' = s'.ctx.aPipe /\ BaseCtx.flagPipe' = s'.ctx.flagPipe
  BY <1>2, <1>3 DEF pcB, npcB
<1>20. (s.waiting /\ ~InHandler)' \in (IF w.op = "waiti" THEN BOOLEAN ELSE {FALSE})
  BY <1>3, <1>16
<1> HIDE DEF loopB, atEnd
<1>21. Base!Age
  BY <1>15, <1>19 DEF Base!Age
<1>22. [a |-> BaseCtx.a, flag |-> BaseCtx.flag]' = Base!Computed(w)
  BY <1>14, <1>19
<1>23. w = Words(FALSE)[pcB] /\ pcB \in DOMAIN Words(FALSE)
  BY <1>4, <1>18
<1>24. loopB' = IF ~(lB.active /\ pcB = lB.end) THEN lB
                ELSE IF lB.count = 1 THEN Base!Idle ELSE [lB EXCEPT !.count = @ - 1]
  BY <1>4, <1>12, <1>19
<1>25. IF lB.active /\ pcB = lB.end /\ lB.count > 1
         THEN pcB' = lB.start /\ npcB' = lB.start + 4
         ELSE pcB' = npcB /\ npcB' = Base!Target(w)
  BY <1>4, <1>11, <1>19
<1> QED
  BY <1>13, <1>17, <1>20, <1>21, <1>22, <1>23, <1>24, <1>25
  DEF Base!Execute, pcB, npcB, loopB, lB

\* Latched, of a core b that a step without a restart reaches.
LatchedAt(b) ==
  /\ b.level = "INTERRUPT" => ~b.irshPending /\ b.pcsh = b.irshAddr + 4
  /\ b.irshPending => b.pc = b.irshAddr + 4 /\ b.npc = b.pc + 4
  /\ b.level = "INTERRUPT" \/ b.irshPending =>
       Fetchable(b.irshAddr) /\ b.irsh = Words(FALSE)[b.irshAddr]
  /\ RightPrefetch(b)

LEMMA LatchedHere == Latched <=> LatchedAt(s)
BY DEF Latched, LatchedAt, InHandler, Displaced, RightPrefetch

LEMMA LatchedThere ==
  ASSUME prog' = prog, LatchedAt(s')
  PROVE  Latched'
<1>1. Words(FALSE)' = Words(FALSE)
  BY DEF Words
<1>2. \A y : (y % 4 = 0 /\ y \in DOMAIN Words(FALSE)') <=> Fetchable(y)
  BY <1>1 DEF Fetchable
<1>3. InHandler' = (s'.level = "INTERRUPT") /\ Displaced' = (s'.level = "INTERRUPT" \/ s'.irshPending)
  BY DEF InHandler, Displaced
<1>4. Fetchable(s.irshAddr)' <=> Fetchable(s'.irshAddr)
  BY <1>1 DEF Fetchable
<1>5. Fetchable(s.prefetchAddr)' <=> Fetchable(s'.prefetchAddr)
  BY <1>1 DEF Fetchable
<1> QED
  BY <1>1, <1>3, <1>4, <1>5 DEF Latched, LatchedAt, RightPrefetch

\* What the base program sees of the core.
ViewPc   == IF Displaced THEN s.irshAddr ELSE s.pc
ViewNpc  == IF InHandler THEN s.irshAddr + 4 ELSE IF s.irshPending THEN s.pc ELSE s.npc
ViewDoze == s.waiting /\ ~InHandler

LEMMA Unseen ==
  ASSUME prog' = prog, ViewPc' = ViewPc, ViewNpc' = ViewNpc, ViewDoze' = ViewDoze,
         s'.r1 = s.r1 /\ s'.ptr = s.ptr, SameCtx(BaseCtx', BaseCtx)
  PROVE  UNCHANGED Base!baseVars
<1>1. Words(FALSE)' = Words(FALSE)
  BY DEF Words
<1>2. Ctx0' = Ctx0
  BY DEF Ctx0
<1>3. /\ BaseCtx.a' = BaseCtx.a /\ BaseCtx.flag' = BaseCtx.flag
      /\ BaseCtx.aPipe' = BaseCtx.aPipe /\ BaseCtx.flagPipe' = BaseCtx.flagPipe
      /\ BaseCtx.loop' = BaseCtx.loop
  BY DEF SameCtx
<1>4. UNCHANGED <<s.r1, s.ptr, [a |-> BaseCtx.a, flag |-> BaseCtx.flag],
                  IF BaseCtx.loop.active THEN BaseCtx.loop ELSE Ctx0.loop>>
  BY <1>2, <1>3
<1> QED
  BY <1>1, <1>3, <1>4 DEF Base!baseVars, ViewPc, ViewNpc, ViewDoze

\* Neither entering a handler nor running nor leaving it is a step of the base program.
LEMMA HandlerUnseen ==
  ASSUME Flat, Latched, Good(s), NEW t, (Calm(s, t) /\ s.level = "INTERRUPT") \/ Entered(s, t),
         HandlerOutcome(t, s'), Fetchable(s.pc) \/ s.level = "INTERRUPT", prog' = prog
  PROVE  Latched' /\ UNCHANGED Base!baseVars
<1>1. /\ t.pcsh = t.irshAddr + 4 /\ Fetchable(t.irshAddr) /\ t.irsh = Words(FALSE)[t.irshAddr]
      /\ ViewPc = t.irshAddr /\ ViewNpc = t.irshAddr + 4 /\ ~ViewDoze /\ s.r1 = t.r1 /\ s.ptr = t.ptr
      /\ SameCtx(BaseCtx, t.sh)
  <2>1. CASE Calm(s, t) /\ s.level = "INTERRUPT"
    BY <2>1 DEF Calm, Kept, Latched, InHandler, Displaced, BaseCtx, ViewPc, ViewNpc, ViewDoze, SameCtx
  <2>2. CASE Entered(s, t)
    <3>1. ~InHandler /\ ~Displaced /\ BaseCtx = s.ctx /\ ~s.irshPending /\ ~s.waiting
      BY <2>2 DEF Entered, InHandler, Displaced, BaseCtx
    <3>2. Fetchable(s.pc)
      BY <2>2 DEF Entered
    <3> QED BY <2>2, <3>1, <3>2 DEF Entered, ViewPc, ViewNpc, ViewDoze, SameCtx
  <2> QED BY <2>1, <2>2
<1>2. CASE s'.level = "INTERRUPT"
  <2>1. ~s'.irshPending /\ s'.pcsh = t.pcsh /\ s'.sh = t.sh
    BY <1>2 DEF HandlerOutcome
  <2>2. /\ InHandler' /\ Displaced' /\ BaseCtx' = s'.sh
    BY <1>2 DEF InHandler, Displaced, BaseCtx
  <2>3. ViewPc' = t.irshAddr /\ ViewNpc' = t.irshAddr + 4 /\ ~ViewDoze'
    BY <2>2 DEF ViewPc, ViewNpc, ViewDoze, HandlerOutcome
  <2>4. SameCtx(BaseCtx', BaseCtx)
    BY <1>1, <2>1, <2>2 DEF SameCtx
  <2>5. LatchedAt(s')
    BY <1>1, <1>2, <2>1 DEF LatchedAt, HandlerOutcome
  <2>6. s'.r1 = s.r1 /\ s'.ptr = s.ptr /\ ViewDoze' = ViewDoze
    BY <1>1, <2>3 DEF HandlerOutcome, ViewDoze
  <2> QED BY <1>1, <2>3, <2>4, <2>5, <2>6, Unseen, LatchedThere
<1>3. CASE s'.level # "INTERRUPT"
  <2>1. /\ s'.level = "BASE" /\ s'.irshPending /\ ~s'.waiting
        /\ s'.pc = t.pcsh /\ s'.npc = t.pcsh + 4 /\ SameCtx(s'.ctx, t.sh)
    BY <1>3 DEF HandlerOutcome
  <2>2. /\ ~InHandler' /\ Displaced' /\ BaseCtx' = s'.ctx
    BY <2>1 DEF InHandler, Displaced, BaseCtx
  <2>3. ViewPc' = t.irshAddr /\ ViewNpc' = t.irshAddr + 4 /\ ~ViewDoze'
    BY <1>1, <2>1, <2>2 DEF ViewPc, ViewNpc, ViewDoze, HandlerOutcome
  <2>4. SameCtx(BaseCtx', BaseCtx)
    BY <1>1, <2>1, <2>2 DEF SameCtx
  <2>5. LatchedAt(s')
    BY <1>1, <2>1 DEF LatchedAt, HandlerOutcome
  <2>6. s'.r1 = s.r1 /\ s'.ptr = s.ptr /\ ViewDoze' = ViewDoze
    BY <1>1, <2>3 DEF HandlerOutcome, ViewDoze
  <2> QED BY <1>1, <2>3, <2>4, <2>5, <2>6, Unseen, LatchedThere
<1> QED
  BY <1>2, <1>3

LEMMA TameWords ==
  ASSUME Tame, NEW t, t.emr = s.emr
  PROVE  /\ \A w : BaseWord(w) => BaseIn(t, w)
         /\ \A w : HandlerWord(w) => HandlerIn(t, w)
BY DEF BaseWord, HandlerWord, Quiet, Unfaulted, BaseIn, HandlerIn, QuietIn, MaskedOperand, MaskedFault

LEMMA ReplayStep ==
  ASSUME Flat, Good(s), Latched, Tame, StepReplay
  PROVE  Latched' /\ Base!Execute
<1> DEFINE t == Ready
           x == s.irshAddr
           w == Words(FALSE)[x]
           u == [t EXCEPT !.irshPending = FALSE, !.cur = x, !.prefetchAddr = 1]
           v == LatencyTick(u)
<1>1. Good(t) /\ ~t.waiting /\ Calm(s, t) /\ t.irshPending
  BY Choice DEF StepReplay, Entered
<1>2. /\ s.irshPending /\ s.level = "BASE" /\ t.irsh = w /\ t.irshAddr = x /\ Fetchable(x)
      /\ s.npc = s.pc + 4 /\ t.pc = s.pc /\ t.npc = s.npc /\ t.r1 = s.r1 /\ t.ptr = s.ptr /\ SameCtx(t.ctx, s.ctx)
      /\ t.level = "BASE" /\ t.emr = s.emr /\ BaseWord(w)
  BY <1>1 DEF Calm, Kept, Latched, InHandler, Displaced, Tame
<1>3. s' = Replayed(t) /\ prog' = prog
  BY DEF StepReplay
<1> HIDE DEF t
<1>4. t \in State /\ w \in Insn /\ x \in Nat /\ s \in State
  BY <1>1, <1>2, FlatWords DEF Good, State
<1>5. s' = BackEdge(Exec(v, w), x)
  BY <1>2, <1>3 DEF Replayed
<1>6. /\ u.pc = t.pc /\ u.npc = t.npc /\ u.cur = x /\ u.r1 = t.r1 /\ u.ptr = t.ptr /\ u.ctx = t.ctx
      /\ u.level = t.level /\ u.waiting = t.waiting /\ u.emr = t.emr
      /\ u.irshPending = FALSE /\ u.prefetchAddr = 1 /\ Good(u)
  <2> HIDE DEF x
  <2> QED BY <1>1, <1>4 DEF Good, State
<1> HIDE DEF u, w, x
<1>7. /\ Good(v) /\ Steady(u, u.ptr, v)
      /\ v.ctx.a = u.ctx.a /\ v.ctx.flag = u.ctx.flag /\ v.ctx.loop = u.ctx.loop
      /\ v.ctx.aPipe = <<u.ctx.a, u.ctx.aPipe[1], u.ctx.aPipe[2]>>
      /\ v.ctx.flagPipe = <<u.ctx.flag, u.ctx.flagPipe[1], u.ctx.flagPipe[2], u.ctx.flagPipe[3]>>
  BY <1>6, Ticked
<1> HIDE DEF v
<1>8. v.level = "BASE" /\ ~v.waiting /\ ~v.irshPending /\ v.emr = s.emr /\ v.prefetchAddr = 1
  BY <1>1, <1>2, <1>6, <1>7 DEF Steady
<1>9. BaseIn(v, w)
  BY <1>2, <1>8, TameWords DEF w
<1>10. BaseDone(v, w, x, s')
  BY <1>4, <1>5, <1>7, <1>8, <1>9, BaseStep
<1>11. AboutTo(v, w, x)
  BY <1>2, <1>6, <1>7 DEF AboutTo, Steady, SameCtx, w, x
<1>12. Base!Execute
  BY <1>2, <1>3, <1>4, <1>8, <1>10, <1>11, Executes
<1>13. LatchedAt(s')
  BY <1>8, <1>10 DEF LatchedAt, BaseDone, RightPrefetch
<1> QED
  BY <1>3, <1>12, <1>13, LatchedThere

LEMMA ExecuteStep ==
  ASSUME Flat, Good(s), Latched, Tame, StepExecute
  PROVE  Latched' /\ (Base!Execute \/ UNCHANGED Base!baseVars)
<1> DEFINE t == Ready
<1>1. Good(t) /\ ~t.waiting /\ (Calm(s, t) \/ Entered(s, t)) /\ ~t.irshPending /\ t.emr = s.emr
  BY Choice DEF StepExecute, Entered, Calm
<1>2. s' = Executed(t) /\ prog' = prog
  BY DEF StepExecute
<1>3. /\ t.level = "INTERRUPT" =>
           /\ Fetchable(t.pc) /\ HandlerWord(Words(FALSE)[t.pc])
           /\ t.sh.loop.active => t.sh.loop.end # t.pc
      /\ ~InHandler /\ ~s.irshPending => Fetchable(s.pc) /\ BaseWord(Words(FALSE)[s.pc])
      /\ s.level \in {"BASE", "INTERRUPT"}
  BY DEF Tame
<1> HIDE DEF t
<1>4. CASE t.level = "INTERRUPT"
  <2>1. HandlerIn(t, Words(FALSE)[t.pc])
    BY <1>1, <1>3, <1>4, TameWords
  <2>2. HandlerOutcome(t, s')
    BY <1>1, <1>2, <1>3, <1>4, <2>1, HandlerStep
  <2>3. (Calm(s, t) /\ s.level = "INTERRUPT") \/ Entered(s, t)
    BY <1>1, <1>4 DEF Calm, Kept
  <2>4. Fetchable(s.pc) \/ s.level = "INTERRUPT"
    BY <1>3, <2>3 DEF Entered, InHandler
  <2> QED BY <1>2, <2>2, <2>3, <2>4, HandlerUnseen
<1>5. CASE t.level # "INTERRUPT"
  <2> DEFINE x == s.pc
             w == Words(FALSE)[x]
             v == Fetched(t)
  <2>1. Calm(s, t) /\ s.level = "BASE" /\ ~s.irshPending /\ t.pc = x
    BY <1>1, <1>3, <1>5 DEF Calm, Kept, Entered
  <2>2. Fetchable(x) /\ BaseWord(w) /\ Fetchable(t.pc)
    BY <1>3, <2>1 DEF InHandler
  <2>3. /\ Words(FALSE)[t.pc] \in Insn
        /\ Executed(t) = BackEdge(Exec(v, Words(FALSE)[t.pc]), t.pc)
        /\ Good(v) /\ RightPrefetch(v)
        /\ v.pc = t.npc /\ v.npc = t.npc + 4 /\ v.cur = t.pc /\ v.emr = t.emr
        /\ v.r1 = t.r1 /\ v.ptr = t.ptr /\ v.level = t.level
        /\ v.irshPending = t.irshPending /\ v.waiting = t.waiting
    <3> Good(t) /\ Fetchable(t.pc)
      BY <1>1, <2>2
    <3> HIDE DEF x, w
    <3> QED
      BY Fetch
  <2>4. /\ v.ctx.a = t.ctx.a /\ v.ctx.flag = t.ctx.flag /\ v.ctx.loop = t.ctx.loop
        /\ v.ctx.aPipe = <<t.ctx.a, t.ctx.aPipe[1], t.ctx.aPipe[2]>>
        /\ v.ctx.flagPipe = <<t.ctx.flag, t.ctx.flagPipe[1], t.ctx.flagPipe[2], t.ctx.flagPipe[3]>>
    BY <1>1, <2>2, Fetch
  <2> HIDE DEF v, w, x
  <2>5. w \in Insn /\ s' = BackEdge(Exec(v, w), x)
    BY <1>2, <2>1, <2>3 DEF w
  <2>6. v.level = "BASE" /\ ~v.waiting /\ ~v.irshPending /\ v.emr = s.emr
    BY <1>1, <2>1, <2>3 DEF Calm, Kept
  <2>7. BaseIn(v, w)
    BY <2>2, <2>6, TameWords
  <2>8. BaseDone(v, w, x, s')
    BY <2>3, <2>5, <2>6, <2>7, BaseStep
  <2>9. AboutTo(v, w, x)
    BY <2>1, <2>2, <2>3, <2>4 DEF AboutTo, Calm, Kept, SameCtx, w, x
  <2>10. Base!Execute
    BY <1>2, <2>1, <2>5, <2>6, <2>8, <2>9, Executes
  <2>11. LatchedAt(s')
    BY <2>3, <2>6, <2>8 DEF LatchedAt, BaseDone, RightPrefetch
  <2> QED BY <1>2, <2>10, <2>11, LatchedThere
<1> QED
  BY <1>4, <1>5

\* A core that sleeps on: the pipelines of the base program clock, or, in a
\* handler, those of the handler.
LEMMA AsleepStep ==
  ASSUME Flat, Good(s), Latched, StepAsleep
  PROVE  Latched' /\ (Base!Sleep \/ UNCHANGED Base!baseVars)
<1> DEFINE f == [i \in 0..1 |-> s.pulse[i] = 0]
           g == [i \in 0..1 |-> IF s.pulse[i] = 0 THEN 0 ELSE s.pulse[i] - 1]
           c == [s.ctx EXCEPT !.ir = f]
           p == PinTick(s)
<1>1. s \in State /\ s.ctx \in Ctx
  BY DEF Good, State
<1>2. SameCtx(c, s.ctx)
  <2> HIDE DEF f
  <2> QED BY <1>1 DEF Ctx, SameCtx
<1>3. p = [s EXCEPT !.ctx = c, !.pulse = g]
  BY <1>1 DEF PinTick, State
<1>4. Good(p)
  BY PinTickGood
<1>5. /\ p.pc = s.pc /\ p.npc = s.npc /\ Kept(s, p) /\ p.ctx = c /\ p.waiting = s.waiting
  <2> HIDE DEF c, g, p
  <2> QED BY <1>1, <1>3 DEF State, Kept
<1>6. s' = LatencyTick(p) /\ prog' = prog /\ s.waiting
  BY DEF StepAsleep, Asleep
<1> HIDE DEF p, c
<1>7. /\ Steady(p, p.ptr, s') /\ s'.ctx.a = p.ctx.a /\ s'.ctx.flag = p.ctx.flag /\ s'.ctx.loop = p.ctx.loop
      /\ s'.ctx.aPipe = <<p.ctx.a, p.ctx.aPipe[1], p.ctx.aPipe[2]>>
      /\ s'.ctx.flagPipe = <<p.ctx.flag, p.ctx.flagPipe[1], p.ctx.flagPipe[2], p.ctx.flagPipe[3]>>
  BY <1>4, <1>6, Ticked
<1>8. /\ s'.pc = s.pc /\ s'.npc = s.npc /\ s'.r1 = s.r1 /\ s'.ptr = s.ptr /\ s'.level = s.level /\ s'.sh = s.sh
      /\ s'.pcsh = s.pcsh /\ s'.irsh = s.irsh /\ s'.irshAddr = s.irshAddr
      /\ s'.irshPending = s.irshPending /\ s'.prefetch = s.prefetch
      /\ s'.prefetchAddr = s.prefetchAddr /\ s'.waiting = s.waiting
  BY <1>5, <1>7 DEF Steady, Kept
<1>9. Latched'
  BY <1>6, <1>8, LatchedHere, LatchedThere DEF LatchedAt, RightPrefetch
<1>10. InHandler' = InHandler /\ Displaced' = Displaced
  BY <1>8 DEF InHandler, Displaced
<1>11. ViewPc' = ViewPc /\ ViewNpc' = ViewNpc /\ ViewDoze' = ViewDoze
  BY <1>8, <1>10 DEF ViewPc, ViewNpc, ViewDoze
<1>12. CASE InHandler
  <2>1. SameCtx(BaseCtx', BaseCtx)
    BY <1>8, <1>10, <1>12 DEF BaseCtx, SameCtx
  <2> QED BY <1>6, <1>8, <1>9, <1>11, <2>1, Unseen
<1>13. CASE ~InHandler
  <2>1. BaseCtx = s.ctx /\ BaseCtx' = s'.ctx
    BY <1>10, <1>13 DEF BaseCtx
  <2>2. Base!Age
    BY <1>2, <1>5, <1>7, <2>1 DEF Base!Age, SameCtx
  <2>3. s'.ctx.a = s.ctx.a /\ s'.ctx.flag = s.ctx.flag /\ s'.ctx.loop = s.ctx.loop
    BY <1>2, <1>5, <1>7 DEF SameCtx
  <2>4. Words(FALSE)' = Words(FALSE) /\ Ctx0' = Ctx0
    BY <1>6 DEF Words, Ctx0
  <2>5. UNCHANGED <<[a |-> BaseCtx.a, flag |-> BaseCtx.flag],
                    IF BaseCtx.loop.active THEN BaseCtx.loop ELSE Ctx0.loop>>
    BY <2>1, <2>3, <2>4
  <2>6. Base!Sleep
    BY <1>6, <1>8, <1>11, <1>13, <2>2, <2>4, <2>5 DEF Base!Sleep, ViewPc, ViewNpc, ViewDoze
  <2> QED BY <1>9, <2>6
<1> QED
  BY <1>12, <1>13

\* No fetch faults in a core that does not stray.
LEMMA NoFetchFault ==
  ASSUME Flat, Good(s), Latched, Tame, StepFetchFault
  PROVE  FALSE
<1> DEFINE t == Ready
<1>1. Good(t) /\ (Calm(s, t) \/ Entered(s, t)) /\ ~t.irshPending
  BY Choice DEF StepFetchFault
<1>2. /\ t.level = "INTERRUPT" => Fetchable(t.pc)
      /\ ~InHandler /\ ~s.irshPending => Fetchable(s.pc)
      /\ s.level \in {"BASE", "INTERRUPT"}
  BY DEF Tame
<1>3. MemFails(t, FetchFault(t))
  BY DEF StepFetchFault
<1> HIDE DEF t
<1>4. Fetchable(t.pc)
  BY <1>1, <1>2 DEF Calm, Kept, Entered, InHandler
<1> QED
  BY <1>1, <1>3, <1>4, Fetch

-----------------------------------------------------------------------------
(* The host *)

LEMMA FourOf ==
  ASSUME NEW b
  PROVE  [i \in 1..4 |-> b] = <<b, b, b, b>>
OBVIOUS

\* What the base program and Latched see of a core that has been reset.
Fresh(u) ==
  /\ u.level = "BASE" /\ u.irshPending = FALSE /\ u.pc = 0 /\ u.npc = 4 /\ u.r1 = 0 /\ u.ptr = Ptr0
  /\ u.waiting = FALSE /\ u.prefetchAddr = 1
  /\ u.ctx.a = Acc0 /\ u.ctx.flag = FALSE /\ ~u.ctx.loop.active
  /\ u.ctx.aPipe = <<Acc0, Acc0, Acc0>>
  /\ u.ctx.flagPipe = <<FALSE, FALSE, FALSE, FALSE>>

LEMMA Restarts ==
  ASSUME NEW t, Good(t), NEW strap \in [comp: BOOLEAN, b13: BOOLEAN]
  PROVE  Fresh(ResetState(t, strap))
<1> DEFINE q == Quiesced(t)
           l == [t.ctx.loop EXCEPT !.active = FALSE, !.lock = FALSE]
           c == [Ctx0 EXCEPT !.loop = l]
           g == [i \in 0..1 |-> 0]
           y == t.pc
<1>t. t \in State /\ t.ctx \in Ctx /\ t.ctx.loop \in Loop
  BY DEF Good, State, Ctx
<1>1. q = [t EXCEPT !.level = "BASE", !.nonmaskable = FALSE, !.pending = {}, !.emr = {},
                    !.waiting = FALSE, !.intDefer = FALSE, !.prefetchAddr = 1,
                    !.irshPending = FALSE, !.irsh = [op |-> "illop"], !.irshAddr = 0]
  BY DEF Quiesced
<1>2. /\ q.level = "BASE" /\ q.irshPending = FALSE /\ q.waiting = FALSE /\ q.prefetchAddr = 1
  BY <1>t DEF Quiesced, State
<1>3. DOMAIN q = DOMAIN t
  BY DEF Quiesced
<1>4. l.active = FALSE
  BY <1>t DEF Loop
<1>5. c.a = Acc0 /\ c.flag = FALSE /\ c.loop = l
  BY DEF Ctx0
<1>6. c.aPipe = <<Acc0, Acc0, Acc0>> /\ c.flagPipe = <<FALSE, FALSE, FALSE, FALSE>>
  <2>1. [i \in 1..3 |-> Acc0] = <<Acc0, Acc0, Acc0>>
    OBVIOUS
  <2>2. [i \in 1..4 |-> FALSE] = <<FALSE, FALSE, FALSE, FALSE>>
    BY FourOf, Zenon
  <2>3. c.aPipe = [i \in 1..3 |-> Acc0] /\ c.flagPipe = [i \in 1..4 |-> FALSE]
    BY DEF Ctx0
  <2> QED BY <2>1, <2>2, <2>3
<1> DEFINE u == ResetState(t, strap)
<1>7. u = [q EXCEPT !.r1 = 0, !.r20 = y, !.evtp = 0, !.ptr = Ptr0,
                    !.pc = 0, !.npc = 4, !.pcsh = 0, !.pcw = strap, !.pcwLocked = FALSE, !.ctx = c,
                    !.lastVector = -1, !.cur = 0, !.pulse = g]
  BY DEF ResetState
<1> HIDE DEF q, c, g, y, u
<1>8. /\ u.level = q.level /\ u.irshPending = q.irshPending /\ u.pc = 0 /\ u.npc = 4 /\ u.r1 = 0 /\ u.ptr = Ptr0
      /\ u.waiting = q.waiting /\ u.prefetchAddr = q.prefetchAddr /\ u.ctx = c
  BY <1>t, <1>3, <1>7 DEF State
<1> HIDE DEF l
<1>9. Fresh(u)
  BY <1>2, <1>4, <1>5, <1>6, <1>8 DEF Fresh
<1> QED
  BY <1>9 DEF u

\* Reset and initialisation leave the base program at its beginning.
LEMMA Begun ==
  ASSUME Fresh(s)
  PROVE  Base!Init
<1>1. ~InHandler /\ ~Displaced /\ BaseCtx = s.ctx
  BY DEF Fresh, InHandler, Displaced, BaseCtx
<1>2. Ctx0.loop = Base!Idle
  BY DEF Ctx0, Base!Idle
<1> QED
  BY <1>1, <1>2 DEF Base!Init, Fresh

\* A request or a pulse of the host is not seen by the base program.
LEMMA HostUnseen ==
  ASSUME Latched, prog' = prog,
         s'.pc = s.pc /\ s'.npc = s.npc /\ s'.r1 = s.r1 /\ s'.ptr = s.ptr /\ s'.level = s.level /\ s'.sh = s.sh,
         s'.pcsh = s.pcsh /\ s'.irsh = s.irsh /\ s'.irshAddr = s.irshAddr,
         s'.irshPending = s.irshPending /\ s'.prefetch = s.prefetch,
         s'.prefetchAddr = s.prefetchAddr /\ s'.waiting = s.waiting,
         SameCtx(s'.ctx, s.ctx)
  PROVE  Latched' /\ UNCHANGED Base!baseVars
<1>1. Latched'
  BY LatchedHere, LatchedThere DEF LatchedAt, RightPrefetch
<1>2. InHandler' = InHandler /\ Displaced' = Displaced
  BY DEF InHandler, Displaced
<1>3. ViewPc' = ViewPc /\ ViewNpc' = ViewNpc /\ ViewDoze' = ViewDoze
  BY <1>2 DEF ViewPc, ViewNpc, ViewDoze
<1>4. SameCtx(BaseCtx', BaseCtx)
  BY <1>2 DEF BaseCtx, SameCtx
<1> QED
  BY <1>1, <1>3, <1>4, Unseen

LEMMA ResetStep ==
  ASSUME Flat, Good(s), NEW strap \in Straps, Reset(strap)
  PROVE  Latched' /\ Base!Restart
<1>1. s' = ResetState(s, strap) /\ prog' = prog /\ strap \in [comp: BOOLEAN, b13: BOOLEAN]
  BY HostAssumption DEF Reset
<1>2. Fresh(s')
  BY <1>1, Restarts
<1>3. Latched'
  BY <1>1, <1>2, LatchedThere DEF Fresh, LatchedAt, RightPrefetch
<1>4. ~InHandler' /\ ~Displaced' /\ BaseCtx' = s'.ctx
  BY <1>2 DEF Fresh, InHandler, Displaced, BaseCtx
<1>5. Ctx0'.loop = Base!Idle /\ Words(FALSE)' = Words(FALSE)
  BY <1>1 DEF Ctx0, Base!Idle, Words
<1>6. Base!Init'
  BY <1>2, <1>4, <1>5 DEF Base!Init, Fresh
<1> QED
  BY <1>3, <1>5, <1>6 DEF Base!Restart

LEMMA PulseStep ==
  ASSUME Good(s), Latched, NEW v \in Vectors, NEW slots \in Slots, ExtPulse(v, slots)
  PROVE  Latched' /\ UNCHANGED Base!baseVars
<1> DEFINE i == IF v = EXT0 THEN 0 ELSE 1
           n == s.pending \cup {v}
           d == [s.ctx.ir EXCEPT ![i] = FALSE]
           c == [s.ctx EXCEPT !.ir = d]
           g == [s.pulse EXCEPT ![i] = slots]
<1>1. s \in State /\ s.ctx \in Ctx /\ prog' = prog
  BY DEF Good, State, ExtPulse
<1>2. SameCtx(c, s.ctx) /\ SameCtx(s.ctx, s.ctx)
  <2> HIDE DEF d
  <2> QED BY <1>1 DEF Ctx, SameCtx
<1>3. s' \in {[s EXCEPT !.pending = n], [s EXCEPT !.pending = n, !.ctx = c, !.pulse = g]}
  BY <1>1 DEF ExtPulse, State
<1> HIDE DEF n, c, g
<1>4. /\ s'.pc = s.pc /\ s'.npc = s.npc /\ s'.r1 = s.r1 /\ s'.ptr = s.ptr /\ s'.level = s.level /\ s'.sh = s.sh
      /\ s'.pcsh = s.pcsh /\ s'.irsh = s.irsh /\ s'.irshAddr = s.irshAddr
      /\ s'.irshPending = s.irshPending /\ s'.prefetch = s.prefetch
      /\ s'.prefetchAddr = s.prefetchAddr /\ s'.waiting = s.waiting
      /\ s'.ctx \in {s.ctx, c}
  BY <1>1, <1>3 DEF State
<1>5. SameCtx(s'.ctx, s.ctx)
  BY <1>2, <1>4
<1> QED
  BY <1>1, <1>4, <1>5, HostUnseen

-----------------------------------------------------------------------------
(* The refinement *)

LEMMA InitTransparent == Init => Latched /\ Base!Init
<1> SUFFICES ASSUME Init PROVE Latched /\ Base!Init
  OBVIOUS
<1> DEFINE strap == [comp |-> FALSE, b13 |-> FALSE]
<1>1. Good(Blank)
  BY BlankGood
<1>2. Fresh(s)
  BY <1>1, Restarts DEF Init
<1> QED
  BY <1>2, Begun, LatchedHere DEF Fresh, LatchedAt, RightPrefetch

\* Every step of a Tame core is one of the base program, or none.
LEMMA StepTransparent ==
  IInv /\ Latched /\ Tame /\ [Next]_vars => Latched' /\ [Base!Next]_(Base!baseVars)
<1> SUFFICES ASSUME IInv, Latched, Tame, [Next]_vars
             PROVE  Latched' /\ [Base!Next]_(Base!baseVars)
  OBVIOUS
<1>g. Good(s) /\ Flat
  BY DEF IInv, Tame, Flat
<1>1. CASE StepHalted
  BY <1>1 DEF StepHalted, Tame
<1>2. CASE StepAsleep
  BY <1>g, <1>2, AsleepStep DEF Base!Next
<1>3. CASE StepReplay
  BY <1>g, <1>3, ReplayStep DEF Base!Next
<1>4. CASE StepFetchFault
  BY <1>g, <1>4, NoFetchFault
<1>5. CASE StepExecute
  BY <1>g, <1>5, ExecuteStep DEF Base!Next
<1>6. ASSUME NEW strap \in Straps, Reset(strap)
      PROVE  Latched' /\ Base!Restart
  BY <1>g, <1>6, ResetStep
<1>7. ASSUME NEW v \in Vectors, RequestInterrupt(v)
      PROVE  Latched' /\ UNCHANGED Base!baseVars
  <2> DEFINE n == s.pending \cup {v}
  <2>1. s' = [s EXCEPT !.pending = n] /\ prog' = prog
    BY <1>7 DEF RequestInterrupt
  <2> HIDE DEF n
  <2>2. s \in State
    BY <1>g DEF Good
  <2>3. /\ s'.pc = s.pc /\ s'.npc = s.npc /\ s'.r1 = s.r1 /\ s'.ptr = s.ptr /\ s'.level = s.level /\ s'.sh = s.sh
        /\ s'.pcsh = s.pcsh /\ s'.irsh = s.irsh /\ s'.irshAddr = s.irshAddr
        /\ s'.irshPending = s.irshPending /\ s'.prefetch = s.prefetch
        /\ s'.prefetchAddr = s.prefetchAddr /\ s'.waiting = s.waiting
        /\ s'.ctx = s.ctx
    BY <2>1, <2>2 DEF State
  <2> QED BY <2>1, <2>3, HostUnseen DEF SameCtx
<1>8. ASSUME NEW v \in Vectors, NEW slots \in Slots, ExtPulse(v, slots)
      PROVE  Latched' /\ UNCHANGED Base!baseVars
  BY <1>g, <1>8, PulseStep
<1>9. CASE UNCHANGED vars
  <2>1. prog' = prog /\ s' = s
    BY <1>9 DEF vars
  <2> QED BY <2>1, HostUnseen DEF SameCtx
<1> QED
  BY <1>1, <1>2, <1>3, <1>4, <1>5, <1>6, <1>7, <1>8, <1>9 DEF Next, Step, Host, Base!Next

\* take_interrupt(), do_ireturn(), the irsh replay, waiti and dsp3210_reset():
\* while the core stays Tame, the program at base level runs as BaseProgram says,
\* whatever the host requests, pulses and resets in between.
THEOREM InterruptsAreTransparent == Spec /\ []Tame => Transparent
BY Invariance, InitTransparent, StepTransparent, PTL DEF Spec, Transparent, Base!Spec
=============================================================================
