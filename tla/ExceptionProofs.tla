-------------------------- MODULE ExceptionProofs --------------------------
(***************************************************************************)
(* Theorems about what a step of Sequencer may do to the program: where an *)
(* error leaves the core and what it leaves alone, how a latched request   *)
(* goes, and when the instruction behind a waiti executes.  They hold for  *)
(* every set of programs, every host and both kinds of memory.             *)
(*                                                                         *)
(* The C functions between the start of a step and its end either pass     *)
(* (Passed), or leave the core dispatched to an error vector (Raised), or  *)
(* stop it; these relations compose (FaultedTransitive), and nothing that  *)
(* follows Raised in a step undoes it.                                     *)
(***************************************************************************)
EXTENDS SequencerProofs

\* What no exception, taken or not, writes.
SameRegs(t, u) ==
  /\ u.r1 = t.r1
  /\ u.evtp = t.evtp
  /\ u.emr = t.emr
  /\ u.pending = t.pending
  /\ u.cur = t.cur

Passed(t, u) ==
  /\ SameRegs(t, u)
  /\ u.level = t.level
  /\ u.waiting = t.waiting
  /\ u.pc = t.pc /\ u.npc = t.npc /\ u.r20 = t.r20
  /\ u.ctx.loop = t.ctx.loop

\* An error dispatched in t, as u shows it.
Raised(t, u) ==
  /\ SameRegs(t, u)
  /\ u.level = "ERROR"
  /\ \E vn \in Errors : u.pc = t.evtp + 8 * vn
  /\ u.npc = u.pc + 4
  /\ u.r20 = t.cur + 8
  /\ ~u.waiting
  /\ ~u.ctx.loop.active

Stopped(t, u) == SameRegs(t, u) /\ u.level = "DERROR"

Faulted(t, u) == Passed(t, u) \/ Raised(t, u) \/ Stopped(t, u)

LEMMA FaultedTransitive ==
  ASSUME NEW t, NEW u, NEW v, Faulted(t, u), Faulted(u, v)
  PROVE  Faulted(t, v)
<1>1. SameRegs(t, u) /\ SameRegs(u, v) /\ SameRegs(t, v)
  BY DEF Faulted, Passed, Raised, Stopped, SameRegs
<1>2. CASE Passed(u, v)
  BY <1>1, <1>2 DEF Faulted, Passed, Raised, Stopped
<1>3. CASE Raised(u, v)
  BY <1>1, <1>3 DEF Faulted, Raised, SameRegs
<1>4. CASE Stopped(u, v)
  BY <1>1, <1>4 DEF Faulted, Stopped
<1> QED
  BY <1>2, <1>3, <1>4 DEF Faulted

-----------------------------------------------------------------------------
(* The C functions *)

\* take_error(): a masked error passes.
LEMMA TakeErrorFaults ==
  ASSUME NEW t, Good(t), NEW vn \in Errors
  PROVE  /\ Faulted(t, TakeError(t, vn))
         /\ ~Taken(t, vn) => Passed(t, TakeError(t, vn))
         /\ Taken(t, vn) /\ t.level \in {"BASE", "INTERRUPT"} => TakeError(t, vn).level = "ERROR"
<1> DEFINE u == [t EXCEPT !.lastVector = vn]
           e == TakeError(t, vn)
<1>1. Passed(t, u)
  BY DEF Passed, SameRegs, Good, State
<1>2. CASE ~Taken(t, vn) \/ t.level = "DERROR"
  BY <1>1, <1>2 DEF TakeError, Faulted
<1>3. CASE Taken(t, vn) /\ t.level = "ERROR" /\ t.nonmaskable
  <2>1. e = [u EXCEPT !.level = "DERROR"]
    BY <1>3 DEF TakeError
  <2>2. Stopped(t, e)
    BY <2>1 DEF Stopped, SameRegs, Good, State
  <2> QED
    BY <1>3, <2>2 DEF Faulted
<1>4. CASE Taken(t, vn) /\ t.level # "DERROR" /\ ~(t.level = "ERROR" /\ t.nonmaskable)
  <2> DEFINE l == [t.ctx.loop EXCEPT !.active = FALSE]
             c == [t.ctx EXCEPT !.loop = l]
             p == [t.pcw EXCEPT !.b13 = FALSE]
             x == t.evtp + vn * 8
             n == ~Maskable(vn)
             w1 == [u EXCEPT !.ctx = c, !.waiting = FALSE, !.nonmaskable = n,
                             !.level = "ERROR", !.pcw = p]
             w2 == [w1 EXCEPT !.pcwLocked = FALSE, !.r20 = t.cur + 8,
                              !.pc = x, !.npc = x + 4]
  <2>1. e = w2
    <3> DEFINE w == [u EXCEPT !.ctx = c, !.waiting = FALSE, !.nonmaskable = n,
                              !.level = "ERROR", !.pcw = p, !.pcwLocked = FALSE,
                              !.r20 = t.cur + 8, !.pc = x, !.npc = x + 4]
    <3>1. e = w
      BY <1>4 DEF TakeError
    <3>2. u \in State
      BY TakeErrorGood DEF Good, State, Errors, BUSERR, ILLOP, AERR, UV
    <3>3. w = w2
      <4> HIDE DEF u, c, x, n, p
      <4> QED BY <3>2 DEF State
    <3> QED
      BY <3>1, <3>3
  <2>2. ~c.loop.active
    BY DEF Good, State, Ctx, Loop
  <2>3. /\ SameRegs(t, w1) /\ w1.level = "ERROR" /\ ~w1.waiting /\ w1.ctx = c
        /\ w1 \in State
    <3>1. u \in State /\ SameRegs(t, u)
      BY <1>1 DEF Good, State, Passed, Errors, BUSERR, ILLOP, AERR, UV
    <3>2. n \in BOOLEAN
      BY DEF Maskable
    <3>3. c \in Ctx
      BY DEF Good, State, Ctx, Loop
    <3>4. p \in [comp: BOOLEAN, b13: BOOLEAN]
      BY DEF Good, State
    <3> HIDE DEF u, n, c, p
    <3> QED
      BY <3>1, <3>2, <3>3, <3>4 DEF State, SameRegs, Levels
  <2> HIDE DEF w1, x, c
  <2>4. /\ SameRegs(t, w2) /\ w2.level = "ERROR" /\ ~w2.waiting /\ w2.ctx = c
        /\ w2.r20 = t.cur + 8 /\ w2.pc = x /\ w2.npc = x + 4
    BY <2>3 DEF State, SameRegs
  <2>5. x = t.evtp + 8 * vn
    BY DEF x, Errors, BUSERR, ILLOP, AERR, UV
  <2> HIDE DEF w2
  <2>6. Raised(t, e)
    BY <2>1, <2>2, <2>4, <2>5 DEF Raised
  <2> QED
    BY <1>4, <2>6 DEF Faulted, Raised
<1> QED
  BY <1>2, <1>3, <1>4

\* mem_read() and mem_write(): an access that does not fail passes.
LEMMA MemAccessFaults ==
  ASSUME NEW t, Good(t), NEW f
  PROVE  /\ Faulted(t, MemAccess(t, f))
         /\ ~MemFails(t, f) => Passed(t, MemAccess(t, f))
<1> DEFINE u == IF f.mis THEN TakeError(t, AERR) ELSE t
<1>1. Passed(t, t)
  BY DEF Passed, SameRegs
<1>2. Good(u) /\ Faulted(t, u) /\ (~(f.mis /\ Taken(t, AERR)) => Passed(t, u))
  BY <1>1, TakeErrorFaults, TakeErrorGood DEF Errors, Faulted
<1>3. MemAccess(t, f) = IF f.bus /\ ~(f.mis /\ Taken(t, AERR)) THEN TakeError(u, BUSERR) ELSE u
  BY DEF MemAccess
<1> HIDE DEF u
<1>4. Faulted(u, TakeError(u, BUSERR))
  BY <1>2, TakeErrorFaults DEF Errors
<1>5. Faulted(t, TakeError(u, BUSERR))
  BY <1>2, <1>4, FaultedTransitive
<1> QED
  BY <1>2, <1>3, <1>5 DEF MemFails

\* An access leaves all but the pointers to mem_read() or mem_write().
LEMMA AccessFaults ==
  ASSUME NEW t, Good(t), NEW o \in Operand
  PROVE  /\ Faulted(t, Access(t, o))
         /\ ~AccessFails(t, o) => Passed(t, Access(t, o))
<1> DEFINE m == MemAccess(t, o.f)
           p == Past(t.ptr, o)
           u == [m EXCEPT !.ptr = p]
<1>1. Good(m) /\ Faulted(t, m) /\ (~MemFails(t, o.f) => Passed(t, m))
  BY MemAccessGood, MemAccessFaults
<1>2. Access(t, o) = IF ~o.mem THEN t ELSE IF MemFails(t, o.f) THEN m ELSE u
  BY DEF Access
<1>3. Passed(t, m) => Passed(t, u)
  <2> HIDE DEF m, p
  <2> QED BY <1>1 DEF Passed, SameRegs, Good, State
<1>4. Passed(t, t)
  BY DEF Passed, SameRegs
<1> HIDE DEF m, u
<1> QED
  BY <1>1, <1>2, <1>3, <1>4 DEF AccessFails, Faulted

\* DA instructions: X and Y, then the flags, then the store.
LEMMA ExecDaFaults ==
  ASSUME NEW t, Good(t), NEW w, w.x \in Operand, w.y \in Operand, w.z \in Operand
  PROVE  Faulted(t, ExecDa(t, w))
<1> DEFINE t0 == Access(t, w.x)
           t1 == Access(t0, w.y)
           v  == Dau[<<t1.ctx.a, t1.ctx.aPipe[3]>>]
           t2 == [t1 EXCEPT !.ctx.flag = v \in AccNeg]
           t3 == IF w.uv THEN TakeError(t2, UV) ELSE t2
           t4 == [t3 EXCEPT !.ctx.a = v]
<1>0. Good(t0) /\ Faulted(t, t0)
  BY AccessGood, AccessFaults
<1>1. Good(t1) /\ Faulted(t, t1)
  <2> HIDE DEF t0
  <2>1. Good(t1) /\ Faulted(t0, t1)
    BY <1>0, AccessGood, AccessFaults
  <2> HIDE DEF t1
  <2> QED
    BY <1>0, <2>1, FaultedTransitive
<1>2. v \in Acc
  <2> HIDE DEF t1
  <2> QED BY <1>1, DauAssumption DEF Good, State, Ctx
<1>3. Good(t2) /\ Passed(t1, t2)
  <2> HIDE DEF t1, v
  <2> DEFINE b == v \in AccNeg
             c == [t1.ctx EXCEPT !.flag = b]
  <2>1. b \in BOOLEAN
    OBVIOUS
  <2>2. c \in Ctx /\ c.loop = t1.ctx.loop
    <3> HIDE DEF b
    <3> QED BY <1>1, <2>1 DEF Good, State, Ctx
  <2>3. Good([t1 EXCEPT !.ctx = c]) /\ Passed(t1, [t1 EXCEPT !.ctx = c])
    <3> HIDE DEF c
    <3>1. Good([t1 EXCEPT !.ctx = c])
      BY <1>1, <2>2, CtxGood DEF Good
    <3>2. Passed(t1, [t1 EXCEPT !.ctx = c])
      BY <1>1, <2>2 DEF Good, State, Passed, SameRegs
    <3> QED
      BY <3>1, <3>2
  <2> QED
    BY <2>3 DEF c, b
<1>4. Good(t3) /\ Faulted(t, t3)
  <2> HIDE DEF t1, t2
  <2>1. Faulted(t, t2)
    BY <1>1, <1>3, FaultedTransitive DEF Faulted
  <2>2. Good(TakeError(t2, UV)) /\ Faulted(t2, TakeError(t2, UV))
    BY <1>3, TakeErrorGood, TakeErrorFaults DEF Errors
  <2> QED
    BY <1>3, <2>1, <2>2, FaultedTransitive
<1>5. Good(t4) /\ Faulted(t, t4)
  <2> HIDE DEF t3, v
  <2> DEFINE c == [t3.ctx EXCEPT !.a = v]
  <2>1. c \in Ctx /\ c.loop = t3.ctx.loop
    BY <1>4, <1>2 DEF Good, State, Ctx
  <2>2. Good([t3 EXCEPT !.ctx = c]) /\ Passed(t3, [t3 EXCEPT !.ctx = c])
    <3> HIDE DEF c
    <3>1. Good([t3 EXCEPT !.ctx = c])
      BY <1>4, <2>1, CtxGood DEF Good
    <3>2. Passed(t3, [t3 EXCEPT !.ctx = c])
      BY <1>4, <2>1 DEF Good, State, Passed, SameRegs
    <3> QED
      BY <3>1, <3>2
  <2>3. Good(t4) /\ Passed(t3, t4)
    BY <2>2 DEF c
  <2> HIDE DEF t4
  <2> QED
    BY <1>4, <2>3, FaultedTransitive DEF Faulted
<1>6. ExecDa(t, w) \in {t0, t1, Access(t4, w.z)}
  BY DEF ExecDa
<1> HIDE DEF t0, t1, t4
<1>7. Faulted(t4, Access(t4, w.z))
  BY <1>5, AccessFaults
<1> QED
  BY <1>0, <1>1, <1>5, <1>6, <1>7, FaultedTransitive

\* What the execution of an instruction may do, whatever the instruction: an
\* error it raises leaves the core dispatched, no instruction enters interrupt
\* level, and none but an emr write with bit 0 set drops a request, EXT1.
Outcome(t, u) ==
  /\ u.cur = t.cur
  /\ u.level = "ERROR" => t.level = "ERROR" \/ Raised(t, u)
  /\ u.level = "INTERRUPT" => t.level = "INTERRUPT"
  /\ \A v \in t.pending \ u.pending : v = EXT1 /\ 0 \in u.emr

LEMMA FaultedOutcome ==
  ASSUME NEW t, NEW u, Faulted(t, u)
  PROVE  Outcome(t, u)
BY DEF Faulted, Passed, Raised, Stopped, SameRegs, Outcome

LEMMA QuietOutcome ==
  ASSUME NEW t, NEW u, u.cur = t.cur, u.pending = t.pending, u.level \in {t.level, "BASE"}
  PROVE  Outcome(t, u)
BY DEF Outcome

LEMMA ExecLoadOutcome ==
  ASSUME NEW t, Good(t), NEW w, w.x \in Operand
  PROVE  Outcome(t, ExecLoad(t, w))
<1> DEFINE m == Access(t, w.x)
           u == [m EXCEPT !.r1 = w.v]
<1>1. Good(m) /\ Faulted(t, m) /\ (~AccessFails(t, w.x) => Passed(t, m))
  BY AccessGood, AccessFaults
<1>2. ExecLoad(t, w) = IF AccessFails(t, w.x) THEN m ELSE u
  BY DEF ExecLoad
<1>3. u.cur = m.cur /\ u.pending = m.pending /\ u.level = m.level
  <2> HIDE DEF m
  <2> QED BY <1>1 DEF Good, State
<1> HIDE DEF m, u
<1>4. CASE AccessFails(t, w.x)
  BY <1>1, <1>2, <1>4, FaultedOutcome
<1>5. CASE ~AccessFails(t, w.x)
  BY <1>1, <1>2, <1>3, <1>5, QuietOutcome DEF Passed, SameRegs
<1> QED
  BY <1>4, <1>5

LEMMA RegwOutcome ==
  ASSUME NEW t, Good(t), NEW reg \in Reg, NEW v
  PROVE  Outcome(t, Regw(t, reg, v)) /\ Regw(t, reg, v).ptr = t.ptr
<1> DEFINE u == Regw(t, reg, v)
<1>1. u \in {t, [t EXCEPT !.r1 = v], [t EXCEPT !.r20 = v], [t EXCEPT !.evtp = v],
             [t EXCEPT !.npc = v], [t EXCEPT !.pcsh = v]}
  BY DEF Regw, Reg
<1>2. u.cur = t.cur /\ u.pending = t.pending /\ u.level = t.level /\ u.ptr = t.ptr
  <2> HIDE DEF u
  <2> QED BY <1>1 DEF Good, State
<1> QED
  BY <1>2, QuietOutcome

LEMMA DoIreturnOutcome ==
  ASSUME NEW t, Good(t)
  PROVE  Outcome(t, DoIreturn(t)) /\ DoIreturn(t).ptr = t.ptr
<1> DEFINE u == IF t.level = "INTERRUPT"
                THEN [t EXCEPT !.ctx = t.sh, !.level = "BASE"] ELSE t
           v == [u EXCEPT !.pc = t.pcsh, !.npc = t.pcsh + 4, !.irshPending = TRUE]
<1>1. /\ u.cur = t.cur /\ u.pending = t.pending /\ u.level \in {t.level, "BASE"}
      /\ u.ptr = t.ptr /\ u \in State
  BY DEF Good, State, Levels
<1>2. /\ v.cur = t.cur /\ v.pending = t.pending /\ v.level \in {t.level, "BASE"}
      /\ v.ptr = t.ptr
  <2> HIDE DEF u
  <2> QED BY <1>1 DEF State
<1>3. DoIreturn(t) = v
  BY DEF DoIreturn
<1> HIDE DEF v
<1> QED
  BY <1>2, <1>3, QuietOutcome

LEMMA WriteOutcome ==
  ASSUME NEW t, Good(t), NEW v
  PROVE  /\ Outcome(t, WriteEmr(t, v)) /\ WriteEmr(t, v).ptr = t.ptr
         /\ Outcome(t, WritePcw(t, v)) /\ WritePcw(t, v).ptr = t.ptr
<1>1. Outcome(t, WriteEmr(t, v)) /\ WriteEmr(t, v).ptr = t.ptr
  <2> DEFINE p == IF 0 \in v THEN t.pending \ {EXT1} ELSE t.pending
             u == [t EXCEPT !.emr = v, !.pending = p]
  <2>1. u.emr = v /\ u.pending = p /\ u.cur = t.cur /\ u.level = t.level /\ u.ptr = t.ptr
    <3> HIDE DEF p
    <3> QED BY DEF Good, State
  <2>2. WriteEmr(t, v) = u
    BY DEF WriteEmr
  <2> HIDE DEF u
  <2> QED
    BY <2>1, <2>2 DEF Outcome
<1>2. Outcome(t, WritePcw(t, v)) /\ WritePcw(t, v).ptr = t.ptr
  <2>1. /\ WritePcw(t, v).cur = t.cur
        /\ WritePcw(t, v).pending = t.pending
        /\ WritePcw(t, v).level = t.level
        /\ WritePcw(t, v).ptr = t.ptr
    BY DEF WritePcw, Good, State
  <2> QED
    BY <2>1, QuietOutcome
<1> QED
  BY <1>1, <1>2

\* exec_insn()
LEMMA ExecOutcome ==
  ASSUME NEW t, Good(t), NEW w \in Insn
  PROVE  /\ Outcome(t, Exec(t, w))
         /\ w.op \notin {"illop", "load", "store", "da"} => Exec(t, w).ptr = t.ptr
<1> DEFINE u == Exec(t, w)
<1> USE InsnFields
<1>1. CASE w.op \in {"nop", "bkpt"}
  BY <1>1, QuietOutcome DEF Exec
<1>2. CASE w.op \in {"illop", "store", "da"}
  <2>1. Faulted(t, u)
    <3>1. CASE w.op = "illop"
      BY <3>1, TakeErrorFaults DEF Exec, Errors
    <3>2. CASE w.op = "store"
      BY <3>2, AccessFaults DEF Exec
    <3>3. CASE w.op = "da"
      BY <3>3, ExecDaFaults DEF Exec
    <3> QED
      BY <1>2, <3>1, <3>2, <3>3
  <2> QED
    BY <1>2, <2>1, FaultedOutcome
<1>3. CASE w.op = "ireturn"
  BY <1>3, DoIreturnOutcome DEF Exec
<1>4. CASE w.op \in {"waiti", "sftrst", "goto", "if", "call", "do"}
  <2> DEFINE b == t.waiting \/ Enabled(t) = {}
             l == [active |-> TRUE, lock |-> w.lock, start |-> t.pc,
                   end |-> t.pc + 4 * w.k, count |-> w.count]
             c == [t.ctx EXCEPT !.loop = l]
             n == Opval(t, w.base) + w.off
  <2>1. u \in {t, [t EXCEPT !.waiting = b],
               [t EXCEPT !.level = "BASE", !.nonmaskable = FALSE],
               [t EXCEPT !.npc = n],
               [t EXCEPT !.npc = w.off],
               [t EXCEPT !.r1 = t.cur + 8, !.npc = w.off],
               [t EXCEPT !.ctx = c]}
    <3>1. CASE w.op = "waiti"
      BY <3>1 DEF Exec, Good, State
    <3>2. CASE w.op = "sftrst"
      BY <3>2 DEF Exec
    <3>3. CASE w.op = "goto"
      BY <3>3 DEF Exec
    <3>4. CASE w.op = "if"
      BY <3>4 DEF Exec
    <3>5. CASE w.op = "call"
      BY <3>5 DEF Exec
    <3>6. CASE w.op = "do"
      BY <3>6 DEF Exec, ExecDo
    <3> QED
      BY <1>4, <3>1, <3>2, <3>3, <3>4, <3>5, <3>6
  <2>2. /\ u.cur = t.cur /\ u.pending = t.pending /\ u.level \in {t.level, "BASE"}
        /\ u.ptr = t.ptr
    <3> HIDE DEF u, b, n, c
    <3> QED BY <2>1 DEF Good, State
  <2> QED
    BY <2>2, QuietOutcome
<1>5. CASE w.op = "set"
  BY <1>5, RegwOutcome DEF Exec
<1>6. CASE w.op = "emr"
  BY <1>6, WriteOutcome DEF Exec
<1>7. CASE w.op = "pcw"
  BY <1>7, WriteOutcome DEF Exec
<1>8. CASE w.op = "load"
  BY <1>8, ExecLoadOutcome DEF Exec
<1> QED
  BY <1>1, <1>2, <1>3, <1>4, <1>5, <1>6, <1>7, <1>8

-----------------------------------------------------------------------------
(* The pointers of an instruction that raises an error *)

\* take_error() and the access itself leave them alone.
LEMMA MemAccessPtr ==
  ASSUME NEW t, Good(t)
  PROVE  /\ \A vn \in Errors : TakeError(t, vn).ptr = t.ptr
         /\ \A f : MemAccess(t, f).ptr = t.ptr
<1>1. ASSUME NEW u, Good(u), NEW vn \in Errors
      PROVE  TakeError(u, vn).ptr = u.ptr
  BY <1>1 DEF TakeError, Good, State
<1>2. ASSUME NEW f
      PROVE  MemAccess(t, f).ptr = t.ptr
  <2> DEFINE u == IF f.mis THEN TakeError(t, AERR) ELSE t
  <2>1. Good(u) /\ u.ptr = t.ptr
    BY <1>1, TakeErrorGood DEF Errors
  <2>2. MemAccess(t, f) \in {u, TakeError(u, BUSERR)}
    BY DEF MemAccess
  <2> HIDE DEF u
  <2> QED
    BY <1>1, <2>1, <2>2 DEF Errors
<1> QED
  BY <1>1, <1>2

LEMMA AccessPtr ==
  ASSUME NEW t, Good(t), NEW o
  PROVE  Access(t, o).ptr = IF AccessFails(t, o) THEN t.ptr ELSE Past(t.ptr, o)
<1> DEFINE m == MemAccess(t, o.f)
           p == Past(t.ptr, o)
           u == [m EXCEPT !.ptr = p]
<1>1. Good(m) /\ m.ptr = t.ptr
  BY MemAccessGood, MemAccessPtr
<1>2. u.ptr = p
  <2> HIDE DEF m, p
  <2> QED BY <1>1 DEF Good, State
<1>3. Access(t, o) = IF ~o.mem THEN t ELSE IF MemFails(t, o.f) THEN m ELSE u
  BY DEF Access
<1>4. ~o.mem => p = t.ptr
  BY DEF Past
<1> HIDE DEF m, p, u
<1> QED
  BY <1>1, <1>2, <1>3, <1>4 DEF AccessFails, p

\* Below error level an access fails by a bus error or an unmasked misalignment.
Below(t) == t.level \in {"BASE", "INTERRUPT"}
Faulty(o, aerr) == o.mem /\ (o.f.bus \/ (o.f.mis /\ aerr))

LEMMA FailsBelow ==
  ASSUME NEW t, NEW o, Below(t)
  PROVE  AccessFails(t, o) <=> Faulty(o, AERR \in t.emr)
BY DEF Below, AccessFails, MemFails, Faulty, Taken, Maskable, AERR

LEMMA FailsAbove ==
  ASSUME NEW t, NEW o, t.level = "ERROR"
  PROVE  AccessFails(t, o) <=> Faulty(o, FALSE)
BY DEF AccessFails, MemFails, Faulty, Taken, Maskable, AERR

LEMMA ExecDaPtr ==
  ASSUME NEW t, Good(t), Below(t),
         NEW w, w.op = "da", w.x \in Operand, w.y \in Operand, w.z \in Operand
  PROVE  ExecDa(t, w).ptr = Reached(t, w)
<1> DEFINE t0 == Access(t, w.x)
           t1 == Access(t0, w.y)
           v  == Dau[<<t1.ctx.a, t1.ctx.aPipe[3]>>]
           t2 == [t1 EXCEPT !.ctx.flag = v \in AccNeg]
           t3 == IF w.uv THEN TakeError(t2, UV) ELSE t2
           t4 == [t3 EXCEPT !.ctx.a = v]
           px == Past(t.ptr, w.x)
           py == Past(px, w.y)
           pz == Past(py, w.z)
           fx == Faulty(w.x, AERR \in t.emr)
           fy == Faulty(w.y, AERR \in t.emr)
           fz == Faulty(w.z, AERR \in t.emr /\ ~(w.uv /\ UV \in t.emr))
<1>1. ExecDa(t, w) = IF AccessFails(t, w.x) THEN t0
                     ELSE IF AccessFails(t0, w.y) THEN t1 ELSE Access(t4, w.z)
  BY DEF ExecDa
<1>2. Reached(t, w) = IF fx THEN t.ptr ELSE IF fy THEN px ELSE IF fz THEN py ELSE pz
  BY DEF Reached, Faulty
<1>3. /\ Good(t0) /\ t0.ptr = (IF fx THEN t.ptr ELSE px)
      /\ AccessFails(t, w.x) <=> fx
      /\ ~fx => Passed(t, t0)
  BY AccessGood, AccessPtr, FailsBelow, AccessFaults
<1> HIDE DEF t0, fx, fy, fz, px, py, pz
<1>4. CASE fx
  BY <1>1, <1>2, <1>3, <1>4
<1>5. ASSUME ~fx
      PROVE  /\ t0.ptr = px /\ t0.emr = t.emr /\ t0.level = t.level
             /\ Good(t1) /\ t1.ptr = (IF fy THEN px ELSE py)
             /\ AccessFails(t0, w.y) <=> fy
             /\ ~fy => Passed(t0, t1)
  <2>1. t0.ptr = px /\ t0.emr = t.emr /\ t0.level = t.level
    BY <1>3, <1>5 DEF Passed, SameRegs
  <2>2. AccessFails(t0, w.y) <=> fy
    BY <2>1, FailsBelow DEF Below, fy
  <2> QED
    BY <1>3, <2>1, <2>2, AccessGood, AccessPtr, AccessFaults DEF py
<1>6. CASE ~fx /\ fy
  BY <1>1, <1>2, <1>3, <1>5, <1>6
<1>7. CASE ~fx /\ ~fy
  <2>1. t1.ptr = py /\ t1.emr = t.emr /\ t1.level = t.level /\ Good(t1)
    BY <1>5, <1>7 DEF Passed, SameRegs
  <2> HIDE DEF t1
  <2>2. v \in Acc
    BY <2>1, DauAssumption DEF Good, State, Ctx
  <2>3. t2.ptr = py /\ t2.emr = t.emr /\ t2.level = t.level /\ Good(t2)
    <3> HIDE DEF v
    <3> DEFINE b == v \in AccNeg
               c == [t1.ctx EXCEPT !.flag = b]
    <3>1. b \in BOOLEAN
      OBVIOUS
    <3>2. c \in Ctx /\ c.loop = t1.ctx.loop
      <4> HIDE DEF b
      <4> QED BY <2>1, <3>1 DEF Good, State, Ctx
    <3>3. Good([t1 EXCEPT !.ctx = c])
      <4> HIDE DEF c
      <4> QED BY <2>1, <3>2, CtxGood DEF Good
    <3>4. t2 = [t1 EXCEPT !.ctx = c]
      BY DEF b, c
    <3> HIDE DEF c, t2
    <3> QED
      BY <2>1, <3>3, <3>4 DEF Good, State
  <2> HIDE DEF t2
  <2>4. Taken(t2, UV) <=> UV \in t.emr
    BY <2>3 DEF Taken, Maskable, UV, Below
  <2>5. /\ t3.ptr = py /\ t3.emr = t.emr /\ Good(t3)
        /\ t3.level = IF w.uv /\ UV \in t.emr THEN "ERROR" ELSE t.level
    <3> DEFINE e == TakeError(t2, UV)
    <3>1. /\ Good(e) /\ e.ptr = py /\ e.emr = t.emr
          /\ e.level = IF UV \in t.emr THEN "ERROR" ELSE t.level
      <4> UV \in Errors
        BY DEF Errors
      <4>1. Good(e) /\ e.ptr = py
        BY <2>3, TakeErrorGood, MemAccessPtr
      <4>2. Faulted(t2, e) /\ (~Taken(t2, UV) => Passed(t2, e))
            /\ (Taken(t2, UV) /\ t2.level \in {"BASE", "INTERRUPT"} => e.level = "ERROR")
        BY <2>3, TakeErrorFaults
      <4> HIDE DEF e
      <4> QED
        BY <2>3, <2>4, <4>1, <4>2 DEF Faulted, Passed, Raised, Stopped, SameRegs, Below
    <3> HIDE DEF e
    <3> QED
      BY <2>3, <3>1 DEF e
  <2> HIDE DEF t3
  <2>6. t4.ptr = py /\ t4.emr = t.emr /\ t4.level = t3.level /\ Good(t4)
    <3> HIDE DEF v
    <3> DEFINE c == [t3.ctx EXCEPT !.a = v]
    <3>1. c \in Ctx /\ c.loop = t3.ctx.loop
      BY <2>2, <2>5 DEF Good, State, Ctx
    <3>2. Good([t3 EXCEPT !.ctx = c])
      <4> HIDE DEF c
      <4> QED BY <2>5, <3>1, CtxGood DEF Good
    <3>3. t4 = [t3 EXCEPT !.ctx = c]
      BY DEF c
    <3> HIDE DEF c, t4
    <3> QED
      BY <2>5, <3>2, <3>3 DEF Good, State
  <2> HIDE DEF t4
  <2>7. AccessFails(t4, w.z) <=> fz
    <3>1. CASE w.uv /\ UV \in t.emr
      <4>1. t4.level = "ERROR"
        BY <2>5, <2>6, <3>1
      <4>2. fz <=> Faulty(w.z, FALSE)
        BY <3>1 DEF fz, Faulty
      <4> QED
        BY <4>1, <4>2, FailsAbove
    <3>2. CASE ~(w.uv /\ UV \in t.emr)
      <4>1. Below(t4) /\ t4.emr = t.emr
        BY <2>5, <2>6, <3>2 DEF Below
      <4>2. fz <=> Faulty(w.z, AERR \in t4.emr)
        BY <3>2, <4>1 DEF fz, Faulty
      <4> QED
        BY <4>1, <4>2, FailsBelow
    <3> QED
      BY <3>1, <3>2
  <2>8. Access(t4, w.z).ptr = IF fz THEN py ELSE pz
    BY <2>6, <2>7, AccessPtr DEF pz
  <2> QED
    BY <1>1, <1>2, <1>3, <1>5, <1>7, <2>8
<1> QED
  BY <1>4, <1>6, <1>7

\* exec_insn(): the pointers when it has raised an error.
LEMMA ExecPtr ==
  ASSUME NEW t, Good(t), Below(t), NEW w \in Insn, Exec(t, w).level = "ERROR"
  PROVE  Exec(t, w).ptr = Reached(t, w)
<1>1. CASE w.op = "da"
  BY <1>1, ExecDaPtr, InsnFields DEF Exec
<1>2. CASE w.op # "da"
  <2>1. Reached(t, w) = t.ptr
    BY <1>2 DEF Reached
  <2>2. CASE w.op = "illop"
    BY <2>1, <2>2, MemAccessPtr DEF Exec, Errors
  <2>3. ASSUME NEW o \in Operand
        PROVE  Access(t, o).level = "ERROR" => Access(t, o).ptr = t.ptr /\ AccessFails(t, o)
    BY AccessFaults, AccessPtr DEF Passed, Below
  <2>4. CASE w.op = "store"
    BY <2>1, <2>3, <2>4, InsnFields DEF Exec
  <2>5. CASE w.op = "load"
    <3> DEFINE m == Access(t, w.x)
               u == [m EXCEPT !.r1 = w.v]
    <3>1. w.x \in Operand
      BY <2>5, InsnFields
    <3>2. Exec(t, w) = IF AccessFails(t, w.x) THEN m ELSE u
      BY <2>5 DEF Exec, ExecLoad
    <3>3. u.level = m.level
      <4>1. Good(m)
        BY <3>1, AccessGood
      <4> HIDE DEF m
      <4> QED BY <4>1 DEF Good, State
    <3>4. m.level = "ERROR"
      <4> HIDE DEF m, u
      <4> QED BY <3>2, <3>3
    <3> QED
      BY <2>1, <2>3, <3>1, <3>2, <3>4
  <2>6. CASE w.op \notin {"illop", "load", "store"}
    BY <1>2, <2>1, <2>6, ExecOutcome
  <2> QED
    BY <2>2, <2>4, <2>5, <2>6
<1> QED
  BY <1>1, <1>2

\* The end of a loop body does not redirect a core an error has dispatched.
LEMMA BackEdgeOutcome ==
  ASSUME NEW t, NEW e, Good(e), Outcome(t, e), NEW x
  PROVE  /\ Outcome(t, BackEdge(e, x))
         /\ BackEdge(e, x).ptr = e.ptr /\ BackEdge(e, x).level = e.level
<1> DEFINE l  == e.ctx.loop
           c1 == [e.ctx EXCEPT !.loop = [l EXCEPT !.count = 0, !.active = FALSE]]
           c2 == [e.ctx EXCEPT !.loop = [l EXCEPT !.count = @ - 1]]
           u  == BackEdge(e, x)
<1>1. ~l.active => u = e
  BY DEF BackEdge
<1>2. u \in {e, [e EXCEPT !.ctx = c1],
             [e EXCEPT !.ctx = c2, !.pc = l.start, !.npc = l.start + 4]}
  <2>1. CASE ~(l.active /\ x = l.end)
    BY <2>1 DEF BackEdge
  <2>2. CASE l.active /\ x = l.end /\ l.count = 1
    <3>1. u = [e EXCEPT !.ctx = c1]
      BY <2>2 DEF BackEdge
    <3> QED
      BY <3>1
  <2>3. CASE l.active /\ x = l.end /\ l.count # 1
    BY <2>3 DEF BackEdge
  <2> QED
    BY <2>1, <2>2, <2>3
<1>3. /\ u.cur = e.cur /\ u.pending = e.pending /\ u.level = e.level /\ u.emr = e.emr
      /\ u.ptr = e.ptr
  <2> HIDE DEF u, c1, c2, l
  <2> QED BY <1>2 DEF Good, State
<1>4. CASE Raised(t, e)
  BY <1>1, <1>3, <1>4 DEF Raised
<1>5. CASE ~Raised(t, e)
  <2>1. Outcome(t, u)
    <3> HIDE DEF u
    <3> QED BY <1>3, <1>5 DEF Outcome
  <2> QED
    BY <1>3, <2>1
<1> QED
  BY <1>4, <1>5

-----------------------------------------------------------------------------
(* dsp3210_step() *)

\* LatencyTick() writes the latency stages alone, advance() in an instruction
\* that was fetched and prefetching the program counters and the prefetch.
LEMMA LatencyTickPasses ==
  ASSUME NEW t, Good(t)
  PROVE  Passed(t, LatencyTick(t)) /\ LatencyTick(t).ptr = t.ptr
<1> DEFINE ap == <<t.ctx.a, t.ctx.aPipe[1], t.ctx.aPipe[2]>>
           fp == <<t.ctx.flag, t.ctx.flagPipe[1], t.ctx.flagPipe[2], t.ctx.flagPipe[3]>>
           c  == [t.ctx EXCEPT !.aPipe = ap, !.flagPipe = fp]
<1>1. LatencyTick(t) = [t EXCEPT !.ctx = c]
  BY DEF LatencyTick, Good, State
<1>2. c.loop = t.ctx.loop
  <2> HIDE DEF ap, fp
  <2> QED BY DEF Good, State, Ctx
<1> HIDE DEF c
<1> QED
  BY <1>1, <1>2 DEF Good, State, Passed, SameRegs

LEMMA PrefetchedPasses ==
  ASSUME NEW t, Good(t)
  PROVE  Passed(t, Prefetched(t)) /\ Prefetched(t).ptr = t.ptr
<1>1. Prefetched(t) \in {[t EXCEPT !.prefetch = Word(t, t.pc), !.prefetchAddr = t.pc],
                         [t EXCEPT !.prefetchAddr = 1]}
  BY DEF Prefetched
<1> HIDE DEF Word
<1> QED
  BY <1>1 DEF Good, State, Passed, SameRegs

LEMMA PrefetchedGood ==
  ASSUME prog \in DOMAIN Programs, NEW t, Good(t)
  PROVE  Good(Prefetched(t))
<1>1. CASE RawReadable(t, t.pc)
  <2>1. Word(t, t.pc) \in Insn
    BY <1>1, WordType DEF RawReadable, Good
  <2> QED
    BY <1>1, <2>1 DEF Prefetched, Good, State
<1>2. CASE ~RawReadable(t, t.pc)
  BY <1>2 DEF Prefetched, Good, State
<1> QED
  BY <1>1, <1>2

\* A request goes only by being served: the highest-priority enabled one,
\* from base level.  A step that ends a waiti serves none.
LEMMA ReadyOutcome ==
  ASSUME prog \in DOMAIN Programs, Good(s)
  PROVE  /\ Ready.r1 = s.r1 /\ Ready.evtp = s.evtp /\ Ready.emr = s.emr
         /\ Ready.ptr = s.ptr
         /\ s.waiting => Ready.level = s.level
         /\ \A v \in s.pending \ Ready.pending :
              v \in s.emr /\ \A u \in Enabled(s) : v <= u
<1> DEFINE irs == [i \in 0..1 |-> s.pulse[i] = 0]
           ps == [i \in 0..1 |-> IF s.pulse[i] = 0 THEN 0 ELSE s.pulse[i] - 1]
           a == PinTick(s)
           b == Wake(a)
           c == Recognise(b)
           Same(t) == t.r1 = s.r1 /\ t.evtp = s.evtp /\ t.emr = s.emr /\ t.ptr = s.ptr
<1>1. Same(a) /\ a.pending = s.pending /\ a.level = s.level /\ a.waiting = s.waiting
  <2>1. a = [s EXCEPT !.ctx.ir = irs, !.pulse = ps]
    BY DEF PinTick
  <2> HIDE DEF a, irs, ps
  <2> QED BY <2>1 DEF Good, State
<1>2. Good(a)
  BY PinTickGood
<1>3. /\ Same(b) /\ b.pending = s.pending /\ b.level = s.level
      /\ s.waiting => b.intDefer
      /\ Good(b)
  <2> HIDE DEF a
  <2>1. b \in {a, [a EXCEPT !.waiting = FALSE, !.intDefer = TRUE]}
    BY DEF Wake
  <2>2. s.waiting => b = [a EXCEPT !.waiting = FALSE, !.intDefer = TRUE]
    BY <1>1 DEF Wake
  <2> HIDE DEF b
  <2>3. Same(b) /\ b.pending = s.pending /\ b.level = s.level /\ (s.waiting => b.intDefer)
    BY <1>1, <1>2, <2>1, <2>2 DEF Good, State
  <2>4. Good(b)
    <3>1. Good([a EXCEPT !.waiting = FALSE, !.intDefer = TRUE])
      BY <1>2 DEF Good, State
    <3> QED
      BY <1>2, <2>1, <3>1
  <2> QED
    BY <2>3, <2>4
<1>4. Enabled(b) = Enabled(s)
  BY <1>3 DEF Enabled
<1>5. /\ Same(c)
      /\ s.waiting => c.level = s.level
      /\ \A v \in s.pending \ c.pending : v \in s.emr /\ \A u \in Enabled(s) : v <= u
      /\ Good(c)
  <2>1. CASE Interruptible(b) /\ Enabled(b) # {}
    <3> DEFINE vn == PendingVector(b)
    <3> HIDE DEF b
    <3>1. ~b.intDefer
      BY <2>1 DEF Interruptible
    <3>2. vn \in Enabled(b) /\ \A u \in Enabled(b) : vn <= u
      <4>1. Enabled(b) \subseteq 8..15
        BY DEF Enabled
      <4>2. \E v \in Enabled(b) : \A u \in Enabled(b) : v <= u
        BY <2>1, <4>1
      <4> QED
        BY <4>2 DEF PendingVector
    <3>3. vn \in 8..15
      BY <2>1, PendingVectorType
    <3> HIDE DEF vn
    <3>4. c = TakeInterrupt(b, vn)
      BY <2>1 DEF Recognise, vn
    <3>5. Good(c)
      BY <1>3, <3>3, <3>4, TakeInterruptGood
    <3>6. Same(c) /\ c.pending = b.pending \ {vn}
      <4> HIDE DEF c
      <4> QED BY <1>3, <3>4 DEF TakeInterrupt, Good, State
    <3> HIDE DEF c
    <3> QED
      BY <1>3, <1>4, <3>1, <3>2, <3>5, <3>6 DEF Enabled
  <2>2. CASE ~(Interruptible(b) /\ Enabled(b) # {})
    BY <1>3, <2>2 DEF Recognise
  <2> QED
    BY <2>1, <2>2
<1>6. Ready = [c EXCEPT !.intDefer = FALSE]
  BY DEF Ready
<1> HIDE DEF c
<1> QED
  BY <1>5, <1>6 DEF Good, State

\* What a whole step may do, from the choice between replay and fetch on, when
\* w is the instruction it executes; the address in r20 is told by cur, which the
\* step has set by then.
Aborted(t, w, u) ==
  /\ u.r1 = t.r1 /\ u.evtp = t.evtp /\ u.emr = t.emr
  /\ u.ptr = Reached(t, w)
  /\ \E vn \in Errors : u.pc = t.evtp + 8 * vn
  /\ u.npc = u.pc + 4
  /\ u.r20 = u.cur + 8
  /\ ~u.waiting

Result(t, w, u) ==
  /\ u.level = "ERROR" /\ Below(t) => Aborted(t, w, u)
  /\ u.level = "INTERRUPT" => t.level = "INTERRUPT"
  /\ \A v \in t.pending \ u.pending : v = EXT1 /\ 0 \in u.emr

Began(t, b) ==
  /\ b.r1 = t.r1 /\ b.evtp = t.evtp /\ b.emr = t.emr /\ b.ptr = t.ptr
  /\ b.pending = t.pending /\ b.level = t.level

LEMMA OutcomeResult ==
  ASSUME NEW t, NEW b, NEW w, NEW u, Began(t, b), Outcome(b, u),
         Below(b) /\ u.level = "ERROR" => u.ptr = Reached(b, w)
  PROVE  Result(t, w, u)
<1>1. Reached(b, w) = Reached(t, w)
  BY DEF Began, Reached
<1> QED
  BY <1>1 DEF Began, Outcome, Result, Raised, Aborted, SameRegs, Below

LEMMA ReplayedResult ==
  ASSUME NEW t, Good(t)
  PROVE  Result(t, t.irsh, Replayed(t))
<1> DEFINE u == [t EXCEPT !.irshPending = FALSE, !.cur = t.irshAddr, !.prefetchAddr = 1]
           b == LatencyTick(u)
           e == Exec(b, t.irsh)
<1>1. Good(u) /\ Began(t, u) /\ t.irsh \in Insn
  BY DEF Good, State, Began
<1> HIDE DEF u
<1>2. Good(b) /\ Began(t, b)
  BY <1>1, LatencyTickGood, LatencyTickPasses DEF Began, Passed, SameRegs
<1> HIDE DEF b
<1>3. Good(e) /\ Outcome(b, e)
  BY <1>1, <1>2, ExecGood, ExecOutcome
<1>4. /\ Outcome(b, BackEdge(e, t.irshAddr))
      /\ Below(b) /\ BackEdge(e, t.irshAddr).level = "ERROR"
           => BackEdge(e, t.irshAddr).ptr = Reached(b, t.irsh)
  BY <1>1, <1>2, <1>3, BackEdgeOutcome, ExecPtr
<1>5. Replayed(t) = BackEdge(e, t.irshAddr)
  BY DEF Replayed, u, b
<1> QED
  BY <1>2, <1>4, <1>5, OutcomeResult

LEMMA ExecutedResult ==
  ASSUME prog \in DOMAIN Programs, NEW t, Good(t), ~MemFails(t, FetchFault(t))
  PROVE  Result(t, Word(t, Align(t.pc)), Executed(t))
<1> DEFINE w == Word(t, Align(t.pc))
           u == [t EXCEPT !.cur = t.pc]
           a == Advanced(u)
           b == LatencyTick(a)
           d == Prefetched(b)
           e == Exec(d, w)
<1>1. w \in Insn
  <2>1. FetchFault(t).bus = ~Mapped(t, Align(t.pc))
    BY DEF FetchFault
  <2>2. Mapped(t, Align(t.pc))
    BY <2>1 DEF MemFails
  <2> QED
    BY <2>2, WordType DEF Good
<1>2. Good(u) /\ Began(t, u) /\ ~MemFails(u, FetchFault(u))
  <2>1. Good(u) /\ Began(t, u)
    BY DEF Good, State, Began
  <2>2. u.pc = t.pc /\ u.pcw = t.pcw /\ u.emr = t.emr /\ u.level = t.level
    BY DEF Good, State
  <2> HIDE DEF u
  <2> QED
    BY <2>1, <2>2 DEF MemFails, FetchFault, Mapped, Taken
<1>3. Good(a) /\ Began(t, a)
  <2> HIDE DEF u
  <2> DEFINE m == MemAccess(u, FetchFault(u))
  <2>1. Good(m) /\ Passed(u, m) /\ m.ptr = u.ptr
    BY <1>2, MemAccessGood, MemAccessFaults, MemAccessPtr
  <2>2. u.npc \in Nat /\ u.npc + 4 \in Nat
    BY <1>2 DEF Good, State
  <2>3. a = [m EXCEPT !.pc = u.npc, !.npc = u.npc + 4]
    BY DEF Advanced
  <2> HIDE DEF m, a
  <2>4. Good(a)
    BY <2>1, <2>2, <2>3 DEF Good, State
  <2>5. Began(m, a)
    BY <2>1, <2>3 DEF Good, State, Began
  <2> QED
    BY <1>2, <2>1, <2>4, <2>5 DEF Began, Passed, SameRegs
<1> HIDE DEF a
<1>4. Good(b) /\ Began(t, b)
  BY <1>3, LatencyTickGood, LatencyTickPasses DEF Began, Passed, SameRegs
<1> HIDE DEF b
<1>5. Good(d) /\ Began(t, d)
  BY <1>4, PrefetchedGood, PrefetchedPasses DEF Began, Passed, SameRegs
<1> HIDE DEF d, w
<1>6. Good(e) /\ Outcome(d, e)
  BY <1>1, <1>5, ExecGood, ExecOutcome
<1>7. /\ Outcome(d, BackEdge(e, t.pc))
      /\ Below(d) /\ BackEdge(e, t.pc).level = "ERROR" => BackEdge(e, t.pc).ptr = Reached(d, w)
  BY <1>1, <1>5, <1>6, BackEdgeOutcome, ExecPtr
<1>8. Executed(t) = BackEdge(e, t.pc)
  BY DEF Executed, w, u, a, b, d
<1> QED
  BY <1>5, <1>7, <1>8, OutcomeResult DEF w

LEMMA FetchFaultResult ==
  ASSUME NEW t, Good(t), NEW f
  PROVE  Result(t, Nop, MemAccess([t EXCEPT !.cur = t.pc], f))
<1> DEFINE u == [t EXCEPT !.cur = t.pc]
<1>1. Good(u) /\ Began(t, u)
  BY DEF Good, State, Began
<1> HIDE DEF u
<1>2. Outcome(u, MemAccess(u, f)) /\ MemAccess(u, f).ptr = Reached(u, Nop)
  BY <1>1, MemAccessFaults, MemAccessPtr, FaultedOutcome DEF Reached, Nop
<1> QED
  BY <1>1, <1>2, OutcomeResult DEF u

-----------------------------------------------------------------------------
(* The specification *)

\* A step of an awake core: recognition, then the instruction or the fault.
LEMMA AwakeStep ==
  ASSUME IInv, StepReplay \/ StepFetchFault \/ StepExecute
  PROVE  Good(Ready) /\ Result(Ready, Coming, s')
<1>1. prog \in DOMAIN Programs /\ Good(s)
  BY DEF IInv
<1>2. Good(Ready)
  BY <1>1, ReadyGood
<1>3. CASE StepReplay
  BY <1>2, <1>3, ReplayedResult DEF StepReplay, Coming
<1>4. CASE StepFetchFault
  BY <1>2, <1>4, FetchFaultResult DEF StepFetchFault, Coming
<1>5. CASE StepExecute
  BY <1>1, <1>2, <1>5, ExecutedResult DEF StepExecute, Coming
<1> QED
  BY <1>2, <1>3, <1>4, <1>5

\* Every other step keeps level, wait and requests, or is a reset.
LEMMA OtherStep ==
  ASSUME IInv, [Next]_vars, ~(StepReplay \/ StepFetchFault \/ StepExecute)
  PROVE  \/ /\ s'.level = s.level
            /\ s'.waiting = s.waiting
            /\ s.pending \subseteq s'.pending
         \/ s'.level = "BASE" /\ s'.pending = {} /\ s'.pc = 0
<1>1. s \in State
  BY DEF IInv, Good
<1>2. CASE StepHalted
  BY <1>2 DEF StepHalted
<1>3. CASE StepAsleep
  <2> DEFINE irs == [i \in 0..1 |-> s.pulse[i] = 0]
             ps == [i \in 0..1 |-> IF s.pulse[i] = 0 THEN 0 ELSE s.pulse[i] - 1]
             t == PinTick(s)
  <2>1. t = [s EXCEPT !.ctx.ir = irs, !.pulse = ps]
    BY DEF PinTick
  <2>2. t.level = s.level /\ t.waiting = s.waiting /\ t.pending = s.pending
    <3> HIDE DEF t, irs, ps
    <3> QED BY <1>1, <2>1 DEF State
  <2>3. Passed(t, s')
    BY <1>3, PinTickGood, LatencyTickPasses DEF StepAsleep, IInv
  <2> QED
    BY <2>2, <2>3 DEF Passed, SameRegs
<1>4. ASSUME NEW strap \in Straps, Reset(strap)
      PROVE  s'.level = "BASE" /\ s'.pending = {} /\ s'.pc = 0
  <2> DEFINE c == [Ctx0 EXCEPT !.loop = [s.ctx.loop EXCEPT !.active = FALSE, !.lock = FALSE]]
             g == [i \in 0..1 |-> 0]
             q == Quiesced(s)
  <2>1. q.level = "BASE" /\ q.pending = {} /\ DOMAIN q = DOMAIN s /\ q.ctx = s.ctx
    BY <1>1 DEF Quiesced, State
  <2>2. s' = [q EXCEPT !.r1 = 0, !.r20 = s.pc, !.evtp = 0, !.ptr = Ptr0,
                       !.pc = 0, !.npc = 4, !.pcsh = 0, !.pcw = strap, !.pcwLocked = FALSE, !.ctx = c,
                       !.lastVector = -1, !.cur = 0, !.pulse = g]
    BY <1>4 DEF Reset, ResetState
  <2> HIDE DEF q, c, g
  <2> QED
    BY <1>1, <2>1, <2>2 DEF State
<1>5. ASSUME NEW v \in Vectors, RequestInterrupt(v)
      PROVE  s'.level = s.level /\ s'.waiting = s.waiting /\ s.pending \subseteq s'.pending
  BY <1>1, <1>5 DEF RequestInterrupt, State
<1>6. ASSUME NEW v \in Vectors, NEW slots \in Slots, ExtPulse(v, slots)
      PROVE  s'.level = s.level /\ s'.waiting = s.waiting /\ s.pending \subseteq s'.pending
  BY <1>1, <1>6 DEF ExtPulse, State
<1>7. CASE UNCHANGED vars
  BY <1>7 DEF vars
<1> QED
  BY <1>2, <1>3, <1>4, <1>5, <1>6, <1>7 DEF Next, Step, Host

\* A step that raises an error.
LEMMA ErrorStep ==
  ASSUME IInv, [Next]_vars, ErrorRaised
  PROVE  Aborted(s, Coming, s')
<1>1. StepReplay \/ StepFetchFault \/ StepExecute
  BY OtherStep DEF ErrorRaised
<1>2. Result(Ready, Coming, s')
  BY <1>1, AwakeStep
<1>3. Below(Ready)
  BY ReadyGood DEF IInv, ErrorRaised, Below
<1>4. Aborted(Ready, Coming, s')
  BY <1>2, <1>3 DEF Result, ErrorRaised
<1>5. /\ Ready.r1 = s.r1 /\ Ready.evtp = s.evtp /\ Ready.emr = s.emr
      /\ Ready.ptr = s.ptr
  BY ReadyOutcome DEF IInv
<1>6. Reached(Ready, Coming) = Reached(s, Coming)
  <2> HIDE DEF Ready, Coming
  <2> QED BY <1>5 DEF Reached
<1> HIDE DEF Ready, Coming
<1> QED
  BY <1>4, <1>5, <1>6 DEF Aborted

-----------------------------------------------------------------------------
\* An error raised anywhere in a step leaves the core at its vector, with r20
\* telling the instruction: neither a back-edge nor a branch in flight nor a
\* later masked error of the same instruction redirects it (take_error and
\* everything dsp3210_step() does after it).
THEOREM DispatchesStick == Spec => DispatchSticks
<1> DEFINE A == ErrorRaised => /\ \E vn \in {BUSERR, ILLOP, AERR, UV} : s'.pc = s.evtp + 8 * vn
                               /\ s'.npc = s'.pc + 4
                               /\ s'.r20 = s'.cur + 8
                               /\ ~s'.waiting
<1>1. IInv /\ [Next]_vars => [A]_vars
  BY ErrorStep DEF Aborted, Errors
<1> QED
  BY <1>1, Invariance, PTL DEF Spec, DispatchSticks

\* An instruction that raises an error has written neither a general register nor
\* emr, but for the pointers of the operands a DA instruction accessed before:
\* X's when Y faults, X's and Y's when Z does, all three when UV alone is raised
\* (exec_da, da_read, da_store_z, exec_move and the accesses below them).
THEOREM AbortsKeepRegisters == Spec => AbortKeepsRegisters
<1> DEFINE A == ErrorRaised => /\ s'.r1 = s.r1 /\ s'.evtp = s.evtp /\ s'.emr = s.emr
                               /\ s'.ptr = Reached(s, Coming)
<1>1. IInv /\ [Next]_vars => [A]_vars
  BY ErrorStep DEF Aborted
<1> QED
  BY <1>1, Invariance, PTL DEF Spec, AbortKeepsRegisters

\* A latched request goes by being served, when no enabled one has priority
\* over it, by the EXT1 drop of an emr write, or by reset (recognition in
\* dsp3210_step(), ior_write, dsp3210_reset).
THEOREM RequestsAreKept == Spec => RequestsKept
<1> DEFINE A == \A v \in s.pending \ s'.pending :
                   \/ v \in s.emr /\ \A u \in Enabled(s) : v <= u
                   \/ v = EXT1 /\ 0 \in s'.emr
                   \/ s'.pending = {} /\ s'.pc = 0
<1>1. ASSUME IInv, [Next]_vars PROVE A
  <2>1. CASE StepReplay \/ StepFetchFault \/ StepExecute
    <3>1. \A v \in Ready.pending \ s'.pending : v = EXT1 /\ 0 \in s'.emr
      BY <1>1, <2>1, AwakeStep DEF Result
    <3>2. \A v \in s.pending \ Ready.pending :
             v \in s.emr /\ \A u \in Enabled(s) : v <= u
      BY <1>1, ReadyOutcome DEF IInv
    <3> QED
      BY <3>1, <3>2
  <2>2. CASE ~(StepReplay \/ StepFetchFault \/ StepExecute)
    BY <1>1, <2>2, OtherStep
  <2> QED
    BY <2>1, <2>2
<1>2. IInv /\ [Next]_vars => [A]_vars
  BY <1>1
<1> QED
  BY <1>2, Invariance, PTL DEF Spec, RequestsKept

\* The step that ends a waiti does not enter interrupt level: it executes the
\* instruction behind the waiti (int_defer in dsp3210_step()).
THEOREM TheLatentIsFirst == Spec => LatentFirst
<1> DEFINE A == s.waiting /\ ~s'.waiting /\ s'.level = "INTERRUPT" => s.level = "INTERRUPT"
<1>1. ASSUME IInv, [Next]_vars PROVE A
  <2>1. CASE StepReplay \/ StepFetchFault \/ StepExecute
    <3>1. s.waiting => Ready.level = s.level
      BY <1>1, ReadyOutcome DEF IInv
    <3>2. s'.level = "INTERRUPT" => Ready.level = "INTERRUPT"
      BY <1>1, <2>1, AwakeStep DEF Result
    <3> QED
      BY <3>1, <3>2
  <2>2. CASE ~(StepReplay \/ StepFetchFault \/ StepExecute)
    BY <1>1, <2>2, OtherStep
  <2> QED
    BY <2>1, <2>2
<1>2. IInv /\ [Next]_vars => [A]_vars
  BY <1>1
<1> QED
  BY <1>2, Invariance, PTL DEF Spec, LatentFirst
=============================================================================
