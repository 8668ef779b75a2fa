----------------------------- MODULE Sequencer -----------------------------
(***************************************************************************)
(* The instruction sequencer of the DSP3210 core: dsp3210_step() and all   *)
(* it calls to fetch, replay, dispatch exceptions, save and restore the    *)
(* interrupted context, branch, loop and sleep, with the host's calls      *)
(* (interrupt requests, pin pulses, reset) between the steps.              *)
(*                                                                         *)
(* The struct dsp3210_emu is the record s.  A C function that updates the  *)
(* struct is an operator from a record to a record, so that one action of  *)
(* the model is one whole call of dsp3210_step().                          *)
(*                                                                         *)
(* Data the sequencer does not look at is abstract: one general register   *)
(* r1 beside r20 and evtp (r22); the registers that address memory as one  *)
(* value ptr, which an access moves on by its operand's post-modification; *)
(* one accumulator whose next value is a function of its live and of its   *)
(* latency-2 value; one DAU flag.  An instruction word is a record, as     *)
(* decoded; whether a data operand is in memory, its alignment, mapping    *)
(* and post-modification are fields of it.  Addresses are byte addresses   *)
(* that do not wrap at 2^32.                                               *)
(***************************************************************************)
EXTENDS Integers, Sequences, FiniteSets

CONSTANTS
  Programs,       \* the memory contents considered, by name; of each, the words
                  \* mapped in processor (FALSE) and in computer mode (TRUE)
  Acc, Acc0,      \* accumulator values, and the one reset leaves
  Dau,            \* <<live, latency-2 value>> |-> result of a DA instruction
  Ptr, Ptr0,      \* contents of the pointer registers, and what reset leaves
  Move,           \* operand field |-> what its post-modification makes of them
  AccNeg,         \* accumulator values that set the DAU flag
  Vectors,        \* the vectors the host requests
  Slots,          \* the lengths of the pin pulses the host applies
  Straps,         \* the pcw strap settings the host resets with
  Hooked          \* TRUE: the embedder installed read_fn / write_fn, and no
                  \* built-in memory backs the program

BUSERR == 1
ILLOP  == 2
AERR   == 4
UV     == 5
EXT0   == 8
EXT1   == 15

Levels  == {"BASE", "INTERRUPT", "ERROR", "DERROR"}
Reg     == {"zero", "r1", "r20", "evtp", "pc", "pcsh"}
Fault   == [mis: BOOLEAN, bus: BOOLEAN]      \* of one memory access
Operand == [mem: BOOLEAN, f: Fault, i: DOMAIN Move]

\* Instruction words, as the decoders of exec_insn() see them.
Insn ==
       [op: {"nop", "ireturn", "waiti", "sftrst", "bkpt", "illop"}]
  \cup [op: {"set"}, reg: Reg, v: Nat]
  \cup [op: {"goto"}, base: Reg, off: Nat]
  \cup [op: {"if"}, off: Nat]
  \cup [op: {"call"}, off: Nat]
  \cup [op: {"do"}, k: Nat, count: Nat \ {0}, lock: BOOLEAN]
  \cup [op: {"emr"}, v: SUBSET (0..15)]
  \cup [op: {"pcw"}, v: [comp: BOOLEAN, b13: BOOLEAN]]
  \cup [op: {"load"}, x: Operand, v: Nat]
  \cup [op: {"store"}, z: Operand]
  \cup [op: {"da"}, x: Operand, y: Operand, uv: BOOLEAN, z: Operand]

Nop == [op |-> "nop"]

ASSUME ProgramsAssumption ==
  \A p \in DOMAIN Programs, m \in BOOLEAN :
    /\ DOMAIN Programs[p][m] \subseteq Nat
    /\ \A x \in DOMAIN Programs[p][m] : Programs[p][m][x] \in Insn
ASSUME DauAssumption == Acc0 \in Acc /\ Dau \in [Acc \X Acc -> Acc]
ASSUME PtrAssumption == Ptr0 \in Ptr /\ Move \in [DOMAIN Move -> [Ptr -> Ptr]]
ASSUME HostAssumption ==
  /\ Vectors \subseteq Nat
  /\ Slots \subseteq Nat
  /\ Straps \subseteq [comp: BOOLEAN, b13: BOOLEAN]
  /\ Hooked \in BOOLEAN

VARIABLES
  prog,      \* the name of the program in memory
  s,         \* struct dsp3210_emu
  status,    \* what the last dsp3210_step() returned
  stalled    \* auxiliary: STEP_OK returns since icount last moved

vars == <<prog, s, status, stalled>>

Loop == [active: BOOLEAN, lock: BOOLEAN, start: Nat, end: Nat, count: Nat]

\* What take_interrupt() saves and do_ireturn() restores.
Ctx == [a: Acc, aPipe: [1..3 -> Acc], flag: BOOLEAN,
        flagPipe: [1..4 -> BOOLEAN], ir: [0..1 -> BOOLEAN], loop: Loop]

State ==
  [pc: Nat, npc: Nat, cur: Nat, pcsh: Nat, r1: Nat, r20: Nat, evtp: Nat, ptr: Ptr,
   irsh: Insn, irshAddr: Nat, irshPending: BOOLEAN,
   prefetch: Insn, prefetchAddr: Nat,
   emr: SUBSET (0..15), pcw: [comp: BOOLEAN, b13: BOOLEAN], pcwLocked: BOOLEAN,
   level: Levels, nonmaskable: BOOLEAN, pending: SUBSET (8..15),
   waiting: BOOLEAN, intDefer: BOOLEAN, lastVector: -1..15,
   pulse: [0..1 -> Nat], ctx: Ctx, sh: Ctx]

-----------------------------------------------------------------------------
(* Registers *)

Opval(t, reg) ==
  CASE reg = "zero" -> 0
    [] reg = "r1"   -> t.r1
    [] reg = "r20"  -> t.r20
    [] reg = "evtp" -> t.evtp
    [] reg = "pc"   -> t.cur + 8
    [] reg = "pcsh" -> t.pcsh

Regw(t, reg, v) ==
  CASE reg = "zero" -> t
    [] reg = "r1"   -> [t EXCEPT !.r1 = v]
    [] reg = "r20"  -> [t EXCEPT !.r20 = v]
    [] reg = "evtp" -> [t EXCEPT !.evtp = v]
    [] reg = "pc"   -> [t EXCEPT !.npc = v]
    [] reg = "pcsh" -> [t EXCEPT !.pcsh = v]

-----------------------------------------------------------------------------
(* Exceptions *)

Maskable(vn) == vn >= 4

\* The return value of take_error(): the exception is taken.
TakenAtErrorLevel(t, vn) == Maskable(vn) => vn \in t.emr    \* mutant
Taken(t, vn) ==
  Maskable(vn) => vn \in t.emr /\ t.level # "ERROR"

TakeError(t, vn) ==
  LET u == [t EXCEPT !.lastVector = vn] IN
  IF ~Taken(t, vn) \/ t.level = "DERROR" THEN u
  ELSE IF t.level = "ERROR" /\ t.nonmaskable THEN [u EXCEPT !.level = "DERROR"]
  ELSE [u EXCEPT !.ctx.loop.active = FALSE, !.waiting = FALSE,
                 !.nonmaskable = ~Maskable(vn), !.level = "ERROR",
                 !.pcw.b13 = FALSE, !.pcwLocked = FALSE,
                 !.r20 = t.cur + 8,
                 !.pc = t.evtp + vn * 8, !.npc = t.evtp + vn * 8 + 4]

Enabled(t) == t.pending \cap t.emr \cap (8..15)

\* EXT0, the lowest number, has the highest priority.
HighestVector(t) == CHOOSE v \in Enabled(t) : \A u \in Enabled(t) : v >= u    \* mutant
PendingVector(t) ==
  CHOOSE v \in Enabled(t) : \A u \in Enabled(t) : v <= u

\* A word read outside mem_read(): never through the hooks.
Align(x) == x - (x % 4)
Words(comp) == Programs[prog][comp]
Mapped(t, x) == x \in DOMAIN Words(t.pcw.comp)
Word(t, x) == Words(t.pcw.comp)[x]
RawReadable(t, x) == ~Hooked /\ x % 4 = 0 /\ Mapped(t, x)

SavedWithoutPipe(t) == [t.ctx EXCEPT !.aPipe = t.sh.aPipe]    \* mutant
Saved(t) == t.ctx

TakeInterrupt(t, vn) ==
  [t EXCEPT !.lastVector = vn,
            !.pending = @ \ {vn},
            !.sh = Saved(t),
            !.ctx.loop.active = FALSE,
            !.irsh = IF t.prefetchAddr = t.pc THEN t.prefetch
                     ELSE IF RawReadable(t, t.pc) THEN Word(t, t.pc)
                     ELSE Nop,
            !.irshAddr = t.pc,
            !.pcsh = t.pc + 4,
            !.level = "INTERRUPT",
            !.pc = t.evtp + vn * 8, !.npc = t.evtp + vn * 8 + 4]

DoIreturn(t) ==
  LET u == IF t.level = "INTERRUPT"
           THEN [t EXCEPT !.ctx = t.sh, !.level = "BASE"]
           ELSE t
  IN  [u EXCEPT !.pc = t.pcsh, !.npc = t.pcsh + 4, !.irshPending = TRUE]

-----------------------------------------------------------------------------
(* Memory accesses of executing code, and the time base *)

\* mem_read() / mem_write(): a masked address error lets the access go on,
\* aligned down.
MemFails(t, f) == (f.mis /\ Taken(t, AERR)) \/ f.bus

MemAccess(t, f) ==
  LET u == IF f.mis THEN TakeError(t, AERR) ELSE t
  IN  IF f.bus /\ ~(f.mis /\ Taken(t, AERR)) THEN TakeError(u, BUSERR) ELSE u

\* The pointers after an operand, which da_postmod() moves once it is accessed.
Past(p, o) == IF o.mem THEN Move[o.i][p] ELSE p

AccessFails(t, o) == o.mem /\ MemFails(t, o.f)

AccessMovesFirst(t, o) ==    \* mutant
  IF o.mem THEN [MemAccess(t, o.f) EXCEPT !.ptr = Past(t.ptr, o)] ELSE t
Access(t, o) ==
  IF ~o.mem THEN t
  ELSE IF MemFails(t, o.f) THEN MemAccess(t, o.f)
  ELSE [MemAccess(t, o.f) EXCEPT !.ptr = Past(t.ptr, o)]

LatencyTick(t) ==
  [t EXCEPT !.ctx.aPipe = <<t.ctx.a, t.ctx.aPipe[1], t.ctx.aPipe[2]>>,
            !.ctx.flagPipe = <<t.ctx.flag, t.ctx.flagPipe[1],
                               t.ctx.flagPipe[2], t.ctx.flagPipe[3]>>]

PinTickUnguarded(t) ==    \* mutant
  [t EXCEPT !.ctx.ir = [i \in 0..1 |-> t.pulse[i] = 0],
            !.pulse = [i \in 0..1 |-> t.pulse[i] - 1]]
PinTick(t) ==
  [t EXCEPT !.ctx.ir = [i \in 0..1 |-> t.pulse[i] = 0],
            !.pulse = [i \in 0..1 |-> IF t.pulse[i] = 0 THEN 0 ELSE t.pulse[i] - 1]]

-----------------------------------------------------------------------------
(* exec_insn() *)

\* Y and Z are accessed when X's pointer has moved, Z when the result is in the
\* accumulator; an enabled UV is raised in between and does not end the whole.
ExecDa(t, w) ==
  LET tx == Access(t, w.x)
      ty == Access(tx, w.y)
      v  == Dau[<<ty.ctx.a, ty.ctx.aPipe[3]>>]
      tf == [ty EXCEPT !.ctx.flag = v \in AccNeg]
      tu == IF w.uv THEN TakeError(tf, UV) ELSE tf
  IN  IF AccessFails(t, w.x) THEN tx
      ELSE IF AccessFails(tx, w.y) THEN ty
      ELSE Access([tu EXCEPT !.ctx.a = v], w.z)

ExecLoad(t, w) ==
  IF AccessFails(t, w.x) THEN Access(t, w.x) ELSE [Access(t, w.x) EXCEPT !.r1 = w.v]

\* start and end count from pc, already the address after the do.
ExecDo(t, w) ==
  [t EXCEPT !.ctx.loop = [active |-> TRUE, lock |-> w.lock, start |-> t.pc,
                          end |-> t.pc + 4 * w.k, count |-> w.count]]

WriteEmr(t, v) ==
  [t EXCEPT !.emr = v, !.pending = IF 0 \in v THEN @ \ {EXT1} ELSE @]

WritePcwUnlocked(t, v) == [t EXCEPT !.pcw = v, !.pcwLocked = @ \/ v.b13]    \* mutant
WritePcw(t, v) ==
  IF t.pcwLocked THEN t ELSE [t EXCEPT !.pcw = v, !.pcwLocked = v.b13]

Exec(t, w) ==
  CASE w.op \in {"nop", "bkpt"} -> t
    [] w.op = "illop"   -> TakeError(t, ILLOP)
    [] w.op = "ireturn" -> DoIreturn(t)
    [] w.op = "waiti"   -> [t EXCEPT !.waiting = @ \/ Enabled(t) = {}]
    [] w.op = "sftrst"  -> [t EXCEPT !.level = "BASE", !.nonmaskable = FALSE]
    [] w.op = "set"     -> Regw(t, w.reg, w.v)
    [] w.op = "goto"    -> [t EXCEPT !.npc = Opval(t, w.base) + w.off]
    [] w.op = "if"      -> IF t.ctx.flagPipe[4] THEN [t EXCEPT !.npc = w.off] ELSE t
    [] w.op = "call"    -> [t EXCEPT !.r1 = t.cur + 8, !.npc = w.off]
    [] w.op = "do"      -> ExecDo(t, w)
    [] w.op = "emr"     -> WriteEmr(t, w.v)
    [] w.op = "pcw"     -> WritePcw(t, w.v)
    [] w.op = "load"    -> ExecLoad(t, w)
    [] w.op = "store"   -> Access(t, w.z)
    [] w.op = "da"      -> ExecDa(t, w)

\* The end of a do-loop body, after the instruction at address x.
BackEdgeLate(t, x) ==    \* mutant: counts below zero iterations
  LET l == t.ctx.loop IN
  IF ~(l.active /\ x = l.end) THEN t
  ELSE IF l.count = 0 THEN [t EXCEPT !.ctx.loop.active = FALSE]
  ELSE [t EXCEPT !.ctx.loop.count = @ - 1, !.pc = l.start, !.npc = l.start + 4]
BackEdgeAfterAbort(t, x) ==    \* mutant: of a loop an error has killed too
  LET l == t.ctx.loop IN
  IF x = l.end /\ l.count > 1
  THEN [t EXCEPT !.ctx.loop.count = @ - 1, !.pc = l.start, !.npc = l.start + 4] ELSE t
BackEdge(t, x) ==
  LET l == t.ctx.loop IN
  IF ~(l.active /\ x = l.end) THEN t
  ELSE IF l.count = 1 THEN [t EXCEPT !.ctx.loop.count = 0, !.ctx.loop.active = FALSE]
  ELSE [t EXCEPT !.ctx.loop.count = @ - 1, !.pc = l.start, !.npc = l.start + 4]

-----------------------------------------------------------------------------
(* dsp3210_step() *)

\* A core that sleeps in waiti goes on sleeping.
Asleep == s.waiting /\ Enabled(s) = {}

WakeToInterrupt(t) == [t EXCEPT !.waiting = FALSE]    \* mutant
Wake(t) == IF t.waiting THEN [t EXCEPT !.waiting = FALSE, !.intDefer = TRUE] ELSE t

InterruptibleInReplay(t) ==    \* mutant
  /\ ~t.intDefer
  /\ t.level = "BASE"
  /\ t.npc = t.pc + 4
  /\ ~(t.ctx.loop.active /\ t.ctx.loop.lock)
Interruptible(t) ==
  /\ ~t.intDefer
  /\ ~t.irshPending
  /\ t.level = "BASE"
  /\ t.npc = t.pc + 4
  /\ ~(t.ctx.loop.active /\ t.ctx.loop.lock)

Recognise(t) ==
  IF Interruptible(t) /\ Enabled(t) # {} THEN TakeInterrupt(t, PendingVector(t)) ELSE t

ReadyStillDeferred == Recognise(Wake(PinTick(s)))    \* mutant
\* The core when a step comes to choose between replay and fetch.
Ready == [Recognise(Wake(PinTick(s))) EXCEPT !.intDefer = FALSE]

Awake == s.level # "DERROR" /\ ~Asleep

FetchFault(t) == [mis |-> t.pc % 4 # 0, bus |-> ~Mapped(t, Align(t.pc))]

Replayed(t) ==
  LET u == [t EXCEPT !.irshPending = FALSE, !.cur = t.irshAddr, !.prefetchAddr = 1]
  IN  BackEdge(Exec(LatencyTick(u), t.irsh), t.irshAddr)

Advanced(t) ==
  [MemAccess(t, FetchFault(t)) EXCEPT !.pc = t.npc, !.npc = t.npc + 4]

Prefetched(t) ==
  IF RawReadable(t, t.pc)
  THEN [t EXCEPT !.prefetch = Word(t, t.pc), !.prefetchAddr = t.pc]
  ELSE [t EXCEPT !.prefetchAddr = 1]

Executed(t) ==
  LET w == Word(t, Align(t.pc))
      u == [t EXCEPT !.cur = t.pc]
  IN  BackEdge(Exec(Prefetched(LatencyTick(Advanced(u))), w), t.pc)

StatusOf(w) == IF w.op = "bkpt" THEN "bkpt" ELSE "ok"

StepHalted ==
  /\ s.level = "DERROR"
  /\ status' = "derror"
  /\ UNCHANGED <<prog, s, stalled>>

StepAsleep ==
  /\ s.level # "DERROR"
  /\ Asleep
  /\ s' = LatencyTick(PinTick(s))
  /\ status' = "waiti"
  /\ UNCHANGED <<prog, stalled>>

StepReplay ==
  /\ Awake
  /\ LET t == Ready IN
       /\ t.irshPending
       /\ s' = Replayed(t)
       /\ status' = StatusOf(t.irsh)
  /\ stalled' = 0
  /\ UNCHANGED prog

StepFetchFault ==
  /\ Awake
  /\ LET t == Ready
         f == FetchFault(t)
     IN /\ ~t.irshPending
        /\ MemFails(t, f)
        /\ s' = MemAccess([t EXCEPT !.cur = t.pc], f)
  /\ status' = "ok"
  /\ stalled' = stalled + 1
  /\ UNCHANGED prog

StepExecute ==
  /\ Awake
  /\ LET t == Ready IN
       /\ ~t.irshPending
       /\ ~MemFails(t, FetchFault(t))
       /\ s' = Executed(t)
       /\ status' = StatusOf(Word(t, Align(t.pc)))
  /\ stalled' = 0
  /\ UNCHANGED prog

Step == StepHalted \/ StepAsleep \/ StepReplay \/ StepFetchFault \/ StepExecute

-----------------------------------------------------------------------------
(* The host, between steps *)

Ctx0 == [a |-> Acc0, aPipe |-> [i \in 1..3 |-> Acc0], flag |-> FALSE,
         flagPipe |-> [i \in 1..4 |-> FALSE], ir |-> [i \in 0..1 |-> TRUE],
         loop |-> [active |-> FALSE, lock |-> FALSE, start |-> 0, end |-> 0, count |-> 0]]

QuiescedButReplay(t) ==    \* mutant
  [t EXCEPT !.level = "BASE", !.nonmaskable = FALSE, !.pending = {}, !.emr = {},
            !.waiting = FALSE, !.intDefer = FALSE, !.prefetchAddr = 1]
\* The part of dsp3210_reset() that ends what was going on.
Quiesced(t) ==
  [t EXCEPT !.level = "BASE", !.nonmaskable = FALSE, !.pending = {}, !.emr = {},
            !.waiting = FALSE, !.intDefer = FALSE, !.prefetchAddr = 1,
            !.irshPending = FALSE, !.irsh = [op |-> "illop"], !.irshAddr = 0]

\* dsp3210_reset() leaves the loop bounds and the shadow registers alone.
ResetState(t, strap) ==
  [Quiesced(t) EXCEPT
     !.r1 = 0, !.r20 = t.pc, !.evtp = 0, !.ptr = Ptr0, !.pc = 0, !.npc = 4, !.pcsh = 0,
     !.pcw = strap, !.pcwLocked = FALSE,
     !.ctx = [Ctx0 EXCEPT !.loop = [t.ctx.loop EXCEPT !.active = FALSE, !.lock = FALSE]],
     !.lastVector = -1, !.cur = 0, !.pulse = [i \in 0..1 |-> 0]]

Reset(strap) ==
  /\ s' = ResetState(s, strap)
  /\ stalled' = 0
  /\ UNCHANGED <<prog, status>>

RequestInterrupt(v) ==
  /\ v \in 8..15
  /\ s' = [s EXCEPT !.pending = @ \cup {v}]
  /\ UNCHANGED <<prog, status, stalled>>

ExtPulse(v, slots) ==
  /\ v \in {EXT0, EXT1}
  /\ LET i == IF v = EXT0 THEN 0 ELSE 1
         t == [s EXCEPT !.pending = @ \cup {v}]
     IN  s' = IF slots = 0 THEN t
              ELSE [t EXCEPT !.pulse[i] = slots, !.ctx.ir[i] = FALSE]
  /\ UNCHANGED <<prog, status, stalled>>

Host ==
  \/ \E strap \in Straps : Reset(strap)
  \/ \E v \in Vectors : RequestInterrupt(v)
  \/ \E v \in Vectors, slots \in Slots : ExtPulse(v, slots)

-----------------------------------------------------------------------------
\* dsp3210_init(): all zero, then reset(0).  Word 0 decodes as an illegal one.
Blank ==
  [pc |-> 0, npc |-> 0, cur |-> 0, pcsh |-> 0, r1 |-> 0, r20 |-> 0, evtp |-> 0, ptr |-> Ptr0,
   irsh |-> [op |-> "illop"], irshAddr |-> 0, irshPending |-> FALSE,
   prefetch |-> [op |-> "illop"], prefetchAddr |-> 0,
   emr |-> {}, pcw |-> [comp |-> FALSE, b13 |-> FALSE], pcwLocked |-> FALSE,
   level |-> "BASE", nonmaskable |-> FALSE, pending |-> {},
   waiting |-> FALSE, intDefer |-> FALSE, lastVector |-> 0,
   pulse |-> [i \in 0..1 |-> 0], ctx |-> Ctx0, sh |-> Ctx0]

Init ==
  /\ prog \in DOMAIN Programs
  /\ s = ResetState(Blank, [comp |-> FALSE, b13 |-> FALSE])
  /\ status = "ok"
  /\ stalled = 0

Next == Step \/ Host

Spec == Init /\ [][Next]_vars

-----------------------------------------------------------------------------
(* Type invariant *)

TypeOK ==
  /\ prog \in DOMAIN Programs
  /\ s \in State
  /\ status \in {"ok", "waiti", "bkpt", "derror"}
  /\ stalled \in Nat

-----------------------------------------------------------------------------
(* The program at base level, seen through the interrupts.                 *)

InHandler == s.level = "INTERRUPT"
Displaced == InHandler \/ s.irshPending      \* the next base word is in irsh
BaseCtx   == IF InHandler THEN s.sh ELSE s.ctx

Base == INSTANCE BaseProgram WITH
  text     <- Words(FALSE),
  pc       <- IF Displaced THEN s.irshAddr ELSE s.pc,
  npc      <- IF InHandler THEN s.irshAddr + 4 ELSE IF s.irshPending THEN s.pc ELSE s.npc,
  r1       <- s.r1,
  ptr      <- s.ptr,
  dau      <- [a |-> BaseCtx.a, flag |-> BaseCtx.flag],
  aPast    <- BaseCtx.aPipe,
  flagPast <- BaseCtx.flagPipe,
  loop     <- IF BaseCtx.loop.active THEN BaseCtx.loop ELSE Ctx0.loop,
  doze     <- s.waiting /\ ~InHandler

\* An interrupt is transparent: whatever the host requests and whenever, the
\* base-level program runs as if alone, and a reset at any moment starts it
\* afresh (take_interrupt, do_ireturn, the irsh replay, waiti, dsp3210_reset).
Transparent == Base!Spec

\* Words that raise no error at present, masked ones aside.
Operands(w) ==
  CASE w.op = "load" -> {w.x} [] w.op = "store" -> {w.z}
    [] w.op = "da" -> {w.x, w.y, w.z} [] OTHER -> {}
Unfaulted(o) == o.mem => ~o.f.bus /\ (o.f.mis => AERR \notin s.emr)
Quiet(w) ==
  /\ w.op # "illop"
  /\ \A o \in Operands(w) : Unfaulted(o)
  /\ w.op = "da" /\ w.uv => UV \notin s.emr

\* Words of base programs do not return, and jump where BaseProgram can tell;
\* those of handlers leave the base program's registers and the level alone.
BaseWord(w) ==
  /\ Quiet(w) /\ w.op # "ireturn"
  /\ w.op = "goto" => w.base \in {"zero", "r1"}
  /\ w.op = "set"  => w.reg # "pc"
HandlerWord(w) ==
  /\ Quiet(w) /\ w.op \notin {"sftrst", "call", "load"}
  /\ w.op = "set" => w.reg \notin {"r1", "pcsh"}
  /\ \A o \in Operands(w) : \A p \in Ptr : Past(p, o) = p

Fetchable(x) == x % 4 = 0 /\ x \in DOMAIN Words(FALSE)

\* The core never strays: the next word at base level, fetched or replayed, is one
\* of a base program, the next one in a handler is one of a handler, which does
\* not share an ireturn with a loop of the base program, and there are no errors.
Tame ==
  /\ ~Hooked /\ Words(TRUE) = Words(FALSE)
  /\ s.level \in {"BASE", "INTERRUPT"}
  /\ ~InHandler =>
       LET x == IF s.irshPending THEN s.irshAddr ELSE s.pc
       IN  Fetchable(x) /\ BaseWord(Words(FALSE)[x])
  /\ Ready.level = "INTERRUPT" =>
       /\ Fetchable(Ready.pc) /\ HandlerWord(Words(FALSE)[Ready.pc])
       /\ Ready.sh.loop.active => Ready.sh.loop.end # Ready.pc

-----------------------------------------------------------------------------
(* Safety of the exception machinery                                       *)

\* A core whose fetches fault is never stepped forever with icount standing
\* still (run loops count icount): three such steps in a row end in a double
\* error, which step() reports.
StallBounded ==
  /\ s.level \in {"BASE", "INTERRUPT"} => stalled = 0
  /\ s.level = "ERROR" => stalled <= IF s.nonmaskable THEN 2 ELSE 1
  /\ stalled <= 3

\* do_count never reaches zero in a live loop, where the unsigned decrement of
\* the back-edge would wrap; neither in the loop an interrupt set aside.
LoopCounted ==
  /\ s.ctx.loop.active => s.ctx.loop.count > 0
  /\ s.sh.loop.active => s.sh.loop.count > 0

\* The lock of pcw and the bit software reads it from do not drift apart,
\* though errors, resets and writes each handle the two in their own place.
LockShown == s.pcwLocked => s.pcw.b13

ErrorRaised == s.level \in {"BASE", "INTERRUPT"} /\ s'.level = "ERROR"

\* An error raised anywhere in a step, be it in the last instruction of a
\* loop, in a delay slot or in a replayed instruction, leaves the core at the
\* vector: nothing the step does afterwards redirects it.
DispatchSticks ==
  [][ErrorRaised => /\ \E vn \in {BUSERR, ILLOP, AERR, UV} : s'.pc = s.evtp + 8 * vn
                    /\ s'.npc = s'.pc + 4
                    /\ s'.r20 = s'.cur + 8
                    /\ ~s'.waiting]_vars

\* The instruction a step comes to execute; none if its fetch faults.
Coming ==
  LET t == Ready IN
  IF t.irshPending THEN t.irsh
  ELSE IF MemFails(t, FetchFault(t)) THEN Nop ELSE Word(t, Align(t.pc))

\* Where an instruction leaves the pointers that raises an error in t, at base or
\* interrupt level.  With UV raised, Z is stored at error level: AERR is masked.
Reached(t, w) ==
  LET x == Past(t.ptr, w.x)
      y == Past(x, w.y)
      unmasked == AERR \in t.emr
      zUnmasked == unmasked /\ ~(w.uv /\ UV \in t.emr)
      Faulty(o, aerr) == o.mem /\ (o.f.bus \/ (o.f.mis /\ aerr))
  IN  IF w.op # "da" \/ Faulty(w.x, unmasked) THEN t.ptr
      ELSE IF Faulty(w.y, unmasked) THEN x
      ELSE IF Faulty(w.z, zUnmasked) THEN y ELSE Past(y, w.z)

\* The abort model: an instruction that raises an error has written neither a
\* general register nor emr, with one exception.  A DA instruction has moved the
\* pointers of exactly those operands whose access came before: X's when Y faults,
\* X's and Y's when Z does, and Z's too when it was UV, which does not end it.
AbortKeepsRegisters ==
  [][ErrorRaised =>
       /\ s'.r1 = s.r1 /\ s'.evtp = s.evtp /\ s'.emr = s.emr
       /\ s'.ptr = Reached(s, Coming)]_vars

\* A latched request is never lost: it goes by being served when none of
\* higher priority is enabled, by the EXT1 drop of an emr write, or by reset.
RequestsKept ==
  [][\A v \in s.pending \ s'.pending :
        \/ v \in s.emr /\ \A u \in Enabled(s) : v <= u
        \/ v = EXT1 /\ 0 \in s'.emr
        \/ s'.pending = {} /\ s'.pc = 0]_vars

\* The instruction behind a waiti executes in the step that wakes the core up,
\* before the interrupt that woke it is taken.
LatentFirst ==
  [][s.waiting /\ ~s'.waiting /\ s'.level = "INTERRUPT" => s.level = "INTERRUPT"]_vars
=============================================================================
