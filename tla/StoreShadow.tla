---------------------------- MODULE StoreShadow ----------------------------
(***************************************************************************)
(* The data memory of the DSP3210 core: the two memory maps, the accesses  *)
(* of executing code and of the host, and the four-slot shadow that hides  *)
(* the DA stores of the last three instructions from the core's own reads. *)
(*                                                                         *)
(* One action is what one instruction, or one call of the host, does to    *)
(* the memory.  Operands are bytes in address order, so the byte order of  *)
(* pcw[8] cancels; whether an address error is taken or masked (emr and    *)
(* the level, in Sequencer) is a free choice of each instruction.  No      *)
(* hooks are installed, and programs leave pcw[10] as the reset set it.    *)
(***************************************************************************)
EXTENDS Integers, FiniteSets

CONSTANTS
  Val,          \* byte values
  Data,         \* the operands stored: functions from 0..n-1 to Val
  MemSize,      \* mem_size: external memory is at 0 .. MemSize - 1
  Window,       \* the size of the on-chip window
  ChipBase,     \* where the window lies in processor mode
  DaOperands,   \* the operands of DA stores: <<address, size>>
  Operands,     \* those of other instructions, and of the host
  Straps        \* the maps the host resets with: TRUE is computer mode

ASSUME MemoryAssumption ==
  /\ MemSize \in Nat /\ Window \in Nat /\ ChipBase \in Nat
  /\ DaOperands \cup Operands \subseteq Nat \X {1, 2, 4}
  /\ \A v \in Data : \E n \in {1, 2, 4} : v \in [0..n - 1 -> Val]
  /\ Straps \subseteq BOOLEAN

VARIABLES
  mem,      \* the bytes of mem[] and chip[]
  comp,     \* pcw[10]: computer mode
  daWr,     \* da_wr[4]
  posted    \* auxiliary: the last instruction was a DA store that completed

vars == <<mem, comp, daWr, posted>>

Loc  == ({"chip"} \X (0..Window - 1)) \cup ({"mem"} \X (0..MemSize - 1))
Slot == 0..3
Vector(n) == [0..n - 1 -> Val]
Datum(n)  == Data \cap Vector(n)

\* A slot that is not live holds nothing anybody reads.
Free  == [live |-> FALSE]
Live(n) == [live: {TRUE}, addr: Nat, size: {n}, rem: 0..3, old: Vector(n)]
Entry   == {Free} \cup Live(1) \cup Live(2) \cup Live(4)

-----------------------------------------------------------------------------
(* The memory maps *)

Base(c) == IF c THEN 0 ELSE ChipBase
OnChip(c, x) == x - Base(c) \in 0..Window - 1
Mapped(c, x) == OnChip(c, x) \/ x < MemSize
MemPtr(c, x) == IF OnChip(c, x) THEN <<"chip", x - Base(c)>> ELSE <<"mem", x>>

Align(x, n) == x - (x % n)

\* The bytes raw_access() reaches: it goes up from the lowest address to the
\* first unmapped one.
Reach(c, x, n) == {i \in 0..n - 1 : \A j \in 0..i : Mapped(c, x + j)}
Whole(c, x, n) == Reach(c, x, n) = 0..n - 1

RawRead(x, n) == [i \in 0..n - 1 |-> mem[MemPtr(comp, x + i)]]

RawWrite(x, n, v) ==
  [l \in Loc |-> IF \E i \in Reach(comp, x, n) : MemPtr(comp, x + i) = l
                 THEN v[CHOOSE i \in Reach(comp, x, n) : MemPtr(comp, x + i) = l]
                 ELSE mem[l]]

-----------------------------------------------------------------------------
(* The shadow *)

TickedBelowZero(d) ==    \* mutant
  [e \in Slot |-> IF ~d[e].live THEN d[e] ELSE [d[e] EXCEPT !.rem = @ - 1]]
TickedForever(d) ==    \* mutant: a slot is not given back
  [e \in Slot |-> IF ~d[e].live \/ d[e].rem = 0 THEN d[e] ELSE [d[e] EXCEPT !.rem = @ - 1]]
Ticked(d) ==
  [e \in Slot |-> IF ~d[e].live THEN d[e]
                  ELSE IF d[e].rem = 0 THEN Free
                  ELSE [d[e] EXCEPT !.rem = @ - 1]]

Covering(d, x) == {e \in Slot : d[e].live /\ x - d[e].addr \in 0..d[e].size - 1}

NewestOf(d, E) ==    \* mutant
  CHOOSE e \in E : \A f \in E : d[e].rem > d[f].rem \/ (d[e].rem = d[f].rem /\ e >= f)
OldestOf(d, E) ==
  CHOOSE e \in E : \A f \in E : d[e].rem < d[f].rem \/ (d[e].rem = d[f].rem /\ e >= f)

Overlay(d, x, raw) ==
  [i \in DOMAIN raw |->
     LET E == Covering(d, x + i)
         e == OldestOf(d, E)
     IN  IF E = {} THEN raw[i] ELSE d[e].old[x + i - d[e].addr]]

\* The slot a store takes: the first free one, else the oldest.
SlotFor(d) ==
  IF \E e \in Slot : ~d[e].live
  THEN CHOOSE e \in Slot : ~d[e].live /\ \A f \in 0..e - 1 : d[f].live
  ELSE CHOOSE e \in Slot : \A f \in Slot :
         d[e].rem < d[f].rem \/ (d[e].rem = d[f].rem /\ e <= f)

Shadowed(d, x, n) ==
  [d EXCEPT ![SlotFor(d)] =
     [live |-> TRUE, addr |-> x, size |-> n, rem |-> 3, old |-> RawRead(x, n)]]

-----------------------------------------------------------------------------
(* Executing code: latency_tick(), then the accesses of the instruction.   *)
(* A masked address error lets an access go on, aligned down.              *)

Faults(o) == ~Whole(comp, Align(o[1], o[2]), o[2])

\* What an instruction that comes next and reads o gets.
Load(o) == Overlay(Ticked(daWr), Align(o[1], o[2]), RawRead(Align(o[1], o[2]), o[2]))

\* What a store leaves in memory, one that ends in a bus error included.
Store(o, v) == RawWrite(Align(o[1], o[2]), o[2], v)

\* An instruction that stores nothing: one without operands in memory, a load,
\* one aborted by an address error or by a fault of an operand it reads, or a
\* step asleep in waiti.
Other ==
  /\ daWr' = Ticked(daWr)
  /\ posted' = FALSE
  /\ UNCHANGED <<mem, comp>>

CaStore(o, v) ==
  /\ daWr' = Ticked(daWr)
  /\ mem' = Store(o, v)
  /\ posted' = FALSE
  /\ UNCHANGED comp

DaStoreAligned(o, v) ==    \* mutant: a misaligned store leaves no shadow
  /\ mem' = Store(o, v)
  /\ posted' = ~Faults(o)
  /\ daWr' = IF Faults(o) \/ o[1] % o[2] # 0 THEN Ticked(daWr)
             ELSE Shadowed(Ticked(daWr), o[1], o[2])
  /\ UNCHANGED comp
DaStore(o, v) ==
  /\ mem' = Store(o, v)
  /\ posted' = ~Faults(o)
  /\ daWr' = IF Faults(o) THEN Ticked(daWr)
             ELSE Shadowed(Ticked(daWr), Align(o[1], o[2]), o[2])
  /\ UNCHANGED comp

-----------------------------------------------------------------------------
(* The host *)

Poke(o, v) ==
  /\ o[1] % o[2] = 0
  /\ mem' = RawWrite(o[1], o[2], v)
  /\ UNCHANGED <<comp, daWr, posted>>

Reset(strap) ==
  /\ comp' = strap
  /\ daWr' = [e \in Slot |-> Free]
  /\ posted' = FALSE
  /\ UNCHANGED mem

-----------------------------------------------------------------------------
Init ==
  /\ mem \in [Loc -> Val]
  /\ comp = FALSE
  /\ daWr = [e \in Slot |-> Free]
  /\ posted = FALSE

Insn ==
  \/ Other
  \/ \E o \in Operands : \E v \in Datum(o[2]) : CaStore(o, v)
  \/ \E o \in DaOperands : \E v \in Datum(o[2]) : DaStore(o, v)

Host ==
  \/ \E o \in Operands : \E v \in Datum(o[2]) : Poke(o, v)
  \/ \E strap \in Straps : Reset(strap)

Next == Insn \/ Host

Spec == Init /\ [][Next]_vars

-----------------------------------------------------------------------------
TypeOK ==
  /\ mem \in [Loc -> Val]
  /\ comp \in BOOLEAN
  /\ daWr \in [Slot -> Entry]
  /\ posted \in BOOLEAN

\* No two live slots are of one age, so the order in which the overlay visits
\* slots of one age never matters, and the slot a store takes is always free:
\* no window is ever cut short (da_shadowed_write, da_shadow_overlay).
SlotsSuffice ==
  /\ \A e, f \in Slot : daWr[e].live /\ daWr[f].live /\ daWr[e].rem = daWr[f].rem => e = f
  /\ \E e \in Slot : ~Ticked(daWr)[e].live

-----------------------------------------------------------------------------
(* The memory as a pipe per byte *)

\* The address of location l under the present map, and the slots that hide it
\* from a load of that address.
AddressOf(l) == IF l[1] = "chip" THEN l[2] + Base(comp) ELSE l[2]
Hiding(l) ==
  IF MemPtr(comp, AddressOf(l)) = l THEN Covering(daWr, AddressOf(l)) ELSE {}

\* What the core reads at l in the i-th next instruction if nothing is stored.
Coming(l, i) ==
  LET E == {e \in Hiding(l) : daWr[e].rem >= i}
      e == CHOOSE e \in E : \A f \in E : daWr[e].rem <= daWr[f].rem
  IN  IF E = {} THEN mem[l] ELSE daWr[e].old[AddressOf(l) - daWr[e].addr]

InFlight(l) ==
  LET R == {daWr[e].rem : e \in Hiding(l)}
  IN  CHOOSE n \in R \cup {0} : \A r \in R : r <= n

\* The bytes of an operand, or of the part of it below an unmapped byte.
Reached == { {MemPtr(c, Align(o[1], o[2]) + i) : i \in Reach(c, Align(o[1], o[2]), o[2])} :
             o \in Operands \cup DaOperands, c \in BOOLEAN }

Pipe == INSTANCE DelayedStores WITH
  Targets <- Reached,
  pipe    <- [l \in Loc |-> [i \in 1..4 |-> Coming(l, i)]],
  behind  <- [l \in Loc |-> InFlight(l)]

\* A DA store is hidden from the next three instructions and no more, to the
\* byte, whatever the sizes, overlaps and alignments of the stores around it,
\* while the host (and a fetch) sees it at once (da_shadowed_write,
\* latency_tick, mem_write).
Delayed == Pipe!Spec

\* What a load returns is the front of the pipe of each byte it reads
\* (da_shadow_overlay, mem_read).
LoadsTheFront ==
  \A o \in Operands \cup DaOperands : ~Faults(o) =>
    \A i \in 0..o[2] - 1 : Load(o)[i] = Coming(MemPtr(comp, Align(o[1], o[2]) + i), 1)
=============================================================================
