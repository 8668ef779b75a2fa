# A verification project for the DSP3210 SDK

The SDK is an instruction-set emulator of the AT&T DSP3210 (`src/dsp3210emu`),
an assembler (`src/dsp3210asm`), a disassembler (`src/dsp3210dis`) and the tests
that tie the three together (`src/toolchain-tests`).  This directory holds TLA+
models of it, the TLC instances that check them, and theorems about them that
TLAPS proves.  All definitions are taken from the code; what a document or a
comment says is used only to state what the code should do.

## 1. Inventory

| Component | State it keeps | Operations | Modelled |
|---|---|---|---|
| Instruction sequencer, exceptions (`dsp3210_emu.c`) | pc/npc, irsh and prefetch, do-loop, level, pending, emr, pcw, pins, pipes, shadow registers | `dsp3210_step`, `dsp3210_reset`, `dsp3210_request_interrupt`, `dsp3210_ext_pulse` | `Sequencer` |
| Data memory, DA store shadow (`dsp3210_emu.c`) | `mem`, `chip`, `da_wr[4]` | `mem_read`, `mem_write`, `da_shadowed_write`, `latency_tick`, `dsp3210_poke`, `dsp3210_load` | `StoreShadow` (partly) |
| Run loop (`dsp3210emu.c`, `run_apps.c`) | `icount` | call `dsp3210_step` until a status or the limit | `SequencerLive` |
| DA operands (`dsp3210_dau_*.inc`) | pointers, accumulators, pipes, DAU flags | `da_read`, `da_store_z`, `exec_da`, `exec_da_special` | `DataPath` |
| CAU arithmetic (`dsp3210_emu.c`) | registers, CAU flags | `alu_op`, `cond_eval`, `exec_move`, `ca_postmod` | `CauArith`, `DataPath` |
| Exact DAU (`dsp3210_dau_exact.inc`) | none: functions | normalise, pack, multiply, add, convert | `DauExact`, `DataPath` |
| Approximate DAU (`dsp3210_dau_double.inc`) | none | the same on host doubles | no: host floating point |
| Assembler (`dsp3210_asm.c`) | symbol table, location counter, output | `dsp3210_assemble`: two passes over the lines; `dsp3210_encode`: a statement's word | `Assembler`, `InsnEncoder` (partly) |
| Disassembler (`dsp3210_dis.c`) | none: a function | word to text, notes for tracers | `Disassembler` |
| Toolchain tests (`roundtrip.c`, `run_apps.c`) | the words and texts of a round trip | disassemble, assemble, compare | `RoundTrip` |
| Command line tools | none | arguments and files | no: I/O |

**How they interact.**  The host owns the memory and calls the core one
`dsp3210_step()` at a time; nothing runs concurrently inside the core.  What
makes it hard is that the host may call anything between any two steps, and that
one step does a great deal: it ticks the pins, wakes a sleeper, recognises an
interrupt, replays or fetches, ages the pipes, prefetches, executes, raises an
error in the middle of that, and takes a loop's back-edge afterwards.  DA
instructions reach memory through the store shadow, and the sequencer through
`take_error()`.  The assembler and disassembler share only the instruction
encodings with the core.

**The hard behaviours**, each listed in `PROJECT.json` at the line where it
bites:

* an interrupt between any two instructions: in a delay slot, at the end of a
  loop, behind a `waiti`, right after an `ireturn` (nothing lost, nothing
  executed twice, latencies counted in the program's own instructions);
* an error in the middle of a step: what has been written already, and what the
  step still does after it has been sent to the vector;
* a reset at any moment, pulses and requests while others are in flight;
* requests put off by delay slots, `dolock`, `waiti`, handlers: served in the end?
* DA stores of different sizes and alignments that overlap within the three
  instructions in which the core must not see them, and the fixed four slots;
* counters at their limits: `do_count`, the slots' ages, the pulse counters;
* state that exists twice: `pcw_locked` and `pcw[13]`, `irsh` and memory;
* two passes that must agree on a layout although they know different symbols,
  with a location counter that moves both ways and wraps;
* DA instructions that move pointers between their reads and their store, and a
  fault anywhere among them;
* numbers at the ends of their ranges: mantissas in [-2, -1) or [1, 2), an
  exponent that is also the mark of zero, integers in an accumulator's lane,
  carries that run backwards or around, short results in long registers;
* words that share a spelling, and spellings that share a word.

**What makes each component correct.**  Sequencer: an interrupt is invisible to
the base program; errors abort and stay dispatched; requests are not lost and
are served.  Memory: the core sees a DA store after exactly three more
instructions, hosts at once.  DA operands: order of reads, moves and stores.
CAU and DAU: agreement with arithmetic over the integers and rationals.
Assembler: both passes lay out alike, labels and constants have one value, the
image is defined and stays in its buffer.  Assembler and disassembler: words
survive the round trip.

## 2. Modules

```
BaseProgram  <-- refinement --  Sequencer  <-- EXTENDS --  SequencerLive
                                    ^  ^                        ^
                    SequencerProofs    MCSequencer <-- EXTENDS -- MCSequencerLive
                      ^         ^
        ExceptionProofs         TransparencyProofs

DelayedStores <-- refinement -- StoreShadow <-- EXTENDS -- MCStoreShadow
                                    ^
                                StoreShadowProofs

Assembler <-- EXTENDS -- MCAssembler
    ^
AssemblerProofs

CauArith, DauExact <-- EXTENDS -- DataPath <-- EXTENDS -- MCDataPath
        ^                           ^  ^
ArithmeticProofs <-- EXTENDS -- DataPathProofs
                                       | INSTANCE
                              RoundTripMeaning <-- EXTENDS -- MCRoundTrip, RoundTripProofs
                                       | EXTENDS
Disassembler <-- InsnEncoder <-- RoundTrip
```

### Sequencer

The record `s` is `struct dsp3210_emu`; fields that always travel together (the
accumulators, pipes, flags, pin bits and the loop, which `take_interrupt()`
saves and `do_ireturn()` restores) are the record `s.ctx`, and their shadow
registers are `s.sh`.  Every C function that updates the struct is an operator
from record to record, and an action composes them in the order
of the code, so that one action is one whole call:

| Action | Path through the code |
|---|---|
| `StepHalted` | `dsp3210_step` at double error |
| `StepAsleep` | `pin_tick`, `latency_tick`, `STEP_WAITI` |
| `StepReplay` | pins, wake-up, no recognition; `irsh` executed; back-edge |
| `StepFetchFault` | pins, wake-up, recognition; the fetch raises an error |
| `StepExecute` | the same up to the fetch; advance, tick, prefetch, execute, back-edge |
| `Reset`, `RequestInterrupt`, `ExtPulse` | the calls of the host |

The operators `TakeError`, `TakeInterrupt`, `DoIreturn`, `MemAccess`,
`LatencyTick`, `PinTick`, `Exec`, `BackEdge`, `ResetState` are the functions, or
parts of functions, of those names.  `Ready` is the state in which a step comes
to choose between replay and fetch.

Data is abstract.  An instruction word is a record as `exec_insn()` decodes it;
whether an operand in memory is misaligned or unmapped is written in the word.
Of the registers r1, r20 and evtp remain; one accumulator whose next value is
any function `Dau` of its live value and the one three instructions back; one
DAU flag.  The pointers of memory operands are one value `ptr`, which the
operand's field moves by any function `Move`: so the model has which operands
have moved their pointer, and in which order, and leaves open where it points.  Programs are constants: a set of named memory contents, one function
from addresses to words per memory map.  Programs do not modify themselves,
addresses do not wrap.

### BaseProgram

What a program at base level relies on, in ten variables and three actions:
its instructions execute in sequence, with delayed branches, hardware loops and
latencies; it sleeps in `waiti`; the host may restart it.  It has no interrupts,
handlers or shadow registers.  The refinement mapping in `Sequencer` shows the
base program through an interrupt: while a handler runs, its context is `s.sh`
and its next instruction is at `irshAddr`; from `ireturn` to the replay
the next instruction is still the one in `irsh`.  `Transparent` says that every
behaviour of `Sequencer` is, seen so, a behaviour of `BaseProgram`.

### SequencerLive

The run loop: `clock` turns over at every call of `dsp3210_step()`.  The only
fairness is that it does so for ever: a host that runs the core calls
`dsp3210_step()` in a loop.  Nothing is assumed about requests, about which
instruction comes next, or about calls that change nothing (a sleeping core).

### StoreShadow

Memory is a function from locations of the two arrays `mem` and `chip`; the
two memory maps are `MemPtr`.  One action is what one instruction does to
memory, tick included: `Other` (none, or a load), `CaStore`, `DaStore`, and the
host's `Poke` and `Reset`.  A load changes nothing, so it is the operator
`Load`, quantified over in `LoadsTheFront`.  A fetch fault ticks nothing and is
a stutter.  Operands are bytes in address order, so the byte order of `pcw[8]`,
used alike by every access, cancels.  Hooks switch the shadow off and are left
out; programs that write `pcw[10]` with stores in flight are left to the
extension planned below, because the shadow compares logical addresses.

### DelayedStores

The same memory as a pipe of four values per byte: the front is what the next
instruction reads, the end is what memory holds.  A DA store enters at the end;
a CA store or a poke is read at once, or behind the DA stores in flight to
that byte.  `Delayed` says that `StoreShadow` implements it.

### Assembler

The record `a` is the context `struct A` without its tokens: origin, location
counter `loc`, `hi`, pass, line, symbols and output.  `out` is a partial
function, so that a byte nobody wrote shows; a byte is the line that wrote it
and the number encoded there.  `ProcessLine` is one turn of the loop over lines
with all of `process_line()`; `SecondPass` is the turn of the loop over passes;
`Return` sets `*len`.  A `longjmp` from `fail()` ends the run with `result =
"err"`.  `seen` is an auxiliary variable: the counter before each line in pass
1.

The tokeniser is left out: a line is its labels and one parsed statement, names
are legal, an expression is a number plus at most one symbol minus at most one
other.  Of the instructions only conditional branches to labels remain, since
the others' words do not depend on the layout and all are one word long.

### CauArith, DauExact

Pure arithmetic.  `CauArith` has the CAU's adder and subtracter with their
flags, `cond_eval`, and what flags are worth (`Compares`, `Adds`); a width is
given by its sign bit, so that the same operators stand for the short and the
long paths of `alu_add` and `alu_sub`.  `DauExact` has the exact DAU's numbers:
unpacking, packing, normalisation, product, sum, negation, rounding, integers,
IEEE and companded codes.  Widths are constants (`WidthAssumption` relates
them), and the C code's loops are defined by what they reach: `NormAt` shifts
to where a mantissa is normal.  Alignment beyond `Reach` gives nothing, as
shifts by more than 62 places do in the code.

The C operator `&` is the constant `BitAnd`; the MC modules define it with the
community module `Bitwise`, and `BitAssumption` says the little of it that the
proofs use, which TLC evaluates for all operands of a run.  `BitOr` and `BitXor`
are defined by it.  `PowersAssumption` is the law of powers of two up to the
widest number and shift, evaluated likewise: the provers have no theory of
exponentiation.  `FloatWord`, `IeeeWord` and `IsAcc` are the sets of what a
memory word and an accumulator may be.

### DataPath

What a data instruction does to registers, pointers, accumulators, pipes, flags
and memory.  `Step` ticks the pipes and executes one instruction of a short
program: `ExecDa` (formats 1-4), `ExecDaSpecial` (format 5), `ExecAluReg`,
`ExecAluImm`, `ExecAdd3`, `ExecShiftOr`, `ExecSet24`, `ExecLoad`, `ExecStore`,
and the decisions of the conditional and counting branches.  Each follows the
order of its C function: reads and movements of X and Y, the result, flags, the
accumulator, then Z.  An error by a bus access ends the program, where
`Sequencer` would go to the vector; UV and NAN are masked and only noted in
`d.raised`.

A cell of memory holds one datum of the size and type it is used with;
addresses are aligned, and DA stores are seen at once: `StoreShadow` has their
delay, `Sequencer` the control around the instructions.  The initial states are
families of states and programs, `Starts`, so that properties about one
instruction see every operand, and those about idioms (there and back, a sweep
over a buffer) see a whole program.  `StartsAssumption` asks that the states are
states of the core (`StateOK`) and the instructions `WellFormed`: fields name
registers and accumulators that exist.  `Typed` is the one thing a program has
to see to, since a cell holds one datum: that it reads memory as what is there.
It is a conjunct of `TypeOK`, so the run checks it of its own programs, and a
hypothesis of the theorems.

### Disassembler, InsnEncoder

`Disassemble` maps a word, which is the record of its fields, to a text, and
`Encode` a text to a word.  A text is a tuple with the kind of the statement and
the operands as they are spelled: which of two registers comes first, whether a
number carries a sign or is printed as 32 bits or in decimal, whether `+n` is
printed as a `1`.  Two texts are equal when the strings are.  Words with a
placeholder in their text, or a status other than OK, are `Unclear`, and
statements the encoder rejects are `Refused`.  `Notes` are `is_branch`,
`target` and `no_delay_slot` of `dsp3210_insn`.  Bits of a word that no field
names are left out, as is the wording of reserved words.

`InstructionWord` is the set of all words, format by format; an opcode that is
illegal or reserved is one word.  The widths of immediates are the constants
`Half`, `Far`, `Long` and `WordBits` (2^15, 2^24, 2^32 and 32 on the chip), and
`FieldWidths` says of them what the code's ranges need.  Where the code tests one
case after the other, the arms of a `CASE` exclude each other: TLA+ leaves open
which of two arms that overlap is taken, and TLC's habit of taking the first
would hide that from a run, though not from a proof.

### RoundTrip

`fuzz_word()` of `roundtrip.c`: a word is dumped, assembled, and dumped
again (`Dump`, `Assemble`), once more than the test does.  Besides the words'
spellings the model compares what the core does with them: jumps by `Control`,
here, and data in `RoundTripMeaning`, which instantiates `DataPath` on the same
records.  The two are apart because words and texts have immediates of any
width and registers of any code, and only their meaning needs the numbers of
the core.  `DataAssumption` says that the two fit: a data instruction that is
printed cleanly names registers the core of the instance has.

## 3. Runs

| Run | Instance | Question | States |
|---|---|---|---|
| `transparency` | 100 programs: any two of ten words in an endless loop, EXT0 and EXT1 free | is an interrupt ever visible? | 252,012 |
| `errors` | 648 programs: twelve set-ups, nine faulty words, three error handlers, address errors enabled or not | the exception machinery | 221,851 |
| `host` | three programs, reset with two straps, pulses of 0 and 2 slots | reset and pins at any moment | 138,602 |
| `liveness` | six programs with loops, `dolock`, branches, `waiti` | served? getting on? | 29,654 |
| `shadow` | two bytes of memory, a one-byte window that the maps place differently, byte and misaligned word DA stores | a DA store hidden for three instructions and no more? | 44,704 |
| `assembler` | the 46,656 sources of three lines out of 36, two origins, 16 addresses, 12 bytes of output | do the passes agree, is the image right? | 351,785 |
| `datapath` | twenty-two families of states and programs, mantissas of 3 + 2 bits, exponents of 4, registers of 6 | are results the numbers they stand for? | 189,828 |
| `roundtrip` | 52,479 words of all formats, immediates of 4, 6 and 8 bits for 16, 24 and 32 | do words survive the assembler? | 238,642 |
| `hooked`, `tap`, `underflow`, `aliases` | one program, or one family of the two runs above | see Findings | violated |

What the properties say:

* `Transparent` - the refinement of `BaseProgram` above.
* `Tame` - what the programs of that refinement are: no hooks, one memory map,
  and the word the core comes to is one of a base program at base level and one
  of a handler behind an interrupt, neither of which raises an error.  A handler
  leaves r1, `pcsh` and the pointers, which the base program keeps, as they are,
  and does not execute the word at which the base program's live loop ends.  It is an invariant
  of the run because the theorem about `Transparent` assumes it.
* `StallBounded` - a core whose fetches fault is not stepped for ever with
  `icount`, which run loops wait for, standing still: three such steps end in a
  double error.
* `LoopCounted` - `do_count` is not zero in a live or saved loop, so that the
  unsigned decrement never wraps.
* `LockShown` - `pcw_locked` implies `pcw[13]`.
* `DispatchSticks` - after an error, wherever in the step, the step leaves the
  core at the vector with r20 = aborted pc + 8.
* `AbortKeepsRegisters` - an instruction that raises an error has written neither
  r1, evtp nor emr, and has moved exactly the pointers of the operands it had
  accessed by then (`Reached`): X's if Y faults, those of X and Y if Z does, and
  also Z's if the error was UV, which does not end the instruction.
* `RequestsKept` - a latched request goes by being taken in priority order, by
  the EXT1 drop of an emr write, or by reset.
* `LatentFirst` - the instruction behind `waiti` comes before the interrupt.
* `RequestServed`, `BaseProgresses` - liveness, under the run loop.
* `SlotsSuffice` - live slots differ in age, and a store always finds a free one.
* `LoadsTheFront` - a load returns the front of the pipe of each byte.
* `Delayed` - the refinement of `DelayedStores`.
* `PassesAgree` - pass 2 finds each line where pass 1 had it.
* `ConstantsAgree` - what `.equ` evaluates to in pass 2 is what the symbol is.
* `BranchesLand` - the core computes, from the branch's word, the address at
  which the labelled line was assembled.
* `ImageDefined` - all `len` bytes that the caller reads have been written.
* `WithinCapacity` - and none beyond the buffer.
* `SumTruncates` - a multiply/accumulate differs from the exact sum of its two
  terms by less than a unit, and always downwards (but for terms shifted out).
* `RangeJudged` - V, N, saturation and vector 5 follow from the exact sum and
  the range of an accumulator; Z and the flush to zero from the exact sum as far
  as the alignment keeps it (`FlooredSum`).  The family `Cancels` shows why: two
  terms one exponent apart that nearly cancel leave a sum which the alignment
  cuts by up to one of its units, and that may be the difference between the
  smallest exponent and zero.  Terms further apart than the adder's `Reach` are
  excluded: one of them is shifted out.
* `RoundsToNearest` - `round` is to the nearest word, ties upwards.
* `IntegersRoundTrip`, `CodesRoundTrip` - conversions there
  and back, through memory and through an accumulator's lane, lose rounding and
  saturation and nothing else (bytes in the linear format); a word comes back
  from IEEE, but for those IEEE has no normal number for, and a companded byte
  decoded and encoded by one law as a byte of the same value.
* `SeedIsClose` - a number times its seed is within [1, 9/8], from where
  Newton's iteration converges.
* `InPlaceSweeps` - conditional loads through p = 15 walk over a buffer in step,
  stores withheld or not, at any address and around the end of the address
  space: every word up to the first that is not mapped is repacked, replaced by
  the accumulator or kept, and no other word of memory changes.  In the run a
  word of the buffer has an exponent of zero and a mantissa other than zero,
  which repacking changes.
* `AbortKeepsState` - what an instruction that meets a bus error has changed,
  exactly: at X, or as a load or a store, nothing; at Y, the pointer of X; at Z,
  all that the same instruction without a store changes (`Unstored`), with the
  pointers moved in the order X, Y.
* `ConditionsCompare`, `SumsAreExact` - after subtractions and comparisons the
  conditions order the operands, signed and unsigned; additions and rotations
  to the left are exact with their carry.  Where the result is looked at, it has
  to be kept: one whose destination is r0 is discarded.
* `RotatesBack`, `ReverseCarrySweeps` - rotations undo each other; a
  reverse-carry addition visits an FFT's table in bit-reversed order.
* `MovesCarry` - a load and a store carry a datum of any type through a
  register, also through the pointer that moves in the same instruction.
* `SpellingKept` - every cleanly printed word is accepted, its spelling comes
  back, and its word is a fixed point.
* `ControlKept`, `MeaningKept` - the word that comes back jumps, loops and
  computes alike, with the exceptions listed below.
* `NotesTellJumps` - the disassembler's notes name where the core goes, and
  which word has no delay slot.

**Bounds.**  Sequencer programs loop over two free words, followed by a DA
instruction and a branch with a delay slot: the longest thing that has to be
remembered, the four-deep flag pipe, is shorter than one turn with its handler.
Handlers use the accumulator, start a loop of their own and return, one through
a `goto`, one directly.  Loops run up to three times, so that a back-edge is
both taken and not taken after an interrupt.  Accumulators have three values
(so that pipe stages differ), of which one sets the flag; in the `errors` run,
which is not about values, `Dau` is constant.  Pointers have four values and two
movements that do not commute, and the faulty words fault at X, at Y and at Z,
with UV raised before Z or not, so that every set of movements, and their order,
leaves another value.  Pulses of 0 and 2 slots are the
two branches of `dsp3210_ext_pulse`, and counting down.  In the `errors` run
programs that leave mapped or aligned words keep interrupts masked, since a
stream of interrupts would walk the core through unmapped memory without end.
In the `shadow` run two bytes suffice for two
stores to overlap in part and in full, and two values to tell which of two
stores a load sees; slots of every age, and every order of stores within the
window, occur.

In the `assembler` run three lines hold a definition, a use that moves the
counter and code behind it, in every order; the address space is four words, so
that a counter started at the upper origin reaches the end and wraps; the
capacity is one word short of it, and the table holds two of three symbols, so
that a third definition is one too many.

The widths of `datapath` are small, but guard bits, fraction bits, the integer
part of a product, three widths of integers and exponents at both ends of the
range remain different things (`WidthAssumption` has the inequalities).
Conversions and roundings start from every accumulator, the ALU from every
value of its first operand; sums take the mantissas next to a power of two and
exponents at both ends and in the middle, with alignments below and beyond
`Reach`.  Programs of repeated instructions are as long as a buffer and one step
more, or as a whole FFT table.

`roundtrip` keeps the register codes that disassembler or assembler treat apart,
every size and ALU function, the conditions `true` and `false`, others and a
reserved one, special functions of each store size, and all values of the narrow
immediates, so that the ranges of `fits_s16`, `u16of` and `u24of` meet their
ends.  Both spellings are executed on twenty states of the core, those of DA
instructions on four.

Deadlock is checked in every run of `Sequencer` and `StoreShadow`, where the
host's calls and `StepHalted` keep the model enabled.  The other models stop
when the assembler has returned, the program is at its end, or the round trip is.

**Fairness.**  `SequencerLive` assumes `WF_clock(Tick)` only: the run loop of
`dsp3210emu.c` calls `dsp3210_step()` until its limit, here for ever.  Requests,
pulses and resets are never assumed to happen, nor is it assumed which
instruction comes next.

## 4. Findings

Four disagreements between the code and what is said of it; `PROJECT.json`
quotes both sides.

1. `hooked` - the prefetch and the read for `irsh` bypass `read_fn`, so under
   hooks every interrupt makes the base program skip an instruction.
2. `tap` - a tap of the accumulator that the instruction writes stores the
   result, not Y (the approximate DAU stores Y).
3. `underflow` - a result whose exponent is exactly 0 becomes zero without U
   and without vector 5, since `da_flags` takes it for zero first.
4. `aliases` - a Z field that names Y's pointer directly is reassembled as
   p = 15, which stores at the address before Y's movement.

Other divergences are part of the models, and the properties above hold with
them:

* a DA instruction reads X, then Y, then stores Z (`dsp3210_dau_exact.inc:803-854`,
  with a comment that gives the hardware for its reason), where the emulator's
  README (lines 189-191) says Y, X, Z and that the order decides the result when
  one pointer moves in several fields.  `AbortKeepsState` and
  `AbortKeepsRegisters` tell the two orders apart by what a fault leaves, and
  `SumTruncates` by what is summed, on the family `Shared` of one pointer in both
  fields: all three hold of the order X, Y, Z, and fail of the other
  (in `DataPath`, of `ExecDaYFirst`);
* `irsh` is not always the word "under the memory map in force while the
  previous instruction executed": after a replay, or a back-edge, memory is read
  again, under the new map; and an interrupt at an unmapped pc turns the coming
  bus error into a nop;
* an instruction aborted by a DAU overflow error still writes its accumulator
  and Z, and moves Z's pointer;
* a store across the end of memory writes its first bytes before it raises the
  bus error;
* an image that ends at the last address is reported one byte too short;
* a subtraction of an immediate or of 1 may be reassembled as an addition,
  which leaves the complement of the carry, if its condition holds
  (`TurnsIntoAddition`, `Takes`);
* a store through Y's pointer, printed like one through Y's address, comes back
  as the latter; they differ once Y has moved (`StoresBehindY`);
* format 8a with a displacement of 0 loses it in print, and through `pcsh` it
  comes back as `ireturn` (`ZeroDisplacement`);
* alignments beyond 62 places give 0 instead of -1 unit, as the emulator's
  README says.

## 5. Proofs

Eight modules are checked by TLAPS, for every value of the constants that
satisfies the named assumptions of the modules.

| Module | Theorems about properties of the runs |
|---|---|
| `SequencerProofs` | `TypeOK`, `StallBounded`, `LoopCounted`, `LockShown` |
| `ExceptionProofs` | `DispatchSticks`, `AbortKeepsRegisters`, `RequestsKept`, `LatentFirst` |
| `TransparencyProofs` | `Transparent` |
| `StoreShadowProofs` | `TypeOK`, `SlotsSuffice`, `Delayed`, `LoadsTheFront` |
| `AssemblerProofs` | `PassesAgree`, `WithinCapacity`, `ConstantsAgree`, `ImageDefined`, `BranchesLand` |
| `DataPathProofs` | `TypeOK`, `AbortKeepsState`, `ConditionsCompare`, `SumsAreExact`, `RotatesBack`, `MovesCarry`, `SeedIsClose`, `RoundsToNearest`, `IntegersRoundTrip`, `RangeJudged`, `SumTruncates`, `CodesRoundTrip`, `InPlaceSweeps`, `ReverseCarrySweeps` |
| `RoundTripProofs` | `SpellingKept`, `ControlKept`, `MeaningKept`, `NotesTellJumps` |
| `ArithmeticProofs` | the arithmetic behind those of `DataPathProofs` |

**Sequencer.**  Assumptions: programs consist of instruction words at natural
addresses; `Dau` maps pairs of accumulator values to accumulator values, and `Move` pointers
to pointers; the
host requests vectors, slots and straps of their types.  `TypeCorrect` goes
operator by operator: one lemma per C function says that it maps a state to a
state.  `StallsAreBounded` needs that
a non-maskable error is taken except at double error, and that each stalled step
therefore raises the level or leaves it at ERROR with the type of the error
recorded.  `LoopsAreCounted` and `LocksAreShown` are inductive with the types;
each lemma about an operator says what it does to the fields these invariants
mention.

**Exceptions.**  The action properties compare the two ends of a step, in the
middle of which the core may raise several errors.  So each C function is given
a relation between the state it is called in and the one it leaves: it passes
(`Passed`), the core is dispatched to an error vector (`Raised`), or it is at
double error (`Stopped`).  The three compose (`FaultedTransitive`): an error
behind an error is dropped, dispatched in turn with the same pc behind it in
r20, or a double error.
`BackEdgeOutcome` is the lemma the design turns on: a dispatch ends the loop, so
the back-edge at the end of the step finds nothing to redirect.  `ReadyOutcome`
says what a step has done before it executes anything: wake-up and recognition,
which move requests and the level.  `ExecDaPtr` follows the pointers through the
operands of a DA instruction, which may raise UV in their midst, and
`AbortsKeepRegisters` needs in addition that nothing but operands moves them.
With `IInv` of `SequencerProofs` the four
properties follow for the actions one by one.

**Transparency.**  `InterruptsAreTransparent` is `Transparent` for every set of
programs, every `Dau` and every host, from `[]Tame`: a program that is not tame
(hooks, an error, a handler that rewrites its return) is not transparent, so the
hypothesis has to be there, and the run checks it of its hundred programs.  The
inductive invariant is `Latched`: in a handler, `pcsh` is behind the displaced
instruction; with a replay pending, so are pc and npc; the displaced word is the
one memory has at `irshAddr`; and a prefetch is the word at its address.  The
context needs no invariant, since `s.sh` holds it all and the handler's words
leave it alone.  One lemma per word of a handler says that it moves nothing the
refinement mapping shows (`Steady`), one per word of the base program that it
does to the context what `BaseProgram` says; a step that enters, runs or leaves a
handler is a stutter, and one at base level or of the replay a step of
`BaseProgram` (`BaseStep`).  The last conjunct of `Tame` was found by this proof: a
handler's word at the address where the base program's loop ends, once that loop
is live again behind `ireturn`, takes the base program's back-edge.

**StoreShadow.**  Assumptions: sizes are natural, operands are of 1, 2 or 4
bytes, data are vectors of bytes.  `FourSlotsSuffice` is not inductive by
itself: the strengthening is that live slots differ in age
(`Distinct`).  A tick keeps ages apart and takes 3 out of use, so four slots
share three ages and one is free; the store then takes the free slot with age 3.
`ShadowTypeCorrect` comes with it.

**The refinement of DelayedStores.**  The refinement mapping reads the pipe of a
byte off the shadow: what the i-th next instruction will read is told by the
slot of least age among those that hide the byte that long, and by memory when
there is none (`ComingOf`); how many stores deep the byte is hidden is the
greatest age (`InFlightOf`).  No invariant beyond `Distinct` and the types is
needed, since `Distinct` makes "the slot of least age" one slot.  The lemmas then
follow the code of one instruction: a tick shifts every pipe by one
(`TickedComing`, `TickedInFlight`); memory written elsewhere leaves a byte's pipe
alone (`ComingElsewhere`); a DA store gives the slot the overlay's bytes, which
are the front of the pipe after the tick, and so changes its end only
(`NewSlot`, `ShadowingAt`); a CA store or a poke is read at once, or behind the
stores in flight (`StoringAt`, `PokedAt`).  `StepPipe` has one case per action
of `StoreShadow`, each a step of `DelayedStores` or a stutter, and
`StoresAreDelayed` combines it with `InitPipe`.  `LoadsSeeTheFront` is about the
overlay alone.

**Assembler.**  Assumptions: sources are sequences of well-formed lines, the
address space is a multiple of four, limits are natural.  That the passes agree
is not inductive: pass 1 has to know of a pass it has not begun.  The
strengthening (`Remembered`) keeps, for every line behind it, what pass 2 is
going to do with that line (`Replays`): from the same address, under any symbol
table that extends the present one, it ends at the address at which pass 1 left
it.  Symbols are only added, so this survives the rest of pass 1
(`ReplaysLater`); that it holds when the line is processed is
`StatementReplays`, statement by statement: whatever moves the counter is
evaluated from defined symbols alone or has a fixed size. `PassesAlwaysAgree`
follows by replaying line after line.  `NeverBeyondCapacity` comes with
`EmitFacts`.

**The image.**  `ImageInv` strengthens the invariant of the passes by what they
have laid down (`Laid`): symbols have the values that pass 2 would give them
again, and labels the addresses of `seen` (`SymbolsHold`); in pass 2 every byte
below `hi` is written, and the counter never exceeds `hi` (`DenseIn`); every
byte in `out` is tagged with a line already processed and, if that is a branch,
with the displacement the line's address asks for (`Tagged`).  That nothing is
evaluated differently in pass 2 than in pass 1 comes from `PassesAgree`, and
that a backward `.org` overwrites but does not undefine from `EmitLays`.
`BranchesAlwaysLand` needs that the four bytes of a word which one line wrote
are that line's word (`WordOfByte`), since a later line may have overwritten
others.

**Round trip.**  Assumptions: `FieldWidths`, that is, a short immediate fits
into a far one and that into a word, words are a multiple of the short
immediates' range, and so is that range of the number of bits, all of which
16, 24 and 32 bits satisfy; and the families of words to begin with contain
instruction words.  The theorems are about all of `InstructionWord`, where the
run takes 52,479 words at 4, 6 and 8 bits.  `Kept` is what the properties ask of
a word and `WordKept` says that every word that prints cleanly is kept; it is
proved format by format, down to one lemma per row of the encoder's tables
(`AddKept`, `SubKept`, `ImmShiftKept`, `TapSumKept` ...).  Most of them follow
one pattern (`SpelledAlike`): encoding the text gives a word, possibly another
one, whose text is the same; so the second trip ends at that word again, and
nothing has to be said of a third.  What signs and ranges do is in `Signs`,
`Wraps` and `TargetKept`.  The inductive invariant (`Way`) lists the six states
on the way of a word of the families.  `NotesAreRight` is about each word alone.

`MeaningIsKept` takes further assumptions: `SameWidths`, that the core has the
words of the texts, with two bits at least in a short one, and `DataAssumption`.
`Kept` says which word another comes back as (`Alias`), and that is the same
word or one of a dozen pairs; for each the core is run on both words side by
side.  `CaMeans` has the pairs of the CA arithmetic: sums commute
(`AddCommutes`), a subtracted number is its complement added, with all flags
but the carry (`AddsComplement`), and shifts look at an immediate's low bits
(`ImmediatePlaces`).  `DaMeans` and `SpecialMeans` need that both words read,
move and sum alike (`SumsAlike`) and what `BeforeStore` says of the state their
stores find; `StoreMeans` compares the stores.  The proof sharpened the property:
`Agree` had left open whether a subtraction turned into an addition complements
the carry, and now says that it does exactly if its condition holds.

**Arithmetic.**  `ComparisonsDecide` and `AdditionsAreExact` need no assumption
but that the sign bit is a positive number: they hold for the 16 and 32 bits of
the chip, where `datapath` checks 4 and 6.  `LowCases` reduces the sums and
differences of two words; the rest is the case split on the operands' signs.
The rest of `ArithmeticProofs` derives from `PowersAssumption` what shifts,
alignments and roundings need: powers grow, divide and split, and a quotient
rounded by each mode is within its bounds.  Induction is by the absence of a
least counterexample (`Least`), which needs no theorem with an operator for a
parameter.

**DataPath.**  Assumptions: `WidthAssumption`, `PowersAssumption` and
`BitAssumption` of `DauExact`, `RegAssumption` (codes 0, 22 and 23 are no
registers) and `StartsAssumption`; and, except for `AbortedInstructions`,
`[]Typed`.  The invariants are built one on the other: `Inv0` has the shape of
the struct and of the program, `Inv1` the registers, `Inv2` the types of
everything (`Typing`), and `Inv3` says of a program of one or two instructions
where on its way it is (`Way`), as the state it started from with each
instruction executed so far.  `Inv4` and `Inv5` do so for programs that repeat
one instruction, whatever their length: what the start has become after m
repetitions (`Sweeping`, `Visiting`).

* `AbortedInstructions` follows the order of reads, movements and stores of each
  C function, and needs `Inv0` only.  `DaEnds`, `UnstoredDa` and
  `ConversionUnstored` bring an instruction and its form without a store to the
  same point, where only `Finish` is left.
* `AccumulatorsNormal`: that every DAU operation leaves a normal number in range
  rests on the shift that normalises a mantissa: it exists (`NormalShift`), is
  one only (`NormalOnce`), and lies so that the number's place is kept
  (`NormAtIs`).  Products and aligned sums have bounds that put it in reach,
  `DaRange` puts exponents in range, and a companded code of least distance
  exists.
* `ConditionsMeanComparisons`, `SumsOfOperands`, `RotationsUndone` and
  `DataCarried` bring the arithmetic to the operands as an instruction reads
  them and to the registers as it leaves them, through `Low`, the short forms
  and the flag pipe.
* `SeedsConverge`, `RoundingNearest` and `IntegersComeBack` compare with the
  definition of the conversion as a quotient (`Judged`) what the code does by
  shifts, masks and offsets; for integers also that writing to an accumulator's
  lane and reading it is one (`ToTop`, `TopBits`).
* `SumsJudged`, for terms within the adder's reach of each other: an aligned sum is the floor of the exact sum in the alignment's
  unit (`SumError`); the shift that normalises it tells between which powers of
  two it lies (`PlaceOf`, `LessPlace`); and a floor does not cross a power at
  which overflow is judged (`FloorLess`).  The first form of `RangeJudged`, which
  judged zero by the exact sum itself, could not be proved, and turned out to be
  false; the run's operands had not shown it.
* `SumsTruncated` adds the two truncations, of a term aligned and of the sum cut to
  a mantissa, in common units (`TermPlaces`, `ScaledTwice`, `SumLoses`).
* `CodesComeBack`: packing as IEEE and unpacking move the mantissa's sign and
  hidden bit and shift the rest by as much there as back, so that only the
  exponent decides; of the companded codes the nearest to a number that is a
  code's value is a code of that value (`CompandedCode`).
* `SweepsInPlace`: a word that is met again, because the buffer goes around the
  address space, has been repacked already, and repacking it once more changes
  nothing (`RepackTwice`).
* `TablesVisited`: numbers are compared bit by bit (`SameBits`).  The recursive
  function of `BitRev` gives the bits in reverse (`Reversed`), so it undoes
  itself and takes one power of two to another, and after m additions the
  register is the reverse of a multiple of that power (`MultipleBits`).

**Checked by TLC only**: liveness (`RequestServed`, `BaseProgresses`) and ENABLED,
which are out of TLAPS' reach.

## 6. Plan

`StoreShadow` with a program's own writes of `pcw[10]`, and composed with
`Sequencer` so that the windows meet interrupts.

**Not modelled.**

* The approximate DAU's arithmetic: host floating point.  Its order of reads and
  stores is that of the exact one.
* Command line tools, listings, tracing and the wording of messages: I/O.
* The assembler's tokeniser, and its diagnosis of statements the disassembler
  never writes.
* `dsp()` of an accumulator, whose packed word is taken apart as IEEE bits; the
  conversions from and to host doubles.
* Alignment and byte order in `DataPath` (`StoreShadow` has both), enabled UV and
  NAN in it (`Sequencer` has their dispatch), conditions on pins and ports.
* Round trips of whole programs, and bits of a word that no field names.
* Modification of code by the program, in `Sequencer`.
