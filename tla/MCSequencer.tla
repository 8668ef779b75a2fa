---------------------------- MODULE MCSequencer ----------------------------
(***************************************************************************)
(* Instances of Sequencer for TLC: small programs, built word by word.     *)
(***************************************************************************)
EXTENDS Sequencer, TLC

NoFault == [mis |-> FALSE, bus |-> FALSE]

\* Operands: an accumulator, and memory at the pointers with a post-modification.
Direct     == [mem |-> FALSE, f |-> NoFault, i |-> "keep"]
At(j)      == [mem |-> TRUE, f |-> NoFault, i |-> j]
Misaligned == [At("step") EXCEPT !.f.mis = TRUE]
Unmapped   == [At("step") EXCEPT !.f.bus = TRUE]

I(o)          == [op |-> o]
SetReg(r, x)  == [op |-> "set", reg |-> r, v |-> x]
Goto(x)       == [op |-> "goto", base |-> "zero", off |-> x]
If(x)         == [op |-> "if", off |-> x]
Call(x)       == [op |-> "call", off |-> x]
Do(n, c)      == [op |-> "do", k |-> n, count |-> c, lock |-> FALSE]
DoLock(n, c)  == [op |-> "do", k |-> n, count |-> c, lock |-> TRUE]
Emr(x)        == [op |-> "emr", v |-> x]
Pcw(c, b)     == [op |-> "pcw", v |-> [comp |-> c, b13 |-> b]]
Load(o, j)    == [op |-> "load", x |-> o, v |-> j]
Store(o)      == [op |-> "store", z |-> o]
DaOf(o1, o2, o3) == [op |-> "da", x |-> o1, y |-> o2, uv |-> FALSE, z |-> o3]
Da            == DaOf(Direct, Direct, Direct)
Raising(w)    == [w EXCEPT !.uv = TRUE]

\* Two post-modifications that do not commute.
MCPtr  == 0..3
MCMove == [j \in {"keep", "step", "turn"} |->
             [p \in MCPtr |-> CASE j = "keep" -> p
                                [] j = "step" -> (p + 1) % 4
                                [] j = "turn" -> 3 - p]]

MCAcc    == 0..2
MCDau    == [p \in MCAcc \X MCAcc |-> (p[1] + p[2] + 1) % 3]
MCAccNeg == {2}
ConstDau == [p \in MCAcc \X MCAcc |-> 1]
NoStrap  == [comp |-> FALSE, b13 |-> FALSE]
MCStraps == {NoStrap, [comp |-> FALSE, b13 |-> TRUE]}

\* The same words in both memory modes.
Flat(words) == [m \in BOOLEAN |-> words]

\* Interrupt handlers at evtp + 8 * vector with evtp = 64: each disturbs the
\* accumulators, the flags, the pipes and the loop registers.
Handlers ==
  128 :> Goto(256) @@ 132 :> Da
  @@ 184 :> Da @@ 188 :> I("ireturn")
  @@ 256 :> Do(0, 2) @@ 260 :> Da @@ 264 :> I("ireturn")

\* A base program with two free words and an endless loop around them.
BaseCode(x, y) ==
  0 :> SetReg("evtp", 64) @@ 4 :> Emr({EXT0, EXT1})
  @@ 8 :> x @@ 12 :> y @@ 16 :> Da @@ 20 :> Goto(8) @@ 24 :> Da
  @@ Handlers

BaseWords ==
  { Nop, DaOf(At("turn"), Direct, At("step")), If(20), Goto(20), Call(16), Load(At("step"), 3),
    Do(0, 2), Do(1, 2), DoLock(0, 3), I("waiti") }

TransparencyPrograms ==
  [p \in BaseWords \X BaseWords |-> Flat(BaseCode(p[1], p[2]))]

HostPrograms ==
  [p \in {<<Do(1, 2), I("waiti")>>, <<Pcw(FALSE, TRUE), If(20)>>,
       <<Load(At("step"), 3), Nop>>} |->
     Flat(BaseCode(p[1], p[2]))]

-----------------------------------------------------------------------------
\* Error handlers: all vectors lead to a handler with one free word, which
\* ends in sftrst and goes back to the base program.
\* (Programs that leave the mapped or aligned words keep interrupts masked: a
\* stream of them would walk the core through memory.)
ErrorHandlers(h) ==
  72 :> Goto(288) @@ 76 :> Nop @@ 80 :> Goto(288) @@ 84 :> Nop
  @@ 96 :> Goto(288) @@ 100 :> Nop @@ 104 :> Goto(288) @@ 108 :> Nop
  @@ 288 :> h @@ 292 :> I("sftrst") @@ 296 :> Goto(8) @@ 300 :> Nop

ErrorCode(x, y, h, aerr) ==
  0 :> SetReg("evtp", 64)
  @@ 4 :> Emr(aerr \cup IF x.op = "goto" THEN {UV} ELSE {UV, EXT0, EXT1})
  @@ 8 :> x @@ 12 :> y @@ 16 :> Nop @@ 20 :> Goto(8) @@ 24 :> Nop
  @@ 128 :> (IF x.op \in {"goto", "sftrst"} THEN Nop ELSE x) @@ 132 :> I("ireturn") @@ 184 :> Nop @@ 188 :> I("ireturn")
  @@ ErrorHandlers(h)

Setups == { Nop, Do(0, 2), Do(1, 2), Emr({0, EXT0, EXT1}), Pcw(FALSE, TRUE),
            SetReg("evtp", 1000), SetReg("evtp", 66), I("waiti"), I("bkpt"),
            I("sftrst"), Goto(1000), Goto(18) }

Culprits == { Load(Unmapped, 3), Load(Misaligned, 5), Store(Unmapped), I("illop"),
              DaOf(Misaligned, At("turn"), Direct), DaOf(At("turn"), Unmapped, Direct),
              Raising(DaOf(At("turn"), At("step"), Unmapped)),
              Raising(DaOf(At("turn"), At("step"), Misaligned)), Pcw(TRUE, FALSE) }

ErrorPrograms ==
  [p \in Setups \X Culprits \X {Nop, Load(Unmapped, 7), Raising(Da)} \X {{AERR}, {}} |->
     Flat(ErrorCode(p[1], p[2], p[3], p[4]))]

=============================================================================
