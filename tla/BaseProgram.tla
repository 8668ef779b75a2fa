---------------------------- MODULE BaseProgram ----------------------------
(***************************************************************************)
(* What a program at base level may rely on: its instructions execute one  *)
(* after the other, each exactly once per visit, with the delayed branches,*)
(* the hardware loops and the DAU latencies counted in the program's own   *)
(* instructions, until the host restarts it.  There are no interrupts, no  *)
(* handlers and no shadow registers here: Sequencer implements this        *)
(* specification while it takes interrupts between any two of its steps.   *)
(***************************************************************************)
EXTENDS Integers, Sequences

CONSTANTS Acc, Acc0, Dau, AccNeg, Ptr, Ptr0, Move

VARIABLES
  text,       \* the words in memory: a partial function of the address
  pc, npc,    \* the next instruction and the one after it
  r1, ptr,    \* a general register, and the pointers to memory
  dau,        \* [a, flag]: the accumulator and its flag
  aPast,      \* aPast[k]: a before the last k instructions, k \in 1..3
  flagPast,   \* flagPast[k]: likewise, k \in 1..4
  loop,       \* the hardware loop
  doze        \* the last instruction was a waiti that has not woken up yet

baseVars == <<text, pc, npc, r1, ptr, dau, aPast, flagPast, loop, doze>>

Idle == [active |-> FALSE, lock |-> FALSE, start |-> 0, end |-> 0, count |-> 0]

\* Time passes: what was established becomes one instruction older.
Age ==
  /\ aPast' = <<dau.a, aPast[1], aPast[2]>>
  /\ flagPast' = <<dau.flag, flagPast[1], flagPast[2], flagPast[3]>>

\* Where control goes after the instruction w, past its delay slot.
Target(w) ==
  CASE w.op = "goto" -> (IF w.base = "r1" THEN r1 ELSE 0) + w.off
    [] w.op = "call" -> w.off
    [] w.op = "if" /\ flagPast[3] -> w.off
    [] OTHER -> npc + 4

Written(w) ==
  CASE w.op = "load" -> w.v
    [] w.op = "set" /\ w.reg = "r1" -> w.v
    [] w.op = "call" -> pc + 8
    [] OTHER -> r1

\* An operand in memory moves the pointers on; X comes before Y, Y before Z.
Past(p, o) == IF o.mem THEN Move[o.i][p] ELSE p
Pointed(w) ==
  CASE w.op = "load"  -> Past(ptr, w.x)
    [] w.op = "store" -> Past(ptr, w.z)
    [] w.op = "da"    -> Past(Past(Past(ptr, w.x), w.y), w.z)
    [] OTHER -> ptr

\* A DA instruction multiplies the value established three instructions back.
Computed(w) ==
  IF w.op = "da" THEN LET v == Dau[<<dau.a, aPast[2]>>]
                      IN  [a |-> v, flag |-> v \in AccNeg]
                 ELSE dau

Looping(w) ==
  IF w.op = "do" THEN [active |-> TRUE, lock |-> w.lock, start |-> npc,
                       end |-> npc + 4 * w.k, count |-> w.count]
                 ELSE loop

Execute ==
  /\ pc \in DOMAIN text
  /\ LET w    == text[pc]
         l    == Looping(w)
         atEnd == l.active /\ pc = l.end
     IN /\ IF atEnd /\ l.count > 1
             THEN pc' = l.start /\ npc' = l.start + 4
             ELSE pc' = npc /\ npc' = Target(w)
        /\ loop' = IF ~atEnd THEN l
                    ELSE IF l.count = 1 THEN Idle ELSE [l EXCEPT !.count = @ - 1]
        /\ r1' = Written(w)
        /\ ptr' = Pointed(w)
        /\ dau' = Computed(w)
        /\ Age
        /\ doze' \in (IF w.op = "waiti" THEN BOOLEAN ELSE {FALSE})
        /\ UNCHANGED text

\* While the program sleeps in waiti its pipelines go on clocking.
Sleep ==
  /\ doze
  /\ Age
  /\ UNCHANGED <<text, pc, npc, r1, ptr, dau, loop, doze>>

Init ==
  /\ pc = 0 /\ npc = 4 /\ r1 = 0 /\ ptr = Ptr0
  /\ dau = [a |-> Acc0, flag |-> FALSE]
  /\ aPast = <<Acc0, Acc0, Acc0>>
  /\ flagPast = <<FALSE, FALSE, FALSE, FALSE>>
  /\ loop = Idle
  /\ doze = FALSE

\* The host resets the core: nothing of the run before survives.
Restart == Init' /\ UNCHANGED text

Next == Execute \/ Sleep \/ Restart

Spec == Init /\ [][Next]_baseVars

\* A program that does not sleep goes on, whatever happens around it.
Progress == <>[](~doze) => []<><<Execute>>_baseVars
=============================================================================
