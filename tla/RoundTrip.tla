----------------------------- MODULE RoundTrip -----------------------------
(***************************************************************************)
(* Disassembler and assembler on the same word: the round trip of          *)
(* roundtrip.c.  A word is disassembled, its text is assembled, and once   *)
(* more; w has the words so far and t their texts.                         *)
(***************************************************************************)
EXTENDS InsnEncoder

CONSTANTS
  Words,        \* families of words to begin with
  Addr          \* the address of the instruction

ASSUME WordsAssumption ==
  /\ \A family \in DOMAIN Words : Words[family] \subseteq InstructionWord
  /\ Addr \in 0 .. Long - 1

VARIABLES w, t

vars == <<w, t>>

\* dump_line() and fuzz_word(): a text that claims to be assembled again.
Clean(text) == text # Unclear

Dump ==
  /\ Len(t) < Len(w) /\ w[Len(w)] # Refused
  /\ t' = Append(t, Disassemble(w[Len(w)]))
  /\ UNCHANGED w

Assemble ==
  /\ Len(t) = Len(w) /\ Len(w) < 3 /\ Clean(t[Len(t)])
  /\ w' = Append(w, Encode(t[Len(t)]))
  /\ UNCHANGED t

Init == \E family \in DOMAIN Words : \E x \in Words[family] : w = <<x>> /\ t = <<>>
Next == Dump \/ Assemble
Spec == Init /\ [][Next]_vars

-----------------------------------------------------------------------------
(* What the core does with the words that branch.  exec_insn()'s jumps go  *)
(* to register rb, of which pc is the instruction's address + 8, and a     *)
(* displacement.                                                           *)

Jump(kind, c, rm, rb, n) == [kind |-> kind, c |-> c, rm |-> rm, rb |-> rb, disp |-> Mod32(n)]

Control(x) ==
  CASE x.op = "if" /\ Ireturn(x)  -> [kind |-> "ireturn"]
    [] x.op = "if" /\ ~Ireturn(x) -> Jump("goto", x.c, 0, x.rb, Sext16(x.n))
    [] x.op = "goto24"            -> Jump("goto", "true", 0, x.rb, x.n)
    [] x.op = "loop"              -> Jump("loop", "true", x.rm, x.rb, Sext16(x.n))
    [] x.op = "call"              -> Jump("call", "true", x.rm, x.rb, Sext16(x.n))
    [] x.op = "call24"            -> Jump("call", "true", x.rm, R0, x.n)
    [] x.op = "do" -> [kind |-> "do", lock |-> x.b, k |-> IF x.m THEN 0 ELSE x.k, isreg |-> x.isreg, l |-> x.l]
    [] OTHER                      -> [kind |-> "none"]

-----------------------------------------------------------------------------
(* Properties *)

\* Format 8a prints a displacement of zero, which the encoder drops.
ZeroDisplacement(x) == x.op = "goto24" /\ x.rb # R0 /\ x.n = 0

\* Whatever is printed cleanly is accepted, assembles to a word that is spelled
\* the same, and that word assembles to itself.
SpellingKept ==
  LET x == w[1] IN
  /\ Len(w) > 1 => w[Len(w)] # Refused
  /\ Len(t) > 1 /\ ~ZeroDisplacement(x) => t[2] = t[1]
  /\ Len(w) > 2 => w[3] = w[2]

\* Branches keep their target, condition, counter and link, and a loop its
\* bounds.
ControlKept ==
  Len(w) > 1 /\ ~(ZeroDisplacement(w[1]) /\ w[1].rb = PCSH) => Control(w[2]) = Control(w[1])

\* What the disassembler notes beside a text tells tracers where the core goes.
NotesTellJumps ==
  Clean(Disassemble(w[1])) =>
    LET x == w[1]
        n == Notes(x, Addr)
        c == Control(x)
    IN  /\ n.no_delay_slot <=> c.kind = "ireturn"
        /\ n.is_branch <=> c.kind \in {"goto", "loop", "call", "ireturn"} /\ ~Nop(x)
        /\ n.is_branch /\ ~n.no_delay_slot =>
             n.target = IF c.rb = R0 THEN {c.disp}
                        ELSE IF c.rb = PC THEN {Mod32(Addr + 8 + c.disp)} ELSE {}
=============================================================================
