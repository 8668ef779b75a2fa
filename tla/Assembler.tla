----------------------------- MODULE Assembler -----------------------------
(***************************************************************************)
(* The two passes of dsp3210_assemble() over a source text.  Pass 1 finds  *)
(* the addresses of the labels, pass 2 emits the bytes; what makes the     *)
(* result right is that both lay out every line alike, though pass 2 knows *)
(* all symbols and pass 1 only those of the lines above.                   *)
(*                                                                         *)
(* One action is process_line() on one line.  A line is a record: its      *)
(* labels and one statement.  Instructions are conditional branches to a   *)
(* label: the word of a branch depends on where it is.  An expression is a *)
(* number, plus one symbol, minus another.  A list in .word or .float is a *)
(* line for each of its words.  Names are legal, and lines well-formed.    *)
(***************************************************************************)
EXTENDS Integers, Sequences, FiniteSets

CONSTANTS
  Names,        \* what a source may call its symbols
  Sources,      \* source texts: sequences of lines
  Origins,      \* the argument org
  Cap,          \* the argument cap: the size of out
  Space,        \* the size of the address space, 2^32
  MaxSpace,     \* the largest .space
  MaxSyms,      \* MAX_SYMS
  BranchReach   \* displacements are in -BranchReach .. BranchReach - 1

None == ""      \* no symbol

Expr == [sym: Names \cup {None}, sub: Names \cup {None}, n: Int]
Statement ==
       [op: {"none"}]
  \cup [op: {"branch"}, e: {e \in Expr : e.sym # None}]
  \cup [op: {"word", "org", "space", "align"}, e: Expr]
  \cup [op: {"equ"}, name: Names, e: Expr]
Line == [labels: Seq(Names), st: Statement]

ASSUME AssemblerAssumption ==
  /\ None \notin Names
  /\ Sources \subseteq Seq(Line)
  /\ Space \in Nat /\ Space % 4 = 0 /\ Space > 0
  /\ Origins \subseteq 0..Space - 1
  /\ Cap \in Nat /\ MaxSyms \in Nat /\ BranchReach \in Nat
  /\ MaxSpace \in 0..Space - 1

VARIABLES
  src,      \* the source text
  a,        \* the context A
  result,   \* "none" until dsp3210_assemble() returns, then "ok" or "err"
  len,      \* *len
  seen      \* auxiliary: seen[k] is loc before line k in pass 1

vars == <<src, a, result, len, seen>>

Tag == [line: Nat, arg: Int]      \* a byte of out: the line that put it there

-----------------------------------------------------------------------------
(* Symbols and expressions *)

Val(t, x) == IF x \in DOMAIN t.syms THEN t.syms[x] ELSE 0
Eval(t, e) == Val(t, e.sym) - Val(t, e.sub) + e.n

EvalFailsLate(t, e, needDefined) ==    \* mutant: a layout may wait for a symbol
  /\ t.pass = 2
  /\ ~({e.sym, e.sub} \subseteq DOMAIN t.syms \cup {None})
EvalFails(t, e, needDefined) ==
  /\ needDefined \/ t.pass = 2
  /\ ~({e.sym, e.sub} \subseteq DOMAIN t.syms \cup {None})

Fail(t) == [t EXCEPT !.failed = TRUE]

\* sym_define(): pass 2 keeps the value of pass 1.
DefineRedefining(t, x, v) ==    \* mutant: .equ may redefine
  IF t.pass = 2 THEN t
  ELSE [t EXCEPT !.syms = [y \in DOMAIN t.syms \cup {x} |->
                             IF y = x THEN v % Space ELSE t.syms[y]]]
Define(t, x, v) ==
  IF t.pass = 2 THEN t
  ELSE IF x \in DOMAIN t.syms \/ Cardinality(DOMAIN t.syms) >= MaxSyms THEN Fail(t)
  ELSE [t EXCEPT !.syms = [y \in DOMAIN t.syms \cup {x} |->
                             IF y = x THEN v % Space ELSE t.syms[y]]]

\* The labels of a line, all of one value.
DefineLabels(t, labels) ==
  LET xs == {labels[i] : i \in DOMAIN labels} IN
  IF t.pass = 2 THEN t
  ELSE IF \/ xs \cap DOMAIN t.syms # {}
          \/ Cardinality(xs) < Len(labels)
          \/ Cardinality(DOMAIN t.syms) + Len(labels) > MaxSyms THEN Fail(t)
  ELSE [t EXCEPT !.syms = [y \in DOMAIN t.syms \cup xs |->
                             IF y \in xs THEN t.loc ELSE t.syms[y]]]

-----------------------------------------------------------------------------
(* Output *)

\* There is room in out.  An address below the origin, which only a location
\* counter that has wrapped can have, counts as beyond the capacity.
HasRoomOneOver(t, x) == x - t.org \in 0..Cap    \* mutant
HasRoom(t, x) == x - t.org \in 0..Cap - 1

\* put_byte() k times, up to the first byte without room; after that only out
\* matters.  hi is never below loc, so it ends at the last address when the
\* counter wraps.
Emit(t, k, arg) ==
  LET at(i)   == (t.loc + i) % Space
      fits(i) == t.pass = 2 => HasRoom(t, at(i))
      put     == {at(i) - t.org : i \in {j \in 0..k - 1 : \A h \in 0..j : fits(h)}}
  IN  [t EXCEPT
         !.loc = at(k),
         !.hi = IF t.loc + k >= Space THEN Space - 1
                ELSE IF t.loc + k > @ THEN t.loc + k ELSE @,
         !.out = IF t.pass = 1 THEN @
                 ELSE [x \in DOMAIN @ \cup put |->
                         IF x \in put THEN [line |-> t.line, arg |-> arg] ELSE @[x]],
         !.failed = \E i \in 0..k - 1 : ~fits(i)]

-----------------------------------------------------------------------------
(* Statements *)

OrgUnfilled(t, e) ==    \* mutant: a forward gap is left as it is
  LET v == Eval(t, e) IN
  IF EvalFails(t, e, TRUE) \/ v \notin t.org..Space - 1 THEN Fail(t)
  ELSE [t EXCEPT !.loc = v, !.hi = IF v > @ THEN v ELSE @]
Org(t, e) ==
  LET v == Eval(t, e) IN
  IF EvalFails(t, e, TRUE) \/ v \notin t.org..Space - 1 THEN Fail(t)
  ELSE IF v > t.loc THEN Emit(t, v - t.loc, 0) ELSE [t EXCEPT !.loc = v]

Word(t, e) ==
  IF EvalFails(t, e, FALSE) \/ Eval(t, e) \notin -(Space \div 2)..Space - 1 THEN Fail(t)
  ELSE Emit(t, 4, Eval(t, e))

SpaceOut(t, e) ==
  IF EvalFails(t, e, TRUE) \/ Eval(t, e) \notin 0..MaxSpace THEN Fail(t)
  ELSE Emit(t, Eval(t, e), 0)

PowerOfTwo(v) == \E i \in 0..v : v = 2^i

AlignTo(t, e) ==
  LET v == Eval(t, e)
      m == IF v > Space THEN Space ELSE v
  IN  IF EvalFails(t, e, TRUE) \/ v <= 0 \/ ~PowerOfTwo(v) THEN Fail(t)
      ELSE Emit(t, (-t.loc) % m, 0)

Equ(t, x, e) ==
  IF EvalFails(t, e, TRUE) \/ Eval(t, e) \notin -(Space \div 2)..Space - 1 THEN Fail(t)
  ELSE Define(t, x, Eval(t, e))

\* What the branch at loc encodes: pc reads as its own address + 8.
DisplacementFromNext(t, e) == Eval(t, e) - (t.loc + 4)    \* mutant
Displacement(t, e) == Eval(t, e) - (t.loc + 8)

\* Pass 1 does not look at instructions.
Branch(t, e) ==
  IF t.loc % 4 # 0 THEN Fail(t)
  ELSE IF t.pass = 1
       THEN LET next == (t.loc + 4) % Space
            IN  [t EXCEPT !.loc = next, !.hi = IF next > @ THEN next ELSE @]
  ELSE IF \/ EvalFails(t, e, FALSE)
          \/ Displacement(t, e) \notin -BranchReach..BranchReach - 1 THEN Fail(t)
  ELSE Emit(t, 4, Displacement(t, e))

Statements(t, st) ==
  CASE st.op = "none"   -> t
    [] st.op = "branch" -> Branch(t, st.e)
    [] st.op = "word"   -> Word(t, st.e)
    [] st.op = "org"    -> Org(t, st.e)
    [] st.op = "space"  -> SpaceOut(t, st.e)
    [] st.op = "align"  -> AlignTo(t, st.e)
    [] st.op = "equ"    -> Equ(t, st.name, st.e)

\* process_line()
Processed(t, l) ==
  LET u == DefineLabels(t, l.labels) IN IF u.failed THEN u ELSE Statements(u, l.st)

-----------------------------------------------------------------------------
(* dsp3210_assemble() *)

NoBytes == [x \in {} |-> 0]
NoSyms  == [x \in {} |-> 0]

Init ==
  /\ src \in Sources
  /\ \E org \in Origins :
       a = [org |-> org, loc |-> org, hi |-> org, pass |-> 1, line |-> 1,
            syms |-> NoSyms, out |-> NoBytes, failed |-> FALSE]
  /\ result = "none"
  /\ len = 0
  /\ seen = <<>>

ProcessLine ==
  /\ result = "none"
  /\ a.line \in DOMAIN src
  /\ LET t == Processed(a, src[a.line]) IN
       /\ a' = IF t.failed THEN t ELSE [t EXCEPT !.line = @ + 1]
       /\ result' = IF t.failed THEN "err" ELSE "none"
  /\ seen' = IF a.pass = 1 THEN Append(seen, a.loc) ELSE seen
  /\ UNCHANGED <<src, len>>

SecondPass ==
  /\ result = "none" /\ a.pass = 1 /\ a.line = Len(src) + 1
  /\ a' = [a EXCEPT !.pass = 2, !.line = 1, !.loc = a.org, !.hi = a.org]
  /\ seen' = Append(seen, a.loc)
  /\ UNCHANGED <<src, result, len>>

Return ==
  /\ result = "none" /\ a.pass = 2 /\ a.line = Len(src) + 1
  /\ result' = "ok"
  /\ len' = a.hi - a.org
  /\ UNCHANGED <<src, a, seen>>

Next == ProcessLine \/ SecondPass \/ Return

Spec == Init /\ [][Next]_vars

-----------------------------------------------------------------------------
\* Every line finds the location counter where pass 1 had it, so every label
\* has the address its code is assembled at, though directives that move the
\* counter are evaluated with two different symbol tables (expr_eval).
PassesAgree == a.pass = 2 /\ result # "err" => a.loc = seen[a.line]

\* The same of constants: a definition that pass 2 skips would give the value
\* the symbol has (sym_define, .equ).
ConstantsAgree ==
  result = "ok" =>
    \A k \in DOMAIN src : src[k].st.op = "equ" =>
      Eval(a, src[k].st.e) % Space = a.syms[src[k].st.name]

\* A branch lands on what was assembled at the label it names, as the core
\* computes the target: by its own address + 8 (parse_target, and opval of the
\* emulator).  Later lines may have overwritten what was there.
BranchesLand ==
  result = "ok" =>
    \A x \in DOMAIN a.out :
      LET w  == src[a.out[x].line].st
          pc == a.org + x - ((a.org + x) % 4)
          to == ((pc + 8 + a.out[x].arg) % Space) - a.org
      IN  w.op = "branch" /\ w.e.n = 0 /\ w.e.sub = None =>
            \A k \in DOMAIN src :
              /\ \E i \in DOMAIN src[k].labels : src[k].labels[i] = w.e.sym
              /\ src[k].st.op \in {"branch", "word"}
              => to \in DOMAIN a.out /\ a.out[to].line >= k

\* All of the image is defined: what the caller finds in the len bytes of out
\* was put there, gaps included.
ImageDefined ==
  a.pass = 2 /\ result # "err" => 0..a.hi - a.org - 1 \subseteq DOMAIN a.out

\* Nothing is written outside of out, wherever the counter has been.
WithinCapacity == DOMAIN a.out \subseteq 0..Cap - 1
=============================================================================
