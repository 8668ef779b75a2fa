---------------------------- MODULE MCAssembler ----------------------------
(***************************************************************************)
(* Instances of Assembler for TLC: every source of three lines built from  *)
(* a few statements, in an address space of four words.                    *)
(***************************************************************************)
EXTENDS Assembler, TLC

MCNames == {"x", "y", "z"}

Num(k)     == [sym |-> None, sub |-> None, n |-> k]
Sym(s)     == [sym |-> s, sub |-> None, n |-> 0]
Plus(s, k) == [sym |-> s, sub |-> None, n |-> k]
Diff(s, t) == [sym |-> s, sub |-> t, n |-> 0]
Do(o, exp) == [op |-> o, e |-> exp]
EquTo(nm, exp) == [op |-> "equ", name |-> nm, e |-> exp]

MCStatements ==
  { [op |-> "none"],
    Do("branch", Sym("x")), Do("branch", Plus("x", 4)), Do("word", Num(1)),
    Do("org", Sym("x")), Do("org", Plus("x", 8)), Do("org", Num(4)), Do("org", Num(0)),
    Do("space", Num(1)), Do("space", Diff("y", "x")),
    Do("align", Num(4)), Do("align", Num(8)), Do("align", Num(3)), Do("align", Num(32)),
    EquTo("y", Plus("x", 1)), EquTo("x", Num(-4)), EquTo("z", Num(5)) }

MCLines == [labels: {<<>>, <<"x">>}, st: MCStatements] \cup
           { [labels |-> <<"x", "y">>, st |-> [op |-> "none"]],
             [labels |-> <<"y">>, st |-> Do("word", Num(2))] }

MCSources == [1..3 -> MCLines]
=============================================================================
