----------------------------- MODULE CauArith -----------------------------
(***************************************************************************)
(* The adder of the CAU, its flags and the conditions that are computed    *)
(* from them.  A width is given by its sign bit h: a word of that width is *)
(* a number below 2 * h (h is 2^15 for short and 2^31 for long operations).*)
(***************************************************************************)
EXTENDS Integers

Low(x, h)    == x % (2 * h)
Sign(x, h)   == Low(x, h) >= h
Signed(x, h) == IF Sign(x, h) THEN Low(x, h) - 2 * h ELSE Low(x, h)

\* A short result sign-extended to the width of h2.
Extended(x, h, h2) == Signed(x, h) % (2 * h2)

Flags == [n: BOOLEAN, z: BOOLEAN, v: BOOLEAN, c: BOOLEAN]

AluAddCarryLate(a, b, cin, h) ==    \* mutant: no carry out of a sum of exactly 2 * h
  LET ua  == Low(a, h)
      ub  == Low(b, h)
      sum == ua + ub + cin
  IN  [res |-> Low(sum, h),
       f   |-> [n |-> Sign(sum, h),
                z |-> Low(sum, h) = 0,
                v |-> Sign(ua, h) = Sign(ub, h) /\ Sign(ua, h) # Sign(sum, h),
                c |-> sum > 2 * h]]
AluAdd(a, b, cin, h) ==
  LET ua  == Low(a, h)
      ub  == Low(b, h)
      sum == ua + ub + cin
  IN  [res |-> Low(sum, h),
       f   |-> [n |-> Sign(sum, h),
                z |-> Low(sum, h) = 0,
                v |-> Sign(ua, h) = Sign(ub, h) /\ Sign(ua, h) # Sign(sum, h),
                c |-> sum >= 2 * h]]

AluSubUnsigned(a, b, h) ==    \* mutant: overflow by the rule of the adder
  LET ua   == Low(a, h)
      ub   == Low(b, h)
      diff == ua - ub
  IN  [res |-> Low(diff, h),
       f   |-> [n |-> Sign(diff, h),
                z |-> Low(diff, h) = 0,
                v |-> Sign(ua, h) = Sign(ub, h) /\ Sign(ua, h) # Sign(diff, h),
                c |-> ua < ub]]
AluSub(a, b, h) ==
  LET ua   == Low(a, h)
      ub   == Low(b, h)
      diff == ua - ub
  IN  [res |-> Low(diff, h),
       f   |-> [n |-> Sign(diff, h),
                z |-> Low(diff, h) = 0,
                v |-> Sign(ua, h) # Sign(ub, h) /\ Sign(ua, h) # Sign(diff, h),
                c |-> ua < ub]]

\* Flags of the logic class, the shifts and the loads.
FlagsNz(x, h) == [n |-> Sign(x, h), z |-> Low(x, h) = 0, v |-> FALSE, c |-> FALSE]

-----------------------------------------------------------------------------
\* cond_eval().  d holds the DAU flags of four instructions ago; the pin and
\* port conditions are in Sequencer or belong to devices the core lacks.
CondEval(f, d, c) ==
  CASE c = "false" -> FALSE
    [] c = "true"  -> TRUE
    [] c = "pl"    -> ~f.n
    [] c = "mi"    -> f.n
    [] c = "ne"    -> ~f.z
    [] c = "eq"    -> f.z
    [] c = "vc"    -> ~f.v
    [] c = "vs"    -> f.v
    [] c = "cc"    -> ~f.c
    [] c = "cs"    -> f.c
    [] c = "ge"    -> f.n = f.v
    [] c = "lt"    -> f.n # f.v
    [] c = "gt"    -> ~(f.z \/ f.n # f.v)
    [] c = "le"    -> f.z \/ f.n # f.v
    [] c = "hi"    -> ~(f.c \/ f.z)
    [] c = "ls"    -> f.c \/ f.z
    [] c = "auc"   -> ~d.U
    [] c = "aus"   -> d.U
    [] c = "age"   -> ~d.N
    [] c = "alt"   -> d.N
    [] c = "ane"   -> ~d.Z
    [] c = "aeq"   -> d.Z
    [] c = "avc"   -> ~d.V
    [] c = "avs"   -> d.V
    [] c = "agt"   -> ~(d.N \/ d.Z)
    [] c = "ale"   -> d.N \/ d.Z

-----------------------------------------------------------------------------
(* What the flags mean *)

\* f are the flags of a - b: the conditions compare a and b, as signed and as
\* unsigned numbers.
Compares(f, d, a, b, h) ==
  /\ CondEval(f, d, "eq") <=> Low(a, h) = Low(b, h)
  /\ CondEval(f, d, "ne") <=> Low(a, h) # Low(b, h)
  /\ CondEval(f, d, "lt") <=> Signed(a, h) < Signed(b, h)
  /\ CondEval(f, d, "ge") <=> Signed(a, h) >= Signed(b, h)
  /\ CondEval(f, d, "gt") <=> Signed(a, h) > Signed(b, h)
  /\ CondEval(f, d, "le") <=> Signed(a, h) <= Signed(b, h)
  /\ CondEval(f, d, "cs") <=> Low(a, h) < Low(b, h)
  /\ CondEval(f, d, "cc") <=> Low(a, h) >= Low(b, h)
  /\ CondEval(f, d, "hi") <=> Low(a, h) > Low(b, h)
  /\ CondEval(f, d, "ls") <=> Low(a, h) <= Low(b, h)

\* f are the flags of a + b + cin with result r: with the carry, r is the
\* unsigned sum; without overflow it is the signed one.
Adds(f, r, a, b, cin, h) ==
  /\ r + (IF f.c THEN 2 * h ELSE 0) = Low(a, h) + Low(b, h) + cin
  /\ f.v <=> Signed(a, h) + Signed(b, h) + cin \notin -h..h - 1
  /\ ~f.v => Signed(r, h) = Signed(a, h) + Signed(b, h) + cin
=============================================================================
