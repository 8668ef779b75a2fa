-------------------------- MODULE AssemblerProofs --------------------------
(***************************************************************************)
(* Theorems about Assembler, for every source text and every origin: the   *)
(* two passes find every line at the same address, nothing is written      *)
(* outside of out, and the image is what the source says (second part).    *)
(*                                                                         *)
(* What pass 1 has done with a line is remembered in the invariant as what *)
(* pass 2 is going to do with it: from the same address, under any symbol  *)
(* table that extends the present one, the line ends at the same address.  *)
(* Symbols keep their values, so this survives the rest of pass 1.         *)
(***************************************************************************)
EXTENDS Assembler, TLAPS

Table == UNION {[X -> Int] : X \in SUBSET Names}
Image == UNION {[X -> Tag] : X \in SUBSET Int}

Ctx == [org: Int, loc: Int, hi: Int, pass: {1, 2}, line: Nat, syms: Table, out: Image,
        failed: BOOLEAN]

Extends(big, small) ==
  DOMAIN small \subseteq DOMAIN big /\ \A y \in DOMAIN small : big[y] = small[y]

\* In pass 2 the line l, found at address from, leaves the counter at to.
Replays(l, org, syms, from, to) ==
  \A u \in Ctx :
    /\ u.pass = 2 /\ u.org = org /\ u.loc = from /\ Extends(u.syms, syms)
    /\ ~Processed(u, l).failed
    => Processed(u, l).loc = to

-----------------------------------------------------------------------------
(* Symbols *)

LEMMA ValExtends ==
  ASSUME NEW t, NEW u, Extends(u.syms, t.syms), NEW x,
         x \in DOMAIN t.syms \cup {None}, None \notin DOMAIN u.syms
  PROVE  Val(u, x) = Val(t, x)
BY DEF Val, Extends

LEMMA EvalExtends ==
  ASSUME NEW t, NEW u, Extends(u.syms, t.syms), None \notin DOMAIN u.syms,
         NEW e, ~EvalFails(t, e, TRUE)
  PROVE  Eval(u, e) = Eval(t, e)
<1>1. e.sym \in DOMAIN t.syms \cup {None} /\ e.sub \in DOMAIN t.syms \cup {None}
  BY DEF EvalFails
<1>2. Val(u, e.sym) = Val(t, e.sym) /\ Val(u, e.sub) = Val(t, e.sub)
  BY <1>1, ValExtends
<1> QED
  BY <1>2 DEF Eval

LEMMA TableDomain ==
  ASSUME NEW t \in Ctx
  PROVE  DOMAIN t.syms \subseteq Names /\ None \notin DOMAIN t.syms
BY AssemblerAssumption DEF Ctx, Table

LEMMA EvalType ==
  ASSUME NEW t \in Ctx, NEW e \in Expr
  PROVE  Eval(t, e) \in Int
<1>1. \A x : Val(t, x) \in Int
  BY DEF Val, Ctx, Table
<1> QED
  BY <1>1 DEF Eval, Expr

-----------------------------------------------------------------------------
(* What the parts of a line do to the context *)

\* The fields nothing in a line changes, and what a line may do to out.
Within(t, u) ==
  /\ u.org = t.org /\ u.pass = t.pass /\ u.line = t.line
  /\ DOMAIN u.out \subseteq DOMAIN t.out \cup 0..Cap - 1

LEMMA PutFacts ==
  ASSUME NEW f \in Image, NEW P \in SUBSET Int, NEW b \in Tag
  PROVE  [x \in DOMAIN f \cup P |-> IF x \in P THEN b ELSE f[x]] \in Image
<1>1. PICK X \in SUBSET Int : f \in [X -> Tag]
  BY DEF Image
<1>2. DOMAIN f = X /\ \A x \in X : f[x] \in Tag
  BY <1>1
<1> DEFINE Y == DOMAIN f \cup P
           g == [x \in Y |-> IF x \in P THEN b ELSE f[x]]
<1>3. Y \in SUBSET Int
  BY <1>1, <1>2
<1>4. \A x \in Y : (IF x \in P THEN b ELSE f[x]) \in Tag
  BY <1>2
<1> HIDE DEF Y
<1>5. g \in [Y -> Tag]
  BY <1>4
<1> HIDE DEF g
<1>6. g \in Image
  BY <1>3, <1>5 DEF Image
<1> QED
  BY <1>6 DEF Y, g

LEMMA EmitFacts ==
  ASSUME NEW t \in Ctx, NEW k \in Int, NEW arg \in Int
  PROVE  /\ Emit(t, k, arg) \in Ctx
         /\ Within(t, Emit(t, k, arg))
         /\ Emit(t, k, arg).loc = (t.loc + k) % Space
         /\ Emit(t, k, arg).syms = t.syms
<1> DEFINE at(i)   == (t.loc + i) % Space
           fits(i) == t.pass = 2 => HasRoom(t, at(i))
           put == {at(i) - t.org : i \in {j \in 0..k - 1 : \A h \in 0..j : fits(h)}}
           hi  == IF t.loc + k >= Space THEN Space - 1
                  ELSE IF t.loc + k > t.hi THEN t.loc + k ELSE t.hi
           out == IF t.pass = 1 THEN t.out
                  ELSE [x \in DOMAIN t.out \cup put |->
                          IF x \in put THEN [line |-> t.line, arg |-> arg] ELSE t.out[x]]
           failed == \E i \in 0..k - 1 : ~fits(i)
<1>1. Emit(t, k, arg) = [t EXCEPT !.loc = at(k), !.hi = hi, !.out = out, !.failed = failed]
  BY DEF Emit
<1>2. at(k) \in Int /\ hi \in Int /\ failed \in BOOLEAN
  BY AssemblerAssumption DEF Ctx
<1>3. t.pass = 2 => put \subseteq 0..Cap - 1
  <2> SUFFICES ASSUME t.pass = 2, NEW j \in 0..k - 1, \A h \in 0..j : fits(h)
               PROVE  at(j) - t.org \in 0..Cap - 1
    OBVIOUS
  <2>1. fits(j)
    OBVIOUS
  <2> QED
    BY <2>1 DEF HasRoom
<1>4. out \in Image /\ DOMAIN out \subseteq DOMAIN t.out \cup 0..Cap - 1
  <2>1. CASE t.pass = 1
    BY <2>1 DEF Ctx
  <2>2. CASE t.pass = 2
    <3> HIDE DEF put
    <3>1. [line |-> t.line, arg |-> arg] \in Tag /\ t.out \in Image
      BY DEF Ctx, Tag
    <3>2. 0..Cap - 1 \subseteq Int
      OBVIOUS
    <3>3. put \in SUBSET Int
      BY <1>3, <2>2, <3>2
    <3>4. out = [x \in DOMAIN t.out \cup put |->
                   IF x \in put THEN [line |-> t.line, arg |-> arg] ELSE t.out[x]]
      BY <2>2
    <3> HIDE DEF out
    <3>5. out \in Image
      BY <3>1, <3>3, <3>4, PutFacts
    <3>6. DOMAIN out = DOMAIN t.out \cup put
      BY <3>4
    <3> QED
      BY <1>3, <2>2, <3>5, <3>6
  <2> QED
    BY <2>1, <2>2 DEF Ctx
<1> HIDE DEF hi, out, failed
<1>5. [t EXCEPT !.loc = at(k), !.hi = hi, !.out = out, !.failed = failed] \in Ctx
  BY <1>2, <1>4 DEF Ctx
<1> QED
  BY <1>1, <1>4, <1>5 DEF Within, Ctx

LEMMA FailFacts ==
  ASSUME NEW t \in Ctx
  PROVE  /\ Fail(t) \in Ctx /\ Within(t, Fail(t))
         /\ Fail(t).loc = t.loc /\ Fail(t).syms = t.syms /\ Fail(t).failed
BY DEF Fail, Ctx, Within

LEMMA ExtendsSame ==
  ASSUME NEW f PROVE Extends(f, f)
BY DEF Extends

\* The table with the names in P given the value v.
LEMMA TableAdds ==
  ASSUME NEW f \in Table, NEW P \in SUBSET Names, NEW v \in Int, P \cap DOMAIN f = {}
  PROVE  LET g == [y \in DOMAIN f \cup P |-> IF y \in P THEN v ELSE f[y]]
         IN  g \in Table /\ Extends(g, f)
<1>1. PICK X \in SUBSET Names : f \in [X -> Int]
  BY DEF Table
<1>2. DOMAIN f = X /\ \A y \in X : f[y] \in Int
  BY <1>1
<1> DEFINE Y == DOMAIN f \cup P
           g == [y \in Y |-> IF y \in P THEN v ELSE f[y]]
<1>3. Y \in SUBSET Names /\ DOMAIN f \subseteq Y
  BY <1>1, <1>2
<1>4. \A y \in Y : (IF y \in P THEN v ELSE f[y]) \in Int
  BY <1>2
<1>5. Extends(g, f)
  BY DEF Extends
<1> HIDE DEF Y
<1>6. g \in [Y -> Int]
  BY <1>4
<1> HIDE DEF g
<1>7. g \in Table
  BY <1>3, <1>6 DEF Table
<1> QED
  BY <1>5, <1>7 DEF Y, g

\* What a definition may do: add symbols, in pass 1 only, and fail.
Defines(t, u) ==
  /\ u \in Ctx /\ Within(t, u)
  /\ u.loc = t.loc /\ Extends(u.syms, t.syms)
  /\ t.pass = 2 => u = t

LEMMA DefineFacts ==
  ASSUME NEW t \in Ctx, NEW x \in Names, NEW v \in Int
  PROVE  Defines(t, Define(t, x, v))
<1>1. CASE t.pass = 2
  BY <1>1, ExtendsSame DEF Define, Defines, Within, Ctx
<1>2. CASE Define(t, x, v) = Fail(t) /\ t.pass = 1
  BY <1>2, FailFacts, ExtendsSame DEF Defines
<1>3. CASE t.pass = 1 /\ Define(t, x, v) # Fail(t)
  <2> DEFINE g == [y \in DOMAIN t.syms \cup {x} |-> IF y \in {x} THEN v % Space ELSE t.syms[y]]
  <2>1. x \notin DOMAIN t.syms /\ Define(t, x, v) = [t EXCEPT !.syms = g]
    BY <1>3 DEF Define
  <2>2. v % Space \in Int
    BY AssemblerAssumption
  <2>3. g \in Table /\ Extends(g, t.syms)
    <3> DEFINE P == {x}
    <3>1. t.syms \in Table
      BY DEF Ctx
    <3>2. P \in SUBSET Names /\ P \cap DOMAIN t.syms = {}
      BY <2>1
    <3> HIDE DEF P
    <3>3. [y \in DOMAIN t.syms \cup P |-> IF y \in P THEN v % Space ELSE t.syms[y]] \in Table
          /\ Extends([y \in DOMAIN t.syms \cup P |-> IF y \in P THEN v % Space ELSE t.syms[y]],
                     t.syms)
      BY <2>2, <3>1, <3>2, TableAdds
    <3> QED
      BY <3>3 DEF P
  <2> HIDE DEF g
  <2> QED
    BY <1>3, <2>1, <2>3 DEF Defines, Within, Ctx
<1> QED
  BY <1>1, <1>2, <1>3 DEF Ctx

LEMMA DefineLabelsFacts ==
  ASSUME NEW t \in Ctx, NEW labels \in Seq(Names)
  PROVE  Defines(t, DefineLabels(t, labels))
<1>1. CASE t.pass = 2
  BY <1>1, ExtendsSame DEF DefineLabels, Defines, Within, Ctx
<1>2. CASE DefineLabels(t, labels) = Fail(t) /\ t.pass = 1
  BY <1>2, FailFacts, ExtendsSame DEF Defines
<1>3. CASE t.pass = 1 /\ DefineLabels(t, labels) # Fail(t)
  <2> DEFINE xs == {labels[i] : i \in DOMAIN labels}
             g  == [y \in DOMAIN t.syms \cup xs |-> IF y \in xs THEN t.loc ELSE t.syms[y]]
  <2>1. xs \cap DOMAIN t.syms = {} /\ DefineLabels(t, labels) = [t EXCEPT !.syms = g]
    BY <1>3 DEF DefineLabels
  <2>2. xs \in SUBSET Names
    OBVIOUS
  <2> HIDE DEF xs
  <2>3. g \in Table /\ Extends(g, t.syms)
    <3>1. t.syms \in Table /\ t.loc \in Int
      BY DEF Ctx
    <3> QED
      BY <2>1, <2>2, <3>1, TableAdds
  <2> HIDE DEF g
  <2> QED
    BY <1>3, <2>1, <2>3 DEF Defines, Within, Ctx
<1> QED
  BY <1>1, <1>2, <1>3 DEF Ctx

-----------------------------------------------------------------------------
(* Statements *)

LEMMA StatementFields ==
  ASSUME NEW st \in Statement
  PROVE  /\ st.op \in {"none", "branch", "word", "org", "space", "align", "equ"}
         /\ st.op # "none" => st.e \in Expr
         /\ st.op = "equ" => st.name \in Names
BY DEF Statement

\* What a statement may do: as above, but it may move the counter too.
Does(t, u) ==
  /\ u \in Ctx /\ Within(t, u)
  /\ Extends(u.syms, t.syms)
  /\ t.pass = 2 => u.syms = t.syms

LEMMA StatementFacts ==
  ASSUME NEW t \in Ctx, NEW st \in Statement
  PROVE  Does(t, Statements(t, st))
<1> DEFINE e == st.e
           v == Eval(t, e)
<1>0. Does(t, t)
  BY ExtendsSame DEF Does, Within, Ctx
<1>1. Does(t, Fail(t))
  BY FailFacts, ExtendsSame DEF Does
<1>2. \A k \in Int, arg \in Int : Does(t, Emit(t, k, arg))
  BY EmitFacts, ExtendsSame DEF Does
<1>3. st.op # "none" => v \in Int
  BY StatementFields, EvalType
<1>4. \A loc \in Int, hi \in Int : Does(t, [t EXCEPT !.loc = loc, !.hi = hi])
  BY ExtendsSame DEF Does, Within, Ctx
<1>5. t.loc \in Int /\ t.hi \in Int /\ t.org \in Int /\ (t.loc + 4) % Space \in Int
  BY AssemblerAssumption DEF Ctx
<1> HIDE DEF v
<1>6. CASE st.op = "none"
  BY <1>0, <1>6 DEF Statements
<1>7. CASE st.op = "branch"
  <2>1. Statements(t, st) = Branch(t, e)
    BY <1>7 DEF Statements
  <2>2. v - (t.loc + 8) \in Int
    BY <1>3, <1>5, <1>7
  <2>3. CASE t.pass = 1 /\ t.loc % 4 = 0
    BY <1>4, <1>5, <2>1, <2>3 DEF Branch
  <2>4. CASE ~(t.pass = 1 /\ t.loc % 4 = 0)
    <3>1. Branch(t, e) \in {Fail(t), Emit(t, 4, v - (t.loc + 8))}
      BY <2>4 DEF Branch, Displacement, v
    <3> QED
      BY <1>1, <1>2, <2>1, <2>2, <3>1
  <2> QED
    BY <2>3, <2>4
<1>8. CASE st.op = "word"
  <2>1. Statements(t, st) \in {Fail(t), Emit(t, 4, v)}
    BY <1>8 DEF Statements, Word, v
  <2> QED
    BY <1>1, <1>2, <1>3, <1>8, <2>1
<1>9. CASE st.op = "org"
  <2>1. Statements(t, st) \in {Fail(t), Emit(t, v - t.loc, 0), [t EXCEPT !.loc = v]}
    BY <1>9 DEF Statements, Org, v
  <2>2. v \in Int /\ v - t.loc \in Int
    BY <1>3, <1>5, <1>9
  <2>3. Does(t, [t EXCEPT !.loc = v])
    BY <2>2, ExtendsSame DEF Does, Within, Ctx
  <2> QED
    BY <1>1, <1>2, <2>1, <2>2, <2>3
<1>10. CASE st.op = "space"
  <2>1. Statements(t, st) \in {Fail(t), Emit(t, v, 0)}
    BY <1>10 DEF Statements, SpaceOut, v
  <2> QED
    BY <1>1, <1>2, <1>3, <1>10, <2>1
<1>11. CASE st.op = "align"
  <2> DEFINE m == IF v > Space THEN Space ELSE v
  <2>1. Statements(t, st) \in {Fail(t), Emit(t, (-t.loc) % m, 0)}
    BY <1>11 DEF Statements, AlignTo, v
  <2>2. v <= 0 => Statements(t, st) = Fail(t)
    BY <1>11 DEF Statements, AlignTo, v
  <2>3. ~(v <= 0) => (-t.loc) % m \in Int
    BY <1>3, <1>5, <1>11, AssemblerAssumption
  <2> QED
    BY <1>1, <1>2, <2>1, <2>2, <2>3
<1>12. CASE st.op = "equ"
  <2>1. Statements(t, st) \in {Fail(t), Define(t, st.name, v)}
    BY <1>12 DEF Statements, Equ, v
  <2>2. Defines(t, Define(t, st.name, v))
    BY <1>3, <1>12, StatementFields, DefineFacts
  <2>3. Does(t, Define(t, st.name, v))
    BY <2>2 DEF Defines, Does
  <2> QED
    BY <1>1, <2>1, <2>3
<1> QED
  BY <1>6, <1>7, <1>8, <1>9, <1>10, <1>11, <1>12, StatementFields

\* The heart of it: a statement that both passes accept moves the counter
\* alike, though pass 2 knows more symbols.
LEMMA StatementReplays ==
  ASSUME NEW t \in Ctx, NEW u \in Ctx, NEW st \in Statement,
         t.pass = 1, u.pass = 2, u.org = t.org, u.loc = t.loc, Extends(u.syms, t.syms),
         ~Statements(t, st).failed, ~Statements(u, st).failed
  PROVE  Statements(u, st).loc = Statements(t, st).loc
<1> DEFINE e == st.e
<1>1. Fail(t).failed /\ Fail(u).failed
  BY FailFacts
<1>2. /\ \A k \in Int, arg \in Int : Emit(t, k, arg).loc = (t.loc + k) % Space
      /\ \A k \in Int, arg \in Int : Emit(u, k, arg).loc = (u.loc + k) % Space
  BY EmitFacts
<1>3. st.op # "none" => Eval(t, e) \in Int /\ Eval(u, e) \in Int
  BY StatementFields, EvalType
<1>4. ~EvalFails(t, e, TRUE) => Eval(u, e) = Eval(t, e)
  BY EvalExtends, TableDomain
<1>5. t.loc \in Int /\ t.org \in Int
  BY DEF Ctx
<1>6. CASE st.op = "none"
  BY <1>6 DEF Statements
<1>7. CASE st.op = "branch"
  <2>1. Statements(t, st).loc = (t.loc + 4) % Space
    BY <1>1, <1>7 DEF Statements, Branch, Ctx
  <2>2. Statements(u, st) = Emit(u, 4, Displacement(u, e))
    <3>1. Statements(u, st) = Branch(u, e)
      BY <1>7 DEF Statements
    <3>2. Branch(u, e) \in {Fail(u), Emit(u, 4, Displacement(u, e))}
      BY DEF Branch
    <3> QED
      BY <1>1, <3>1, <3>2
  <2>3. Displacement(u, e) \in Int
    BY <1>3, <1>5, <1>7 DEF Displacement
  <2> QED
    BY <1>2, <2>1, <2>2, <2>3
<1>8. CASE st.op = "word"
  <2>1. Statements(t, st) = Emit(t, 4, Eval(t, e)) /\ Statements(u, st) = Emit(u, 4, Eval(u, e))
    BY <1>1, <1>8 DEF Statements, Word
  <2> QED
    BY <1>2, <1>3, <1>8, <2>1
<1>9. CASE st.op = "org"
  <2> DEFINE v == Eval(t, e)
  <2>1. ~EvalFails(t, e, TRUE) /\ v \in t.org..Space - 1
    BY <1>1, <1>9 DEF Statements, Org
  <2>2. Eval(u, e) = v /\ v \in Int
    BY <1>3, <1>4, <1>9, <2>1
  <2>3. Statements(t, st) = IF v > t.loc THEN Emit(t, v - t.loc, 0) ELSE [t EXCEPT !.loc = v]
    BY <1>1, <1>9, <2>1 DEF Statements, Org
  <2>4. Statements(u, st) = IF v > t.loc THEN Emit(u, v - t.loc, 0) ELSE [u EXCEPT !.loc = v]
    BY <1>1, <1>9, <2>2 DEF Statements, Org
  <2> HIDE DEF v
  <2>5. v - t.loc \in Int
    BY <1>5, <2>2
  <2>6. CASE v > t.loc
    BY <1>2, <2>3, <2>4, <2>5, <2>6
  <2>7. CASE ~(v > t.loc)
    BY <2>3, <2>4, <2>7 DEF Ctx
  <2> QED
    BY <2>6, <2>7
<1>10. CASE st.op = "space"
  <2>1. ~EvalFails(t, e, TRUE)
    BY <1>1, <1>10 DEF Statements, SpaceOut
  <2>2. Statements(t, st) = Emit(t, Eval(t, e), 0) /\ Statements(u, st) = Emit(u, Eval(u, e), 0)
    BY <1>1, <1>10 DEF Statements, SpaceOut
  <2> QED
    BY <1>2, <1>3, <1>4, <1>10, <2>1, <2>2
<1>11. CASE st.op = "align"
  <2> DEFINE v == Eval(t, e)
             m == IF v > Space THEN Space ELSE v
  <2>1. ~EvalFails(t, e, TRUE) /\ ~(v <= 0)
    BY <1>1, <1>11 DEF Statements, AlignTo
  <2>2. Eval(u, e) = v /\ v \in Int
    BY <1>3, <1>4, <1>11, <2>1
  <2>3. Statements(t, st) = Emit(t, (-t.loc) % m, 0) /\ Statements(u, st) = Emit(u, (-t.loc) % m, 0)
    BY <1>1, <1>11, <2>2 DEF Statements, AlignTo
  <2> HIDE DEF v
  <2>4. (-t.loc) % m \in Int
    BY <1>5, <2>1, <2>2, AssemblerAssumption
  <2> QED
    BY <1>2, <2>3, <2>4
<1>12. CASE st.op = "equ"
  <2>1. Statements(t, st) = Define(t, st.name, Eval(t, e))
        /\ Statements(u, st) = Define(u, st.name, Eval(u, e))
    BY <1>1, <1>12 DEF Statements, Equ
  <2>2. Define(t, st.name, Eval(t, e)).loc = t.loc /\ Define(u, st.name, Eval(u, e)).loc = u.loc
    BY <1>3, <1>12, StatementFields, DefineFacts DEF Defines
  <2> QED
    BY <2>1, <2>2
<1> QED
  BY <1>6, <1>7, <1>8, <1>9, <1>10, <1>11, <1>12, StatementFields

-----------------------------------------------------------------------------
(* Lines *)

LEMMA ProcessedFacts ==
  ASSUME NEW t \in Ctx, NEW l \in Line
  PROVE  Does(t, Processed(t, l))
<1> DEFINE u == DefineLabels(t, l.labels)
<1>1. l.labels \in Seq(Names) /\ l.st \in Statement
  BY DEF Line
<1>2. Defines(t, u)
  BY <1>1, DefineLabelsFacts
<1> HIDE DEF u
<1>3. Does(t, u)
  BY <1>2 DEF Defines, Does
<1>4. Does(u, Statements(u, l.st))
  BY <1>1, <1>2, StatementFacts DEF Defines
<1>5. Does(t, Statements(u, l.st))
  BY <1>3, <1>4 DEF Does, Within, Extends
<1> QED
  BY <1>3, <1>5 DEF Processed, u

LEMMA LineReplays ==
  ASSUME NEW t \in Ctx, NEW l \in Line, t.pass = 1, ~Processed(t, l).failed
  PROVE  Replays(l, t.org, Processed(t, l).syms, t.loc, Processed(t, l).loc)
<1> SUFFICES ASSUME NEW u \in Ctx, u.pass = 2, u.org = t.org, u.loc = t.loc,
                    Extends(u.syms, Processed(t, l).syms), ~Processed(u, l).failed
             PROVE  Processed(u, l).loc = Processed(t, l).loc
  BY DEF Replays
<1> DEFINE d == DefineLabels(t, l.labels)
           x == DefineLabels(u, l.labels)
<1>1. l.labels \in Seq(Names) /\ l.st \in Statement
  BY DEF Line
<1>2. Defines(t, d) /\ Defines(u, x)
  BY <1>1, DefineLabelsFacts
<1> HIDE DEF d, x
<1>3. ~d.failed /\ Processed(t, l) = Statements(d, l.st)
  BY DEF Processed, d
<1>4. Processed(u, l) = Statements(x, l.st)
  BY DEF Processed, x
<1>5. x = u
  BY <1>2 DEF Defines
<1>6. d \in Ctx /\ d.pass = 1 /\ d.org = t.org /\ d.loc = t.loc
  BY <1>2 DEF Defines, Within
<1>7. Extends(Statements(d, l.st).syms, d.syms)
  BY <1>1, <1>6, StatementFacts DEF Does
<1>8. Extends(u.syms, d.syms)
  BY <1>3, <1>7 DEF Extends
<1> QED
  BY <1>1, <1>3, <1>4, <1>5, <1>6, <1>8, StatementReplays

-----------------------------------------------------------------------------
(* The invariant *)

\* Where pass 1 left line k.
Ends(k) == IF k < Len(seen) THEN seen[k + 1] ELSE a.loc

Context ==
  /\ src \in Seq(Line)
  /\ a \in Ctx
  /\ DOMAIN a.out \subseteq 0..Cap - 1
  /\ a.line \in 1..Len(src) + 1
  /\ seen \in Seq(Int)
  /\ result # "err" => ~a.failed

\* The lines of pass 1 so far, and what pass 2 will do with them.
Remembered ==
  /\ Len(seen) = IF a.pass = 1 THEN a.line - 1 ELSE Len(src) + 1
  /\ Ends(0) = a.org
  /\ \A k \in 1..Len(seen) :
       k \in DOMAIN src => Replays(src[k], a.org, a.syms, seen[k], Ends(k))

IInv ==
  /\ Context
  /\ result # "err" => Remembered /\ PassesAgree

LEMMA LinesOfSource ==
  ASSUME NEW s \in Sources
  PROVE  s \in Seq(Line)
BY AssemblerAssumption

LEMMA ReplaysLater ==
  ASSUME NEW l, NEW org, NEW f, NEW g, Extends(g, f), NEW from, NEW to,
         Replays(l, org, f, from, to)
  PROVE  Replays(l, org, g, from, to)
BY DEF Replays, Extends

LEMMA InitHolds == Init => IInv
<1> SUFFICES ASSUME Init PROVE IInv
  OBVIOUS
<1>1. PICK org \in Origins :
        a = [org |-> org, loc |-> org, hi |-> org, pass |-> 1, line |-> 1,
             syms |-> NoSyms, out |-> NoBytes, failed |-> FALSE]
  BY DEF Init
<1>2. org \in Int
  BY AssemblerAssumption
<1>3. NoSyms \in Table /\ NoBytes \in Image /\ DOMAIN NoBytes = {}
  <2>1. NoSyms \in [{} -> Int] /\ NoBytes \in [{} -> Tag] /\ {} \in SUBSET Names /\ {} \in SUBSET Int
    BY DEF NoSyms, NoBytes
  <2> QED
    BY <2>1 DEF Table, Image, NoBytes
<1>4. a \in Ctx
  BY <1>1, <1>2, <1>3 DEF Ctx
<1>5. src \in Seq(Line) /\ seen = <<>>
  BY LinesOfSource DEF Init
<1>6. Context
  BY <1>1, <1>3, <1>4, <1>5 DEF Context
<1>7. Remembered /\ PassesAgree
  BY <1>1, <1>5 DEF Remembered, Ends, PassesAgree
<1> QED
  BY <1>6, <1>7 DEF IInv

LEMMA ProcessLineHolds ==
  ASSUME IInv, ProcessLine
  PROVE  IInv'
<1> DEFINE l == src[a.line]
           t == Processed(a, l)
<1>1. Context /\ Remembered /\ PassesAgree /\ ~a.failed
  BY DEF IInv, ProcessLine, Context
<1>2. a \in Ctx /\ l \in Line /\ a.line \in 1..Len(src) /\ src' = src /\ seen \in Seq(Int)
  BY <1>1 DEF ProcessLine, Context
<1>3. Does(a, t)
  BY <1>2, ProcessedFacts
<1>4. /\ a' = IF t.failed THEN t ELSE [t EXCEPT !.line = @ + 1]
      /\ result' = IF t.failed THEN "err" ELSE "none"
      /\ seen' = IF a.pass = 1 THEN Append(seen, a.loc) ELSE seen
  BY DEF ProcessLine
<1> DEFINE from == a.loc
<1>5. a.pass = 1 /\ ~t.failed => Replays(l, a.org, t.syms, from, t.loc)
  BY <1>2, LineReplays
<1>6. a.pass = 2 /\ ~t.failed /\ Replays(l, a.org, a.syms, from, seen[a.line + 1])
      => t.loc = seen[a.line + 1]
  BY <1>2, ExtendsSame DEF Replays
<1> HIDE DEF l, t
<1>7. a.loc \in Int /\ t \in Ctx /\ t.line = a.line /\ t.org = a.org /\ t.pass = a.pass
  BY <1>2, <1>3 DEF Ctx, Does, Within
<1>8. /\ a' \in Ctx /\ a'.out = t.out /\ a'.loc = t.loc /\ a'.syms = t.syms
      /\ a'.org = a.org /\ a'.pass = a.pass
      /\ a'.line = IF t.failed THEN a.line ELSE a.line + 1
      /\ a'.failed = t.failed
  BY <1>4, <1>7 DEF Ctx
<1>9. Context'
  <2>1. DOMAIN t.out \subseteq 0..Cap - 1
    BY <1>1, <1>3 DEF Context, Does, Within
  <2>2. seen' \in Seq(Int)
    BY <1>2, <1>4, <1>7
  <2>3. a'.line \in 1..Len(src) + 1
    BY <1>2, <1>8
  <2> QED
    BY <1>1, <1>2, <1>4, <1>8, <2>1, <2>2, <2>3 DEF Context
<1>10. ASSUME result' # "err"
       PROVE  Remembered' /\ PassesAgree'
  <2>0. ~t.failed
    BY <1>4, <1>10
  <2>1. CASE a.pass = 1
    <3>1. Len(seen) = a.line - 1 /\ Len(seen') = a.line /\ seen' = Append(seen, a.loc)
      BY <1>1, <1>2, <1>4, <1>7, <2>1 DEF Remembered
    <3>2. \A k \in 1..Len(seen') : seen'[k] = IF k = a.line THEN a.loc ELSE seen[k]
      BY <1>2, <1>7, <3>1
    <3>3. \A k \in 1..a.line - 1 : Ends(k)' = Ends(k)
      BY <1>2, <1>8, <3>1, <3>2 DEF Ends
    <3>4. Ends(0)' = Ends(0) /\ \A k \in 1..Len(seen') : k = a.line => Ends(k)' = t.loc
      BY <1>2, <1>8, <3>1, <3>2 DEF Ends
    <3>5. \A k \in 1..a.line - 1 : Replays(src[k], a.org, t.syms, seen[k], Ends(k))
      <4>1. \A k \in 1..a.line - 1 : Replays(src[k], a.org, a.syms, seen[k], Ends(k))
        BY <1>1, <1>2, <3>1 DEF Remembered
      <4>2. Extends(t.syms, a.syms)
        BY <1>3 DEF Does
      <4> QED
        BY <4>1, <4>2, ReplaysLater
    <3>6. \A k \in 1..Len(seen') : Replays(src[k], a.org, t.syms, seen'[k], Ends(k)')
      <4> SUFFICES ASSUME NEW k \in 1..Len(seen')
                   PROVE  Replays(src[k], a.org, t.syms, seen'[k], Ends(k)')
        OBVIOUS
      <4>1. CASE k = a.line
        BY <1>5, <2>0, <2>1, <3>2, <3>4, <4>1 DEF l
      <4>2. CASE k \in 1..a.line - 1
        BY <1>2, <3>2, <3>3, <3>5, <4>2
      <4> QED
        BY <1>2, <3>1, <4>1, <4>2
    <3>7. Remembered'
      BY <1>1, <1>2, <1>8, <2>0, <2>1, <3>1, <3>4, <3>6 DEF Remembered
    <3> QED
      BY <1>8, <2>1, <3>7 DEF PassesAgree
  <2>2. CASE a.pass = 2
    <3>1. seen' = seen /\ Len(seen) = Len(src) + 1 /\ a.loc = seen[a.line]
      BY <1>1, <1>4, <1>10, <2>2 DEF Remembered, PassesAgree, ProcessLine
    <3>2. \A k \in 0..Len(src) : Ends(k) = seen[k + 1] /\ Ends(k)' = seen[k + 1]
      BY <3>1 DEF Ends
    <3>3. t.syms = a.syms
      BY <1>3, <2>2 DEF Does
    <3>4. \A k \in 1..Len(src) : Replays(src[k], a.org, a.syms, seen[k], seen[k + 1])
      <4>1. \A k \in 1..Len(src) : k \in DOMAIN src /\ k \in 1..Len(seen) /\ k \in 0..Len(src)
        BY <1>1, <3>1 DEF Context
      <4>2. \A k \in 1..Len(src) : Replays(src[k], a.org, a.syms, seen[k], Ends(k))
        BY <1>1, <4>1 DEF Remembered
      <4> QED
        BY <3>2, <4>1, <4>2
    <3>5. Remembered'
      <4>1. Ends(0)' = a.org
        BY <1>1, <3>2 DEF Remembered
      <4>2. \A k \in 1..Len(seen) :
              k \in DOMAIN src => Replays(src[k], a.org, a.syms, seen[k], Ends(k)')
        BY <1>1, <3>2, <3>4 DEF Context
      <4> QED
        BY <1>2, <1>8, <2>2, <3>1, <3>3, <4>1, <4>2 DEF Remembered
    <3>6. t.loc = seen[a.line + 1]
      BY <1>2, <1>6, <2>0, <2>2, <3>1, <3>4 DEF l
    <3>7. PassesAgree'
      BY <1>8, <2>0, <3>1, <3>6 DEF PassesAgree
    <3> QED
      BY <3>5, <3>7
  <2> QED
    BY <1>2, <2>1, <2>2 DEF Ctx
<1> QED
  BY <1>9, <1>10 DEF IInv

LEMMA SecondPassHolds ==
  ASSUME IInv, SecondPass
  PROVE  IInv'
<1>1. Context /\ Remembered
  BY DEF IInv, SecondPass
<1>2. /\ a \in Ctx /\ seen \in Seq(Int) /\ src \in Seq(Line)
      /\ a.loc \in Int /\ a.org \in Int /\ Len(seen) = Len(src)
  BY <1>1 DEF Context, Ctx, Remembered, SecondPass
<1>3. /\ a' = [a EXCEPT !.pass = 2, !.line = 1, !.loc = a.org, !.hi = a.org]
      /\ seen' = Append(seen, a.loc)
      /\ src' = src /\ result' = result /\ result = "none"
  BY DEF SecondPass
<1>4. /\ a' \in Ctx /\ a'.out = a.out /\ a'.loc = a.org /\ a'.syms = a.syms
      /\ a'.org = a.org /\ a'.pass = 2 /\ a'.line = 1 /\ a'.failed = a.failed
  BY <1>2, <1>3 DEF Ctx
<1>5. /\ seen' \in Seq(Int) /\ Len(seen') = Len(src) + 1
      /\ \A k \in 1..Len(src) : seen'[k] = seen[k]
      /\ \A k \in 0..Len(src) : seen'[k + 1] = Ends(k)
  BY <1>2, <1>3 DEF Ends
<1>6. \A k \in 0..Len(src) : Ends(k)' = Ends(k)
  BY <1>2, <1>5 DEF Ends
<1>7. Context'
  BY <1>1, <1>2, <1>3, <1>4, <1>5 DEF Context
<1>8. Remembered'
  <2>1. \A k \in 1..Len(src) : Replays(src[k], a.org, a.syms, seen'[k], Ends(k)')
    BY <1>1, <1>2, <1>5, <1>6 DEF Remembered
  <2>2. Ends(0)' = a.org
    BY <1>1, <1>2, <1>6 DEF Remembered
  <2> QED
    BY <1>2, <1>3, <1>4, <1>5, <2>1, <2>2 DEF Remembered
<1>9. PassesAgree'
  <2>1. seen'[1] = a.org
    BY <1>1, <1>2, <1>5 DEF Remembered
  <2> QED
    BY <1>4, <2>1 DEF PassesAgree
<1> QED
  BY <1>7, <1>8, <1>9 DEF IInv

LEMMA ReturnHolds ==
  ASSUME IInv, Return
  PROVE  IInv'
<1>1. /\ Context /\ Remembered /\ PassesAgree /\ ~a.failed
      /\ src' = src /\ a' = a /\ seen' = seen
  BY DEF IInv, Return, Context
<1>2. Context'
  BY <1>1 DEF Context
<1>3. Remembered'
  BY <1>1 DEF Remembered, Ends
<1>4. PassesAgree'
  BY <1>1 DEF PassesAgree, IInv, Return
<1> QED
  BY <1>2, <1>3, <1>4 DEF IInv

\* The inductive invariant: pass 1 leaves behind what pass 2 will do.
THEOREM Inductive == Spec => []IInv
<1>1. IInv /\ [Next]_vars => IInv'
  <2> SUFFICES ASSUME IInv, [Next]_vars PROVE IInv'
    OBVIOUS
  <2>1. CASE ProcessLine
    BY <2>1, ProcessLineHolds
  <2>2. CASE SecondPass
    BY <2>2, SecondPassHolds
  <2>3. CASE Return
    BY <2>3, ReturnHolds
  <2>4. CASE UNCHANGED vars
    BY <2>4 DEF vars, IInv, Context, Remembered, Ends, PassesAgree
  <2> QED
    BY <2>1, <2>2, <2>3, <2>4 DEF Next
<1> QED
  BY <1>1, InitHolds, PTL DEF Spec

\* Pass 2 finds every line where pass 1 put it, so every label has the
\* address its code is assembled at (process_line, called once a pass).
THEOREM PassesAlwaysAgree == Spec => []PassesAgree
<1>1. IInv => PassesAgree
  BY DEF IInv, PassesAgree
<1> QED
  BY <1>1, Inductive, PTL

\* put_byte() never writes outside of the caller's buffer.
THEOREM NeverBeyondCapacity == Spec => []WithinCapacity
<1>1. IInv => WithinCapacity
  BY DEF IInv, Context, WithinCapacity
<1> QED
  BY <1>1, Inductive, PTL

-----------------------------------------------------------------------------
(***************************************************************************)
(* Second part: the image the Assembler leaves in out, for every source    *)
(* text and every origin: constants have the value both passes give them,  *)
(* no byte below len is left undefined, and a branch lands on what was     *)
(* assembled at its label.                                                 *)
(*                                                                         *)
(* The invariant says what pass 1 has fixed (SymbolsHold), that neither    *)
(* pass leaves a gap below hi (Dense), and of which line each byte of out  *)
(* is (Tagged).  It rests on the invariant above: a line is at the address *)
(* where pass 1 left it.                                                   *)
(***************************************************************************)

\* The symbol has the value that pass 2 would give it.
GivesAgain(t, st) ==
  /\ ~EvalFails(t, st.e, TRUE)
  /\ st.name \in DOMAIN t.syms
  /\ t.syms[st.name] = Eval(t, st.e) % Space

LabelsAt(t, labels, x) ==
  \A i \in DOMAIN labels : labels[i] \in DOMAIN t.syms /\ t.syms[labels[i]] = x

\* What pass 1 has fixed of a line that was at address x.
LineHolds(t, l, x) ==
  /\ l.st.op = "equ" => GivesAgain(t, l.st)
  /\ LabelsAt(t, l.labels, x)

SymbolsHold ==
  \A k \in DOMAIN src : a.pass = 2 \/ k < a.line => LineHolds(a, src[k], seen[k])

\* No gap below hi, where the counter always is.
DenseIn(t) ==
  /\ t.org \in 0..Space - 1 /\ t.loc \in 0..Space - 1
  /\ t.loc <= t.hi /\ t.hi <= Space - 1
  /\ t.pass = 2 => 0..t.hi - t.org - 1 \subseteq DOMAIN t.out

\* A byte of a branch: where it is and what it encodes.
BranchByte(t, st, from, x, arg) ==
  /\ from % 4 = 0
  /\ x + t.org \in from..from + 3
  /\ ~EvalFails(t, st.e, TRUE)
  /\ arg = Eval(t, st.e) - (from + 8)

Tagged ==
  /\ a.pass = 1 => DOMAIN a.out = {}
  /\ \A x \in DOMAIN a.out :
       LET j == a.out[x].line
       IN  /\ j \in DOMAIN src /\ j < a.line
           /\ src[j].st.op = "branch" => BranchByte(a, src[j].st, seen[j], x, a.out[x].arg)
  /\ a.pass = 2 =>
       \A k \in DOMAIN src : k < a.line /\ src[k].st.op \in {"branch", "word"} =>
         seen[k] - a.org \in DOMAIN a.out /\ a.out[seen[k] - a.org].line >= k

SeenInSpace == \A k \in DOMAIN seen : seen[k] \in 0..Space - 1

Laid == SymbolsHold /\ DenseIn(a) /\ Tagged /\ SeenInSpace

\* The assembler returns after the last line of pass 2.
Finished == result = "ok" => a.pass = 2 /\ a.line = Len(src) + 1

ImageInv == IInv /\ Finished /\ (result # "err" => Laid)

-----------------------------------------------------------------------------
(* The counter and the bytes of one Emit *)

LEMMA ModFacts ==
  ASSUME NEW x \in Int
  PROVE  /\ x % Space \in 0..Space - 1
         /\ x \in 0..Space - 1 => x % Space = x
BY AssemblerAssumption

\* The bytes at the places in P are now the line's.
Puts(t, u, P, arg) ==
  /\ DOMAIN u.out = DOMAIN t.out \cup P
  /\ \A x \in DOMAIN u.out :
       u.out[x] = IF x \in P THEN [line |-> t.line, arg |-> arg] ELSE t.out[x]

LEMMA EmitLays ==
  ASSUME NEW t \in Ctx, DenseIn(t), NEW k \in Nat, NEW arg \in Int, ~Emit(t, k, arg).failed
  PROVE  /\ DenseIn(Emit(t, k, arg))
         /\ t.pass = 1 => Emit(t, k, arg).out = t.out
         /\ t.pass = 2 =>
              Puts(t, Emit(t, k, arg), {((t.loc + i) % Space) - t.org : i \in 0..k - 1}, arg)
<1> DEFINE at(i)   == (t.loc + i) % Space
           fits(i) == t.pass = 2 => HasRoom(t, at(i))
           put == {at(i) - t.org : i \in {j \in 0..k - 1 : \A h \in 0..j : fits(h)}}
           all == {at(i) - t.org : i \in 0..k - 1}
           hi  == IF t.loc + k >= Space THEN Space - 1
                  ELSE IF t.loc + k > t.hi THEN t.loc + k ELSE t.hi
           out == IF t.pass = 1 THEN t.out
                  ELSE [x \in DOMAIN t.out \cup put |->
                          IF x \in put THEN [line |-> t.line, arg |-> arg] ELSE t.out[x]]
           failed == \E i \in 0..k - 1 : ~fits(i)
           u == Emit(t, k, arg)
<1>1. u = [t EXCEPT !.loc = at(k), !.hi = hi, !.out = out, !.failed = failed]
  BY DEF Emit
<1>2. t.loc \in 0..Space - 1 /\ t.hi \in Int /\ t.org \in Int /\ t.loc <= t.hi /\ t.hi <= Space - 1
  BY DEF Ctx, DenseIn
<1>3. Space \in Nat /\ \A i \in Int : at(i) \in 0..Space - 1
  BY <1>2, ModFacts, AssemblerAssumption
<1>4. \A i \in Int : t.loc + i \in 0..Space - 1 => at(i) = t.loc + i
  BY <1>2, ModFacts
<1> HIDE DEF at
<1>5. u.failed = failed /\ u.loc = at(k) /\ u.hi = hi /\ u.out = out /\ u.org = t.org /\ u.pass = t.pass
  <2> HIDE DEF failed, hi, out
  <2> QED
    BY <1>1 DEF Ctx
<1> HIDE DEF u
<1>6. \A i \in 0..k - 1 : fits(i)
  <2>1. ~failed
    BY <1>5 DEF u
  <2> QED
    BY <2>1
<1> HIDE DEF fits
<1>7. put = all
  <2>1. {j \in 0..k - 1 : \A h \in 0..j : fits(h)} = 0..k - 1
    BY <1>6
  <2> QED
    BY <2>1
<1>8. u.loc \in 0..Space - 1 /\ u.loc <= hi /\ hi <= Space - 1
  <2>1. t.loc + k < Space => at(k) = t.loc + k
    BY <1>2, <1>3, <1>4
  <2>2. at(k) \in 0..Space - 1
    BY <1>3
  <2> QED
    BY <1>2, <1>3, <1>5, <2>1, <2>2
<1>9. ASSUME t.pass = 2
      PROVE  0..hi - t.org - 1 \subseteq DOMAIN t.out \cup all
  <2> SUFFICES ASSUME NEW x \in 0..hi - t.org - 1, ~(x \in DOMAIN t.out)
               PROVE  x \in all
    OBVIOUS
  <2>1. 0..t.hi - t.org - 1 \subseteq DOMAIN t.out
    BY <1>9 DEF DenseIn
  <2>2. x > t.hi - t.org - 1 /\ x \in Int
    BY <1>2, <2>1
  <2> DEFINE i == x + t.org - t.loc
  <2>3. i \in 0..k - 1 /\ t.loc + i \in 0..Space - 1 /\ t.loc + i = x + t.org
    BY <1>2, <1>3, <2>2
  <2>4. at(i) - t.org = x
    BY <1>2, <1>4, <2>2, <2>3
  <2> HIDE DEF i
  <2> QED
    BY <2>3, <2>4
<1>10. t.pass = 2 => Puts(t, u, all, arg)
  <2> SUFFICES ASSUME t.pass = 2 PROVE Puts(t, u, all, arg)
    OBVIOUS
  <2>1. u.out = [x \in DOMAIN t.out \cup all |->
                   IF x \in all THEN [line |-> t.line, arg |-> arg] ELSE t.out[x]]
    <3> HIDE DEF put, all
    <3>1. out = [x \in DOMAIN t.out \cup put |->
                   IF x \in put THEN [line |-> t.line, arg |-> arg] ELSE t.out[x]]
      OBVIOUS
    <3> HIDE DEF out
    <3> QED
      BY <1>5, <1>7, <3>1
  <2> HIDE DEF all
  <2> QED
    BY <2>1 DEF Puts
<1>11. DenseIn(u)
  <2>1. t.pass = 2 => DOMAIN u.out = DOMAIN t.out \cup all
    BY <1>10 DEF Puts
  <2> HIDE DEF hi, all
  <2> QED
    BY <1>2, <1>5, <1>8, <1>9, <2>1 DEF DenseIn
<1> QED
  BY <1>5, <1>10, <1>11 DEF u, at

-----------------------------------------------------------------------------
(* What a line puts into the image *)

\* A byte of u.out is the old one or one of this line, whose statement is st.
Lays(t, u, st) ==
  /\ DenseIn(u)
  /\ t.pass = 1 => u.out = t.out
  /\ t.pass = 2 =>
       /\ DOMAIN t.out \subseteq DOMAIN u.out
       /\ \A x \in DOMAIN u.out :
            \/ x \in DOMAIN t.out /\ u.out[x] = t.out[x]
            \/ /\ u.out[x].line = t.line
               /\ st.op = "branch" => BranchByte(t, st, t.loc, x, u.out[x].arg)
       /\ st.op \in {"branch", "word"} =>
            t.loc - t.org \in DOMAIN u.out /\ u.out[t.loc - t.org].line = t.line

LEMMA NothingLaid ==
  ASSUME NEW t, NEW u, NEW st, st.op \notin {"branch", "word"}, u.out = t.out, DenseIn(u)
  PROVE  Lays(t, u, st)
BY DEF Lays

LEMMA FillsLay ==
  ASSUME NEW t \in Ctx, DenseIn(t), NEW k \in Nat, NEW arg \in Int, NEW st,
         st.op \notin {"branch", "word"}, ~Emit(t, k, arg).failed
  PROVE  Lays(t, Emit(t, k, arg), st)
<1> DEFINE u == Emit(t, k, arg)
           P == {((t.loc + i) % Space) - t.org : i \in 0..k - 1}
<1>1. DenseIn(u) /\ (t.pass = 1 => u.out = t.out) /\ (t.pass = 2 => Puts(t, u, P, arg))
  BY EmitLays
<1> HIDE DEF u, P
<1>2. Lays(t, u, st)
  BY <1>1 DEF Lays, Puts
<1> QED
  BY <1>2 DEF u

LEMMA WordsLay ==
  ASSUME NEW t \in Ctx, DenseIn(t), NEW arg \in Int, NEW st, ~Emit(t, 4, arg).failed,
         st.op = "branch" /\ t.pass = 2 =>
           t.loc % 4 = 0 /\ ~EvalFails(t, st.e, TRUE) /\ arg = Eval(t, st.e) - (t.loc + 8)
  PROVE  Lays(t, Emit(t, 4, arg), st)
<1> DEFINE u == Emit(t, 4, arg)
           P == {((t.loc + i) % Space) - t.org : i \in 0..3}
           b == [line |-> t.line, arg |-> arg]
<1>1. DenseIn(u) /\ (t.pass = 1 => u.out = t.out) /\ (t.pass = 2 => Puts(t, u, P, arg))
  <2> DEFINE R == {((t.loc + i) % Space) - t.org : i \in 0..4 - 1}
  <2>1. DenseIn(u) /\ (t.pass = 1 => u.out = t.out) /\ (t.pass = 2 => Puts(t, u, R, arg))
    BY EmitLays
  <2>2. 4 - 1 = 3
    OBVIOUS
  <2> QED
    BY <2>1, <2>2
<1>2. t.loc \in 0..Space - 1 /\ t.org \in Int /\ Space \in Nat /\ Space % 4 = 0
  BY AssemblerAssumption DEF Ctx, DenseIn
<1>3. t.loc % 4 = 0 => \A i \in 0..3 : (t.loc + i) % Space = t.loc + i
  <2> SUFFICES ASSUME t.loc % 4 = 0, NEW i \in 0..3 PROVE (t.loc + i) % Space = t.loc + i
    OBVIOUS
  <2>1. t.loc + i \in 0..Space - 1
    BY <1>2
  <2> QED
    BY <2>1, ModFacts
<1>4. t.loc - t.org \in P
  <2>1. (t.loc + 0) % Space = t.loc
    BY <1>2, ModFacts
  <2> QED
    BY <2>1
<1>5. ASSUME NEW x \in P, st.op = "branch", t.pass = 2
      PROVE  BranchByte(t, st, t.loc, x, arg)
  <2>1. PICK i \in 0..3 : x = ((t.loc + i) % Space) - t.org
    OBVIOUS
  <2>2. (t.loc + i) % Space = t.loc + i
    BY <1>3, <1>5
  <2>3. x + t.org \in t.loc..t.loc + 3
    <3>1. x = (t.loc + i) - t.org
      BY <2>1, <2>2
    <3> QED
      BY <1>2, <3>1
  <2> HIDE DEF P
  <2> QED
    BY <1>5, <2>3 DEF BranchByte
<1> HIDE DEF u, P
<1>6. ASSUME t.pass = 2
      PROVE  Lays(t, u, st)
  <2>1. /\ DOMAIN u.out = DOMAIN t.out \cup P
        /\ \A x \in DOMAIN u.out : u.out[x] = IF x \in P THEN b ELSE t.out[x]
    BY <1>1, <1>6 DEF Puts
  <2>2. \A x \in DOMAIN u.out :
            \/ x \in DOMAIN t.out /\ u.out[x] = t.out[x]
            \/ x \in P /\ u.out[x] = b
    BY <2>1
  <2>3. \A x \in DOMAIN u.out :
            \/ x \in DOMAIN t.out /\ u.out[x] = t.out[x]
            \/ /\ u.out[x].line = t.line
               /\ st.op = "branch" => BranchByte(t, st, t.loc, x, u.out[x].arg)
    <3> SUFFICES ASSUME NEW x \in P, u.out[x] = b
                 PROVE  /\ u.out[x].line = t.line
                        /\ st.op = "branch" => BranchByte(t, st, t.loc, x, u.out[x].arg)
      BY <2>2
    <3>1. u.out[x].line = t.line /\ u.out[x].arg = arg
      OBVIOUS
    <3> QED
      BY <1>5, <1>6, <3>1
  <2>4. t.loc - t.org \in DOMAIN u.out /\ u.out[t.loc - t.org].line = t.line
    BY <1>4, <2>1
  <2> QED
    BY <1>1, <1>6, <2>1, <2>3, <2>4 DEF Lays
<1>7. ASSUME t.pass = 1
      PROVE  Lays(t, u, st)
  BY <1>1, <1>7 DEF Lays
<1>8. Lays(t, u, st)
  BY <1>6, <1>7 DEF Ctx
<1> QED
  BY <1>8 DEF u

LEMMA StatementLays ==
  ASSUME NEW t \in Ctx, NEW st \in Statement, DenseIn(t), ~Statements(t, st).failed
  PROVE  Lays(t, Statements(t, st), st)
<1> DEFINE e == st.e
           v == Eval(t, e)
           u == Statements(t, st)
<1>1. Fail(t).failed
  BY FailFacts
<1>2. st.op # "none" => v \in Int
  BY StatementFields, EvalType
<1>3. /\ t.loc \in 0..Space - 1 /\ t.org \in 0..Space - 1 /\ t.hi \in Int /\ t.loc <= t.hi
      /\ t.hi <= Space - 1 /\ Space \in Nat /\ Space > 0 /\ t.pass \in {1, 2}
  BY AssemblerAssumption DEF Ctx, DenseIn
<1> HIDE DEF v
<1>4. CASE st.op = "none"
  BY <1>4, NothingLaid DEF Statements
<1>5. CASE st.op = "branch"
  <2>1. u = Branch(t, e)
    BY <1>5 DEF Statements
  <2>2. t.loc % 4 = 0
    BY <1>1, <2>1 DEF Branch
  <2>3. CASE t.pass = 1
    <3> DEFINE next == (t.loc + 4) % Space
               hi == IF next > t.hi THEN next ELSE t.hi
    <3>1. u = [t EXCEPT !.loc = next, !.hi = hi]
      BY <2>1, <2>2, <2>3 DEF Branch
    <3>2. next \in 0..Space - 1
      BY <1>3, ModFacts
    <3>3. next <= hi /\ hi <= Space - 1
      BY <1>3, <3>2
    <3> HIDE DEF next, hi, u
    <3>4. u.out = t.out /\ u.loc = next /\ u.hi = hi /\ u.org = t.org /\ u.pass = 1
      BY <2>3, <3>1 DEF Ctx
    <3>5. DenseIn(u)
      BY <1>3, <3>2, <3>3, <3>4 DEF DenseIn
    <3> QED
      BY <2>3, <3>4, <3>5 DEF Lays, u
  <2>4. CASE t.pass = 2
    <3>1. ~EvalFails(t, e, FALSE) /\ u = Emit(t, 4, v - (t.loc + 8))
      <4>1. Branch(t, e) \in {Fail(t), Emit(t, 4, v - (t.loc + 8))}
        BY <2>2, <2>4 DEF Branch, Displacement, v
      <4>2. EvalFails(t, e, FALSE) => Branch(t, e) = Fail(t)
        BY <2>2, <2>4 DEF Branch
      <4> HIDE DEF u
      <4>3. ~u.failed
        BY DEF u
      <4> QED
        BY <1>1, <2>1, <4>1, <4>2, <4>3
    <3>2. ~EvalFails(t, e, TRUE)
      BY <2>4, <3>1 DEF EvalFails
    <3>3. v - (t.loc + 8) \in Int
      BY <1>2, <1>3, <1>5
    <3> QED
      BY <2>2, <3>1, <3>2, <3>3, WordsLay DEF v
  <2> QED
    BY <1>3, <2>3, <2>4
<1>6. CASE st.op = "word"
  <2>1. u = Emit(t, 4, v)
    BY <1>1, <1>6 DEF Statements, Word, v
  <2> QED
    BY <1>2, <1>6, <2>1, WordsLay
<1>7. CASE st.op = "org"
  <2>1. /\ v \in t.org..Space - 1
        /\ u = IF v > t.loc THEN Emit(t, v - t.loc, 0) ELSE [t EXCEPT !.loc = v]
    BY <1>1, <1>7 DEF Statements, Org, v
  <2>2. CASE v > t.loc
    <3>1. v - t.loc \in Nat
      BY <1>2, <1>3, <1>7, <2>2
    <3> QED
      BY <1>7, <2>1, <2>2, <3>1, FillsLay
  <2>3. CASE ~(v > t.loc)
    <3> HIDE DEF u
    <3>1. u = [t EXCEPT !.loc = v]
      BY <2>1, <2>3
    <3>2. u.out = t.out /\ u.loc = v /\ u.hi = t.hi /\ u.org = t.org /\ u.pass = t.pass
      BY <3>1 DEF Ctx
    <3>3. v \in 0..Space - 1 /\ v <= t.hi
      BY <1>2, <1>3, <1>7, <2>1, <2>3
    <3>4. DenseIn(u)
      BY <1>3, <3>2, <3>3 DEF DenseIn
    <3> QED
      BY <1>7, <3>2, <3>4, NothingLaid DEF u
  <2> QED
    BY <2>2, <2>3
<1>8. CASE st.op = "space"
  <2>1. u = Emit(t, v, 0) /\ v \in 0..MaxSpace
    BY <1>1, <1>8 DEF Statements, SpaceOut, v
  <2>2. v \in Nat
    BY <1>2, <1>8, <2>1
  <2> QED
    BY <1>8, <2>1, <2>2, FillsLay
<1>9. CASE st.op = "align"
  <2> DEFINE m == IF v > Space THEN Space ELSE v
  <2>1. ~(v <= 0) /\ u = Emit(t, (-t.loc) % m, 0)
    BY <1>1, <1>9 DEF Statements, AlignTo, v
  <2>2. (-t.loc) % m \in Nat
    <3>1. m \in Int /\ m > 0 /\ -t.loc \in Int
      BY <1>2, <1>3, <1>9, <2>1
    <3> HIDE DEF m
    <3> QED
      BY <3>1
  <2> QED
    BY <1>9, <2>1, <2>2, FillsLay
<1>10. CASE st.op = "equ"
  <2>1. u = Define(t, st.name, v)
    BY <1>1, <1>10 DEF Statements, Equ, v
  <2>2. u.out = t.out /\ u.loc = t.loc /\ u.hi = t.hi /\ u.org = t.org /\ u.pass = t.pass
    BY <2>1 DEF Define, Fail, Ctx
  <2> HIDE DEF u
  <2>3. DenseIn(u)
    BY <2>2 DEF DenseIn
  <2> QED
    BY <1>10, <2>2, <2>3, NothingLaid DEF u
<1> QED
  BY <1>4, <1>5, <1>6, <1>7, <1>8, <1>9, <1>10, StatementFields

LEMMA LineLays ==
  ASSUME NEW t \in Ctx, NEW l \in Line, DenseIn(t), ~Processed(t, l).failed
  PROVE  Lays(t, Processed(t, l), l.st)
<1> DEFINE d == DefineLabels(t, l.labels)
           u == Processed(t, l)
<1>1. l.labels \in Seq(Names) /\ l.st \in Statement
  BY DEF Line
<1>2. Defines(t, d)
  BY <1>1, DefineLabelsFacts
<1>3. d.hi = t.hi /\ d.out = t.out
  BY DEF DefineLabels, Fail, Ctx
<1>4. ~d.failed /\ u = Statements(d, l.st)
  BY DEF Processed
<1> HIDE DEF d, u
<1>5. d \in Ctx /\ DenseIn(d) /\ d.pass = t.pass /\ (t.pass = 2 => d = t)
  BY <1>2, <1>3 DEF Defines, Within, DenseIn
<1>6. Lays(d, u, l.st)
  BY <1>1, <1>4, <1>5, StatementLays DEF u
<1>7. Lays(t, u, l.st)
  <2>1. CASE t.pass = 2
    BY <1>5, <1>6, <2>1
  <2>2. CASE t.pass = 1
    BY <1>3, <1>5, <1>6, <2>2 DEF Lays
  <2> QED
    BY <2>1, <2>2 DEF Ctx
<1> QED
  BY <1>7 DEF u

-----------------------------------------------------------------------------
(* What a line of pass 1 fixes *)

LEMMA LabelsDefined ==
  ASSUME NEW t \in Ctx, NEW labels \in Seq(Names), t.pass = 1, ~DefineLabels(t, labels).failed
  PROVE  LabelsAt(DefineLabels(t, labels), labels, t.loc)
<1> DEFINE xs == {labels[i] : i \in DOMAIN labels}
           g  == [y \in DOMAIN t.syms \cup xs |-> IF y \in xs THEN t.loc ELSE t.syms[y]]
           d  == DefineLabels(t, labels)
<1>1. Fail(t).failed
  BY FailFacts
<1>2. d = [t EXCEPT !.syms = g]
  BY <1>1 DEF DefineLabels
<1> HIDE DEF g, d
<1>3. d.syms = g
  BY <1>2 DEF Ctx
<1>4. \A i \in DOMAIN labels : labels[i] \in DOMAIN g /\ g[labels[i]] = t.loc
  BY DEF g
<1>5. LabelsAt(d, labels, t.loc)
  BY <1>3, <1>4 DEF LabelsAt
<1> QED
  BY <1>5 DEF d

LEMMA GivesLater ==
  ASSUME NEW t, NEW u, NEW st, Extends(u.syms, t.syms), None \notin DOMAIN u.syms,
         GivesAgain(t, st)
  PROVE  GivesAgain(u, st)
<1>1. ~EvalFails(t, st.e, TRUE) /\ st.name \in DOMAIN t.syms
      /\ t.syms[st.name] = Eval(t, st.e) % Space
  BY DEF GivesAgain
<1>2. Eval(u, st.e) = Eval(t, st.e)
  BY <1>1, EvalExtends
<1>3. ~EvalFails(u, st.e, TRUE)
  BY <1>1 DEF EvalFails, Extends
<1>4. st.name \in DOMAIN u.syms /\ u.syms[st.name] = t.syms[st.name]
  BY <1>1 DEF Extends
<1> QED
  BY <1>1, <1>2, <1>3, <1>4 DEF GivesAgain

LEMMA EquDefines ==
  ASSUME NEW t \in Ctx, NEW st \in Statement, t.pass = 1, st.op = "equ",
         ~Statements(t, st).failed
  PROVE  GivesAgain(Statements(t, st), st)
<1> DEFINE x == st.name
           v == Eval(t, st.e)
           g == [y \in DOMAIN t.syms \cup {x} |-> IF y = x THEN v % Space ELSE t.syms[y]]
           u == Statements(t, st)
<1>1. Fail(t).failed
  BY FailFacts
<1>2. ~EvalFails(t, st.e, TRUE) /\ u = Define(t, x, v)
  BY <1>1 DEF Statements, Equ
<1>3. u = [t EXCEPT !.syms = g] /\ x \notin DOMAIN t.syms
  <2>1. ~u.failed
    OBVIOUS
  <2>2. Define(t, x, v) = Fail(t) \/ (Define(t, x, v) = [t EXCEPT !.syms = g] /\ x \notin DOMAIN t.syms)
    BY DEF Define
  <2> HIDE DEF u, g, v, x
  <2> QED
    BY <1>1, <1>2, <2>1, <2>2
<1>4. Does(t, u)
  BY StatementFacts
<1> HIDE DEF u, g, v
<1>5. u.syms = g
  BY <1>3 DEF Ctx
<1>6. x \in DOMAIN g /\ g[x] = v % Space
  BY DEF g
<1>7. Eval(u, st.e) = v /\ ~EvalFails(u, st.e, TRUE)
  <2>1. Extends(u.syms, t.syms) /\ None \notin DOMAIN u.syms
    BY <1>4, TableDomain DEF Does
  <2>2. ~EvalFails(u, st.e, TRUE)
    BY <1>2, <2>1 DEF EvalFails, Extends
  <2> QED
    BY <1>2, <2>1, <2>2, EvalExtends DEF v
<1>8. GivesAgain(u, st)
  BY <1>5, <1>6, <1>7 DEF GivesAgain
<1> QED
  BY <1>8 DEF u

LEMMA LabelsLater ==
  ASSUME NEW t, NEW u, NEW labels, NEW x, Extends(u.syms, t.syms), LabelsAt(t, labels, x)
  PROVE  LabelsAt(u, labels, x)
BY DEF Extends, LabelsAt

LEMMA HoldsLater ==
  ASSUME NEW t, NEW u, NEW l, NEW x, Extends(u.syms, t.syms), None \notin DOMAIN u.syms,
         LineHolds(t, l, x)
  PROVE  LineHolds(u, l, x)
BY GivesLater, LabelsLater DEF LineHolds

LEMMA LineDefines ==
  ASSUME NEW t \in Ctx, NEW l \in Line, t.pass = 1, ~Processed(t, l).failed
  PROVE  LineHolds(Processed(t, l), l, t.loc)
<1> DEFINE d == DefineLabels(t, l.labels)
           u == Processed(t, l)
<1>1. l.labels \in Seq(Names) /\ l.st \in Statement
  BY DEF Line
<1>2. ~d.failed /\ u = Statements(d, l.st)
  BY DEF Processed
<1>3. Defines(t, d) /\ LabelsAt(d, l.labels, t.loc)
  BY <1>1, <1>2, DefineLabelsFacts, LabelsDefined
<1> HIDE DEF d
<1>4. d \in Ctx /\ d.pass = 1 /\ Does(d, u)
  BY <1>1, <1>2, <1>3, StatementFacts DEF Defines, Within
<1>5. LabelsAt(u, l.labels, t.loc)
  BY <1>3, <1>4, LabelsLater DEF Does
<1>6. l.st.op = "equ" => GivesAgain(u, l.st)
  BY <1>1, <1>2, <1>4, EquDefines
<1> HIDE DEF u
<1>7. LineHolds(u, l, t.loc)
  BY <1>5, <1>6 DEF LineHolds
<1> QED
  BY <1>7 DEF u

-----------------------------------------------------------------------------
(* The invariant *)

LEMMA BranchByteKept ==
  ASSUME NEW t, NEW u, u.org = t.org, u.syms = t.syms, NEW st, NEW from, NEW x, NEW arg,
         BranchByte(t, st, from, x, arg)
  PROVE  BranchByte(u, st, from, x, arg)
<1>1. Eval(u, st.e) = Eval(t, st.e) /\ (EvalFails(u, st.e, TRUE) => EvalFails(t, st.e, TRUE))
  BY DEF Eval, Val, EvalFails
<1> QED
  BY <1>1 DEF BranchByte

LEMMA InitLaid == Init => Laid
<1> SUFFICES ASSUME Init PROVE Laid
  OBVIOUS
<1>1. PICK org \in Origins :
        a = [org |-> org, loc |-> org, hi |-> org, pass |-> 1, line |-> 1,
             syms |-> NoSyms, out |-> NoBytes, failed |-> FALSE]
  BY DEF Init
<1>2. org \in 0..Space - 1 /\ DOMAIN NoBytes = {} /\ seen = <<>> /\ src \in Seq(Line)
  BY AssemblerAssumption, LinesOfSource DEF NoBytes, Init
<1>3. SymbolsHold
  BY <1>1, <1>2 DEF SymbolsHold
<1>4. DenseIn(a)
  BY <1>1, <1>2, AssemblerAssumption DEF DenseIn
<1>5. Tagged
  BY <1>1, <1>2 DEF Tagged
<1> QED
  BY <1>2, <1>3, <1>4, <1>5 DEF Laid, SeenInSpace

LEMMA ProcessLineLays ==
  ASSUME ImageInv, ProcessLine, result' # "err"
  PROVE  Laid'
<1> DEFINE l == src[a.line]
           t == Processed(a, l)
<1>1. Context /\ Remembered /\ PassesAgree /\ Laid
  BY DEF ImageInv, IInv, ProcessLine
<1>2. /\ a \in Ctx /\ l \in Line /\ a.line \in 1..Len(src) /\ src \in Seq(Line) /\ src' = src
      /\ seen \in Seq(Int)
  BY <1>1 DEF ProcessLine, Context
<1>3. ~t.failed /\ a' = [t EXCEPT !.line = @ + 1]
  BY DEF ProcessLine
<1>4. seen' = IF a.pass = 1 THEN Append(seen, a.loc) ELSE seen
  BY DEF ProcessLine
<1>5. Does(a, t) /\ Lays(a, t, l.st)
  BY <1>1, <1>2, <1>3, ProcessedFacts, LineLays DEF Laid
<1>6. a.pass = 1 => LineHolds(t, l, a.loc)
  BY <1>2, <1>3, LineDefines
<1> HIDE DEF t
<1>7. /\ a'.out = t.out /\ a'.syms = t.syms /\ a'.loc = t.loc /\ a'.hi = t.hi
      /\ a'.org = a.org /\ a'.pass = a.pass /\ a'.line = a.line + 1
      /\ t.org = a.org /\ t.pass = a.pass /\ Extends(t.syms, a.syms)
      /\ None \notin DOMAIN t.syms
  BY <1>3, <1>5, TableDomain DEF Ctx, Does, Within
<1>8. a.pass \in {1, 2} /\ a.line \in Nat /\ a.loc \in Int
  BY <1>2 DEF Ctx
<1>9. /\ \A k \in DOMAIN src : a.pass = 2 \/ k < a.line => seen'[k] = seen[k]
      /\ seen'[a.line] = a.loc
      /\ a.pass = 1 => DOMAIN seen' = 1..a.line
  <2>1. CASE a.pass = 1
    <3>1. Len(seen) = a.line - 1 /\ seen' = Append(seen, a.loc)
      BY <1>1, <1>4, <2>1 DEF Remembered
    <3> QED
      BY <1>2, <1>8, <2>1, <3>1
  <2>2. CASE a.pass = 2
    <3>1. seen' = seen /\ a.loc = seen[a.line]
      BY <1>1, <1>4, <2>2 DEF PassesAgree, ProcessLine
    <3> QED
      BY <2>2, <3>1
  <2> QED
    BY <1>8, <2>1, <2>2
<1>10. SymbolsHold'
  <2> SUFFICES ASSUME NEW k \in DOMAIN src, a.pass = 2 \/ k < a.line + 1
               PROVE  LineHolds(a', src[k], seen'[k])
    BY <1>2, <1>7 DEF SymbolsHold
  <2>1. CASE a.pass = 2 \/ k < a.line
    <3>1. LineHolds(a, src[k], seen[k])
      BY <1>1, <2>1 DEF Laid, SymbolsHold
    <3>2. Extends(a'.syms, a.syms) /\ None \notin DOMAIN a'.syms
      BY <1>7
    <3>3. LineHolds(a', src[k], seen[k])
      BY <3>1, <3>2, HoldsLater
    <3> QED
      BY <1>9, <2>1, <3>3
  <2>2. CASE a.pass = 1 /\ k = a.line
    <3>1. Extends(a'.syms, t.syms) /\ None \notin DOMAIN a'.syms
      BY <1>7, ExtendsSame
    <3>2. LineHolds(a', l, a.loc)
      BY <1>6, <2>2, <3>1, HoldsLater
    <3> QED
      BY <1>9, <2>2, <3>2
  <2> QED
    BY <1>2, <1>8, <2>1, <2>2
<1>11. DenseIn(a)'
  BY <1>5, <1>7 DEF DenseIn, Lays
<1>12. SeenInSpace'
  <2>1. CASE a.pass = 1
    <3>1. Len(seen) = a.line - 1 /\ a.loc \in 0..Space - 1
      BY <1>1, <2>1 DEF Remembered, Laid, DenseIn
    <3>2. \A k \in 1..a.line - 1 : k \in DOMAIN src /\ k < a.line /\ k \in DOMAIN seen
      BY <1>2, <1>8, <3>1
    <3>3. \A k \in 1..a.line : k = a.line \/ k \in 1..a.line - 1
      BY <1>8
    <3> QED
      BY <1>1, <1>9, <2>1, <3>1, <3>2, <3>3 DEF Laid, SeenInSpace
  <2>2. CASE a.pass = 2
    <3>1. seen' = seen
      BY <1>4, <2>2
    <3> QED
      BY <1>1, <3>1 DEF Laid, SeenInSpace
  <2> QED
    BY <1>8, <2>1, <2>2
<1>13. Tagged'
  <2>1. ASSUME a.pass = 1
        PROVE  Tagged'
    <3>1. DOMAIN a'.out = {}
      BY <1>1, <1>5, <1>7, <2>1 DEF Lays, Laid, Tagged
    <3> QED
      BY <1>7, <2>1, <3>1 DEF Tagged
  <2>2. ASSUME a.pass = 2
        PROVE  Tagged'
    <3>1. seen' = seen /\ a.loc = seen[a.line]
      BY <1>1, <1>4, <2>2 DEF PassesAgree, ProcessLine
    <3>2. t.syms = a.syms
      BY <1>5, <2>2 DEF Does
    <3>3. /\ DOMAIN a.out \subseteq DOMAIN t.out
          /\ \A x \in DOMAIN t.out :
               \/ x \in DOMAIN a.out /\ t.out[x] = a.out[x]
               \/ /\ t.out[x].line = a.line
                  /\ l.st.op = "branch" => BranchByte(a, l.st, a.loc, x, t.out[x].arg)
          /\ l.st.op \in {"branch", "word"} =>
               a.loc - a.org \in DOMAIN t.out /\ t.out[a.loc - a.org].line = a.line
      BY <1>5, <2>2 DEF Lays
    <3>4. \A x \in DOMAIN a.out :
            LET j == a.out[x].line
            IN  /\ j \in DOMAIN src /\ j < a.line
                /\ src[j].st.op = "branch" => BranchByte(a, src[j].st, seen[j], x, a.out[x].arg)
      BY <1>1 DEF Laid, Tagged
    <3>5. \A x \in DOMAIN t.out :
            LET j == t.out[x].line
            IN  /\ j \in DOMAIN src /\ j < a.line + 1
                /\ src[j].st.op = "branch" => BranchByte(a', src[j].st, seen[j], x, t.out[x].arg)
      <4> SUFFICES ASSUME NEW x \in DOMAIN t.out, NEW j, j = t.out[x].line
                   PROVE  /\ j \in DOMAIN src /\ j < a.line + 1
                          /\ src[j].st.op = "branch" =>
                               BranchByte(a', src[j].st, seen[j], x, t.out[x].arg)
        OBVIOUS
      <4>1. /\ j \in DOMAIN src /\ j < a.line + 1
            /\ src[j].st.op = "branch" => BranchByte(a, src[j].st, seen[j], x, t.out[x].arg)
        <5>1. CASE x \in DOMAIN a.out /\ t.out[x] = a.out[x]
          <6>1. /\ j \in DOMAIN src /\ j < a.line
                /\ src[j].st.op = "branch" => BranchByte(a, src[j].st, seen[j], x, a.out[x].arg)
            BY <3>4, <5>1
          <6> QED
            BY <1>2, <1>8, <5>1, <6>1
        <5>2. CASE /\ t.out[x].line = a.line
                   /\ l.st.op = "branch" => BranchByte(a, l.st, a.loc, x, t.out[x].arg)
          <6>1. a.line \in DOMAIN src /\ a.line < a.line + 1
            BY <1>2, <1>8
          <6> QED
            BY <3>1, <5>2, <6>1
        <5> QED
          BY <3>3, <5>1, <5>2
      <4>2. a'.org = a.org /\ a'.syms = a.syms
        BY <1>7, <3>2
      <4> QED
        BY <4>1, <4>2, BranchByteKept
    <3>6. \A k \in DOMAIN src : k < a.line + 1 /\ src[k].st.op \in {"branch", "word"} =>
            seen[k] - a.org \in DOMAIN t.out /\ t.out[seen[k] - a.org].line >= k
      <4> SUFFICES ASSUME NEW k \in DOMAIN src, k < a.line + 1, src[k].st.op \in {"branch", "word"}
                   PROVE  seen[k] - a.org \in DOMAIN t.out /\ t.out[seen[k] - a.org].line >= k
        OBVIOUS
      <4>1. CASE k = a.line
        BY <1>8, <3>1, <3>3, <4>1
      <4>2. CASE k < a.line
        <5> DEFINE x == seen[k] - a.org
        <5>1. x \in DOMAIN a.out /\ a.out[x].line >= k
          BY <1>1, <2>2, <4>2 DEF Laid, Tagged
        <5> HIDE DEF x
        <5>2. x \in DOMAIN t.out /\ (t.out[x] = a.out[x] \/ t.out[x].line = a.line)
          BY <3>3, <5>1
        <5>3. t.out[x].line >= k
          <6>1. CASE t.out[x] = a.out[x]
            BY <5>1, <6>1
          <6>2. CASE t.out[x].line = a.line
            BY <1>2, <1>8, <4>2, <6>2
          <6> QED
            BY <5>2, <6>1, <6>2
        <5> QED
          BY <5>2, <5>3 DEF x
      <4> QED
        BY <1>2, <1>8, <4>1, <4>2
    <3> QED
      BY <1>2, <1>7, <2>2, <3>1, <3>5, <3>6 DEF Tagged
  <2> QED
    BY <1>8, <2>1, <2>2
<1> QED
  BY <1>10, <1>11, <1>12, <1>13 DEF Laid

LEMMA SecondPassLays ==
  ASSUME ImageInv, SecondPass
  PROVE  Laid'
<1>1. Context /\ Remembered /\ Laid
  BY DEF ImageInv, IInv, SecondPass
<1>2. /\ a \in Ctx /\ seen \in Seq(Int) /\ src \in Seq(Line) /\ a.loc \in 0..Space - 1
      /\ a.org \in 0..Space - 1 /\ Len(seen) = Len(src) /\ a.pass = 1 /\ a.line = Len(src) + 1
      /\ Space \in Nat
  BY <1>1, AssemblerAssumption DEF Context, Laid, DenseIn, Remembered, SecondPass
<1>3. /\ a' = [a EXCEPT !.pass = 2, !.line = 1, !.loc = a.org, !.hi = a.org]
      /\ seen' = Append(seen, a.loc)
      /\ src' = src
  BY DEF SecondPass
<1>4. /\ a'.out = a.out /\ a'.loc = a.org /\ a'.hi = a.org /\ a'.syms = a.syms
      /\ a'.org = a.org /\ a'.pass = 2 /\ a'.line = 1 /\ DOMAIN a.out = {}
  BY <1>1, <1>2, <1>3 DEF Ctx, Laid, Tagged
<1>5. \A k \in DOMAIN src : seen'[k] = seen[k] /\ k < a.line
  BY <1>2, <1>3
<1>6. SymbolsHold'
  <2> SUFFICES ASSUME NEW k \in DOMAIN src PROVE LineHolds(a', src[k], seen'[k])
    BY <1>3, <1>4 DEF SymbolsHold
  <2>1. LineHolds(a, src[k], seen[k])
    BY <1>1, <1>5 DEF Laid, SymbolsHold
  <2>2. Extends(a'.syms, a.syms) /\ None \notin DOMAIN a'.syms
    BY <1>2, <1>4, ExtendsSame, TableDomain
  <2>3. LineHolds(a', src[k], seen[k])
    BY <2>1, <2>2, HoldsLater
  <2> QED
    BY <1>5, <2>3
<1>7. DenseIn(a)'
  <2>1. 0..a.org - a.org - 1 = {}
    BY <1>2
  <2> QED
    BY <1>2, <1>4, <2>1 DEF DenseIn
<1>8. Tagged'
  BY <1>2, <1>3, <1>4 DEF Tagged
<1>9. SeenInSpace'
  <2>1. \A k \in DOMAIN seen' : (k \in DOMAIN seen /\ seen'[k] = seen[k]) \/ seen'[k] = a.loc
    BY <1>2, <1>3
  <2> QED
    BY <1>1, <1>2, <2>1 DEF Laid, SeenInSpace
<1> QED
  BY <1>6, <1>7, <1>8, <1>9 DEF Laid

\* The inductive invariant: symbols stay fixed, no gap below hi, every byte of
\* a known line.
THEOREM ImageInductive == Spec => []ImageInv
<1>1. Init => ImageInv
  BY InitHolds, InitLaid DEF ImageInv, Finished, Init
<1>2. ImageInv /\ [Next]_vars => ImageInv'
  <2> SUFFICES ASSUME ImageInv, [Next]_vars PROVE ImageInv'
    OBVIOUS
  <2>0. IInv
    BY DEF ImageInv
  <2>1. CASE ProcessLine
    <3>1. result' # "ok"
      BY <2>1 DEF ProcessLine
    <3> QED
      BY <2>0, <2>1, <3>1, ProcessLineHolds, ProcessLineLays DEF ImageInv, Finished
  <2>2. CASE SecondPass
    <3>1. result' # "ok"
      BY <2>2 DEF SecondPass
    <3> QED
      BY <2>0, <2>2, <3>1, SecondPassHolds, SecondPassLays DEF ImageInv, Finished
  <2>3. CASE Return
    <3>1. src' = src /\ a' = a /\ seen' = seen /\ Laid
      BY <2>3 DEF Return, ImageInv
    <3>2. Laid'
      BY <3>1 DEF Laid, SymbolsHold, DenseIn, Tagged, SeenInSpace
    <3>3. Finished'
      BY <2>3, <3>1 DEF Return, Finished
    <3> QED
      BY <2>0, <2>3, <3>2, <3>3, ReturnHolds DEF ImageInv
  <2>4. CASE UNCHANGED vars
    <3>1. IInv'
      BY <2>0, <2>4 DEF vars, IInv, Context, Remembered, Ends, PassesAgree
    <3>2. result # "err" /\ Laid => Laid'
      BY <2>4 DEF vars, Laid, SymbolsHold, DenseIn, Tagged, SeenInSpace
    <3> QED
      BY <2>4, <3>1, <3>2 DEF ImageInv, Finished, vars
  <2> QED
    BY <2>1, <2>2, <2>3, <2>4 DEF Next
<1> QED
  BY <1>1, <1>2, PTL DEF Spec

LEMMA WordOfByte ==
  ASSUME NEW org \in Int, NEW x \in Int, NEW from \in Int, from % 4 = 0,
         x + org \in from..from + 3
  PROVE  org + x - ((org + x) % 4) = from
<1> DEFINE y == org + x
<1>1. y \in Int /\ y \in from..from + 3
  OBVIOUS
<1> HIDE DEF y
<1>2. y % 4 \in 0..3 /\ y - (y % 4) = from
  BY <1>1
<1>3. org + (x - (y % 4)) = y - (y % 4)
  BY <1>2 DEF y
<1> QED
  BY <1>2, <1>3 DEF y

\* A constant that pass 2 evaluates, and skips, still has the value pass 1
\* gave it (sym_define, .equ in process_line).
THEOREM ConstantsAlwaysAgree == Spec => []ConstantsAgree
<1>1. ImageInv => ConstantsAgree
  <2> SUFFICES ASSUME ImageInv, result = "ok", NEW k \in DOMAIN src, src[k].st.op = "equ"
               PROVE  Eval(a, src[k].st.e) % Space = a.syms[src[k].st.name]
    BY DEF ConstantsAgree
  <2>1. LineHolds(a, src[k], seen[k])
    BY DEF ImageInv, Finished, Laid, SymbolsHold
  <2> QED
    BY <2>1 DEF LineHolds, GivesAgain
<1> QED
  BY <1>1, ImageInductive, PTL

\* No byte of the image the caller gets is one that was never put there: the
\* gaps .org and .align leave are filled (put_byte, process_line).
THEOREM ImageAlwaysDefined == Spec => []ImageDefined
<1>1. ImageInv => ImageDefined
  BY DEF ImageInv, Laid, DenseIn, ImageDefined
<1> QED
  BY <1>1, ImageInductive, PTL

\* The core, running a branch of the image, goes to where the line of the
\* label was assembled (parse_target, and opval of the emulator).
THEOREM BranchesAlwaysLand == Spec => []BranchesLand
<1>1. ImageInv => BranchesLand
  <2> SUFFICES ASSUME ImageInv, result = "ok", NEW x \in DOMAIN a.out,
                      NEW w, w = src[a.out[x].line].st,
                      NEW pc, pc = a.org + x - ((a.org + x) % 4),
                      NEW to, to = ((pc + 8 + a.out[x].arg) % Space) - a.org,
                      w.op = "branch", w.e.n = 0, w.e.sub = None,
                      NEW k \in DOMAIN src,
                      NEW i \in DOMAIN src[k].labels, src[k].labels[i] = w.e.sym,
                      src[k].st.op \in {"branch", "word"}
               PROVE  to \in DOMAIN a.out /\ a.out[to].line >= k
    BY DEF BranchesLand
  <2>1. /\ Context /\ Remembered /\ Laid /\ a \in Ctx /\ src \in Seq(Line)
        /\ a.pass = 2 /\ a.line = Len(src) + 1
    BY DEF ImageInv, IInv, Finished, Context
  <2> DEFINE j == a.out[x].line
             from == seen[j]
             dest == seen[k]
  <2>2. j \in DOMAIN src /\ BranchByte(a, w, from, x, a.out[x].arg)
    BY <2>1 DEF Laid, Tagged
  <2>3. x \in Int /\ a.org \in Int /\ DOMAIN seen = 1..Len(src) + 1
    <3>1. DOMAIN a.out \subseteq 0..Cap - 1 /\ seen \in Seq(Int)
      BY <2>1 DEF Context
    <3> QED
      BY <2>1, <3>1, AssemblerAssumption DEF Ctx, Remembered
  <2>4. from \in 0..Space - 1 /\ dest \in 0..Space - 1
    <3>1. DOMAIN src \subseteq DOMAIN seen
      BY <2>1, <2>3
    <3>2. j \in DOMAIN seen /\ k \in DOMAIN seen
      BY <2>2, <3>1
    <3> QED
      BY <2>1, <3>2 DEF Laid, SeenInSpace
  <2>5. dest - a.org \in DOMAIN a.out /\ a.out[dest - a.org].line >= k
    <3>1. k < a.line
      BY <2>1
    <3> QED
      BY <2>1, <3>1 DEF Laid, Tagged
  <2>6. Eval(a, w.e) = dest
    <3>1. LineHolds(a, src[k], dest)
      BY <2>1 DEF Laid, SymbolsHold
    <3>2. w.e.sym \in DOMAIN a.syms /\ a.syms[w.e.sym] = dest
      BY <3>1 DEF LineHolds, LabelsAt
    <3>3. None \notin DOMAIN a.syms
      BY <2>1, TableDomain
    <3> HIDE DEF dest
    <3>4. Val(a, w.e.sym) = dest /\ Val(a, w.e.sub) = 0
      BY <3>2, <3>3 DEF Val
    <3> QED
      BY <2>4, <3>4 DEF Eval
  <2> HIDE DEF from, dest
  <2>7. from % 4 = 0 /\ x + a.org \in from..from + 3 /\ a.out[x].arg = dest - (from + 8)
    BY <2>2, <2>6 DEF BranchByte
  <2>8. pc = from
    <3>1. x \in Int /\ a.org \in Int /\ from \in Int
      BY <2>3, <2>4, AssemblerAssumption
    <3>2. a.org + x - ((a.org + x) % 4) = from
      BY <2>7, <3>1, WordOfByte
    <3> QED
      BY <3>2
  <2>9. pc + 8 + a.out[x].arg = dest
    <3>1. from \in Int /\ dest \in Int
      BY <2>4, AssemblerAssumption
    <3>2. \A p, r : p = from /\ r = dest - (from + 8) => p + 8 + r = dest
      BY <3>1
    <3> QED
      BY <2>7, <2>8, <3>2, Zenon
  <2>10. to = dest - a.org
    <3>1. dest \in Int
      BY <2>4, AssemblerAssumption
    <3>2. dest % Space = dest
      BY <2>4, <3>1, ModFacts
    <3> QED
      BY <2>9, <3>2
  <2> QED
    BY <2>5, <2>10 DEF dest
<1> QED
  BY <1>1, ImageInductive, PTL
=============================================================================
