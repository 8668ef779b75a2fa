------------------------- MODULE StoreShadowProofs -------------------------
(***************************************************************************)
(* Theorems about StoreShadow, for memories, windows and operands of every *)
(* kind: its types, and that four slots are enough for the shadow.  The    *)
(* invariant behind the second one is that the live slots have different   *)
(* ages: one more instruction empties the oldest, so three of the ages are *)
(* left for four slots when the next store needs one.                      *)
(***************************************************************************)
EXTENDS StoreShadow, TLAPS

Distinct(d) ==
  \A e, f \in Slot : d[e].live /\ d[f].live /\ d[e].rem = d[f].rem => e = f

IInv == TypeOK /\ Distinct(daWr)

-----------------------------------------------------------------------------
(* Memory *)

\* What is mapped has a location.
LEMMA MemPtrType ==
  ASSUME NEW c \in BOOLEAN, NEW x \in Nat, Mapped(c, x)
  PROVE  MemPtr(c, x) \in Loc
  BY MemoryAssumption DEF Mapped, MemPtr, OnChip, Base, Loc

LEMMA AlignType ==
  ASSUME NEW x \in Nat, NEW n \in {1, 2, 4}
  PROVE  Align(x, n) \in Nat
<1>1. x % n \in 0..n - 1 /\ x % n <= x
  <2>1. CASE n = 1
    BY <2>1
  <2>2. CASE n = 2
    BY <2>2
  <2>3. CASE n = 4
    BY <2>3
  <2> QED
    BY <2>1, <2>2, <2>3
<1> QED
  BY <1>1 DEF Align

LEMMA RawReadType ==
  ASSUME TypeOK, NEW x \in Nat, NEW n \in {1, 2, 4}, Whole(comp, x, n)
  PROVE  RawRead(x, n) \in Vector(n)
<1> SUFFICES ASSUME NEW i \in 0..n - 1
             PROVE  mem[MemPtr(comp, x + i)] \in Val
  BY DEF RawRead, Vector
<1>1. i \in Reach(comp, x, n)
  BY DEF Whole
<1>2. Mapped(comp, x + i)
  BY <1>1 DEF Reach
<1> QED
  BY <1>2, MemPtrType DEF TypeOK

LEMMA RawWriteType ==
  ASSUME TypeOK, NEW x, NEW n \in {1, 2, 4}, NEW v \in Vector(n)
  PROVE  RawWrite(x, n, v) \in [Loc -> Val]
<1> DEFINE R(l) == {i \in Reach(comp, x, n) : MemPtr(comp, x + i) = l}
<1> SUFFICES ASSUME NEW l \in Loc, \E i \in Reach(comp, x, n) : MemPtr(comp, x + i) = l
             PROVE  v[CHOOSE i \in Reach(comp, x, n) : MemPtr(comp, x + i) = l] \in Val
  BY DEF RawWrite, TypeOK
<1>1. (CHOOSE i \in Reach(comp, x, n) : MemPtr(comp, x + i) = l) \in Reach(comp, x, n)
  OBVIOUS
<1>2. Reach(comp, x, n) \subseteq 0..n - 1
  BY DEF Reach
<1> QED
  BY <1>1, <1>2 DEF Vector

-----------------------------------------------------------------------------
(* The slots *)

\* A slot that was never used, or was given back.
LEMMA FreeEntry == Free \in Entry /\ ~Free.live
BY DEF Entry, Free

LEMMA EntryFields ==
  ASSUME NEW w \in Entry
  PROVE  /\ w.live \in BOOLEAN
         /\ w.live => w.rem \in 0..3
<1>1. CASE w = Free
  BY <1>1 DEF Free
<1>2. ASSUME NEW n \in {1, 2, 4}, w \in Live(n)
      PROVE  w.live /\ w.rem \in 0..3
  BY <1>2 DEF Live
<1> QED
  BY <1>1, <1>2 DEF Entry

\* A younger entry is an entry.
LEMMA EntryAges ==
  ASSUME NEW w \in Entry, w.live, NEW r \in 0..3
  PROVE  /\ [w EXCEPT !.rem = r] \in Entry
         /\ [w EXCEPT !.rem = r].live
         /\ [w EXCEPT !.rem = r].rem = r
<1>1. w # Free
  BY DEF Free
<1>2. PICK n \in {1, 2, 4} : w \in Live(n)
  BY <1>1 DEF Entry
<1>3. /\ [w EXCEPT !.rem = r] \in Live(n)
      /\ [w EXCEPT !.rem = r].live
      /\ [w EXCEPT !.rem = r].rem = r
  BY <1>2 DEF Live
<1> QED
  BY <1>3 DEF Entry

\* latency_tick() keeps the ages apart and leaves a slot free.
LEMMA TickedFacts ==
  ASSUME NEW d \in [Slot -> Entry], Distinct(d)
  PROVE  /\ Ticked(d) \in [Slot -> Entry]
         /\ Distinct(Ticked(d))
         /\ \A e \in Slot : Ticked(d)[e].live => Ticked(d)[e].rem \in 0..2
         /\ \E e \in Slot : ~Ticked(d)[e].live
<1> DEFINE t == Ticked(d)
<1>1. ASSUME NEW e \in Slot
      PROVE  /\ t[e] \in Entry
             /\ t[e].live => d[e].live /\ d[e].rem \in 1..3 /\ t[e].rem = d[e].rem - 1
  <2>1. d[e] \in Entry /\ d[e].live \in BOOLEAN /\ (d[e].live => d[e].rem \in 0..3)
    BY EntryFields
  <2>2. CASE ~d[e].live
    BY <2>1, <2>2 DEF Ticked
  <2>3. CASE d[e].live /\ d[e].rem = 0
    <3>1. t[e] = Free
      BY <2>3 DEF Ticked
    <3> QED
      BY <3>1, FreeEntry
  <2>4. CASE d[e].live /\ d[e].rem # 0
    <3>1. d[e].rem - 1 \in 0..3
      BY <2>1, <2>4
    <3>2. t[e] = [d[e] EXCEPT !.rem = d[e].rem - 1]
      BY <2>4 DEF Ticked
    <3>3. /\ [d[e] EXCEPT !.rem = d[e].rem - 1] \in Entry
          /\ [d[e] EXCEPT !.rem = d[e].rem - 1].live
          /\ [d[e] EXCEPT !.rem = d[e].rem - 1].rem = d[e].rem - 1
      BY <2>1, <2>4, <3>1, EntryAges
    <3>4. d[e].live /\ d[e].rem \in 1..3
      BY <2>1, <2>4
    <3> HIDE DEF t
    <3> QED
      BY <3>2, <3>3, <3>4
  <2> QED
    BY <2>1, <2>2, <2>3, <2>4
<1>2. t \in [Slot -> Entry]
  BY <1>1 DEF Ticked
<1>3. \A e \in Slot : t[e].live => t[e].rem \in 0..2
  BY <1>1
<1>4. Distinct(t)
  <2> HIDE DEF t
  <2> QED BY <1>1 DEF Distinct
<1>5. \E e \in Slot : ~t[e].live
  <2> HIDE DEF t
  <2> SUFFICES ASSUME \A e \in Slot : t[e].live
               PROVE  FALSE
    OBVIOUS
  <2>1. 0 \in Slot /\ 1 \in Slot /\ 2 \in Slot /\ 3 \in Slot
    BY DEF Slot
  <2>2. /\ t[0].rem \in 0..2 /\ t[1].rem \in 0..2 /\ t[2].rem \in 0..2 /\ t[3].rem \in 0..2
        /\ t[0].rem # t[1].rem /\ t[0].rem # t[2].rem /\ t[0].rem # t[3].rem
        /\ t[1].rem # t[2].rem /\ t[1].rem # t[3].rem /\ t[2].rem # t[3].rem
    BY <1>3, <1>4, <2>1 DEF Distinct
  <2> QED
    BY <2>2
<1> QED
  BY <1>2, <1>3, <1>4, <1>5

\* A store that comes after a tick takes a slot that is free.
LEMMA ShadowedFacts ==
  ASSUME TypeOK, NEW d \in [Slot -> Entry], Distinct(d),
         \A e \in Slot : d[e].live => d[e].rem \in 0..2,
         NEW x \in Nat, NEW n \in {1, 2, 4}, Whole(comp, x, n)
  PROVE  Shadowed(d, x, n) \in [Slot -> Entry] /\ Distinct(Shadowed(d, x, n))
<1> DEFINE w == [live |-> TRUE, addr |-> x, size |-> n, rem |-> 3, old |-> RawRead(x, n)]
           k == SlotFor(d)
<1>1. w \in Entry /\ w.rem = 3
  BY RawReadType DEF Entry, Live
<1>2. Shadowed(d, x, n) = [d EXCEPT ![k] = w]
  BY DEF Shadowed
<1> HIDE DEF w, k
<1>3. [d EXCEPT ![k] = w] \in [Slot -> Entry]
  BY <1>1
<1>4. Distinct([d EXCEPT ![k] = w])
  BY <1>1 DEF Distinct
<1> QED
  BY <1>2, <1>3, <1>4

-----------------------------------------------------------------------------
(* The invariant *)

LEMMA InitIInv == Init => IInv
BY FreeEntry DEF Init, IInv, TypeOK, Distinct

LEMMA NextIInv == IInv /\ [Next]_vars => IInv'
<1> SUFFICES ASSUME IInv, [Next]_vars PROVE IInv'
  OBVIOUS
<1>t. /\ Ticked(daWr) \in [Slot -> Entry]
      /\ Distinct(Ticked(daWr))
      /\ \A e \in Slot : Ticked(daWr)[e].live => Ticked(daWr)[e].rem \in 0..2
  BY TickedFacts DEF IInv, TypeOK
<1>1. CASE Other
  BY <1>1, <1>t DEF Other, IInv, TypeOK
<1>2. ASSUME NEW o \in Operands, NEW v \in Datum(o[2]), CaStore(o, v)
      PROVE  IInv'
  <2>1. mem' \in [Loc -> Val]
    BY <1>2, RawWriteType, MemoryAssumption DEF CaStore, Store, Datum, IInv
  <2> QED
    BY <1>2, <1>t, <2>1 DEF CaStore, IInv, TypeOK
<1>3. ASSUME NEW o \in DaOperands, NEW v \in Datum(o[2]), DaStore(o, v)
      PROVE  IInv'
  <2> DEFINE x == Align(o[1], o[2])
  <2>1. o[1] \in Nat /\ o[2] \in {1, 2, 4} /\ x \in Nat
    BY AlignType, MemoryAssumption
  <2>2. mem' \in [Loc -> Val]
    BY <1>3, <2>1, RawWriteType DEF DaStore, Store, Datum, IInv
  <2>3. daWr' \in [Slot -> Entry] /\ Distinct(daWr')
    <3>1. CASE Faults(o)
      BY <1>3, <1>t, <3>1 DEF DaStore
    <3>2. CASE ~Faults(o)
      <4>1. Whole(comp, x, o[2]) /\ daWr' = Shadowed(Ticked(daWr), x, o[2])
        BY <1>3, <3>2 DEF DaStore, Faults
      <4> HIDE DEF x
      <4> QED BY <1>t, <2>1, <4>1, ShadowedFacts DEF IInv
    <3> QED
      BY <3>1, <3>2
  <2>4. posted' \in BOOLEAN /\ comp' = comp
    BY <1>3 DEF DaStore, Faults, Whole
  <2> QED
    BY <2>2, <2>3, <2>4 DEF IInv, TypeOK
<1>4. ASSUME NEW o \in Operands, NEW v \in Datum(o[2]), Poke(o, v)
      PROVE  IInv'
  <2>1. mem' \in [Loc -> Val]
    BY <1>4, RawWriteType, MemoryAssumption DEF Poke, Datum, IInv
  <2> QED
    BY <1>4, <2>1 DEF Poke, IInv, TypeOK
<1>5. ASSUME NEW strap \in Straps, Reset(strap)
      PROVE  IInv'
  BY <1>5, FreeEntry, MemoryAssumption DEF Reset, IInv, TypeOK, Distinct
<1>6. CASE UNCHANGED vars
  BY <1>6 DEF vars, IInv, TypeOK
<1> QED
  BY <1>1, <1>2, <1>3, <1>4, <1>5, <1>6 DEF Next, Insn, Host

LEMMA Invariance == Spec => []IInv
BY InitIInv, NextIInv, PTL DEF Spec

-----------------------------------------------------------------------------
\* The shadow and the memory keep their types, whatever is stored.
THEOREM ShadowTypeCorrect == Spec => []TypeOK
<1>1. IInv => TypeOK
  BY DEF IInv
<1> QED
  BY <1>1, Invariance, PTL

\* da_shadowed_write() never has to take the slot of a store still in flight,
\* and da_shadow_overlay() never meets two stores of one age.
THEOREM FourSlotsSuffice == Spec => []SlotsSuffice
<1>1. IInv => SlotsSuffice
  BY TickedFacts DEF IInv, TypeOK, SlotsSuffice, Distinct
<1> QED
  BY <1>1, Invariance, PTL

-----------------------------------------------------------------------------
(***************************************************************************)
(* Second part: StoreShadow implements DelayedStores, for memories,        *)
(* windows and operands of every kind: a slot of da_wr[] that covers a     *)
(* byte holds the value of a stretch of the byte's pipe, and the slots     *)
(* together hold all of the pipe but its far end, which is in memory.      *)
(*                                                                         *)
(* ComingOf and InFlightOf are Coming and InFlight of any shadow and       *)
(* memory, so that the lemmas can speak of the shadow between the tick and *)
(* the store of one instruction.  Ages differ (Distinct), so a byte's      *)
(* value at a distance is told by the slot of least age that reaches it.   *)
(***************************************************************************)

AddressIn(c, l) == IF l[1] = "chip" THEN l[2] + Base(c) ELSE l[2]

HidingOf(d, c, l) ==
  IF MemPtr(c, AddressIn(c, l)) = l THEN Covering(d, AddressIn(c, l)) ELSE {}

\* The slots that hide location l from the i-th next instruction.
Until(d, c, l, i) == {e \in HidingOf(d, c, l) : d[e].rem >= i}

Told(d, c, l, e) == d[e].old[AddressIn(c, l) - d[e].addr]

ComingOf(d, m, c, l, i) ==
  LET E == Until(d, c, l, i)
      e == CHOOSE e \in E : \A f \in E : d[e].rem <= d[f].rem
  IN  IF E = {} THEN m[l] ELSE Told(d, c, l, e)

InFlightOf(d, c, l) ==
  LET R == {d[e].rem : e \in HidingOf(d, c, l)}
  IN  CHOOSE n \in R \cup {0} : \A r \in R : r <= n

LEMMA ComingNow ==
  ASSUME NEW l, NEW i
  PROVE  /\ Coming(l, i) = ComingOf(daWr, mem, comp, l, i)
         /\ Coming(l, i)' = ComingOf(daWr', mem', comp', l, i)
BY DEF Coming, ComingOf, Until, Told, Hiding, HidingOf, AddressOf, AddressIn, Base, MemPtr, OnChip

LEMMA InFlightNow ==
  ASSUME NEW l
  PROVE  /\ InFlight(l) = InFlightOf(daWr, comp, l)
         /\ InFlight(l)' = InFlightOf(daWr', comp', l)
BY DEF InFlight, InFlightOf, Hiding, HidingOf, AddressOf, AddressIn, Base, MemPtr, OnChip

-----------------------------------------------------------------------------
(* What the operators choose *)

LEMMA HidingFacts ==
  ASSUME NEW d \in [Slot -> Entry], NEW c, NEW l, NEW e \in HidingOf(d, c, l)
  PROVE  e \in Slot /\ d[e].live /\ d[e].rem \in 0..3 /\ d[e] \in Entry
<1>1. e \in Slot /\ d[e].live
  BY DEF HidingOf, Covering
<1> QED
  BY <1>1, EntryFields

\* A set of slots has one of least age, and one of greatest.
LEMMA Extremes ==
  ASSUME NEW d, NEW E, E # {}, \A e \in E : d[e].rem \in 0..3
  PROVE  /\ \E e \in E : \A f \in E : d[e].rem <= d[f].rem
         /\ \E e \in E : \A f \in E : d[f].rem <= d[e].rem
<1> DEFINE At(r) == \E e \in E : d[e].rem = r
<1>1. At(0) \/ At(1) \/ At(2) \/ At(3)
  OBVIOUS
<1>2. \E e \in E : \A f \in E : d[e].rem <= d[f].rem
  <2>1. CASE At(0)
    BY <2>1
  <2>2. CASE ~At(0) /\ At(1)
    BY <2>2
  <2>3. CASE ~At(0) /\ ~At(1) /\ At(2)
    BY <2>3
  <2>4. CASE ~At(0) /\ ~At(1) /\ ~At(2) /\ At(3)
    BY <2>4
  <2> QED
    BY <1>1, <2>1, <2>2, <2>3, <2>4
<1>3. \E e \in E : \A f \in E : d[f].rem <= d[e].rem
  <2>1. CASE At(3)
    BY <2>1
  <2>2. CASE ~At(3) /\ At(2)
    BY <2>2
  <2>3. CASE ~At(3) /\ ~At(2) /\ At(1)
    BY <2>3
  <2>4. CASE ~At(3) /\ ~At(2) /\ ~At(1) /\ At(0)
    BY <2>4
  <2> QED
    BY <1>1, <2>1, <2>2, <2>3, <2>4
<1> QED
  BY <1>2, <1>3

\* The value at a distance is told by the least slot that reaches so far.
LEMMA ComingIs ==
  ASSUME NEW d \in [Slot -> Entry], Distinct(d), NEW m, NEW c, NEW l, NEW i
  PROVE  /\ Until(d, c, l, i) = {} => ComingOf(d, m, c, l, i) = m[l]
         /\ \A e \in Until(d, c, l, i) :
              (\A f \in Until(d, c, l, i) : d[e].rem <= d[f].rem)
                => ComingOf(d, m, c, l, i) = Told(d, c, l, e)
<1> DEFINE E == Until(d, c, l, i)
           g == CHOOSE e \in E : \A f \in E : d[e].rem <= d[f].rem
<1>1. E = {} => ComingOf(d, m, c, l, i) = m[l]
  BY DEF ComingOf
<1>2. ASSUME NEW e \in E, \A f \in E : d[e].rem <= d[f].rem
      PROVE  ComingOf(d, m, c, l, i) = Told(d, c, l, e)
  <2>1. \A f \in E : f \in Slot /\ d[f].live /\ d[f].rem \in 0..3
    BY HidingFacts DEF Until
  <2>2. ComingOf(d, m, c, l, i) = Told(d, c, l, g)
    BY <1>2 DEF ComingOf
  <2>3. g \in E /\ \A f \in E : d[g].rem <= d[f].rem
    <3> HIDE DEF E
    <3> QED BY <1>2
  <2> HIDE DEF E, g
  <2>4. d[g].rem = d[e].rem
    BY <1>2, <2>1, <2>3
  <2>5. g = e
    BY <1>2, <2>1, <2>3, <2>4 DEF Distinct
  <2> QED
    BY <2>2, <2>5
<1> QED
  BY <1>1, <1>2

LEMMA InFlightIs ==
  ASSUME NEW d \in [Slot -> Entry], NEW c, NEW l
  PROVE  /\ HidingOf(d, c, l) = {} => InFlightOf(d, c, l) = 0
         /\ \A e \in HidingOf(d, c, l) :
              (\A f \in HidingOf(d, c, l) : d[f].rem <= d[e].rem)
                => InFlightOf(d, c, l) = d[e].rem
<1> DEFINE H == HidingOf(d, c, l)
           R == {d[e].rem : e \in H}
           g == CHOOSE n \in R \cup {0} : \A r \in R : r <= n
<1>1. InFlightOf(d, c, l) = g
  BY DEF InFlightOf
<1>2. CASE H = {}
  <2>1. R = {}
    BY <1>2
  <2> HIDE DEF R
  <2> QED
    BY <1>1, <1>2, <2>1
<1>3. ASSUME NEW e \in H, \A f \in H : d[f].rem <= d[e].rem
      PROVE  g = d[e].rem
  <2>1. \A f \in H : d[f].rem \in 0..3
    BY HidingFacts
  <2>2. d[e].rem \in R /\ R \subseteq 0..3 /\ \A r \in R : r <= d[e].rem
    BY <1>3, <2>1
  <2> HIDE DEF R, H
  <2>3. \E n \in R \cup {0} : \A r \in R : r <= n
    BY <2>2
  <2>4. g \in R \cup {0} /\ \A r \in R : r <= g
    BY <2>3
  <2> HIDE DEF g
  <2> QED
    BY <2>2, <2>4, <2>1
<1> QED
  BY <1>1, <1>2, <1>3

\* Slots reach as far as the byte is in flight, and no further.
LEMMA UntilInFlight ==
  ASSUME NEW d \in [Slot -> Entry], NEW c, NEW l, NEW i \in 1..4
  PROVE  /\ InFlightOf(d, c, l) \in 0..3
         /\ i > InFlightOf(d, c, l) <=> Until(d, c, l, i) = {}
<1> DEFINE H == HidingOf(d, c, l)
<1>1. \A f \in H : d[f].rem \in 0..3
  BY HidingFacts
<1>2. CASE H = {}
  BY <1>2, InFlightIs DEF Until
<1>3. CASE H # {}
  <2> HIDE DEF H
  <2>1. PICK e \in H : \A f \in H : d[f].rem <= d[e].rem
    BY <1>1, <1>3, Extremes
  <2>2. InFlightOf(d, c, l) = d[e].rem
    BY <2>1, InFlightIs DEF H
  <2>3. Until(d, c, l, i) = {f \in H : d[f].rem >= i}
    BY DEF Until, H
  <2> QED
    BY <1>1, <2>1, <2>2, <2>3
<1> QED
  BY <1>2, <1>3

\* The far end of the pipe is the memory.
LEMMA FarEnd ==
  ASSUME NEW d \in [Slot -> Entry], Distinct(d), NEW m, NEW c, NEW l
  PROVE  ComingOf(d, m, c, l, 4) = m[l]
<1>1. Until(d, c, l, 4) = {}
  BY UntilInFlight
<1> QED
  BY <1>1, ComingIs

-----------------------------------------------------------------------------
(* One instruction passes *)

\* The slots that are left after a tick, one younger than before.
LEMMA TickedSlot ==
  ASSUME NEW d \in [Slot -> Entry], NEW e \in Slot
  PROVE  LET t == Ticked(d)
         IN  /\ t[e].live <=> d[e].live /\ d[e].rem >= 1
             /\ t[e].live => /\ t[e].rem = d[e].rem - 1
                             /\ t[e].addr = d[e].addr /\ t[e].size = d[e].size
                             /\ t[e].old = d[e].old
<1>1. d[e] \in Entry /\ d[e].live \in BOOLEAN /\ (d[e].live => d[e].rem \in 0..3)
  BY EntryFields
<1>2. CASE ~d[e].live
  BY <1>1, <1>2 DEF Ticked
<1>3. CASE d[e].live /\ d[e].rem = 0
  BY <1>3 DEF Ticked, Free
<1>4. CASE d[e].live /\ d[e].rem # 0
  <2>1. Ticked(d)[e] = [d[e] EXCEPT !.rem = d[e].rem - 1]
    BY <1>4 DEF Ticked
  <2>2. d[e] # Free
    BY <1>4 DEF Free
  <2>3. PICK n \in {1, 2, 4} : d[e] \in Live(n)
    BY <1>1, <2>2 DEF Entry
  <2> HIDE DEF Ticked
  <2> QED
    BY <1>1, <1>4, <2>1, <2>3 DEF Live
<1> QED
  BY <1>1, <1>2, <1>3, <1>4

LEMMA TickedUntil ==
  ASSUME NEW d \in [Slot -> Entry], NEW c, NEW l, NEW i \in 0..4
  PROVE  Until(Ticked(d), c, l, i) = Until(d, c, l, i + 1)
<1> DEFINE t == Ticked(d)
           x == AddressIn(c, l)
<1>1. CASE MemPtr(c, x) # l
  BY <1>1 DEF Until, HidingOf
<1>2. CASE MemPtr(c, x) = l
  <2>1. ASSUME NEW e \in Slot
        PROVE  e \in Until(t, c, l, i) <=> e \in Until(d, c, l, i + 1)
    <3>1. /\ t[e].live <=> d[e].live /\ d[e].rem >= 1
          /\ t[e].live => /\ t[e].rem = d[e].rem - 1
                          /\ t[e].addr = d[e].addr /\ t[e].size = d[e].size
      BY TickedSlot
    <3>2. d[e].live => d[e].rem \in 0..3
      BY EntryFields
    <3>3. e \in Until(t, c, l, i) <=> /\ t[e].live /\ t[e].rem >= i
                                      /\ x - t[e].addr \in 0..t[e].size - 1
      BY <1>2 DEF Until, HidingOf, Covering
    <3>4. e \in Until(d, c, l, i + 1) <=> /\ d[e].live /\ d[e].rem >= i + 1
                                          /\ x - d[e].addr \in 0..d[e].size - 1
      BY <1>2 DEF Until, HidingOf, Covering
    <3> HIDE DEF t, x
    <3> QED
      BY <3>1, <3>2, <3>3, <3>4
  <2>2. Until(t, c, l, i) \subseteq Slot /\ Until(d, c, l, i + 1) \subseteq Slot
    BY DEF Until, HidingOf, Covering
  <2> QED
    BY <2>1, <2>2
<1> QED
  BY <1>1, <1>2

\* A tick takes the front off the pipe.
LEMMA TickedComing ==
  ASSUME NEW d \in [Slot -> Entry], Distinct(d), NEW m, NEW c, NEW l, NEW i \in 0..4
  PROVE  ComingOf(Ticked(d), m, c, l, i) = ComingOf(d, m, c, l, i + 1)
<1> DEFINE t == Ticked(d)
           E == Until(d, c, l, i + 1)
<1>1. t \in [Slot -> Entry] /\ Distinct(t) /\ Until(t, c, l, i) = E
  BY TickedFacts, TickedUntil
<1>2. CASE E = {}
  BY <1>1, <1>2, ComingIs
<1>3. CASE E # {}
  <2>1. \A f \in E : /\ f \in Slot /\ d[f].live /\ d[f].rem \in 0..3
                     /\ t[f].live
                     /\ t[f].rem = d[f].rem - 1
                     /\ t[f].addr = d[f].addr /\ t[f].old = d[f].old
    <3>1. \A f \in E : f \in Slot /\ d[f].live /\ d[f].rem \in 0..3 /\ d[f].rem >= 1
      BY HidingFacts DEF Until
    <3> QED
      BY <3>1, TickedSlot
  <2> HIDE DEF E, t
  <2>2. PICK e \in E : \A f \in E : d[e].rem <= d[f].rem
    BY <1>3, <2>1, Extremes
  <2>3. \A f \in E : t[e].rem <= t[f].rem
    BY <2>1, <2>2
  <2>4. Told(t, c, l, e) = Told(d, c, l, e)
    BY <2>1, <2>2 DEF Told
  <2>5. ComingOf(d, m, c, l, i + 1) = Told(d, c, l, e)
    BY <2>2, ComingIs DEF E
  <2>6. ComingOf(t, m, c, l, i) = Told(t, c, l, e)
    BY <1>1, <2>2, <2>3, ComingIs
  <2> QED
    BY <2>4, <2>5, <2>6 DEF t
<1> QED
  BY <1>2, <1>3

LEMMA TickedInFlight ==
  ASSUME NEW d \in [Slot -> Entry], Distinct(d), NEW c, NEW l
  PROVE  InFlightOf(Ticked(d), c, l) =
           IF InFlightOf(d, c, l) = 0 THEN 0 ELSE InFlightOf(d, c, l) - 1
<1> DEFINE t == Ticked(d)
           p == InFlightOf(t, c, l)
           q == InFlightOf(d, c, l)
<1>1. t \in [Slot -> Entry]
  BY TickedFacts
<1>2. \A i \in 1..4 : /\ p \in 0..3 /\ q \in 0..3
                      /\ i > p <=> Until(t, c, l, i) = {}
                      /\ i > q <=> Until(d, c, l, i) = {}
  BY <1>1, UntilInFlight
<1>3. \A i \in 1..3 : Until(t, c, l, i) = Until(d, c, l, i + 1)
  BY TickedUntil
<1> HIDE DEF t, p, q
<1>4. \A i \in 1..3 : i > p <=> i + 1 > q
  BY <1>2, <1>3
<1>5. p = IF q = 0 THEN 0 ELSE q - 1
  BY <1>2, <1>4
<1> QED
  BY <1>5 DEF p, q, t

\* What is not told by a slot comes from memory, the rest does not.
LEMMA ComingElsewhere ==
  ASSUME NEW d \in [Slot -> Entry], Distinct(d), NEW m, NEW n, NEW c, NEW l, NEW i \in 1..4
  PROVE  ComingOf(d, n, c, l, i) =
           IF i > InFlightOf(d, c, l) THEN n[l] ELSE ComingOf(d, m, c, l, i)
<1> DEFINE E == Until(d, c, l, i)
<1>1. i > InFlightOf(d, c, l) <=> E = {}
  BY UntilInFlight
<1>2. CASE E = {}
  BY <1>1, <1>2, ComingIs
<1>3. CASE E # {}
  <2>1. \A f \in E : d[f].rem \in 0..3
    BY HidingFacts DEF Until
  <2> HIDE DEF E
  <2>2. PICK e \in E : \A f \in E : d[e].rem <= d[f].rem
    BY <1>3, <2>1, Extremes
  <2> QED
    BY <1>1, <1>3, <2>2, ComingIs DEF E
<1> QED
  BY <1>2, <1>3

-----------------------------------------------------------------------------
(* A DA store enters the pipes of the bytes it reaches at their far end *)

LEMMA AddressOfPtr ==
  ASSUME NEW c \in BOOLEAN, NEW x \in Int
  PROVE  AddressIn(c, MemPtr(c, x)) = x
BY MemoryAssumption DEF AddressIn, MemPtr, Base

\* The bytes of an operand that raw_access() reaches.
Bytes(c, x, n) == {MemPtr(c, x + j) : j \in Reach(c, x, n)}

\* SlotFor finds a slot that is not in use when there is one.
LEMMA SlotForFree ==
  ASSUME NEW d, \E e \in Slot : ~d[e].live
  PROVE  SlotFor(d) \in Slot /\ ~d[SlotFor(d)].live
<1> DEFINE P(e) == ~d[e].live /\ \A f \in 0..e - 1 : d[f].live
<1>1. \E e \in Slot : P(e)
  <2>1. Slot = {0, 1, 2, 3}
    BY DEF Slot
  <2>2. CASE ~d[0].live
    BY <2>1, <2>2
  <2>3. CASE d[0].live /\ ~d[1].live
    <3>1. 0..1 - 1 = {0}
      OBVIOUS
    <3> QED BY <2>1, <2>3, <3>1
  <2>4. CASE d[0].live /\ d[1].live /\ ~d[2].live
    <3>1. 0..2 - 1 = {0, 1}
      OBVIOUS
    <3> QED BY <2>1, <2>4, <3>1
  <2>5. CASE d[0].live /\ d[1].live /\ d[2].live
    <3>1. 0..3 - 1 = {0, 1, 2}
      OBVIOUS
    <3> QED BY <2>1, <2>5, <3>1
  <2> QED
    BY <2>2, <2>3, <2>4, <2>5
<1>2. SlotFor(d) = CHOOSE e \in Slot : P(e)
  BY DEF SlotFor
<1> HIDE DEF P
<1>3. P(SlotFor(d)) /\ SlotFor(d) \in Slot
  BY <1>1, <1>2
<1> QED
  BY <1>3 DEF P

\* A new slot of age 3 beside slots that are younger: bytes it does not cover
\* are as before, those it covers are told by it where no other slot tells.
LEMMA NewSlot ==
  ASSUME NEW d \in [Slot -> Entry], Distinct(d),
         \A e \in Slot : d[e].live => d[e].rem \in 0..2,
         NEW k \in Slot, ~d[k].live,
         NEW u \in [Slot -> Entry], Distinct(u),
         u[k].rem = 3, \A e \in Slot \ {k} : u[e] = d[e],
         NEW m, NEW c, NEW l, NEW i \in 1..4
  PROVE  /\ k \notin HidingOf(u, c, l) =>
              /\ ComingOf(u, m, c, l, i) = ComingOf(d, m, c, l, i)
              /\ InFlightOf(u, c, l) = InFlightOf(d, c, l)
         /\ k \in HidingOf(u, c, l) =>
              /\ InFlightOf(u, c, l) = 3
              /\ i <= 3 /\ Told(u, c, l, k) = m[l] =>
                   \A n : ComingOf(u, n, c, l, i) = ComingOf(d, m, c, l, i)
<1> DEFINE H == HidingOf(d, c, l)
           G == HidingOf(u, c, l)
           E == Until(d, c, l, i)
           F == Until(u, c, l, i)
<1>1. u[k].rem = 3 /\ \A e \in Slot \ {k} : u[e] = d[e]
  OBVIOUS
<1>2. u \in [Slot -> Entry] /\ Distinct(u)
  OBVIOUS
<1>3. k \notin H /\ H \subseteq Slot /\ G \subseteq Slot
  BY DEF HidingOf, Covering
<1>4. \A e \in Slot \ {k} : e \in H <=> e \in G
  BY <1>1 DEF HidingOf, Covering
<1>5. E = {e \in H : d[e].rem >= i} /\ F = {e \in G : u[e].rem >= i}
  BY DEF Until
<1>6. \A e \in H : d[e].rem \in 0..2 /\ u[e] = d[e]
  BY <1>1, <1>3 DEF HidingOf, Covering
<1> HIDE DEF H, G, E, F
<1>7. ASSUME k \notin G
      PROVE  /\ ComingOf(u, m, c, l, i) = ComingOf(d, m, c, l, i)
             /\ InFlightOf(u, c, l) = InFlightOf(d, c, l)
  <2>1. H = G
    <3>1. \A e : e \in H <=> e \in G
      BY <1>3, <1>4, <1>7
    <3> QED
      BY <3>1
  <2>2. E = F
    BY <1>5, <1>6, <2>1
  <2>3. ComingOf(u, m, c, l, i) = ComingOf(d, m, c, l, i)
    <3>1. CASE E = {}
      <4>1. ComingOf(d, m, c, l, i) = m[l]
        BY <3>1, ComingIs DEF E
      <4>2. ComingOf(u, m, c, l, i) = m[l]
        <5>1. Until(u, c, l, i) = {}
          BY <2>2, <3>1 DEF F
        <5> QED
          BY <1>2, <5>1, ComingIs
      <4> QED
        BY <4>1, <4>2
    <3>2. CASE E # {}
      <4>1. \A f \in E : d[f].rem \in 0..3 /\ f \in H
        BY <1>5, <1>6
      <4>2. PICK e \in E : \A f \in E : d[e].rem <= d[f].rem
        BY <3>2, <4>1, Extremes
      <4>3. \A f \in F : u[e].rem <= u[f].rem
        BY <1>6, <2>2, <4>1, <4>2
      <4>4. Told(u, c, l, e) = Told(d, c, l, e)
        BY <1>6, <4>1, <4>2 DEF Told
      <4>5. ComingOf(d, m, c, l, i) = Told(d, c, l, e)
        BY <4>2, ComingIs DEF E
      <4>6. ComingOf(u, m, c, l, i) = Told(u, c, l, e)
        BY <1>2, <2>2, <4>2, <4>3, ComingIs DEF E, F
      <4> QED
        BY <4>4, <4>5, <4>6
    <3> QED
      BY <3>1, <3>2
  <2>4. InFlightOf(u, c, l) = InFlightOf(d, c, l)
    <3>1. CASE H = {}
      <4>1. HidingOf(d, c, l) = {} /\ HidingOf(u, c, l) = {}
        BY <2>1, <3>1 DEF G, H
      <4> QED
        BY <1>2, <4>1, InFlightIs
    <3>2. CASE H # {}
      <4>1. \A f \in H : d[f].rem \in 0..3
        BY <1>6
      <4>2. PICK e \in H : \A f \in H : d[f].rem <= d[e].rem
        BY <3>2, <4>1, Extremes
      <4>3. \A f \in G : u[f].rem <= u[e].rem
        BY <1>6, <2>1, <4>2
      <4>4. InFlightOf(d, c, l) = d[e].rem
        BY <4>2, InFlightIs DEF H
      <4>5. InFlightOf(u, c, l) = u[e].rem
        BY <1>2, <2>1, <4>2, <4>3, InFlightIs DEF G
      <4> QED
        BY <1>6, <4>2, <4>4, <4>5
    <3> QED
      BY <3>1, <3>2
  <2> QED
    BY <2>3, <2>4
<1>8. ASSUME k \in G
      PROVE  /\ InFlightOf(u, c, l) = 3
             /\ i <= 3 /\ Told(u, c, l, k) = m[l] =>
                  \A n : ComingOf(u, n, c, l, i) = ComingOf(d, m, c, l, i)
  <2>1. G = H \cup {k} /\ \A e \in G \ {k} : u[e].rem \in 0..2 /\ e \in H
    BY <1>3, <1>4, <1>6, <1>8
  <2>2. InFlightOf(u, c, l) = 3
    <3>1. \A f \in G : u[f].rem <= u[k].rem
      BY <1>1, <2>1
    <3> QED
      BY <1>1, <1>2, <1>8, <3>1, InFlightIs DEF G
  <2>3. ASSUME i <= 3, Told(u, c, l, k) = m[l], NEW n
        PROVE  ComingOf(u, n, c, l, i) = ComingOf(d, m, c, l, i)
    <3>1. F = E \cup {k} /\ k \notin E
      BY <1>1, <1>3, <1>5, <1>6, <2>1, <2>3
    <3>2. CASE E = {}
      <4>1. Told(u, c, l, k) = m[l]
        BY <2>3
      <4>2. \A f \in F : u[k].rem <= u[f].rem
        BY <1>1, <3>1, <3>2
      <4>3. ComingOf(u, n, c, l, i) = Told(u, c, l, k)
        BY <1>2, <3>1, <4>2, ComingIs DEF F
      <4>4. ComingOf(d, m, c, l, i) = m[l]
        BY <3>2, ComingIs DEF E
      <4> QED
        BY <4>1, <4>3, <4>4
    <3>3. CASE E # {}
      <4>1. \A f \in E : d[f].rem \in 0..3 /\ d[f].rem <= 2 /\ f \in H
        BY <1>5, <1>6
      <4>2. PICK e \in E : \A f \in E : d[e].rem <= d[f].rem
        BY <3>3, <4>1, Extremes
      <4>3. \A f \in F : u[e].rem <= u[f].rem
        BY <1>1, <1>6, <3>1, <4>1, <4>2
      <4>4. Told(u, c, l, e) = Told(d, c, l, e)
        BY <1>6, <4>1, <4>2 DEF Told
      <4>5. ComingOf(d, m, c, l, i) = Told(d, c, l, e)
        BY <4>2, ComingIs DEF E
      <4>6. ComingOf(u, n, c, l, i) = Told(u, c, l, e)
        BY <1>2, <3>1, <4>2, <4>3, ComingIs DEF E, F
      <4> QED
        BY <4>4, <4>5, <4>6
    <3> QED
      BY <3>2, <3>3
  <2> QED
    BY <2>2, <2>3
<1> QED
  BY <1>7, <1>8 DEF G

-----------------------------------------------------------------------------
(* The actions of DelayedStores at one byte *)

LEMMA AgeAt ==
  ASSUME NEW l \in Loc,
         InFlight(l)' = (IF InFlight(l) = 0 THEN 0 ELSE InFlight(l) - 1),
         Coming(l, 1)' = Coming(l, 2), Coming(l, 2)' = Coming(l, 3),
         Coming(l, 3)' = Coming(l, 4), Coming(l, 4)' = Coming(l, 4)
  PROVE  Pipe!Age(l)
<1>1. Pipe!Age(l) <=> /\ InFlight(l)' = (IF InFlight(l) = 0 THEN 0 ELSE InFlight(l) - 1)
                      /\ [i \in 1..4 |-> Coming(l, i)'] =
                           <<Coming(l, 2), Coming(l, 3), Coming(l, 4), Coming(l, 4)>>
  BY DEF Pipe!Age, Pipe!Sooner, Pipe!Later
<1>2. \A i \in 1..4 : i = 1 \/ i = 2 \/ i = 3 \/ i = 4
  OBVIOUS
<1>3. [i \in 1..4 |-> Coming(l, i)'] =
         <<Coming(l, 2), Coming(l, 3), Coming(l, 4), Coming(l, 4)>>
  BY <1>2
<1> QED
  BY <1>1, <1>3

LEMMA TakeNowAt ==
  ASSUME NEW l \in Loc,
         InFlight(l)' = (IF InFlight(l) = 0 THEN 0 ELSE InFlight(l) - 1),
         InFlight(l)' \in 0..3,
         \A i \in 1..3 : Coming(l, i)' =
           IF i > InFlight(l)' THEN Coming(l, 4)' ELSE Coming(l, i + 1)
  PROVE  Pipe!TakeNow(l)
<1> DEFINE n == IF InFlight(l) = 0 THEN 0 ELSE InFlight(l) - 1
           q == <<Coming(l, 2), Coming(l, 3), Coming(l, 4), Coming(l, 4)>>
<1>1. Pipe!TakeNow(l) <=> /\ InFlight(l)' = n
                          /\ [i \in 1..4 |-> Coming(l, i)'] =
                               [i \in 1..4 |-> IF i > n THEN Coming(l, 4)' ELSE q[i]]
  BY DEF Pipe!TakeNow, Pipe!Sooner, Pipe!Later, Pipe!After, Pipe!Settled
<1>2. q[1] = Coming(l, 2) /\ q[2] = Coming(l, 3) /\ q[3] = Coming(l, 4)
  OBVIOUS
<1> HIDE DEF q, n
<1>3. ASSUME NEW i \in 1..4
      PROVE  Coming(l, i)' = IF i > n THEN Coming(l, 4)' ELSE q[i]
  <2>1. CASE i = 4
    BY <2>1 DEF n
  <2>2. CASE i \in 1..3
    <3>1. q[i] = Coming(l, i + 1)
      BY <1>2, <2>2
    <3> QED
      BY <2>2, <3>1 DEF n
  <2> QED
    BY <2>1, <2>2
<1> QED
  BY <1>1, <1>3 DEF n

LEMMA TakeLaterAt ==
  ASSUME NEW l \in Loc, InFlight(l)' = 3,
         Coming(l, 1)' = Coming(l, 2), Coming(l, 2)' = Coming(l, 3),
         Coming(l, 3)' = Coming(l, 4)
  PROVE  Pipe!TakeLater(l)
<1> DEFINE q == <<Coming(l, 2), Coming(l, 3), Coming(l, 4), Coming(l, 4)>>
<1>1. Pipe!TakeLater(l) <=> /\ InFlight(l)' = 3
                            /\ [i \in 1..4 |-> Coming(l, i)'] =
                                 [i \in 1..4 |-> IF i > 3 THEN Coming(l, 4)' ELSE q[i]]
  BY DEF Pipe!TakeLater, Pipe!Later, Pipe!After, Pipe!Settled
<1>2. q[1] = Coming(l, 2) /\ q[2] = Coming(l, 3) /\ q[3] = Coming(l, 4)
  OBVIOUS
<1> HIDE DEF q
<1>3. ASSUME NEW i \in 1..4
      PROVE  Coming(l, i)' = IF i > 3 THEN Coming(l, 4)' ELSE q[i]
  <2>1. i = 1 \/ i = 2 \/ i = 3 \/ i = 4
    OBVIOUS
  <2> QED
    BY <1>2, <2>1
<1> QED
  BY <1>1, <1>3

LEMMA HostAt ==
  ASSUME NEW l \in Loc, InFlight(l)' = InFlight(l), InFlight(l) \in 0..3
  PROVE  /\ (\A i \in 1..4 : Coming(l, i)' = Coming(l, i)) => Pipe!Keep(l)
         /\ (\A i \in 1..4 : Coming(l, i)' =
               IF i > InFlight(l) THEN Coming(l, 4)' ELSE Coming(l, i))
              => Pipe!TakeFromHost(l)
BY DEF Pipe!Keep, Pipe!TakeFromHost, Pipe!After, Pipe!Settled

LEMMA LandAt ==
  ASSUME NEW l \in Loc, InFlight(l)' = 0,
         \A i \in 1..4 : Coming(l, i)' = Coming(l, 4)
  PROVE  Pipe!Land(l)
BY DEF Pipe!Land, Pipe!After, Pipe!Settled

-----------------------------------------------------------------------------
(* The steps of StoreShadow at one byte *)

LEMMA NowIs ==
  ASSUME IInv, NEW l
  PROVE  /\ \A i \in 0..5 : Coming(l, i) = ComingOf(daWr, mem, comp, l, i)
         /\ \A i \in 0..5 : Coming(l, i)' = ComingOf(daWr', mem', comp', l, i)
         /\ Coming(l, 4) = mem[l]
         /\ daWr' \in [Slot -> Entry] /\ Distinct(daWr') => Coming(l, 4)' = mem'[l]
         /\ InFlight(l) = InFlightOf(daWr, comp, l)
         /\ InFlight(l)' = InFlightOf(daWr', comp', l)
         /\ daWr \in [Slot -> Entry] /\ Distinct(daWr)
         /\ InFlight(l) \in 0..3
<1>1. daWr \in [Slot -> Entry] /\ Distinct(daWr)
  BY DEF IInv, TypeOK
<1>2. InFlightOf(daWr, comp, l) \in 0..3
  <2>1. 1 \in 1..4
    OBVIOUS
  <2> QED
    BY <1>1, <2>1, UntilInFlight
<1>3. /\ \A i \in 0..5 : Coming(l, i) = ComingOf(daWr, mem, comp, l, i)
      /\ \A i \in 0..5 : Coming(l, i)' = ComingOf(daWr', mem', comp', l, i)
  BY ComingNow
<1>4. Coming(l, 4) = ComingOf(daWr, mem, comp, l, 4)
  BY ComingNow
<1>5. Coming(l, 4)' = ComingOf(daWr', mem', comp', l, 4)
  BY ComingNow
<1>6. Coming(l, 4) = mem[l]
  BY <1>1, <1>4, FarEnd
<1>7. daWr' \in [Slot -> Entry] /\ Distinct(daWr') => Coming(l, 4)' = mem'[l]
  BY <1>5, FarEnd
<1> QED
  BY <1>1, <1>2, <1>3, <1>6, <1>7, InFlightNow

\* A byte an access does not reach keeps its value.
LEMMA WrittenElsewhere ==
  ASSUME NEW x, NEW n, NEW v, NEW l \in Loc, l \notin Bytes(comp, x, n)
  PROVE  RawWrite(x, n, v)[l] = mem[l]
BY DEF RawWrite, Bytes

\* The pipe of l behind the tick, in any memory that has the same byte at l.
LEMMA TickedNow ==
  ASSUME IInv, NEW l, NEW m, m[l] = mem[l]
  PROVE  LET t == Ticked(daWr)
         IN  /\ InFlightOf(t, comp, l) = (IF InFlight(l) = 0 THEN 0 ELSE InFlight(l) - 1)
             /\ ComingOf(t, m, comp, l, 1) = Coming(l, 2)
             /\ ComingOf(t, m, comp, l, 2) = Coming(l, 3)
             /\ ComingOf(t, m, comp, l, 3) = Coming(l, 4)
             /\ ComingOf(t, m, comp, l, 4) = Coming(l, 4)
<1> DEFINE t == Ticked(daWr)
<1>1. t \in [Slot -> Entry] /\ Distinct(t)
  BY NowIs, TickedFacts
<1>2. \A i \in 1..4 : ComingOf(t, m, comp, l, i) = ComingOf(t, mem, comp, l, i)
  <2> SUFFICES ASSUME NEW i \in 1..4
               PROVE  ComingOf(t, m, comp, l, i) = ComingOf(t, mem, comp, l, i)
    OBVIOUS
  <2>1. i > InFlightOf(t, comp, l) => ComingOf(t, mem, comp, l, i) = mem[l]
    BY <1>1, ComingElsewhere
  <2> QED
    BY <1>1, <2>1, ComingElsewhere
<1>3. \A i \in 1..4 : ComingOf(t, mem, comp, l, i) = Coming(l, i + 1)
  BY NowIs, TickedComing
<1>4. ComingOf(t, m, comp, l, 4) = Coming(l, 4)
  BY <1>1, NowIs, FarEnd
<1>5. InFlightOf(t, comp, l) = (IF InFlight(l) = 0 THEN 0 ELSE InFlight(l) - 1)
  BY NowIs, TickedInFlight
<1>6. /\ ComingOf(t, m, comp, l, 1) = Coming(l, 1 + 1)
      /\ ComingOf(t, m, comp, l, 2) = Coming(l, 2 + 1)
      /\ ComingOf(t, m, comp, l, 3) = Coming(l, 3 + 1)
  BY <1>2, <1>3
<1> QED
  BY <1>4, <1>5, <1>6

\* An instruction that stores nothing, or nothing at l.
LEMMA PassingAt ==
  ASSUME IInv, NEW l \in Loc, daWr' = Ticked(daWr), comp' = comp, mem'[l] = mem[l]
  PROVE  Pipe!Age(l)
<1>1. InFlight(l)' = (IF InFlight(l) = 0 THEN 0 ELSE InFlight(l) - 1)
  BY NowIs, TickedNow
<1>2. /\ Coming(l, 1)' = Coming(l, 2) /\ Coming(l, 2)' = Coming(l, 3)
      /\ Coming(l, 3)' = Coming(l, 4) /\ Coming(l, 4)' = Coming(l, 4)
  <2>1. \A i \in 0..5 : Coming(l, i)' = ComingOf(Ticked(daWr), mem', comp, l, i)
    BY NowIs
  <2>2. 1 \in 0..5 /\ 2 \in 0..5 /\ 3 \in 0..5 /\ 4 \in 0..5
    OBVIOUS
  <2> QED
    BY <2>1, <2>2, TickedNow
<1> QED
  BY <1>1, <1>2, AgeAt

\* A store that is not hidden.
LEMMA StoringAt ==
  ASSUME IInv, NEW l \in Loc, daWr' = Ticked(daWr), comp' = comp
  PROVE  Pipe!TakeNow(l)
<1> DEFINE t == Ticked(daWr)
<1>1. t \in [Slot -> Entry] /\ Distinct(t)
  BY NowIs, TickedFacts
<1>2. InFlight(l)' = (IF InFlight(l) = 0 THEN 0 ELSE InFlight(l) - 1)
  BY NowIs, TickedInFlight
<1>3. InFlight(l)' \in 0..3 /\ InFlight(l)' = InFlightOf(t, comp, l)
  BY <1>2, NowIs
<1>4. Coming(l, 4)' = mem'[l]
  BY <1>1, NowIs
<1>5. ASSUME NEW i \in 1..3
      PROVE  Coming(l, i)' = IF i > InFlight(l)' THEN Coming(l, 4)' ELSE Coming(l, i + 1)
  <2>1. Coming(l, i)' = ComingOf(t, mem', comp, l, i)
    BY NowIs
  <2>2. ComingOf(t, mem', comp, l, i) =
          IF i > InFlightOf(t, comp, l) THEN mem'[l] ELSE ComingOf(t, mem, comp, l, i)
    BY <1>1, ComingElsewhere
  <2>3. ComingOf(t, mem, comp, l, i) = Coming(l, i + 1)
    BY NowIs, TickedComing
  <2> QED
    BY <1>3, <1>4, <2>1, <2>2, <2>3
<1> QED
  BY <1>2, <1>3, <1>5, TakeNowAt

\* The host stores at l, or elsewhere.
LEMMA PokedAt ==
  ASSUME IInv, NEW l \in Loc, daWr' = daWr, comp' = comp
  PROVE  /\ Pipe!TakeFromHost(l)
         /\ mem'[l] = mem[l] => Pipe!Keep(l)
<1>1. InFlight(l)' = InFlight(l) /\ InFlight(l) \in 0..3
  BY NowIs
<1>2. Coming(l, 4)' = mem'[l]
  BY NowIs
<1>3. ASSUME NEW i \in 1..4
      PROVE  /\ Coming(l, i)' = IF i > InFlight(l) THEN Coming(l, 4)' ELSE Coming(l, i)
             /\ mem'[l] = mem[l] => Coming(l, i)' = Coming(l, i)
  <2>1. /\ Coming(l, i)' = ComingOf(daWr, mem', comp, l, i)
        /\ Coming(l, i) = ComingOf(daWr, mem, comp, l, i)
    BY NowIs
  <2>2. ComingOf(daWr, mem', comp, l, i) =
          IF i > InFlightOf(daWr, comp, l) THEN mem'[l] ELSE ComingOf(daWr, mem, comp, l, i)
    BY NowIs, ComingElsewhere
  <2>3. i > InFlightOf(daWr, comp, l) => ComingOf(daWr, mem, comp, l, i) = mem[l]
    BY NowIs, ComingElsewhere
  <2> QED
    BY <1>2, <2>1, <2>2, <2>3, NowIs
<1> QED
  BY <1>1, <1>3, HostAt

\* A reset.
LEMMA LandedAt ==
  ASSUME IInv, NEW l \in Loc, daWr' = [e \in Slot |-> Free], mem' = mem
  PROVE  Pipe!Land(l)
<1> DEFINE d == [e \in Slot |-> Free]
<1>1. d \in [Slot -> Entry] /\ HidingOf(d, comp', l) = {}
  BY FreeEntry DEF HidingOf, Covering
<1>2. Distinct(d)
  BY FreeEntry DEF Distinct
<1>3. InFlight(l)' = 0
  <2> HIDE DEF d
  <2> QED BY <1>1, NowIs, InFlightIs DEF d
<1>4. ASSUME NEW i \in 1..4
      PROVE  Coming(l, i)' = mem[l]
  <2>1. Until(d, comp', l, i) = {}
    BY <1>1 DEF Until
  <2> HIDE DEF d
  <2>2. ComingOf(d, mem', comp', l, i) = mem[l]
    BY <1>1, <1>2, <2>1, ComingIs
  <2> QED
    BY <2>2, NowIs DEF d
<1>5. Coming(l, 4) = mem[l]
  BY NowIs
<1> QED
  BY <1>3, <1>4, <1>5, LandAt

\* A DA store: at a byte it reaches, and elsewhere.
LEMMA ShadowingAt ==
  ASSUME IInv, NEW x \in Nat, NEW n \in {1, 2, 4}, Whole(comp, x, n),
         daWr' = Shadowed(Ticked(daWr), x, n), comp' = comp, NEW l \in Loc
  PROVE  /\ l \in Bytes(comp, x, n) => Pipe!TakeLater(l)
         /\ l \notin Bytes(comp, x, n) /\ mem'[l] = mem[l] => Pipe!Age(l)
<1> DEFINE t == Ticked(daWr)
           k == SlotFor(t)
           w == [live |-> TRUE, addr |-> x, size |-> n, rem |-> 3, old |-> RawRead(x, n)]
           u == [t EXCEPT ![k] = w]
           A == AddressIn(comp, l)
<1>1. /\ t \in [Slot -> Entry] /\ Distinct(t)
      /\ \A e \in Slot : t[e].live => t[e].rem \in 0..2
      /\ k \in Slot /\ ~t[k].live
  BY NowIs, TickedFacts, SlotForFree
<1>2. daWr' = u
  BY DEF Shadowed
<1>3. w \in Entry /\ w.live /\ w.rem = 3 /\ w.addr = x /\ w.size = n /\ w.old = RawRead(x, n)
  BY RawReadType DEF Entry, Live, IInv
<1> HIDE DEF t, k, w
<1>4. u \in [Slot -> Entry] /\ Distinct(u)
  <2>1. u \in [Slot -> Entry]
    BY <1>1, <1>3
  <2>2. Distinct(u)
    BY <1>1, <1>3 DEF Distinct
  <2> QED
    BY <2>1, <2>2
<1>5. comp \in BOOLEAN /\ A \in Int
  BY MemoryAssumption DEF IInv, TypeOK, AddressIn, Base, Loc
<1>6. k \in HidingOf(u, comp, l) <=> MemPtr(comp, A) = l /\ A - x \in 0..n - 1
  <2>1. u[k] = w
    BY <1>1
  <2> HIDE DEF u
  <2> QED
    BY <1>1, <1>3, <2>1 DEF HidingOf, Covering
<1>u. u[k] = w /\ \A e \in Slot \ {k} : u[e] = t[e]
  BY <1>1
<1> HIDE DEF u
<1>7. \A i \in 1..4 :
        /\ k \notin HidingOf(u, comp, l) =>
             /\ ComingOf(u, mem', comp, l, i) = ComingOf(t, mem', comp, l, i)
             /\ InFlightOf(u, comp, l) = InFlightOf(t, comp, l)
        /\ k \in HidingOf(u, comp, l) =>
             /\ InFlightOf(u, comp, l) = 3
             /\ i <= 3 /\ Told(u, comp, l, k) = mem[l] =>
                  ComingOf(u, mem', comp, l, i) = ComingOf(t, mem, comp, l, i)
  <2>1. u[k].rem = 3
    BY <1>3, <1>u
  <2>2. ASSUME NEW i \in 1..4, k \notin HidingOf(u, comp, l)
        PROVE  /\ ComingOf(u, mem', comp, l, i) = ComingOf(t, mem', comp, l, i)
               /\ InFlightOf(u, comp, l) = InFlightOf(t, comp, l)
    <3> DEFINE m == mem'
    <3> HIDE DEF m
    <3>1. /\ ComingOf(u, m, comp, l, i) = ComingOf(t, m, comp, l, i)
          /\ InFlightOf(u, comp, l) = InFlightOf(t, comp, l)
      BY <1>1, <1>4, <1>u, <2>1, <2>2, NewSlot
    <3> QED
      BY <3>1 DEF m
  <2>3. ASSUME NEW i \in 1..4, k \in HidingOf(u, comp, l)
        PROVE  /\ InFlightOf(u, comp, l) = 3
               /\ i <= 3 /\ Told(u, comp, l, k) = mem[l] =>
                    \A n1 : ComingOf(u, n1, comp, l, i) = ComingOf(t, mem, comp, l, i)
    BY <1>1, <1>4, <1>u, <2>1, <2>3, NewSlot
  <2> QED
    BY <2>2, <2>3
<1>8. /\ \A i \in 0..5 : Coming(l, i)' = ComingOf(u, mem', comp, l, i)
      /\ InFlight(l)' = InFlightOf(u, comp, l)
  BY <1>2, NowIs
<1>9. 1 \in 1..4 /\ 2 \in 1..4 /\ 3 \in 1..4 /\ 4 \in 1..4 /\ 1..4 \subseteq 0..5
  OBVIOUS
<1>10. ASSUME l \in Bytes(comp, x, n)
       PROVE  Pipe!TakeLater(l)
  <2>1. PICK j \in Reach(comp, x, n) : l = MemPtr(comp, x + j)
    BY <1>10 DEF Bytes
  <2>2. j \in 0..n - 1 /\ x + j \in Int
    BY <2>1 DEF Reach
  <2>3. A = x + j
    BY <1>5, <2>1, <2>2, AddressOfPtr
  <2> HIDE DEF A
  <2>4. k \in HidingOf(u, comp, l)
    BY <1>6, <2>1, <2>2, <2>3
  <2>5. Told(u, comp, l, k) = mem[l]
    <3>1. A - w.addr = j
      BY <1>3, <2>2, <2>3
    <3>2. w.old[j] = mem[l]
      BY <1>3, <2>1, <2>2 DEF RawRead
    <3> QED
      BY <1>u, <3>1, <3>2 DEF Told, A
  <2>6. InFlight(l)' = 3
    BY <1>7, <1>8, <1>9, <2>4
  <2>7. /\ Coming(l, 1)' = ComingOf(t, mem, comp, l, 1)
        /\ Coming(l, 2)' = ComingOf(t, mem, comp, l, 2)
        /\ Coming(l, 3)' = ComingOf(t, mem, comp, l, 3)
    BY <1>7, <1>8, <1>9, <2>4, <2>5
  <2> QED
    BY <2>6, <2>7, TickedNow, TakeLaterAt DEF t
<1>11. ASSUME l \notin Bytes(comp, x, n), mem'[l] = mem[l]
       PROVE  Pipe!Age(l)
  <2>1. k \notin HidingOf(u, comp, l)
    <3> SUFFICES ASSUME MemPtr(comp, A) = l, A - x \in 0..n - 1 PROVE FALSE
      BY <1>6
    <3>1. A - x \in Reach(comp, x, n) /\ x + (A - x) = A
      BY <1>5 DEF Whole
    <3> QED
      BY <1>11, <3>1 DEF Bytes
  <2>2. InFlight(l)' = InFlightOf(t, comp, l)
    BY <1>7, <1>8, <1>9, <2>1
  <2>3. /\ Coming(l, 1)' = ComingOf(t, mem', comp, l, 1)
        /\ Coming(l, 2)' = ComingOf(t, mem', comp, l, 2)
        /\ Coming(l, 3)' = ComingOf(t, mem', comp, l, 3)
        /\ Coming(l, 4)' = ComingOf(t, mem', comp, l, 4)
    BY <1>7, <1>8, <1>9, <2>1
  <2> QED
    BY <1>11, <2>2, <2>3, TickedNow, AgeAt DEF t
<1> QED
  BY <1>10, <1>11

-----------------------------------------------------------------------------
(* The steps *)

\* The bytes of an access, as DelayedStores knows them.
LEMMA BytesReached ==
  ASSUME IInv, NEW o \in Operands \cup DaOperands
  PROVE  Bytes(comp, Align(o[1], o[2]), o[2]) \in Reached
BY DEF Bytes, Reached, IInv, TypeOK

LEMMA InitPipe == Init => Pipe!Init
<1> SUFFICES ASSUME Init PROVE Pipe!Init
  OBVIOUS
<1>1. IInv
  BY InitIInv
<1>2. ASSUME NEW l \in Loc
      PROVE  /\ InFlight(l) = 0
             /\ \A i \in 1..4 : Coming(l, i) = mem[l]
  <2>1. HidingOf(daWr, comp, l) = {}
    BY FreeEntry DEF Init, HidingOf, Covering
  <2>2. InFlight(l) = 0
    BY <1>1, <2>1, NowIs, InFlightIs
  <2>3. \A i \in 1..4 : Coming(l, i) = mem[l]
    <3> SUFFICES ASSUME NEW i \in 1..4 PROVE Coming(l, i) = mem[l]
      OBVIOUS
    <3>1. Until(daWr, comp, l, i) = {}
      BY <2>1 DEF Until
    <3>2. ComingOf(daWr, mem, comp, l, i) = mem[l]
      BY <1>1, <3>1, NowIs, ComingIs
    <3> QED
      BY <1>1, <3>2, NowIs
  <2> QED
    BY <2>2, <2>3
<1>3. mem \in [Loc -> Val] /\ posted = FALSE
  BY DEF Init
<1>4. [l \in Loc |-> [i \in 1..4 |-> Coming(l, i)]] = [l \in Loc |-> [i \in 1..4 |-> mem[l]]]
  BY <1>2
<1>5. [l \in Loc |-> InFlight(l)] = [l \in Loc |-> 0]
  BY <1>2
<1> QED
  BY <1>3, <1>4, <1>5 DEF Pipe!Init

\* What an instruction or the host does to the memory is what one action of
\* DelayedStores does to the pipes.
LEMMA StepPipe == IInv /\ [Next]_vars => [Pipe!Next]_(Pipe!delayedVars)
<1> SUFFICES ASSUME IInv, [Next]_vars PROVE Pipe!Next \/ UNCHANGED Pipe!delayedVars
  OBVIOUS
<1>1. CASE Other
  <2>1. \A l \in Loc : Pipe!Age(l)
    BY <1>1, PassingAt DEF Other
  <2> QED
    BY <1>1, <2>1 DEF Other, Pipe!Next, Pipe!Pass
<1>2. ASSUME NEW o \in Operands, NEW v \in Datum(o[2]), CaStore(o, v)
      PROVE  Pipe!Next
  <2> DEFINE B == Bytes(comp, Align(o[1], o[2]), o[2])
  <2>1. B \in Reached
    BY BytesReached
  <2>2. ASSUME NEW l \in Loc
        PROVE  IF l \in B THEN Pipe!TakeNow(l) ELSE Pipe!Age(l)
    <3>1. daWr' = Ticked(daWr) /\ comp' = comp
      BY <1>2 DEF CaStore
    <3>2. l \notin B => mem'[l] = mem[l]
      BY <1>2, WrittenElsewhere DEF CaStore, Store
    <3> QED
      BY <3>1, <3>2, StoringAt, PassingAt
  <2> HIDE DEF B
  <2>3. ~posted'
    BY <1>2 DEF CaStore
  <2>4. Pipe!DirectStore
    BY <2>1, <2>2, <2>3 DEF Pipe!DirectStore
  <2> QED
    BY <2>4 DEF Pipe!Next
<1>3. ASSUME NEW o \in DaOperands, NEW v \in Datum(o[2]), DaStore(o, v)
      PROVE  Pipe!Next
  <2> DEFINE x == Align(o[1], o[2])
             B == Bytes(comp, x, o[2])
  <2>1. B \in Reached
    BY BytesReached
  <2>2. x \in Nat /\ o[2] \in {1, 2, 4}
    BY AlignType, MemoryAssumption
  <2>3. comp' = comp /\ \A l \in Loc : l \notin B => mem'[l] = mem[l]
    BY <1>3, WrittenElsewhere DEF DaStore, Store
  <2>4. CASE Faults(o)
    <3>1. daWr' = Ticked(daWr) /\ ~posted'
      BY <1>3, <2>4 DEF DaStore
    <3>2. \A l \in Loc : IF l \in B THEN Pipe!TakeNow(l) ELSE Pipe!Age(l)
      BY <2>3, <3>1, StoringAt, PassingAt
    <3>3. Pipe!DirectStore
      BY <2>1, <3>1, <3>2 DEF Pipe!DirectStore
    <3> QED
      BY <3>3 DEF Pipe!Next
  <2>5. CASE ~Faults(o)
    <3>1. /\ Whole(comp, x, o[2])
          /\ daWr' = Shadowed(Ticked(daWr), x, o[2])
          /\ posted'
      BY <1>3, <2>5 DEF DaStore, Faults
    <3> HIDE DEF x
    <3>2. \A l \in Loc : IF l \in B THEN Pipe!TakeLater(l) ELSE Pipe!Age(l)
      BY <2>2, <2>3, <3>1, ShadowingAt
    <3>3. Pipe!DelayedStore
      BY <2>1, <3>1, <3>2 DEF Pipe!DelayedStore
    <3> QED
      BY <3>3 DEF Pipe!Next
  <2> QED
    BY <2>4, <2>5
<1>4. ASSUME NEW o \in Operands, NEW v \in Datum(o[2]), Poke(o, v)
      PROVE  Pipe!Next
  <2> DEFINE B == Bytes(comp, Align(o[1], o[2]), o[2])
  <2>1. B \in Reached
    BY BytesReached
  <2>2. Align(o[1], o[2]) = o[1]
    <3>1. o[1] \in Nat /\ o[1] % o[2] = 0
      BY <1>4, MemoryAssumption DEF Poke
    <3> QED
      BY <3>1 DEF Align
  <2>3. ASSUME NEW l \in Loc
        PROVE  IF l \in B THEN Pipe!TakeFromHost(l) ELSE Pipe!Keep(l)
    <3>1. daWr' = daWr /\ comp' = comp
      BY <1>4 DEF Poke
    <3>2. l \notin B => mem'[l] = mem[l]
      BY <1>4, <2>2, WrittenElsewhere DEF Poke
    <3> QED
      BY <3>1, <3>2, PokedAt
  <2> HIDE DEF B
  <2>4. posted' = posted
    BY <1>4 DEF Poke
  <2>5. Pipe!HostStore
    BY <2>1, <2>3, <2>4 DEF Pipe!HostStore
  <2> QED
    BY <2>5 DEF Pipe!Next
<1>5. ASSUME NEW strap \in Straps, Reset(strap)
      PROVE  Pipe!Next
  <2>1. \A l \in Loc : Pipe!Land(l)
    BY <1>5, LandedAt DEF Reset
  <2> QED
    BY <1>5, <2>1 DEF Reset, Pipe!Next, Pipe!Restart
<1>6. CASE UNCHANGED vars
  <2>1. ASSUME NEW l \in Loc
        PROVE  InFlight(l)' = InFlight(l) /\ \A i \in 1..4 : Coming(l, i)' = Coming(l, i)
    BY <1>6, ComingNow, InFlightNow DEF vars
  <2>2. /\ [l \in Loc |-> [i \in 1..4 |-> Coming(l, i)']] =
             [l \in Loc |-> [i \in 1..4 |-> Coming(l, i)]]
        /\ [l \in Loc |-> InFlight(l)'] = [l \in Loc |-> InFlight(l)]
    BY <2>1
  <2> QED
    BY <1>6, <2>2 DEF Pipe!delayedVars, vars
<1> QED
  BY <1>1, <1>2, <1>3, <1>4, <1>5, <1>6 DEF Next, Insn, Host

-----------------------------------------------------------------------------
\* A DA store is hidden from the next three instructions and no more, to the
\* byte, while the host sees it at once: the slots of da_wr[], their ages and
\* the overlay together are a pipe per byte (da_shadowed_write, latency_tick,
\* da_shadow_overlay, mem_write).
THEOREM StoresAreDelayed == Spec => Delayed
<1>1. Spec => Pipe!Init /\ [][Pipe!Next]_(Pipe!delayedVars)
  BY InitPipe, StepPipe, Invariance, PTL DEF Spec
<1> QED
  BY <1>1 DEF Delayed, Pipe!Spec

\* A load returns the front of the pipe of each byte it reads
\* (da_shadow_overlay, mem_read).
THEOREM LoadsSeeTheFront == Spec => []LoadsTheFront
<1>1. ASSUME IInv, NEW o \in Operands \cup DaOperands, ~Faults(o), NEW i \in 0..o[2] - 1
      PROVE  Load(o)[i] = Coming(MemPtr(comp, Align(o[1], o[2]) + i), 1)
  <2> DEFINE x == Align(o[1], o[2])
             y == x + i
             l == MemPtr(comp, y)
             t == Ticked(daWr)
             E == Covering(t, y)
             r == RawRead(x, o[2])
  <2>1. x \in Nat /\ o[2] \in {1, 2, 4} /\ y \in Int /\ comp \in BOOLEAN
    BY <1>1, AlignType, MemoryAssumption DEF IInv, TypeOK
  <2>2. t \in [Slot -> Entry] /\ Distinct(t)
    BY <1>1, NowIs, TickedFacts
  <2> HIDE DEF x, t
  <2>3. AddressIn(comp, l) = y
    BY <2>1, AddressOfPtr
  <2>4. HidingOf(t, comp, l) = E
    BY <2>3 DEF HidingOf
  <2>5. ASSUME NEW e \in E
        PROVE  e \in Slot /\ t[e].live /\ t[e].rem \in 0..3
    BY <2>2, <2>4, HidingFacts
  <2>6. Until(t, comp, l, 0) = E
    BY <2>4, <2>5 DEF Until
  <2>7. Coming(l, 1) = ComingOf(t, mem, comp, l, 0)
    <3>1. ComingOf(t, mem, comp, l, 0) = ComingOf(daWr, mem, comp, l, 0 + 1)
      BY <1>1, NowIs, TickedComing DEF t
    <3> QED
      BY <1>1, <3>1, NowIs
  <2>8. Load(o)[i] = IF E = {} THEN mem[l] ELSE t[OldestOf(t, E)].old[x + i - t[OldestOf(t, E)].addr]
    <3>1. Load(o) = Overlay(t, x, r)
      BY DEF Load, t, x
    <3>2. i \in DOMAIN r /\ r[i] = mem[l]
      BY DEF RawRead
    <3> HIDE DEF r, l
    <3>3. Overlay(t, x, r)[i] = IF E = {} THEN r[i]
                                ELSE t[OldestOf(t, E)].old[x + i - t[OldestOf(t, E)].addr]
      <4>1. Overlay(t, x, r) =
              [j \in DOMAIN r |->
                 IF Covering(t, x + j) = {} THEN r[j]
                 ELSE t[OldestOf(t, Covering(t, x + j))].old
                        [x + j - t[OldestOf(t, Covering(t, x + j))].addr]]
        BY DEF Overlay
      <4>2. Overlay(t, x, r)[i] =
              IF Covering(t, x + i) = {} THEN r[i]
              ELSE t[OldestOf(t, Covering(t, x + i))].old
                     [x + i - t[OldestOf(t, Covering(t, x + i))].addr]
        BY <3>2, <4>1, Zenon
      <4> QED
        BY <4>2
    <3> QED
      BY <3>1, <3>2, <3>3
  <2>9. CASE E = {}
    <3>1. Until(t, comp, l, 0) = {}
      BY <2>6, <2>9
    <3>2. ComingOf(t, mem, comp, l, 0) = mem[l]
      BY <2>2, <3>1, ComingIs
    <3> HIDE DEF E, l
    <3> QED
      BY <2>7, <2>8, <2>9, <3>2 DEF l, x
  <2>10. CASE E # {}
    <3> DEFINE g == OldestOf(t, E)
    <3>1. PICK e \in E : \A f \in E : t[e].rem <= t[f].rem
      <4> HIDE DEF E
      <4> QED BY <2>5, <2>10, Extremes
    <3>2. g = e
      <4> DEFINE P(h) == \A f \in E : t[h].rem < t[f].rem \/ (t[h].rem = t[f].rem /\ h >= f)
      <4>1. E \subseteq 0..3
        BY <2>5 DEF Slot
      <4> HIDE DEF E
      <4>2. \A f \in E : f = e \/ t[e].rem < t[f].rem
        BY <2>2, <2>5, <3>1 DEF Distinct
      <4>3. P(e)
        BY <4>1, <4>2
      <4>4. \A h \in E : P(h) => h = e
        BY <2>5, <3>1, <4>2
      <4>5. g = CHOOSE h \in E : P(h)
        BY DEF OldestOf
      <4> HIDE DEF P, g
      <4> QED
        BY <3>1, <4>3, <4>4, <4>5
    <3>3. ComingOf(t, mem, comp, l, 0) = Told(t, comp, l, e)
      BY <2>2, <2>6, <3>1, ComingIs
    <3> QED
      <4>1. Load(o)[i] = t[e].old[y - t[e].addr]
        <5>1. Load(o)[i] = t[e].old[x + i - t[e].addr]
          <6> HIDE DEF E, l
          <6> QED BY <2>8, <2>10, <3>2
        <5>2. t[e].addr \in Nat
          <6>1. t[e] \in Entry /\ t[e] # Free
            BY <2>2, <2>5, <3>1 DEF Free
          <6> QED
            BY <6>1 DEF Entry, Live
        <5>3. x + i - t[e].addr = y - t[e].addr
          BY <1>1, <2>1, <5>2
        <5> QED
          BY <5>1, <5>3
      <4>2. Told(t, comp, l, e) = t[e].old[y - t[e].addr]
        BY <2>3 DEF Told
      <4> QED
        BY <2>7, <3>3, <4>1, <4>2 DEF x
  <2> QED
    BY <2>9, <2>10 DEF x
<1>2. IInv => LoadsTheFront
  BY <1>1 DEF LoadsTheFront
<1> QED
  BY <1>2, Invariance, PTL
=============================================================================
