--------------------------- MODULE DelayedStores ---------------------------
(***************************************************************************)
(* What executing code and the host may rely on in the data memory.  Each  *)
(* byte has a pipe of four values: the one the next instruction reads, the *)
(* one the instruction after it reads, and so on; the last one is what the *)
(* memory holds.  A DA store enters the pipe at its far end.  Any other    *)
(* store is read from the next instruction on, unless DA stores to the     *)
(* same byte are still on their way: then it queues behind them.           *)
(***************************************************************************)
EXTENDS Integers, Sequences

CONSTANTS
  Loc, Val,     \* the bytes of the memory, and their values
  Targets       \* the sets of bytes a store may reach

VARIABLES
  pipe,       \* pipe[l][i]: what the i-th next instruction reads at l
  behind,     \* behind[l]: instructions until the DA stores to l have landed
  posted      \* the last instruction was a DA store

delayedVars == <<pipe, behind, posted>>

Settled(l) == pipe[l][4]

-----------------------------------------------------------------------------
(* One byte in one step.  The value stored is the one memory ends up with. *)

Sooner(l) == IF behind[l] = 0 THEN 0 ELSE behind[l] - 1
Later(l)  == <<pipe[l][2], pipe[l][3], pipe[l][4], pipe[l][4]>>

\* v is read by the i-th next instruction for every i > n, p before that.
After(p, n, v) == [i \in 1..4 |-> IF i > n THEN v ELSE p[i]]

Age(l) ==
  /\ behind'[l] = Sooner(l)
  /\ pipe'[l] = Later(l)

TakeNow(l) ==
  /\ behind'[l] = Sooner(l)
  /\ pipe'[l] = After(Later(l), Sooner(l), Settled(l)')

TakeLater(l) ==
  /\ behind'[l] = 3
  /\ pipe'[l] = After(Later(l), 3, Settled(l)')

TakeFromHost(l) ==
  /\ behind'[l] = behind[l]
  /\ pipe'[l] = After(pipe[l], behind[l], Settled(l)')

Keep(l) == behind'[l] = behind[l] /\ pipe'[l] = pipe[l]

Land(l) == behind'[l] = 0 /\ pipe'[l] = After(pipe[l], 0, Settled(l))

-----------------------------------------------------------------------------
(* The steps *)

\* An instruction that stores nothing.
Pass == ~posted' /\ \A l \in Loc : Age(l)

\* A CA store, and the part of any store that a bus error cuts off.
DirectStore ==
  /\ ~posted'
  /\ \E B \in Targets : \A l \in Loc : IF l \in B THEN TakeNow(l) ELSE Age(l)

\* A DA store: four instructions pass before one reads it.
DelayedStore ==
  /\ posted'
  /\ \E B \in Targets : \A l \in Loc : IF l \in B THEN TakeLater(l) ELSE Age(l)

HostStore ==
  /\ UNCHANGED posted
  /\ \E B \in Targets : \A l \in Loc : IF l \in B THEN TakeFromHost(l) ELSE Keep(l)

\* A reset lands all that is in flight.
Restart == ~posted' /\ \A l \in Loc : Land(l)

Init ==
  /\ \E m \in [Loc -> Val] : pipe = [l \in Loc |-> [i \in 1..4 |-> m[l]]]
  /\ behind = [l \in Loc |-> 0]
  /\ ~posted

Next == Pass \/ DirectStore \/ DelayedStore \/ HostStore \/ Restart

Spec == Init /\ [][Next]_delayedVars
=============================================================================
