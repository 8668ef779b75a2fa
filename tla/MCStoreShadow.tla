--------------------------- MODULE MCStoreShadow ---------------------------
(***************************************************************************)
(* An instance of StoreShadow for TLC.  Memory has two bytes, and a window *)
(* of one byte lies over the upper one in processor mode and over the      *)
(* lower one in computer mode.                                             *)
(***************************************************************************)
EXTENDS StoreShadow, TLC

CONSTANTS a, b

MCData == { (0 :> a), (0 :> b @@ 1 :> a) }

\* DA stores of a byte, and of a word through a misaligned pointer.
MCDaOperands == {<<0, 1>>, <<1, 2>>}

\* Another store of the byte, and one to unmapped memory.
MCOperands == {<<0, 1>>, <<2, 2>>}
=============================================================================
