--------------------------- MODULE SequencerLive ---------------------------
(***************************************************************************)
(* Sequencer under the run loop of its hosts (dsp3210emu.c, run_apps.c),   *)
(* which call dsp3210_step() again and again.  clock turns over at every   *)
(* call, so that fairness counts the calls that change nothing too.        *)
(***************************************************************************)
EXTENDS Sequencer

VARIABLE clock

liveVars == <<vars, clock>>

LiveInit == Init /\ clock = 0

Tick   == clock' = 1 - clock
Called == Step /\ Tick

LiveNext == Called \/ (Host /\ UNCHANGED clock)

\* The run loop never stops calling; the host's other calls are free.  The clock
\* turns with the calls only and dsp3210_step() can always be called, so weak
\* fairness of its turning says no more than that calls go on for ever.
LiveSpec == LiveInit /\ [][LiveNext]_liveVars /\ WF_clock(Tick)

-----------------------------------------------------------------------------
\* An enabled request for the vector of highest priority is served, or
\* withdrawn by an emr write, wherever it finds the program: in a delay slot,
\* a dolock loop, a handler or asleep.
RequestServed ==
  (EXT0 \in Enabled(s)) ~> (EXT0 \notin Enabled(s))

\* The base program gets on, however densely requests arrive: each return
\* replays one of its instructions before the next interrupt is recognised.
BaseProgresses == Base!Progress
=============================================================================
