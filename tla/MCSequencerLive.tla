-------------------------- MODULE MCSequencerLive --------------------------
\* The instance of SequencerLive for TLC.
EXTENDS MCSequencer, SequencerLive

LivenessPrograms ==
  [p \in {Da, Do(1, 2), DoLock(0, 3)} \X {If(20), I("waiti")} |-> Flat(BaseCode(p[1], p[2]))]
=============================================================================
