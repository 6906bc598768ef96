-------------------------- MODULE MCTimedAudioBuffer --------------------------
(* A small instance of TimedAudioBuffer for TLC.                            *)
EXTENDS TimedAudioBuffer

MCBlocks == {2}
MCPeriods == {2}
MCShifts == {-1, 2}
=============================================================================
