SPECIFICATION Spec
CONSTANTS
  Width = 8
  Capacity = 4
  Taps = 2
  InStep = 3
  OutStep = 2
  Blocks <- MCBlocks
  Periods <- MCPeriods
  Early = 1
  Missed = 7
  Back = 5
  Shifts <- MCShifts
  MaxFrame = 10
  MaxTime = 30
  MaxGeneration = 2
  MaxOdd = 2
INVARIANTS SlotsApart PlaysWhatIsDue
PROPERTIES ExpiredIsDiscarded
CHECK_DEADLOCK FALSE
