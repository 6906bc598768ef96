SPECIFICATION Spec
CONSTANTS
  n1 = n1
  a = a
  b = b
  NoPort = NoPort
  NoEpoch = NoEpoch
  Notes = {n1}
  Ports = {NoPort, a, b}
  Capacity = 1
  ConnectClears = TRUE
  MaxSelects = 2
  MaxFaults = 1
INVARIANT NoNoteHangs
PROPERTIES PacketsKeepTheirPort OpensAgain
