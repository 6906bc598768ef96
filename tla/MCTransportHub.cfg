SPECIFICATION Spec
CONSTANTS
  d1 = d1
  d2 = d2
  Devices <- MCDevices
INVARIANTS ModeIsTheClients ClosedStaysClosed
PROPERTIES Reopens
