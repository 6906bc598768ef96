SPECIFICATION JackSpec
CONSTANTS
  j1 = j1
  j2 = j2
  Devices <- MCDevices
  NoDevice = NoDevice
INVARIANTS
  CallbackAlone
  AttachedIsRunning
PROPERTIES
  StaleHandlesRetired
  TroubleIsServed
