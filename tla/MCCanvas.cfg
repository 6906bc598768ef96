SPECIFICATION Spec
CONSTANTS
    Shapes <- MCShapes
    Patches <- MCPatches
    MaxDevices = 2
    MaxCopies = 4
    MaxWires = 3
    MaxPasted = 2
INVARIANTS RecordsAgree InputsLit ListFollowsEdits
CHECK_DEADLOCK FALSE
