CONSTANTS
    Dirs = {"playout"}
    DeviceDescs <- MCDescs
    MaxDevices = 2
    MaxPlugs = 1
    MaxIndex = 3
SPECIFICATION Spec
INVARIANTS
    ResultMatchesDevices
    SetSelectsShown
