CONSTANTS
    MaxHandles = 5
SPECIFICATION Spec
\* After every handle is dropped and C++ freed the ADM, nothing is left to do.
CHECK_DEADLOCK FALSE
INVARIANTS
    AdmAliveWhileUsed
    FactoryOutlivesObjects
