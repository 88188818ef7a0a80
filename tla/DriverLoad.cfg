SPECIFICATION Spec
CONSTANT Machines <- MCMachines
INVARIANTS
    LoadInv
    LeaksAreKnown
PROPERTIES
    PinsAreLostToLosers
CHECK_DEADLOCK FALSE
