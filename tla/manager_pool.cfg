CONSTANTS
    Attestator = {a1, a2}
    total_actual_managers = 2
    MaxObject = 4
    SpuriousWakeups = TRUE
SPECIFICATION Spec
INVARIANTS TypeOK ServedIsScheduled ServedIsConnected
SYMMETRY AttestatorSymmetry
CHECK_DEADLOCK FALSE
