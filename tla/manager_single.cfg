CONSTANTS
    Attestator = {a1, a2}
    total_actual_managers = 1
    MaxObject = 5
    SpuriousWakeups = FALSE
SPECIFICATION FairSpec
INVARIANTS NoBadAccess
PROPERTIES PassedEventHandled CallbackReturns ShutdownCompletes
CHECK_DEADLOCK FALSE
