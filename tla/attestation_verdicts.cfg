CONSTANTS
    app = app
    a1 = a1
    a2 = a2
    x = x
    y = y
    NoManager = NoManager
    Application = {app}
    Attestator = {a1}
    Area = {x}
    application_id <- MC_application_id
    startup_area <- MC_startup_area
    InitialData <- MC_InitialData_none
    MaxSession = 2
    MaxData = 1
    MaxRequest = 2
    Managers = {m1, m2}
    Threshold = 1
    Failures = {"verifier"}
    Serializable = FALSE
SPECIFICATION Spec
INVARIANTS LifecycleInv NonceReuseNeedsTwoManagers AttestedOncePerHandOff
PROPERTIES LifecycleImplemented
SYMMETRY ManagerSymmetry
CHECK_DEADLOCK FALSE
