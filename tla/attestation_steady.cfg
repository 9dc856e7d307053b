CONSTANTS
    app = app
    a1 = a1
    a2 = a2
    x = x
    y = y
    NoManager = NoManager
    Application = {app}
    Attestator = {a1, a2}
    Area = {x}
    application_id <- MC_application_id
    startup_area <- MC_startup_area
    InitialData <- MC_InitialData_a1a2
    MaxSession = 3
    MaxData = 2
    MaxRequest = 2
    Managers = {m1}
    Threshold = 1
    Failures = {"wakeup"}
    Serializable = TRUE
SPECIFICATION Spec
INVARIANTS IntactMeansProved
CHECK_DEADLOCK FALSE
