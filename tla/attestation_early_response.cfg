CONSTANTS
    app = app
    a1 = a1
    a2 = a2
    x = x
    y = y
    NoManager = NoManager
    Application = {app}
    Attestator = {a1}
    Area = {x}
    application_id <- MC_application_id
    startup_area <- MC_startup_area
    InitialData <- MC_InitialData_x
    MaxSession = 1
    MaxData = 1
    MaxRequest = 1
    Managers = {m1}
    Threshold = 1
    Failures = {}
    Serializable = TRUE
SPECIFICATION Spec
INVARIANTS NoResponseReceived
CHECK_DEADLOCK FALSE
