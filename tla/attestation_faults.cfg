CONSTANTS
    app = app
    a1 = a1
    a2 = a2
    x = x
    y = y
    NoManager = NoManager
    Application = {app}
    Attestator = {a1}
    Area = {x}
    application_id <- MC_application_id
    startup_area <- MC_startup_area
    InitialData <- MC_InitialData_xx
    MaxSession = 2
    MaxData = 2
    MaxRequest = 2
    Managers = {m1}
    Threshold = 4
    Failures = {"listener", "manager", "crash"}
    Serializable = TRUE
SPECIFICATION Spec
INVARIANTS TypeOK OneActiveSession StartupRequestedOnce
PROPERTIES ProvedWhenDeclared
CHECK_DEADLOCK FALSE
