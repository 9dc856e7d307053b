CONSTANTS
    app = app
    a1 = a1
    a2 = a2
    x = x
    y = y
    NoManager = NoManager
    Application = {app}
    Attestator = {a1, a2}
    Area = {x}
    application_id <- MC_application_id
    startup_area <- MC_startup_area
    InitialData <- MC_InitialData_xxx
    MaxSession = 2
    MaxData = 3
    MaxRequest = 3
    Managers = {m1}
    Threshold = 4
    Failures = {"wakeup"}
    Serializable = TRUE
SPECIFICATION Spec
PROPERTIES DeclaredIntactIsProved
CHECK_DEADLOCK FALSE
