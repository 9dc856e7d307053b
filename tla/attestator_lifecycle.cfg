CONSTANT MAX_CONNECTION_RETRY = 10
SPECIFICATION FairSpec
INVARIANTS TypeOK DataAliveWhenRead NoAttestationAfterExit
PROPERTIES DeinitCompletes
CHECK_DEADLOCK FALSE
