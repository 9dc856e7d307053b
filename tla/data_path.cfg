SPECIFICATION Spec
CONSTANTS
    Undefined = Undefined
    Failed = Failed
    Null = Null
    Unset = Unset
    NoDigest = NoDigest
    AID_SIZE = 2
    AID <- MCAID
    Deployments <- MCDeployments
    Nonces <- MCNonces
    Tampered <- MCTampered
    Sizes <- MCSizes
    Numbers = {0, 1, 5, 17}
    Executable <- MCExecutable
    Directory <- MCDirectory
    Neighbour <- MCNeighbour
    Installed <- MCInstalled
    EXTRACTOR_MAX_ERROR_ALLOWED = 2
    total_data_to_exctract = 2
    MaxRequests = 2
INVARIANTS
    TypeOK
    WalkCovers
    HonestAccepted
    TamperNoticed
    AskedAreaWalked
    BlameIsRight
    DefinedBehaviour
    ReportAccounts
PROPERTIES
    ExtractorEnds
CHECK_DEADLOCK FALSE
