SPECIFICATION Spec
CONSTANTS
    Undefined = Undefined
    Failed = Failed
    Null = Null
    Diverged = Diverged
    AID_SIZE = 4
    Label = {7, 8}
    Block <- MCBlock
    Memory <- MCMemory
    MaxBlocks = 3
    MaxRemoved = 2
    Value = {v1, v2}
    Width = 2
    Numbers = {1, 2, 5}
    Session = {1, 2}
    Verifiers = {1, 2}
INVARIANTS
    TypeOK
    TableIsDictionary
    BytesAgree
    DumpReadsBack
    SetThenGet
    ListExact
    VerifiersExact
CHECK_DEADLOCK FALSE
