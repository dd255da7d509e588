CONSTANTS
    BlockSize = 64
    MaxObjects = 100
    Types <- MCTypes
    SizeOf <- MCSizeOf
    Trivial <- MCTrivial
    Inputs <- MCInputs
    IRTypes <- MCIRTypes
    MaxIR = 2
SPECIFICATION DriverSpec
INVARIANTS
    ParsedRight
    NothingLeaks
    RegionsApart
    OuterDiesFirst
    RunsOwnOutput
    ReadsOwnLog
PROPERTY TestsEnd
CHECK_DEADLOCK FALSE
