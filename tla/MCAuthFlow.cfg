CONSTANTS
    Flows = {1, 2}
    Requests = {1, 2}
    NoFlow = NoFlow
    Failure = Failure
    Nothing = Nothing
CHECK_DEADLOCK FALSE
SPECIFICATION FairSpec
INVARIANTS TypeOK CallbackIsOurs ResultIsItsOwn
PROPERTIES KeepsOneLogin HandlersEnd PortsAreFreed
