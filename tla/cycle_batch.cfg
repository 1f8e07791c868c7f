SPECIFICATION FairSpec
CONSTANTS
    Calls <- SafetyCalls
    Levels = {0, 3, 6}
    EntryCycles = 2
    ResetCycles = 1
    HandlersResident = TRUE
INVARIANTS
    TypeOK
    IrqPrompt
    IrqKept
    RequestHonoured
    Accounted
PROPERTIES
    StopIsFinal
    CallReturns
