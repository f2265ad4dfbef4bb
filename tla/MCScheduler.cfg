SPECIFICATION FairSpec
CONSTANTS
    Cpu = {c1, c2}
    Proc = {init, p1, p2}
    InitProc = init
    NoProc = NoProc
    NoCpu = NoCpu
INVARIANTS
    TypeOK
    SingleOwner
    NoUseAfterFree
    ExitNeverReturns
    FamilyTree
PROPERTIES
    DeathIsFinal
    ReadyRuns
    WaitReturns
