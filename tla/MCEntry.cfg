CONSTANTS
    Cpu = {c0, c1}
    Bsp = c0
    Thread = {t1, t2}
    First = t1
    NoThread = NoThread
    MaxFrames = 2
SPECIFICATION Spec
INVARIANTS
    TypeOK
    GsRight
    OwnStack
    ContextKept
