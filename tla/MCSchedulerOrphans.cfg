SPECIFICATION Spec
CONSTANTS
    Cpu = {c1, c2}
    Proc = {init, p1, p2, p3}
    InitProc = init
    NoProc = NoProc
    NoCpu = NoCpu
SYMMETRY Interchangeable
INVARIANTS
    OrphansAdopted
