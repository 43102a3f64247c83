SPECIFICATION FairSpec

CONSTANTS
    loop = loop
    late = late
    putc = putc
    quick = quick
    wild = wild
    NULL = NULL
    Thread <- MCThread
    Regs <- MCRegs
    Addr <- MCAddr
    Pc <- MCPc
    Kind <- MCKind
    Execute <- MCExecute
    Entry <- MCEntry
    Expected <- MCExpected

INVARIANTS
    TypeOK
    HandOver
    RunsAlone
    NoFalseMismatch
    Lockstep

PROPERTIES
    ImplementsAlone
    RunReturns

CHECK_DEADLOCK FALSE
