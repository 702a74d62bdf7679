SPECIFICATION EmulatorsSpec
CONSTANTS
    BITS = 2
    WORD = 4
    HALF = 2
    MemSize = 16
    Vector = 9
    ArgId = 1
    ArgLength = 2
    SYS_WRITE = 2
    Image = {0, 9}
    Instructions <- MCInstructions
    MaxSteps = 3
    P = 4
    Short = 3
    PerBlock = 2
    Blocks = 2
    Sentinels = {"ADD", "POPSP"}
    Operands <- MCOperands
    DIGIT = 4
    TINC1 = 3
    TINC2 = 1
    SCALE = 2
    MaxTicks = 40
INVARIANTS
    ComputesLikeC
PROPERTIES
    ImplementsStack
    FollowsProgram
    LatchIsATime
\* A run of a program ends with its last instruction, a division with its result.
CHECK_DEADLOCK FALSE
