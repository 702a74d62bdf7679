SPECIFICATION LibrarySpec
CONSTANTS
    SAP_NSECTS = 16
    Factors = {0, 1, 2, 3, 4, 5, 6, 7, 8, 9, 10, 11, 12, 13, 14, 15, 16, 17}
    SAP_SECTSIZE = 2
    Bytes <- MCBytes
    Headers <- MCHeaders
    Places <- MCPlaces
    Bursts <- MCBursts
    TO_NAME_LENGTH = 2
    TO_EXT_LENGTH = 1
    ShortMax = 4
    NSlots = 2
    Typed <- MCTyped
    Tags <- MCTags
    Upper <- MCUpper
    Subjects <- MCSubjects
    Patterns <- MCPatterns
    SECTOR_SIZE = 4
    Tracks = 2
    P_SIZEOF = 2
    EXEC = 1
    Lists <- MCLists
    Jobs <- MCJobs
INVARIANTS
    EachOnce
    ReadsBack
    BurstChangesCrc
    CrcIsCcitt
    OneEntryPerName
    ListedNameReaches
    ReaddReplaces
    AnswerIsMatch
    StackFits
    LoadsTheFile
    ExtractsTheFile
PROPERTIES
    MapIsBuilt
    SearchEnds
\* The loops end when the last sector is laid, a search when it has its answer, a
\* machine stops at a sector that it cannot read, and a file that is unpacked runs.
CHECK_DEADLOCK FALSE
