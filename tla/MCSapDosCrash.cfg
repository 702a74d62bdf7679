SPECIFICATION CrashSpec
CONSTANTS
    NBlocks = 6
    SectSize = 1
    SectPerBlock = 1
    NEntries = 2
    EntriesPerSector = 1
    Reserved <- MCReserved
    Names <- MCNames
    HostFiles <- MCHostFiles
    Size <- MCSize
    EntryName <- MCEntryName
    Wildcards <- MCWildcards
    NoName = NoName
    NoFile = NoFile
    Filler = Filler
    MaxCrashes = 2
    A = A
    B = B
    a1 = a1
    a2 = a2
    b1 = b1
INVARIANTS
    CrashContained
    StillAllocates
    AddedFileReads
CHECK_DEADLOCK FALSE
