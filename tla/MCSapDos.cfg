SPECIFICATION FairSpec
CONSTANTS
    NBlocks = 6
    SectSize = 2
    SectPerBlock = 2
    NEntries = 2
    EntriesPerSector = 1
    Reserved <- MCReserved
    Names <- MCNames
    HostFiles <- MCHostFiles
    Size <- MCSize
    EntryName <- MCEntryName
    Wildcards <- MCWildcards
    NoName = NoName
    NoFile = NoFile
    Filler = Filler
    A = A
    B = B
    C = C
    a1 = a1
    a2 = a2
    b1 = b1
    c1 = c1
    e0 = e0
INVARIANTS
    TypeOK
    NoCrossLink
    LiveChains
    AllocationSucceeds
    NoLostBlock
    UniqueNames
PROPERTIES
    ReservedUntouched
    CommandsComplete
