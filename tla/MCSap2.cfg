SPECIFICATION Sap2Spec
CONSTANTS
    MAX_ARCHIVE = 2
    SAP_NSECTS = 2
    Formats <- MCFormats
    SAP_NTRACKS <- MCNTracks
    Paths <- MCPaths
    Payloads <- MCPayloads
    Disks <- MCDisks
    DISK_RETRY = 3
    FatAt = 1
    Filler = Filler
    NoPath = NoPath
    NoFormat = NoFormat
    Foreign = Foreign
    Wide = Wide
    Narrow = Narrow
    NarrowBlank = NarrowBlank
    Shrunk <- MCShrunk
    Unread = Unread
    Blank = Blank
    Bad = Bad
    p1 = p1
    x = x
INVARIANTS
    Sap2TypeOK
    PackIsFaithful
    UnpackIsFaithful
    FormatIsComplete
PROPERTIES
    UsesLibsapSerially
    EndClosesArchive
    CommandsEnd
