SPECIFICATION Spec
CONSTANTS
    MAX_ARCHIVE = 2
    SAP_NSECTS = 2
    Formats <- MCFormats
    SAP_NTRACKS <- MCNTracks
    Paths <- MCPaths
    Payloads <- MCPayloads
    Filler = Filler
    NoPath = NoPath
    NoFormat = NoFormat
    Foreign = Foreign
    p1 = p1
    p2 = p2
    x = x
SYMMETRY Symmetry
INVARIANT
    OpenChecksHeader
