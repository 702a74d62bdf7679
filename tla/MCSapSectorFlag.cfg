SPECIFICATION SectorSpec
CONSTANTS
    SAP_SECTSIZE = 2
    Bytes <- MCBytes
    Headers <- MCHeaders
    Places <- MCPlaces
    Bursts <- MCBursts
INVARIANT
    CrcFlagMeansDamage
