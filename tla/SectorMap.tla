----------------------------- MODULE SectorMap ------------------------------
(***************************************************************************)
(* BuildSectorMap of src/sapfs/sap2.c: the order in which FormatDisk lays  *)
(* the sectors of a track, `factor' places apart as far as they are free.  *)
(* A disk on which a number is missing cannot be used, and a loop that     *)
(* finds no free place does not end.                                       *)
(***************************************************************************)
EXTENDS Integers

CONSTANTS
    SAP_NSECTS,         \* sectors of a track
    Factors             \* the interleaving factors that a user may ask for

ASSUME SectorMapAssumption ==
    /\ SAP_NSECTS \in Nat \ {0}
    /\ Factors \subseteq Nat

MapPlaces == 0 .. SAP_NSECTS - 1

VARIABLES
    factor,
    sector_map,         \* the number laid at each place, 0 if none is
    sect,               \* the next number
    loc                 \* where to look for a free place

mapvars == <<factor, sector_map, sect, loc>>

MapInit ==
    /\ factor \in Factors
    /\ sector_map = [i \in MapPlaces |-> 0]
    /\ sect = 1
    /\ loc = 0

\* Mutant: the last place is never looked at.
NextPlace_Short(i, by) == (i + by) % (IF SAP_NSECTS = 1 THEN 1 ELSE SAP_NSECTS - 1)

NextPlace(i, by) == (i + by) % SAP_NSECTS

Probe ==
    /\ sect <= SAP_NSECTS
    /\ sector_map[loc] # 0
    /\ loc' = NextPlace(loc, 1)
    /\ UNCHANGED <<factor, sector_map, sect>>

\* Mutant: a place is taken whether it is free or not.
Free_Any(i) == TRUE

Free(i) == sector_map[i] = 0

Lay ==
    /\ sect <= SAP_NSECTS
    /\ Free(loc)
    /\ sector_map' = [sector_map EXCEPT ![loc] = sect]
    /\ sect' = sect + 1
    /\ loc' = NextPlace(loc, factor)
    /\ UNCHANGED factor

MapNext == Probe \/ Lay

MapSpec == MapInit /\ [][MapNext]_mapvars /\ WF_mapvars(MapNext)

-----------------------------------------------------------------------------
MapTypeOK ==
    /\ factor \in Factors
    /\ sector_map \in [MapPlaces -> 0 .. SAP_NSECTS]
    /\ sect \in 1 .. SAP_NSECTS + 1
    /\ loc \in MapPlaces

\* A formatted track has every sector once: no number is laid over another, and
\* every number that was laid stays, whatever the factor has in common with the
\* number of places.
EachOnce ==
    /\ \A s \in 1 .. sect - 1 : \E i \in MapPlaces : sector_map[i] = s
    /\ \A i, j \in MapPlaces : sector_map[i] = sector_map[j] /\ i # j => sector_map[i] = 0

\* The loops end, with every sector laid.
MapIsBuilt == <>(sect = SAP_NSECTS + 1)
=============================================================================
