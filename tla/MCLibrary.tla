----------------------------- MODULE MCLibrary ------------------------------
(***************************************************************************)
(* Six parts of the programs that share no state, checked in one run: the  *)
(* order of the sectors, the bytes of a sector, the names of the directory,*)
(* the comparison with a pattern, the disks of the demos and the programs  *)
(* that unpack themselves.  One of them moves, the others keep a state of  *)
(* their own: a map that is built, a sector that was written, a directory  *)
(* without files, no comparison, a disk not laid, nothing to compress.     *)
(*                                                                         *)
(*   - SectorMap: 16 sectors and every factor, recommended or not;         *)
(*   - SapSector: sectors of two bytes with many and with few bits set,    *)
(*     and bursts of one bit, of both ends, of a byte, of 16 bits, and the *)
(*     one that the CRC does not see at its border;                        *)
(*   - SapNames: names of 2+1 characters in a directory of two entries,    *)
(*     typed with blanks, dots and slashes at every place;                 *)
(*   - Wildcard: every pattern of three characters, and some of four whose *)
(*     stars have to be tried again;                                       *)
(*   - TrackDisk: two tracks of 16 sectors of four bytes, files that begin *)
(*     and end at each byte of a sector, that fit one sector or cross the  *)
(*     tracks, that fill the disk to its last byte and by a byte too much, *)
(*     and one that is empty;                                              *)
(*   - Exobin: files of five bytes written in every way that the format can*)
(*     express, a byte at every fifth address of a page,     *)
(*     places asked for in and around the file and the RAM, hunks with a   *)
(*     gap and one over the other, both machines, both ends of their RAM.  *)
(***************************************************************************)
EXTENDS SectorMap, SapSector, SapNames, Wildcard, TrackDisk, Exobin

VARIABLE part               \* the part that moves

allvars == <<mapvars, sectorvars, nvars, wvars, diskvars, exovars, part>>

BitsOf(n)  == {i \in 0 .. 7 : (n \div 2^i) % 2 = 1}
Pairs(set) == {<<BitsOf(p[1]), BitsOf(p[2])>> : p \in set}

MCBytes   == {BitsOf(n) : n \in {0, 179, 229}}
MCHeaders == Pairs({<<0, 0>>, <<4, 1>>})
MCPlaces  == Pairs({<<20, 1>>, <<20, 2>>})
MCBursts  == Pairs({<<1, 0>>, <<0, 128>>, <<1, 128>>, <<128, 1>>, <<255, 0>>, <<255, 255>>,
                    <<8, 64>>, <<145, 133>>})

Strings(chars, n) == UNION {[1 .. k -> chars] : k \in 0 .. n}

MCUpper == [c \in {"b", "B", Blank, Dot, Slash, FREE} |-> IF c = "b" THEN "B" ELSE c]
MCTags  == {<<"B">>}
MCTyped == Strings({"b", Blank, Dot}, 3) \cup
    {<<"b", "b", Dot, "b">>, <<"b", Dot, "b", "b">>, <<"b", "b", "b", Dot, "b">>,
     <<"b", Dot, "b", Dot>>, <<"b", Blank, Dot, "b">>, <<Blank, "b", Dot, "b">>,
     <<"b", "B">>, <<"b", Dot, "B">>, <<"B", "b">>, <<FREE>>, <<"b", Dot, FREE>>,
     <<Dot, Slash, "b">>, <<"b", Slash, "b", Dot, "b">>}

MCSubjects == Strings({"a", "b"}, 2) \cup
    {<<"a", "a", "b">>, <<"a", "b", "a">>, <<"a", "b", "b">>}
MCPatterns == Strings({"a", Star, Quest}, 3) \cup
    {<<Star, "a", Star, "a">>, <<"a", Star, "b", Star>>, <<Star, Quest, Star, "b">>}

File(size, exec) == [size |-> size, exec |-> exec]
MCLists ==
    {<<File(l, FALSE), File(a, TRUE), File(b, FALSE)>> :
        l \in {5, 52}, a \in {1, 3, 4, 5, 8}, b \in {1, 3, 4, 5, 8, 9}}
    \cup {<<File(6, FALSE), File(100, FALSE), File(b, TRUE), File(c, FALSE)>> :
        b \in {15, 16}, c \in {1, 4}}
    \cup {<<File(6, FALSE), File(3, FALSE), File(0, TRUE), File(2, TRUE)>>}

\* Files of a program and the place asked for; what exomizer takes for intervals.
Hunk(adr, bytes) == [adr |-> adr, bytes |-> bytes]
One == [off1 |-> <<0>>, off2 |-> <<0, 1>>, off3 |-> <<1, 0>>, len |-> <<0, 0, 1>>]
Few == [off1 |-> <<1>>, off2 |-> <<2>>, off3 |-> <<0, 0, 0>>, len |-> <<1, 2>>]
Exo(mo, adr, hunks, enc, where) ==
    [mo |-> mo, file |-> [exe |-> adr, hunks |-> hunks], enc |-> enc, at |-> where]
Auto(mo, adr, bytes) == Exo(mo, adr, <<Hunk(adr, bytes)>>, One, HEXADDR_AUTO)

MCJobs ==
    {Exo(FALSE, 40000, <<Hunk(40000, <<5, 255, 5, 255, 5>>)>>, One, HEXADDR_AUTO),
     Exo(FALSE, 40000, <<Hunk(40000, <<5, 5, 5, 9>>)>>, Few, HEXADDR_AUTO)}
    \cup {Auto(FALSE, 40000 + 5 * k, <<7>>) : k \in 0 .. 51}
    \cup {Exo(mo, 40000, <<Hunk(40000, <<9>>)>>, Few, where) : mo \in BOOLEAN,
        where \in {HEXADDR_NONE, 16384, 24500, 25000, 39600, 39700, 39701, 40000, 40001, 57000, 57344}}
    \cup {Exo(FALSE, 30001, <<Hunk(30000, <<1, 2>>), Hunk(a, <<3>>)>>, One, HEXADDR_AUTO) :
        a \in {30001, 30003}}
    \cup {Auto(FALSE, 24832, <<1>>), Auto(FALSE, 57342, <<1, 2>>),
          Auto(TRUE, 8448, <<1>>), Auto(TRUE, 40958, <<1, 2>>), Auto(TRUE, 24776, <<1>>)}

Built ==
    /\ factor = 0
    /\ sector_map = [i \in MapPlaces |-> i + 1]
    /\ sect = SAP_NSECTS + 1
    /\ loc = 0

LibraryInit ==
    /\ part \in {"map", "sector", "names", "pattern", "disk", "exo"}
    /\ TrackDiskInit
    /\ part # "disk" => files = CHOOSE l \in Lists : TRUE
    /\ IF part = "map" THEN MapInit ELSE Built
    /\ SectorInit
    /\ part # "sector" => written = CHOOSE s \in Sector : TRUE
    /\ NamesInit
    /\ WildInit
    /\ ExobinInit
    /\ part # "exo" => job = CHOOSE j \in Jobs : TRUE

Map == part = "map" /\ MapNext
         /\ UNCHANGED <<part, sectorvars, nvars, wvars, diskvars, exovars>>
SectorBytes == part = "sector" /\ SectorNext
                 /\ UNCHANGED <<part, mapvars, nvars, wvars, diskvars, exovars>>
Names == part = "names" /\ NamesNext
           /\ UNCHANGED <<part, mapvars, sectorvars, wvars, diskvars, exovars>>
Pattern == part = "pattern" /\ WildNext
             /\ UNCHANGED <<part, mapvars, sectorvars, nvars, diskvars, exovars>>
Disk == part = "disk" /\ TrackDiskNext
          /\ UNCHANGED <<part, mapvars, sectorvars, nvars, wvars, exovars>>
Unpacking == part = "exo" /\ ExobinNext
               /\ UNCHANGED <<part, mapvars, sectorvars, nvars, wvars, diskvars>>

LibraryNext == Map \/ SectorBytes \/ Names \/ Pattern \/ Disk \/ Unpacking

\* The loops of BuildSectorMap and of wcdcmp go on until they return.
LibrarySpec ==
    /\ LibraryInit /\ [][LibraryNext]_allvars
    /\ WF_allvars(Map)
    /\ WF_allvars(part = "pattern" /\ Turn
                   /\ UNCHANGED <<part, mapvars, sectorvars, nvars, diskvars, exovars>>)
=============================================================================
