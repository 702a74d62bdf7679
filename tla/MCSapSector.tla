---------------------------- MODULE MCSapSector -----------------------------
(***************************************************************************)
(* Sectors of two bytes, from bytes with many and with few bits set, and   *)
(* bursts of one bit, of both ends, of a whole byte and of 16 bits, and    *)
(* the one that the CRC does not see at its border.                        *)
(***************************************************************************)
EXTENDS SapSector

BitsOf(n)  == {i \in 0 .. 7 : (n \div 2^i) % 2 = 1}
Pairs(set) == {<<BitsOf(p[1]), BitsOf(p[2])>> : p \in set}

MCBytes   == {BitsOf(n) : n \in {0, 179, 229}}
MCHeaders == Pairs({<<0, 0>>, <<4, 0>>, <<0, 1>>})
MCPlaces  == Pairs({<<20, 1>>, <<20, 2>>})
MCBursts  == Pairs({<<1, 0>>, <<0, 128>>, <<1, 128>>, <<128, 1>>, <<255, 0>>, <<255, 255>>,
                    <<8, 64>>, <<145, 133>>})
=============================================================================
