------------------------------- MODULE MCSap2 -------------------------------
(***************************************************************************)
(* Tracks of two sectors, two of them on a 3.5" disk and one on a 5" disk, *)
(* the FAT in the second sector, one archive, and two disks: one whose FAT *)
(* is free above, one with 0xFF all over it and bad sectors elsewhere.     *)
(***************************************************************************)
EXTENDS Sap2, TLC

CONSTANTS p1, x, Narrow, NarrowBlank

MCFormats  == {1, 2}
MCNTracks  == 1 :> 2 @@ 2 :> 1
MCPaths    == {p1}
MCPayloads == {x, Wide, Narrow, Unread, Blank, NarrowBlank}
MCShrunk   == Wide :> Narrow @@ Blank :> NarrowBlank
MCDisks    == {0 :> x @@ 1 :> Wide @@ 2 :> Blank @@ 3 :> x,
               0 :> Bad @@ 1 :> Blank @@ 2 :> x @@ 3 :> Bad}
=============================================================================
