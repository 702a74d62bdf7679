------------------------------ MODULE MCSapDos ------------------------------
(***************************************************************************)
(* A small disk: 6 blocks of 2 sectors of 2 bytes, the two in the middle   *)
(* reserved as blocks 40 and 41 of a 80-block disk are, a directory of two *)
(* slots, each in its sector, for three names.                             *)
(***************************************************************************)
EXTENDS SapDosRead, TLC

CONSTANTS A, B, C, a1, a2, b1, c1, e0

MCNames     == {A, B, C}
MCHostFiles == {a1, a2, b1, c1, e0}
MCSize      == a1 :> 3 @@ a2 :> 9 @@ b1 :> 8 @@ c1 :> 16 @@ e0 :> 0
MCEntryName == a1 :> A @@ a2 :> A @@ b1 :> B @@ c1 :> C @@ e0 :> A
MCWildcards == {{A, B, C}, {A, C}, {}}
MCReserved  == {3, 4}
=============================================================================
