---------------------------- MODULE MCSapDosCrash ----------------------------
(***************************************************************************)
(* The disk of MCSapDos with two names, and three files of one, three and  *)
(* two blocks: all of it is the smallest disk on which the blocks freed by *)
(* an interrupted command are taken by another file.                       *)
(***************************************************************************)
EXTENDS SapDosCrash, TLC

CONSTANTS A, B, a1, a2, b1

MCNames     == {A, B}
MCHostFiles == {a1, a2, b1}
MCSize      == a1 :> 1 @@ a2 :> 3 @@ b1 :> 2
MCEntryName == a1 :> A @@ a2 :> A @@ b1 :> B
MCWildcards == {{A, B}}
MCReserved  == {3, 4}
=============================================================================
