---------------------------- MODULE MCSapArchive ----------------------------
(***************************************************************************)
(* Archives of two tracks (format 1) and one (format 2) of two sectors,    *)
(* two host files and room for two open archives.                        *)
(***************************************************************************)
EXTENDS SapArchive, TLC

CONSTANTS p1, p2, x

MCFormats  == {1, 2}
MCNTracks  == 1 :> 2 @@ 2 :> 1
MCPaths    == {p1, p2}
MCPayloads == {x}
Symmetry   == Permutations(MCPaths)
=============================================================================
