----------------------------- MODULE SapDosRead -----------------------------
(***************************************************************************)
(* What an archive of SapDos contains, read from its FAT, directory and    *)
(* sectors the way do_extract_file does, in one go.                        *)
(***************************************************************************)
EXTENDS SapDos, SequencesExt

\* The blocks of the chain that starts at b, in order, after k links at most.
Chain(b) ==
    LET walk[k \in 0 .. TO_FILESIZE_MAX] ==
            IF k = 0 THEN <<b>>
            ELSE LET c == walk[k - 1]
                 IN IF fat[Last(c)] < NBlocks THEN Append(c, fat[Last(c)]) ELSE c
    IN walk[TO_FILESIZE_MAX]

\* The sectors a file's chain gives, each with the number of bytes it holds of it.
ReadBack(e) ==
    LET chain == Chain(dir[e].first)
        full  == (Len(chain) - 1) * SectPerBlock
                 + fat[Last(chain)] - TO_END_BLOCK_OFFSET - 1
        at(s) == LET rank == Min({(s - 1) \div SectPerBlock, Len(chain) - 1})
                 IN chain[rank + 1] * SectPerBlock + (s - 1 - rank * SectPerBlock)
    IN [s \in 1 .. full + 1 |->
           <<SectorAt(at(s)), IF s =< full THEN SectSize ELSE dir[e].end>>]

\* A host file as a sequence of sectors.
Content(f) ==
    LET full == (Size[f] - 1) \div SectSize
    IN [s \in 1 .. full + 1 |->
           <<<<f, s>>, IF s =< full THEN SectSize ELSE Size[f] - full * SectSize>>]

\* The file that an entry holds; Filler when its sectors are those of no file.
FileOf(e) ==
    LET same == {f \in HostFiles : EntryName[f] = dir[e].name
                                   /\ Size[f] > 0 /\ Content(f) = ReadBack(e)}
    IN IF same = {} THEN Filler ELSE CHOOSE f \in same : TRUE

FilesOnDisk ==
    [nm \in Names |->
        LET slots == {e \in Entries : dir[e].name = nm}
        IN IF slots = {} THEN NoFile ELSE FileOf(Min(slots))]

\* The bytes that an entry holds.
StoredSize(e) ==
    LET r == ReadBack(e) IN (Len(r) - 1) * SectSize + Last(r)[2]

\* sap_DeleteFile "returns the total size of the files in bytes on success":
\* stated where the deletions are done and track 20 is still as it was.
DeleteReturnsTotalSize ==
    pc = "save" /\ cmd.op = "delete" /\ sect = 1
        => ret = MapThenSumSet(StoredSize, {e \in Entries : dir[e].name \in cmd.pattern})
=============================================================================
