----------------------------- MODULE SapDosList -----------------------------
(***************************************************************************)
(* What the functions of libsap.c that only read tell about an archive:    *)
(* sap_ListArchive and sap_GetFileInfo.  Each reads track 20 once and      *)
(* changes nothing on the disk, so its answer is a function of the state.  *)
(* The layout of the text, types, dates and comments are left out.         *)
(***************************************************************************)
EXTENDS SapDosRead

SAP_OK    == 0
SAP_ERROR == 128

\* A block is listed as this many Kb.
BlockKBytes == (TO_BLOCKSIZE + 1024) \div 1024

\* The loop of get_file_size: blocks counted, up to TO_FILESIZE_MAX.
get_file_size(e) ==
    LET walk[k \in 0 .. TO_FILESIZE_MAX] ==
            IF k = 0 THEN [block |-> dir[e].first, size |-> 0]
            ELSE LET c == walk[k - 1]
                 IN IF c.block < NBlocks
                      THEN [block |-> fat[c.block], size |-> c.size + 1] ELSE c
    IN walk[TO_FILESIZE_MAX].size

\* The loop of sap_GetFileInfo, which walks again to store the blocks.
BlocksTold(e) ==
    LET c == Chain(dir[e].first) IN SubSeq(c, 1, Min({Len(c), TO_FILESIZE_MAX}))

Listed == {e \in Entries : dir[e].name # NoName}

\* The header and one line for each entry in use.
sap_ListArchive ==
    [lines   |-> 1 + Cardinality(Listed),
     dskf    |-> get_dskf(fat) * BlockKBytes,
     entries |-> {<<dir[e].name, get_file_size(e) * BlockKBytes>> : e \in Listed}]

\* seek_file finds the first entry of the name.
sap_GetFileInfo(nm) ==
    LET slots == {e \in Entries : dir[e].name = nm}
        e     == Min(slots)
    IN IF slots = {} THEN [ret |-> SAP_ERROR]
       ELSE [ret     |-> SAP_OK,
             nblocks |-> get_file_size(e),
             block   |-> BlocksTold(e),
             size    |-> get_file_size(e) * TO_BLOCKSIZE + dir[e].end \div 256]

\* The same answer without the places of the blocks: how many are told, where a
\* block told twice counts once, next to the size of the array they are put in.
InfoOf(nm) ==
    LET info == sap_GetFileInfo(nm)
    IN IF info.ret = SAP_OK
       THEN [nblocks |-> info.nblocks, size |-> info.size,
             distinct |-> Cardinality(ToSet(info.block))]
       ELSE [nblocks |-> 0, size |-> 0, distinct |-> 0]

Listing == [list |-> sap_ListArchive, info |-> [nm \in Names |-> InfoOf(nm)]]
=============================================================================
