------------------------------- MODULE SapDos -------------------------------
(***************************************************************************)
(* The Thomson BASIC DOS layer of src/sapfs/libsap.c: the block allocation *)
(* table (FAT) and the directory kept in track 20 of a SAP archive, the    *)
(* data sectors of the files, and the three commands that a program runs   *)
(* on a FULL archive: sap_AddFile, sap_DeleteFile, sap_ExtractFile.        *)
(*                                                                         *)
(* A command reads track 20 into a buffer (mfat, mdir: trk20_data), works  *)
(* on the buffer one block at a time, writes data sectors straight to the  *)
(* archive, and writes the 16 sectors of track 20 back at the end, in      *)
(* ascending order.  One action is one iteration of one of its loops.      *)
(***************************************************************************)
EXTENDS Integers, Sequences, FiniteSets, FiniteSetsExt

CONSTANTS
    NBlocks,              \* TO_NBLOCKS: blocks of the disk
    SectSize,             \* TO_SECTSIZE: payload bytes of a sector
    SectPerBlock,         \* TO_SECTOR_PER_BLOCK
    NEntries,             \* TO_NDIRENTRIES: slots of the directory
    EntriesPerSector,     \* TO_DIRENTRY_PER_SECTOR
    Reserved,             \* blocks the format sets aside (track 20, lost side)
    Names,                \* the 8+3 names a directory entry can hold
    HostFiles,            \* files of the host, one per path and content
    Size,                 \* their size in bytes
    EntryName,            \* the name decode_filename gives each of them
    Wildcards,            \* the sets of names the wildcard patterns match
    NoName, NoFile, Filler

TO_END_BLOCK_OFFSET == 192
TO_TAG_RESERVED     == 254
TO_TAG_FREE         == 255
TO_BLOCKSIZE        == SectPerBlock * SectSize
TO_FILESIZE_MAX     == NBlocks - 2
TO_NSECTS           == 2 + NEntries \div EntriesPerSector

Byte    == 0 .. 255
Blocks  == 0 .. NBlocks - 1
Sectors == 0 .. NBlocks * SectPerBlock - 1
Entries == 0 .. NEntries - 1
NoBlock == -1

ASSUME GeometryAssumption ==
    /\ NBlocks \in 4 .. TO_END_BLOCK_OFFSET
    /\ NBlocks % 2 = 0
    /\ SectSize \in Nat \ {0}
    /\ SectPerBlock \in 1 .. 61
    /\ NEntries \in Nat \ {0}
    /\ EntriesPerSector \in Nat \ {0}
    /\ NEntries % EntriesPerSector = 0
    /\ Reserved \in SUBSET Blocks

\* Track 20 takes two blocks, which is why no chain exceeds TO_FILESIZE_MAX.
ASSUME Track20Assumption == \E a, b \in Reserved : a # b

ASSUME FilesAssumption ==
    /\ Size \in [HostFiles -> Nat]
    /\ EntryName \in [HostFiles -> Names]
    /\ Wildcards \in SUBSET (SUBSET Names)
    /\ NoName \notin Names
    /\ NoFile \notin HostFiles

(***************************************************************************)
(* A sector is known by the file it was written for and its rank in that   *)
(* file.  A directory slot is free when the first byte of its name is 0 or *)
(* 0xFF: NoName stands for both, and the other fields keep what they held. *)
(***************************************************************************)
Chunk == (HostFiles \X Nat) \cup {Filler}
Entry == [name : Names \cup {NoName}, first : Byte, end : Nat]
NoCmd == [op |-> "none", file |-> NoFile, pattern |-> {}, wild |-> FALSE]
Cmd   == [op : {"none", "add", "delete", "extract"}, file : HostFiles \cup {NoFile},
          pattern : SUBSET Names, wild : BOOLEAN]

VARIABLES
    fat, dir, data,           \* the archive: FAT, directory and data sectors
    mfat, mdir,               \* trk20_data, the command's copy of track 20
    pc, cmd,                  \* where the running command is, and what it is
    n, i,                     \* directory slot worked on, and the static variable of
                              \* seek_wildcard: the next slot it will look at
    block, head, size, left,  \* loop cursor, first block, blocks seen, bytes left
    sect,                     \* next sector of track 20 to write back
    extracted,                \* the host files that the last call wrote
    ret, errno                \* result of the last call, sap_errno

archive == <<fat, dir, data>>
buffer  == <<mfat, mdir>>
locals  == <<n, i, block, head, size, left, sect>>
vars    == <<archive, buffer, pc, cmd, locals, extracted, ret, errno>>

-----------------------------------------------------------------------------
\* Mutant: takes reserved blocks too.
FreeBlocks_Reserved(F) == {b \in Blocks : F[b] >= TO_TAG_RESERVED}

FreeBlocks(F) == {b \in Blocks : F[b] = TO_TAG_FREE}
get_dskf(F)   == Cardinality(FreeBlocks(F))

(***************************************************************************)
(* The search from the middle outwards.  At distance k it looks at block   *)
(* mid + k, then at mid - k; the byte at index -1 is never free.           *)
(***************************************************************************)
find_free_block_sym(F) ==
    LET mid  == NBlocks \div 2 - 1
        dist == {k \in 0 .. NBlocks \div 2 :
                    mid + k \in FreeBlocks(F) \/ mid - k \in FreeBlocks(F)}
    IN IF dist = {} THEN NoBlock
       ELSE IF mid + Min(dist) \in FreeBlocks(F) THEN mid + Min(dist)
                                                 ELSE mid - Min(dist)

(***************************************************************************)
(* The search that continues a chain: away from the middle, on the side    *)
(* the chain is on, then from the middle.                                  *)
(***************************************************************************)
find_free_block_rel(F, b) ==
    LET lower == {c \in FreeBlocks(F) : c =< b}
        upper == {c \in FreeBlocks(F) : c >= b}
    IN IF b < NBlocks \div 2
         THEN IF lower = {} THEN find_free_block_sym(F) ELSE Max(lower)
         ELSE IF upper = {} THEN find_free_block_sym(F) ELSE Min(upper)

\* Slots of directory D, from slot k on, that a call on the names S stops at.
SlotsOf(D, S, k) == {e \in Entries : e >= k /\ D[e].name \in S}

\* Mutant: the cap forgets that the longest chain has NBlocks - 2 blocks.
InChain_ShortCap(b) == b < NBlocks /\ size < TO_FILESIZE_MAX - 1

\* The condition of the loops that follow a chain, with their cap on its length.
InChain(b) == b < NBlocks /\ size < TO_FILESIZE_MAX

\* Mutant: the block just written still counts as free.
MarkBlock_None(F, b) == F

\* The FAT of a chain that grows, block b marked while its successor is sought.
MarkBlock(F, b) == [F EXCEPT ![b] = TO_TAG_RESERVED]

\* What do_read_sector returns at a linear sector number.
SectorAt(p) == IF p \in Sectors THEN data[p] ELSE Filler

\* Sectors k .. k + m - 1 of the archive as fwrite-d whole to the host.
WholeSectors(k, m) == [s \in 1 .. m |-> <<SectorAt(k + s - 1), SectSize>>]

\* The archive after `count' sectors of the file are written from block b on,
\* the first of them being sector number `from' of the file.
WriteSectors(b, count, from) ==
    [p \in Sectors |->
        IF p \in b * SectPerBlock .. b * SectPerBlock + count - 1
          THEN <<cmd.file, from + p - b * SectPerBlock>>
          ELSE data[p]]

-----------------------------------------------------------------------------
(***************************************************************************)
(* A disk that sap_FormatArchive has just written: an empty directory and  *)
(* every block free, except those set aside.                               *)
(***************************************************************************)
FormattedFat == [b \in Blocks |-> IF b \in Reserved THEN TO_TAG_RESERVED ELSE TO_TAG_FREE]
FormattedDir == [e \in Entries |-> [name |-> NoName, first |-> 255, end |-> 65535]]

NothingExtracted == [nm \in Names |-> <<>>]

Init ==
    /\ fat = FormattedFat
    /\ dir = FormattedDir
    /\ data = [p \in Sectors |-> Filler]
    /\ mfat = fat /\ mdir = dir
    /\ pc = "idle" /\ cmd = NoCmd
    /\ n = 0 /\ i = 0 /\ block = 0 /\ head = 0 /\ size = 0 /\ left = 0 /\ sect = 1
    /\ extracted = NothingExtracted
    /\ ret = 0 /\ errno = "none"

\* The function returns and its locals are gone; the index of seek_wildcard, a
\* static variable, is not one of them.
Return ==
    /\ pc' = "idle" /\ cmd' = NoCmd
    /\ n' = 0 /\ block' = 0 /\ head' = 0 /\ size' = 0 /\ left' = 0 /\ sect' = 1

\* A call refused before it changed anything.
Refuse(e) ==
    /\ Return
    /\ errno' = e /\ ret' = 0
    /\ extracted' = NothingExtracted
    /\ UNCHANGED <<archive, buffer, i>>

ReadTrack20 == mfat' = fat /\ mdir' = dir

\* Mutant: starts at the directory and forgets the FAT.
StartSave_DirOnly == pc' = "save" /\ sect' = 3

\* After the last change to the buffer: write track 20 back from its first sector.
StartSave == pc' = "save" /\ sect' = 1

-----------------------------------------------------------------------------
(***************************************************************************)
(* sap_AddFile: the file is opened and measured, its entry name decoded,   *)
(* and the directory searched for the entry it replaces, or a free slot.   *)
(***************************************************************************)
AddNoFile ==
    /\ pc = "idle"
    /\ Refuse("ENOENT")

AddEmptyFile(f) ==
    /\ pc = "idle"
    /\ Size[f] = 0
    /\ Refuse("ENFILE")

AddDirFull(f) ==
    /\ pc = "idle"
    /\ Size[f] > 0
    /\ SlotsOf(dir, {EntryName[f], NoName}, 0) = {}
    /\ Refuse("ENOSPC")

FreeSlots    == SlotsOf(dir, {NoName}, 0)

\* Mutant: the search stops at the first free slot.
PrevSlots_Early(f) ==
    {e \in SlotsOf(dir, {EntryName[f]}, 0) : \A k \in FreeSlots : k > e}

PrevSlots(f) == SlotsOf(dir, {EntryName[f]}, 0)

AddFile(f) ==
    LET prev == PrevSlots(f)
        free == FreeSlots
    IN /\ pc = "idle"
       /\ Size[f] > 0
       /\ ReadTrack20
       /\ cmd' = [NoCmd EXCEPT !.op = "add", !.file = f]
       /\ \/ /\ prev # {}
             /\ n' = Min(prev) /\ block' = dir[Min(prev)].first
             /\ pc' = "size"
          \/ /\ prev = {} /\ free # {}
             /\ n' = Min(free) /\ block' = 0
             /\ pc' = "check"
       /\ extracted' = NothingExtracted
       /\ UNCHANGED <<archive, i, head, size, left, sect, ret, errno>>

\* get_file_size of the entry to be replaced.
SizeStep ==
    /\ pc = "size"
    /\ \/ /\ InChain(block)
          /\ size' = size + 1 /\ block' = mfat[block]
          /\ pc' = pc
       \/ /\ ~InChain(block)
          /\ pc' = "check"
          /\ UNCHANGED <<size, block>>
    /\ UNCHANGED <<archive, buffer, cmd, n, i, head, left, sect, extracted, ret, errno>>

\* Mutant: compares whole blocks, the last one rounded down.
EnoughSpace_Rounded == get_dskf(mfat) + size >= Size[cmd.file] \div TO_BLOCKSIZE

\* Mutant: counts a block that is not there.
EnoughSpace_OneMore == (get_dskf(mfat) + size + 1) * TO_BLOCKSIZE >= Size[cmd.file]

\* Enough blocks, with those the replaced entry gives back?
EnoughSpace == (get_dskf(mfat) + size) * TO_BLOCKSIZE >= Size[cmd.file]

AddTooBig ==
    /\ pc = "check"
    /\ ~EnoughSpace
    /\ Refuse("EFBIG")

\* Mutant: leaves the entry in the directory.
StartDelete_KeepsEntry(e) ==
    /\ mdir' = mdir
    /\ block' = mdir[e].first
    /\ size' = 0
    /\ pc' = "delete"

\* do_delete_file up to its loop.
StartDelete(e) ==
    /\ mdir' = [mdir EXCEPT ![e].name = NoName]
    /\ block' = mdir[e].first
    /\ size' = 0
    /\ pc' = "delete"

CheckStep ==
    /\ pc = "check"
    /\ EnoughSpace
    /\ IF mdir[n].name # NoName
         THEN StartDelete(n)
         ELSE pc' = "alloc" /\ UNCHANGED <<mdir, block, size>>
    /\ UNCHANGED <<archive, mfat, cmd, n, i, head, left, sect, extracted, ret, errno>>

DeleteStep ==
    /\ pc = "delete"
    /\ InChain(block)
    /\ block' = mfat[block]
    /\ mfat' = [mfat EXCEPT ![block] = TO_TAG_FREE]
    /\ size' = size + 1
    /\ UNCHANGED <<archive, mdir, pc, cmd, n, i, head, left, sect, extracted, ret, errno>>

\* What do_delete_file returns when its loop has stopped.
DeletedSize ==
    size * TO_BLOCKSIZE
    + (IF block > TO_END_BLOCK_OFFSET + 1
         THEN (block - TO_END_BLOCK_OFFSET - 1) * SectSize ELSE 0)
    + mdir[n].end

DeleteDone ==
    /\ pc = "delete"
    /\ ~InChain(block)
    /\ \/ /\ cmd.op = "add"
          /\ pc' = "alloc"
          /\ UNCHANGED <<sect, ret>>
       \/ /\ cmd.op = "delete"
          /\ ret' = ret + DeletedSize
          /\ IF cmd.wild THEN pc' = "seek" /\ UNCHANGED sect ELSE StartSave
    /\ UNCHANGED <<archive, buffer, cmd, n, i, block, head, size, left, extracted, errno>>

-----------------------------------------------------------------------------
(***************************************************************************)
(* do_add_file.  A search that finds nothing gives NoBlock and the code    *)
(* goes on with the block number -1, outside the FAT: the model stops      *)
(* there, and AllocationSucceeds says that it never happens.               *)
(***************************************************************************)
AllocFirst ==
    /\ pc = "alloc"
    /\ block' = find_free_block_sym(mfat)
    /\ head' = block'
    /\ left' = Size[cmd.file]
    /\ pc' = "fill"
    /\ UNCHANGED <<archive, buffer, cmd, n, i, size, sect, extracted, ret, errno>>

\* Rank in the file of the next sector to write.
NextSector == (Size[cmd.file] - left) \div SectSize + 1

\* One full block, marked as reserved while its successor is looked for.
FillBlock ==
    /\ pc = "fill"
    /\ block \in Blocks
    /\ left > TO_BLOCKSIZE
    /\ data' = WriteSectors(block, SectPerBlock, NextSector)
    /\ block' = find_free_block_rel(MarkBlock(mfat, block), block)
    /\ mfat' = [mfat EXCEPT ![block] = block' % 256]
    /\ left' = left - TO_BLOCKSIZE
    /\ UNCHANGED <<fat, dir, mdir, pc, cmd, n, i, head, size, sect, extracted, ret, errno>>

\* The last block: `full' whole sectors and a last one with the bytes left.
FillTail ==
    LET full == (left - 1) \div SectSize
    IN /\ pc = "fill"
       /\ block \in Blocks
       /\ left =< TO_BLOCKSIZE
       /\ data' = WriteSectors(block, full + 1, NextSector)
       /\ mfat' = [mfat EXCEPT ![block] = TO_END_BLOCK_OFFSET + 1 + full]
       /\ mdir' = [mdir EXCEPT ![n] = [name  |-> EntryName[cmd.file],
                                       first |-> head,
                                       end   |-> left - full * SectSize]]
       /\ ret' = Size[cmd.file]
       /\ StartSave
       /\ UNCHANGED <<fat, dir, cmd, n, i, block, head, size, left, extracted, errno>>

\* Mutant: one iteration too many.
LastSector_Late == sect > TO_NSECTS

LastSector == sect = TO_NSECTS

(***************************************************************************)
(* sap_WriteSectorEx on track 20: sector 1 is the label, sector 2 the FAT, *)
(* the others hold EntriesPerSector slots each.                            *)
(***************************************************************************)
SaveSector ==
    /\ pc = "save"
    /\ fat' = IF sect = 2 THEN mfat ELSE fat
    /\ dir' = [e \in Entries |->
                  IF e \div EntriesPerSector = sect - 3 THEN mdir[e] ELSE dir[e]]
    /\ IF LastSector
         THEN Return
         ELSE sect' = sect + 1 /\ UNCHANGED <<pc, cmd, n, block, head, size, left>>
    /\ UNCHANGED <<data, buffer, i, extracted, ret, errno>>

-----------------------------------------------------------------------------
(***************************************************************************)
(* _ForEachFile, for sap_DeleteFile and sap_ExtractFile: a plain name is   *)
(* looked up once, a wildcard is a loop over the slots.  Track 20 is saved *)
(* after a deletion, even when nothing matched.                            *)
(***************************************************************************)
ForEachFile(op, S, wild) ==
    /\ pc = "idle"
    /\ ReadTrack20
    /\ cmd' = [NoCmd EXCEPT !.op = op, !.pattern = S, !.wild = wild]
    /\ ret' = 0
    /\ extracted' = NothingExtracted
    /\ pc' = "seek"
    /\ UNCHANGED <<archive, locals, errno>>

DeleteFile  == \/ \E nm \in Names : ForEachFile("delete", {nm}, FALSE)
               \/ \E S \in Wildcards : ForEachFile("delete", S, TRUE)
ExtractFile == \/ \E nm \in Names : ForEachFile("extract", {nm}, FALSE)
               \/ \E S \in Wildcards : ForEachFile("extract", S, TRUE)

(***************************************************************************)
(* seek_wildcard goes on where it stopped, for whatever pattern, and goes  *)
(* back to the first slot only when a search has found nothing more.       *)
(* seek_file looks at every slot and has no index to keep.                 *)
(***************************************************************************)
SearchFrom  == IF cmd.wild THEN i ELSE 0
Matches     == SlotsOf(mdir, cmd.pattern, SearchFrom)
Found(e)    == i' = IF cmd.wild THEN e + 1 ELSE i

\* Mutant: the index stays where the loop left it.
IndexAtEnd_Kept == NEntries

IndexAtEnd  == 0
NothingMore == i' = IF cmd.wild THEN IndexAtEnd ELSE i

SeekDelete ==
    /\ pc = "seek" /\ cmd.op = "delete"
    /\ Matches # {}
    /\ n' = Min(Matches) /\ Found(n')
    /\ StartDelete(n')
    /\ UNCHANGED <<archive, mfat, cmd, head, left, sect, extracted, ret, errno>>

SeekExtract ==
    /\ pc = "seek" /\ cmd.op = "extract"
    /\ Matches # {}
    /\ n' = Min(Matches) /\ Found(n')
    /\ block' = mdir[n'].first
    /\ size' = 0
    /\ pc' = "read"
    /\ UNCHANGED <<archive, buffer, cmd, head, left, sect, extracted, ret, errno>>

\* The host file cannot be opened for writing: the callback returns 0.
ExtractNoPerm ==
    /\ pc = "seek" /\ cmd.op = "extract"
    /\ Matches # {}
    /\ errno' = "EPERM"
    /\ Found(Min(Matches))
    /\ IF cmd.wild
         THEN UNCHANGED <<pc, cmd, n, block, head, size, left, sect>>
         ELSE Return
    /\ UNCHANGED <<archive, buffer, extracted, ret>>

SeekEnd ==
    /\ pc = "seek"
    /\ Matches = {}
    /\ errno' = IF cmd.wild THEN errno ELSE "ENOENT"
    /\ NothingMore
    /\ IF cmd.op = "delete"
         THEN StartSave /\ UNCHANGED <<cmd, n, block, head, size, left>>
         ELSE Return
    /\ UNCHANGED <<archive, buffer, extracted, ret>>

\* do_extract_file, one full block.
ReadBlock ==
    /\ pc = "read"
    /\ block \in Blocks
    /\ InChain(mfat[block])
    /\ extracted' = [extracted EXCEPT ![mdir[n].name] =
                        @ \o WholeSectors(block * SectPerBlock, SectPerBlock)]
    /\ block' = mfat[block]
    /\ size' = size + 1
    /\ UNCHANGED <<archive, buffer, pc, cmd, n, i, head, left, sect, ret, errno>>

\* do_extract_file, the last block.
ReadTail ==
    LET full == mfat[block] - TO_END_BLOCK_OFFSET - 1
        last == block * SectPerBlock + (IF full > 0 THEN full ELSE 0)
    IN /\ pc = "read"
       /\ block \in Blocks
       /\ ~InChain(mfat[block])
       /\ extracted' = [extracted EXCEPT ![mdir[n].name] =
                           @ \o WholeSectors(block * SectPerBlock, full)
                             \o << <<SectorAt(last), mdir[n].end>> >>]
       /\ ret' = ret + size * TO_BLOCKSIZE + (IF full > 0 THEN full ELSE 0) * SectSize
                     + mdir[n].end
       /\ IF cmd.wild
            THEN pc' = "seek" /\ UNCHANGED <<cmd, n, block, head, size, left, sect>>
            ELSE Return
       /\ UNCHANGED <<archive, buffer, i, errno>>

-----------------------------------------------------------------------------
\* A call by the program that uses the library.
Call ==
    \/ AddNoFile
    \/ \E f \in HostFiles : AddEmptyFile(f) \/ AddDirFull(f) \/ AddFile(f)
    \/ DeleteFile
    \/ ExtractFile

\* One more iteration of the command that runs.
Step ==
    \/ SizeStep \/ AddTooBig \/ CheckStep
    \/ DeleteStep \/ DeleteDone
    \/ AllocFirst \/ FillBlock \/ FillTail \/ SaveSector
    \/ SeekDelete \/ SeekExtract \/ ExtractNoPerm \/ SeekEnd
    \/ ReadBlock \/ ReadTail

Next == Call \/ Step

Spec     == Init /\ [][Next]_vars
FairSpec == Spec /\ WF_vars(Step)

-----------------------------------------------------------------------------
\* Values only.
TypeOK ==
    /\ fat \in [Blocks -> Byte] /\ mfat \in [Blocks -> Byte]
    /\ dir \in [Entries -> Entry] /\ mdir \in [Entries -> Entry]
    /\ data \in [Sectors -> Chunk]
    /\ pc \in {"idle", "size", "check", "delete", "alloc", "fill", "save", "seek", "read"}
    /\ cmd \in Cmd
    /\ n \in Entries /\ i \in 0 .. NEntries
    /\ block \in Byte \cup {NoBlock} /\ head \in Blocks \cup {NoBlock}
    /\ size \in 0 .. TO_FILESIZE_MAX /\ left \in Nat
    /\ sect \in 1 .. TO_NSECTS
    /\ extracted \in [Names -> Seq(Chunk \X Nat)]
    /\ ret \in Nat
    /\ errno \in {"none", "ENOENT", "ENFILE", "ENOSPC", "EFBIG", "EPERM"}

(***************************************************************************)
(* What refers to block b in the buffer: a live directory entry that       *)
(* starts there, a FAT byte that links to it, the cursor of the deletion   *)
(* under way, the first block of the file being written (not yet in the    *)
(* directory).                                                             *)
(***************************************************************************)
Owners(b) ==
    {<<"entry", e>> : e \in {k \in Entries : mdir[k].name # NoName /\ mdir[k].first = b}}
    \cup {<<"link", c>> : c \in {k \in Blocks : mfat[k] = b}}
    \cup (IF pc = "delete" /\ block = b THEN {<<"cursor", 0>>} ELSE {})
    \cup (IF pc = "fill" /\ head = b THEN {<<"head", 0>>} ELSE {})

Used(b) == mfat[b] \notin {TO_TAG_FREE, TO_TAG_RESERVED}

\* No two files share a block, at any moment of any command: whatever order
\* files are added, replaced and deleted in, a block has one referrer at most
\* (do_add_file reserves a block while it looks for the next one).
NoCrossLink == \A b \in Blocks : \A o1, o2 \in Owners(b) : o1 = o2

\* The test against EFBIG in sap_AddFile is enough for do_add_file never to
\* run out of blocks: find_free_block_* never returns -1 to it.
AllocationSucceeds == pc = "fill" => block # NoBlock

\* Nothing refers to a free or reserved block, except to the block that
\* do_add_file is filling: a deletion never frees a block still in use.
LiveChains ==
    AllocationSucceeds =>
        \A b \in Blocks : Owners(b) # {} => Used(b) \/ (pc = "fill" /\ b = block)

\* Between two commands every block not free is reserved or belongs to the
\* chain of an entry: commands that complete lose no block.
NoLostBlock ==
    pc = "idle" => \A b \in Blocks \ Reserved : Used(b) => Owners(b) # {}

\* Two entries never bear the same name: sap_AddFile replaces the entry, in
\* whatever slot it is and whatever slot is free before it.
UniqueNames ==
    \A e1, e2 \in Entries :
        dir[e1].name # NoName /\ dir[e1].name = dir[e2].name => e1 = e2

\* No command ever writes in track 20's blocks as data or changes their FAT
\* bytes, however full the disk is.
ReservedUntouched ==
    [][\A b \in Reserved :
          /\ fat'[b] = fat[b]
          /\ \A s \in 0 .. SectPerBlock - 1 :
                 data'[b * SectPerBlock + s] = data[b * SectPerBlock + s]]_vars

\* A file that sap_AddFile finds space for ends up in the directory of the
\* disk, and the call returns, if the program keeps running: allocation always
\* gets to the last block, and track 20 is written back up to the entry.
AddCompletes ==
    \A f \in HostFiles :
        (pc = "check" /\ cmd.file = f /\ EnoughSpace)
            ~> (pc = "idle" /\ \E e \in Entries : dir[e].name = EntryName[f])

\* A deletion or an extraction returns, and none of the names it was given is
\* left in the directory of the disk by a deletion: the wildcard loop, whose
\* index outlives each search, visits every slot once although the callback
\* changes the directory under it.
ForEachCompletes ==
    \A op \in {"delete", "extract"}, nm \in Names :
        (pc = "seek" /\ cmd.op = op /\ nm \in cmd.pattern)
            ~> (pc = "idle" /\ (op = "delete" => \A e \in Entries : dir[e].name # nm))

\* What the program is told to do gets done, if it keeps running.
CommandsComplete == AddCompletes /\ ForEachCompletes
=============================================================================
