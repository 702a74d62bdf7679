# TLA+ project for the tools and emulators of Thomson-Projects

The repository collects demos, games and tools for the Thomson MO and TO
computers. Most of it is 6809 assembly tied to video and sound hardware, images
and music, or third-party code. What carries logic of its own, and what this
project models, is:

* `src/sapfs`: a library (`libsap.c`) and two tools (`sapfs.c`, `sap2.c`) that make
  and edit SAP archives, images of Thomson floppy disks; some twenty makefiles
  build their disk with it;
* `src/2019/forever-2019/trackdisk`: the layout of a demo's disk (`diskto.c`) and the
  loader that reads it (`asm/loader.ASS`);
* `src/2022/ZPU`: two emulators of the ZPU processor, `zpu.c`, and `zpu.ass` for the
  6809, of which the first is the reference;
* `src/exobin`: `exobin.c`, which makes programs that unpack themselves, with its
  decompressor in 6809 code.

## 1. The system

| Component | State | Operations | Hard part |
|---|---|---|---|
| Logical layer of `libsap.c` (Thomson BASIC DOS) | FAT, directory and data sectors of an archive; a copy of track 20 in each call; the static slot index of `seek_wildcard`; `sap_errno` | `sap_AddFile`, `sap_DeleteFile`, `sap_ExtractFile` and all below them | disk and directory full, replacing a file, crashes before and during the save of track 20, a loop over a directory that its callback changes |
| Physical layer of `libsap.c` | table of eight open archives, each EMPTY, FILLED or FULL, with its track count; the static sector count of `sap_FillArchive`; file positions | `sap_OpenArchive`, `sap_CreateArchive`, `sap_FillArchive`, `sap_FormatArchive`, `sap_CloseArchive`, sector reads and writes | the protocol of states, several archives at once, padding, archives cut short by a crash |
| Sector encoding of `libsap.c` | none | `do_read_sector`, `do_write_sector`, `do_crc` | 16-bit CRC arithmetic, flags |
| Names and patterns of `libsap.c` | stack and static area of `wcdcmp` | `decode_filename`, `get_filename`, `seek_file`, `wcdcmp` | truncation, names listed alike, backtracking without recursion |
| Listing of `libsap.c` | none | `sap_ListArchive`, `sap_GetFileInfo` | two walks of one chain that have to agree |
| `sapfs.c` | open ids | one command per process | error paths that close what they opened |
| `sap2.c`, `lfloppy.c` | drive, floppy disk, one archive | pack, unpack, format | sectors that cannot be read, drives that do not answer, 40 and 80 tracks, exits that forget an archive |
| `diskto.c`, `loader.ASS` | a disk without directory, the list of files on it | lay a file, load a file | two programs that agree on byte counts only |
| `zpu.c` | memory, `sp`, `tos` | every instruction | the cached top of the stack |
| `zpu.ass` | memory in banks, the window on one, the counter | fetch, arithmetic, timer | ends of banks, carries between halves and bytes, interrupts |
| `exobin.c` | a file, the place of the decompressor | read, place, patch, write; then unpack on the machine | code that changes its operands, and memory it shares with what it unpacks |

`sapfs.c` and `sap2.c` call `libsap` in one thread: open or create an archive, run
operations on its id, close it. The logical functions work only on a FULL archive.
They read track 20 into a buffer, change the buffer, write data sectors directly,
and write track 20 back last; `_ForEachFile` hands the same buffer to a callback for
each match. There is no lock, no journal and no repair tool: a second process or a
crash meets whatever was written. `sap2.c` moves whole tracks between `libsap` and a
floppy driver. The other components meet only through files: `diskto.c` and its
loader through a disk, `exobin.c` and its decompressor through a program file,
the emulators through the programs they run.

`PROJECT.json` lists the hazards with their lines and the properties about them.

## 2. The modules

| Module | What it is | Code |
|---|---|---|
| `SapDos` | the logical layer, one action per loop iteration | `libsap.c` 368-404, 766-1114, 1600-1723 |
| `SapDosRead` | the archive as a reader sees it: chains followed to sectors | `libsap.c` 979-1007 |
| `SapDosList` | what the functions that only read tell of it | `libsap.c` 365-384, 1045-1058, 1566-1592, 1758-1782 |
| `SapDirectory` | abstract: a dictionary from names to files with a capacity, and its listing | the comments of the functions |
| `SapDosRefines` | `SapDos` implements `SapDirectory` | |
| `SapDosCrash` | `SapDos` with crashes at any step, and two kinds of users | |
| `SapArchive` | the physical layer, and sector copies of `sapfs.c` | `libsap.c` 215-229, 1123-1298, 1478-1558 |
| `Sap2` | the commands of `sap2.c` and the driver, over `SapArchive` | `sap2.c`, `lfloppy.c` |
| `SectorMap` | the order of sectors on a formatted track | `sap2.c` 197-212 |
| `SapSector` | bytes, CRC and flags of one sector | `libsap.c` 243-313, 1308-1425 |
| `SapNames` | names of entries, and both searches for one | `libsap.c` 495-634, 1644-1712 |
| `Wildcard` | `wcdcmp`, one action per turn of its loop | `libsap.c` 640-787 |
| `TrackDisk` | `diskto.c`, the boot and the loader | |
| `Exobin` | `exobin.c`, exomizer's output format, the decompressor | `exobin.c` 146-440 |
| `ZpuArith`, `ZpuStack` | abstract: words, and a ZPU whose stack is all in memory | `zpu.c` |
| `Zpu` | `zpu.c` with its cached top; implements `ZpuStack` | `zpu.c` |
| `ZpuFlow` | abstract: instructions one after the other | |
| `ZpuFetch` | how `zpu.ass` finds the next instruction; implements `ZpuFlow` | `zpu.ass` |
| `ZpuWord` | arithmetic of `zpu.ass` by halves and bytes, against `ZpuArith` | `zpu.ass` |
| `ZpuTimer` | counter, interrupt and latch of `zpu.ass` | `zpu.ass` |
| `SapDosProofs`, `SapDosCrashProofs`, `SapDosRefinesProofs` | theorems about `SapDos`; on top of them those about `SapDosCrash` and about `SapDosRefines` | |
| `SapArchiveProofs`, `Sap2Proofs`, `LibraryProofs` | theorems about `SapArchive`; about `Sap2`; about `SectorMap`, `SapSector`, `Wildcard` and `SapNames` | |
| `TrackDiskProofs`, `ZpuProofs` | theorems about `TrackDisk`; about `Zpu`, `ZpuFetch`, `ZpuWord` and `ZpuTimer` | |
| `MC...` | instances; `MCLibrary` and `MCZpu` each join parts that share no state, of which one moves (`part`) | |

### SapDos

`fat`, `dir` and `data` are the archive; `mfat` and `mdir` are `trk20_data`; `pc` says
which loop of which function runs, `cmd` with which arguments; `n`, `block`, `size`,
`left`, `head` and `sect` are the locals of those loops under their names in the
code (`left` is the decreasing `file_size` of `do_add_file`, `head` its
`entry_data[TO_FIRST_BLOCK]`); `i` is the static index of `seek_wildcard`, which keeps its
value from call to call and is set to 0 by `seek_wildcard` alone, when it finds no more
(`IndexAtEnd`). A crash ends the process, and the next one starts with 0.
`extracted` is what the last call wrote on the host.

A call enters through `AddFile`, `DeleteFile` or `ExtractFile`, or is refused at once
(`AddNoFile`, `AddEmptyFile`, `AddDirFull`). `sap_AddFile` goes through `SizeStep`
(`get_file_size` of the entry replaced), `AddTooBig` or `CheckStep`, `DeleteStep` and
`DeleteDone` (the entry replaced), `AllocFirst`, `FillBlock`, `FillTail`, and
`SaveSector` once per sector of track 20. `_ForEachFile` is `SeekDelete` or
`SeekExtract` for each match, with `SeekEnd` when no more is found.

* A sector holds the pair of the file it was written for and its rank in that file:
  two sectors differ in the model if they could differ on disk. How much of the last
  one belongs to the file is the `end` of the entry, as in the code.
* Names are model values and `EntryName` is any map from host files to names, so two
  host files can share a name, as truncation makes happen. `SapNames` says for which
  names the two searches of the code, taken for one here, agree.
* FAT bytes keep their values, and `NBlocks`, tags and offsets are as in the code. The
  FAT sector's first byte is left out.
* The host file does not change between the loop that measures it and the loop that
  reads it, and host writes succeed. Not being able to create the file
  (`ExtractNoPerm`) is a choice of the environment.
* `find_free_block_*` returning -1 makes the code write `fat_data[-1]`, which is
  undefined: the model has no step from there, and `AllocationSucceeds` says that a
  command never gets there.

### SapDosCrash

`Dies` ends the command at any step: the buffer is lost and the archive keeps what
was written. A block of data sectors, or one sector of track 20, is written whole or
not at all. `kept` is what each name should read as, `suspects` the names an
interrupted command may have left half changed. The user is `careful` or not: a
careful one deletes the suspects before adding (`DeletesFirst`). The difference
matters. After an interrupted replacement the blocks of the entry are free on disk;
replacing it again counts them twice in the test against EFBIG, so a nearly full
disk can run out of blocks in `do_add_file`. That is why `StillAllocates` and
`CrashContained` are about careful users, `AddedFileReads` about all.

### SapArchive and Sap2

`archive` is the static table, `host` the files on the host (a format, whether the
header's text is there, the sectors), `sect` the static variable of `sap_FillArchive`,
`given` the place in its file where each id writes next, which is the number of sectors that
its program has filled it with. Nothing keeps two ids from one file: `sapfs` opens a file
twice when it is source and destination of a copy, and `sap2` when it has forgotten it.
`Spec` allows any such calls. A file created anew in the other format under an open id has
sectors of another size; what a write through that id leaves of it is any sectors
(`AfterWrite`). Writes reach the file at once, as if the host did not buffer them.
`SerialSpec` is what the programs of the repository do: one archive filled at a time
(`OneAtATime`), closed between two tracks (`ClosedAtTracks`), on a file that no other id
holds unless both have opened it (`SharedIsFull`); and they are given no file that only
looks like an archive. `InTurnsSpec` is the same without `OneAtATime`.

`Sap2` runs over the same variables: `job` is the command with the locals of its loops,
`floppy` the disk, `buffer` the track in memory, `before` the disk when the command
began. Each disk command is tried `DISK_RETRY` times while the drive does not answer
(`NoAnswer`, which may leave a write half done); an answer is final. `Crash` stops the
program anywhere, and what is left of the file being written is any beginning of it. `Shrunk`
says which payloads `shrink_fat_160_to_80` changes, those with nothing but 0xFF in their upper
half, and into what; it holds the FAT of an empty disk and the sector that is 0xFF all over.
`UsesLibsapSerially` says that `sap2` does keep to `SerialSpec`, so that what `archive`
shows holds for it; an archive that the format mismatch of `UnpackArchive` leaves open
is `Forgotten`, and is the exception both there and in `EndClosesArchive`.

### SectorMap, SapSector, SapNames, Wildcard

`SectorMap` lays one sector per step. `SapSector` writes a sector, lets a burst of
at most 16 bits damage it, and reads it; the CRC is the code's table and two nibble
steps, and `CrcIsCcitt` compares it with the same polynomial taken one bit at a time. A
byte or a word is the set of its bits, `^` the symmetric difference; the signed shift of
`crcpuk_temp` with its mask is `Shifted`. `SapNames` has the conversions on short strings and the two
searches. Names that are irregular (a blank inside, a dot at an end, a first byte that
marks a free entry) are named by a definition, and the properties say that these and
no others go wrong. `Wildcard` keeps frames, area and the slot shared between a star
and what is tried above it, and has the definition of a match as its reference.

### TrackDisk

`diskto.c`'s loop lays the files, `create_disk` orders the sectors; the boot and `load`
run as the assembly does, first sector, whole sectors, last sector through a buffer,
with 8-bit counts where 0 is a whole sector. A sector may fail to read; the machine
stops. Assumed: files of one hunk, fewer than 256 sectors each, and a loader that
fits, with its list, the sectors that the boot reads.

### Exobin

`read_bin` of well-formed files; the parse of the file is any choice of literals,
runs and copies (`OutputLiteral`, `OutputRun`, `OutputCopy`) that the intervals given to
exomizer can express, written bit by bit as `output.c` does; `ChoosePlace` is the
address test of `convert`; `Load` puts patched code, compressed bytes and stack in
memory; then the decompressor runs a few instructions per action, named for its
labels. Its variables are the operands at `bitbuf`, `idx` and `offs`, reached by the
direct page. Code is not in memory: writing over it, or outside of what is the file's
or the decompressor's, sets `wild`.

### The ZPU

`ZpuStack` gives each instruction its meaning on a stack that is all in memory, cells
below the pointer holding anything. `Zpu` is `zpu.c`; the mapping puts `tos` in the cell
at `sp`. I/O ports, the contents SYS_READ gets and the configuration vector are left
out; an illegal instruction exits like a breakpoint; an overflowing product wraps as
the build does; shifts by 32 or more and the smallest number divided by -1, undefined
in C, do not occur. Programs do not write over themselves.

`ZpuFetch` chooses the bytes of the program as they are fetched, so any program is a
behaviour. Four layouts at the last byte of a bank make `zpu.ass` lose the program (an IM
chain or a fused sequence over the end, a call there, or the very byte that marks the
end): they stop the model, are named `lost`, and are left out of the refinement.
`ZpuWord` follows the additions, subtractions, shifts, comparisons, multiplications and
divisions through registers and carries. `ZpuTimer` lets the interrupt come between
any two instructions but the masked ones, and be served late.

## 3. The runs

| Run | Instance | Distinct states | What it shows |
|---|---|---|---|
| `dos` | 6 blocks of 2 sectors of 2 bytes, 2 reserved, 2 slots, 3 names, 5 host files | 146 450 | invariants of every step under all sequences of calls; commands complete |
| `dos_refines` | same disk | 426 583 | `SapDos` implements `SapDirectory`: each call has the effect and the result of that call on a dictionary |
| `dos_crash` | 6 blocks of 1 sector of 1 byte, 2 names, 3 files; a careless user meets 2 crashes, a careful one any number | 4 609 405 | what a crash costs |
| `dos_delete_size` | as `dos` | violation | finding 1 |
| `archive` | 2 ids, 2 files, tracks of 2 sectors, formats of 2 and 1 tracks | 90 222 | archives filled one at a time are complete, an id stays with its archive |
| `archive_shared_count` | same, archives filled in turns (`InTurnsSpec`) | violation | finding 2 |
| `archive_header` | same | violation | finding 4 |
| `sap2` | 1 archive path, tracks of 2 sectors, 2 disks, one with bad sectors, 3 attempts | 278 998 | packing, unpacking and formatting with drive errors and crashes |
| `sector_crc_flag` | sectors of 2 bytes | violation | finding 3 |
| `library` | see `MCLibrary`: 16 sectors and factors 0 to 17; sectors of 2 bytes with bursts; names of 2+1 characters in 2 slots; patterns of 3 characters; 2 tracks of 16 sectors of 4 bytes; programs of up to 5 bytes with the decompressor at every fifth address of a page | 28 900 | the parts that keep no state between calls |
| `zpu` | see `MCZpu`: bytes of 2 bits, words of 4 bytes, 3 instructions; banks of 4 bytes; 23 words; a counter of digits below 4 | 181 180 | both emulators against what they implement |
| `zpu_reference` | same | violation | finding 5 |

**Bounds.** The instances are complete state spaces: no constraint, no depth limit but
`MaxCrashes` (careless users), `MaxSteps` (`Zpu`) and `MaxTicks` (`ZpuTimer`), each in a
guard. The disk of `dos` has four blocks for data around two reserved ones, so both
directions of `find_free_block_rel`, its fall back to `find_free_block_sym`, and both
sides of the latter occur. Its files have one byte less than a block, one more than
two blocks, exactly two blocks, exactly the disk (the longest chain, `TO_NBLOCKS - 2`),
and none; two bear one name, and three names compete for two slots. The crash disk is
the smallest on which blocks freed by an interrupted command are taken by another
file; with two crashes the second can hit the command that follows the first. Two ids
and two files are enough for a full table, archives filled in turns, and copies.
In `sap2` an 80-track drive meets a one-track archive and the other way round, and each
of three attempts can be the one that answers. The files of `TrackDisk` begin and end at
every byte of a sector, fit one sector, cross tracks, and fill the disk to its last
byte and one too many. Bursts in `SapSector` fall at each place of a sector, and
the one that the CRC lets through is among them. The bytes
of two bits of `MCZpu` keep the number of bytes in a word and halves in a register, and
with them every carry; three instructions are enough for one to leave an old cell, one
to move the pointer and one to read. The timer runs longer than its counter has values.

**Fairness.** Weak fairness of the next iteration of what is under way, and of nothing
else: `FairSpec` of `Step` (a program need not call anything), `Sap2Spec` of `Step` (not of
commands, nor of `Crash`), `LibrarySpec` of the map's and the matcher's turns. The code is
sequential and its loops wait for nothing but a drive, whose attempts are counted.

**Deadlock** is checked in `dos`, `dos_refines`, `archive` and `sap2`. It is not where the
system stops: `dos_crash` (the undefined write above, for careless users), `library`
(loops end, a machine stops at an unreadable sector, an unpacked program runs), `zpu`
(programs end).

## 4. The properties

Logical layer
* `NoCrossLink`: a block has one referrer at most among entries, FAT links, the cursor
  of a deletion and the head of the file being written. Without the temporary mark of
  `do_add_file` (877) a block becomes its own successor.
* `LiveChains`: what is referred to is in use, so a deletion never frees a block of
  another file. `NoLostBlock`: between calls, a used block has a referrer.
* `AllocationSucceeds`: the test against EFBIG is enough for the allocation after it.
* `UniqueNames`, `ReservedUntouched`: of the disk, at every step.
* `CommandsComplete`: what fits is added; a deletion or extraction visits every match.
* `ImplementsDictionary`: results, errors and contents of completed calls, and what a
  listing tells after them: names, blocks, free space. The dictionary takes the step of the
  very call that was made (`call`), so that what an earlier call left behind, such as the
  index of `seek_wildcard`, cannot show in the answer.
* `CrashContained`, `StillAllocates`, `AddedFileReads`: what crashes may and may not do.

Physical layer and sap2
* `FullIsComplete`, `ClosedIsComplete`: FULL and closed archives have every sector in its
  place, also when two ids hold one file. `IdKeepsArchive`: an id in use is not given out,
  and keeps its file and format until it is closed.
* `PackIsFaithful`, `UnpackIsFaithful`, `FormatIsComplete`: a result of 0 means that each
  sector is right or marked; what is ahead of an interrupted command is untouched.
* `UsesLibsapSerially`, `EndClosesArchive`, `CommandsEnd`: how sap2 uses libsap.

Library
* `EachOnce`, `MapIsBuilt`: a track has every sector once, for every factor.
* `ReadsBack`: sectors. `CrcIsCcitt`: the table computes the CRC it is meant to.
  `BurstChangesCrc`: the CRC tells every burst of two neighbouring bytes but one.
* `OneEntryPerName`, `ListedNameReaches`, `ReaddReplaces`: names.
* `AnswerIsMatch`, `StackFits`, `SearchEnds`: the matcher.
* `LoadsTheFile`: a demo loads what was laid. `ExtractsTheFile`: a program unpacks to what
  was compressed, and does not destroy itself.

ZPU
* `ImplementsStack`, `FollowsProgram`: refinements of `ZpuStack` and `ZpuFlow`.
* `ComputesLikeC`: `zpu.ass` gives what `zpu.c` gives, but for the cases of finding 5.
* `LatchIsATime`: a latched time is one the counter had during the latch.

Each has a mutant of the code that breaks it, named next to the definition it
changes (`X_Something` is a faulty `X`).

## 5. Findings

1. `dos_delete_size`: `sap_DeleteFile` returns one block too much per file (`libsap.c`
   944; comments at 917 and 1706).
2. `archive_shared_count`: the static `sect` of `sap_FillArchive` (1268) is shared by all
   archives. Of two filled in turns, each in order, one is FULL with a sector missing: the
   first sector of the other archive has moved the count on, from 1 to 2. No program of the
   repository fills in turns.
3. `sector_crc_flag`: `sap_ReadSector` (1346) compares one CRC byte with both halves of the
   CRC: nearly every good sector is flagged.
4. `archive_header`: `sap_OpenArchive` (1159) compares the header as a string whose first
   byte is 0, and so not at all.
5. `zpu_reference`: `zpu.ass` shifts a word to the left wrongly when its lower half is 0
   (1953), and its fused addition of a negative number loses a borrow (1130).

Seen while modelling, without a run of their own: the CRC is stored with its high byte
first (`libsap.c` 337), though its register shifts to the right. A burst of 16 bits over the
border of data and CRC can therefore escape: 0x91 in the last byte of the data and 0x85 in
the first of the CRC, which `Unseen` names and `OneBurstEscapes` shows to be the only one.
`sap_GetFileInfo` returns 0 =
`SAP_OK` on an archive that is not FULL (1741; comment at 1729). The decompressor of
`exobin.c` puts its stack at $60CC (148), which on a MO is memory of the user: with `-mo`,
a file at $60C4 to $60CB is destroyed as it is unpacked. Its collision test (302) looks at
the two ends only and says OK to a short file inside it. `Clear` in `Exobin` leaves these
two out of `ExtractsTheFile`; with `TRUE` for it, the first is found. In the last byte of
64 Kb, `opPUSHPC` of `zpu.ass` (2194) pushes an address that is 64 Kb too low: the carry of
ADDA is not added to the upper word, the borrow of SUBD is taken from it. `read_raw` (477) tests
an `errno` that an earlier file may have set.

## 6. The proofs

For every geometry, set of files, names and wildcards that `GeometryAssumption`,
`FilesAssumption` and `Track20Assumption` allow (they hold for the two formats of the
code: 160 blocks of 8 x 255 bytes and 80 of 8 x 127; `SectPerBlock =< 61` keeps the last
FAT byte of a chain a byte; `NBlocks =< 192` keeps block numbers and tags apart; track 20
is two blocks), every invariant that the run `dos` checks is proved:

* `SapDosProofs!TypeCorrectness`: `Spec => []TypeOK`. The inductive invariant adds
  `RequestOK`: what `pc` says of `cmd`, of `left` and of `block` (a block number is -1
  only in `do_add_file`). Without it, nothing bounds `Size[cmd.file]` or shows that
  FAT bytes stay bytes. The lemmas say what `find_free_block_sym` and
  `find_free_block_rel` return and that the tail of a file stays inside its block.
* `SapDosProofs!NoSharedBlock`: `Spec => []NoCrossLink`, and
  `SapDosProofs!ReferredBlocksInUse`: `Spec => []LiveChains`. The inductive
  invariant `IInv` adds to the types: the buffer is the disk's track 20 until a
  command changes it (`Synced`) and sector by sector again as it is saved (`Saved`);
  a block has one referrer, by pairs of kinds of referrers (`SingleReferrer`); a
  referrer refers to a block in use, and the block being filled is still free
  (`ReferredInUse`). `Synced` and `Saved` are needed because the next command starts
  from the disk and the properties speak of the buffer. The two others depend on
  each other: a deletion frees a block safely since it has no other referrer, and an
  allocation adds no second referrer since a free block has none. There is one lemma
  for each step that changes a link.
* `SapDosProofs!NamesStayUnique`: `Spec => []UniqueNames`. The disk shows a directory
  half old and half new while it is saved, so the invariant is that two entries differ
  in name (`Distinct`) within the disk, within the buffer, and from one to the other in
  different slots; and that the slot which a replacement or addition will write is the
  only one of its name (`OnlySlot`).
* `SapDosProofs!ReservedStaysUntouched`: `Spec => []ReservedUntouched`, from
  `ReservedInv`: no chain, cursor or head is a reserved block.
* `SapDosProofs!AllocationAlwaysSucceeds`: `Spec => []AllocationSucceeds`. The
  test against EFBIG adds to the free blocks those of the entry replaced, counted by
  `get_file_size`, before `do_delete_file` frees them. `SpaceInv` says that the walk
  that counted is the walk the deletion takes, step for step, and that free blocks and
  steps left cover the bytes left. Crashes end this (section 2, `SapDosCrash`).
* `SapDosProofs!NoBlockIsLost`: `Spec => []NoLostBlock`. `OwnerInv` keeps an owner
  for each used block, in the disk and in the buffer. A deletion stops at the first
  FAT byte that is no block: that it is then at the end of the chain, and not at a
  free block, is `LiveChains`.

For the same constants, with sectors below 256 bytes (`SectorAssumption`: the code's are
255 and 127), the whole refinement:

* `SapDosRefinesProofs!DictionaryImplemented`: `RSpec => ImplementsDictionary`. `Dictionary`
  reads what a call did from the disk, at the next step from `idle`; all that
  happens in between is a stutter, and the invariant `RInv` says what it is on the way to.
  Its three layers: `Sound` is the invariants of `SapDosProofs` together, with `IndexInv`: the
  index of `seek_wildcard` is 0 whenever no wildcard loop is under way. `Kept(G)` says
  that the buffer's directory holds the dictionary `G` and nothing else: an entry for each of
  its names, at the beginning of a path of blocks, each once, with the sectors of the file
  in rank order; `Spare(G, F, k)` counts that the free blocks, those of `G` and `k` more
  are the capacity: this makes the refusals exact in both directions. `Stage(u)` says, for
  each place of each command, which `G` is kept, how many blocks are under way, and what
  result is collected since `u`, which is what was seen when the call started, the call
  itself included (`Agreed`): a
  replacement keeps the files without the one replaced from the moment its entry is
  cleared, while the cursor walks the rest of its path (`Trail`); an
  addition keeps the others, and `FilledSoFar` of `SapDosProofs` becomes one more file of
  `G` in the last step (`FileAdded`); a wildcard deletion has passed some of the slots
  and removed those it should (`Passed`, `Shrunk`; `SearchFrom` is the first slot not passed); an extraction has written a set `O` of
  files and a prefix of one more, and `errno` tells whether one was refused (`Reading`,
  `Half`). There is one lemma for each step. `FilesRead` and `ListingTold` say that what
  `FilesOnDisk`, `sap_ListArchive` and `sap_GetFileInfo` read from such a disk is `G` and its
  listing, `AnswerIsCall` that the results collected are those of the call of
  `SapDirectory` that was requested. Sums over files are counted by pairs (`Total`), so that adding or removing
  one file adds or removes its pairs (`TakenWith`, `TakenWithout`).

For the same constants, with crashes at any step, any number of them, and users who
are careful or not:

* `SapDosCrashProofs!AddedFileIsThere`: `CrashSpec => []AddedFileReads`. None of the
  invariants about chains survives a crash: chains may meet, end in a free block or
  turn in circles. What is left (`Basics`, `NoneReserved`) does not depend on their
  shape, and is enough: `FilledSoFar` says that the blocks `do_add_file` has filled are
  a path through the buffer's FAT, each with its full sectors in rank order, whose
  length and the number of free blocks stay below `TO_FILESIZE_MAX`. A block chosen is
  free in the buffer and not on the path, so writing it leaves the path alone. At
  the end the entry leads to that path (`Filled`), and the save puts all of it on the
  disk. `SapDosProofs` has the lemmas about chains: `ChainOfPath` and `FileReadsBack`
  say that a path is what the walk of `do_read_file` returns and that its sectors are
  the file, by induction over the length of the path and with the recursion written as
  a function.
* `SapDosCrashProofs!CrashIsContained`: `CrashSpec => []CrashContained`, and
  `CarefulAllocates`: `CrashSpec => []StillAllocates`. Since chains say nothing of who
  owns what on a damaged disk, the invariant (`CarefulInv`) is that some map from blocks
  to names does (`Held`): no link leads from the blocks of one name to those of another,
  an entry leads to blocks of its name, and the buffer differs from the disk only in blocks
  of the names the running command is about. One map serves the disk and the buffer,
  because a crash leaves the FAT of the one with entries of the other. A name that no
  command left half changed owns no free block, which is what `DeletesFirst` gives an
  addition: the blocks it takes are nobody's. The map changes where the code gives no
  sign of it: at the last sector saved, when a replaced file's blocks that were not used
  again become nobody's, and at a crash of an addition, whose blocks are lost. `OnDisk`
  then says that each other name stands for its file (a path of blocks with its
  sectors); a deletion of a damaged file, whatever its chain, stays inside its name's
  blocks. For the allocation, `Measured` and `BeingFreed` follow `get_file_size` and
  `do_delete_file` along that path, which has no block twice.

For every number of archives, tracks and sectors:

* `SapArchiveProofs!TypeCorrectness` and `EachHasItsArchive` (`IdKeepsArchive`), for
  any program (`Spec`), also one that opens or creates a file that it has open; the invariant
  adds that an entry in use has a file, a format and no more tracks than it (`TableInv`).
* `SapArchiveProofs!FullArchivesAreComplete` (`FullIsComplete`) and
  `ClosedArchivesAreComplete` (`ClosedIsComplete`), for `SerialSpec`. The invariant says
  of each file how far it is written (`FileInv`), of each entry that `ntracks` and the
  static `sect` agree with the file (`EntryInv`), that one archive at most is
  between two tracks (`OneFilled`), what finding 2 shows to fail without it, and that a file
  two entries hold is FULL in both (`SharedIsFull`), so that neither changes its length.

For every set of disks, archives and attempts, and every number of tracks and sectors
(`Sap2Assumption`: a 5" disk has fewer tracks, `SAP_ERROR` is no id, the mark of an
unread sector differs from what a format writes, the FAT's sector exists):

* `Sap2Proofs!CommandTypes`, `PackedAsPromised`, `UnpackedAsPromised`,
  `FormattedAsPromised` and `EveryExitCloses` state the safety properties of `sap2`. Their
  invariant has one part for each side: the archive of the running command is the
  only entry that is not FULL (`ArchiveOfJob`, `TableOfJob`); the loops of
  `PackArchive`, the static count of `sap_FillArchive` and the length of the file agree until
  the archive is full (`PackInv`); the buffer holds the track of the loop (`BufferInv`);
  tracks behind `UnpackArchive` are the archive's, those ahead the disk's, whatever an
  attempt left half done in between (`UnpackInv`), and likewise for `FormatInv`.
* `Sap2Proofs!FillsSerially` (`UsesLibsapSerially`), and `ArchivesOfSap2`, which puts it
  together with the theorems about `SerialSpec`. A forgotten archive and a crash are
  the exceptions, as in the property.

For every set of patterns and names (`CString`: no end of string inside):

* `LibraryProofs!AnswersAsDefined` (`AnswerIsMatch`) and `AreaHoldsStack` (`StackFits`).
  The invariant is about the frames on the stack of `wcdcmp`: a match of what a frame has
  left is a match of the whole, and what was tried above a frame and given up does not
  match. The definition of a match is a recursive function; that the table
  exists is shown by giving each character of the pattern its place.

For every alphabet, size of the two fields and table of types (no blank in an extension):

* `LibraryProofs!OneEntry`, `ListedReaches` and `ReaddIsSame` (`OneEntryPerName`,
  `ListedNameReaches`, `ReaddReplaces`). `NamesInv`: entries hold what `decode_filename`
  writes, with the type of their extension, one for each name. `RoundTrip`, that
  `decode_filename` undoes `get_filename` on regular entries, gives the two others.

For every size of a sector, all bytes, and every set of bursts of two bytes:

* `LibraryProofs!SectorsReadBack`, `TableIsCcitt` and `OneBurstEscapes` (`ReadsBack`,
  `CrcIsCcitt`, `BurstChangesCrc`). `SectorInv`: the file holds the bytes of the sector
  written, with one burst at most on top of them. The 16 entries of the table are four bit
  steps each (`FourBitsAre`), so a byte is eight of them (`StepIsEightBits`). They are
  linear and one-to-one (`FourBitsLinear`, `EightBitsInjective`), so two registers that
  differ before a byte that is the same differ after it. A byte in the register does not
  leave it within one step (`ByteLeavesByte`), so a second changed byte cannot make up for
  the first inside the summed bytes (`BurstInside`). At the border of data and CRC only the
  byte whose CRC has an empty lower half can (`EmptyLowByte`): 0x91. The CRC of a sector
  is a recursive function; two sectors with a common beginning or end are compared by
  induction over beginnings (`CrcsAgree`).

For every number of sectors and every set of factors:

* `LibraryProofs!SectorsLaidOnce`: `MapSpec => []EachOnce`. The invariant adds that
  no number laid is as great as the next one.

For every size of a sector, number of tracks and list of files for whose loader and list the
boot has room (`TrackDiskAssumption`):

* `TrackDiskProofs!DemoLoadsTheFile`: `TrackDiskSpec => []LoadsTheFile`. The invariant says
  what each program leaves to the next. `LaidInv`: the loader, each entry where `load`
  will look for it, and each file at the place its entry tells, none of them over another;
  the entries stay below the first file because `get_list_size` has counted those of files
  that are left out, too. `MadeInv`: a sector is under its number, since numbers of a track
  are one-to-one (`NumberOneToOne`). `BootInv`: what is booted is the beginning of the disk.
  `LoadInv`: the bytes still to come begin at the loader's track and sector and need
  exactly `nsect` of them; so the first and the last sector, whole or in part, are counted
  right. The sums of sizes are recursive functions; that they exist, and agree on lists
  with a common beginning, is proved by induction over beginnings.

For every number and size of banks, and every program without the four layouts at a bank's
end (section 2, the ZPU):

* `ZpuProofs!FetchFollowsProgram`: `FetchSpec => FollowsProgram`, the refinement of
  `ZpuFlow`. `FetchInv`: before each fetch the bank in the window is that of the program
  (a data access has brought it back), and a chain of immediates goes on only after an
  IM. Passing the end of a bank is a stutter of `ZpuFlow`. `InTwoParts` says that adding
  a displacement to the address in a bank and carrying into the number of the bank is
  adding it to the address.
* `ZpuProofs!LatchedTimeIsATime`: `TimerSpec => []LatchIsATime`, for digits of every size.
  `TimerInv`: the counter is the number of ticks times the increment, modulo its digits,
  no interrupt is served while its halves are copied, and the half copied is the
  counter's; after that, what was copied is a number of ticks that has been.

For words, memories, instructions and images of every size that a ZPU may have
(`ArithAssumption`: a long is two halves; `ZpuAssumption`: memory is a whole number of longs):

* `ZpuProofs!CachedTopImplementsStack`: `ZpuSpec => ImplementsStack`, the refinement of
  `ZpuStack`. The abstract memory is `WithTop`, the emulator's with `tos` in the cell at
  sp. The invariant `ZpuTyped` keeps sp on a cell and every register, result and cell a
  word; each of the four ways the code moves the stack (`PushStep`, `ReplaceStep`,
  `CombineStep`, `DropStep`) is a step of the abstract stack, also where a store goes into
  the cell of the old top, whose value is out of date (`WriteStep`). Powers and the
  operators on bits are recursive functions; that they exist is proved by induction.

For words of four bytes of every size above one bit (`ArithAssumption`, `WordAssumption`;
the registers of the 6809 are what makes it four) and every set of operands:

* `ZpuProofs!WordsAreThoseOfC`: `WordSpec => []ComputesLikeC`. An instruction without a loop
  is compared with C's by the digits of its words, halves or bytes or bits: what two digits make of
  each other, and what they carry, is what the words do (`WordSizes` and the lemmas of
  Part 6). Of the sum of products of bytes, `opMULT` leaves out the terms that are multiples
  of the modulus. The two loops need the invariant
  `WordInv`. `Immediate`: a chain so far is C's word, and its sign fills the first bytes as
  long as IM2 and IM3 may turn them (`Extends`). `Dividing`: with count bits to go the
  dividend is 2^count n1 + n0, n1 is divisor * x + R with R below the divisor, and N holds n0
  above the inverted bits of x (`Halfway`); the last turn leaves the quotient and the
  remainder of C.

Model-checked only: liveness (`CommandsComplete`, `CommandsEnd`, `MapIsBuilt`, `SearchEnds`),
which the provers cannot reach, and `ExtractsTheFile` of `Exobin`. What its stream of bits
stands for is defined by recursion over the steps that wrote it; and its last part, that a
place is found, is a fact about small files: one that leaves no room for the decompressor
has none, and `convert` then writes the compressed bytes alone.

## 7. Not modelled

* Of the listing functions of `libsap.c`: the layout of the text, types, dates, comments
  and the name of the volume. They change nothing but `sap_errno`.
* The commands of `sapfs.c` but the copies: each opens, loops over one library call
  and closes; its messages and options have no state.
* Failing host writes (`fwrite` results are ignored by the code) and two processes on
  one archive: no code allows for either, so no property about what was stored holds.
* The DOS floppy driver (`dfloppy.c`, BIOS interrupts) and the hardware of the Linux one.
* `createdisk.c` of 2017, an earlier version of `diskto.c`; disks with several hunks per
  file; the memory banks that the loader switches.
* Of `zpu.c`: terminal, I/O ports, program loading. Of `zpu.ass`: loader, memory sizing,
  screen, keyboard and printer, tracing, the addressing of stack and data inside a bank, and
  the address that PUSHPC pushes (2194, opcode 59 in the table at 2341), which is wrong in
  the last byte of 64 Kb (section 5). `Zpu` and `ZpuStack` have the PUSHPC of `zpu.c`.
* Of `exobin.c`: raw files, files that are cut or leave the RAM, options and folders; of
  exomizer, its search for the best copies.
* Third-party code, by far the most of the repository's lines: gcc's headers and libraries
  for the ZPU, the `c6809` assembler (several copies), exomizer's own tools, Lua, CWSDPMI.
  The map therefore covers a small share of the repository and most of what the
  components above consist of.
* Demos, games, converters, images and music: straight-line assembly and data for video
  and sound hardware, without a state that outlives a frame in the sources.

## 8. Plan

1. `SapDos` with host writes that fail.
