----------------------------- MODULE TrackDisk ------------------------------
(***************************************************************************)
(* How a demo gets its files from its disk: src/2019/forever-2019/         *)
(* trackdisk/diskto.c lays them one after the other on a disk without a    *)
(* directory and makes a list of where they are, asm/loader.ASS on that    *)
(* disk loads file number b by its entry of the list.  The two programs    *)
(* have only the bytes of the disk in common: the sizes of what is used of *)
(* a file's first and last sector, and the order of the sectors of a track.*)
(*                                                                         *)
(* A byte is known by its origin: byte j of file k (the loader is file 1), *)
(* or of entry n of the list.  Memory is counted from the address where a  *)
(* file is loaded.  Files are of one hunk, and fit the memory of the       *)
(* machine: counts of sectors stay below 256.                              *)
(***************************************************************************)
EXTENDS Integers, SequencesExt

CONSTANTS
    SECTOR_SIZE,
    Tracks,
    P_SIZEOF, EXEC,     \* bytes of an entry of the list, and of an address to run at
    Lists               \* lists of files: their sizes and whether they are run

VARIABLES
    files,              \* the list of files, the loader first
    entry,              \* diskto: the next file
    pos,                \* diskto: where it goes
    secnbr,             \* diskto: the sectors that the boot loads after the first
    buffer,             \* diskto: the bytes laid
    list,               \* the entries, as laid
    disk,               \* the sector of the buffer under each number of a track
    mode,               \* what runs: diskto, the boot, the loader, or the demo
    booted,             \* the bytes loaded from $6200
    cur,                \* the entry of the file to load
    nsect, track, sector, y, mem, jumped,   \* loader
    tries               \* readings of a sector that failed

diskvars == <<files, entry, pos, secnbr, buffer, list, disk, mode, booted,
              cur, nsect, track, sector, y, mem, jumped, tries>>
laid    == <<files, entry, pos, secnbr, buffer, list>>
loading == <<cur, nsect, track, sector, y, mem, jumped>>

NSECTS    == 16
DISK_SIZE == NSECTS * SECTOR_SIZE * Tracks
FileByte(k, j) == <<k, j>>
ListByte(n, j) == <<-n, j>>
Filler         == <<0, 0>>

\* "1 sur 2", and the place of the first sector of a track in it.
sector_list == <<1, 15, 13, 11, 9, 7, 5, 3, 8, 6, 4, 2, 16, 14, 12, 10>>
NumberOf(t, s) == sector_list[((((2 * t) % 8) + s) % NSECTS) + 1]

EntrySize(e) == P_SIZEOF + (IF e.exec THEN EXEC ELSE 0)
SizeOfList(s) ==
    LET sum[n \in 0 .. Len(s)] == IF n = 0 THEN 0 ELSE sum[n - 1] + EntrySize(s[n])
    IN sum[Len(s)]

\* get_list_size counts the loader, which has no entry.
list_size == SizeOfList(files) - P_SIZEOF

ASSUME TrackDiskAssumption ==
    /\ {SECTOR_SIZE, Tracks, P_SIZEOF, EXEC} \subseteq Nat \ {0}
    /\ Lists \subseteq Seq([size : Nat, exec : BOOLEAN]) \ {<<>>}
    \* diskto.c does not look whether the boot finds room for its loader and the list.
    /\ \A l \in Lists : /\ ~l[1].exec /\ l[1].size > SECTOR_SIZE
                        /\ l[1].size + SizeOfList(l) - P_SIZEOF <= NSECTS * SECTOR_SIZE

TrackDiskInit ==
    /\ files \in Lists
    /\ entry = 1 /\ pos = 0 /\ secnbr = 0 /\ list = <<>>
    /\ buffer = [p \in 0 .. DISK_SIZE - 1 |-> Filler]
    /\ disk = <<>> /\ mode = "diskto" /\ booted = <<>>
    /\ cur = 0 /\ nsect = 0 /\ track = 0 /\ sector = 0 /\ y = 0
    /\ mem = <<>> /\ jumped = FALSE /\ tries = 0

-----------------------------------------------------------------------------
(* diskto.c *)
\* The loader, the number of sectors that the boot has to load after the first.
LayLoader ==
    /\ mode = "diskto" /\ entry = 1
    /\ buffer' = [p \in DOMAIN buffer |-> IF p < files[1].size THEN FileByte(1, p) ELSE Filler]
    /\ pos' = files[1].size + list_size
    /\ secnbr' = (pos' - 1) \div SECTOR_SIZE
    /\ entry' = 2
    /\ UNCHANGED <<files, list, disk, mode, booted, loading, tries>>

Least(a, b) == IF a < b THEN a ELSE b

\* Mutant: a file that ends in its first sector is taken for one that goes on.
SizeA_Rest(at, size) == (SECTOR_SIZE - at) % SECTOR_SIZE

\* What is used of the first sector, a byte: 0 if it is whole.
SizeA(at, size) == Least(size, SECTOR_SIZE - at) % SECTOR_SIZE

Entry(k, e) ==
    LET at == pos % SECTOR_SIZE
    IN [file   |-> k, exec |-> e.exec,
        nsec   |-> (at + e.size + SECTOR_SIZE - 1) \div SECTOR_SIZE,
        track  |-> pos \div (NSECTS * SECTOR_SIZE),
        sect   |-> (pos % (NSECTS * SECTOR_SIZE)) \div SECTOR_SIZE,
        sizea  |-> SizeA(at, e.size),
        offsa  |-> at,
        sizez  |-> (pos + e.size) % SECTOR_SIZE]

\* The file and its entry, which comes behind the loader and the entries before.
LayFile ==
    /\ mode = "diskto" /\ entry \in 2 .. Len(files)
    /\ LET e      == files[entry]
           listat == files[1].size + SizeOfList(list)
           n      == Len(list) + 1
       IN IF e.size > 0 /\ pos + e.size <= DISK_SIZE
            THEN /\ list' = Append(list, Entry(entry, e))
                 /\ buffer' = [p \in DOMAIN buffer |->
                       IF p \in listat .. listat + EntrySize(e) - 1 THEN ListByte(n, p - listat)
                       ELSE IF p \in pos .. pos + e.size - 1 THEN FileByte(entry, p - pos)
                       ELSE buffer[p]]
                 /\ pos' = pos + e.size
            ELSE UNCHANGED <<list, buffer, pos>>        \* empty, or "exceed disk size"
    /\ entry' = entry + 1
    /\ UNCHANGED <<files, secnbr, disk, mode, booted, loading, tries>>

create_disk ==
    /\ mode = "diskto" /\ entry > Len(files)
    /\ disk' = [t \in 0 .. Tracks - 1 |->
                   [nb \in 1 .. NSECTS |->
                      t * NSECTS + (CHOOSE s \in 0 .. NSECTS - 1 : NumberOf(t, s) = nb)]]
    /\ mode' = "boot"
    /\ UNCHANGED <<laid, booted, loading, tries>>

-----------------------------------------------------------------------------
(* loader.ASS *)
ContentOf(t, number) ==
    [j \in 1 .. SECTOR_SIZE |-> buffer[disk[t][number] * SECTOR_SIZE + j - 1]]

\* A sector that cannot be read is tried once more, then the machine stops.
ReadFails ==
    /\ mode \in {"boot", "first", "sectors"} /\ booted # <<>>
    /\ mode = "sectors" => nsect > 0
    /\ tries' = tries + 1
    /\ mode' = IF tries = 0 THEN mode ELSE "error"
    /\ UNCHANGED <<laid, disk, booted, loading>>

\* The ROM reads sector 1, its program the next ones in the order of blist.
Boot ==
    /\ mode = "boot"
    /\ LET b == Len(booted) \div SECTOR_SIZE
       IN /\ booted' = booted \o ContentOf(0, sector_list[b + 1])
          /\ mode' = IF b = secnbr THEN "booted" ELSE "boot"
    /\ tries' = 0
    /\ UNCHANGED <<laid, disk, loading>>

\* The entry n, where `load' arrives when it has passed those before.
Found(n) ==
    LET at == files[1].size + SizeOfList(SubSeq(list, 1, n - 1))
    IN \A j \in 0 .. EntrySize(list[n]) - 1 :
          at + j < Len(booted) /\ booted[at + j + 1] = ListByte(n, j)

load(n) ==
    /\ mode \in {"booted", "loaded"}
    /\ mode = "booted" => n = 1
    /\ n \in DOMAIN list
    /\ IF Found(n)
         THEN /\ cur' = n
              /\ nsect' = list[n].nsec /\ track' = list[n].track /\ sector' = list[n].sect
              /\ mode' = IF list[n].sizea = 0 THEN "sectors" ELSE "first"
         ELSE mode' = "lost" /\ UNCHANGED <<cur, nsect, track, sector>>
    /\ y' = 0 /\ mem' = <<>> /\ jumped' = FALSE
    /\ UNCHANGED <<laid, disk, booted, tries>>

\* The sector at track and sector, n bytes of it from `offset' to y; the next one.
ldsec(offset, n) ==
    /\ LET content == ContentOf(track, NumberOf(track, sector))
       IN mem' = [a \in 0 .. y + n - 1 |->
                     IF a < y THEN mem[a] ELSE content[offset + (a - y) + 1]]
    /\ y' = y + n
    /\ nsect' = nsect - 1
    /\ IF sector = NSECTS - 1 THEN track' = track + 1 /\ sector' = 0
       ELSE sector' = sector + 1 /\ UNCHANGED track
    /\ tries' = 0
    /\ UNCHANGED <<laid, disk, booted, cur, jumped>>

FirstSector ==
    /\ mode = "first"
    /\ ldsec(list[cur].offsa, list[cur].sizea)
    /\ mode' = "sectors"

\* The last sector goes through a buffer, unless it is whole.
ThroughBuffer == nsect = 1 /\ list[cur].sizez # 0

NextSector ==
    /\ mode = "sectors" /\ nsect > 0
    /\ ldsec(0, IF ThroughBuffer THEN list[cur].sizez ELSE SECTOR_SIZE)
    /\ UNCHANGED mode

Loaded ==
    /\ mode = "sectors" /\ nsect = 0
    /\ mode' = "loaded"
    /\ jumped' = list[cur].exec
    /\ UNCHANGED <<laid, disk, booted, cur, nsect, track, sector, y, mem, tries>>

TrackDiskNext ==
    \/ LayLoader \/ LayFile \/ create_disk
    \/ Boot \/ ReadFails
    \/ \E n \in DOMAIN list : load(n)
    \/ FirstSector \/ NextSector \/ Loaded

TrackDiskSpec == TrackDiskInit /\ [][TrackDiskNext]_diskvars

-----------------------------------------------------------------------------
\* What a demo loads is the file of that number and nothing else, whatever the
\* sizes of the files before it, and wherever its first and last bytes fall in
\* their sectors and tracks; it runs if the list says so.  And the boot has loaded
\* the loader with all of its list.
LoadsTheFile ==
    /\ mode # "lost"
    /\ mode = "booted" => SubSeq(booted, 1, files[1].size) =
                             [j \in 1 .. files[1].size |-> FileByte(1, j - 1)]
    /\ mode = "loaded" =>
          LET k == list[cur].file
          IN /\ mem = [j \in 0 .. files[k].size - 1 |-> FileByte(k, j)]
             /\ jumped = files[k].exec
=============================================================================
