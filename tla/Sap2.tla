-------------------------------- MODULE Sap2 --------------------------------
(***************************************************************************)
(* src/sapfs/sap2.c over the floppy driver of src/sapfs/lfloppy.c and over *)
(* the archives of SapArchive: PackArchive copies a floppy disk into an    *)
(* archive, UnpackArchive an archive onto a disk, FormatDisk prepares a    *)
(* disk.  One command runs at a time, in one process that may run many     *)
(* (the interactive menu) and be stopped anywhere; the user puts a disk in *)
(* before each command.                                                    *)
(*                                                                         *)
(* A disk command is tried DISK_RETRY times as long as the drive does not  *)
(* answer, and a write may then have changed a part of its track.  An      *)
(* answer is final: success, or an error status.                           *)
(***************************************************************************)
EXTENDS SapArchive

CONSTANTS
    DISK_RETRY,         \* attempts at one disk command
    FatAt,              \* the place of the FAT (track 20, sector 2)
    Wide,               \* the FAT of an empty disk of 160 blocks
    Shrunk,             \* of each payload whose upper half is all 0xFF, free blocks
                        \* in a FAT, the same with that half reserved
    Unread,             \* 0xF7 all over in a sector of format 4
    Blank,              \* 0xFF all over
    Bad,                \* a sector of a disk that the drive cannot read
    Disks               \* the disks of the user

SAP_FORMAT1 == 1
SAP_FORMAT2 == 2

\* The sectors of a disk, counted from 0; a 5" disk has fewer of them.
DiskSectors == 0 .. NSectors(SAP_FORMAT1) - 1

ASSUME Sap2Assumption ==
    /\ Formats = {SAP_FORMAT1, SAP_FORMAT2}
    /\ SAP_NTRACKS[SAP_FORMAT2] < SAP_NTRACKS[SAP_FORMAT1]
    /\ SAP_ERROR \notin Ids        \* there are 8 of them
    /\ DISK_RETRY \in Nat \ {0}
    /\ {Wide, Unread, Blank} \subseteq Payloads
    /\ Shrunk \in [DOMAIN Shrunk -> Payloads] /\ DOMAIN Shrunk \subseteq Payloads
    /\ {Wide, Blank} \subseteq DOMAIN Shrunk /\ Unread \notin DOMAIN Shrunk
    /\ Bad \notin Payloads \cup {Filler}
    /\ FatAt \in 0 .. NSectors(SAP_FORMAT2) - 1
    /\ Disks \subseteq [DiskSectors -> Payloads \cup {Filler, Bad}]

Idle == [op |-> "none", pc |-> "idle", path |-> NoPath, is5 |-> FALSE, density |-> 2,
         id |-> 0, track |-> 0, sect |-> 1, try |-> 0, ret |-> 0]

VARIABLES
    floppy,     \* the disk in the drive
    buffer,     \* the track read from the disk, or to be written to it
    job,        \* the command that runs, or the last one and what it returned
    before      \* the disk when the command began

vars == <<avars, floppy, buffer, job, before>>

Blanks       == [s \in 1 .. SAP_NSECTS |-> Blank]
TrackAt(t)   == t * SAP_NSECTS .. (t + 1) * SAP_NSECTS - 1
At           == job.track * SAP_NSECTS + job.sect - 1

\* Mutant: one track too many.
num_tracks_More ==
    1 + IF job.is5 THEN SAP_NTRACKS[SAP_FORMAT2] ELSE SAP_NTRACKS[SAP_FORMAT1]

num_tracks == IF job.is5 THEN SAP_NTRACKS[SAP_FORMAT2] ELSE SAP_NTRACKS[SAP_FORMAT1]

Format(d)    == IF d = 1 THEN SAP_FORMAT2 ELSE SAP_FORMAT1
Running(pc)  == job.pc = pc

Sap2Init ==
    /\ ArchivesInit
    /\ floppy \in Disks
    /\ buffer = Blanks
    /\ job = Idle
    /\ before = floppy

Goto(pc)    == job' = [job EXCEPT !.pc = pc, !.try = 0]
\* The buffer is a local variable of each command.
Exit(r)     == /\ job' = [job EXCEPT !.pc = "idle", !.ret = r, !.try = 0]
               /\ buffer' = Blanks
NewDisk     == floppy' \in Disks /\ before' = floppy'
Start(op, pc, p, five, d, id) ==
    /\ job' = [Idle EXCEPT !.op = op, !.pc = pc, !.path = p, !.is5 = five,
                           !.density = d, !.id = id]
    /\ NewDisk
    /\ UNCHANGED buffer
Return(op, p, five, d, r) ==
    /\ job' = [Idle EXCEPT !.op = op, !.path = p, !.is5 = five, !.density = d, !.ret = r]
    /\ NewDisk
    /\ UNCHANGED buffer

-----------------------------------------------------------------------------
(***************************************************************************)
(* ExecCommand: the part of its loop that ends without an answer.  A write *)
(* may leave the first sectors of the track as it found or made them.      *)
(***************************************************************************)
NextTry == job.try + 1

DiskPcs == {"pack_track", "pack_sector", "unpack_write", "format_track", "fat_blank", "fat"}

\* Sectors at..(at + n - 1) of the disk once written with `data'.
Written(at, n, data) ==
    [k \in DiskSectors |-> IF k \in at .. at + n - 1 THEN data[k - at + 1] ELSE floppy[k]]

\* What the disk command of a pc writes: the place, the count, the data.
Fillers  == [s \in 1 .. SAP_NSECTS |-> Filler]
FatTrack == FatAt \div SAP_NSECTS
Request ==
    CASE Running("unpack_write") -> <<job.track * SAP_NSECTS, SAP_NSECTS, buffer>>
      [] Running("format_track") -> <<job.track * SAP_NSECTS, SAP_NSECTS, Fillers>>
      [] Running("fat_blank")    -> <<FatTrack * SAP_NSECTS, SAP_NSECTS, Blanks>>
      [] Running("fat")          -> <<FatAt, 1, <<Wide>>>>
      [] OTHER                   -> <<0, 0, <<>>>>

DoneInPart(j) == floppy' = Written(Request[1], j, Request[3])
DoneWhole     == floppy' = Written(Request[1], Request[2], Request[3])

NoAnswer ==
    /\ job.pc \in DiskPcs
    /\ NextTry < DISK_RETRY
    /\ \E j \in 0 .. Request[2] : DoneInPart(j)
    /\ job' = [job EXCEPT !.try = NextTry]
    /\ UNCHANGED <<avars, buffer, before>>

\* Mutant: the last attempt counts whether it was answered or not.
WriteAnswered_Any == \E j \in 0 .. Request[2] : DoneInPart(j)

\* A write is done only where the drive finds the sectors to write.
WriteAnswered ==
    /\ DoneWhole
    /\ \A k \in Request[1] .. Request[1] + Request[2] - 1 : floppy[k] # Bad

-----------------------------------------------------------------------------
(* PackArchive *)
\* Any sector whose upper half is all 0xFF, be it a FAT or not.
shrink_fat_160_to_80(data) == IF data \in DOMAIN Shrunk THEN Shrunk[data] ELSE data

\* What is written in the archive for the current sector, read as `data'.
Packed(data) ==
    IF At = FatAt /\ job.is5 /\ job.density = 2 THEN shrink_fat_160_to_80(data) ELSE data

StartPack(p, five, d) ==
    /\ Running("idle")
    /\ sap_CreateArchive(p, Format(d))
    /\ IF last'[2] = SAP_ERROR THEN Return("pack", p, five, d, 1)
       ELSE Start("pack", "pack_track", p, five, d, last'[2])

PackTrackRead ==
    /\ Running("pack_track")
    /\ \A k \in TrackAt(job.track) : floppy[k] # Bad
    /\ buffer' = [s \in 1 .. SAP_NSECTS |-> floppy[job.track * SAP_NSECTS + s - 1]]
    /\ Goto("pack_fill")
    /\ UNCHANGED <<avars, floppy, before>>

\* Mutant: the whole track is read again.
PackTrackError_Again ==
    /\ Running("pack_track")
    /\ Goto("pack_track")
    /\ UNCHANGED <<avars, floppy, buffer, before>>

\* An error status, or no answer to the last attempt.
PackTrackError ==
    /\ Running("pack_track")
    /\ Goto("pack_sector")
    /\ UNCHANGED <<avars, floppy, buffer, before>>

LastSector == job.sect = SAP_NSECTS

\* Mutant: leaves the last track after its first sector.
PackNext_Early ==
    job' = IF ~LastSector /\ job.track + 1 # num_tracks
           THEN [job EXCEPT !.sect = @ + 1, !.try = 0]
           ELSE [job EXCEPT !.sect = 1, !.track = @ + 1, !.try = 0,
                     !.pc = IF job.track + 1 = num_tracks THEN "close" ELSE "pack_track"]

\* One turn of the loop on sectors, with the loop on tracks around it.
PackNext ==
    job' = IF ~LastSector THEN [job EXCEPT !.sect = @ + 1, !.try = 0]
           ELSE [job EXCEPT !.sect = 1, !.track = @ + 1, !.try = 0,
                     !.pc = IF job.track + 1 = num_tracks THEN "close" ELSE "pack_track"]

PackFill(data) ==
    /\ sap_FillArchive(job.id, [at |-> At, data |-> Packed(data)])
    /\ PackNext
    /\ UNCHANGED <<floppy, before>>

PackBuffered ==
    /\ Running("pack_fill")
    /\ PackFill(buffer[job.sect])
    /\ UNCHANGED buffer

\* Mutant: the buffer is not reset after an error, it holds an older sector.
Illegible_Stale == buffer[1]

Illegible == Unread

\* Sector by sector: each is read into the start of the buffer.
PackSector ==
    /\ Running("pack_sector")
    /\ \/ /\ floppy[At] # Bad
          /\ PackFill(floppy[At])
          /\ buffer' = [buffer EXCEPT ![1] = floppy[At]]
       \/ /\ PackFill(Illegible)
          /\ UNCHANGED buffer

\* Every command that has its archive open ends here.
Close ==
    /\ Running("close")
    /\ sap_CloseArchive(job.id)
    /\ Exit(0)
    /\ UNCHANGED <<floppy, before>>

-----------------------------------------------------------------------------
(* UnpackArchive *)
StartUnpack(p, five, d) ==
    /\ Running("idle")
    /\ sap_OpenArchive(p)
    /\ IF last'[2] = SAP_ERROR THEN Return("unpack", p, five, d, 1)
       ELSE /\ archive'[last'[2]].format = Format(d)
            /\ Start("unpack", "unpack_read", p, five, d, last'[2])

\* The archive has the other format: an error, and it stays open.
UnpackMismatch(p, five, d) ==
    /\ Running("idle")
    /\ sap_OpenArchive(p)
    /\ last'[2] # SAP_ERROR
    /\ archive'[last'[2]].format # Format(d)
    /\ Return("unpack", p, five, d, 1)

(***************************************************************************)
(* The SAP_NSECTS calls of sap_ReadSector, whose flags are ignored.  Past  *)
(* the end of the archive it leaves what happens to be in its buffer.      *)
(***************************************************************************)
UnpackRead ==
    /\ Running("unpack_read")
    /\ LET cells == FileOf(job.id).cells
           at(s) == job.track * SAP_NSECTS + s
       IN \E rest \in Payloads :
             buffer' = [s \in 1 .. SAP_NSECTS |->
                           IF at(s) <= Len(cells) THEN cells[at(s)].data ELSE rest]
    /\ Goto("unpack_write")
    /\ UNCHANGED <<avars, floppy, before>>

UnpackWrite ==
    /\ Running("unpack_write")
    /\ WriteAnswered
    /\ job' = [job EXCEPT !.track = @ + 1, !.try = 0,
                   !.pc = IF job.track + 1 = num_tracks THEN "close" ELSE "unpack_read"]
    /\ UNCHANGED <<avars, buffer, before>>

\* Mutant: the error path does not close the archive.
UnpackWriteError_Open ==
    /\ Running("unpack_write")
    /\ \E j \in 0 .. SAP_NSECTS : DoneInPart(j)
    /\ Exit(3)
    /\ UNCHANGED <<avars, before>>

UnpackWriteError ==
    /\ Running("unpack_write")
    /\ \E j \in 0 .. SAP_NSECTS : DoneInPart(j)
    /\ sap_CloseArchive(job.id)
    /\ Exit(3)
    /\ UNCHANGED before

-----------------------------------------------------------------------------
(* FormatDisk *)
StartFormat(five, d) ==
    /\ Running("idle")
    /\ Start("format", "format_track", NoPath, five, d, 0)
    /\ UNCHANGED avars

\* A format command writes the marks of the sectors that it makes.
FormatTrack ==
    /\ Running("format_track")
    /\ DoneWhole
    /\ job' = [job EXCEPT !.track = @ + 1, !.try = 0,
                   !.pc = IF job.track + 1 = num_tracks THEN "fat_blank" ELSE "format_track"]
    /\ UNCHANGED <<avars, buffer, before>>

FormatFat ==
    /\ job.pc \in {"fat_blank", "fat"}
    /\ WriteAnswered
    /\ IF Running("fat") THEN Exit(0) ELSE Goto("fat") /\ UNCHANGED buffer
    /\ UNCHANGED <<avars, before>>

FormatError ==
    /\ job.pc \in {"format_track", "fat_blank", "fat"}
    /\ \E j \in 0 .. Request[2] : DoneInPart(j)
    /\ Exit(IF Running("format_track") THEN 1 ELSE 2)
    /\ UNCHANGED <<avars, before>>

-----------------------------------------------------------------------------
(* CreateEmptyArchive and ViewArchiveDir *)
StartCreate(p, d) ==
    /\ Running("idle")
    /\ sap_CreateArchive(p, Format(d))
    /\ IF last'[2] = SAP_ERROR THEN Return("create", p, FALSE, d, 1)
       ELSE Start("create", "create_format", p, FALSE, d, last'[2])

\* The number of tracks is one of the two that sap_FormatArchive takes.
CreateFormat ==
    /\ Running("create_format")
    /\ sap_FormatArchive(job.id)
    /\ last'[2] = SAP_OK
    /\ Goto("close")
    /\ UNCHANGED <<floppy, buffer, before>>

\* The directory of an archive just opened, which is FULL, is always listed.
StartView(p) ==
    /\ Running("idle")
    /\ sap_OpenArchive(p)
    /\ IF last'[2] = SAP_ERROR THEN Return("view", p, FALSE, 2, 1)
       ELSE Start("view", "close", p, FALSE, 2, last'[2])

-----------------------------------------------------------------------------
Step ==
    \/ NoAnswer \/ PackTrackRead \/ PackTrackError \/ PackBuffered \/ PackSector
    \/ UnpackRead \/ UnpackWrite \/ UnpackWriteError \/ Close \/ CreateFormat
    \/ FormatTrack \/ FormatFat \/ FormatError

Command ==
    \E five \in BOOLEAN, d \in {1, 2} :
       \/ StartFormat(five, d)
       \/ \E p \in Paths : \/ StartPack(p, five, d) \/ StartUnpack(p, five, d)
                           \/ UnpackMismatch(p, five, d)
                           \/ StartCreate(p, d) \/ StartView(p)

(***************************************************************************)
(* The program is stopped: what it wrote of an archive that was not FULL   *)
(* is in the host file up to some sector, and no tracks are added.         *)
(***************************************************************************)
Crash ==
    /\ ~Running("idle")
    /\ job' = [Idle EXCEPT !.op = "crash", !.path = job.path]
    /\ archive' = [id \in Ids |-> Closed]
    /\ given' = [id \in Ids |-> 0]
    /\ sect' = 0
    /\ last' = <<"none", SAP_OK, "none">>
    /\ buffer' = Blanks
    /\ IF job.id \in Ids /\ archive[job.id].state \in {"empty", "filled"}
         THEN \E n \in 0 .. Len(FileOf(job.id).cells) :
                host' = [host EXCEPT ![job.path].cells = SubSeq(@, 1, n)]
         ELSE UNCHANGED host
    /\ UNCHANGED <<floppy, before>>

Sap2Next == Step \/ Command \/ Crash

\* A program that goes on once it has begun a command, unless it is stopped.
Sap2Spec == Sap2Init /\ [][Sap2Next]_vars /\ WF_vars(Step)

-----------------------------------------------------------------------------
Returned(op) == job.pc = "idle" /\ job.op = op /\ job.ret = 0

Geometry == 0 .. num_tracks * SAP_NSECTS - 1

\* One type invariant for the disk, the buffer and the command.
Sap2TypeOK ==
    /\ floppy \in [DiskSectors -> Payloads \cup {Filler, Bad}]
    /\ buffer \in [1 .. SAP_NSECTS -> Payloads \cup {Filler}]
    /\ job.track \in 0 .. SAP_NTRACKS[SAP_FORMAT1] /\ job.sect \in 1 .. SAP_NSECTS
    /\ job.try \in 0 .. DISK_RETRY - 1

\* When PackArchive returns 0 the archive has its sectors in their places, each
\* what the disk has there or marked as unread, the FAT of a 5" disk reduced to
\* 80 blocks if none of the others is in use, and empty sectors where the disk has none.  No drive error, and no
\* way out of the loops, puts the data of one sector in another.
PackIsFaithful ==
    Returned("pack") =>
        LET cells == host[job.path].cells
            read(k) == IF k \notin Geometry THEN Filler
                       ELSE IF k = FatAt /\ job.is5 /\ job.density = 2
                               /\ floppy[k] \in DOMAIN Shrunk
                         THEN Shrunk[floppy[k]] ELSE floppy[k]
        IN /\ Complete(host[job.path])
           /\ \A k \in 0 .. Len(cells) - 1 :
                 cells[k + 1].data \in {read(k)} \cup (IF k \in Geometry THEN {Unread} ELSE {})

\* While UnpackArchive runs, and when it has returned 0 or an error of the disk,
\* the tracks it has passed are those of the archive and the tracks ahead of it are
\* untouched, however often the drive did not answer in the middle of a track.
UnpackIsFaithful ==
    job.op = "unpack" /\ job.ret \in {0, 3} =>
        \A k \in DiskSectors :
            /\ k < job.track * SAP_NSECTS /\ k < Len(host[job.path].cells)
                  => floppy[k] = host[job.path].cells[k + 1].data
            /\ k >= (job.track + 1) * SAP_NSECTS \/ (Returned("unpack") /\ k \notin Geometry)
                  => floppy[k] = before[k]

\* A disk that FormatDisk returned 0 for is empty and readable in every sector.
FormatIsComplete ==
    Returned("format") =>
        \A k \in Geometry :
            floppy[k] = IF k = FatAt THEN Wide
                        ELSE IF k \in TrackAt(FatTrack) THEN Blank ELSE Filler

\* Archives that no command works on and that are open all the same.
Forgotten == {id \in Ids : Open(id) /\ id # job.id}

\* As long as no archive was forgotten and the program is not stopped, sap2 uses
\* libsap as SerialSpec asks: it fills one archive at a time, by whole tracks,
\* each sector in its place, and so finds FullIsComplete and ClosedIsComplete
\* true of its archives.
UsesLibsapSerially ==
    [][Forgotten = {} /\ job'.op # "crash" => Next /\ Serial]_avars

\* A command that has begun on an archive closes it, whichever of its exits it
\* takes, and closes no other; only an archive of the wrong format is forgotten.
EndClosesArchive ==
    [][job.pc # "idle" /\ job'.pc = "idle" /\ job'.op # "crash" =>
          \A id \in Ids : Open(id)' <=> id \in Forgotten]_vars

\* Every command ends: the attempts are counted, and so are sectors and tracks.
CommandsEnd == job.pc # "idle" ~> job.pc = "idle"
=============================================================================
