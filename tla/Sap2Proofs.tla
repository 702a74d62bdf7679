------------------------------ MODULE Sap2Proofs ------------------------------
(***************************************************************************)
(* The commands of sap2.c do what they return 0 for, and use libsap the    *)
(* way its archives need, for every size of disk, set of disks, number of  *)
(* attempts, and every sequence of commands, drive errors and stops.       *)
(***************************************************************************)
EXTENDS Sap2, SapArchiveProofs

-----------------------------------------------------------------------------
(***************************************************************************)
(* The inductive invariant.                                                *)
(***************************************************************************)
PackPcs    == {"pack_track", "pack_fill", "pack_sector"}
UnpackPcs  == {"unpack_read", "unpack_write"}
FormatPcs  == {"format_track", "fat_blank", "fat"}
ArchivePcs == PackPcs \cup UnpackPcs \cup {"create_format", "close"}
TrackPcs   == PackPcs \cup UnpackPcs \cup {"format_track"}

JobType ==
    job \in [op      : {"none", "pack", "unpack", "format", "create", "view", "crash"},
             pc      : ArchivePcs \cup FormatPcs \cup {"idle"},
             path    : Paths \cup {NoPath},
             is5     : BOOLEAN,
             density : {1, 2},
             id      : Ids \cup {0},
             track   : Nat,
             sect    : 1 .. SAP_NSECTS,
             try     : 0 .. DISK_RETRY - 1,
             ret     : Nat]

\* What pc says of the command and of its loops.
JobInv ==
    /\ job.pc \in PackPcs => job.op = "pack"
    /\ job.pc \in UnpackPcs => job.op = "unpack"
    /\ job.pc \in FormatPcs => job.op = "format" /\ job.id = 0
    /\ Running("create_format") => job.op = "create"
    /\ Running("close") => job.op \in {"pack", "unpack", "create", "view"}
    /\ ~Running("idle") => job.ret = 0
    /\ job.track =< num_tracks
    /\ job.pc \in TrackPcs => job.track < num_tracks
    /\ Running("close") /\ job.op \in {"pack", "unpack"} => job.track = num_tracks
    /\ job.pc \in {"pack_track", "close"} /\ job.op = "pack" => job.sect = 1

\* Only the archive of the command that runs is ever other than FULL.
TableOfJob ==
    \A id \in Ids :
        \/ archive[id] = Closed
        \/ archive[id].state = "full" /\ (Running("idle") => id # job.id)
        \/ id = job.id /\ ~Running("idle")

\* The archive of the command that runs.
ArchiveOfJob ==
    job.pc \in ArchivePcs =>
        /\ job.id \in Ids /\ job.path \in Paths
        /\ Open(job.id) /\ archive[job.id].path = job.path
        /\ archive[job.id].format \in Formats
        /\ host[job.path].format = archive[job.id].format
        /\ Running("create_format") => archive[job.id].state = "empty"
        /\ job.op # "pack" /\ ~Running("create_format") => archive[job.id].state = "full"

\* What a sector of the disk is in the archive.
OnDisk(k) ==
    IF k = FatAt /\ job.is5 /\ job.density = 2 /\ floppy[k] \in DOMAIN Shrunk
    THEN Shrunk[floppy[k]] ELSE floppy[k]

(***************************************************************************)
(* The loops of PackArchive are where sap_FillArchive is: its static       *)
(* counter and the table agree with the track and the sector, until the    *)
(* archive is full.                                                        *)
(***************************************************************************)
PackInv ==
    job.op = "pack" /\ job.pc \in ArchivePcs =>
        LET a     == archive[job.id]
            cells == host[job.path].cells
        IN /\ a.format = Format(job.density)
           /\ Labelled(cells)
           /\ \/ a.state = "full" /\ Len(cells) = NSectors(a.format)
              \/ /\ a.state = "empty" /\ Len(cells) = 0
                 /\ a.ntracks = 0 /\ given[job.id] = 0
                 /\ job.track = 0 /\ job.sect = 1
              \/ /\ a.state = "filled" /\ Len(cells) = At
                 /\ a.ntracks = job.track /\ given[job.id] = At
                 /\ sect = job.sect /\ job.track < SAP_NTRACKS[a.format]
           /\ \A k \in 0 .. Len(cells) - 1 :
                 k \in Geometry /\ cells[k + 1].data \in {OnDisk(k), Unread}

BufferInv ==
    Running("pack_fill") =>
        \A s \in 1 .. SAP_NSECTS :
            /\ buffer[s] = floppy[job.track * SAP_NSECTS + s - 1]
            /\ floppy[job.track * SAP_NSECTS + s - 1] # Bad

\* Tracks before the one being written are those of the archive, those after it
\* those that the disk had.
UnpackInv ==
    job.op = "unpack" /\ job.pc \in ArchivePcs =>
        LET cells == host[job.path].cells
            ahead == IF Running("unpack_write") THEN job.track + 1 ELSE job.track
        IN /\ \A k \in DiskSectors :
                 /\ k < job.track * SAP_NSECTS /\ k < Len(cells)
                       => floppy[k] = cells[k + 1].data
                 /\ k >= ahead * SAP_NSECTS => floppy[k] = before[k]
           /\ Running("unpack_write") =>
                 \A s \in 1 .. SAP_NSECTS :
                     job.track * SAP_NSECTS + s =< Len(cells) =>
                         buffer[s] = cells[job.track * SAP_NSECTS + s].data

FormatInv ==
    /\ Running("format_track") =>
          \A k \in Geometry : k < job.track * SAP_NSECTS => floppy[k] = Filler
    /\ Running("fat_blank") =>
          \A k \in Geometry : k \notin TrackAt(FatTrack) => floppy[k] = Filler
    /\ Running("fat") =>
          \A k \in Geometry \ {FatAt} :
              floppy[k] = IF k \in TrackAt(FatTrack) THEN Blank ELSE Filler

Inv ==
    /\ TypeOK /\ Sap2TypeOK /\ JobType /\ JobInv
    /\ TableOfJob /\ ArchiveOfJob
    /\ PackInv /\ BufferInv /\ UnpackInv /\ FormatInv
    /\ PackIsFaithful /\ UnpackIsFaithful /\ FormatIsComplete

-----------------------------------------------------------------------------
(***************************************************************************)
(* Tracks and sectors.                                                     *)
(***************************************************************************)
LEMMA FormatNumbers ==
    /\ SAP_NSECTS \in Nat \ {0} /\ SAP_NTRACKS \in [Formats -> Nat \ {0}]
    /\ SAP_FORMAT1 \in Formats /\ SAP_FORMAT2 \in Formats /\ SAP_FORMAT1 # SAP_FORMAT2
    /\ Formats = {SAP_FORMAT1, SAP_FORMAT2}
    /\ SAP_NTRACKS[SAP_FORMAT1] \in Nat \ {0} /\ SAP_NTRACKS[SAP_FORMAT2] \in Nat \ {0}
    /\ SAP_NTRACKS[SAP_FORMAT2] =< SAP_NTRACKS[SAP_FORMAT1]
    /\ \A d : Format(d) \in Formats
    /\ DISK_RETRY \in Nat \ {0}
<1>1. SAP_FORMAT1 \in Formats /\ SAP_FORMAT2 \in Formats /\ SAP_FORMAT1 # SAP_FORMAT2
  BY Sap2Assumption DEF SAP_FORMAT1, SAP_FORMAT2
<1>2. SAP_NSECTS \in Nat \ {0} /\ SAP_NTRACKS \in [Formats -> Nat \ {0}]
  BY ArchiveAssumption
<1>3. SAP_NTRACKS[SAP_FORMAT1] \in Nat \ {0} /\ SAP_NTRACKS[SAP_FORMAT2] \in Nat \ {0}
  BY <1>1, <1>2
<1>4. Formats = {SAP_FORMAT1, SAP_FORMAT2} /\ DISK_RETRY \in Nat \ {0}
  BY Sap2Assumption
<1>5. SAP_NTRACKS[SAP_FORMAT2] =< SAP_NTRACKS[SAP_FORMAT1]
  BY <1>3, Sap2Assumption
<1>6. \A d : Format(d) \in Formats
  BY <1>1 DEF Format
<1> QED
  BY <1>1, <1>2, <1>3, <1>4, <1>5, <1>6

LEMMA NumTracks ==
    /\ num_tracks \in Nat \ {0} /\ num_tracks =< SAP_NTRACKS[SAP_FORMAT1]
    /\ num_tracks * SAP_NSECTS \in Nat
    /\ NSectors(SAP_FORMAT1) \in Nat /\ NSectors(SAP_FORMAT2) \in Nat
    /\ NSectors(SAP_FORMAT2) =< num_tracks * SAP_NSECTS
    /\ num_tracks * SAP_NSECTS =< NSectors(SAP_FORMAT1)
<1>1. /\ num_tracks \in Nat \ {0} /\ num_tracks =< SAP_NTRACKS[SAP_FORMAT1]
      /\ SAP_NTRACKS[SAP_FORMAT2] =< num_tracks
  BY FormatNumbers DEF num_tracks
<1>2. SAP_NTRACKS[SAP_FORMAT1] \in Nat /\ SAP_NTRACKS[SAP_FORMAT2] \in Nat
  BY FormatNumbers
<1> HIDE DEF num_tracks
<1> QED
  BY <1>1, <1>2, Sectors DEF NSectors

LEMMA FirstSectors ==
    ASSUME NEW t \in Nat
    PROVE  /\ t * SAP_NSECTS \in Nat /\ (t + 1) * SAP_NSECTS \in Nat
           /\ (t + 1) * SAP_NSECTS = t * SAP_NSECTS + SAP_NSECTS
<1> DEFINE n == SAP_NSECTS
<1>1. n \in Nat
  BY FormatNumbers
<1> HIDE DEF n
<1>2. t * n \in Nat /\ (t + 1) * n = t * n + n
  BY <1>1
<1> QED
  BY <1>1, <1>2 DEF n

\* A track of the drive is a track of the disk.
LEMMA TrackOfDisk ==
    ASSUME NEW t \in Nat, t < num_tracks
    PROVE  /\ (t + 1) * SAP_NSECTS =< num_tracks * SAP_NSECTS
           /\ \A k \in t * SAP_NSECTS .. (t + 1) * SAP_NSECTS - 1 :
                 k \in DiskSectors /\ k \in Geometry
           /\ \A s \in 1 .. SAP_NSECTS : t * SAP_NSECTS + s - 1 \in TrackAt(t)
<1>1. t + 1 \in Nat /\ t + 1 =< num_tracks
  BY NumTracks
<1>2. (t + 1) * SAP_NSECTS =< num_tracks * SAP_NSECTS
  BY <1>1, NumTracks, Sectors
<1> QED
  BY <1>2, NumTracks, FirstSectors, FormatNumbers DEF DiskSectors, Geometry, TrackAt

LEMMA FatOfDisk ==
    /\ FatTrack \in Nat /\ FatTrack < SAP_NTRACKS[SAP_FORMAT2] /\ FatTrack < num_tracks
    /\ FatAt \in TrackAt(FatTrack) /\ FatAt \in Geometry /\ FatAt \in DiskSectors
<1> DEFINE n == SAP_NSECTS
           q == FatAt \div n
           t == SAP_NTRACKS[SAP_FORMAT2]
<1>1. n \in Nat \ {0} /\ FatAt \in Nat /\ t \in Nat /\ FatAt < t * n
  BY FormatNumbers, NumTracks, Sap2Assumption DEF NSectors
<1>2. q \in Nat /\ q * n =< FatAt /\ FatAt < q * n + n
  <2> HIDE DEF n
  <2>1. \A d \in Nat \ {0} : \A x \in Nat :
            x \div d \in Nat /\ d * (x \div d) =< x /\ x < d * (x \div d) + d
    OBVIOUS
  <2>2. n * q = q * n
    BY <1>1, <2>1
  <2> QED
    BY <1>1, <2>1, <2>2
<1>3. q < t
  <2>1. CASE t =< q
    <3>1. t * n =< q * n
      BY <1>1, <1>2, <2>1, Sectors
    <3> QED
      BY <1>1, <1>2, <3>1, FirstSectors
  <2> QED
    BY <1>1, <1>2, <2>1
<1>4. FatTrack = q
  BY DEF FatTrack
<1>5. FatTrack < num_tracks
  BY <1>2, <1>3, <1>4, FormatNumbers DEF num_tracks
<1>6. FatAt \in TrackAt(FatTrack)
  <2>1. (q + 1) * n = q * n + n /\ q * n \in Nat
    BY <1>2, FirstSectors
  <2> HIDE DEF q, n
  <2>2. FatAt \in q * n .. (q + 1) * n - 1
    BY <1>1, <1>2, <2>1
  <2> QED
    BY <1>4, <2>2 DEF TrackAt, n
<1> QED
  BY <1>2, <1>3, <1>4, <1>5, <1>6, TrackOfDisk DEF TrackAt

\* Whole tracks are a multiple of SAP_NSECTS.
LEMMA TrackMultiple ==
    ASSUME NEW t \in Nat
    PROVE  (t * SAP_NSECTS) % SAP_NSECTS = 0
<1> DEFINE n == SAP_NSECTS
<1>1. n \in Nat \ {0}
  BY FormatNumbers
<1> HIDE DEF n
<1>2. (t * n) % n = 0
  BY <1>1
<1> QED
  BY <1>2 DEF n

-----------------------------------------------------------------------------
(***************************************************************************)
(* What the calls of the driver do to the disk.                            *)
(***************************************************************************)
DiskData == Payloads \cup {Filler, Bad}

LEMMA Requests ==
    /\ Running("unpack_write") => Request = <<job.track * SAP_NSECTS, SAP_NSECTS, buffer>>
    /\ Running("format_track") => Request = <<job.track * SAP_NSECTS, SAP_NSECTS, Fillers>>
    /\ Running("fat_blank") => Request = <<FatTrack * SAP_NSECTS, SAP_NSECTS, Blanks>>
    /\ Running("fat") => Request = <<FatAt, 1, <<Wide>>>>
    /\ job.pc \in {"pack_track", "pack_sector"} => Request = <<0, 0, <<>>>>
BY DEF Request, Running

\* The places that the disk command of pc writes.
Target ==
    IF job.pc \in {"unpack_write", "format_track"} THEN TrackAt(job.track)
    ELSE IF Running("fat_blank") THEN TrackAt(FatTrack)
    ELSE IF Running("fat") THEN {FatAt} ELSE {}

LEMMA RequestType ==
    ASSUME Sap2TypeOK, JobType, JobInv, job.pc \in DiskPcs
    PROVE  /\ Request[1] \in Nat /\ Request[2] \in Nat
           /\ \A s \in 1 .. Request[2] : Request[3][s] \in DiskData
           /\ Target = Request[1] .. Request[1] + Request[2] - 1
<1>1. job.track \in Nat /\ SAP_NSECTS \in Nat /\ FatTrack \in Nat /\ FatAt \in Nat
  BY FormatNumbers, FatOfDisk, Sap2Assumption DEF JobType
<1>2. ASSUME NEW t \in Nat, NEW data, \A s \in 1 .. SAP_NSECTS : data[s] \in DiskData,
             Request = <<t * SAP_NSECTS, SAP_NSECTS, data>>, Target = TrackAt(t)
      PROVE  /\ Request[1] \in Nat /\ Request[2] \in Nat
             /\ \A s \in 1 .. Request[2] : Request[3][s] \in DiskData
             /\ Target = Request[1] .. Request[1] + Request[2] - 1
  <2>1. /\ Request[1] = t * SAP_NSECTS /\ Request[2] = SAP_NSECTS /\ Request[3] = data
        /\ t * SAP_NSECTS \in Nat /\ (t + 1) * SAP_NSECTS = t * SAP_NSECTS + SAP_NSECTS
    BY <1>2, FirstSectors
  <2> QED
    BY <1>1, <1>2, <2>1 DEF TrackAt
<1>3. CASE Running("unpack_write")
  <2>1. \A s \in 1 .. SAP_NSECTS : buffer[s] \in DiskData
    BY DEF Sap2TypeOK, DiskData
  <2> QED
    BY <1>1, <1>2, <1>3, <2>1, Requests DEF Target, Running
<1>4. CASE Running("format_track")
  <2>1. \A s \in 1 .. SAP_NSECTS : Fillers[s] \in DiskData
    BY DEF Fillers, DiskData
  <2> QED
    BY <1>1, <1>2, <1>4, <2>1, Requests DEF Target, Running
<1>5. CASE Running("fat_blank")
  <2>1. \A s \in 1 .. SAP_NSECTS : Blanks[s] \in DiskData
    BY Sap2Assumption DEF Blanks, DiskData
  <2> QED
    BY <1>1, <1>2, <1>5, <2>1, Requests DEF Target, Running
<1>6. CASE Running("fat")
  <2>1. Wide \in DiskData
    BY Sap2Assumption DEF DiskData
  <2>2. Request[1] = FatAt /\ Request[2] = 1 /\ Request[3] = <<Wide>>
    BY <1>6, Requests
  <2>3. FatAt .. FatAt + 1 - 1 = {FatAt}
    BY <1>1
  <2> QED
    BY <1>1, <1>6, <2>1, <2>2, <2>3 DEF Target, Running
<1>7. CASE job.pc \in {"pack_track", "pack_sector"}
  BY <1>7, Requests DEF Target, Running
<1> QED
  BY <1>3, <1>4, <1>5, <1>6, <1>7 DEF DiskPcs, Running

\* The first j sectors of the place are written, the rest of the disk is kept.
LEMMA DiskWritten ==
    ASSUME Sap2TypeOK, JobType, JobInv, job.pc \in DiskPcs,
           NEW j \in 0 .. Request[2], DoneInPart(j)
    PROVE  /\ floppy' \in [DiskSectors -> DiskData]
           /\ \A k \in DiskSectors \ Target : floppy'[k] = floppy[k]
           /\ \A k \in DiskSectors : k \in Request[1] .. Request[1] + j - 1 =>
                 floppy'[k] = Request[3][k - Request[1] + 1]
<1>1. /\ Request[1] \in Nat /\ Request[2] \in Nat
      /\ \A s \in 1 .. Request[2] : Request[3][s] \in DiskData
      /\ Target = Request[1] .. Request[1] + Request[2] - 1
  BY RequestType
<1>2. PICK at, n, data : /\ at \in Nat /\ n \in Nat
                         /\ at = Request[1] /\ n = Request[2] /\ data = Request[3]
  BY <1>1
<1>3. floppy' = [k \in DiskSectors |->
                    IF k \in at .. at + j - 1 THEN data[k - at + 1] ELSE floppy[k]]
  BY <1>2 DEF DoneInPart, Written
<1>4. DiskSectors \subseteq Int
  BY DEF DiskSectors
<1>5. \A k \in DiskSectors : floppy[k] \in DiskData
  BY DEF Sap2TypeOK, DiskData
<1>6. ASSUME NEW k \in DiskSectors
      PROVE  /\ floppy'[k] \in DiskData
             /\ k \notin at .. at + n - 1 => floppy'[k] = floppy[k]
             /\ k \in at .. at + j - 1 => floppy'[k] = data[k - at + 1]
  <2>1. k \in at .. at + j - 1 => k - at + 1 \in 1 .. n /\ k \in at .. at + n - 1
    BY <1>2, <1>4
  <2> QED
    BY <1>1, <1>2, <1>3, <1>5, <2>1
<1>7. floppy' \in [DiskSectors -> DiskData]
  BY <1>3, <1>6
<1> QED
  BY <1>1, <1>2, <1>6, <1>7

LEMMA DiskKept ==
    ASSUME Sap2TypeOK, JobType, JobInv, job.pc \in DiskPcs, Target = {},
           NEW j \in 0 .. Request[2], DoneInPart(j)
    PROVE  floppy' = floppy
BY DiskWritten DEF Sap2TypeOK

LEMMA DiskAllWritten ==
    ASSUME Sap2TypeOK, JobType, JobInv, job.pc \in DiskPcs, DoneWhole
    PROVE  /\ floppy' \in [DiskSectors -> DiskData]
           /\ \A k \in DiskSectors \ Target : floppy'[k] = floppy[k]
           /\ \A k \in DiskSectors \cap Target : floppy'[k] = Request[3][k - Request[1] + 1]
<1>1. Request[2] \in Nat /\ Target = Request[1] .. Request[1] + Request[2] - 1
  BY RequestType
<1>2. DoneInPart(Request[2]) /\ Request[2] \in 0 .. Request[2]
  BY <1>1 DEF DoneInPart, DoneWhole
<1> QED
  BY <1>1, <1>2, DiskWritten

-----------------------------------------------------------------------------
(***************************************************************************)
(* What the calls of libsap do, whatever other archives are open.          *)
(***************************************************************************)
LEMMA CallFails ==
    ASSUME TypeOK, NEW fn, NEW r \in {SAP_OK, SAP_ERROR}, NEW e, Fail(fn, r, e)
    PROVE  TypeOK' /\ UNCHANGED <<host, archive, sect, given>> /\ last'[2] = r
BY DEF Fail, TypeOK

LEMMA Opened ==
    ASSUME TypeOK, NEW p \in Paths, sap_OpenArchive(p)
    PROVE  /\ TypeOK'
           /\ \/ UNCHANGED <<host, archive, sect, given>> /\ last'[2] = SAP_ERROR
              \/ /\ UNCHANGED <<host, sect, given>>
                 /\ last'[2] \in Ids /\ ~Open(last'[2]) /\ last'[2] # SAP_ERROR
                 /\ host[p].format \in Formats
                 /\ archive'[last'[2]].state = "full" /\ archive'[last'[2]].path = p
                 /\ archive'[last'[2]].format = host[p].format
                 /\ \A j \in Ids \ {last'[2]} : archive'[j] = archive[j]
<1>1. CASE \E e : Fail("open", SAP_ERROR, e)
  BY <1>1, CallFails
<1>2. ASSUME NEW id \in Ids, get_id(id), host[p].format \in Formats,
             archive' = [archive EXCEPT ![id] =
                            [state |-> "full", format |-> host[p].format,
                             ntracks |-> SAP_NTRACKS[host[p].format], path |-> p]],
             Succeed("open", id), UNCHANGED <<host, sect, given>>
      PROVE  /\ TypeOK' /\ last'[2] = id /\ ~Open(id)
             /\ archive'[id].state = "full" /\ archive'[id].path = p
             /\ archive'[id].format = host[p].format
             /\ \A j \in Ids \ {id} : archive'[j] = archive[j]
  <2>1. last'[2] = id /\ ~Open(id)
    BY <1>2 DEF Succeed, get_id
  <2>2. SAP_NTRACKS[host[p].format] \in Nat
    BY <1>2, FormatNumbers
  <2>3. TypeOK'
    BY <1>2, <2>1, <2>2 DEF TypeOK
  <2> QED
    BY <1>2, <2>1, <2>3 DEF TypeOK
<1> QED
  BY <1>1, <1>2, Sap2Assumption DEF sap_OpenArchive, TooManyOpen

LEMMA Created ==
    ASSUME TypeOK, NEW p \in Paths, NEW f \in Formats, sap_CreateArchive(p, f)
    PROVE  /\ TypeOK'
           /\ \/ UNCHANGED <<host, archive, sect, given>> /\ last'[2] = SAP_ERROR
              \/ /\ last'[2] \in Ids /\ ~Open(last'[2]) /\ last'[2] # SAP_ERROR
                 /\ archive'[last'[2]].state = "empty" /\ archive'[last'[2]].path = p
                 /\ archive'[last'[2]].format = f /\ archive'[last'[2]].ntracks = 0
                 /\ given'[last'[2]] = 0
                 /\ host'[p].format = f /\ host'[p].cells = <<>>
                 /\ \A j \in Ids \ {last'[2]} : archive'[j] = archive[j]
<1>1. CASE \E e : Fail("create", SAP_ERROR, e)
  BY <1>1, CallFails
<1>2. ASSUME NEW id \in Ids, get_id(id),
             host' = [host EXCEPT ![p] = [format |-> f, text |-> TRUE, cells |-> <<>>]],
             archive' = [archive EXCEPT ![id] =
                            [state |-> "empty", format |-> f, ntracks |-> 0, path |-> p]],
             given' = [given EXCEPT ![id] = 0],
             Succeed("create", id), UNCHANGED sect
      PROVE  /\ TypeOK' /\ last'[2] = id /\ ~Open(id)
             /\ archive'[id].state = "empty" /\ archive'[id].path = p
             /\ archive'[id].format = f /\ archive'[id].ntracks = 0
             /\ given'[id] = 0 /\ host'[p].format = f /\ host'[p].cells = <<>>
             /\ \A j \in Ids \ {id} : archive'[j] = archive[j]
  <2>1. last'[2] = id /\ ~Open(id)
    BY <1>2 DEF Succeed, get_id
  <2>2. [format |-> f, text |-> TRUE, cells |-> <<>>] \in HostFile
    BY DEF HostFile
  <2>3. TypeOK'
    BY <1>2, <2>1, <2>2 DEF TypeOK
  <2> QED
    BY <1>2, <2>1, <2>3 DEF TypeOK
<1> QED
  BY <1>1, <1>2, Sap2Assumption DEF sap_CreateArchive, TooManyOpen

\* sap_CloseArchive of an archive that is full or filled to whole tracks.
LEMMA ClosedCall ==
    ASSUME TypeOK, NEW id \in Ids, Open(id), archive[id].path \in Paths,
           archive[id].format \in Formats,
           archive[id].ntracks =< SAP_NTRACKS[archive[id].format] \/ archive[id].state = "full",
           SameFormat(id),
           archive[id].state # "full" => Len(host[archive[id].path].cells) = given[id],
           sap_CloseArchive(id)
    PROVE  /\ TypeOK' /\ archive' = [archive EXCEPT ![id] = Closed]
           /\ archive[id].state = "full" => UNCHANGED host
           /\ host'[archive[id].path].format = host[archive[id].path].format
           /\ archive[id].state # "full" =>
                 host'[archive[id].path].cells = host[archive[id].path].cells
                     \o EmptySectors(FirstMissing(id), NSectors(archive[id].format))
<1> DEFINE p == archive[id].path
           f == archive[id].format
           e == EmptySectors(FirstMissing(id), NSectors(f))
<1>1. /\ archive' = [archive EXCEPT ![id] = Closed] /\ given' = [given EXCEPT ![id] = 0]
      /\ Succeed("close", SAP_OK) /\ UNCHANGED sect
      /\ IF archive[id].state = "full" THEN UNCHANGED host ELSE Write(id, given[id], e)
  BY DEF sap_CloseArchive
<1>2. Closed \in [state : {"none", "empty", "filled", "full"},
                  format : Formats \cup {NoFormat}, ntracks : Nat,
                  path : Paths \cup {NoPath}]
  BY DEF Closed
<1>3. last'[2] = SAP_OK
  BY <1>1 DEF Succeed
<1>4. CASE archive[id].state = "full"
  <2>1. host' = host
    BY <1>1, <1>4
  <2>2. TypeOK'
    BY <1>1, <1>2, <1>3, <2>1 DEF TypeOK
  <2> QED
    BY <1>1, <1>4, <2>1, <2>2
<1>5. CASE archive[id].state # "full"
  <2>1. /\ archive[id].ntracks \in Nat /\ SAP_NTRACKS[f] \in Nat
        /\ archive[id].ntracks =< SAP_NTRACKS[f]
    BY <1>5, FormatNumbers DEF TypeOK
  <2>2. FirstMissing(id) \in Nat /\ NSectors(f) \in Nat /\ FirstMissing(id) =< NSectors(f)
    BY <2>1, Sectors DEF FirstMissing, NSectors
  <2>3. e \in Seq(Cell)
    BY <2>2, EmptySectorsSeq
  <2>4. host[p] \in HostFile /\ host[p].cells \in Seq(Cell)
    BY DEF TypeOK, HostFile
  <2>5. Write(id, given[id], e) /\ given[id] \in Nat
    BY <1>1, <1>5 DEF TypeOK
  <2> HIDE DEF e, f
  <2>6. Overwrite(host[p].cells, given[id], e) = host[p].cells \o e
    BY <1>5, <2>3, <2>4, OverwriteAtEnd
  <2>7. /\ host' \in [Paths -> HostFile] /\ host'[p].format = host[p].format
        /\ host'[p].cells = Overwrite(host[p].cells, given[id], e)
    BY <2>3, <2>5, WriteCells
  <2>8. TypeOK'
    BY <1>1, <1>2, <1>3, <2>7 DEF TypeOK
  <2>9. host'[p].cells = host[p].cells \o e /\ host'[p].format = host[p].format
    BY <2>6, <2>7
  <2> QED
    BY <1>1, <1>5, <2>8, <2>9 DEF e, f
<1> QED
  BY <1>4, <1>5

LEMMA FormattedCall ==
    ASSUME TypeOK, NEW id \in Ids, Open(id), archive[id].path \in Paths,
           archive[id].format \in Formats,
           sap_FormatArchive(id), last'[2] = SAP_OK
    PROVE  /\ TypeOK' /\ archive'[id].state = "full"
           /\ archive'[id].path = archive[id].path
           /\ archive'[id].format = archive[id].format
           /\ host'[archive[id].path].format = host[archive[id].path].format
           /\ \A j \in Ids \ {id} : archive'[j] = archive[j]
<1> DEFINE p == archive[id].path
           total == NSectors(archive[id].format)
           new == EmptySectors(0, total)
<1>1. SAP_OK # SAP_ERROR
  BY DEF SAP_OK, SAP_ERROR
<1>2. /\ Write(id, 0, new)
      /\ archive' = [archive EXCEPT ![id].state = "full",
                                    ![id].ntracks = SAP_NTRACKS[archive[id].format]]
      /\ Succeed("format", SAP_OK) /\ UNCHANGED <<sect, given>>
  BY <1>1 DEF sap_FormatArchive, Fail
<1>3. total \in Nat
  BY NSectorsNat
<1>4. new \in Seq(Cell)
  <2> HIDE DEF total
  <2>1. 0 =< total
    BY <1>3
  <2> QED
    BY <1>3, <2>1, EmptySectorsSeq
<1> HIDE DEF new
<1>7. host' \in [Paths -> HostFile] /\ host'[p].format = host[p].format
  BY <1>2, <1>4, WriteCells
<1>8. SAP_NTRACKS[archive[id].format] \in Nat
  BY FormatNumbers
<1>9. TypeOK'
  <2>1. archive' \in [Ids -> [state : {"none", "empty", "filled", "full"},
                              format : Formats \cup {NoFormat}, ntracks : Nat,
                              path : Paths \cup {NoPath}]]
    <3>1. archive[id] \in [state : {"none", "empty", "filled", "full"},
                           format : Formats \cup {NoFormat}, ntracks : Nat,
                           path : Paths \cup {NoPath}]
      BY DEF TypeOK
    <3>2. [archive[id] EXCEPT !.state = "full", !.ntracks = SAP_NTRACKS[archive[id].format]]
             \in [state : {"none", "empty", "filled", "full"},
                  format : Formats \cup {NoFormat}, ntracks : Nat,
                  path : Paths \cup {NoPath}]
      BY <1>8, <3>1
    <3>3. archive' = [archive EXCEPT ![id] =
             [archive[id] EXCEPT !.state = "full", !.ntracks = SAP_NTRACKS[archive[id].format]]]
      BY <1>2 DEF TypeOK
    <3> QED
      BY <3>2, <3>3 DEF TypeOK
  <2>2. last'[2] = SAP_OK /\ UNCHANGED <<sect, given>>
    BY <1>2 DEF Succeed
  <2> QED
    BY <1>7, <2>1, <2>2 DEF TypeOK
<1> QED
  BY <1>2, <1>7, <1>9 DEF TypeOK

-----------------------------------------------------------------------------
(***************************************************************************)
(* One turn of the loop of PackArchive.                                    *)
(***************************************************************************)
LEMMA AtNat ==
    ASSUME JobType
    PROVE  /\ At \in Nat /\ At \in TrackAt(job.track)
           /\ job.track * SAP_NSECTS \in Nat
           /\ LastSector => At + 1 = (job.track + 1) * SAP_NSECTS
           /\ At = 0 /\ job.track = 0 => job.sect = 1
<1>1. job.track \in Nat /\ job.sect \in 1 .. SAP_NSECTS
  BY DEF JobType
<1>2. /\ job.track * SAP_NSECTS \in Nat
      /\ (job.track + 1) * SAP_NSECTS = job.track * SAP_NSECTS + SAP_NSECTS
  BY <1>1, FirstSectors
<1>3. job.track = 0 => job.track * SAP_NSECTS = 0
  BY FormatNumbers
<1> QED
  BY <1>1, <1>2, <1>3, FormatNumbers DEF At, TrackAt, LastSector

LEMMA Filled ==
    ASSUME TypeOK, JobType, JobInv, ArchiveOfJob, PackInv,
           job.pc \in {"pack_fill", "pack_sector"},
           NEW data \in Payloads \cup {Filler},
           sap_FillArchive(job.id, [at |-> At, data |-> data])
    PROVE  LET a  == archive[job.id]
               aa == archive'[job.id]
           IN /\ TypeOK'
              /\ aa.path = a.path /\ aa.format = a.format
              /\ host'[job.path].format = host[job.path].format
              /\ \A j \in Ids \ {job.id} : archive'[j] = archive[j]
              /\ \/ a.state = "full" /\ aa = a /\ UNCHANGED host
                 \/ /\ a.state \in {"empty", "filled"} /\ given[job.id] = At
                    /\ job.track < SAP_NTRACKS[a.format]
                    /\ Len(host[job.path].cells) = At
                    /\ host'[job.path].cells
                          = Append(host[job.path].cells, [at |-> At, data |-> data])
                    /\ given'[job.id] = At + 1
                    /\ sect' = IF LastSector THEN 1 ELSE job.sect + 1
                    /\ aa.ntracks = IF LastSector THEN job.track + 1 ELSE job.track
                    /\ aa.state = IF LastSector /\ job.track + 1 = SAP_NTRACKS[a.format]
                                    THEN "full" ELSE "filled"
<1> DEFINE id == job.id
           p == job.path
           a == archive[id]
           c == [at |-> At, data |-> data]
           ended == TrackEnded(FillSect(id) + 1)
<1>1. /\ id \in Ids /\ p \in Paths /\ a.path = p /\ Open(id) /\ a.format \in Formats
      /\ job.op = "pack"
  BY DEF ArchiveOfJob, ArchivePcs, PackPcs, JobInv
<1>2. CASE a.state = "full"
  <2>1. Fail("fill", SAP_ERROR, "ENOSPC")
    BY <1>1, <1>2 DEF sap_FillArchive
  <2>2. TypeOK' /\ UNCHANGED <<host, archive, sect, given>>
    BY <2>1, CallFails
  <2> QED
    BY <1>1, <1>2, <2>2
<1>3. CASE a.state # "full"
  <2>1. a.state \in {"empty", "filled"}
    BY <1>1, <1>3 DEF TypeOK, Open
  <2>2. /\ c.at = given[id]
        /\ Write(id, given[id], <<c>>)
        /\ sect' = IF ended THEN 1 ELSE FillSect(id) + 1
        /\ archive' = [archive EXCEPT
                ![id].ntracks = IF ended THEN @ + 1 ELSE @,
                ![id].state = IF ended /\ a.ntracks + 1 = SAP_NTRACKS[a.format]
                                THEN "full" ELSE "filled"]
        /\ given' = [given EXCEPT ![id] = @ + 1]
        /\ Succeed("fill", SAP_OK)
    BY <1>1, <2>1 DEF sap_FillArchive, Fail, Open
  <2>3. /\ job.track \in Nat /\ job.sect \in 1 .. SAP_NSECTS /\ At \in Nat
        /\ SAP_NTRACKS[a.format] \in Nat \ {0} /\ SAP_NSECTS \in Nat \ {0}
    BY <1>1, AtNat, FormatNumbers DEF JobType
  <2>4. /\ a.ntracks = job.track /\ given[id] = At /\ FillSect(id) = job.sect
        /\ job.track < SAP_NTRACKS[a.format] /\ Len(host[p].cells) = At
    <3>1. CASE a.state = "empty"
      <4>1. /\ Len(host[p].cells) = 0 /\ a.ntracks = 0 /\ given[id] = 0
            /\ job.track = 0 /\ job.sect = 1
        BY <1>1, <3>1 DEF PackInv, ArchivePcs, PackPcs
      <4>2. At = 0
        BY <4>1, <2>3 DEF At
      <4> QED
        BY <3>1, <4>1, <4>2, <2>3 DEF FillSect
    <3>2. CASE a.state = "filled"
      BY <1>1, <3>2 DEF PackInv, ArchivePcs, PackPcs, FillSect
    <3> QED
      BY <2>1, <3>1, <3>2
  <2>5. ended <=> LastSector
    BY <2>3, <2>4 DEF TrackEnded, LastSector
  <2>6. host[p] \in HostFile /\ host[p].cells \in Seq(Cell) /\ c \in Cell
    BY <1>1, <2>3 DEF TypeOK, HostFile, Cell
  <2> HIDE DEF c
  <2>7. <<c>> \in Seq(Cell) /\ host[p].cells \o <<c>> = Append(host[p].cells, c)
    BY <2>6
  <2>8. SameFormat(id) /\ given[id] \in Nat
    BY <1>1, <2>3, <2>4 DEF ArchiveOfJob, ArchivePcs, PackPcs, SameFormat, FileOf
  <2>9. /\ host' \in [Paths -> HostFile] /\ host'[p].format = host[p].format
        /\ host'[p].cells = Overwrite(host[p].cells, given[id], <<c>>)
    BY <1>1, <2>2, <2>7, <2>8, WriteCells
  <2>10. host'[p].cells = Append(host[p].cells, c) /\ host'[p].format = host[p].format
    <3>1. Overwrite(host[p].cells, given[id], <<c>>) = host[p].cells \o <<c>>
      BY <2>4, <2>6, <2>7, OverwriteAtEnd
    <3> QED
      BY <2>7, <2>9, <3>1
  <2>11. sect' = IF LastSector THEN 1 ELSE job.sect + 1
    BY <2>2, <2>4, <2>5
  <2>12. sect' \in 0 .. SAP_NSECTS
    BY <2>3, <2>11 DEF LastSector
  <2>13. /\ archive'[id].ntracks = IF LastSector THEN job.track + 1 ELSE job.track
         /\ archive'[id].state = IF LastSector /\ job.track + 1 = SAP_NTRACKS[a.format]
                                    THEN "full" ELSE "filled"
         /\ archive'[id].path = p /\ archive'[id].format = a.format
         /\ given'[id] = At + 1
         /\ \A j \in Ids \ {id} : archive'[j] = archive[j]
    BY <1>1, <2>2, <2>4, <2>5 DEF TypeOK
  <2>14. TypeOK'
    <3>1. given' \in [Ids -> Nat]
      <4>1. given' = [given EXCEPT ![id] = @ + 1]
        BY <2>2
      <4> QED
        BY <1>1, <4>1 DEF TypeOK
    <3>2. archive' \in [Ids -> [state : {"none", "empty", "filled", "full"},
                                format : Formats \cup {NoFormat}, ntracks : Nat,
                                path : Paths \cup {NoPath}]]
      <4> DEFINE m == IF ended THEN a.ntracks + 1 ELSE a.ntracks
                 s == IF ended /\ a.ntracks + 1 = SAP_NTRACKS[a.format] THEN "full" ELSE "filled"
      <4>1. m \in Nat /\ s \in {"none", "empty", "filled", "full"}
        BY <2>3, <2>4
      <4>2. archive' = [archive EXCEPT ![id].ntracks = m, ![id].state = s]
        BY <1>1, <2>2 DEF TypeOK
      <4> HIDE DEF m, s
      <4> QED
        BY <1>1, <4>1, <4>2 DEF TypeOK
    <3>3. last'[2] = SAP_OK
      BY <2>2 DEF Succeed
    <3> QED
      BY <2>9, <2>12, <3>1, <3>2, <3>3 DEF TypeOK
  <2> QED
    BY <1>1, <2>1, <2>4, <2>10, <2>11, <2>13, <2>14 DEF c
<1> QED
  BY <1>2, <1>3

-----------------------------------------------------------------------------
(***************************************************************************)
(* What one command is bound by says nothing of the others.                *)
(***************************************************************************)
Promises == PackIsFaithful /\ UnpackIsFaithful /\ FormatIsComplete

LEMMA WhilePacking ==
    ASSUME job'.op = "pack", job'.pc \in ArchivePcs
    PROVE  UnpackInv' /\ FormatInv' /\ Promises'
BY DEF ArchivePcs, PackPcs, UnpackPcs, UnpackInv, FormatInv, Running, Promises,
       PackIsFaithful, UnpackIsFaithful, FormatIsComplete, Returned

LEMMA WhileUnpacking ==
    ASSUME JobType', JobInv', job'.op = "unpack", job'.pc \in ArchivePcs, UnpackInv'
    PROVE  PackInv' /\ BufferInv' /\ FormatInv' /\ Promises'
<1>1. PackInv' /\ BufferInv' /\ FormatInv'
  BY DEF ArchivePcs, PackPcs, UnpackPcs, PackInv, BufferInv, FormatInv, Running, JobInv
<1>2. PackIsFaithful' /\ FormatIsComplete'
  BY DEF PackIsFaithful, FormatIsComplete, Returned
<1>3. UnpackIsFaithful'
  <2> SUFFICES ASSUME NEW k \in DiskSectors
               PROVE  /\ k < (job.track * SAP_NSECTS)' /\ k < Len(host'[job'.path].cells)
                            => floppy'[k] = host'[job'.path].cells[k + 1].data
                      /\ k >= ((job.track + 1) * SAP_NSECTS)' => floppy'[k] = before'[k]
    <3>1. ~Returned("unpack")'
      BY DEF Returned, ArchivePcs, PackPcs, UnpackPcs
    <3> QED
      BY <3>1 DEF UnpackIsFaithful, DiskSectors
  <2>1. job'.track \in Nat /\ k \in Int
    BY DEF JobType, DiskSectors
  <2>2. job'.track * SAP_NSECTS \in Nat /\ (job'.track + 1) * SAP_NSECTS \in Nat
        /\ (job'.track + 1) * SAP_NSECTS = job'.track * SAP_NSECTS + SAP_NSECTS
    BY <2>1, FirstSectors
  <2> QED
    BY <2>1, <2>2, FormatNumbers DEF UnpackInv, DiskSectors, Running
<1> QED
  BY <1>1, <1>2, <1>3 DEF Promises

LEMMA WhileFormatting ==
    ASSUME job'.op = "format", job'.pc \in FormatPcs
    PROVE  /\ ArchiveOfJob' /\ PackInv' /\ BufferInv' /\ UnpackInv' /\ Promises'
BY DEF ArchivePcs, PackPcs, UnpackPcs, FormatPcs, ArchiveOfJob, PackInv, BufferInv, UnpackInv,
       Running, Promises, PackIsFaithful, UnpackIsFaithful, FormatIsComplete, Returned

\* Between commands, after one that did not return 0, and in the two commands
\* that use no disk.
LEMMA NothingPromised ==
    ASSUME \/ job'.op \in {"none", "create", "view", "crash"} /\ job'.pc \notin FormatPcs
                                                             /\ job'.pc \notin PackPcs
           \/ job'.pc = "idle" /\ job'.ret = 1
           \/ job'.pc = "idle" /\ job'.ret # 0 /\ job'.op # "unpack"
    PROVE  PackInv' /\ BufferInv' /\ UnpackInv' /\ FormatInv' /\ Promises'
BY DEF ArchivePcs, PackPcs, UnpackPcs, FormatPcs, PackInv, BufferInv, UnpackInv, FormatInv,
       Running, Promises, PackIsFaithful, UnpackIsFaithful, FormatIsComplete, Returned

\* The geometry of a command does not change while it runs.
LEMMA SameCommand ==
    ASSUME job'.is5 = job.is5, job'.density = job.density
    PROVE  /\ num_tracks' = num_tracks /\ Geometry' = Geometry
           /\ \A k : floppy'[k] = floppy[k] => OnDisk(k)' = OnDisk(k)
           /\ Format(job.density)' = Format(job.density)
BY DEF num_tracks, Geometry, OnDisk, Format

-----------------------------------------------------------------------------
LEMMA PackFillKeeps ==
    ASSUME Inv, job.pc \in {"pack_fill", "pack_sector"},
           NEW data \in Payloads \cup {Filler}, data \in {OnDisk(At), Unread},
           sap_FillArchive(job.id, [at |-> At, data |-> data]), PackNext,
           UNCHANGED <<floppy, before>>,
           buffer' \in [1 .. SAP_NSECTS -> Payloads \cup {Filler}],
           Running("pack_fill") => UNCHANGED buffer
    PROVE  Inv'
<1> DEFINE a == archive[job.id]
           aa == archive'[job.id]
           cells == host[job.path].cells
<1>1. /\ TypeOK /\ Sap2TypeOK /\ JobType /\ JobInv /\ TableOfJob /\ ArchiveOfJob
      /\ PackInv /\ BufferInv
  BY DEF Inv
<1>2. /\ job.op = "pack" /\ job.pc \in ArchivePcs /\ job.pc \in TrackPcs
      /\ job.ret = 0 /\ job.track < num_tracks /\ job.track \in Nat
      /\ job.sect \in 1 .. SAP_NSECTS
  BY <1>1 DEF JobInv, JobType, PackPcs, ArchivePcs, TrackPcs, Running
<1>3. /\ job'.op = "pack" /\ job'.path = job.path /\ job'.id = job.id
      /\ job'.is5 = job.is5 /\ job'.density = job.density /\ job'.try = 0 /\ job'.ret = 0
      /\ ~LastSector => job'.sect = job.sect + 1 /\ job'.track = job.track /\ job'.pc = job.pc
      /\ LastSector =>
            /\ job'.sect = 1 /\ job'.track = job.track + 1
            /\ job'.pc = IF job.track + 1 = num_tracks THEN "close" ELSE "pack_track"
  BY <1>1, <1>2 DEF PackNext, JobType
<1>4. job'.pc \in ArchivePcs
  BY <1>2, <1>3 DEF ArchivePcs, PackPcs
<1>5. /\ num_tracks' = num_tracks /\ Geometry' = Geometry
      /\ \A k : OnDisk(k)' = OnDisk(k)
      /\ Format(job.density)' = Format(job.density)
  BY <1>3, SameCommand
<1>6. job.track + 1 \in Nat /\ job.track + 1 =< num_tracks /\ num_tracks \in Nat
  BY <1>2, NumTracks
<1>7. job'.sect \in 1 .. SAP_NSECTS /\ job'.track \in Nat /\ job'.track =< num_tracks
  BY <1>2, <1>3, <1>6, FormatNumbers DEF LastSector
<1>8. JobType'
  <2>1. /\ job'.pc \in ArchivePcs \cup FormatPcs \cup {"idle"} /\ 0 \in 0 .. DISK_RETRY - 1
    BY <1>4, FormatNumbers
  <2>2. CASE ~LastSector
    <3>1. job' = [job EXCEPT !.sect = job.sect + 1, !.try = 0]
      BY <1>1, <2>2 DEF PackNext, JobType
    <3> QED
      BY <1>1, <1>3, <1>7, <2>1, <2>2, <3>1 DEF JobType
  <2>3. CASE LastSector
    <3>1. job' = [job EXCEPT !.sect = 1, !.track = job.track + 1, !.try = 0, !.pc = job'.pc]
      BY <1>1, <1>3, <2>3 DEF PackNext, JobType
    <3> HIDE DEF LastSector
    <3> QED
      BY <1>1, <1>3, <1>7, <2>1, <2>3, <3>1 DEF JobType
  <2> QED
    BY <2>2, <2>3
<1>9. JobInv'
  <2>1. CASE ~LastSector
    BY <1>1, <1>2, <1>3, <1>5, <2>1
       DEF JobInv, PackPcs, UnpackPcs, FormatPcs, TrackPcs, ArchivePcs, Running
  <2>2. CASE LastSector
    BY <1>2, <1>3, <1>5, <1>6, <2>2
       DEF JobInv, PackPcs, UnpackPcs, FormatPcs, TrackPcs, ArchivePcs, Running
  <2> QED
    BY <2>1, <2>2
<1>10. Sap2TypeOK'
  <2>1. job'.track =< SAP_NTRACKS[SAP_FORMAT1] /\ SAP_NTRACKS[SAP_FORMAT1] \in Nat
    BY <1>7, NumTracks, FormatNumbers
  <2> QED
    BY <1>1, <1>3, <1>7, <2>1, FormatNumbers DEF Sap2TypeOK
<1>11. /\ TypeOK'
       /\ aa.path = a.path /\ aa.format = a.format
       /\ host'[job.path].format = host[job.path].format
       /\ \A j \in Ids \ {job.id} : archive'[j] = archive[j]
       /\ \/ a.state = "full" /\ aa = a /\ UNCHANGED host
          \/ /\ a.state \in {"empty", "filled"} /\ given[job.id] = At
             /\ job.track < SAP_NTRACKS[a.format]
             /\ Len(cells) = At
             /\ host'[job.path].cells = Append(cells, [at |-> At, data |-> data])
             /\ given'[job.id] = At + 1
             /\ sect' = IF LastSector THEN 1 ELSE job.sect + 1
             /\ aa.ntracks = IF LastSector THEN job.track + 1 ELSE job.track
             /\ aa.state = IF LastSector /\ job.track + 1 = SAP_NTRACKS[a.format]
                             THEN "full" ELSE "filled"
  BY <1>1, Filled
<1>12. /\ job.id \in Ids /\ job.path \in Paths /\ Open(job.id) /\ a.path = job.path
       /\ a.format \in Formats /\ host[job.path].format = a.format
  BY <1>1, <1>2 DEF ArchiveOfJob
<1>13. TableOfJob'
  <2>1. job'.pc # "idle"
    BY <1>4 DEF ArchivePcs, PackPcs, UnpackPcs
  <2> QED
    BY <1>1, <1>2, <1>3, <1>11, <2>1 DEF TableOfJob, Running, ArchivePcs, PackPcs, UnpackPcs
<1>14. ArchiveOfJob'
  <2>1. Open(job.id)'
    BY <1>3, <1>11, <1>12 DEF Open
  <2>2. job'.pc # "create_format"
    BY <1>2, <1>3
  <2> QED
    BY <1>3, <1>11, <1>12, <2>1, <2>2 DEF ArchiveOfJob, Running
<1>15. PackInv'
  <2>1. /\ a.format = Format(job.density) /\ Labelled(cells) /\ cells \in Seq(Cell)
        /\ \A k \in 0 .. Len(cells) - 1 :
              k \in Geometry /\ cells[k + 1].data \in {OnDisk(k), Unread}
    BY <1>1, <1>2, <1>12 DEF PackInv, TypeOK, HostFile
  <2>2. CASE a.state = "full" /\ aa = a /\ UNCHANGED host
    <3>1. Len(cells) = NSectors(a.format)
      BY <1>1, <1>2, <2>2 DEF PackInv
    <3> QED
      BY <1>3, <1>5, <2>1, <2>2, <3>1 DEF PackInv
  <2>3. CASE a.state \in {"empty", "filled"}
    <3> DEFINE c == [at |-> At, data |-> data]
               new == host'[job.path].cells
    <3>1. /\ job.track < SAP_NTRACKS[a.format] /\ Len(cells) = At
          /\ new = Append(cells, c)
          /\ given'[job.id] = At + 1
          /\ sect' = IF LastSector THEN 1 ELSE job.sect + 1
          /\ aa.ntracks = IF LastSector THEN job.track + 1 ELSE job.track
          /\ aa.state = IF LastSector /\ job.track + 1 = SAP_NTRACKS[a.format]
                          THEN "full" ELSE "filled"
      BY <1>11, <2>3
    <3>2. At \in Nat /\ c \in Cell /\ c.at = At /\ c.data = data
      BY <1>1, AtNat DEF Cell
    <3> HIDE DEF c
    <3>3. Len(new) = At + 1 /\ Labelled(new)
      BY <2>1, <3>1, <3>2, LabelledAppend
    <3>4. At' = At + 1
      <4>1. At' = job'.track * SAP_NSECTS + job'.sect - 1
        BY DEF At
      <4>2. CASE ~LastSector
        <5>1. At = job.track * SAP_NSECTS + job.sect - 1 /\ job.track * SAP_NSECTS \in Nat
          BY <1>1, AtNat DEF At
        <5> QED
          BY SMTT(30), <1>2, <1>3, <4>1, <4>2, <5>1
      <4>3. CASE LastSector
        <5>1. At + 1 = (job.track + 1) * SAP_NSECTS /\ (job.track + 1) * SAP_NSECTS \in Nat
          BY <1>1, <1>2, <4>3, AtNat, FirstSectors
        <5> QED
          BY <1>3, <4>1, <4>3, <5>1
      <4> QED
        BY <4>2, <4>3
    <3>5. \A k \in 0 .. Len(new) - 1 :
              k \in Geometry /\ new[k + 1].data \in {OnDisk(k), Unread}
      <4> SUFFICES ASSUME NEW k \in 0 .. At
                   PROVE  k \in Geometry /\ new[k + 1].data \in {OnDisk(k), Unread}
        BY <3>2, <3>3
      <4>1. CASE k = At
        <5>1. new[k + 1] = c
          BY <2>1, <3>1, <3>2, <4>1
        <5>2. At \in Geometry
          BY <1>1, <1>2, AtNat, TrackOfDisk DEF TrackAt
        <5> QED
          BY <3>2, <4>1, <5>1, <5>2
      <4>2. CASE k # At
        <5>1. k \in 0 .. Len(cells) - 1 /\ k + 1 \in 1 .. Len(cells)
          BY <3>1, <3>2, <4>2
        <5>2. new[k + 1] = cells[k + 1]
          BY <2>1, <3>1, <3>2, <5>1
        <5> QED
          BY <2>1, <5>1, <5>2
      <4> QED
        BY <4>1, <4>2
    <3>6. \/ aa.state = "full" /\ Len(new) = NSectors(aa.format)
          \/ /\ aa.state = "filled" /\ Len(new) = At'
             /\ aa.ntracks = job'.track /\ given'[job.id] = At'
             /\ sect' = job'.sect /\ job'.track < SAP_NTRACKS[aa.format]
      <4>1. SAP_NTRACKS[a.format] \in Nat
        BY <1>12, FormatNumbers
      <4>2. CASE LastSector /\ job.track + 1 = SAP_NTRACKS[a.format]
        <5>1. At + 1 = (job.track + 1) * SAP_NSECTS
          BY <1>1, <4>2, AtNat
        <5> QED
          BY <1>11, <3>1, <3>3, <4>2, <5>1 DEF NSectors
      <4>3. CASE ~(LastSector /\ job.track + 1 = SAP_NTRACKS[a.format])
        BY SMTT(30), <1>2, <1>3, <1>11, <3>1, <3>3, <3>4, <4>1, <4>3
      <4> QED
        BY <4>2, <4>3
    <3> HIDE DEF new
    <3> QED
      BY <1>3, <1>5, <1>11, <2>1, <3>3, <3>5, <3>6 DEF PackInv, new
  <2> QED
    BY <1>11, <2>2, <2>3
<1>16. BufferInv'
  <2>1. job'.pc = "pack_fill" => job.pc = "pack_fill" /\ job'.track = job.track
    BY <1>3
  <2> QED
    BY <1>1, <2>1 DEF BufferInv, Running
<1>17. UnpackInv' /\ FormatInv' /\ Promises'
  BY <1>3, <1>4, WhilePacking
<1> QED
  BY <1>8, <1>9, <1>10, <1>11, <1>13, <1>14, <1>15, <1>16, <1>17 DEF Inv, Promises

\* What PackArchive passes to sap_FillArchive: the sector of the disk, or Unread.
LEMMA PackCalls ==
    ASSUME Inv, PackBuffered \/ PackSector
    PROVE  /\ job.pc \in {"pack_fill", "pack_sector"} /\ PackNext /\ UNCHANGED <<floppy, before>>
           /\ buffer' \in [1 .. SAP_NSECTS -> Payloads \cup {Filler}]
           /\ Running("pack_fill") => UNCHANGED buffer
           /\ \E data \in Payloads \cup {Filler} :
                 /\ data \in {OnDisk(At), Unread}
                 /\ sap_FillArchive(job.id, [at |-> At, data |-> data])
<1>1. Sap2TypeOK /\ JobType /\ JobInv /\ BufferInv
  BY DEF Inv
<1>2. ASSUME NEW data \in Payloads \cup {Filler}, data \in {floppy[At], Unread}
      PROVE  Packed(data) \in Payloads \cup {Filler} /\ Packed(data) \in {OnDisk(At), Unread}
  BY <1>2, Sap2Assumption DEF Packed, shrink_fat_160_to_80, OnDisk
<1>3. CASE PackBuffered
  <2> DEFINE data == buffer[job.sect]
  <2>1. /\ Running("pack_fill") /\ PackNext /\ UNCHANGED <<floppy, before, buffer>>
        /\ sap_FillArchive(job.id, [at |-> At, data |-> Packed(data)])
    BY <1>3 DEF PackBuffered, PackFill
  <2>2. /\ data \in Payloads \cup {Filler} /\ data = floppy[At]
        /\ buffer' \in [1 .. SAP_NSECTS -> Payloads \cup {Filler}]
    BY <1>1, <2>1 DEF BufferInv, JobType, Sap2TypeOK, At
  <2> QED
    BY <1>2, <2>1, <2>2 DEF Running
<1>4. CASE PackSector
  <2>1. Running("pack_sector") /\ job.pc = "pack_sector"
    BY <1>4 DEF PackSector, Running
  <2>2. CASE /\ floppy[At] # Bad /\ PackFill(floppy[At])
             /\ buffer' = [buffer EXCEPT ![1] = floppy[At]]
    <3>1. At \in DiskSectors
      <4>1. job.track \in Nat /\ job.track < num_tracks /\ At \in TrackAt(job.track)
        BY <1>1, <2>1, AtNat DEF JobType, JobInv, TrackPcs, PackPcs
      <4> QED
        BY <4>1, TrackOfDisk DEF TrackAt
    <3>2. floppy[At] \in Payloads \cup {Filler}
      BY <1>1, <2>2, <3>1 DEF Sap2TypeOK
    <3>3. buffer' \in [1 .. SAP_NSECTS -> Payloads \cup {Filler}]
      BY <1>1, <2>2, <3>2 DEF Sap2TypeOK
    <3> QED
      BY <1>2, <2>1, <2>2, <3>2, <3>3 DEF PackFill, Running
  <2>3. CASE PackFill(Illegible) /\ UNCHANGED buffer
    <3>1. Illegible \in Payloads \cup {Filler} /\ Illegible = Unread
      BY Sap2Assumption DEF Illegible
    <3>2. buffer' \in [1 .. SAP_NSECTS -> Payloads \cup {Filler}]
      BY <1>1, <2>3 DEF Sap2TypeOK
    <3> QED
      BY <1>2, <2>1, <2>3, <3>1, <3>2 DEF PackFill, Running
  <2> QED
    BY <1>4, <2>2, <2>3 DEF PackSector
<1> QED
  BY <1>3, <1>4

LEMMA PackSectorKeeps == Inv /\ (PackBuffered \/ PackSector) => Inv'
BY PackCalls, PackFillKeeps

-----------------------------------------------------------------------------
(***************************************************************************)
(* Steps that use libsap no more than to read.                             *)
(***************************************************************************)
\* A track is read, or not, or its sectors are tried one by one.
LEMMA PackMoves ==
    ASSUME Inv, job.pc \in PackPcs, NEW pc \in PackPcs, NEW try \in 0 .. DISK_RETRY - 1,
           job' = [job EXCEPT !.pc = pc, !.try = try], UNCHANGED <<avars, floppy, before>>,
           buffer' \in [1 .. SAP_NSECTS -> Payloads \cup {Filler}],
           pc = "pack_track" => job.pc = "pack_track",
           BufferInv'
    PROVE  Inv'
<1>1. /\ TypeOK /\ Sap2TypeOK /\ JobType /\ JobInv /\ TableOfJob /\ ArchiveOfJob /\ PackInv
  BY DEF Inv
<1>2. /\ job.op = "pack" /\ job.pc \in ArchivePcs /\ job.pc \in TrackPcs /\ job.ret = 0
      /\ pc \in ArchivePcs /\ pc \in TrackPcs /\ pc \notin {"idle", "close", "create_format"}
      /\ pc \notin UnpackPcs \cup FormatPcs
      /\ job.pc \notin {"idle", "close", "create_format"}
  BY <1>1 DEF JobInv, PackPcs, UnpackPcs, FormatPcs, ArchivePcs, TrackPcs, Running
<1>3. /\ job'.op = "pack" /\ job'.pc = pc /\ job'.path = job.path /\ job'.is5 = job.is5
      /\ job'.density = job.density /\ job'.id = job.id /\ job'.track = job.track
      /\ job'.sect = job.sect /\ job'.try = try /\ job'.ret = 0
  BY <1>1, <1>2 DEF JobType
<1>4. host' = host /\ archive' = archive /\ sect' = sect /\ given' = given /\ last' = last
  BY DEF avars
<1>5. /\ num_tracks' = num_tracks /\ Geometry' = Geometry
      /\ \A k : OnDisk(k)' = OnDisk(k)
      /\ Format(job.density)' = Format(job.density)
  BY <1>3, SameCommand
<1>6. JobType'
  BY <1>1, <1>2 DEF JobType
<1>7. JobInv'
  BY <1>1, <1>2, <1>3, <1>5 DEF JobInv, Running
<1>8. TypeOK' /\ Sap2TypeOK'
  BY <1>1, <1>3, <1>4 DEF TypeOK, Sap2TypeOK
<1>9. TableOfJob' /\ ArchiveOfJob'
  BY <1>1, <1>2, <1>3, <1>4 DEF TableOfJob, ArchiveOfJob, Running, Open
<1>10. PackInv'
  <2>1. At' = At
    BY <1>3 DEF At
  <2> QED
    BY <1>1, <1>2, <1>3, <1>4, <1>5, <2>1 DEF PackInv
<1>11. UnpackInv' /\ FormatInv' /\ Promises'
  BY <1>2, <1>3, WhilePacking
<1> QED
  BY <1>6, <1>7, <1>8, <1>9, <1>10, <1>11 DEF Inv, Promises

LEMMA PackTrackKeeps == Inv /\ (PackTrackRead \/ PackTrackError) => Inv'
<1> SUFFICES ASSUME Inv, PackTrackRead \/ PackTrackError PROVE Inv'
  OBVIOUS
<1>1. Running("pack_track") /\ job.pc \in PackPcs /\ 0 \in 0 .. DISK_RETRY - 1
  BY FormatNumbers DEF PackTrackRead, PackTrackError, PackPcs, Running
<1>2. Sap2TypeOK /\ JobType /\ JobInv
  BY DEF Inv
<1>3. CASE PackTrackRead
  <2>1. job.track \in Nat /\ job.track < num_tracks
    BY <1>1, <1>2 DEF JobType, JobInv, TrackPcs, PackPcs, Running
  <2>2. \A s \in 1 .. SAP_NSECTS :
           /\ job.track * SAP_NSECTS + s - 1 \in DiskSectors
           /\ floppy[job.track * SAP_NSECTS + s - 1] # Bad
    BY <1>3, <2>1, TrackOfDisk DEF PackTrackRead, TrackAt
  <2>3. buffer' \in [1 .. SAP_NSECTS -> Payloads \cup {Filler}]
    BY <1>2, <1>3, <2>2 DEF PackTrackRead, Sap2TypeOK
  <2>4. job' = [job EXCEPT !.pc = "pack_fill", !.try = 0] /\ UNCHANGED <<avars, floppy, before>>
    BY <1>3 DEF PackTrackRead, Goto
  <2>5. job'.track = job.track
    BY <1>2, <2>4 DEF JobType
  <2>6. BufferInv'
    BY <1>3, <2>2, <2>4, <2>5 DEF BufferInv, PackTrackRead
  <2> QED
    BY <1>1, <2>3, <2>4, <2>6, PackMoves DEF PackPcs
<1>4. CASE PackTrackError
  <2>1. job' = [job EXCEPT !.pc = "pack_sector", !.try = 0]
        /\ UNCHANGED <<avars, floppy, buffer, before>>
    BY <1>4 DEF PackTrackError, Goto
  <2>2. buffer' \in [1 .. SAP_NSECTS -> Payloads \cup {Filler}]
    BY <1>2, <2>1 DEF Sap2TypeOK
  <2>3. BufferInv'
    BY <1>2, <2>1 DEF BufferInv, Running, JobType
  <2> QED
    BY <1>1, <2>1, <2>2, <2>3, PackMoves DEF PackPcs
<1> QED
  BY <1>3, <1>4

\* A track of an archive is read, or written to the disk.
LEMMA UnpackMoves ==
    ASSUME Inv, job.pc \in UnpackPcs, NEW pc \in UnpackPcs \cup {"close"}, NEW t \in Nat,
           IF pc = "close" THEN t = num_tracks ELSE t < num_tracks,
           NEW try \in 0 .. DISK_RETRY - 1,
           job' = [job EXCEPT !.pc = pc, !.track = t, !.try = try],
           UNCHANGED <<avars, before>>,
           floppy' \in [DiskSectors -> DiskData],
           buffer' \in [1 .. SAP_NSECTS -> Payloads \cup {Filler}],
           UnpackInv'
    PROVE  Inv'
<1>1. TypeOK /\ Sap2TypeOK /\ JobType /\ JobInv /\ TableOfJob /\ ArchiveOfJob
  BY DEF Inv
<1>2. /\ job.op = "unpack" /\ job.pc \in ArchivePcs /\ job.ret = 0
      /\ pc \in ArchivePcs /\ pc \notin {"idle", "create_format"} \cup PackPcs \cup FormatPcs
      /\ job.pc \notin {"idle", "create_format"}
  BY <1>1 DEF JobInv, PackPcs, UnpackPcs, FormatPcs, ArchivePcs, Running
<1>3. /\ job'.op = "unpack" /\ job'.pc = pc /\ job'.path = job.path /\ job'.is5 = job.is5
      /\ job'.density = job.density /\ job'.id = job.id /\ job'.track = t
      /\ job'.sect = job.sect /\ job'.try = try /\ job'.ret = 0
  BY <1>1, <1>2 DEF JobType
<1>4. host' = host /\ archive' = archive /\ sect' = sect /\ given' = given /\ last' = last
  BY DEF avars
<1>5. num_tracks' = num_tracks /\ t =< num_tracks /\ t =< SAP_NTRACKS[SAP_FORMAT1]
  BY <1>3, SameCommand, NumTracks, FormatNumbers
<1>6. JobType'
  <2>1. pc \in ArchivePcs \cup FormatPcs \cup {"idle"}
    BY <1>2
  <2> QED
    BY <1>1, <2>1 DEF JobType
<1>7. JobInv'
  BY <1>2, <1>3, <1>5 DEF JobInv, Running, TrackPcs, PackPcs, UnpackPcs, FormatPcs
<1>8. TypeOK' /\ Sap2TypeOK'
  BY <1>1, <1>3, <1>4, <1>5, FormatNumbers, SMTT(30) DEF TypeOK, Sap2TypeOK, DiskData
<1>9. TableOfJob' /\ ArchiveOfJob'
  BY <1>1, <1>2, <1>3, <1>4 DEF TableOfJob, ArchiveOfJob, Running, Open
<1>10. PackInv' /\ BufferInv' /\ FormatInv' /\ Promises'
  BY <1>2, <1>3, <1>6, <1>7, WhileUnpacking
<1> QED
  BY <1>6, <1>7, <1>8, <1>9, <1>10 DEF Inv, Promises

LEMMA UnpackReadKeeps == Inv /\ UnpackRead => Inv'
<1> SUFFICES ASSUME Inv, UnpackRead PROVE Inv'
  OBVIOUS
<1> DEFINE cells == host[job.path].cells
           base == job.track * SAP_NSECTS
<1>1. TypeOK /\ Sap2TypeOK /\ JobType /\ JobInv /\ ArchiveOfJob /\ UnpackInv
  BY DEF Inv
<1>2. /\ job.pc = "unpack_read" /\ job.pc \in UnpackPcs /\ job.pc \in ArchivePcs
      /\ job.op = "unpack" /\ job.track \in Nat /\ job.track < num_tracks
      /\ 0 \in 0 .. DISK_RETRY - 1
  BY <1>1, FormatNumbers
     DEF UnpackRead, Running, UnpackPcs, ArchivePcs, JobInv, JobType, TrackPcs
<1>3. FileOf(job.id) = host[job.path] /\ cells \in Seq(Cell) /\ base \in Nat
  BY <1>1, <1>2, FirstSectors DEF ArchiveOfJob, FileOf, TypeOK, HostFile
<1>4. /\ job' = [job EXCEPT !.pc = "unpack_write", !.try = 0]
      /\ UNCHANGED <<avars, floppy, before>>
  BY DEF UnpackRead, Goto
<1>5. PICK rest \in Payloads :
         buffer' = [s \in 1 .. SAP_NSECTS |->
                       IF base + s =< Len(cells) THEN cells[base + s].data ELSE rest]
  BY <1>3 DEF UnpackRead
<1>6. \A s \in 1 .. SAP_NSECTS : base + s =< Len(cells) => cells[base + s] \in Cell
  <2> HIDE DEF base, cells
  <2> QED
    BY <1>3, FormatNumbers
<1>7. buffer' \in [1 .. SAP_NSECTS -> Payloads \cup {Filler}]
  BY <1>5, <1>6 DEF Cell
<1>8. job'.track = job.track /\ job'.path = job.path /\ host' = host
  BY <1>1, <1>4 DEF JobType, avars
<1>9. UnpackInv'
  <2>1. ASSUME NEW k \in DiskSectors
        PROVE  /\ k < base /\ k < Len(cells) => floppy[k] = cells[k + 1].data
               /\ k >= (job.track + 1) * SAP_NSECTS => floppy[k] = before[k]
    <3>1. /\ k < base /\ k < Len(cells) => floppy[k] = cells[k + 1].data
          /\ k >= base => floppy[k] = before[k]
      BY <1>1, <1>2 DEF UnpackInv, Running
    <3>2. k >= (job.track + 1) * SAP_NSECTS => k >= base
      BY <1>2, FirstSectors, FormatNumbers DEF DiskSectors
    <3> QED
      BY <3>1, <3>2
  <2>2. /\ job'.pc = "unpack_write" /\ host'[job'.path].cells = cells
        /\ floppy' = floppy /\ before' = before
    BY <1>1, <1>4, <1>8 DEF JobType
  <2>3. \A s \in 1 .. SAP_NSECTS :
           base + s =< Len(cells) => buffer'[s] = cells[base + s].data
    BY <1>5
  <2> QED
    BY <1>8, <2>1, <2>2, <2>3 DEF UnpackInv, DiskSectors, Running
<1>10. job' = [job EXCEPT !.pc = "unpack_write", !.track = job.track, !.try = 0]
  BY <1>1, <1>4 DEF JobType
<1>11. floppy' \in [DiskSectors -> DiskData] /\ UNCHANGED <<avars, before>>
  BY <1>1, <1>4 DEF Sap2TypeOK, DiskData
<1> QED
  BY <1>2, <1>7, <1>9, <1>10, <1>11, UnpackMoves DEF UnpackPcs

\* The track on the disk, in whole or in part.
LEMMA UnpackDisk ==
    ASSUME Inv, Running("unpack_write"), NEW j \in 0 .. Request[2], DoneInPart(j)
    PROVE  /\ floppy' \in [DiskSectors -> DiskData]
           /\ \A k \in DiskSectors :
                 /\ k < job.track * SAP_NSECTS \/ k >= (job.track + 1) * SAP_NSECTS
                       => floppy'[k] = floppy[k]
                 /\ j = Request[2] /\ k \in TrackAt(job.track)
                       => floppy'[k] = buffer[k - job.track * SAP_NSECTS + 1]
<1>1. Sap2TypeOK /\ JobType /\ JobInv /\ job.pc \in DiskPcs /\ job.track \in Nat
  BY DEF Inv, DiskPcs, Running, JobType
<1>2. Target = TrackAt(job.track)
  BY DEF Target, Running
<1>3. Request[1] = job.track * SAP_NSECTS /\ Request[2] = SAP_NSECTS /\ Request[3] = buffer
  BY Requests
<1>4. /\ floppy' \in [DiskSectors -> DiskData]
      /\ \A k \in DiskSectors \ Target : floppy'[k] = floppy[k]
      /\ \A k \in DiskSectors : k \in Request[1] .. Request[1] + j - 1 =>
            floppy'[k] = Request[3][k - Request[1] + 1]
  BY <1>1, DiskWritten
<1>5. \A k \in DiskSectors :
         k < job.track * SAP_NSECTS \/ k >= (job.track + 1) * SAP_NSECTS => k \notin Target
  <2> DEFINE base == job.track * SAP_NSECTS
             next == (job.track + 1) * SAP_NSECTS
  <2>1. Target = base .. next - 1 /\ DiskSectors \subseteq Int
    BY <1>2 DEF TrackAt, DiskSectors
  <2>2. base \in Nat /\ next \in Nat
    BY <1>1, FirstSectors
  <2> HIDE DEF base, next
  <2>3. \A k \in DiskSectors : k < base \/ k >= next => k \notin Target
    BY <2>1, <2>2
  <2> QED
    BY <2>3 DEF base, next
<1>6. j = Request[2] => TrackAt(job.track) = Request[1] .. Request[1] + j - 1
  BY <1>1, <1>2, RequestType
<1> QED
  BY <1>3, <1>4, <1>5, <1>6

LEMMA UnpackWriteKeeps == Inv /\ UnpackWrite => Inv'
<1> SUFFICES ASSUME Inv, UnpackWrite PROVE Inv'
  OBVIOUS
<1> DEFINE cells == host[job.path].cells
           t == job.track
           base == t * SAP_NSECTS
           next == (t + 1) * SAP_NSECTS
<1>1. TypeOK /\ Sap2TypeOK /\ JobType /\ JobInv /\ ArchiveOfJob /\ UnpackInv
  BY DEF Inv
<1>2. /\ Running("unpack_write") /\ job.pc \in UnpackPcs /\ job.pc \in ArchivePcs
      /\ job.op = "unpack" /\ t \in Nat /\ t < num_tracks /\ num_tracks \in Nat
      /\ 0 \in 0 .. DISK_RETRY - 1
  BY <1>1, FormatNumbers, NumTracks
     DEF UnpackWrite, Running, UnpackPcs, ArchivePcs, JobInv, JobType, TrackPcs
<1>3. base \in Nat /\ next \in Nat /\ next = base + SAP_NSECTS /\ SAP_NSECTS \in Nat \ {0}
  BY <1>2, FirstSectors, FormatNumbers
<1>4. /\ Request[2] \in 0 .. Request[2] /\ DoneInPart(Request[2])
  BY <1>2, Requests, FormatNumbers DEF UnpackWrite, WriteAnswered, DoneWhole, DoneInPart
<1>5. /\ floppy' \in [DiskSectors -> DiskData]
      /\ \A k \in DiskSectors :
            /\ k < base \/ k >= next => floppy'[k] = floppy[k]
            /\ k \in TrackAt(t) => floppy'[k] = buffer[k - base + 1]
  BY <1>2, <1>4, UnpackDisk
<1>6. cells \in Seq(Cell)
  BY <1>1, <1>2 DEF ArchiveOfJob, TypeOK, HostFile
<1>7. PICK pc \in UnpackPcs \cup {"close"} :
         /\ pc = IF t + 1 = num_tracks THEN "close" ELSE "unpack_read"
         /\ job' = [job EXCEPT !.pc = pc, !.track = t + 1, !.try = 0]
  BY <1>1 DEF UnpackWrite, UnpackPcs, JobType
<1>8. UNCHANGED <<avars, buffer, before>>
  BY DEF UnpackWrite
<1>9. job'.track = t + 1 /\ job'.pc = pc /\ host'[job'.path].cells = cells /\ before' = before
  BY <1>1, <1>7, <1>8 DEF JobType, avars
<1>10. UnpackInv'
  <2>1. \A k \in DiskSectors :
           /\ k < base /\ k < Len(cells) => floppy[k] = cells[k + 1].data
           /\ k >= next => floppy[k] = before[k]
    BY <1>1, <1>2 DEF UnpackInv
  <2>2. \A s \in 1 .. SAP_NSECTS : base + s =< Len(cells) => buffer[s] = cells[base + s].data
    BY <1>1, <1>2 DEF UnpackInv
  <2>3. ASSUME NEW k \in DiskSectors, k < next, k < Len(cells)
        PROVE  floppy'[k] = cells[k + 1].data
    <3>1. k \in Int
      BY DEF DiskSectors
    <3>2. CASE k < base
      BY <1>5, <2>1, <2>3, <3>2
    <3>3. CASE k >= base
      <4>1. k \in TrackAt(t) /\ floppy'[k] = buffer[k - base + 1]
        BY <1>3, <1>5, <2>3, <3>1, <3>3 DEF TrackAt
      <4> HIDE DEF base, next, cells
      <4>2. PICK s \in 1 .. SAP_NSECTS : s = k - base + 1 /\ base + s = k + 1
        BY <1>3, <2>3, <3>1, <3>3
      <4>3. base + s =< Len(cells)
        BY <1>3, <1>6, <2>3, <3>1, <4>2
      <4> QED
        BY <2>2, <4>1, <4>2, <4>3
    <3> QED
      BY <1>3, <3>1, <3>2, <3>3
  <2>4. ASSUME NEW k \in DiskSectors, k >= next
        PROVE  floppy'[k] = before[k]
    BY <1>5, <2>1, <2>4
  <2>5. pc # "unpack_write"
    BY <1>7
  <2> QED
    BY <1>9, <2>3, <2>4, <2>5 DEF UnpackInv, Running, DiskSectors
<1>11. buffer' \in [1 .. SAP_NSECTS -> Payloads \cup {Filler}]
  BY <1>1, <1>8 DEF Sap2TypeOK
<1>12. t + 1 \in Nat /\ IF pc = "close" THEN t + 1 = num_tracks ELSE t + 1 < num_tracks
  BY <1>2, <1>7
<1> QED
  BY <1>2, <1>5, <1>7, <1>8, <1>10, <1>11, <1>12, UnpackMoves

-----------------------------------------------------------------------------
(***************************************************************************)
(* Steps of FormatDisk.                                                    *)
(***************************************************************************)
LEMMA FormatMoves ==
    ASSUME Inv, job.pc \in FormatPcs, NEW pc \in FormatPcs, NEW t \in Nat, t =< num_tracks,
           pc = "format_track" => t < num_tracks,
           NEW try \in 0 .. DISK_RETRY - 1,
           job' = [job EXCEPT !.pc = pc, !.track = t, !.try = try],
           UNCHANGED <<avars, buffer, before>>,
           floppy' \in [DiskSectors -> DiskData],
           FormatInv'
    PROVE  Inv'
<1>1. TypeOK /\ Sap2TypeOK /\ JobType /\ JobInv /\ TableOfJob
  BY DEF Inv
<1>2. /\ job.op = "format" /\ job.id = 0 /\ job.ret = 0
      /\ pc \notin {"idle", "create_format", "close"} \cup PackPcs \cup UnpackPcs
      /\ job.pc # "idle"
  BY <1>1 DEF JobInv, PackPcs, UnpackPcs, FormatPcs, ArchivePcs, Running
<1>3. /\ job'.op = "format" /\ job'.pc = pc /\ job'.path = job.path /\ job'.is5 = job.is5
      /\ job'.density = job.density /\ job'.id = 0 /\ job'.track = t
      /\ job'.sect = job.sect /\ job'.try = try /\ job'.ret = 0
  BY <1>1, <1>2 DEF JobType
<1>4. host' = host /\ archive' = archive /\ sect' = sect /\ given' = given /\ last' = last
  BY DEF avars
<1>5. num_tracks' = num_tracks /\ t =< SAP_NTRACKS[SAP_FORMAT1]
  BY <1>3, SameCommand, NumTracks, FormatNumbers
<1>6. JobType'
  BY <1>1 DEF JobType
<1>7. JobInv'
  BY <1>2, <1>3, <1>5 DEF JobInv, Running, TrackPcs, PackPcs, UnpackPcs, FormatPcs
<1>8. TypeOK' /\ Sap2TypeOK'
  BY <1>1, <1>3, <1>4, <1>5, FormatNumbers DEF TypeOK, Sap2TypeOK, DiskData
<1>9. TableOfJob'
  BY <1>1, <1>2, <1>3, <1>4 DEF TableOfJob, Running
<1>10. ArchiveOfJob' /\ PackInv' /\ BufferInv' /\ UnpackInv' /\ Promises'
  BY <1>2, <1>3, WhileFormatting
<1> QED
  BY <1>6, <1>7, <1>8, <1>9, <1>10 DEF Inv, Promises

\* A command returns: it leaves closed the archive it worked on.
LEMMA Ended ==
    ASSUME Inv, ~Running("idle"), NEW r \in Nat, Exit(r), TypeOK',
           floppy' \in [DiskSectors -> DiskData],
           \A id \in Ids : archive'[id] = Closed \/ (id # job.id /\ archive'[id] = archive[id]),
           Promises'
    PROVE  Inv'
<1>1. Sap2TypeOK /\ JobType /\ JobInv /\ TableOfJob
  BY DEF Inv
<1>2. job' = [job EXCEPT !.pc = "idle", !.ret = r, !.try = 0] /\ buffer' = Blanks
  BY DEF Exit
<1>3. /\ job'.op = job.op /\ job'.pc = "idle" /\ job'.path = job.path /\ job'.is5 = job.is5
      /\ job'.density = job.density /\ job'.id = job.id /\ job'.track = job.track
      /\ job'.sect = job.sect /\ job'.try = 0 /\ job'.ret = r
  BY <1>1, <1>2 DEF JobType
<1>4. num_tracks' = num_tracks /\ 0 \in 0 .. DISK_RETRY - 1
  BY <1>3, SameCommand, FormatNumbers
<1>5. JobType'
  BY <1>1, <1>2, <1>4 DEF JobType
<1>6. JobInv'
  BY <1>1, <1>3, <1>4
     DEF JobInv, Running, TrackPcs, PackPcs, UnpackPcs, FormatPcs
<1>7. Sap2TypeOK'
  BY <1>1, <1>2, <1>3, <1>4, Sap2Assumption DEF Sap2TypeOK, DiskData, Blanks
<1>8. TableOfJob'
  BY <1>1, <1>3 DEF TableOfJob, Running
<1>9. ArchiveOfJob' /\ PackInv' /\ BufferInv' /\ UnpackInv' /\ FormatInv'
  BY <1>3 DEF ArchiveOfJob, PackInv, BufferInv, UnpackInv, FormatInv, Running, ArchivePcs,
              PackPcs, UnpackPcs
<1> QED
  BY <1>5, <1>6, <1>7, <1>8, <1>9 DEF Inv, Promises

LEMMA FormatTrackKeeps == Inv /\ FormatTrack => Inv'
<1> SUFFICES ASSUME Inv, FormatTrack PROVE Inv'
  OBVIOUS
<1> DEFINE t == job.track
           base == t * SAP_NSECTS
           next == (t + 1) * SAP_NSECTS
<1>1. TypeOK /\ Sap2TypeOK /\ JobType /\ JobInv /\ FormatInv
  BY DEF Inv
<1>2. /\ Running("format_track") /\ job.pc \in FormatPcs /\ job.pc \in DiskPcs
      /\ t \in Nat /\ t < num_tracks /\ num_tracks \in Nat
      /\ 0 \in 0 .. DISK_RETRY - 1
  BY <1>1, FormatNumbers, NumTracks
     DEF FormatTrack, Running, FormatPcs, DiskPcs, JobInv, JobType, TrackPcs
<1>3. base \in Nat /\ next \in Nat /\ next = base + SAP_NSECTS /\ SAP_NSECTS \in Nat \ {0}
  BY <1>2, FirstSectors, FormatNumbers
<1>4. /\ Request[1] = base /\ Request[3] = Fillers
      /\ Target = TrackAt(t) /\ TrackAt(t) = base .. next - 1
  BY <1>2, Requests DEF Target, Running, TrackAt
<1>5. /\ floppy' \in [DiskSectors -> DiskData]
      /\ \A k \in DiskSectors \ Target : floppy'[k] = floppy[k]
      /\ \A k \in DiskSectors \cap Target : floppy'[k] = Request[3][k - Request[1] + 1]
  BY <1>1, <1>2, DiskAllWritten DEF FormatTrack
<1>6. PICK pc \in FormatPcs :
         /\ pc = IF t + 1 = num_tracks THEN "fat_blank" ELSE "format_track"
         /\ job' = [job EXCEPT !.pc = pc, !.track = t + 1, !.try = 0]
  BY <1>1 DEF FormatTrack, FormatPcs, JobType
<1>7. UNCHANGED <<avars, buffer, before>>
  BY DEF FormatTrack
<1>8. /\ job'.track = t + 1 /\ job'.pc = pc /\ Geometry' = Geometry
      /\ num_tracks * SAP_NSECTS \in Nat
  BY <1>1, <1>6, SameCommand, NumTracks DEF JobType
<1>9. \A k \in Geometry : k \in DiskSectors /\ k \in Nat
  <2>1. num_tracks * SAP_NSECTS =< NSectors(SAP_FORMAT1) /\ NSectors(SAP_FORMAT1) \in Nat
    BY NumTracks
  <2> QED
    BY <1>8, <2>1 DEF Geometry, DiskSectors
<1>10. ASSUME NEW k \in Geometry, k < next
       PROVE  floppy'[k] = Filler
  <2>1. CASE k < base
    <3>1. k \notin Target
      BY <1>3, <1>4, <1>9, <2>1
    <3> QED
      BY <1>1, <1>2, <1>5, <1>9, <2>1, <3>1 DEF FormatInv
  <2>2. CASE k >= base
    <3>1. k \in Target /\ k - base + 1 \in 1 .. SAP_NSECTS
      <4>1. k \in Nat
        BY <1>9
      <4> HIDE DEF base, next
      <4> QED
        BY <1>3, <1>4, <1>10, <2>2, <4>1
    <3>2. Fillers[k - base + 1] = Filler
      BY <3>1 DEF Fillers
    <3> QED
      BY <1>4, <1>5, <1>9, <3>1, <3>2
  <2> QED
    BY <1>3, <1>9, <2>1, <2>2
<1>11. FormatInv'
  <2>1. CASE pc = "format_track"
    BY <1>8, <1>10, <2>1 DEF FormatInv, Running
  <2>2. CASE pc = "fat_blank"
    <3>1. next = num_tracks * SAP_NSECTS
      BY <1>6, <2>2
    <3>2. \A k \in Geometry : k < next
      BY <1>8, <3>1 DEF Geometry
    <3> QED
      BY <1>8, <1>10, <2>2, <3>2 DEF FormatInv, Running
  <2> QED
    BY <1>6, <2>1, <2>2
<1>12. t + 1 \in Nat /\ t + 1 =< num_tracks /\ (pc = "format_track" => t + 1 < num_tracks)
  BY <1>2, <1>6
<1> QED
  BY <1>2, <1>5, <1>6, <1>7, <1>11, <1>12, FormatMoves

LEMMA GeometryOnDisk == \A k \in Geometry : k \in DiskSectors /\ k \in Nat
<1>1. /\ num_tracks * SAP_NSECTS \in Nat
      /\ num_tracks * SAP_NSECTS =< NSectors(SAP_FORMAT1) /\ NSectors(SAP_FORMAT1) \in Nat
  BY NumTracks
<1> QED
  BY <1>1 DEF Geometry, DiskSectors

LEMMA FormatFatKeeps == Inv /\ FormatFat => Inv'
<1> SUFFICES ASSUME Inv, FormatFat PROVE Inv'
  OBVIOUS
<1>1. TypeOK /\ Sap2TypeOK /\ JobType /\ JobInv /\ FormatInv /\ TableOfJob
  BY DEF Inv
<1>2. /\ job.pc \in {"fat_blank", "fat"} /\ job.pc \in FormatPcs /\ job.pc \in DiskPcs
      /\ job.op = "format" /\ job.id = 0 /\ 0 \in 0 .. DISK_RETRY - 1
      /\ job.track \in Nat /\ job.track =< num_tracks
  BY <1>1, FormatNumbers DEF FormatFat, FormatPcs, DiskPcs, JobInv, JobType
<1>3. /\ floppy' \in [DiskSectors -> DiskData]
      /\ \A k \in DiskSectors \ Target : floppy'[k] = floppy[k]
      /\ \A k \in DiskSectors \cap Target : floppy'[k] = Request[3][k - Request[1] + 1]
  BY <1>1, <1>2, DiskAllWritten DEF FormatFat, WriteAnswered
<1>4. UNCHANGED <<avars, before>>
  BY DEF FormatFat
<1>5. FatTrack \in Nat /\ FatAt \in TrackAt(FatTrack) /\ FatAt \in Nat
  BY FatOfDisk, Sap2Assumption
<1>6. CASE Running("fat_blank")
  <2> DEFINE base == FatTrack * SAP_NSECTS
             next == (FatTrack + 1) * SAP_NSECTS
  <2>1. base \in Nat /\ next = base + SAP_NSECTS /\ SAP_NSECTS \in Nat \ {0}
    BY <1>5, FirstSectors, FormatNumbers
  <2>2. /\ Request[1] = base /\ Request[3] = Blanks
        /\ Target = TrackAt(FatTrack) /\ TrackAt(FatTrack) = base .. next - 1
    BY <1>6, Requests DEF Target, Running, TrackAt
  <2>3. job' = [job EXCEPT !.pc = "fat", !.track = job.track, !.try = 0] /\ UNCHANGED buffer
    BY <1>1, <1>6 DEF FormatFat, Goto, Running, JobType
  <2>4. job'.pc = "fat" /\ Geometry' = Geometry
    BY <1>1, <2>3, SameCommand DEF JobType
  <2>5. ASSUME NEW k \in Geometry
        PROVE  floppy'[k] = IF k \in TrackAt(FatTrack) THEN Blank ELSE Filler
    <3>1. CASE k \notin TrackAt(FatTrack)
      BY <1>1, <1>3, <1>6, <2>2, <3>1, GeometryOnDisk DEF FormatInv
    <3>2. CASE k \in TrackAt(FatTrack)
      <4>1. k - base + 1 \in 1 .. SAP_NSECTS
        <5>1. k \in base .. next - 1
          BY <2>2, <3>2
        <5> HIDE DEF base, next
        <5> QED
          BY <2>1, <5>1
      <4>2. Blanks[k - base + 1] = Blank
        BY <4>1 DEF Blanks
      <4> QED
        BY <1>3, <2>2, <3>2, <4>2, GeometryOnDisk
    <3> QED
      BY <3>1, <3>2
  <2>6. FormatInv'
    BY <2>4, <2>5 DEF FormatInv, Running, TrackAt
  <2> QED
    BY <1>2, <1>3, <1>4, <2>3, <2>6, FormatMoves DEF FormatPcs
<1>7. CASE Running("fat")
  <2>1. Exit(0)
    BY <1>7 DEF FormatFat
  <2>2. /\ job'.op = "format" /\ job'.pc = "idle" /\ job'.ret = 0 /\ Geometry' = Geometry
    BY <1>1, <1>2, <2>1, SameCommand DEF Exit, JobType
  <2>3. Request[1] = FatAt /\ Request[3] = <<Wide>> /\ Target = {FatAt}
    BY <1>7, Requests DEF Target, Running
  <2>4. ASSUME NEW k \in Geometry
        PROVE  floppy'[k] = IF k = FatAt THEN Wide
                            ELSE IF k \in TrackAt(FatTrack) THEN Blank ELSE Filler
    <3>1. CASE k = FatAt
      <4>1. floppy'[k] = Request[3][k - Request[1] + 1]
        BY <1>3, <2>3, <3>1, GeometryOnDisk
      <4>2. k - Request[1] + 1 = 1
        BY <1>5, <2>3, <3>1
      <4> QED
        BY <2>3, <3>1, <4>1, <4>2
    <3>2. CASE k # FatAt
      BY <1>1, <1>3, <1>7, <2>3, <3>2, GeometryOnDisk DEF FormatInv
    <3> QED
      BY <3>1, <3>2
  <2>5. FormatIsComplete'
    BY <2>2, <2>4 DEF FormatIsComplete, TrackAt
  <2>6. PackIsFaithful' /\ UnpackIsFaithful'
    BY <2>2 DEF PackIsFaithful, UnpackIsFaithful, Returned
  <2>7. TypeOK' /\ \A id \in Ids : id # job.id /\ archive'[id] = archive[id]
    BY <1>1, <1>2, <1>4 DEF TypeOK, avars, Ids
  <2> QED
    BY <1>3, <1>7, <2>1, <2>5, <2>6, <2>7, Ended DEF Promises, Running
<1> QED
  BY <1>2, <1>6, <1>7 DEF Running

LEMMA FormatErrorKeeps == Inv /\ FormatError => Inv'
<1> SUFFICES ASSUME Inv, FormatError PROVE Inv'
  OBVIOUS
<1>1. TypeOK /\ Sap2TypeOK /\ JobType /\ JobInv
  BY DEF Inv
<1>2. /\ job.pc \in FormatPcs /\ job.pc \in DiskPcs /\ ~Running("idle")
      /\ job.op = "format" /\ job.id = 0
  BY <1>1 DEF FormatError, FormatPcs, DiskPcs, JobInv, Running
<1>3. PICK j \in 0 .. Request[2] : DoneInPart(j)
  BY DEF FormatError
<1>4. floppy' \in [DiskSectors -> DiskData]
  BY <1>1, <1>2, <1>3, DiskWritten
<1>5. PICK r \in {1, 2} : Exit(r)
  BY DEF FormatError
<1>6. Promises'
  <2>1. job'.pc = "idle" /\ job'.ret # 0 /\ job'.op # "unpack"
    BY <1>1, <1>2, <1>5 DEF Exit, JobType
  <2> QED
    BY <2>1, NothingPromised
<1>7. TypeOK' /\ \A id \in Ids : id # job.id /\ archive'[id] = archive[id]
  BY <1>1, <1>2 DEF FormatError, TypeOK, avars, Ids
<1> QED
  BY <1>2, <1>4, <1>5, <1>6, <1>7, Ended

-----------------------------------------------------------------------------
(***************************************************************************)
(* The drive does not answer: what was written of the track is written     *)
(* again, or the command gives up.                                         *)
(***************************************************************************)
LEMMA NoAnswerKeeps == Inv /\ NoAnswer => Inv'
<1> SUFFICES ASSUME Inv, NoAnswer PROVE Inv'
  OBVIOUS
<1>1. TypeOK /\ Sap2TypeOK /\ JobType /\ JobInv /\ FormatInv /\ UnpackInv
  BY DEF Inv
<1>2. job.pc \in DiskPcs /\ UNCHANGED <<avars, buffer, before>>
  BY DEF NoAnswer
<1>3. NextTry \in 0 .. DISK_RETRY - 1 /\ job' = [job EXCEPT !.try = NextTry]
  BY <1>1, FormatNumbers DEF NoAnswer, NextTry, JobType
<1>4. PICK j \in 0 .. Request[2] : DoneInPart(j)
  BY DEF NoAnswer
<1>5. /\ floppy' \in [DiskSectors -> DiskData]
      /\ \A k \in DiskSectors \ Target : floppy'[k] = floppy[k]
  BY <1>1, <1>2, <1>4, DiskWritten
<1>6. /\ job'.op = job.op /\ job'.pc = job.pc /\ job'.path = job.path /\ job'.id = job.id
      /\ job'.track = job.track /\ job'.is5 = job.is5 /\ job'.density = job.density
      /\ host' = host /\ before' = before /\ buffer' = buffer
      /\ job.track \in Nat /\ job.track =< num_tracks
  BY <1>1, <1>2, <1>3 DEF JobType, JobInv, avars
<1>7. buffer' \in [1 .. SAP_NSECTS -> Payloads \cup {Filler}]
  BY <1>1, <1>6 DEF Sap2TypeOK
<1>8. CASE job.pc \in {"pack_track", "pack_sector"}
  <2>1. floppy' = floppy
    <3>1. Target = {}
      BY <1>8 DEF Target, Running
    <3> QED
      BY <1>1, <1>2, <1>4, <3>1, DiskKept
  <2>2. job' = [job EXCEPT !.pc = job.pc, !.try = NextTry]
    BY <1>1, <1>3 DEF JobType
  <2>3. BufferInv'
    BY <1>6, <1>8 DEF BufferInv, Running
  <2> QED
    BY <1>2, <1>3, <1>7, <1>8, <2>1, <2>2, <2>3, PackMoves DEF PackPcs
<1>9. CASE Running("unpack_write")
  <2>1. job.op = "unpack" /\ job.pc \in ArchivePcs /\ job.track < num_tracks
    BY <1>1, <1>9 DEF JobInv, UnpackPcs, ArchivePcs, TrackPcs, Running
  <2>2. \A k \in DiskSectors :
           k < job.track * SAP_NSECTS \/ k >= (job.track + 1) * SAP_NSECTS
               => floppy'[k] = floppy[k]
    BY <1>4, <1>9, UnpackDisk
  <2>3. UnpackInv'
    <3>1. Running("unpack_write")'
      BY <1>6, <1>9 DEF Running
    <3> QED
      BY <1>1, <1>6, <1>9, <2>1, <2>2, <3>1 DEF UnpackInv, DiskSectors
  <2>4. job' = [job EXCEPT !.pc = job.pc, !.track = job.track, !.try = NextTry]
    BY <1>1, <1>3 DEF JobType
  <2>5. /\ job.pc \in UnpackPcs /\ job.pc \in UnpackPcs \cup {"close"}
        /\ IF job.pc = "close" THEN job.track = num_tracks ELSE job.track < num_tracks
    BY <1>9, <2>1 DEF UnpackPcs, Running
  <2> QED
    BY <1>2, <1>3, <1>5, <1>6, <1>7, <2>3, <2>4, <2>5, UnpackMoves
<1>10. CASE job.pc \in FormatPcs
  <2>1. job' = [job EXCEPT !.pc = job.pc, !.track = job.track, !.try = NextTry]
    BY <1>1, <1>3 DEF JobType
  <2>2. Geometry' = Geometry
    BY <1>6, SameCommand
  <2>3. FormatInv'
    <3>1. CASE Running("format_track")
      <4>1. \A k \in Geometry : k < job.track * SAP_NSECTS => k \notin Target
        <5> DEFINE base == job.track * SAP_NSECTS
                   next == (job.track + 1) * SAP_NSECTS
        <5>1. Target = base .. next - 1
          BY <3>1 DEF Target, TrackAt, Running
        <5>2. base \in Nat /\ next \in Nat
          BY <1>6, FirstSectors
        <5> HIDE DEF base, next
        <5>3. \A k \in Geometry : k < base => k \notin Target
          BY <5>1, <5>2, GeometryOnDisk
        <5> QED
          BY <5>3 DEF base
      <4> QED
        BY <1>1, <1>5, <1>6, <2>2, <3>1, <4>1, GeometryOnDisk DEF FormatInv, Running
    <3>2. CASE Running("fat_blank")
      <4>1. Target = TrackAt(FatTrack)
        BY <3>2 DEF Target, Running
      <4>2. \A k \in Geometry : k \notin TrackAt(FatTrack) => floppy'[k] = Filler
        BY <1>1, <1>5, <3>2, <4>1, GeometryOnDisk DEF FormatInv
      <4> QED
        BY <1>6, <2>2, <3>2, <4>2 DEF FormatInv, Running, TrackAt
    <3>3. CASE Running("fat")
      <4>1. Target = {FatAt}
        BY <3>3 DEF Target, Running
      <4>2. \A k \in Geometry \ {FatAt} :
               floppy'[k] = IF k \in TrackAt(FatTrack) THEN Blank ELSE Filler
        BY <1>1, <1>5, <3>3, <4>1, GeometryOnDisk DEF FormatInv
      <4> QED
        BY <1>6, <2>2, <3>3, <4>2 DEF FormatInv, Running, TrackAt
    <3> QED
      BY <1>10, <3>1, <3>2, <3>3 DEF FormatPcs, Running
  <2>4. job.pc = "format_track" => job.track < num_tracks
    BY <1>1 DEF JobInv, TrackPcs
  <2> QED
    BY ZenonT(40), <1>2, <1>3, <1>5, <1>6, <1>10, <2>1, <2>3, <2>4, FormatMoves
<1> QED
  BY <1>2, <1>8, <1>9, <1>10 DEF DiskPcs, FormatPcs, Running

-----------------------------------------------------------------------------
(***************************************************************************)
(* The end of the commands that have an archive open.                      *)
(***************************************************************************)
LEMMA JobCloses ==
    ASSUME Inv, job.pc \in UnpackPcs \cup {"close"}, sap_CloseArchive(job.id)
    PROVE  LET a == archive[job.id] IN
           /\ TypeOK' /\ ~Running("idle")
           /\ a.path = job.path /\ a.format \in Formats /\ a.ntracks \in Nat
           /\ a.ntracks =< SAP_NTRACKS[a.format] \/ a.state = "full"
           /\ job.path \in Paths /\ host[job.path].format = a.format
           /\ \A id \in Ids :
                 archive'[id] = Closed \/ (id # job.id /\ archive'[id] = archive[id])
           /\ job.op # "pack" => a.state = "full"
           /\ a.state = "full" => UNCHANGED host
           /\ host'[job.path].format = a.format
           /\ a.state # "full" =>
                 host'[job.path].cells = host[job.path].cells
                     \o EmptySectors(FirstMissing(job.id), NSectors(a.format))
<1> DEFINE a == archive[job.id]
<1>1. TypeOK /\ JobType /\ JobInv /\ ArchiveOfJob /\ PackInv
  BY DEF Inv
<1>2. /\ job.pc \in ArchivePcs /\ job.pc \notin {"idle", "create_format"}
      /\ job.pc \notin PackPcs
  BY DEF UnpackPcs, ArchivePcs, PackPcs
<1>3. /\ job.id \in Ids /\ job.path \in Paths /\ Open(job.id) /\ a.path = job.path
      /\ a.format \in Formats /\ host[job.path].format = a.format
      /\ job.op # "pack" => a.state = "full"
  BY <1>1, <1>2 DEF ArchiveOfJob, Running
<1>4. a.ntracks \in Nat /\ SAP_NTRACKS[a.format] \in Nat
  BY <1>1, <1>3, FormatNumbers DEF TypeOK
<1>5. a.ntracks =< SAP_NTRACKS[a.format] \/ a.state = "full"
  <2>1. CASE job.op = "pack"
    <3>1. \/ a.state = "full"
          \/ a.ntracks = 0
          \/ a.ntracks = job.track /\ job.track < SAP_NTRACKS[a.format]
      BY <1>1, <1>2, <2>1 DEF PackInv
    <3> QED
      BY <1>4, <3>1
  <2> QED
    BY <1>3, <2>1
<1>8. SameFormat(job.id) /\ (a.state # "full" => Len(host[a.path].cells) = given[job.id])
  <2>1. SameFormat(job.id)
    BY <1>3 DEF SameFormat, FileOf
  <2>2. ASSUME a.state # "full"
        PROVE  Len(host[a.path].cells) = given[job.id]
    BY <1>1, <1>2, <1>3, <2>2 DEF PackInv
  <2> QED
    BY <2>1, <2>2
<1>6. /\ TypeOK' /\ archive' = [archive EXCEPT ![job.id] = Closed]
      /\ a.state = "full" => UNCHANGED host
      /\ host'[a.path].format = host[a.path].format
      /\ a.state # "full" =>
            host'[a.path].cells = host[a.path].cells
                \o EmptySectors(FirstMissing(job.id), NSectors(a.format))
  BY <1>1, <1>3, <1>5, <1>8, ClosedCall
<1>7. \A id \in Ids :
          archive'[id] = Closed \/ (id # job.id /\ archive'[id] = archive[id])
  BY <1>1, <1>6 DEF TypeOK
<1> QED
  BY <1>2, <1>3, <1>4, <1>5, <1>6, <1>7 DEF Running

LEMMA UnpackEnds ==
    ASSUME Inv, job.op = "unpack", job.pc \in {"unpack_write", "close"}, NEW r \in {0, 3},
           sap_CloseArchive(job.id), Exit(r), before' = before,
           floppy' \in [DiskSectors -> DiskData],
           \A k \in DiskSectors :
              /\ k < job.track * SAP_NSECTS => floppy'[k] = floppy[k]
              /\ k >= (job.track + 1) * SAP_NSECTS => floppy'[k] = floppy[k],
           r = 0 => floppy' = floppy /\ Running("close")
    PROVE  Inv'
<1> DEFINE cells == host[job.path].cells
           base == job.track * SAP_NSECTS
           next == (job.track + 1) * SAP_NSECTS
<1>1. TypeOK /\ JobType /\ JobInv /\ ArchiveOfJob /\ UnpackInv
  BY DEF Inv
<1>2. job.pc \in UnpackPcs \cup {"close"} /\ job.pc \in ArchivePcs
  BY DEF UnpackPcs, ArchivePcs
<1>3. /\ TypeOK' /\ ~Running("idle") /\ UNCHANGED host
      /\ \A id \in Ids :
            archive'[id] = Closed \/ (id # job.id /\ archive'[id] = archive[id])
  BY <1>2, JobCloses
<1>4. /\ job'.op = "unpack" /\ job'.pc = "idle" /\ job'.ret = r /\ job'.path = job.path
      /\ job'.track = job.track /\ Geometry' = Geometry
  BY <1>1, SameCommand DEF Exit, JobType
<1>5. base \in Nat /\ next \in Nat /\ next = base + SAP_NSECTS /\ SAP_NSECTS \in Nat
  BY <1>1, FirstSectors, FormatNumbers DEF JobType
<1>6. \A k \in DiskSectors : k \in Nat
  BY DEF DiskSectors
<1>7. \A k \in DiskSectors :
         /\ k < base /\ k < Len(cells) => floppy[k] = cells[k + 1].data
         /\ k >= next => floppy[k] = before[k]
         /\ Running("close") /\ k >= base => floppy[k] = before[k]
  <2>1. CASE Running("close")
    <3>1. \A k \in DiskSectors :
             /\ k < base /\ k < Len(cells) => floppy[k] = cells[k + 1].data
             /\ k >= base => floppy[k] = before[k]
      BY <1>1, <1>2, <2>1 DEF UnpackInv, Running
    <3> HIDE DEF base, next, cells
    <3> QED
      BY <1>5, <1>6, <3>1
  <2>2. CASE Running("unpack_write")
    BY <1>1, <1>2, <2>2 DEF UnpackInv, Running
  <2> QED
    BY <2>1, <2>2 DEF Running
<1>8. UnpackIsFaithful'
  <2>1. ASSUME NEW k \in DiskSectors, k < base, k < Len(cells)
        PROVE  floppy'[k] = cells[k + 1].data
    BY <1>7, <2>1
  <2>2. ASSUME NEW k \in DiskSectors, k >= next
        PROVE  floppy'[k] = before[k]
    BY <1>7, <2>2
  <2>3. ASSUME NEW k \in DiskSectors, r = 0, k \notin Geometry
        PROVE  floppy'[k] = before[k]
    <3>1. base = num_tracks * SAP_NSECTS
      BY <1>1, <2>3 DEF JobInv
    <3>2. k >= base
      BY <1>5, <1>6, <2>3, <3>1 DEF Geometry
    <3> QED
      BY <1>7, <2>3, <3>2
  <2>4. host'[job'.path].cells = cells /\ before' = before
    BY <1>3, <1>4
  <2> QED
    BY <1>4, <2>1, <2>2, <2>3, <2>4 DEF UnpackIsFaithful, Returned, DiskSectors
<1>9. PackIsFaithful' /\ FormatIsComplete'
  BY <1>4 DEF PackIsFaithful, FormatIsComplete, Returned
<1> QED
  BY <1>3, <1>8, <1>9, Ended DEF Promises

LEMMA UnpackWriteErrorKeeps == Inv /\ UnpackWriteError => Inv'
<1> SUFFICES ASSUME Inv, UnpackWriteError PROVE Inv'
  OBVIOUS
<1>1. Running("unpack_write") /\ job.pc = "unpack_write" /\ job.op = "unpack"
  BY DEF UnpackWriteError, Inv, JobInv, UnpackPcs, Running
<1>2. PICK j \in 0 .. Request[2] : DoneInPart(j)
  BY <1>1, Requests DEF UnpackWriteError
<1>3. /\ floppy' \in [DiskSectors -> DiskData]
      /\ \A k \in DiskSectors :
            k < job.track * SAP_NSECTS \/ k >= (job.track + 1) * SAP_NSECTS
                => floppy'[k] = floppy[k]
  BY <1>1, <1>2, UnpackDisk
<1>4. sap_CloseArchive(job.id) /\ Exit(3) /\ before' = before
  BY DEF UnpackWriteError
<1> QED
  BY <1>1, <1>3, <1>4, UnpackEnds

\* What PackArchive closes is a copy of the disk.
LEMMA PackEnds ==
    ASSUME Inv, Running("close"), job.op = "pack", sap_CloseArchive(job.id), Exit(0),
           UNCHANGED <<floppy, before>>
    PROVE  PackIsFaithful'
<1> DEFINE a == archive[job.id]
           cells == host[job.path].cells
           new == host'[job.path].cells
           total == NSectors(a.format)
<1>1. TypeOK /\ JobType /\ JobInv /\ PackInv
  BY DEF Inv
<1>2. job.pc = "close" /\ job.pc \in ArchivePcs /\ job.pc \in UnpackPcs \cup {"close"}
  BY DEF Running, ArchivePcs
<1>3. /\ a.path = job.path /\ a.format \in Formats /\ job.path \in Paths
      /\ a.state = "full" => UNCHANGED host
      /\ host'[job.path].format = a.format
      /\ a.state # "full" => new = cells \o EmptySectors(FirstMissing(job.id), total)
  BY <1>2, JobCloses
<1>4. /\ job'.path = job.path /\ job'.is5 = job.is5 /\ job'.density = job.density
      /\ Geometry' = Geometry
  BY <1>1, SameCommand DEF Exit, JobType
<1>5. /\ Labelled(cells) /\ cells \in Seq(Cell)
      /\ \A k \in 0 .. Len(cells) - 1 :
            k \in Geometry /\ cells[k + 1].data \in {OnDisk(k), Unread}
  BY <1>1, <1>2, <1>3 DEF PackInv, TypeOK, HostFile
<1>6. total \in Nat /\ job.track = num_tracks /\ job.sect = 1 /\ num_tracks \in Nat \ {0}
  BY <1>1, <1>3, NSectorsNat, NumTracks DEF JobInv, Running
<1>7. At = num_tracks * SAP_NSECTS /\ At \in Nat
  <2>1. At = job.track * SAP_NSECTS + job.sect - 1 /\ job.track * SAP_NSECTS \in Nat
    BY <1>1, AtNat DEF At
  <2> QED
    BY <1>6, <2>1
<1>8. /\ Len(new) = total /\ Labelled(new)
      /\ \A k \in 0 .. Len(new) - 1 :
            \/ k \in Geometry /\ new[k + 1].data \in {OnDisk(k), Unread}
            \/ k \notin Geometry /\ new[k + 1].data = Filler
  <2>1. CASE a.state = "full"
    <3>1. Len(cells) = total /\ new = cells
      BY <1>1, <1>2, <1>3, <2>1 DEF PackInv
    <3> HIDE DEF cells, new
    <3> QED
      BY <1>5, <3>1
  <2>2. CASE a.state # "full"
    <3> DEFINE e == EmptySectors(At, total)
    <3>1. /\ a.state = "filled" /\ Len(cells) = At /\ a.ntracks = job.track
          /\ job.track < SAP_NTRACKS[a.format]
      BY <1>1, <1>2, <1>6, <2>2 DEF PackInv
    <3>2. FirstMissing(job.id) = At
      BY <1>6, <1>7, <3>1 DEF FirstMissing
    <3>3. At =< total
      <4>1. SAP_NTRACKS[a.format] \in Nat /\ num_tracks =< SAP_NTRACKS[a.format]
        BY <1>3, <1>6, <3>1, FormatNumbers
      <4> QED
        BY <1>6, <1>7, <4>1, Sectors DEF NSectors
    <3>4. /\ e \in Seq(Cell) /\ Len(e) = total - At
          /\ \A k \in 1 .. total - At : e[k].at = At + k - 1
      <4> HIDE DEF total
      <4> QED
        BY <1>6, <1>7, <3>3, EmptySectorsSeq
    <3>5. \A k \in 1 .. total - At : e[k].data = Filler
      <4> HIDE DEF total
      <4> QED
        BY <1>6, <1>7 DEF EmptySectors
    <3>6. new = cells \o e
      BY <1>3, <2>2, <3>2
    <3> HIDE DEF cells, new, e, total
    <3>7. Len(new) = total /\ Labelled(new)
      <4>1. \A k \in 1 .. Len(e) : e[k].at = Len(cells) + k - 1
        BY <3>1, <3>4
      <4>2. Len(new) = Len(cells) + Len(e) /\ Labelled(new)
        BY <1>5, <3>4, <3>6, <4>1, LabelledConcat
      <4> QED
        BY <1>6, <1>7, <3>1, <3>4, <4>2
    <3>8. ASSUME NEW k \in 0 .. total - 1
          PROVE  \/ k \in Geometry /\ new[k + 1].data \in {OnDisk(k), Unread}
                 \/ k \notin Geometry /\ new[k + 1].data = Filler
      <4>1. CASE k < At
        <5>1. new[k + 1] = cells[k + 1] /\ k \in 0 .. Len(cells) - 1
          BY <1>5, <1>7, <3>1, <3>4, <3>6, <4>1
        <5> QED
          BY <1>5, <5>1
      <4>2. CASE k >= At
        <5>1. new[k + 1] = e[k + 1 - At] /\ k + 1 - At \in 1 .. total - At
          BY <1>5, <1>6, <1>7, <3>1, <3>4, <3>6, <4>2
        <5>2. k \notin Geometry
          BY <1>7, <4>2 DEF Geometry
        <5> QED
          BY <3>5, <5>1, <5>2
      <4> QED
        BY <1>7, <4>1, <4>2
    <3> QED
      BY <3>7, <3>8
  <2> QED
    BY <2>1, <2>2
<1>9. Complete(host[job.path])'
  BY <1>3, <1>4, <1>8 DEF Complete, Labelled
<1>10. \A k : OnDisk(k)' = OnDisk(k)
  BY <1>4, SameCommand
<1> HIDE DEF new
<1>11. host'[job'.path].cells = new
  BY <1>4 DEF new
<1> QED
  BY <1>4, <1>8, <1>9, <1>10, <1>11 DEF PackIsFaithful, OnDisk

LEMMA CloseKeeps == Inv /\ Close => Inv'
<1> SUFFICES ASSUME Inv, Close PROVE Inv'
  OBVIOUS
<1>1. /\ Running("close") /\ job.pc = "close" /\ sap_CloseArchive(job.id) /\ Exit(0)
      /\ UNCHANGED <<floppy, before>>
  BY DEF Close, Running
<1>2. Sap2TypeOK /\ JobType /\ JobInv /\ job.op \in {"pack", "unpack", "create", "view"}
  BY <1>1 DEF Inv, JobInv
<1>3. job'.op = job.op /\ job'.pc = "idle"
  BY <1>1, <1>2 DEF Exit, JobType
<1>4. floppy' \in [DiskSectors -> DiskData]
  BY <1>1, <1>2 DEF Sap2TypeOK, DiskData
<1>5. CASE job.op = "unpack"
  BY <1>1, <1>4, <1>5, UnpackEnds
<1>6. CASE job.op # "unpack"
  <2>1. Promises'
    <3>1. CASE job.op = "pack"
      <4>1. PackIsFaithful'
        BY <1>1, <3>1, PackEnds
      <4> QED
        BY <1>3, <3>1, <4>1 DEF Promises, UnpackIsFaithful, FormatIsComplete, Returned
    <3>2. CASE job.op \in {"create", "view"}
      BY <1>3, <3>2, NothingPromised DEF FormatPcs, PackPcs
    <3> QED
      BY <1>2, <1>6, <3>1, <3>2
  <2>2. /\ TypeOK' /\ ~Running("idle")
        /\ \A id \in Ids :
              archive'[id] = Closed \/ (id # job.id /\ archive'[id] = archive[id])
    BY <1>1, JobCloses DEF UnpackPcs
  <2> QED
    BY <1>1, <1>4, <2>1, <2>2, Ended
<1> QED
  BY <1>5, <1>6

LEMMA CreateFormatKeeps == Inv /\ CreateFormat => Inv'
<1> SUFFICES ASSUME Inv, CreateFormat PROVE Inv'
  OBVIOUS
<1>1. TypeOK /\ Sap2TypeOK /\ JobType /\ JobInv /\ TableOfJob /\ ArchiveOfJob
  BY DEF Inv
<1>2. /\ Running("create_format") /\ job.pc \in ArchivePcs /\ job.op = "create"
      /\ sap_FormatArchive(job.id) /\ last'[2] = SAP_OK
      /\ job' = [job EXCEPT !.pc = "close", !.try = 0]
      /\ UNCHANGED <<floppy, buffer, before>> /\ job.ret = 0 /\ job.pc # "idle"
  BY <1>1 DEF CreateFormat, Goto, JobInv, Running, ArchivePcs
<1>3. /\ job.id \in Ids /\ job.path \in Paths /\ Open(job.id)
      /\ archive[job.id].path = job.path /\ archive[job.id].format \in Formats
      /\ host[job.path].format = archive[job.id].format
  BY <1>1, <1>2 DEF ArchiveOfJob
<1>4. /\ TypeOK' /\ archive'[job.id].state = "full" /\ archive'[job.id].path = job.path
      /\ archive'[job.id].format = archive[job.id].format
      /\ host'[job.path].format = host[job.path].format
      /\ \A j \in Ids \ {job.id} : archive'[j] = archive[j]
  BY <1>1, <1>2, <1>3, FormattedCall
<1>5. /\ job'.op = "create" /\ job'.pc = "close" /\ job'.path = job.path /\ job'.is5 = job.is5
      /\ job'.density = job.density /\ job'.id = job.id /\ job'.track = job.track
      /\ job'.sect = job.sect /\ job'.try = 0 /\ job'.ret = 0
  BY <1>1, <1>2 DEF JobType
<1>6. num_tracks' = num_tracks /\ 0 \in 0 .. DISK_RETRY - 1
  BY <1>5, SameCommand, FormatNumbers
<1>7. JobType'
  BY <1>1, <1>2, <1>6, ZenonT(40) DEF JobType, ArchivePcs
<1>8. JobInv'
  BY <1>1, <1>5, <1>6 DEF JobInv, Running, TrackPcs, PackPcs, UnpackPcs, FormatPcs
<1>9. Sap2TypeOK'
  BY <1>1, <1>2, <1>5, <1>6 DEF Sap2TypeOK
<1>10. TableOfJob'
  BY <1>1, <1>2, <1>4, <1>5 DEF TableOfJob, Running
<1>11. ArchiveOfJob'
  BY <1>3, <1>4, <1>5 DEF ArchiveOfJob, Running, Open
<1>12. PackInv' /\ BufferInv' /\ UnpackInv' /\ FormatInv' /\ Promises'
  BY <1>5, NothingPromised DEF FormatPcs, PackPcs
<1> QED
  BY <1>4, <1>7, <1>8, <1>9, <1>10, <1>11, <1>12 DEF Inv, Promises

-----------------------------------------------------------------------------
(***************************************************************************)
(* The beginning of a command.                                             *)
(***************************************************************************)
LEMMA NewTracks == num_tracks' \in Nat \ {0}
  BY FormatNumbers DEF num_tracks

LEMMA Begins ==
    ASSUME Inv, Running("idle"),
           NEW op \in {"pack", "unpack", "create", "view", "format"},
           NEW pc \in ArchivePcs \cup {"format_track"},
           NEW p \in Paths \cup {NoPath}, NEW five \in BOOLEAN, NEW d \in {1, 2},
           NEW id \in Ids \cup {0}, Start(op, pc, p, five, d, id), TypeOK',
           <<op, pc>> \in {<<"pack", "pack_track">>, <<"unpack", "unpack_read">>,
                           <<"create", "create_format">>, <<"view", "close">>,
                           <<"format", "format_track">>},
           op = "format" <=> id = 0,
           \A j \in Ids \ {id} : archive'[j] = archive[j],
           id # 0 => /\ p \in Paths /\ ~Open(id)
                     /\ archive'[id].path = p /\ archive'[id].format \in Formats
                     /\ host'[p].format = archive'[id].format
                     /\ IF op \in {"pack", "create"}
                          THEN archive'[id].state = "empty" ELSE archive'[id].state = "full",
           op = "pack" => /\ archive'[id].format = Format(d) /\ archive'[id].ntracks = 0
                          /\ host'[p].cells = <<>> /\ given'[id] = 0
    PROVE  Inv'
<1>1. TypeOK /\ Sap2TypeOK /\ JobType /\ JobInv /\ TableOfJob
  BY DEF Inv
<1>2. /\ job'.op = op /\ job'.pc = pc /\ job'.path = p /\ job'.is5 = five
      /\ job'.density = d /\ job'.id = id /\ job'.track = 0
      /\ job'.sect = 1 /\ job'.try = 0 /\ job'.ret = 0
      /\ floppy' \in Disks /\ before' = floppy' /\ buffer' = buffer
  BY DEF Start, Idle, NewDisk
<1>3. SAP_NSECTS \in Nat \ {0} /\ 1 \in 1 .. SAP_NSECTS /\ 0 \in 0 .. DISK_RETRY - 1
  BY FormatNumbers
<1>4. JobType'
  <2>1. job' = [op |-> op, pc |-> pc, path |-> p, is5 |-> five, density |-> d,
                id |-> id, track |-> 0, sect |-> 1, try |-> 0, ret |-> 0]
    BY DEF Start, Idle
  <2>2. pc \in ArchivePcs \cup FormatPcs \cup {"idle"}
    BY DEF FormatPcs
  <2> QED
    BY <1>3, <2>1, <2>2 DEF JobType
<1>5. JobInv'
  BY <1>2, NewTracks DEF JobInv, Running, TrackPcs, PackPcs, UnpackPcs, FormatPcs
<1>6. Sap2TypeOK'
  BY <1>1, <1>2, <1>3, FormatNumbers, Sap2Assumption DEF Sap2TypeOK
<1>7. TableOfJob'
  BY <1>1, <1>2 DEF TableOfJob, Running
<1>8. ArchiveOfJob'
  BY <1>2 DEF ArchiveOfJob, Running, Open, ArchivePcs, PackPcs, UnpackPcs
<1>9. 0 * SAP_NSECTS = 0
  BY <1>3
<1>10. CASE op = "pack"
  <2>1. PackInv'
    <3>1. Len(<<>>) = 0 /\ Labelled(<<>>)
      BY DEF Labelled
    <3> QED
      BY <1>2, <1>10, <3>1 DEF PackInv, Format
  <2>2. BufferInv'
    BY <1>2, <1>10 DEF BufferInv, Running
  <2>3. UnpackInv' /\ FormatInv' /\ Promises'
    BY <1>2, <1>10, WhilePacking DEF ArchivePcs
  <2> QED
    BY <1>4, <1>5, <1>6, <1>7, <1>8, <2>1, <2>2, <2>3 DEF Inv, Promises
<1>11. CASE op = "unpack"
  <2>1. UnpackInv'
    <3>1. \A k \in DiskSectors : ~(k < 0)
      BY DEF DiskSectors
    <3> QED
      BY <1>2, <1>9, <1>11, <3>1 DEF UnpackInv, Running, DiskSectors
  <2>2. PackInv' /\ BufferInv' /\ FormatInv' /\ Promises'
    BY <1>2, <1>4, <1>5, <1>11, <2>1, WhileUnpacking DEF ArchivePcs
  <2> QED
    BY <1>4, <1>5, <1>6, <1>7, <1>8, <2>1, <2>2 DEF Inv, Promises
<1>12. CASE op \in {"create", "view"}
  <2>1. PackInv' /\ BufferInv' /\ UnpackInv' /\ FormatInv' /\ Promises'
    BY <1>2, <1>12, NothingPromised DEF FormatPcs, PackPcs
  <2> QED
    BY <1>4, <1>5, <1>6, <1>7, <1>8, <2>1 DEF Inv, Promises
<1>13. CASE op = "format"
  <2>1. FormatInv'
    <3>1. \A k \in Geometry' : ~(k < 0)
      BY DEF Geometry
    <3> QED
      BY <1>2, <1>9, <1>13, <3>1 DEF FormatInv, Running
  <2>2. PackInv' /\ BufferInv' /\ UnpackInv' /\ Promises'
    BY <1>2, <1>13, WhileFormatting DEF FormatPcs
  <2> QED
    BY <1>4, <1>5, <1>6, <1>7, <1>8, <2>1, <2>2 DEF Inv, Promises
<1> QED
  BY <1>10, <1>11, <1>12, <1>13

\* A command that returns an error at once; it may leave an archive open.
LEMMA Refused ==
    ASSUME Inv, Running("idle"), NEW op \in {"pack", "unpack", "create", "view"},
           NEW p \in Paths, NEW five \in BOOLEAN, NEW d \in {1, 2},
           Return(op, p, five, d, 1), TypeOK',
           \A id \in Ids : archive'[id] = archive[id] \/ archive'[id].state = "full"
    PROVE  Inv'
<1>1. TypeOK /\ Sap2TypeOK /\ JobType /\ JobInv /\ TableOfJob
  BY DEF Inv
<1>2. /\ job'.op = op /\ job'.pc = "idle" /\ job'.path = p /\ job'.is5 = five
      /\ job'.density = d /\ job'.id = 0 /\ job'.track = 0
      /\ job'.sect = 1 /\ job'.try = 0 /\ job'.ret = 1
      /\ floppy' \in Disks /\ before' = floppy' /\ buffer' = buffer
  BY DEF Return, Idle, NewDisk
<1>3. SAP_NSECTS \in Nat \ {0} /\ 1 \in 1 .. SAP_NSECTS /\ 0 \in 0 .. DISK_RETRY - 1
  BY FormatNumbers
<1>4. JobType'
  <2>1. job' = [op |-> op, pc |-> "idle", path |-> p, is5 |-> five, density |-> d,
                id |-> 0, track |-> 0, sect |-> 1, try |-> 0, ret |-> 1]
    BY DEF Return, Idle
  <2> QED
    BY <1>3, <2>1 DEF JobType
<1>5. JobInv'
  BY <1>2, NewTracks DEF JobInv, Running, TrackPcs, PackPcs, UnpackPcs, FormatPcs
<1>6. Sap2TypeOK'
  BY <1>1, <1>2, <1>3, FormatNumbers, Sap2Assumption DEF Sap2TypeOK
<1>7. TableOfJob'
  <2>1. 0 \notin Ids
    BY DEF Ids
  <2> QED
    BY <1>1, <1>2, <2>1 DEF TableOfJob, Running
<1>8. ArchiveOfJob'
  BY <1>2 DEF ArchiveOfJob, ArchivePcs, PackPcs, UnpackPcs
<1>9. PackInv' /\ BufferInv' /\ UnpackInv' /\ FormatInv' /\ Promises'
  BY <1>2, NothingPromised
<1> QED
  BY <1>4, <1>5, <1>6, <1>7, <1>8, <1>9 DEF Inv, Promises

LEMMA StartPackKeeps ==
    ASSUME Inv, NEW p \in Paths, NEW five \in BOOLEAN, NEW d \in {1, 2}, StartPack(p, five, d)
    PROVE  Inv'
<1>1. Running("idle") /\ sap_CreateArchive(p, Format(d)) /\ Format(d) \in Formats /\ TypeOK
  BY FormatNumbers DEF StartPack, Inv
<1>2. CASE last'[2] = SAP_ERROR
  <2>1. Return("pack", p, five, d, 1)
    BY <1>2 DEF StartPack
  <2>2. TypeOK' /\ UNCHANGED archive
    BY <1>1, <1>2, Created, Sap2Assumption
  <2> QED
    BY <1>1, <2>1, <2>2, Refused
<1>3. CASE last'[2] # SAP_ERROR
  <2>1. PICK id \in Ids : id = last'[2]
    BY <1>1, <1>3, Created
  <2>2. Start("pack", "pack_track", p, five, d, id)
    BY <1>3, <2>1 DEF StartPack
  <2>3. /\ TypeOK' /\ ~Open(id)
        /\ archive'[id].state = "empty" /\ archive'[id].path = p
        /\ archive'[id].format = Format(d) /\ archive'[id].ntracks = 0
        /\ given'[id] = 0
        /\ host'[p].format = Format(d) /\ host'[p].cells = <<>>
        /\ \A j \in Ids \ {id} : archive'[j] = archive[j]
    BY <1>1, <1>3, <2>1, Created
  <2>4. id # 0 /\ "pack_track" \in ArchivePcs \cup {"format_track"}
    BY DEF Ids, ArchivePcs, PackPcs
  <2> QED
    BY <1>1, <2>2, <2>3, <2>4, Begins
<1> QED
  BY <1>2, <1>3

LEMMA StartCreateKeeps ==
    ASSUME Inv, NEW p \in Paths, NEW d \in {1, 2}, StartCreate(p, d)
    PROVE  Inv'
<1>1. Running("idle") /\ sap_CreateArchive(p, Format(d)) /\ Format(d) \in Formats /\ TypeOK
  BY FormatNumbers DEF StartCreate, Inv
<1>2. CASE last'[2] = SAP_ERROR
  <2>1. Return("create", p, FALSE, d, 1)
    BY <1>2 DEF StartCreate
  <2>2. TypeOK' /\ UNCHANGED archive
    BY <1>1, <1>2, Created, Sap2Assumption
  <2> QED
    BY <1>1, <2>1, <2>2, Refused
<1>3. CASE last'[2] # SAP_ERROR
  <2>1. PICK id \in Ids : id = last'[2]
    BY <1>1, <1>3, Created
  <2>2. PICK five \in BOOLEAN : Start("create", "create_format", p, five, d, id)
    BY <1>3, <2>1 DEF StartCreate
  <2>3. /\ TypeOK' /\ ~Open(id)
        /\ archive'[id].state = "empty" /\ archive'[id].path = p
        /\ archive'[id].format = Format(d)
        /\ host'[p].format = Format(d)
        /\ \A j \in Ids \ {id} : archive'[j] = archive[j]
    BY <1>1, <1>3, <2>1, Created
  <2>4. id # 0 /\ "create_format" \in ArchivePcs \cup {"format_track"}
    BY DEF Ids, ArchivePcs
  <2> QED
    BY <1>1, <2>2, <2>3, <2>4, Begins
<1> QED
  BY <1>2, <1>3

\* The two commands that open an archive.
LEMMA OpenedKeeps ==
    ASSUME Inv, Running("idle"), NEW p \in Paths, NEW five \in BOOLEAN, NEW d \in {1, 2},
           sap_OpenArchive(p),
           NEW op, NEW pc, <<op, pc>> \in {<<"unpack", "unpack_read">>, <<"view", "close">>},
           \/ Return(op, p, five, d, 1)
           \/ last'[2] # SAP_ERROR /\ Start(op, pc, p, five, d, last'[2])
    PROVE  Inv'
<1>1. TypeOK /\ op \in {"unpack", "view"} /\ pc \in ArchivePcs
  BY DEF Inv, ArchivePcs, UnpackPcs
<1>2. CASE Return(op, p, five, d, 1)
  <2>1. TypeOK' /\ \A id \in Ids : archive'[id] = archive[id] \/ archive'[id].state = "full"
    BY <1>1, Opened
  <2> QED
    BY <1>1, <1>2, <2>1, Refused
<1>3. CASE last'[2] # SAP_ERROR /\ Start(op, pc, p, five, d, last'[2])
  <2>1. PICK id \in Ids : id = last'[2]
    BY <1>1, <1>3, Opened
  <2>2. /\ TypeOK' /\ UNCHANGED host /\ ~Open(id) /\ host[p].format \in Formats
        /\ archive'[id].state = "full" /\ archive'[id].path = p
        /\ archive'[id].format = host[p].format
        /\ \A j \in Ids \ {id} : archive'[j] = archive[j]
    BY <1>1, <1>3, <2>1, Opened
  <2>3. id # 0
    BY DEF Ids
  <2> QED
    BY <1>1, <1>3, <2>1, <2>2, <2>3, Begins
<1> QED
  BY <1>2, <1>3

LEMMA StartFormatKeeps ==
    ASSUME Inv, NEW five \in BOOLEAN, NEW d \in {1, 2}, StartFormat(five, d)
    PROVE  Inv'
<1>1. Running("idle") /\ Start("format", "format_track", NoPath, five, d, 0) /\ UNCHANGED avars
  BY DEF StartFormat
<1>2. TypeOK' /\ archive' = archive
  BY <1>1 DEF Inv, TypeOK, avars
<1> QED
  BY <1>1, <1>2, Begins

LEMMA CommandKeeps == Inv /\ Command => Inv'
<1> SUFFICES ASSUME Inv, NEW five \in BOOLEAN, NEW d \in {1, 2}, NEW p \in Paths,
                    \/ StartFormat(five, d) \/ StartPack(p, five, d)
                    \/ StartUnpack(p, five, d) \/ UnpackMismatch(p, five, d)
                    \/ StartCreate(p, d) \/ StartView(p)
             PROVE  Inv'
  BY StartFormatKeeps DEF Command
<1>1. CASE StartUnpack(p, five, d) \/ UnpackMismatch(p, five, d)
  <2>1. /\ Running("idle") /\ sap_OpenArchive(p)
        /\ \/ Return("unpack", p, five, d, 1)
           \/ /\ last'[2] # SAP_ERROR
              /\ Start("unpack", "unpack_read", p, five, d, last'[2])
    BY <1>1 DEF StartUnpack, UnpackMismatch
  <2> QED
    BY <2>1, OpenedKeeps
<1>2. CASE StartView(p)
  <2>1. /\ Running("idle") /\ sap_OpenArchive(p)
        /\ \/ Return("view", p, FALSE, 2, 1)
           \/ last'[2] # SAP_ERROR /\ Start("view", "close", p, FALSE, 2, last'[2])
    BY <1>2 DEF StartView
  <2>2. PICK no \in BOOLEAN :
           \/ Return("view", p, no, 2, 1)
           \/ last'[2] # SAP_ERROR /\ Start("view", "close", p, no, 2, last'[2])
    BY <2>1
  <2> QED
    BY <2>1, <2>2, OpenedKeeps
<1> QED
  BY <1>1, <1>2, StartFormatKeeps, StartPackKeeps, StartCreateKeeps

\* The program is stopped.
LEMMA CrashKeeps == Inv /\ Crash => Inv'
<1> SUFFICES ASSUME Inv, Crash PROVE Inv'
  OBVIOUS
<1>1. TypeOK /\ Sap2TypeOK /\ JobType /\ JobInv /\ ArchiveOfJob /\ TableOfJob
  BY DEF Inv
<1>2. /\ job'.op = "crash" /\ job'.pc = "idle" /\ job'.path = job.path /\ job'.track = 0
      /\ job'.sect = 1 /\ job'.try = 0 /\ job'.ret = 0
      /\ floppy' = floppy /\ buffer' = Blanks
      /\ archive' = [id \in Ids |-> Closed]
  BY DEF Crash, Idle
<1>3. SAP_NSECTS \in Nat \ {0} /\ 1 \in 1 .. SAP_NSECTS /\ 0 \in 0 .. DISK_RETRY - 1
  BY FormatNumbers
<1>4. JobType'
  <2>1. job' = [op |-> "crash", pc |-> "idle", path |-> job.path, is5 |-> FALSE, density |-> 2,
                id |-> 0, track |-> 0, sect |-> 1, try |-> 0, ret |-> 0]
    BY DEF Crash, Idle
  <2>2. job.path \in Paths \cup {NoPath}
    BY <1>1 DEF JobType
  <2> QED
    BY <1>3, <2>1, <2>2 DEF JobType
<1>5. JobInv'
  BY <1>2, NewTracks DEF JobInv, Running, TrackPcs, PackPcs, UnpackPcs, FormatPcs
<1>6. Sap2TypeOK'
  BY <1>1, <1>2, <1>3, FormatNumbers, Sap2Assumption DEF Sap2TypeOK, Blanks
<1>7. TableOfJob' /\ ArchiveOfJob'
  BY <1>2 DEF TableOfJob, ArchiveOfJob, ArchivePcs, PackPcs, UnpackPcs
<1>8. PackInv' /\ BufferInv' /\ UnpackInv' /\ FormatInv' /\ Promises'
  BY <1>2, NothingPromised DEF FormatPcs, PackPcs
<1>9. TypeOK'
  <2>1. host' \in [Paths -> HostFile]
    <3>1. CASE job.id \in Ids /\ archive[job.id].state \in {"empty", "filled"}
      <4>1. PICK n \in 0 .. Len(FileOf(job.id).cells) :
               host' = [host EXCEPT ![job.path].cells = SubSeq(@, 1, n)]
        BY <3>1 DEF Crash
      <4>2. archive[job.id] # Closed /\ archive[job.id].state # "full"
        BY <3>1 DEF Closed
      <4>3. ~Running("idle") /\ job.pc \in ArchivePcs
        BY <1>1, <3>1 DEF Crash, JobInv, JobType, FormatPcs, Running, Ids
      <4>4. job.path \in Paths /\ archive[job.id].path = job.path
        BY <1>1, <4>3 DEF ArchiveOfJob
      <4> DEFINE cells == host[job.path].cells
      <4>5. cells \in Seq(Cell) /\ n \in 0 .. Len(cells)
        BY <1>1, <4>1, <4>4 DEF TypeOK, HostFile, FileOf
      <4>6. host' = [host EXCEPT ![job.path].cells = SubSeq(cells, 1, n)]
        BY <1>1, <4>1, <4>4 DEF TypeOK
      <4> HIDE DEF cells
      <4>7. SubSeq(cells, 1, n) \in Seq(Cell)
        BY <4>5
      <4> QED
        BY <1>1, <4>4, <4>6, <4>7, TypeCells
    <3>2. CASE ~(job.id \in Ids /\ archive[job.id].state \in {"empty", "filled"})
      BY <1>1, <3>2 DEF Crash, TypeOK
    <3> QED
      BY <3>1, <3>2
  <2>2. /\ archive' \in [Ids -> [state : {"none", "empty", "filled", "full"},
                                 format : Formats \cup {NoFormat}, ntracks : Nat,
                                 path : Paths \cup {NoPath}]]
        /\ given' \in [Ids -> Nat] /\ last'[2] = SAP_OK
    BY <1>2 DEF Crash, Closed
  <2>3. sect' \in 0 .. SAP_NSECTS
    BY <1>3 DEF Crash
  <2> QED
    BY <2>1, <2>2, <2>3 DEF TypeOK
<1> QED
  BY <1>4, <1>5, <1>6, <1>7, <1>8, <1>9 DEF Inv, Promises

LEMMA InvStutter == Inv /\ UNCHANGED vars => Inv'
<1> SUFFICES ASSUME Inv, UNCHANGED vars PROVE Inv'
  OBVIOUS
<1>1. /\ UNCHANGED <<host, archive, sect, given, last, floppy, buffer, job, before>>
      /\ num_tracks' = num_tracks /\ Geometry' = Geometry /\ At' = At
      /\ \A k : OnDisk(k)' = OnDisk(k)
  BY DEF vars, avars, num_tracks, Geometry, At, OnDisk
<1>2. TypeOK' /\ Sap2TypeOK' /\ JobType' /\ JobInv' /\ TableOfJob' /\ ArchiveOfJob'
  BY <1>1 DEF Inv, TypeOK, Sap2TypeOK, JobType, JobInv, TableOfJob, ArchiveOfJob, Running, Open
<1>3. PackInv' /\ BufferInv'
  BY <1>1 DEF Inv, PackInv, BufferInv, Running
<1>4. UnpackInv' /\ FormatInv'
  BY <1>1 DEF Inv, UnpackInv, FormatInv, Running, TrackAt
<1>5. PackIsFaithful' /\ UnpackIsFaithful' /\ FormatIsComplete'
  BY <1>1 DEF Inv, PackIsFaithful, UnpackIsFaithful, FormatIsComplete, Returned, TrackAt, Complete
<1> QED
  BY <1>2, <1>3, <1>4, <1>5 DEF Inv

LEMMA InvInit == Sap2Init => Inv
<1> SUFFICES ASSUME Sap2Init PROVE Inv
  OBVIOUS
<1>1. /\ job = [op |-> "none", pc |-> "idle", path |-> NoPath, is5 |-> FALSE, density |-> 2,
                id |-> 0, track |-> 0, sect |-> 1, try |-> 0, ret |-> 0]
      /\ floppy \in Disks /\ buffer = Blanks /\ archive = [id \in Ids |-> Closed]
  BY DEF Sap2Init, Idle, ArchivesInit, Init
<1>2. SAP_NSECTS \in Nat \ {0} /\ 1 \in 1 .. SAP_NSECTS /\ 0 \in 0 .. DISK_RETRY - 1
  BY FormatNumbers
<1>3. TypeOK
  BY TypeInit DEF Sap2Init, ArchivesInit, TypeInv
<1>4. JobType
  BY <1>1, <1>2 DEF JobType
<1>5. JobInv
  BY <1>1, NumTracks DEF JobInv, Running, TrackPcs, PackPcs, UnpackPcs, FormatPcs
<1>6. Sap2TypeOK
  BY <1>1, <1>2, FormatNumbers, Sap2Assumption DEF Sap2TypeOK, Blanks
<1>7. TableOfJob /\ ArchiveOfJob
  BY <1>1 DEF TableOfJob, ArchiveOfJob, ArchivePcs, PackPcs, UnpackPcs
<1>8. PackInv /\ BufferInv /\ UnpackInv /\ FormatInv
  BY <1>1 DEF PackInv, BufferInv, UnpackInv, FormatInv, Running, ArchivePcs, PackPcs, UnpackPcs
<1>9. PackIsFaithful /\ UnpackIsFaithful /\ FormatIsComplete
  BY <1>1 DEF PackIsFaithful, UnpackIsFaithful, FormatIsComplete, Returned
<1> QED
  BY <1>3, <1>4, <1>5, <1>6, <1>7, <1>8, <1>9 DEF Inv

LEMMA InvNext == Inv /\ [Sap2Next]_vars => Inv'
<1> SUFFICES ASSUME Inv, [Sap2Next]_vars PROVE Inv'
  OBVIOUS
<1>1. CASE Step
  BY <1>1, NoAnswerKeeps, PackTrackKeeps, PackSectorKeeps,
     UnpackReadKeeps, UnpackWriteKeeps, UnpackWriteErrorKeeps, CloseKeeps, CreateFormatKeeps,
     FormatTrackKeeps, FormatFatKeeps, FormatErrorKeeps DEF Step
<1>2. CASE Command
  BY <1>2, CommandKeeps
<1>3. CASE Crash
  BY <1>3, CrashKeeps
<1>4. CASE UNCHANGED vars
  BY <1>4, InvStutter
<1> QED
  BY <1>1, <1>2, <1>3, <1>4 DEF Sap2Next

LEMMA Invariant == Sap2Spec => []Inv
BY InvInit, InvNext, PTL DEF Sap2Spec

-----------------------------------------------------------------------------
(***************************************************************************)
(* Results.                                                                *)
(***************************************************************************)
\* The drive, the buffer and the loops of every command stay in their ranges.
THEOREM CommandTypes == Sap2Spec => []Sap2TypeOK
<1>1. Inv => Sap2TypeOK
  BY DEF Inv
<1> QED
  BY <1>1, Invariant, PTL

\* PackArchive returns 0 only with a complete copy of the disk in the archive,
\* whatever the drive did not answer or could not read on the way.
THEOREM PackedAsPromised == Sap2Spec => []PackIsFaithful
<1>1. Inv => PackIsFaithful
  BY DEF Inv
<1> QED
  BY <1>1, Invariant, PTL

\* UnpackArchive writes the tracks of the archive in their places and touches
\* no other, also when it gives up.
THEOREM UnpackedAsPromised == Sap2Spec => []UnpackIsFaithful
<1>1. Inv => UnpackIsFaithful
  BY DEF Inv
<1> QED
  BY <1>1, Invariant, PTL

\* FormatDisk returns 0 only for a disk that is empty and readable throughout.
THEOREM FormattedAsPromised == Sap2Spec => []FormatIsComplete
<1>1. Inv => FormatIsComplete
  BY DEF Inv
<1> QED
  BY <1>1, Invariant, PTL

\* A step ends a command, stops the program, or leaves a command running.
LEMMA EndingSteps ==
    ASSUME Inv, [Sap2Next]_vars, job.pc # "idle", job'.pc = "idle", job'.op # "crash"
    PROVE  Close \/ UnpackWriteError \/ FormatFat \/ FormatError
<1>1. JobType
  BY DEF Inv
<1>2. CASE NoAnswer \/ UNCHANGED vars
  <2>1. job'.pc = job.pc
    BY <1>1, <1>2 DEF NoAnswer, JobType, vars
  <2> QED
    BY <2>1
<1>3. CASE PackTrackRead \/ PackTrackError \/ UnpackRead \/ CreateFormat
  BY <1>1, <1>3 DEF PackTrackRead, PackTrackError, UnpackRead, CreateFormat, Goto, JobType
<1>4. CASE PackBuffered \/ PackSector
  <2>1. job'.pc \in {job.pc, "close", "pack_track"}
    BY <1>1, <1>4 DEF PackBuffered, PackSector, PackFill, PackNext, JobType
  <2> QED
    BY <2>1
<1>5. CASE UnpackWrite \/ FormatTrack
  BY <1>1, <1>5 DEF UnpackWrite, FormatTrack, JobType
<1>6. CASE Command
  BY <1>6 DEF Command, StartFormat, StartPack, StartUnpack, UnpackMismatch, StartCreate,
              StartView, Running
<1>7. CASE Crash
  BY <1>7 DEF Crash, Idle
<1> QED
  BY <1>2, <1>3, <1>4, <1>5, <1>6, <1>7 DEF Sap2Next, Step

\* Whichever way a command ends, the archive it began on is closed, and none is
\* but that one.
THEOREM EveryExitCloses == Sap2Spec => EndClosesArchive
<1> DEFINE A == job.pc # "idle" /\ job'.pc = "idle" /\ job'.op # "crash" =>
                    \A id \in Ids : Open(id)' <=> id \in Forgotten
<1>1. Inv /\ [Sap2Next]_vars => A
  <2> SUFFICES ASSUME Inv, [Sap2Next]_vars,
                      job.pc # "idle", job'.pc = "idle", job'.op # "crash"
               PROVE  \A id \in Ids : Open(id)' <=> id \in Forgotten
    OBVIOUS
  <2>1. TypeOK /\ JobType /\ JobInv
    BY DEF Inv
  <2>2. CASE Close \/ UnpackWriteError
    <3>1. job.pc \in UnpackPcs \cup {"close"} /\ sap_CloseArchive(job.id)
      BY <2>2 DEF Close, UnpackWriteError, UnpackPcs, Running
    <3>2. \A id \in Ids :
              archive'[id] = Closed \/ (id # job.id /\ archive'[id] = archive[id])
      BY <3>1, JobCloses
    <3>3. job.id \in Ids /\ Open(job.id)
      BY <3>1 DEF Inv, ArchiveOfJob, ArchivePcs
    <3>4. archive' = [archive EXCEPT ![job.id] = Closed]
      BY <3>1, <3>3 DEF sap_CloseArchive
    <3> QED
      BY <2>1, <3>4 DEF TypeOK, Open, Closed, Forgotten
  <2>3. CASE FormatFat \/ FormatError
    <3>1. job.pc \in FormatPcs /\ archive' = archive
      BY <2>3 DEF FormatFat, FormatError, FormatPcs, avars
    <3>2. job.id \notin Ids
      BY <2>1, <3>1 DEF JobInv, Ids
    <3> QED
      BY <3>1, <3>2 DEF Open, Forgotten
  <2> QED
    BY <2>2, <2>3, EndingSteps
<1>2. Sap2Spec => [][A]_vars
  BY <1>1, Invariant, PTL DEF Sap2Spec
<1> QED
  BY <1>2 DEF EndClosesArchive

\* With none forgotten, no archive is open but that of the command.
LEMMA OnlyTheJobs ==
    ASSUME Inv, Forgotten = {}
    PROVE  /\ \A id \in Ids \ {job.id} : archive[id] = Closed
           /\ Running("idle") => \A id \in Ids : archive[id] = Closed
BY DEF Inv, TableOfJob, Forgotten, Open

\* An archive that is the only one open shares its file with none.
LEMMA Alone ==
    ASSUME NEW id, \A other \in Ids \ {id} : archive'[other] = Closed,
           id \in Ids => archive'[id] = Closed \/ archive'[id].path \in Paths
    PROVE  SharedIsFull'
<1> SUFFICES ASSUME NEW i \in Ids, NEW j \in Ids, Open(i)', i # j,
                    archive'[i].path = archive'[j].path
             PROVE  FALSE
  BY DEF SharedIsFull
<1>1. i = id /\ archive'[j] = Closed
  BY DEF Open, Closed
<1>2. archive'[i].path \in Paths /\ archive'[j].path = NoPath
  BY <1>1 DEF Open, Closed
<1> QED
  BY <1>2, ArchiveAssumption

\* While a command runs no other archive is being filled.
LEMMA OnlyOneFilled ==
    ASSUME Inv, ~Running("idle"), NEW id \in Ids, archive[id].state = "filled"
    PROVE  /\ id = job.id /\ job.op = "pack" /\ given[id] = At /\ job.pc \in ArchivePcs
           /\ \A other \in Ids \ {id} : archive[other].state # "filled"
<1>1. TableOfJob /\ JobType /\ JobInv /\ ArchiveOfJob /\ PackInv
  BY DEF Inv
<1>2. \A j \in Ids : archive[j].state = "filled" => j = job.id
  BY <1>1 DEF TableOfJob, Closed
<1>3. job.pc \in ArchivePcs
  BY <1>1, <1>2 DEF JobInv, JobType, FormatPcs, Running, Ids
<1>4. job.op = "pack"
  BY <1>1, <1>2, <1>3 DEF ArchiveOfJob
<1> QED
  BY <1>1, <1>2, <1>3, <1>4 DEF PackInv

LEMMA SerialUse ==
    ASSUME Inv, [Sap2Next]_vars, Forgotten = {}, job'.op # "crash"
    PROVE  (Next /\ Serial) \/ UNCHANGED avars
<1>1. TypeOK /\ JobType /\ JobInv /\ ArchiveOfJob /\ PackInv
  BY DEF Inv
<1>2. ASSUME job.pc \in {"pack_fill", "pack_sector"}, NEW data \in Payloads \cup {Filler},
             sap_FillArchive(job.id, [at |-> At, data |-> data])
      PROVE  Next /\ Serial
  <2>1. /\ job.id \in Ids /\ Open(job.id) /\ ~Running("idle")
        /\ \/ archive[job.id].state = "full"
           \/ archive[job.id].state \in {"empty", "filled"} /\ given[job.id] = At
    <3>1. job.id \in Ids /\ Open(job.id) /\ ~Running("idle")
      BY <1>1, <1>2 DEF ArchiveOfJob, ArchivePcs, PackPcs, Running
    <3>2. \/ archive[job.id].state = "full"
          \/ archive[job.id].state \in {"empty", "filled"} /\ given[job.id] = At
      BY <1>1, <1>2, Filled
    <3> QED
      BY <3>1, <3>2
  <2>2. sap_FillArchive(job.id, [at |-> given[job.id], data |-> data])
    BY <1>2, <2>1 DEF sap_FillArchive
  <2>3. Fill(job.id)
    BY <2>2 DEF Fill
  <2>5. SharedIsFull'
    <3>1. /\ archive'[job.id].path = job.path /\ job.path \in Paths
          /\ \A j \in Ids \ {job.id} : archive'[j] = archive[j]
      BY <1>1, <1>2, Filled DEF ArchiveOfJob, ArchivePcs, PackPcs
    <3>2. \A j \in Ids \ {job.id} : archive'[j] = Closed
      BY <3>1, OnlyTheJobs
    <3> QED
      BY <3>1, <3>2, Alone
  <2>4. OneAtATime /\ ClosedAtTracks
    <3> SUFFICES ASSUME NEW id \in Ids, archive[id].state = "filled"
                 PROVE  /\ \A other \in Ids \ {id} : archive'[other].state # "filled"
                        /\ archive'[id].state = "none" => given[id] % SAP_NSECTS = 0
      BY DEF OneAtATime, ClosedAtTracks
    <3>1. id = job.id /\ \A other \in Ids \ {id} : archive[other].state # "filled"
      BY <2>1, OnlyOneFilled
    <3>2. /\ \A j \in Ids \ {id} : archive'[j] = archive[j]
          /\ archive'[id].state # "none"
      BY <1>1, <1>2, <3>1, Filled
    <3> QED
      BY <3>1, <3>2
  <2> QED
    BY <2>1, <2>3, <2>4, <2>5 DEF Next, Serial
<1>3. CASE PackBuffered \/ PackSector
  BY <1>2, <1>3, PackCalls
<1>4. CASE Close \/ UnpackWriteError
  <2>1. /\ job.pc \in UnpackPcs \cup {"close"} /\ job.pc \in ArchivePcs /\ ~Running("idle")
        /\ job.pc # "create_format" /\ sap_CloseArchive(job.id)
    BY <1>4 DEF Close, UnpackWriteError, UnpackPcs, ArchivePcs, Running
  <2>2. job.id \in Ids /\ Open(job.id)
    BY <1>1, <2>1 DEF ArchiveOfJob
  <2>3. archive' = [archive EXCEPT ![job.id] = Closed]
    BY <2>1, <2>2 DEF sap_CloseArchive
  <2>5. SharedIsFull'
    <3>1. \A j \in Ids : archive'[j] = Closed
      BY <1>1, <2>3, OnlyTheJobs DEF TypeOK
    <3> QED
      BY <3>1, Alone
  <2>4. OneAtATime /\ ClosedAtTracks
    <3> SUFFICES ASSUME NEW id \in Ids, archive[id].state = "filled"
                 PROVE  /\ \A other \in Ids \ {id} : archive'[other].state # "filled"
                        /\ given[id] % SAP_NSECTS = 0
      BY DEF OneAtATime, ClosedAtTracks
    <3>1. /\ id = job.id /\ job.op = "pack" /\ given[id] = At
          /\ \A other \in Ids \ {id} : archive[other].state # "filled"
      BY <2>1, OnlyOneFilled
    <3>2. \A other \in Ids \ {id} : archive'[other].state # "filled"
      BY <1>1, <2>3, <3>1 DEF TypeOK
    <3>3. job.pc = "close" /\ job.sect = 1 /\ job.track \in Nat
      BY <1>1, <2>1, <3>1 DEF JobInv, JobType
    <3>4. At = job.track * SAP_NSECTS
      <4>1. At = job.track * SAP_NSECTS + job.sect - 1 /\ job.track * SAP_NSECTS \in Nat
        BY <1>1, AtNat DEF At
      <4> QED
        BY <3>3, <4>1
    <3> QED
      BY <3>1, <3>2, <3>3, <3>4, TrackMultiple
  <2> QED
    BY <2>1, <2>2, <2>4, <2>5 DEF Next, Serial
<1>5. CASE CreateFormat
  <2>1. /\ Running("create_format") /\ job.pc \in ArchivePcs /\ ~Running("idle")
        /\ sap_FormatArchive(job.id) /\ last'[2] = SAP_OK
    BY <1>5 DEF CreateFormat, ArchivePcs, Running
  <2>2. /\ job.id \in Ids /\ job.op = "create" /\ Open(job.id)
        /\ archive[job.id].path = job.path /\ job.path \in Paths
        /\ archive[job.id].format \in Formats
    BY <1>1, <2>1 DEF ArchiveOfJob, JobInv
  <2>3. OneAtATime /\ ClosedAtTracks
    BY <2>1, <2>2, OnlyOneFilled DEF OneAtATime, ClosedAtTracks
  <2>4. /\ archive'[job.id].path = job.path
        /\ \A j \in Ids \ {job.id} : archive'[j] = archive[j]
    BY <1>1, <2>1, <2>2, FormattedCall
  <2>5. \A j \in Ids \ {job.id} : archive'[j] = Closed
    BY <2>4, OnlyTheJobs
  <2>6. SharedIsFull'
    BY <2>2, <2>4, <2>5, Alone
  <2> QED
    BY <2>1, <2>2, <2>3, <2>6 DEF Next, Serial
<1>6. CASE Command
  <2>1. ASSUME NEW five, NEW d, StartFormat(five, d)
        PROVE  UNCHANGED avars
    BY <2>1 DEF StartFormat
  <2>2. ASSUME NEW five, NEW d, NEW p \in Paths,
               \/ StartPack(p, five, d) \/ StartUnpack(p, five, d)
               \/ UnpackMismatch(p, five, d) \/ StartCreate(p, d) \/ StartView(p)
        PROVE  Next /\ Serial
    <3>1. /\ Running("idle")
          /\ sap_OpenArchive(p) \/ sap_CreateArchive(p, Format(d))
      BY <2>2 DEF StartPack, StartUnpack, UnpackMismatch, StartCreate, StartView
    <3>2. Format(d) \in Formats /\ \A id \in Ids : archive[id] = Closed
      BY <3>1, OnlyTheJobs, FormatNumbers
    <3>3. OneAtATime /\ ClosedAtTracks
      BY <3>2 DEF OneAtATime, ClosedAtTracks, Closed
    <3>4. SharedIsFull'
      <4>1. \/ archive' = archive
            \/ /\ archive'[last'[2]].path = p
               /\ \A j \in Ids \ {last'[2]} : archive'[j] = archive[j]
        <5>1. CASE sap_OpenArchive(p)
          BY <1>1, <5>1, Opened
        <5>2. CASE sap_CreateArchive(p, Format(d))
          BY <1>1, <3>2, <5>2, Created
        <5> QED
          BY <3>1, <5>1, <5>2
      <4>2. CASE archive' = archive
        BY <3>2, <4>2, Alone
      <4>3. CASE /\ archive'[last'[2]].path = p
                 /\ \A j \in Ids \ {last'[2]} : archive'[j] = archive[j]
        <5>1. \A j \in Ids \ {last'[2]} : archive'[j] = Closed
          BY <3>2, <4>3
        <5> QED
          BY <4>3, <5>1, Alone
      <4> QED
        BY <4>1, <4>2, <4>3
    <3> QED
      BY <3>1, <3>2, <3>3, <3>4 DEF Next, Serial
  <2> QED
    BY <1>6, <2>1, <2>2 DEF Command
<1>7. CASE Crash
  BY <1>7 DEF Crash, Idle
<1>8. CASE NoAnswer \/ PackTrackRead \/ PackTrackError \/ UnpackRead \/ UnpackWrite
          \/ FormatTrack \/ FormatFat \/ FormatError \/ UNCHANGED vars
  BY <1>8 DEF NoAnswer, PackTrackRead, PackTrackError, UnpackRead, UnpackWrite, FormatTrack,
              FormatFat, FormatError, vars
<1> QED
  BY <1>3, <1>4, <1>5, <1>6, <1>7, <1>8 DEF Sap2Next, Step

\* sap2 fills one archive at a time, by whole tracks, each sector in its place,
\* whatever the disk: what SerialSpec of SapArchive asks of a program, as long as
\* no archive of the wrong format was left open and the program is not stopped.
THEOREM FillsSerially == Sap2Spec => UsesLibsapSerially
<1> DEFINE A == Forgotten = {} /\ job'.op # "crash" => Next /\ Serial
<1>1. Inv /\ [Sap2Next]_vars => [A]_avars
  BY SerialUse
<1>2. Sap2Spec => [][A]_avars
  BY <1>1, Invariant, PTL DEF Sap2Spec
<1> QED
  BY <1>2 DEF UsesLibsapSerially

\* So, as long as the program is not stopped and leaves no archive open, the
\* archives of sap2 are those of SerialSpec, and what is proved of these holds:
\* one that is FULL, or that no command works on, has every sector in its place.
THEOREM ArchivesOfSap2 ==
    Sap2Spec /\ [](Forgotten = {}) /\ [][job'.op # "crash"]_vars
        => SerialSpec /\ [](FullIsComplete /\ ClosedIsComplete)
<1> DEFINE A == Forgotten = {} /\ job'.op # "crash" => Next /\ Serial
           B == job'.op # "crash"
           C == Next /\ Serial
<1>1. Forgotten = {} /\ [A]_avars /\ [B]_vars => [C]_avars
  BY DEF vars
<1>2. Sap2Spec => [][A]_avars
  BY FillsSerially DEF UsesLibsapSerially
<1>3. Sap2Init => ArchivesInit
  BY DEF Sap2Init
<1>4. Sap2Spec /\ [](Forgotten = {}) /\ [][B]_vars => ArchivesInit /\ [][C]_avars
  BY <1>1, <1>2, <1>3, PTL DEF Sap2Spec
<1>5. Sap2Spec /\ [](Forgotten = {}) /\ [][B]_vars => SerialSpec
  BY <1>4 DEF SerialSpec
<1> QED
  BY <1>5, FullArchivesAreComplete, ClosedArchivesAreComplete, PTL
=============================================================================
