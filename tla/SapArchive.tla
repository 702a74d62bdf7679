----------------------------- MODULE SapArchive -----------------------------
(***************************************************************************)
(* The physical layer of src/sapfs/libsap.c: the table of open archives,   *)
(* and the four states an archive goes through from sap_CreateArchive to   *)
(* sap_CloseArchive.  A new archive is a header (EMPTY); a program either  *)
(* formats it in one call or fills it sector by sector (FILLED) until the  *)
(* last track is there (FULL) or until it closes it, when sap_CloseArchive *)
(* writes the tracks that are missing.  An archive opened with             *)
(* sap_OpenArchive is FULL at once.                                        *)
(*                                                                         *)
(* Sectors are written where the previous write to the entry ended,        *)
(* without a seek, until the archive is FULL; their place in their track   *)
(* is counted in `sect', a static variable of sap_FillArchive that all     *)
(* archives share.  Nothing keeps a program from opening or creating a     *)
(* file that another entry holds already: each entry then writes at its    *)
(* own place.                                                              *)
(***************************************************************************)
EXTENDS Integers, Sequences

CONSTANTS
    MAX_ARCHIVE,        \* archives open at the same time
    SAP_NSECTS,         \* sectors of a track
    Formats,            \* SAP_FORMAT1 and SAP_FORMAT2
    SAP_NTRACKS,        \* tracks of an archive of each format
    Paths,              \* host files
    Payloads,           \* what a sector holds, as far as a program can tell
    Filler,             \* TO_FILLER_BYTE all over
    NoPath, NoFormat,
    Foreign             \* the first byte of a host file that is no archive

SAP_OK    == 0
SAP_ERROR == 128
Ids       == 1 .. MAX_ARCHIVE

ASSUME ArchiveAssumption ==
    /\ MAX_ARCHIVE \in Nat \ {0}
    /\ SAP_NSECTS \in Nat \ {0}
    /\ SAP_NTRACKS \in [Formats -> Nat \ {0}]
    /\ NoFormat \notin Formats /\ Foreign \notin Formats \cup {NoFormat}
    /\ NoPath \notin Paths
    /\ Filler \notin Payloads

NSectors(f) == SAP_NTRACKS[f] * SAP_NSECTS

(***************************************************************************)
(* A sector bears its track and its number in the track, here as one       *)
(* number `at' counted from 0: track * SAP_NSECTS + sector - 1.  Where a   *)
(* file was never written it reads as zeros: track 0, sector 0.            *)
(***************************************************************************)
Cell   == [at : Nat \cup {-1}, data : Payloads \cup {Filler}]
Hole   == [at |-> -1, data |-> Filler]
HostFile == [format : Formats \cup {NoFormat, Foreign}, text : BOOLEAN, cells : Seq(Cell)]
Absent == [format |-> NoFormat, text |-> FALSE, cells |-> <<>>]
\* A file of another program, that begins with any byte.
Other(b) == [format |-> b, text |-> FALSE, cells |-> <<>>]
Closed == [state |-> "none", format |-> NoFormat, ntracks |-> 0, path |-> NoPath]

VARIABLES
    host,       \* the host files: a format byte, whether the text that follows
                \* it is that of sap_header, and the sectors after it
    archive,    \* the table of open archives
    sect,       \* static variable of sap_FillArchive
    given,      \* per archive, the sectors that its program has filled it with:
                \* the place in its file of the next one
    last        \* the function called last, what it returned, and the
                \* sap_errno it set ("none" if it set none)

avars == <<host, archive, sect, given, last>>

Open(id)     == archive[id].state # "none"
FileOf(id)   == host[archive[id].path]
IsOpen(p)    == \E id \in Ids : archive[id].path = p

\* Mutant: takes the last entry whether it is empty or not.
get_id_Any(id) == id = MAX_ARCHIVE

\* The first empty entry, from the last one down.
get_id(id) == ~Open(id) /\ \A other \in Ids : id < other => Open(other)

\* Sectors from..to of an archive, as sap_FormatArchive and sap_CloseArchive write them.
EmptySectors(from, to) ==
    [k \in 1 .. to - from |-> [at |-> from + k - 1, data |-> Filler]]

(***************************************************************************)
(* The sectors `s' of a file once `new' is written after the first k.      *)
(***************************************************************************)
Overwrite(s, k, new) ==
    LET end == k + Len(new)
    IN [i \in 1 .. (IF Len(s) > end THEN Len(s) ELSE end) |->
           IF i > k /\ i <= end THEN new[i - k] ELSE IF i <= Len(s) THEN s[i] ELSE Hole]

(***************************************************************************)
(* A program may create a file anew in the other format while an entry     *)
(* holds it.  The sectors of the two are not of one size: a write through  *)
(* the old entry may damage any sector, and a read find anything, as it    *)
(* does past the end of the file, where the buffer is left as it is.       *)
(***************************************************************************)
SameFormat(id) == FileOf(id).format = archive[id].format

AfterWrite(id, k, new) ==
    IF SameFormat(id) THEN {Overwrite(FileOf(id).cells, k, new)} ELSE Seq(Cell)

SectorsRead(id, k) ==
    IF SameFormat(id) /\ k <= Len(FileOf(id).cells) THEN {FileOf(id).cells[k]} ELSE Cell

\* do_write_sector for each sector of `new', from the place after the first k.
Write(id, k, new) ==
    \E cells \in AfterWrite(id, k, new) :
        host' = [host EXCEPT ![archive[id].path].cells = cells]

Init ==
    /\ host \in [Paths -> {Absent} \cup {Other(b) : b \in Formats \cup {Foreign}}]
    /\ archive = [id \in Ids |-> Closed]
    /\ sect = 0
    /\ given = [id \in Ids |-> 0]
    /\ last = <<"none", SAP_OK, "none">>

Fail(fn, r, e) ==
    /\ last' = <<fn, r, e>>
    /\ UNCHANGED <<host, archive, sect, given>>

Succeed(fn, r) == last' = <<fn, r, "none">>

-----------------------------------------------------------------------------
TooManyOpen(fn) ==
    /\ \A id \in Ids : Open(id)
    /\ Fail(fn, SAP_ERROR, "ETOOMANY")

(***************************************************************************)
(* The format byte decides.  The text after it is compared with strncmp    *)
(* from the byte before it, which is 0 in both: no text differs.           *)
(***************************************************************************)
sap_OpenArchive(p) ==
    \/ TooManyOpen("open")
    \/ \E id \in Ids :
         /\ get_id(id)
         /\ \/ /\ host[p] = Absent
               /\ Fail("open", SAP_ERROR, "ENOENT")
            \/ /\ host[p].format = Foreign
               /\ Fail("open", SAP_ERROR, "EBADF")
            \/ /\ host[p].format \in Formats
               /\ archive' = [archive EXCEPT ![id] =
                                 [state |-> "full", format |-> host[p].format,
                                  ntracks |-> SAP_NTRACKS[host[p].format], path |-> p]]
               /\ Succeed("open", id)
               /\ UNCHANGED <<host, sect, given>>

\* The header is written over whatever the file was.
sap_CreateArchive(p, f) ==
    \/ /\ f \notin Formats
       /\ Fail("create", SAP_ERROR, "EINVAL")
    \/ /\ f \in Formats
       /\ TooManyOpen("create")
    \/ \E id \in Ids :
         /\ f \in Formats
         /\ get_id(id)
         /\ \/ Fail("create", SAP_ERROR, "EPERM")
            \/ /\ host' = [host EXCEPT ![p] = [format |-> f, text |-> TRUE, cells |-> <<>>]]
               /\ archive' = [archive EXCEPT ![id] =
                                 [state |-> "empty", format |-> f, ntracks |-> 0, path |-> p]]
               /\ given' = [given EXCEPT ![id] = 0]
               /\ Succeed("create", id)
               /\ UNCHANGED sect

\* Mutant: starts at the track after the last one that is complete.
FirstMissing_Next(id) == (archive[id].ntracks + 1) * SAP_NSECTS

\* Where sap_CloseArchive starts to fill up.
FirstMissing(id) == archive[id].ntracks * SAP_NSECTS

sap_CloseArchive(id) ==
    \/ /\ ~Open(id)
       /\ Fail("close", SAP_ERROR, "EINVAL")
    \/ /\ Open(id)
       /\ IF archive[id].state = "full" THEN UNCHANGED host
          ELSE Write(id, given[id],
                     EmptySectors(FirstMissing(id), NSectors(archive[id].format)))
       /\ archive' = [archive EXCEPT ![id] = Closed]
       /\ given' = [given EXCEPT ![id] = 0]
       /\ Succeed("close", SAP_OK)
       /\ UNCHANGED sect

(***************************************************************************)
(* sap_FillArchive: the program passes the sectors of the archive in their *)
(* order, one per call, and no more of them than the archive has: "it's up *)
(* to the user to call it the right number of times".                      *)
(***************************************************************************)
FillSect(id) == IF archive[id].state = "empty" THEN 1 ELSE sect

\* Mutants: a track of one sector less, and of one sector more.
TrackEnded_Early(s) == s = SAP_NSECTS
TrackEnded_Late(s)  == s = SAP_NSECTS + 2

TrackEnded(s) == s = SAP_NSECTS + 1

sap_FillArchive(id, c) ==
    LET a     == archive[id]
        ended == TrackEnded(FillSect(id) + 1)
    IN \/ /\ ~Open(id)
          /\ Fail("fill", SAP_ERROR, "EINVAL")
       \/ /\ a.state = "full"
          /\ Fail("fill", SAP_ERROR, "ENOSPC")
       \/ /\ a.state \in {"empty", "filled"}
          /\ given[id] < NSectors(a.format)
          /\ c.at = given[id]
          /\ Write(id, given[id], <<c>>)
          /\ sect' = IF ended THEN 1 ELSE FillSect(id) + 1
          /\ archive' = [archive EXCEPT
                ![id].ntracks = IF ended THEN @ + 1 ELSE @,
                ![id].state = IF ended /\ a.ntracks + 1 = SAP_NTRACKS[a.format]
                                THEN "full" ELSE "filled"]
          /\ given' = [given EXCEPT ![id] = @ + 1]
          /\ Succeed("fill", SAP_OK)

\* Every sector of the archive is written, from the first, then track 20 again.
sap_FormatArchive(id) ==
    \/ /\ ~Open(id)
       /\ Fail("format", SAP_ERROR, "EINVAL")
    \/ /\ archive[id].state = "filled"
       /\ Fail("format", SAP_ERROR, "EBUSY")
    \/ /\ archive[id].state \in {"empty", "full"}   \* neither 40 nor 80 tracks
       /\ Fail("format", SAP_ERROR, "EINVAL")
    \/ /\ archive[id].state \in {"empty", "full"}
       /\ Write(id, 0, EmptySectors(0, NSectors(archive[id].format)))
       /\ archive' = [archive EXCEPT ![id].state = "full",
                                     ![id].ntracks = SAP_NTRACKS[archive[id].format]]
       /\ Succeed("format", SAP_OK)
       /\ UNCHANGED <<sect, given>>

(***************************************************************************)
(* sap_ReadSector followed by sap_WriteSector, as CopyArchive (j = k) and  *)
(* MoveSector of sapfs.c call them on two archives of the same format; the *)
(* sector moved gets the track and number of its new place.                *)
(***************************************************************************)
CopySector(src, dst, j, k) ==
    /\ src # dst
    /\ archive[src].state = "full" /\ archive[dst].state = "full"
    /\ archive[src].format = archive[dst].format
    /\ {j, k} \subseteq 1 .. NSectors(archive[src].format)
    /\ \E c \in SectorsRead(src, j) :
          Write(dst, k - 1, <<IF j = k THEN c ELSE [c EXCEPT !.at = k - 1]>>)
    /\ Succeed("write", SAP_OK)
    /\ UNCHANGED <<archive, sect, given>>

\* What the functions that need a FULL archive return without one.
Refusals ==
    {<<"read", SAP_ERROR, "EEMPTY">>, <<"write", SAP_ERROR, "EEMPTY">>,
     <<"list", 0, "EEMPTY">>, <<"info", 0, "EEMPTY">>,
     <<"add", 0, "EBUSY">>, <<"delete", 0, "EBUSY">>, <<"extract", 0, "EBUSY">>}

NeedsFull(id) ==
    \E r \in Refusals :
        \/ ~Open(id) /\ Fail(r[1], r[2], "EINVAL")
        \/ archive[id].state = "empty" /\ Fail(r[1], r[2], r[3])
        \/ archive[id].state = "filled" /\ Fail(r[1], r[2], "EBUSY")

-----------------------------------------------------------------------------
Fill(id) == \E d \in Payloads \cup {Filler} : sap_FillArchive(id, [at |-> given[id], data |-> d])

(***************************************************************************)
(* Any call, whatever archives are open: libsap looks at no file that      *)
(* another entry holds, and sapfs.c opens one file twice when it is given  *)
(* as the source and as the destination of a copy.                         *)
(***************************************************************************)
Next ==
    \/ \E p \in Paths : sap_OpenArchive(p)
    \/ \E p \in Paths, f \in Formats \cup {NoFormat} : sap_CreateArchive(p, f)
    \/ \E id \in Ids : \/ sap_CloseArchive(id) \/ Fill(id)
                       \/ sap_FormatArchive(id) \/ NeedsFull(id)
    \/ \E src, dst \in Ids, f \in Formats :
          \E j, k \in 1 .. NSectors(f) : CopySector(src, dst, j, k)

Spec == Init /\ [][Next]_avars

(***************************************************************************)
(* The programs of this repository fill one archive at a time, by whole    *)
(* tracks: PackArchive of sap2.c creates, fills and closes in one go.  And *)
(* two entries hold one file only when both have opened it, FULL, as       *)
(* CopyArchive and MoveSector of sapfs.c do with one name given twice.     *)
(***************************************************************************)
OneAtATime ==
    \A id \in Ids : archive[id].state = "filled" =>
        \A other \in Ids \ {id} : archive'[other].state # "filled"

ClosedAtTracks ==
    \A id \in Ids : archive[id].state = "filled" /\ archive'[id].state = "none"
                       => given[id] % SAP_NSECTS = 0

SharedIsFull ==
    \A i, j \in Ids : Open(i) /\ i # j /\ archive[i].path = archive[j].path
                         => archive[i].state = "full"

Serial == OneAtATime /\ ClosedAtTracks /\ SharedIsFull'

\* They are given archives, or files that do not begin with a format byte.
NoLookalike == \A p \in Paths : host[p].format \in Formats => host[p].text

ArchivesInit == Init /\ NoLookalike
SerialSpec   == ArchivesInit /\ [][Next /\ Serial]_avars

\* Programs that fill several archives in turns, each of them as SerialSpec asks.
InTurnsSpec  == ArchivesInit /\ [][Next /\ ClosedAtTracks /\ SharedIsFull']_avars

-----------------------------------------------------------------------------
TypeOK ==
    /\ host \in [Paths -> HostFile]
    /\ archive \in [Ids -> [state : {"none", "empty", "filled", "full"},
                            format : Formats \cup {NoFormat}, ntracks : Nat,
                            path : Paths \cup {NoPath}]]
    /\ sect \in 0 .. SAP_NSECTS
    /\ given \in [Ids -> Nat]
    /\ last[2] \in Ids \cup {SAP_OK, SAP_ERROR}

\* A file with every sector of its format, each where its label says.
Complete(a) ==
    /\ Len(a.cells) = NSectors(a.format)
    /\ \A k \in 1 .. Len(a.cells) : a.cells[k].at = k - 1

\* An archive that is FULL, and so can be read, written and given files, has
\* all of its sectors, in their places: the states of the table and the count
\* that sap_FillArchive keeps agree with what was written.
FullIsComplete ==
    \A id \in Ids : archive[id].state = "full" => Complete(FileOf(id))

\* So has an archive that was closed, however few of its tracks were filled:
\* sap_CloseArchive "closes the archive, filling it up with empty tracks".
ClosedIsComplete ==
    \A p \in Paths : host[p].text /\ ~IsOpen(p) => Complete(host[p])

\* An entry that is given out was free, and from then on stays with its file and
\* its format, whatever is opened, created, written and closed through the other
\* entries, until its own program closes it.
IdKeepsArchive ==
    [][/\ last'[1] \in {"open", "create"} /\ last'[2] # SAP_ERROR => ~Open(last'[2])
       /\ \A id \in Ids : Open(id) /\ last'[1] # "close" =>
             archive'[id].path = archive[id].path /\ archive'[id].format = archive[id].format
      ]_avars

\* "check the header": what is opened as an archive is one.
OpenChecksHeader == \A id \in Ids : Open(id) => FileOf(id).text
=============================================================================
