-------------------------- MODULE SapDosCrashProofs --------------------------
(***************************************************************************)
(* What crashes leave of the promises of SapDos, for every geometry, every *)
(* set of files, every sequence of calls and any number of crashes.        *)
(***************************************************************************)
EXTENDS SapDosCrash, SapDosProofs

-----------------------------------------------------------------------------
(***************************************************************************)
(* A disk that has seen crashes may hold chains that meet, that end in a   *)
(* free block or that turn in circles.  What is left of the invariants of  *)
(* SapDos is what does not depend on the shape of the chains.              *)
(***************************************************************************)
\* What an addition has saved is on the disk when the call returns.
FreshHeld ==
    fresh # NoFile =>
        /\ fresh \in HostFiles /\ Size[fresh] > 0
        /\ \E e \in Entries : /\ dir[e].name = EntryName[fresh]
                              /\ Holds(fat, data, dir[e].first, dir[e].end, fresh)

\* A crash loses the buffer and the request; the disk stays as it was.
LEMMA BasicsCrash == Basics /\ Crash => Basics'
<1> SUFFICES ASSUME Basics, Crash PROVE Basics'
  OBVIOUS
<1>1. /\ UNCHANGED <<fat, dir, data, ret, errno>> /\ mfat' = fat /\ mdir' = dir
      /\ Return /\ i' = 0 /\ extracted' = NothingExtracted
  BY DEF Crash, archive
<1>2. NothingExtracted \in [Names -> Seq(Chunk \X Nat)]
  BY DEF NothingExtracted
<1>3. TypeOK'
  BY <1>1, <1>2, ReturnType, GeometryAssumption DEF Basics, TypeInv, TypeOK
<1>4. RequestOK'
  BY <1>1, ReturnType DEF RequestOK
<1>5. NamesInv'
  BY <1>1, NamesRead DEF Basics, Return, NoCmd
<1>6. Synced' /\ Saved' /\ IndexInv'
  BY <1>1 DEF Synced, Saved, IndexInv, Return
<1> QED
  BY <1>3, <1>4, <1>5, <1>6 DEF Basics, TypeInv

\* A crash ends the command: whatever is half written is not tracked any more.
LEMMA FillCrash == FillInv /\ Crash => FillInv'
<1> SUFFICES ASSUME FillInv, Crash PROVE FillInv'
  OBVIOUS
<1>1. /\ UNCHANGED <<fat, dir>> /\ mfat' = fat /\ mdir' = dir
      /\ pc' = "idle" /\ cmd' = NoCmd
  BY DEF Crash, archive, Return
<1>2. Basics'
  BY BasicsCrash DEF FillInv
<1>3. NoneReserved'
  BY <1>1 DEF FillInv, NoneReserved
<1>4. Request' /\ Filling' /\ Filled'
  BY <1>1 DEF Request, Filling, Filled, NoCmd
<1> QED
  BY <1>2, <1>3, <1>4 DEF FillInv

\* The step that ends a command leaves the disk as the buffer.
LEMMA CompletesSaved ==
    ASSUME Basics, Next, Completes
    PROVE  SaveSector /\ fat' = mfat /\ dir' = mdir /\ data' = data
<1>1. SaveSector
  BY DEF Completes, Next, Call, AddNoFile, AddEmptyFile, AddDirFull, AddFile, DeleteFile,
         ExtractFile, ForEachFile, Step, SizeStep, AddTooBig, CheckStep, DeleteStep,
         DeleteDone, AllocFirst, FillBlock, FillTail, SeekDelete, SeekExtract,
         ExtractNoPerm, SeekEnd, ReadBlock, ReadTail
<1>2. Synced'
  BY BufferSynced DEF Basics
<1> QED
  BY <1>1, <1>2 DEF SaveSector, Completes, Synced, buffer

LEMMA FreshNext == FillInv /\ FreshHeld /\ [Goes \/ Dies]_cvars => FreshHeld'
<1> SUFFICES ASSUME FillInv, FreshHeld, [Goes \/ Dies]_cvars PROVE FreshHeld'
  OBVIOUS
<1>1. CASE Goes /\ Completes
  <2>1. Next /\ pc = "save" /\ fresh' = cmd.file
    BY <1>1 DEF Goes, Uninterrupted, Completes
  <2>2. fat' = mfat /\ dir' = mdir /\ data' = data
    BY <1>1, <2>1, CompletesSaved DEF FillInv
  <2>3. CASE cmd.op = "add"
    <3>1. n \in Entries /\ cmd.file \in HostFiles /\ Size[cmd.file] > 0
      BY <2>3 DEF FillInv, Basics, TypeInv, TypeOK, RequestOK, Request
    <3>2. /\ mdir[n].name = EntryName[cmd.file]
          /\ Holds(mfat, data, mdir[n].first, mdir[n].end, cmd.file)
      BY <2>1, <2>3 DEF FillInv, Filled
    <3> QED
      BY <2>1, <2>2, <3>1, <3>2 DEF FreshHeld
  <2>4. CASE cmd.op # "add"
    BY <2>1, <2>4 DEF FillInv, Request, FreshHeld
  <2> QED
    BY <2>3, <2>4
<1>2. CASE (Goes /\ ~Completes) \/ Dies
  BY <1>2 DEF Goes, Uninterrupted, Dies, Crash, FreshHeld
<1>3. CASE UNCHANGED cvars
  BY <1>3 DEF cvars, vars, archive, FreshHeld
<1> QED
  BY <1>1, <1>2, <1>3

LEMMA FillInvariant == CrashSpec => [](FillInv /\ FreshHeld)
<1>1. CInit => FillInv /\ FreshHeld
  BY FillInit DEF CInit, FreshHeld
<1>2. FillInv /\ [Goes \/ Dies]_cvars => FillInv'
  BY FillNext, FillCrash DEF Goes, Uninterrupted, Dies, cvars
<1> QED
  BY <1>1, <1>2, FreshNext, PTL DEF CrashSpec

\* What sap_AddFile has just stored reads back, whatever earlier crashes left on
\* the disk: each block it fills was free in the table when it was chosen, and
\* once linked it is never chosen again, however tangled the other chains are.
THEOREM AddedFileIsThere == CrashSpec => []AddedFileReads
<1>1. FillInv /\ FreshHeld => AddedFileReads
  <2> SUFFICES ASSUME FillInv, FreshHeld, fresh # NoFile
               PROVE  FilesOnDisk[EntryName[fresh]] = fresh
    BY DEF AddedFileReads
  <2>1. TypeOK /\ UniqueNames
    BY DEF FillInv, Basics, TypeInv, NamesInv, Distinct, UniqueNames
  <2>2. PICK e \in Entries : /\ dir[e].name = EntryName[fresh]
                             /\ Holds(fat, data, dir[e].first, dir[e].end, fresh)
    BY DEF FreshHeld
  <2>3. fresh \in HostFiles /\ Size[fresh] > 0
    BY DEF FreshHeld
  <2> QED
    BY <2>1, <2>2, <2>3, ListedFile
<1> QED
  BY <1>1, FillInvariant, PTL

-----------------------------------------------------------------------------
(***************************************************************************)
(* The careful user.  The blocks that the chain of an entry can reach are  *)
(* owned by the name of the entry: links never leave the blocks of one     *)
(* name, so that the deletion of a damaged file frees no block of another. *)
(* A block that crashes have lost has no owner, and may link to anything:  *)
(* no chain goes through it.  Only suspect names own free blocks, which is *)
(* why a file must not be added before they are deleted.                   *)
(***************************************************************************)
Maps == [Blocks -> Names \cup {NoName}]

Closed(own, F) ==
    \A c \in Blocks : own[c] # NoName /\ F[c] \in Blocks => own[F[c]] = own[c]

Placed(own, D) ==
    \A e \in Entries :
        D[e].name # NoName /\ D[e].first \in Blocks => own[D[e].first] = D[e].name

InUse(own, F, S) ==
    \A c \in Blocks : own[c] # NoName /\ own[c] \notin S => F[c] # TO_TAG_FREE

\* Names of the command that runs which may own free blocks of the disk.
Slack ==
    IF pc = "fill" \/ (pc = "save" /\ (cmd.op = "add" \/ sect > 2)) THEN Touched ELSE {}

\* One map for the disk and for the buffer that is to replace it, since a crash
\* leaves entries of the one and the table of the other.
Held(own) ==
    /\ Closed(own, fat) /\ Closed(own, mfat)
    /\ Placed(own, dir) /\ Placed(own, mdir)
    /\ InUse(own, fat, suspects \cup Slack)
    /\ \A c \in Blocks : mfat[c] # fat[c] => own[c] \in Touched
    /\ pc \in {"delete", "fill"} /\ block \in Blocks => own[block] \in Touched
    /\ pc = "fill" /\ head \in Blocks => own[head] \in Touched

EntriesApart ==
    \A e \in Entries : mdir[e] # dir[e] =>
        dir[e].name \in Touched \cup {NoName} /\ mdir[e].name \in Touched \cup {NoName}

OnDisk == \A nm \in Names \ (suspects \cup Exposed) : Stands(nm, kept[nm], fat, dir, data)

\* A deletion has passed over the slots before i.
Deleting ==
    /\ pc = "idle" => size = 0
    /\ cmd.op = "delete" =>
          /\ ~cmd.wild => \E nm \in Names : cmd.pattern = {nm}
          /\ \A e \in Entries : mdir[e].name \in cmd.pattern =>
                pc # "save" /\ e >= i /\ (pc = "delete" => cmd.wild)

(***************************************************************************)
(* The space of an addition.  The chain that get_file_size follows is that *)
(* of a file which stands, and as long as it is not saved the disk still   *)
(* tells its path: what do_delete_file frees is what was counted.          *)
(***************************************************************************)
PathOf(q, k) ==
    \E f \in HostFiles, t \in 0 .. SectPerBlock - 1 :
        FileAt(fat, data, dir[n].first, dir[n].end, f, q, k, t)

Measured ==
    \E q \in Paths, k \in 0 .. TO_FILESIZE_MAX :
        /\ PathOf(q, k) /\ size =< k + 1
        /\ block = IF size =< k THEN q[size] ELSE fat[q[k]]

ToFree ==
    IF mdir[n].name = NoName THEN size = 0
    ELSE \E q \in Paths, k \in 0 .. TO_FILESIZE_MAX : PathOf(q, k) /\ size =< k + 1

BeingFreed ==
    \E q \in Paths, k \in 0 .. TO_FILESIZE_MAX, total \in 0 .. TO_FILESIZE_MAX :
        /\ PathOf(q, k) /\ total =< k + 1
        /\ Room(get_dskf(mfat) + (IF size < total THEN total - size ELSE 0), Size[cmd.file])
        /\ size < total => block = q[size]
        /\ \A j \in 0 .. k : size =< j /\ j < total => mfat[q[j]] = fat[q[j]]

Adding ==
    cmd.op = "add" =>
        /\ suspects = {}
        /\ dir[n].name \in Touched \cup {NoName} /\ mdir[n].name \in Touched \cup {NoName}
        /\ pc = "size" => mdir[n].name # NoName /\ Measured
        /\ pc = "check" => ToFree
        /\ pc = "delete" => BeingFreed
        /\ pc = "alloc" => Room(get_dskf(mfat), Size[cmd.file])
        /\ pc = "fill" => block \in Blocks /\ Room(get_dskf(mfat), left)

Cared ==
    (\E own \in Maps : Held(own)) /\ EntriesApart /\ OnDisk /\ Deleting /\ Adding

CarefulInv == careful => Cared

-----------------------------------------------------------------------------
\* The blocks of a file have the owner of the first.
LEMMA PathOwned ==
    ASSUME NEW own \in Maps, NEW F, NEW p \in Paths, NEW k \in Nat,
           Links(F, p, k), p[k] \in Blocks, Closed(own, F), own[p[0]] # NoName
    PROVE  \A j \in 0 .. k : p[j] \in Blocks /\ own[p[j]] = own[p[0]]
<1> DEFINE S == {j \in Nat : j =< k => own[p[j]] = own[p[0]]}
<1>1. \A j \in 0 .. k - 1 : F[p[j]] = p[j + 1] /\ p[j] \in Blocks
  BY DEF Links
<1>2. \A j \in 0 .. k : p[j] \in Blocks
  <2>1. \A j \in 0 .. k : j = k \/ j \in 0 .. k - 1
    OBVIOUS
  <2> QED
    BY <1>1, <2>1
<1>3. 0 \in S
  OBVIOUS
<1>4. ASSUME NEW j \in S PROVE j + 1 \in S
  <2> SUFFICES ASSUME j + 1 =< k PROVE own[p[j + 1]] = own[p[0]]
    OBVIOUS
  <2>1. j \in 0 .. k - 1 /\ j + 1 \in 0 .. k /\ own[p[j]] = own[p[0]]
    OBVIOUS
  <2> HIDE DEF S
  <2>2. p[j] \in Blocks /\ F[p[j]] = p[j + 1] /\ p[j + 1] \in Blocks
    BY <1>1, <1>2, <2>1
  <2> QED
    BY <2>1, <2>2 DEF Closed
<1>5. \A j \in Nat : j \in S
  <2>1. S \in SUBSET Nat
    OBVIOUS
  <2> HIDE DEF S
  <2> QED
    BY <1>3, <1>4, <2>1, EveryNumber
<1> QED
  BY <1>2, <1>5

\* A name stands for its file as long as the blocks it owns, and its entry, stay.
LEMMA StillStands ==
    ASSUME NEW own \in Maps, NEW nm \in Names, NEW g, NEW F, NEW D, NEW X, NEW G, NEW E, NEW Y,
           Stands(nm, g, F, D, X), Closed(own, F), Placed(own, D),
           \A c \in Blocks : own[c] = nm =>
               /\ G[c] = F[c]
               /\ \A s \in 0 .. SectPerBlock - 1 : Y[c * SectPerBlock + s] = X[c * SectPerBlock + s],
           \A e \in Entries : D[e].name = nm \/ E[e].name = nm => E[e] = D[e]
    PROVE  Stands(nm, g, G, E, Y)
<1>1. CASE g = NoFile
  BY <1>1 DEF Stands
<1>2. CASE g # NoFile
  <2>1. PICK e \in Entries : D[e].name = nm /\ Holds(F, X, D[e].first, D[e].end, g)
    BY <1>2 DEF Stands
  <2> DEFINE first == D[e].first
             end   == D[e].end
  <2>2. PICK p \in Paths, k \in 0 .. TO_FILESIZE_MAX, t \in 0 .. SectPerBlock - 1 :
           FileAt(F, X, first, end, g, p, k, t)
    BY <2>1 DEF Holds
  <2>3. k \in Nat /\ 0 \in 0 .. k
    BY Geometry
  <2>4. first \in Blocks
    <3>1. first = p[0]
      BY <2>2 DEF FileAt
    <3> HIDE DEF first, end
    <3>2. \A j \in 0 .. k : p[j] \in Blocks
      BY <2>2, <2>3, PathUsed
    <3> QED
      BY <2>3, <3>1, <3>2
  <2>5. own[first] = nm /\ nm # NoName
    BY <2>1, <2>4, FilesAssumption DEF Placed
  <2>6. \A j \in 0 .. k : p[j] \in Blocks /\ own[p[j]] = nm
    <3> HIDE DEF first, end
    <3>1. Links(F, p, k) /\ p[k] \in Blocks /\ p[0] = first
      BY <2>2 DEF FileAt, FullBlocks
    <3> QED
      BY <2>3, <2>5, <3>1, PathOwned
  <2>7. \A j \in 0 .. k : /\ G[p[j]] = F[p[j]]
                          /\ \A s \in 0 .. SectPerBlock - 1 :
                                Y[p[j] * SectPerBlock + s] = X[p[j] * SectPerBlock + s]
    BY <2>6
  <2>8. FileAt(G, Y, first, end, g, p, k, t)
    BY <2>2, <2>7, FileKept
  <2>9. E[e] = D[e]
    BY <2>1
  <2> QED
    BY <1>2, <2>1, <2>8, <2>9 DEF Stands, Holds
<1> QED
  BY <1>1, <1>2

-----------------------------------------------------------------------------
(***************************************************************************)
(* Owners, one part of a command after the other.                          *)
(***************************************************************************)
LEMMA TouchedNames ==
    ASSUME TypeInv
    PROVE  /\ Touched \subseteq Names /\ NoName \notin Touched
           /\ cmd.op = "add" => Touched = {EntryName[cmd.file]} /\ EntryName[cmd.file] \in Names
<1>1. cmd.op = "add" => EntryName[cmd.file] \in Names
  BY FilesAssumption DEF TypeInv, RequestOK
<1>2. cmd.pattern \in SUBSET Names
  BY DEF TypeInv, TypeOK, Cmd
<1> QED
  BY <1>1, <1>2, FilesAssumption DEF Touched

\* Steps that change neither track 20 nor its buffer.
LEMMA HeldSynced ==
    ASSUME NEW own \in Maps, Held(own), UNCHANGED <<fat, dir, mfat, mdir, suspects>>, mfat = fat,
           pc \notin {"fill", "save"}, pc' \notin {"delete", "fill", "save"}
    PROVE  Held(own)'
BY DEF Held, Slack, Closed, Placed, InUse

LEMMA HeldOn ==
    ASSUME NEW own \in Maps, Held(own), UNCHANGED <<fat, dir, mfat, mdir, suspects, cmd>>,
           pc \notin {"fill", "save"}, pc' \notin {"delete", "fill"}
    PROVE  Held(own)'
<1>1. Touched' = Touched
  BY DEF Touched
<1> QED
  BY <1>1 DEF Held, Slack, Closed, Placed, InUse

\* An entry is deleted: the cursor starts in the blocks of its name.
LEMMA HeldDropped ==
    ASSUME TypeInv, NEW own \in Maps, Held(own), UNCHANGED <<fat, dir, mfat, suspects, cmd>>,
           pc \notin {"fill", "save"}, NEW e \in Entries, StartDelete(e), mdir[e].name \in Touched
    PROVE  Held(own)'
<1>1. Touched' = Touched /\ NoName \notin Touched
  BY TouchedNames DEF Touched
<1>2. pc' = "delete" /\ block' = mdir[e].first
  BY DEF StartDelete
<1>3. \A k \in Entries : /\ mdir'[k].first = mdir[k].first
                         /\ mdir'[k].name # NoName => mdir'[k].name = mdir[k].name
  BY DEF StartDelete, TypeInv, TypeOK, Entry
<1>4. Placed(own, mdir')
  BY <1>3 DEF Held, Placed
<1>5. block' \in Blocks => own[block'] \in Touched
  BY <1>1, <1>2 DEF Held, Placed
<1> QED
  BY <1>1, <1>2, <1>4, <1>5 DEF Held, Slack, Closed, InUse

LEMMA HeldFreed ==
    ASSUME TypeInv, NEW own \in Maps, Held(own), DeleteStep, suspects' = suspects
    PROVE  Held(own)'
<1>1. /\ pc = "delete" /\ pc' = "delete" /\ block \in Blocks /\ block' = mfat[block]
      /\ UNCHANGED <<fat, dir, mdir, cmd>>
      /\ \A c \in Blocks : mfat'[c] = IF c = block THEN TO_TAG_FREE ELSE mfat[c]
  BY CursorInBlocks DEF DeleteStep, archive, TypeInv, TypeOK
<1>2. Touched' = Touched /\ NoName \notin Touched
  BY <1>1, TouchedNames DEF Touched
<1>3. TO_TAG_FREE \notin Blocks
  BY Geometry DEF Blocks, TO_TAG_FREE
<1>4. own[block] \in Touched /\ own[block] # NoName
  BY <1>1, <1>2 DEF Held
<1>5. Closed(own, mfat')
  BY <1>1, <1>3 DEF Held, Closed
<1>6. block' \in Blocks => own[block'] \in Touched
  BY <1>1, <1>4 DEF Held, Closed
<1>7. \A c \in Blocks : mfat'[c] # fat[c] => own[c] \in Touched
  BY <1>1, <1>4 DEF Held
<1> QED
  BY <1>1, <1>2, <1>5, <1>6, <1>7 DEF Held, Slack, Placed, InUse

\* The map in which the name that is added owns block b as well.
Takes(own, b, new) ==
    \A c \in Blocks : new[c] = IF c = b THEN EntryName[cmd.file] ELSE own[c]

LEMMA MapWith ==
    ASSUME NEW own \in Maps, NEW b \in Blocks, TypeInv, cmd.op = "add"
    PROVE  \E new \in Maps : Takes(own, b, new)
<1>1. EntryName[cmd.file] \in Names
  BY TouchedNames
<1> DEFINE new == [c \in Blocks |-> IF c = b THEN EntryName[cmd.file] ELSE own[c]]
<1>2. new \in Maps
  BY <1>1 DEF Maps
<1>3. Takes(own, b, new)
  BY DEF Takes
<1> QED
  BY <1>2, <1>3

\* What Held says of the block that is worked on, under the new map as well.
Owned(own) ==
    /\ Closed(own, fat) /\ Closed(own, mfat) /\ Placed(own, dir) /\ Placed(own, mdir)
    /\ InUse(own, fat, Touched)
    /\ \A c \in Blocks : mfat[c] # fat[c] => own[c] \in Touched

\* A block free in the buffer has no owner but the name that is added, which
\* takes it.
LEMMA BlockTaken ==
    ASSUME TypeInv, NEW own \in Maps, Held(own), cmd.op = "add", suspects = {},
           NEW b \in Blocks, mfat[b] = TO_TAG_FREE, NEW new \in Maps, Takes(own, b, new)
    PROVE  /\ Owned(new)
           /\ \A c \in Blocks : own[c] \in Touched => new[c] \in Touched
           /\ new[b] \in Touched
<1> DEFINE nm == EntryName[cmd.file]
<1>1. Touched = {nm} /\ nm \in Names /\ nm # NoName /\ Slack \subseteq {nm}
  BY TouchedNames, FilesAssumption DEF Slack
<1>2. \A c \in Blocks : new[c] = IF c = b THEN nm ELSE own[c]
  BY DEF Takes
<1> HIDE DEF nm
<1>3. own[b] \in {NoName, nm}
  BY <1>1 DEF Held, InUse
<1>4. own[b] = NoName => fat[b] = TO_TAG_FREE
  BY <1>1 DEF Held
<1>5. TO_TAG_FREE \notin Blocks
  BY Geometry DEF Blocks, TO_TAG_FREE
<1>6. Closed(new, fat)
  <2> SUFFICES ASSUME NEW c \in Blocks, new[c] # NoName, fat[c] \in Blocks
               PROVE  new[fat[c]] = new[c]
    BY DEF Closed
  <2>1. CASE c = b
    <3>1. own[b] = nm
      BY <1>3, <1>4, <1>5, <2>1
    <3>2. own[fat[b]] = nm
      BY <1>1, <2>1, <3>1 DEF Held, Closed
    <3> QED
      BY <1>2, <2>1, <3>2
  <2>2. CASE c # b
    <3>1. own[fat[c]] = own[c] /\ own[c] # NoName
      BY <1>2, <2>2 DEF Held, Closed
    <3> QED
      BY <1>2, <1>3, <2>2, <3>1
  <2> QED
    BY <2>1, <2>2
<1>7. Closed(new, mfat)
  <2> SUFFICES ASSUME NEW c \in Blocks, new[c] # NoName, mfat[c] \in Blocks
               PROVE  new[mfat[c]] = new[c]
    BY DEF Closed
  <2>1. c # b
    BY <1>5
  <2>2. own[mfat[c]] = own[c] /\ own[c] # NoName
    BY <1>2, <2>1 DEF Held, Closed
  <2> QED
    BY <1>2, <1>3, <2>1, <2>2
<1>8. Placed(new, dir) /\ Placed(new, mdir)
  BY <1>2, <1>3 DEF Held, Placed
<1>9. InUse(new, fat, Touched)
  BY <1>1, <1>2 DEF Held, InUse
<1>10. \A c \in Blocks : mfat[c] # fat[c] => new[c] \in Touched
  BY <1>1, <1>2 DEF Held
<1> QED
  BY <1>1, <1>2, <1>6, <1>7, <1>8, <1>9, <1>10 DEF Owned

LEMMA HeldFirst ==
    ASSUME FillInv, NEW own \in Maps, Held(own), AllocFirst, block' \in Blocks,
           suspects = {}, suspects' = {}
    PROVE  \E new \in Maps : Held(new)'
<1>1. /\ TypeInv /\ pc = "alloc" /\ pc' = "fill" /\ cmd.op = "add" /\ head' = block'
      /\ UNCHANGED <<fat, dir, mfat, mdir, cmd>>
  BY DEF AllocFirst, archive, buffer, FillInv, Basics, TypeInv, RequestOK
<1>2. PICK b \in Blocks : b = block'
  OBVIOUS
<1>3. mfat[b] = TO_TAG_FREE
  BY <1>2, FindSym, Geometry DEF AllocFirst, FreeBlocks
<1>4. PICK new \in Maps : Takes(own, b, new)
  BY <1>1, MapWith
<1>5. Owned(new) /\ new[b] \in Touched
  BY <1>1, <1>3, <1>4, BlockTaken
<1>6. Touched' = Touched /\ Slack' = Touched
  BY <1>1 DEF Touched, Slack
<1> QED
  BY <1>1, <1>2, <1>5, <1>6 DEF Owned, Held, Closed, Placed, InUse

LEMMA HeldLinked ==
    ASSUME FillInv, NEW own \in Maps, Held(own), FillBlock, block' \in Blocks,
           suspects = {}, suspects' = {}
    PROVE  \E new \in Maps : Held(new)'
<1>1. /\ TypeInv /\ TypeOK /\ pc = "fill" /\ pc' = "fill" /\ cmd.op = "add" /\ head' = head
      /\ block \in Blocks /\ UNCHANGED <<fat, dir, mdir, cmd>>
  BY DEF FillBlock, FillInv, Basics, TypeInv, RequestOK
<1>2. PICK b \in Blocks : b = block'
  OBVIOUS
<1>3. mfat[b] = TO_TAG_FREE
  <2>1. block' \in FreeBlocks(MarkBlock(mfat, block))
    BY FindRel, Geometry DEF FillBlock
  <2> QED
    BY <1>1, <1>2, <2>1, FreeNotReserved DEF FillInv
<1>4. PICK new \in Maps : Takes(own, b, new)
  BY <1>1, MapWith
<1>5. /\ Owned(new) /\ new[b] \in Touched
      /\ \A c \in Blocks : own[c] \in Touched => new[c] \in Touched
  BY <1>1, <1>3, <1>4, BlockTaken
<1>6. Touched' = Touched /\ Slack' = Touched /\ Touched = {EntryName[cmd.file]}
  BY <1>1, TouchedNames DEF Touched, Slack
<1>7. \A c \in Blocks : mfat'[c] = IF c = block THEN b ELSE mfat[c]
  BY <1>1, <1>2, Bytes DEF FillBlock, TypeOK
<1>8. new[block] \in Touched /\ (head \in Blocks => new[head] \in Touched)
  BY <1>1, <1>5 DEF Held
<1>9. Closed(new, mfat')
  BY <1>5, <1>6, <1>7, <1>8 DEF Owned, Closed
<1>10. \A c \in Blocks : mfat'[c] # fat[c] => new[c] \in Touched
  BY <1>5, <1>7, <1>8 DEF Owned
<1> QED
  BY <1>1, <1>2, <1>5, <1>6, <1>8, <1>9, <1>10 DEF Owned, Held, Closed, Placed, InUse

LEMMA HeldTail ==
    ASSUME FillInv, NEW own \in Maps, Held(own), FillTail, suspects' = suspects
    PROVE  Held(own)'
<1> DEFINE full == (left - 1) \div SectSize
<1>1. /\ TypeInv /\ TypeOK /\ pc = "fill" /\ pc' = "save" /\ cmd.op = "add" /\ n \in Entries
      /\ block \in Blocks /\ UNCHANGED <<fat, dir, cmd>>
  BY DEF FillTail, StartSave, FillInv, Basics, TypeInv, TypeOK, RequestOK
<1>2. Touched = {EntryName[cmd.file]} /\ Touched' = Touched /\ Slack' = Touched /\ Slack = Touched
  BY <1>1, TouchedNames DEF Touched, Slack
<1>3. full \in -1 .. SectPerBlock - 1
  BY <1>1, TailSectors DEF FillTail, TypeOK
<1>4. \A c \in Blocks :
         mfat'[c] = IF c = block THEN TO_END_BLOCK_OFFSET + 1 + full ELSE mfat[c]
  BY <1>1 DEF FillTail, TypeOK
<1>5. \A e \in Entries : /\ e # n => mdir'[e] = mdir[e]
                         /\ mdir'[n].name = EntryName[cmd.file] /\ mdir'[n].first = head
  BY <1>1 DEF FillTail, TypeOK
<1> HIDE DEF full
<1>6. TO_END_BLOCK_OFFSET + 1 + full \notin Blocks
  BY <1>3, Geometry DEF Blocks, TO_END_BLOCK_OFFSET
<1>7. Closed(own, mfat')
  BY <1>4, <1>6 DEF Held, Closed
<1>8. own[block] \in Touched /\ (head \in Blocks => own[head] \in Touched)
  BY <1>1 DEF Held
<1>9. Placed(own, mdir')
  BY <1>1, <1>2, <1>5, <1>8 DEF Held, Placed
<1>10. \A c \in Blocks : mfat'[c] # fat[c] => own[c] \in Touched
  BY <1>4, <1>8 DEF Held
<1> QED
  BY <1>1, <1>2, <1>7, <1>9, <1>10 DEF Held, Closed, Placed, InUse

LEMMA HeldSaving ==
    ASSUME TypeInv, Saved, NEW own \in Maps, Held(own), SaveSector, ~LastSector, suspects' = suspects
    PROVE  Held(own)'
<1>1. /\ pc = "save" /\ pc' = "save" /\ UNCHANGED <<mfat, mdir, cmd>> /\ sect' = sect + 1
      /\ fat' = IF sect = 2 THEN mfat ELSE fat
      /\ \A e \in Entries : dir'[e] \in {dir[e], mdir[e]}
      /\ sect \in Nat /\ sect >= 1
  BY Geometry DEF SaveSector, buffer, TypeInv, TypeOK
<1>2. Touched' = Touched /\ Slack \subseteq Touched
  BY <1>1 DEF Touched, Slack
<1>3. Closed(own, fat') /\ Closed(own, mfat') /\ Placed(own, dir') /\ Placed(own, mdir')
  BY <1>1 DEF Held, Closed, Placed
<1>4. InUse(own, fat', suspects \cup Slack')
  <2>1. CASE sect = 1
    <3>1. fat' = fat /\ Slack' = Slack
      BY <1>1, <1>2, <2>1 DEF Slack
    <3> QED
      BY <3>1 DEF Held
  <2>2. CASE sect = 2
    <3>1. fat' = mfat /\ Slack' = Touched
      BY <1>1, <1>2, <2>2 DEF Slack
    <3> QED
      BY <1>2, <3>1 DEF Held, InUse
  <2>3. CASE sect > 2
    <3>1. fat' = fat /\ Slack' = Slack
      BY <1>1, <1>2, <2>3 DEF Slack
    <3> QED
      BY <3>1 DEF Held
  <2> QED
    BY <1>1, <2>1, <2>2, <2>3
<1>5. \A c \in Blocks : mfat'[c] # fat'[c] => own[c] \in Touched
  BY <1>1 DEF Held
<1> QED
  BY <1>1, <1>2, <1>3, <1>4, <1>5 DEF Held

\* The names whose blocks are all but those in P given up.
GivesUp(own, T, P, nm, new) ==
    \A c \in Blocks : new[c] = IF own[c] \in T THEN (IF c \in P THEN nm ELSE NoName) ELSE own[c]

LEMMA MapWithout ==
    ASSUME NEW own \in Maps, NEW T, NEW P, NEW nm \in Names \cup {NoName}
    PROVE  \E new \in Maps : GivesUp(own, T, P, nm, new)
<1> DEFINE new == [c \in Blocks |->
                      IF own[c] \in T THEN (IF c \in P THEN nm ELSE NoName) ELSE own[c]]
<1>1. new \in Maps
  BY DEF Maps
<1>2. GivesUp(own, T, P, nm, new)
  BY DEF GivesUp
<1> QED
  BY <1>1, <1>2

\* Blocks that no entry leads to need no owner.
LEMMA Forgetting ==
    ASSUME NEW own \in Maps, NEW F, NEW D, NEW S, NEW T, NoName \notin T,
           Closed(own, F), Placed(own, D), InUse(own, F, S \cup T),
           \A e \in Entries : D[e].name \notin T,
           NEW new \in Maps, GivesUp(own, T, {}, NoName, new)
    PROVE  Closed(new, F) /\ Placed(new, D) /\ InUse(new, F, S)
<1>1. \A c \in Blocks : new[c] = IF own[c] \in T THEN NoName ELSE own[c]
  BY DEF GivesUp
<1>2. Closed(new, F)
  BY <1>1 DEF Closed
<1>3. Placed(new, D)
  BY <1>1 DEF Placed
<1>4. InUse(new, F, S)
  BY <1>1 DEF InUse
<1> QED
  BY <1>2, <1>3, <1>4

LEMMA HeldDeleted ==
    ASSUME TypeInv, NEW own \in Maps, Held(own), pc = "save", cmd.op = "delete",
           Return, fat' = mfat, dir' = mdir, mfat' = mfat, mdir' = mdir,
           \A e \in Entries : mdir[e].name \notin Touched, suspects' = suspects \ Touched
    PROVE  \E new \in Maps : Held(new)'
<1>1. NoName \notin Touched /\ Slack \subseteq Touched
  BY TouchedNames DEF Slack
<1>2. PICK new \in Maps : GivesUp(own, Touched, {}, NoName, new)
  BY MapWithout
<1>3. PICK S : S = suspects \ Touched
  OBVIOUS
<1>4. Closed(own, mfat) /\ Placed(own, mdir)
  BY DEF Held
<1>5. InUse(own, mfat, S \cup Touched)
  BY <1>1, <1>3 DEF Held, InUse
<1>6. Closed(new, mfat) /\ Placed(new, mdir) /\ InUse(new, mfat, S)
  BY <1>1, <1>2, <1>4, <1>5, Forgetting
<1>7. pc' = "idle" /\ Touched' = {} /\ Slack' = {}
  BY DEF Return, Touched, Slack, NoCmd
<1> QED
  BY <1>3, <1>6, <1>7 DEF Held, Closed, Placed, InUse

\* The blocks of the file that was added, and no others, stay with its name.
LEMMA HeldAdded ==
    ASSUME FillInv, NEW own \in Maps, Held(own), pc = "save", cmd.op = "add",
           suspects = {}, suspects' = {},
           Return, fat' = mfat, dir' = mdir, mfat' = mfat, mdir' = mdir
    PROVE  \E new \in Maps : Held(new)'
<1>1. /\ TypeInv /\ n \in Entries /\ Distinct(mdir, mdir)
  BY DEF FillInv, Basics, TypeInv, TypeOK, NamesInv
<1> DEFINE nm == EntryName[cmd.file]
           first == mdir[n].first
           end == mdir[n].end
<1>2. /\ Touched = {nm} /\ nm \in Names /\ nm # NoName /\ Slack \subseteq Touched
  BY <1>1, TouchedNames, FilesAssumption DEF Slack
<1>3. mdir[n].name = nm /\ Holds(mfat, data, first, end, cmd.file)
  BY DEF FillInv, Filled
<1>4. PICK p \in Paths, k \in 0 .. TO_FILESIZE_MAX, t \in 0 .. SectPerBlock - 1 :
         FileAt(mfat, data, first, end, cmd.file, p, k, t)
  BY <1>3 DEF Holds
<1>5. k \in Nat /\ 0 \in 0 .. k
  BY Geometry
<1>6. first = p[0] /\ Links(mfat, p, k) /\ p[k] \in Blocks
      /\ mfat[p[k]] = TO_END_BLOCK_OFFSET + 1 + t
  BY <1>4 DEF FileAt, FullBlocks
<1>7. first = mdir[n].first
  OBVIOUS
<1> HIDE DEF nm, first, end
<1>8. \A j \in 0 .. k : p[j] \in Blocks /\ mfat[p[j]] # TO_TAG_FREE
  BY <1>4, <1>5, PathUsed
<1>9. own[p[0]] = nm
  BY <1>1, <1>2, <1>3, <1>5, <1>6, <1>7, <1>8 DEF Held, Placed
<1>10. \A j \in 0 .. k : own[p[j]] = nm
  <2>1. Closed(own, mfat) /\ own[p[0]] # NoName
    BY <1>2, <1>9 DEF Held
  <2> QED
    BY <1>5, <1>6, <1>9, <2>1, PathOwned
<1> DEFINE P == {p[j] : j \in 0 .. k}
<1>11. /\ p[0] \in P
       /\ \A c \in P : own[c] = nm /\ c \in Blocks /\ mfat[c] # TO_TAG_FREE
       /\ \A c \in P : mfat[c] \in Blocks => mfat[c] \in P
  <2>1. ASSUME NEW j \in 0 .. k, mfat[p[j]] \in Blocks PROVE mfat[p[j]] \in P
    <3>1. CASE j = k
      <4>1. TO_END_BLOCK_OFFSET + 1 + t \notin Blocks
        BY Geometry DEF Blocks, TO_END_BLOCK_OFFSET
      <4> QED
        BY <1>6, <2>1, <3>1, <4>1
    <3>2. CASE j # k
      <4>1. j \in 0 .. k - 1 /\ j + 1 \in 0 .. k
        BY <1>5, <3>2
      <4> QED
        BY <1>6, <4>1 DEF Links
    <3> QED
      BY <3>1, <3>2
  <2> QED
    BY <1>5, <1>8, <1>10, <2>1
<1> HIDE DEF P
<1>12. PICK new \in Maps : GivesUp(own, Touched, P, nm, new)
  BY <1>2, MapWithout
<1>13. \A c \in Blocks : new[c] = IF own[c] = nm THEN (IF c \in P THEN nm ELSE NoName) ELSE own[c]
  BY <1>2, <1>12 DEF GivesUp
<1>14. Closed(new, mfat)
  <2> SUFFICES ASSUME NEW c \in Blocks, new[c] # NoName, mfat[c] \in Blocks
               PROVE  new[mfat[c]] = new[c]
    BY DEF Closed
  <2>1. own[c] # NoName /\ own[mfat[c]] = own[c]
    BY <1>2, <1>13 DEF Held, Closed
  <2> QED
    BY <1>11, <1>13, <2>1
<1>15. Placed(new, mdir)
  <2> SUFFICES ASSUME NEW e \in Entries, mdir[e].name # NoName, mdir[e].first \in Blocks
               PROVE  new[mdir[e].first] = mdir[e].name
    BY DEF Placed
  <2>1. own[mdir[e].first] = mdir[e].name
    BY DEF Held, Placed
  <2>2. CASE mdir[e].name = nm
    <3>1. e = n
      BY <1>1, <1>2, <1>3, <2>2 DEF Distinct
    <3> QED
      BY <1>6, <1>7, <1>11, <1>13, <2>1, <2>2, <3>1
  <2>3. CASE mdir[e].name # nm
    BY <1>13, <2>1, <2>3
  <2> QED
    BY <2>2, <2>3
<1>16. InUse(new, mfat, {})
  <2> SUFFICES ASSUME NEW c \in Blocks, new[c] # NoName PROVE mfat[c] # TO_TAG_FREE
    BY DEF InUse
  <2>1. CASE own[c] = nm
    BY <1>11, <1>13, <2>1
  <2>2. CASE own[c] # nm
    BY <1>2, <1>13, <2>2 DEF Held, InUse
  <2> QED
    BY <2>1, <2>2
<1>17. pc' = "idle" /\ Touched' = {} /\ Slack' = {}
  BY DEF Return, Touched, Slack, NoCmd
<1> QED
  BY <1>14, <1>15, <1>16, <1>17 DEF Held, Closed, Placed, InUse

\* After a crash in an addition the blocks it took from the free ones are lost
\* or free, and nobody's.
LEMMA HeldCrash ==
    ASSUME FillInv, NEW own \in Maps, Held(own), OnDisk, Crash,
           cmd.op = "add" => suspects = {}
    PROVE  \E new \in Maps : Held(new)'
<1>1. /\ TypeInv /\ UNCHANGED <<fat, dir>> /\ mfat' = fat /\ mdir' = dir
      /\ suspects' = suspects \cup Exposed
  BY DEF Crash, archive, FillInv, Basics
<1>2. pc' = "idle" /\ Touched' = {} /\ Slack' = {}
  BY DEF Crash, Return, Touched, Slack, NoCmd
<1>3. NoName \notin Touched /\ Touched \subseteq Names
  BY <1>1, TouchedNames
<1>4. PICK T : T = Slack \ (suspects \cup Exposed)
  OBVIOUS
<1>5. T \subseteq Touched
  BY <1>4 DEF Slack
<1>6. \A e \in Entries : dir[e].name \notin T
  <2> SUFFICES ASSUME NEW e \in Entries, dir[e].name \in T PROVE FALSE
    OBVIOUS
  <2>1. pc \in {"fill", "save"} /\ cmd.op = "add" /\ dir[e].name \in Touched \ Exposed
    BY <1>4 DEF Slack, Exposed, FillInv, Basics, TypeInv, RequestOK
  <2>2. kept[dir[e].name] = NoFile
    BY <2>1 DEF Exposed
  <2>3. Stands(dir[e].name, kept[dir[e].name], fat, dir, data)
    BY <1>3, <1>4, <1>5 DEF OnDisk
  <2> QED
    BY <2>2, <2>3 DEF Stands
<1>7. PICK new \in Maps : GivesUp(own, T, {}, NoName, new)
  BY MapWithout
<1>8. PICK S : S = suspects \cup Exposed
  OBVIOUS
<1>9. Closed(own, fat) /\ Placed(own, dir)
  BY DEF Held
<1>10. InUse(own, fat, S \cup T)
  BY <1>4, <1>8 DEF Held, InUse
<1>11. NoName \notin T
  BY <1>3, <1>5
<1>12. Closed(new, fat) /\ Placed(new, dir) /\ InUse(new, fat, S)
  BY <1>6, <1>7, <1>9, <1>10, <1>11, Forgetting
<1> QED
  BY <1>1, <1>2, <1>8, <1>12 DEF Held, Closed, Placed, InUse

-----------------------------------------------------------------------------
(***************************************************************************)
(* The whole, one step after the other.                                    *)
(***************************************************************************)
LEMMA SameDisk ==
    ASSUME OnDisk, UNCHANGED <<fat, dir, data, kept>>,
           suspects \cup Exposed \subseteq (suspects \cup Exposed)'
    PROVE  OnDisk'
BY DEF OnDisk

LEMMA NoneExposed == pc \notin {"fill", "save"} => Exposed = {}
BY DEF Exposed

\* Steps that change neither the disk nor the buffer, which is the disk's.
LEMMA QuietDisk ==
    ASSUME Cared, UNCHANGED <<fat, dir, data, mfat, mdir, suspects, kept>>,
           mfat = fat, mdir = dir,
           pc \notin {"fill", "save"}, pc' \notin {"delete", "fill", "save"}
    PROVE  (\E own \in Maps : Held(own)') /\ EntriesApart' /\ OnDisk'
<1>1. PICK own \in Maps : Held(own)
  BY DEF Cared
<1>2. Held(own)'
  BY <1>1, HeldSynced
<1>3. EntriesApart'
  BY DEF EntriesApart
<1>4. OnDisk'
  BY NoneExposed, SameDisk DEF Cared
<1> QED
  BY <1>2, <1>3, <1>4

LEMMA CaredQuiet ==
    ASSUME Cared, UNCHANGED <<fat, dir, data, mfat, mdir, suspects, kept>>,
           mfat = fat, mdir = dir,
           pc \notin {"fill", "save"}, pc' \notin {"delete", "fill", "save"},
           cmd'.op \notin {"add", "delete"}, pc' = "idle" => size' = 0
    PROVE  Cared'
<1>1. (\E own \in Maps : Held(own)') /\ EntriesApart' /\ OnDisk'
  BY QuietDisk
<1>2. Deleting' /\ Adding'
  BY DEF Deleting, Adding
<1> QED
  BY <1>1, <1>2 DEF Cared

\* Steps of one command that change neither of the two.
LEMMA DiskOn ==
    ASSUME Cared, UNCHANGED <<fat, dir, data, mfat, mdir, suspects, kept, cmd>>,
           pc \notin {"fill", "save"}, pc' \notin {"delete", "fill"}
    PROVE  (\E own \in Maps : Held(own)') /\ EntriesApart' /\ OnDisk'
<1>1. PICK own \in Maps : Held(own)
  BY DEF Cared
<1>2. Held(own)'
  BY <1>1, HeldOn
<1>3. EntriesApart'
  <2>1. Touched' = Touched
    BY DEF Touched
  <2> QED
    BY <2>1 DEF Cared, EntriesApart
<1>4. OnDisk'
  BY NoneExposed, SameDisk DEF Cared
<1> QED
  BY <1>2, <1>3, <1>4

LEMMA CaredCall ==
    ASSUME FillInv, Cared, Call, UNCHANGED <<suspects, kept>>, cmd'.op # "add"
    PROVE  Cared'
<1>1. mfat = fat /\ mdir = dir /\ pc = "idle" /\ i = 0 /\ size = 0
  <2>1. pc = "idle"
    BY DEF Call, AddNoFile, AddEmptyFile, AddDirFull, AddFile, DeleteFile, ExtractFile, ForEachFile
  <2> QED
    BY <2>1 DEF FillInv, Basics, Synced, IndexInv, Cared, Deleting
<1>2. CASE AddNoFile \/ \E f \in HostFiles : AddEmptyFile(f) \/ AddDirFull(f)
  <2>1. /\ UNCHANGED <<fat, dir, data, mfat, mdir>> /\ pc' = "idle" /\ cmd'.op = "none"
        /\ size' = 0
    <3>1. Return /\ UNCHANGED <<archive, buffer>>
      BY <1>2 DEF AddNoFile, AddEmptyFile, AddDirFull, Refuse
    <3> QED
      BY <3>1 DEF Return, NoCmd, archive, buffer
  <2> QED
    BY <1>1, <2>1, CaredQuiet
<1>3. CASE ExtractFile
  <2>1. /\ UNCHANGED <<fat, dir, data, mfat, mdir>> /\ pc' = "seek" /\ cmd'.op = "extract"
    BY <1>1, <1>3 DEF ExtractFile, ForEachFile, ReadTrack20, archive, NoCmd
  <2> QED
    BY <1>1, <2>1, CaredQuiet
<1>4. CASE DeleteFile
  <2>1. /\ UNCHANGED <<fat, dir, data, mfat, mdir>> /\ pc' = "seek" /\ cmd'.op = "delete" /\ i' = 0
        /\ ~cmd'.wild => \E nm \in Names : cmd'.pattern = {nm}
    BY <1>1, <1>4 DEF DeleteFile, ForEachFile, ReadTrack20, archive, locals, NoCmd
  <2>2. (\E own \in Maps : Held(own)') /\ EntriesApart' /\ OnDisk'
    BY <1>1, <2>1, QuietDisk
  <2>3. \A e \in Entries : e >= 0
    BY DEF Entries
  <2>4. Deleting' /\ Adding'
    BY <2>1, <2>3 DEF Deleting, Adding
  <2> QED
    BY <2>2, <2>4 DEF Cared
<1>5. ~ \E f \in HostFiles : AddFile(f)
  BY DEF AddFile, NoCmd
<1> QED
  BY <1>2, <1>3, <1>4, <1>5 DEF Call

\* Extraction and the end of commands that saved nothing.
LEMMA CaredRead ==
    ASSUME FillInv, Cared, UNCHANGED <<suspects, kept>>,
           \/ AddTooBig \/ SeekExtract \/ ExtractNoPerm \/ ReadBlock \/ ReadTail
           \/ SeekEnd /\ cmd.op # "delete"
    PROVE  Cared'
<1>1. mfat = fat /\ mdir = dir
  BY DEF AddTooBig, SeekExtract, ExtractNoPerm, ReadBlock, ReadTail, SeekEnd, FillInv, Basics,
         TypeInv, RequestOK, Synced
<1>2. /\ UNCHANGED <<fat, dir, data, mfat, mdir>> /\ pc \in {"check", "seek", "read"}
  BY DEF AddTooBig, SeekExtract, ExtractNoPerm, ReadBlock, ReadTail, SeekEnd, Refuse,
         archive, buffer
<1>3. CASE AddTooBig
  <2>1. pc' = "idle" /\ size' = 0 /\ cmd'.op = "none"
    BY <1>3 DEF AddTooBig, Refuse, Return, NoCmd
  <2> QED
    BY <1>1, <1>2, <2>1, CaredQuiet
<1>4. CASE ~AddTooBig
  <2>1. cmd.op = "extract"
    BY <1>4 DEF SeekExtract, ExtractNoPerm, ReadBlock, ReadTail, SeekEnd, FillInv, Basics,
                TypeInv, RequestOK
  <2>2. \/ pc' \in {"seek", "read"} /\ cmd' = cmd
        \/ pc' = "idle" /\ size' = 0 /\ cmd'.op = "none"
    <3>1. \/ pc' \in {"seek", "read"} /\ cmd' = cmd
          \/ pc' = "idle" /\ size' = 0 /\ cmd' = NoCmd
      BY <1>4, <2>1 DEF SeekExtract, ExtractNoPerm, ReadBlock, ReadTail, SeekEnd, StartSave, Return
    <3> QED
      BY <3>1 DEF NoCmd
  <2> QED
    BY <1>1, <1>2, <2>1, <2>2, CaredQuiet
<1> QED
  BY <1>3, <1>4

\* sap_AddFile finds the file of the entry it replaces on the disk.
LEMMA CaredAddFile ==
    ASSUME FillInv, Cared, NEW f \in HostFiles, AddFile(f),
           suspects = {}, suspects' = {}, kept' = kept
    PROVE  Cared'
<1>1. /\ pc = "idle" /\ mfat = fat /\ mdir = dir /\ size = 0 /\ Distinct(dir, dir)
      /\ TypeOK
  BY DEF AddFile, FillInv, Basics, TypeInv, Synced, Cared, Deleting, NamesInv
<1>2. /\ UNCHANGED <<fat, dir, data, mfat, mdir>> /\ size' = 0
      /\ cmd'.op = "add" /\ cmd'.file = f /\ pc' \in {"size", "check"}
  BY <1>1 DEF AddFile, ReadTrack20, archive, NoCmd
<1>3. (\E own \in Maps : Held(own)') /\ EntriesApart' /\ OnDisk'
  BY <1>1, <1>2, QuietDisk
<1>4. Deleting'
  BY <1>2 DEF Deleting
<1>5. PICK nm \in Names : nm = EntryName[f] /\ nm # NoName
  BY FilesAssumption
<1>6. Touched' = {nm}
  BY <1>2, <1>5 DEF Touched
<1>7. CASE PrevSlots(f) # {}
  <2>1. pc' = "size" /\ n' = Min(PrevSlots(f)) /\ block' = dir[n'].first
    BY <1>7 DEF AddFile
  <2>2. PICK e \in Entries : e = n' /\ dir[e].name = nm
    BY <1>5, <1>7, <2>1, SlotFound DEF PrevSlots
  <2>3. Stands(nm, kept[nm], fat, dir, data)
    BY <1>1, NoneExposed DEF Cared, OnDisk
  <2>4. PICK g \in HostFiles : \E e2 \in Entries :
           dir[e2].name = nm /\ Holds(fat, data, dir[e2].first, dir[e2].end, g)
    BY <2>2, <2>3 DEF Stands
  <2>5. Holds(fat, data, dir[e].first, dir[e].end, g)
    BY <1>1, <1>5, <2>2, <2>4 DEF Distinct
  <2>6. PICK q \in Paths, k \in 0 .. TO_FILESIZE_MAX, t \in 0 .. SectPerBlock - 1 :
           FileAt(fat, data, dir[e].first, dir[e].end, g, q, k, t)
    BY <2>5 DEF Holds
  <2>7. PathOf(q, k)'
    BY <1>2, <2>2, <2>6 DEF PathOf
  <2>8. size' =< k + 1 /\ block' = q[size'] /\ size' =< k
    BY <1>2, <2>1, <2>2, <2>6, Geometry DEF FileAt
  <2>9. Measured'
    BY <2>7, <2>8 DEF Measured
  <2>10. Adding'
    BY <1>1, <1>2, <1>5, <1>6, <2>1, <2>2, <2>9 DEF Adding
  <2> QED
    BY <1>3, <1>4, <2>10 DEF Cared
<1>8. CASE PrevSlots(f) = {}
  <2>1. pc' = "check" /\ n' = Min(FreeSlots) /\ FreeSlots # {}
    BY <1>8 DEF AddFile
  <2>2. n' \in Entries /\ dir[n'].name = NoName
    BY <2>1, SlotFound DEF FreeSlots
  <2>3. Adding'
    BY <1>1, <1>2, <2>1, <2>2 DEF Adding, ToFree
  <2> QED
    BY <1>3, <1>4, <2>3 DEF Cared
<1> QED
  BY <1>7, <1>8

\* get_file_size follows the path of the file as far as it goes, or to its cap.
LEMMA CaredSize ==
    ASSUME FillInv, Cared, SizeStep, UNCHANGED <<suspects, kept>>
    PROVE  Cared'
<1>1. /\ mfat = fat /\ mdir = dir /\ pc = "size" /\ cmd.op = "add"
      /\ UNCHANGED <<fat, dir, data, mfat, mdir, cmd, n>> /\ pc' \in {"size", "check"}
      /\ size \in Nat
  BY DEF SizeStep, FillInv, Basics, TypeInv, TypeOK, RequestOK, Synced, archive, buffer
<1>2. (\E own \in Maps : Held(own)') /\ EntriesApart' /\ OnDisk'
  BY <1>1, QuietDisk
<1>3. Deleting'
  BY <1>1 DEF Deleting
<1>4. Touched' = Touched
  BY <1>1 DEF Touched
<1>5. mdir[n].name # NoName /\ Measured
  BY <1>1 DEF Cared, Adding
<1>6. PICK q \in Paths, k \in 0 .. TO_FILESIZE_MAX :
         /\ PathOf(q, k) /\ size =< k + 1
         /\ block = IF size =< k THEN q[size] ELSE fat[q[k]]
  BY <1>5 DEF Measured
<1>7. PathOf(q, k)'
  BY <1>1, <1>6 DEF PathOf
<1>8. CASE pc' = "check"
  <2>1. size' = size
    BY <1>1, <1>8 DEF SizeStep
  <2>2. ToFree'
    BY <1>1, <1>5, <1>6, <1>7, <2>1 DEF ToFree
  <2>3. Adding'
    BY <1>1, <1>4, <1>8, <2>2 DEF Cared, Adding
  <2> QED
    BY <1>2, <1>3, <2>3 DEF Cared
<1>9. CASE pc' # "check"
  <2>1. pc' = "size" /\ block < NBlocks /\ size' = size + 1 /\ block' = fat[block]
    BY <1>1, <1>9 DEF SizeStep, InChain
  <2>2. PICK f \in HostFiles, t \in 0 .. SectPerBlock - 1 :
           FileAt(fat, data, dir[n].first, dir[n].end, f, q, k, t)
    BY <1>6 DEF PathOf
  <2>3. fat[q[k]] = TO_END_BLOCK_OFFSET + 1 + t /\ \A j \in 0 .. k - 1 : fat[q[j]] = q[j + 1]
    BY <2>2 DEF FileAt, FullBlocks, Links
  <2>4. k \in Nat
    BY Geometry
  <2>5. size =< k
    <3>1. TO_END_BLOCK_OFFSET + 1 + t >= NBlocks
      BY Geometry DEF TO_END_BLOCK_OFFSET
    <3>2. ~(size =< k) => block = TO_END_BLOCK_OFFSET + 1 + t
      BY <1>6, <2>3
    <3>3. PICK last \in Int : last = TO_END_BLOCK_OFFSET + 1 + t
      BY Geometry DEF TO_END_BLOCK_OFFSET
    <3>4. ~(size =< k) => last < NBlocks
      BY <2>1, <3>2, <3>3
    <3> QED
      BY <1>1, <2>4, <3>1, <3>3, <3>4, Geometry
  <2>6. block' = IF size' =< k THEN q[size'] ELSE fat[q[k]]
    <3>1. block' = fat[q[size]]
      BY <1>6, <2>1, <2>5
    <3>2. CASE size = k
      BY <1>1, <2>1, <2>4, <3>1, <3>2
    <3>3. CASE size # k
      <4>1. size \in 0 .. k - 1 /\ size + 1 =< k
        BY <1>1, <2>4, <2>5, <3>3
      <4> QED
        BY <2>1, <2>3, <3>1, <4>1
    <3> QED
      BY <3>2, <3>3
  <2>7. size' =< k + 1
    BY <1>1, <2>1, <2>4, <2>5
  <2>8. Measured'
    BY <1>1, <1>7, <2>6, <2>7 DEF Measured
  <2>9. Adding'
    BY <1>1, <1>4, <1>5, <2>1, <2>8 DEF Cared, Adding
  <2> QED
    BY <1>2, <1>3, <2>9 DEF Cared
<1> QED
  BY <1>8, <1>9

LEMMA CaredCheck ==
    ASSUME FillInv, Cared, CheckStep, UNCHANGED <<suspects, kept>>
    PROVE  Cared'
<1>1. /\ mfat = fat /\ mdir = dir /\ pc = "check" /\ cmd.op = "add"
      /\ UNCHANGED <<fat, dir, data, mfat, cmd, n>>
      /\ size \in 0 .. TO_FILESIZE_MAX /\ n \in Entries /\ TypeInv /\ TypeOK
  BY DEF CheckStep, FillInv, Basics, TypeInv, TypeOK, RequestOK, Synced, archive
<1>2. Room(get_dskf(mfat) + size, Size[cmd.file])
  BY DEF CheckStep, EnoughSpace, Room
<1>3. get_dskf(mfat) \in Nat
  BY FreeFinite
<1>4. Touched' = Touched
  BY <1>1 DEF Touched
<1>5. /\ suspects = {} /\ ToFree
      /\ dir[n].name \in Touched \cup {NoName} /\ mdir[n].name \in Touched \cup {NoName}
  BY <1>1 DEF Cared, Adding
<1>6. CASE mdir[n].name = NoName
  <2>1. pc' = "alloc" /\ mdir' = mdir
    BY <1>6 DEF CheckStep
  <2>2. (\E own \in Maps : Held(own)') /\ EntriesApart' /\ OnDisk'
    BY <1>1, <2>1, QuietDisk
  <2>3. size = 0
    BY <1>5, <1>6 DEF ToFree
  <2>4. Room(get_dskf(mfat'), Size[cmd'.file])
    BY <1>1, <1>2, <1>3, <2>3
  <2>5. Deleting' /\ Adding'
    BY <1>1, <1>4, <1>5, <2>1, <2>4 DEF Deleting, Adding
  <2> QED
    BY <2>2, <2>5 DEF Cared
<1>7. CASE mdir[n].name # NoName
  <2>1. StartDelete(n)
    BY <1>7 DEF CheckStep
  <2>2. /\ pc' = "delete" /\ block' = dir[n].first /\ size' = 0
        /\ \A e \in Entries : e # n => mdir'[e] = mdir[e]
        /\ mdir'[n].name = NoName
    BY <1>1, <2>1 DEF StartDelete, TypeOK, Entry
  <2>3. PICK own \in Maps : Held(own)
    BY DEF Cared
  <2>4. mdir[n].name \in Touched
    BY <1>5, <1>7
  <2>5. Held(own)'
    BY <1>1, <2>1, <2>3, <2>4, HeldDropped
  <2>6. EntriesApart'
    BY <1>1, <1>4, <1>5, <2>2 DEF EntriesApart
  <2>7. OnDisk'
    BY <1>1, SameDisk, NoneExposed DEF Cared
  <2>8. Deleting'
    BY <1>1, <2>2 DEF Deleting
  <2>9. PICK q \in Paths, k \in 0 .. TO_FILESIZE_MAX : PathOf(q, k) /\ size =< k + 1
    BY <1>5, <1>7 DEF ToFree
  <2>10. PathOf(q, k)' /\ q[0] = dir[n].first
    BY <1>1, <2>9 DEF PathOf, FileAt
  <2>11. BeingFreed'
    <3>1. PICK total \in 0 .. TO_FILESIZE_MAX : total = size
      BY <1>1
    <3>2. Room(get_dskf(mfat') + (IF size' < total THEN total - size' ELSE 0), Size[cmd'.file])
      <4>1. (IF size' < total THEN total - size' ELSE 0) = total
        BY <2>2, <3>1, Geometry
      <4> QED
        BY <1>1, <1>2, <3>1, <4>1
    <3>3. size' < total => block' = q[size']
      BY <2>2, <2>10
    <3> QED
      BY <1>1, <2>9, <2>10, <3>1, <3>2, <3>3 DEF BeingFreed
  <2>12. Adding'
    BY <1>1, <1>4, <1>5, <2>2, <2>11 DEF Adding
  <2> QED
    BY <2>5, <2>6, <2>7, <2>8, <2>12 DEF Cared
<1> QED
  BY <1>6, <1>7

\* Freeing a block twice gives nothing, but takes nothing either.
LEMMA FreesSome ==
    ASSUME NEW F \in [Blocks -> Byte], NEW b \in Blocks
    PROVE  /\ get_dskf([F EXCEPT ![b] = TO_TAG_FREE]) >= get_dskf(F)
           /\ F[b] # TO_TAG_FREE => get_dskf([F EXCEPT ![b] = TO_TAG_FREE]) = get_dskf(F) + 1
<1> DEFINE G == [F EXCEPT ![b] = TO_TAG_FREE]
<1>1. get_dskf(F) \in Nat
  BY FreeFinite
<1>2. F[b] = TO_TAG_FREE => G = F
  OBVIOUS
<1>3. F[b] # TO_TAG_FREE => get_dskf(G) = get_dskf(F) + 1
  BY OneMoreFree
<1> HIDE DEF G
<1>4. get_dskf(G) >= get_dskf(F)
  BY <1>1, <1>2, <1>3
<1> QED
  BY <1>3, <1>4 DEF G

LEMMA CaredFreed ==
    ASSUME FillInv, Cared, DeleteStep, UNCHANGED <<suspects, kept>>
    PROVE  Cared'
<1>1. /\ TypeInv /\ TypeOK /\ pc = "delete" /\ pc' = "delete" /\ block \in Blocks
      /\ UNCHANGED <<fat, dir, data, mdir, cmd, n, i>>
      /\ block' = mfat[block] /\ mfat' = [mfat EXCEPT ![block] = TO_TAG_FREE]
      /\ size' = size + 1 /\ size \in Nat
      /\ mfat \in [Blocks -> Byte]
  BY CursorInBlocks DEF DeleteStep, archive, FillInv, Basics, TypeInv, TypeOK
<1>2. PICK own \in Maps : Held(own)
  BY DEF Cared
<1>3. Held(own)'
  BY <1>1, <1>2, HeldFreed
<1>4. Touched' = Touched
  BY <1>1 DEF Touched
<1>5. EntriesApart' /\ Deleting'
  BY <1>1, <1>4 DEF Cared, EntriesApart, Deleting
<1>6. OnDisk'
  BY <1>1, SameDisk, NoneExposed DEF Cared
<1>7. CASE cmd.op # "add"
  BY <1>1, <1>3, <1>5, <1>6, <1>7 DEF Cared, Adding
<1>8. CASE cmd.op = "add"
  <2>1. /\ suspects = {} /\ BeingFreed
        /\ dir[n].name \in Touched \cup {NoName} /\ mdir[n].name \in Touched \cup {NoName}
    BY <1>1, <1>8 DEF Cared, Adding
  <2>2. PICK q \in Paths, k \in 0 .. TO_FILESIZE_MAX, total \in 0 .. TO_FILESIZE_MAX :
           /\ PathOf(q, k) /\ total =< k + 1
           /\ Room(get_dskf(mfat) + (IF size < total THEN total - size ELSE 0), Size[cmd.file])
           /\ size < total => block = q[size]
           /\ \A j \in 0 .. k : size =< j /\ j < total => mfat[q[j]] = fat[q[j]]
    BY <2>1 DEF BeingFreed
  <2>3. PICK f \in HostFiles, t \in 0 .. SectPerBlock - 1 :
           FileAt(fat, data, dir[n].first, dir[n].end, f, q, k, t)
    BY <2>2 DEF PathOf
  <2>4. k \in Nat /\ total \in Nat
    BY Geometry
  <2> DEFINE first == dir[n].first
             end   == dir[n].end
  <2>5. FileAt(fat, data, first, end, f, q, k, t)
    BY <2>3
  <2>6. \A j \in 0 .. k - 1 : fat[q[j]] = q[j + 1]
    BY <2>3 DEF FileAt, FullBlocks, Links
  <2> HIDE DEF first, end
  <2>7. \A j \in 0 .. k : q[j] \in Blocks /\ fat[q[j]] # TO_TAG_FREE
    BY <2>4, <2>5, PathUsed
  <2>8. \A j1, j2 \in 0 .. k : q[j1] = q[j2] => j1 = j2
    BY <2>4, <2>5, PathDistinct
  <2>9. get_dskf(mfat) \in Nat /\ get_dskf(mfat') \in Nat
    BY FreeFinite
  <2>10. /\ get_dskf(mfat') >= get_dskf(mfat)
         /\ mfat[block] # TO_TAG_FREE => get_dskf(mfat') = get_dskf(mfat) + 1
    BY <1>1, FreesSome
  <2>11. Room(get_dskf(mfat') + (IF size' < total THEN total - size' ELSE 0), Size[cmd.file])
    <3>1. Size[cmd.file] \in Nat
      BY <1>1, <1>8, FilesAssumption DEF TypeInv, RequestOK
    <3>2. CASE size < total
      <4>1. size \in 0 .. k
        BY <1>1, <2>2, <2>4, <3>2
      <4>2. mfat[block] # TO_TAG_FREE
        BY <2>2, <2>7, <3>2, <4>1
      <4>3. /\ get_dskf(mfat') + (IF size' < total THEN total - size' ELSE 0)
               = get_dskf(mfat) + (IF size < total THEN total - size ELSE 0)
        BY <1>1, <2>4, <2>9, <2>10, <3>2, <4>2
      <4> QED
        BY <2>2, <4>3
    <3>3. CASE ~ (size < total)
      <4>1. /\ (IF size < total THEN total - size ELSE 0) = 0
            /\ (IF size' < total THEN total - size' ELSE 0) = 0
        BY <1>1, <2>4, <3>3
      <4>2. Room(get_dskf(mfat), Size[cmd.file])
        BY <2>2, <2>9, <4>1
      <4>3. Room(get_dskf(mfat'), Size[cmd.file])
        BY <2>9, <2>10, <3>1, <4>2, MoreRoom
      <4> QED
        BY <2>9, <4>1, <4>3
    <3> QED
      BY <3>2, <3>3
  <2>12. size' < total => block' = q[size']
    <3> SUFFICES ASSUME size' < total PROVE block' = q[size']
      OBVIOUS
    <3>1. size \in 0 .. k - 1 /\ size < total /\ size \in 0 .. k /\ size =< size
      BY <1>1, <2>2, <2>4
    <3>2. block = q[size] /\ mfat[q[size]] = fat[q[size]]
      BY <2>2, <3>1
    <3> QED
      BY <1>1, <2>6, <3>1, <3>2
  <2>13. \A j \in 0 .. k : size' =< j /\ j < total => mfat'[q[j]] = fat[q[j]]
    <3> SUFFICES ASSUME NEW j \in 0 .. k, size' =< j, j < total PROVE mfat'[q[j]] = fat[q[j]]
      OBVIOUS
    <3>1. size \in 0 .. k /\ size < total /\ size # j /\ size =< j
      BY <1>1, <2>4
    <3>2. block = q[size] /\ q[j] # block
      BY <2>2, <2>8, <3>1
    <3>3. mfat[q[j]] = fat[q[j]] /\ q[j] \in Blocks
      BY <2>2, <2>7, <3>1
    <3> QED
      BY <1>1, <3>2, <3>3
  <2>14. PathOf(q, k)'
    BY <1>1, <2>2 DEF PathOf
  <2>15. BeingFreed'
    BY <1>1, <2>2, <2>11, <2>12, <2>13, <2>14 DEF BeingFreed
  <2>16. Adding'
    BY <1>1, <1>4, <1>8, <2>1, <2>15 DEF Adding
  <2> QED
    BY <1>3, <1>5, <1>6, <2>16 DEF Cared
<1> QED
  BY <1>7, <1>8

LEMMA CaredDeleted ==
    ASSUME FillInv, Cared, DeleteDone, UNCHANGED <<suspects, kept>>
    PROVE  Cared'
<1>1. /\ TypeInv /\ pc = "delete" /\ ~InChain(block) /\ cmd.op \in {"add", "delete"}
      /\ UNCHANGED <<fat, dir, data, mfat, mdir, cmd, n, i>>
      /\ pc' \in {"alloc", "seek", "save"} /\ size \in Nat
  BY DEF DeleteDone, StartSave, archive, buffer, FillInv, Basics, TypeInv, TypeOK, RequestOK
<1>2. (\E own \in Maps : Held(own)') /\ EntriesApart' /\ OnDisk'
  BY <1>1, DiskOn
<1>3. Touched' = Touched
  BY <1>1 DEF Touched
<1>4. CASE cmd.op = "delete"
  <2>1. pc' = IF cmd.wild THEN "seek" ELSE "save"
    BY <1>4 DEF DeleteDone, StartSave
  <2>2. Deleting'
    BY <1>1, <1>4, <2>1 DEF Cared, Deleting
  <2> QED
    BY <1>1, <1>2, <1>4, <2>2 DEF Cared, Adding
<1>5. CASE cmd.op = "add"
  <2>1. /\ suspects = {} /\ BeingFreed
        /\ dir[n].name \in Touched \cup {NoName} /\ mdir[n].name \in Touched \cup {NoName}
    BY <1>1, <1>5 DEF Cared, Adding
  <2>2. PICK q \in Paths, k \in 0 .. TO_FILESIZE_MAX, total \in 0 .. TO_FILESIZE_MAX :
           /\ PathOf(q, k) /\ total =< k + 1
           /\ Room(get_dskf(mfat) + (IF size < total THEN total - size ELSE 0), Size[cmd.file])
           /\ size < total => block = q[size]
    BY <2>1 DEF BeingFreed
  <2>3. k \in Nat /\ total \in Nat /\ TO_FILESIZE_MAX \in Nat /\ get_dskf(mfat) \in Nat
    BY Geometry, FreeFinite
  <2>4. PICK f \in HostFiles, t \in 0 .. SectPerBlock - 1 :
           FileAt(fat, data, dir[n].first, dir[n].end, f, q, k, t)
    BY <2>2 DEF PathOf
  <2> DEFINE first == dir[n].first
             end   == dir[n].end
  <2>5. FileAt(fat, data, first, end, f, q, k, t)
    BY <2>4
  <2> HIDE DEF first, end
  <2>6. \A j \in 0 .. k : q[j] \in Blocks
    BY <2>3, <2>5, PathUsed
  <2>7. ~ (size < total)
    <3> SUFFICES ASSUME size < total PROVE FALSE
      OBVIOUS
    <3>1. size \in 0 .. k /\ size < TO_FILESIZE_MAX
      BY <1>1, <2>2, <2>3
    <3>2. block \in Blocks
      BY <2>2, <2>6, <3>1
    <3>3. block < NBlocks
      BY <3>2, Geometry DEF Blocks
    <3> QED
      BY <1>1, <3>1, <3>3 DEF InChain
  <2>8. Room(get_dskf(mfat), Size[cmd.file])
    <3>1. (IF size < total THEN total - size ELSE 0) = 0
      BY <2>7
    <3> QED
      BY <2>2, <2>3, <3>1
  <2>9. pc' = "alloc"
    BY <1>5 DEF DeleteDone
  <2>10. Deleting' /\ Adding'
    BY <1>1, <1>3, <1>5, <2>1, <2>8, <2>9 DEF Deleting, Adding
  <2> QED
    BY <1>2, <2>10 DEF Cared
<1> QED
  BY <1>1, <1>4, <1>5

LEMMA CaredSeek ==
    ASSUME FillInv, Cared, SeekDelete, UNCHANGED <<suspects, kept>>
    PROVE  Cared'
<1>1. /\ TypeInv /\ TypeOK /\ pc = "seek" /\ cmd.op = "delete" /\ Distinct(mdir, mdir)
      /\ UNCHANGED <<fat, dir, data, mfat, cmd>>
      /\ Found(n') /\ StartDelete(n') /\ n' = Min(Matches) /\ Matches # {}
  BY DEF SeekDelete, archive, FillInv, Basics, TypeInv, NamesInv
<1>2. PICK e \in Entries : e = n' /\ mdir[e].name \in cmd.pattern
  BY <1>1, SlotFound DEF Matches
<1>3. Touched = cmd.pattern /\ Touched' = Touched /\ NoName \notin Touched
  BY <1>1, TouchedNames DEF Touched
<1>4. /\ pc' = "delete"
      /\ \A d \in Entries : d # e => mdir'[d] = mdir[d]
      /\ mdir'[e].name = NoName
  BY <1>1, <1>2 DEF StartDelete, TypeOK, Entry
<1>5. PICK own \in Maps : Held(own)
  BY DEF Cared
<1>6. Held(own)'
  <2>1. StartDelete(e) /\ mdir[e].name \in Touched
    BY <1>1, <1>2, <1>3
  <2> QED
    BY <1>1, <1>5, <2>1, HeldDropped
<1>7. EntriesApart'
  <2>1. ASSUME NEW d \in Entries, mdir'[d] # dir[d]
        PROVE  dir[d].name \in Touched \cup {NoName} /\ mdir'[d].name \in Touched \cup {NoName}
    <3>1. CASE d = e
      <4>1. mdir[e] = dir[e] => dir[e].name \in Touched
        BY <1>2, <1>3
      <4> QED
        BY <1>4, <3>1, <4>1 DEF Cared, EntriesApart
    <3>2. CASE d # e
      BY <1>4, <2>1, <3>2 DEF Cared, EntriesApart
    <3> QED
      BY <3>1, <3>2
  <2> QED
    BY <1>1, <1>3, <2>1 DEF EntriesApart
<1>8. OnDisk'
  BY <1>1, SameDisk, NoneExposed DEF Cared
<1>9. Deleting'
  <2> SUFFICES ASSUME NEW d \in Entries, mdir'[d].name \in cmd.pattern
               PROVE  d >= i' /\ cmd.wild
    BY <1>1, <1>4 DEF Cared, Deleting
  <2>1. d # e /\ mdir[d].name \in cmd.pattern
    BY <1>3, <1>4
  <2>2. d >= i
    BY <1>1, <2>1 DEF Cared, Deleting
  <2>3. cmd.wild
    <3> SUFFICES ASSUME ~cmd.wild PROVE FALSE
      OBVIOUS
    <3>1. PICK nm \in Names : cmd.pattern = {nm}
      BY <1>1 DEF Cared, Deleting
    <3>2. mdir[d].name = mdir[e].name /\ mdir[d].name # NoName
      BY <1>2, <1>3, <2>1, <3>1
    <3> QED
      BY <1>1, <2>1, <3>2 DEF Distinct
  <2>4. d \in Matches /\ Matches \subseteq Nat
    BY <2>1, <2>2, <2>3 DEF Matches, SearchFrom, SlotsOf, Entries
  <2>5. d >= e
    BY <1>1, <1>2, <2>4, MinMember
  <2>6. i' = e + 1
    BY <1>1, <1>2, <2>3 DEF Found
  <2>7. d >= i'
    <3>1. d \in Int /\ e \in Int /\ d # e
      BY <2>1 DEF Entries
    <3> QED
      BY <2>5, <2>6, <3>1
  <2> QED
    BY <2>3, <2>7
<1>10. Adding'
  BY <1>1 DEF Adding
<1> QED
  BY <1>6, <1>7, <1>8, <1>9, <1>10 DEF Cared

LEMMA CaredSought ==
    ASSUME FillInv, Cared, SeekEnd, cmd.op = "delete", UNCHANGED <<suspects, kept>>
    PROVE  Cared'
<1>1. /\ pc = "seek" /\ pc' = "save" /\ Matches = {}
      /\ UNCHANGED <<fat, dir, data, mfat, mdir, cmd>>
  BY DEF SeekEnd, StartSave, archive, buffer
<1>2. (\E own \in Maps : Held(own)') /\ EntriesApart' /\ OnDisk'
  BY <1>1, DiskOn
<1>3. \A e \in Entries : mdir[e].name \notin cmd.pattern
  <2>1. \A e \in Entries : mdir[e].name \in cmd.pattern => e >= i /\ e >= 0
    BY <1>1 DEF Cared, Deleting, Entries
  <2> QED
    BY <1>1, <2>1 DEF Matches, SearchFrom, SlotsOf
<1>4. Deleting' /\ Adding'
  BY <1>1, <1>3 DEF Cared, Deleting, Adding
<1> QED
  BY <1>2, <1>4 DEF Cared

LEMMA CaredAlloc ==
    ASSUME FillInv, Cared, AllocFirst, UNCHANGED <<suspects, kept>>
    PROVE  Cared'
<1>1. /\ TypeInv /\ pc = "alloc" /\ pc' = "fill" /\ cmd.op = "add" /\ Size[cmd.file] > 0
      /\ UNCHANGED <<fat, dir, data, mfat, mdir, cmd, n>>
  BY DEF AllocFirst, archive, buffer, FillInv, Basics, TypeInv, RequestOK, Request
<1>2. /\ suspects = {} /\ Room(get_dskf(mfat), Size[cmd.file])
      /\ dir[n].name \in Touched \cup {NoName} /\ mdir[n].name \in Touched \cup {NoName}
  BY <1>1 DEF Cared, Adding
<1>3. block' \in Blocks /\ Room(get_dskf(mfat), left)'
  BY <1>1, <1>2, FirstFound
<1>4. PICK own \in Maps : Held(own)
  BY DEF Cared
<1>5. \E new \in Maps : Held(new)'
  BY <1>2, <1>3, <1>4, HeldFirst
<1>6. Touched' = Touched
  BY <1>1 DEF Touched
<1>7. EntriesApart' /\ Deleting'
  BY <1>1, <1>6 DEF Cared, EntriesApart, Deleting
<1>8. OnDisk'
  BY <1>1, SameDisk, NoneExposed DEF Cared
<1>9. Adding'
  BY <1>1, <1>2, <1>3, <1>6 DEF Adding
<1> QED
  BY <1>5, <1>7, <1>8, <1>9 DEF Cared

\* Names whose blocks and entries a step leaves alone.
LEMMA LeftAlone ==
    ASSUME NEW own \in Maps, Held(own), NEW nm \in Names, NEW g, Stands(nm, g, fat, dir, data),
           \A c \in Blocks : own[c] = nm =>
               /\ fat'[c] = fat[c]
               /\ \A s \in 0 .. SectPerBlock - 1 :
                     data'[c * SectPerBlock + s] = data[c * SectPerBlock + s],
           \A e \in Entries : dir[e].name = nm \/ dir'[e].name = nm => dir'[e] = dir[e]
    PROVE  Stands(nm, g, fat', dir', data')
<1>1. Closed(own, fat) /\ Placed(own, dir)
  BY DEF Held
<1> QED
  BY <1>1, StillStands

\* Data is written into blocks of the name that is added.
LEMMA FilledApart ==
    ASSUME TypeInv, NEW own \in Maps, Held(own), OnDisk, pc = "fill", block \in Blocks,
           cmd.op = "add", NEW count \in 0 .. SectPerBlock, NEW from,
           data' = WriteSectors(block, count, from),
           UNCHANGED <<fat, dir, kept, suspects, cmd>>,
           pc' = "fill" \/ (pc' = "save" /\ sect' = 1)
    PROVE  OnDisk'
<1>1. Touched' = Touched /\ Exposed' = Exposed
  BY DEF Touched, Exposed
<1> SUFFICES ASSUME NEW nm \in Names \ (suspects \cup Exposed)
             PROVE  Stands(nm, kept[nm], fat', dir', data')
  BY <1>1 DEF OnDisk
<1>2. Stands(nm, kept[nm], fat, dir, data)
  BY DEF OnDisk
<1>3. CASE kept[nm] = NoFile
  BY <1>2, <1>3 DEF Stands
<1>4. CASE kept[nm] # NoFile
  <2>1. nm \notin Touched /\ own[block] \in Touched
    BY <1>4 DEF Exposed, Held
  <2>2. \A c \in Blocks : own[c] = nm =>
           \A s \in 0 .. SectPerBlock - 1 :
              data'[c * SectPerBlock + s] = data[c * SectPerBlock + s]
    BY <2>1, DataKept
  <2>3. \A c \in Blocks : own[c] = nm =>
           /\ fat'[c] = fat[c]
           /\ \A s \in 0 .. SectPerBlock - 1 :
                 data'[c * SectPerBlock + s] = data[c * SectPerBlock + s]
    BY <2>2
  <2>4. \A e \in Entries : dir'[e] = dir[e]
    OBVIOUS
  <2> QED
    BY <1>2, <2>3, <2>4, LeftAlone
<1> QED
  BY <1>3, <1>4

LEMMA CaredFill ==
    ASSUME FillInv, Cared, FillBlock, UNCHANGED <<suspects, kept>>
    PROVE  Cared'
<1>1. /\ TypeInv /\ pc = "fill" /\ pc' = "fill" /\ cmd.op = "add" /\ block \in Blocks
      /\ UNCHANGED <<fat, dir, mdir, cmd, n>>
      /\ data' = WriteSectors(block, SectPerBlock, NextSector)
      /\ mfat[block] = TO_TAG_FREE
  BY DEF FillBlock, FillInv, Basics, TypeInv, RequestOK, Filling
<1>2. /\ suspects = {} /\ Room(get_dskf(mfat), left)
      /\ dir[n].name \in Touched \cup {NoName} /\ mdir[n].name \in Touched \cup {NoName}
  BY <1>1 DEF Cared, Adding
<1>3. block' \in Blocks /\ Room(get_dskf(mfat), left)'
  BY <1>1, <1>2, NextFound
<1>4. PICK own \in Maps : Held(own)
  BY DEF Cared
<1>5. \E new \in Maps : Held(new)'
  BY <1>2, <1>3, <1>4, HeldLinked
<1>6. Touched' = Touched
  BY <1>1 DEF Touched
<1>7. EntriesApart' /\ Deleting'
  BY <1>1, <1>6 DEF Cared, EntriesApart, Deleting
<1>8. OnDisk'
  <2>1. SectPerBlock \in 0 .. SectPerBlock /\ OnDisk
    BY Geometry DEF Cared
  <2> QED
    BY <1>1, <1>4, <2>1, FilledApart
<1>9. Adding'
  BY <1>1, <1>2, <1>3, <1>6 DEF Adding
<1> QED
  BY <1>5, <1>7, <1>8, <1>9 DEF Cared

LEMMA CaredTail ==
    ASSUME FillInv, Cared, FillTail, UNCHANGED <<suspects, kept>>
    PROVE  Cared'
<1> DEFINE full == (left - 1) \div SectSize
<1>1. /\ TypeInv /\ TypeOK /\ pc = "fill" /\ pc' = "save" /\ sect' = 1 /\ cmd.op = "add"
      /\ block \in Blocks /\ n \in Entries /\ UNCHANGED <<fat, dir, cmd, n>>
      /\ data' = WriteSectors(block, full + 1, NextSector)
  BY DEF FillTail, StartSave, FillInv, Basics, TypeInv, TypeOK, RequestOK
<1>2. full + 1 \in 0 .. SectPerBlock
  <2>1. full \in -1 .. SectPerBlock - 1
    BY <1>1, TailSectors DEF FillTail, TypeOK
  <2> QED
    BY <2>1, Geometry
<1>3. \A e \in Entries : /\ e # n => mdir'[e] = mdir[e]
                         /\ mdir'[n].name = EntryName[cmd.file]
  BY <1>1 DEF FillTail, TypeOK
<1> HIDE DEF full
<1>4. suspects = {} /\ dir[n].name \in Touched \cup {NoName}
  BY <1>1 DEF Cared, Adding
<1>5. PICK own \in Maps : Held(own)
  BY DEF Cared
<1>6. Held(own)'
  BY <1>5, HeldTail
<1>7. Touched' = Touched /\ Touched = {EntryName[cmd.file]}
  BY <1>1, TouchedNames DEF Touched
<1>8. EntriesApart'
  BY <1>1, <1>3, <1>4, <1>7 DEF Cared, EntriesApart
<1>9. OnDisk'
  <2>1. OnDisk
    BY DEF Cared
  <2> QED
    BY <1>1, <1>2, <1>5, <2>1, FilledApart
<1>10. Deleting' /\ Adding'
  BY <1>1, <1>3, <1>4, <1>7 DEF Deleting, Adding
<1> QED
  BY <1>6, <1>8, <1>9, <1>10 DEF Cared

\* A sector of track 20 reaches the disk: other names see the same of it.
LEMMA SavedApart ==
    ASSUME NEW own \in Maps, Held(own), EntriesApart, NEW nm \in Names, nm \notin Touched,
           NEW g, Stands(nm, g, fat, dir, data), data' = data,
           \A c \in Blocks : fat'[c] \in {fat[c], mfat[c]},
           \A e \in Entries : dir'[e] \in {dir[e], mdir[e]}
    PROVE  Stands(nm, g, fat', dir', data')
<1>1. \A c \in Blocks : own[c] = nm => fat'[c] = fat[c]
  BY DEF Held
<1>2. \A c \in Blocks : own[c] = nm =>
         /\ fat'[c] = fat[c]
         /\ \A s \in 0 .. SectPerBlock - 1 :
               data'[c * SectPerBlock + s] = data[c * SectPerBlock + s]
  BY <1>1
<1>3. \A e \in Entries : dir[e].name = nm \/ dir'[e].name = nm => dir'[e] = dir[e]
  <2>1. nm # NoName
    BY FilesAssumption
  <2> QED
    BY <2>1 DEF EntriesApart
<1> QED
  BY <1>2, <1>3, LeftAlone

LEMMA CaredSaving ==
    ASSUME FillInv, Cared, SaveSector, ~LastSector, UNCHANGED <<suspects, kept>>
    PROVE  Cared'
<1>1. /\ TypeInv /\ Saved /\ pc = "save" /\ pc' = "save" /\ sect' = sect + 1 /\ sect \in Nat /\ sect >= 1
      /\ UNCHANGED <<data, mfat, mdir, cmd, n, i>>
      /\ fat' = IF sect = 2 THEN mfat ELSE fat
      /\ \A e \in Entries :
            dir'[e] = IF e \div EntriesPerSector = sect - 3 THEN mdir[e] ELSE dir[e]
  BY Geometry DEF SaveSector, buffer, FillInv, Basics, TypeInv, TypeOK
<1>2. Touched' = Touched
  BY <1>1 DEF Touched
<1>3. PICK own \in Maps : Held(own)
  BY DEF Cared
<1>4. Held(own)'
  BY <1>1, <1>3, HeldSaving
<1>5. EntriesApart'
  BY <1>1, <1>2 DEF Cared, EntriesApart
<1>6. Deleting'
  BY <1>1 DEF Cared, Deleting
<1>7. Adding'
  <2>1. n \in Entries
    BY <1>1 DEF TypeInv, TypeOK
  <2> QED
    BY <1>1, <1>2, <2>1 DEF Cared, Adding
<1>8. OnDisk'
  <2> SUFFICES ASSUME NEW nm \in Names \ (suspects \cup Exposed')
               PROVE  Stands(nm, kept[nm], fat', dir', data')
    BY DEF OnDisk
  <2>1. CASE nm \notin Touched
    <3>1. Stands(nm, kept[nm], fat, dir, data)
      BY <2>1 DEF Cared, OnDisk, Exposed
    <3>2. /\ \A c \in Blocks : fat'[c] \in {fat[c], mfat[c]}
          /\ \A e \in Entries : dir'[e] \in {dir[e], mdir[e]}
      BY <1>1
    <3>3. EntriesApart
      BY DEF Cared
    <3> QED
      BY <1>1, <1>3, <2>1, <3>1, <3>2, <3>3, SavedApart
  <2>2. CASE nm \in Touched
    <3>1. ~(sect' > 2)
      BY <1>1, <1>2, <2>2 DEF Exposed
    <3>2. sect = 1
      BY <1>1, <3>1
    <3>3. fat' = fat /\ \A e \in Entries : dir'[e] = dir[e]
      <4>1. \A e \in Entries : e \div EntriesPerSector # sect - 3
        BY <3>2, SlotSector
      <4> QED
        BY <1>1, <3>2, <4>1
    <3>4. nm \notin Exposed
      BY <1>1, <1>2, <2>2, <3>2 DEF Exposed
    <3>5. Stands(nm, kept[nm], fat, dir, data)
      BY <3>4 DEF Cared, OnDisk
    <3>6. /\ \A c \in Blocks : own[c] = nm =>
                /\ fat'[c] = fat[c]
                /\ \A s \in 0 .. SectPerBlock - 1 :
                      data'[c * SectPerBlock + s] = data[c * SectPerBlock + s]
          /\ \A e \in Entries : dir[e].name = nm \/ dir'[e].name = nm => dir'[e] = dir[e]
      BY <1>1, <3>3
    <3> QED
      BY <1>3, <3>5, <3>6, LeftAlone
  <2> QED
    BY <2>1, <2>2
<1> QED
  BY <1>4, <1>5, <1>6, <1>7, <1>8 DEF Cared

\* The last sector: what the command did to its names is what they stand for.
LEMMA CaredDone ==
    ASSUME FillInv, Cared, Next, Completes, suspects' = suspects \ Touched,
           kept' = [nm \in Names |-> IF nm \in Touched THEN cmd.file ELSE kept[nm]]
    PROVE  Cared'
<1>1. /\ TypeInv /\ pc = "save" /\ fat' = mfat /\ dir' = mdir /\ data' = data
      /\ mfat' = mfat /\ mdir' = mdir /\ SaveSector /\ cmd.op \in {"add", "delete"}
  BY CompletesSaved DEF FillInv, Basics, TypeInv, RequestOK, Completes, SaveSector, buffer
<1>2. Return
  <2>1. LastSector
    BY <1>1 DEF SaveSector, Completes
  <2> QED
    BY <1>1, <2>1 DEF SaveSector
<1>3. pc' = "idle" /\ cmd' = NoCmd /\ size' = 0
  BY <1>2 DEF Return
<1>4. Touched' = {} /\ Exposed' = {}
  BY <1>3 DEF Touched, Exposed, NoCmd
<1>5. PICK own \in Maps : Held(own)
  BY DEF Cared
<1>6. cmd.op = "delete" => \A e \in Entries : mdir[e].name \notin Touched
  BY <1>1 DEF Cared, Deleting, Touched
<1>7. cmd.op = "add" => suspects = {} /\ suspects' = {}
  BY DEF Cared, Adding
<1>8. \E new \in Maps : Held(new)'
  <2>1. CASE cmd.op = "delete"
    BY <1>1, <1>2, <1>5, <1>6, <2>1, HeldDeleted
  <2>2. CASE cmd.op = "add"
    BY <1>1, <1>2, <1>5, <1>7, <2>2, HeldAdded
  <2> QED
    BY <1>1, <2>1, <2>2
<1>9. EntriesApart'
  BY <1>1 DEF EntriesApart
<1>10. Deleting' /\ Adding'
  BY <1>3 DEF Deleting, Adding, NoCmd
<1>11. OnDisk'
  <2> SUFFICES ASSUME NEW nm \in Names, nm \notin suspects'
               PROVE  Stands(nm, kept'[nm], fat', dir', data')
    BY DEF OnDisk
  <2>1. CASE nm \notin Touched
    <3>1. Stands(nm, kept[nm], fat, dir, data)
      BY <2>1 DEF Cared, OnDisk, Exposed
    <3>2. /\ \A c \in Blocks : fat'[c] \in {fat[c], mfat[c]}
          /\ \A e \in Entries : dir'[e] \in {dir[e], mdir[e]}
      BY <1>1
    <3>3. EntriesApart /\ kept'[nm] = kept[nm]
      BY <2>1 DEF Cared
    <3> QED
      BY <1>1, <1>5, <2>1, <3>1, <3>2, <3>3, SavedApart
  <2>2. CASE nm \in Touched /\ cmd.op = "delete"
    <3>1. kept'[nm] = NoFile
      BY <2>2 DEF FillInv, Request
    <3>2. \A e \in Entries : mdir[e].name # nm
      BY <1>6, <2>2
    <3> QED
      BY <1>1, <3>1, <3>2 DEF Stands
  <2>3. CASE nm \in Touched /\ cmd.op = "add"
    <3>1. /\ cmd.file \in HostFiles /\ Size[cmd.file] > 0 /\ n \in Entries /\ cmd.file # NoFile
          /\ nm = EntryName[cmd.file] /\ kept'[nm] = cmd.file
      BY <1>1, <2>3, TouchedNames, FilesAssumption
         DEF FillInv, Request, Basics, TypeInv, TypeOK, RequestOK
    <3>2. /\ mdir[n].name = nm
          /\ Holds(mfat, data, mdir[n].first, mdir[n].end, cmd.file)
      BY <1>1, <2>3, <3>1 DEF FillInv, Filled
    <3> QED
      BY <1>1, <3>1, <3>2 DEF Stands
  <2> QED
    BY <1>1, <2>1, <2>2, <2>3
<1> QED
  BY <1>8, <1>9, <1>10, <1>11 DEF Cared

LEMMA CaredCrash ==
    ASSUME FillInv, Cared, Crash
    PROVE  Cared'
<1>1. /\ UNCHANGED <<fat, dir, data, kept>> /\ mfat' = fat /\ mdir' = dir
      /\ suspects' = suspects \cup Exposed /\ Return
  BY DEF Crash, archive
<1>2. pc' = "idle" /\ cmd' = NoCmd /\ size' = 0
  BY <1>1 DEF Return
<1>3. PICK own \in Maps : Held(own)
  BY DEF Cared
<1>4. \E new \in Maps : Held(new)'
  <2>1. OnDisk /\ (cmd.op = "add" => suspects = {})
    BY DEF Cared, Adding
  <2> QED
    BY <1>3, <2>1, HeldCrash
<1>5. EntriesApart' /\ Deleting' /\ Adding'
  BY <1>1, <1>2 DEF EntriesApart, Deleting, Adding, NoCmd
<1>6. OnDisk'
  BY <1>1, SameDisk DEF Cared
<1> QED
  BY <1>4, <1>5, <1>6 DEF Cared

LEMMA CaredInit == CInit => Cared
<1> SUFFICES ASSUME CInit PROVE Cared
  OBVIOUS
<1>1. /\ fat = FormattedFat /\ dir = FormattedDir /\ mfat = fat /\ mdir = dir
      /\ pc = "idle" /\ cmd = NoCmd /\ size = 0 /\ suspects = {}
      /\ \A nm \in Names : kept[nm] = NoFile
  BY DEF CInit, Init
<1> DEFINE own == [c \in Blocks |-> NoName]
<1>2. own \in Maps /\ \A c \in Blocks : own[c] = NoName
  BY DEF Maps
<1> HIDE DEF own
<1>3. \A e \in Entries : dir[e].name = NoName
  BY <1>1 DEF FormattedDir
<1>4. Held(own)
  <2>1. Closed(own, fat) /\ Placed(own, dir) /\ InUse(own, fat, suspects \cup Slack)
    BY <1>2, <1>3 DEF Closed, Placed, InUse
  <2> QED
    BY <1>1, <2>1 DEF Held
<1>5. EntriesApart /\ Deleting /\ Adding
  BY <1>1 DEF EntriesApart, Deleting, Adding, NoCmd
<1>6. OnDisk
  BY <1>1, <1>3, FilesAssumption DEF OnDisk, Stands
<1> QED
  BY <1>2, <1>4, <1>5, <1>6 DEF Cared

LEMMA CaredStutter == Cared /\ UNCHANGED cvars => Cared'
<1> SUFFICES ASSUME Cared, UNCHANGED cvars PROVE Cared'
  OBVIOUS
<1>1. /\ UNCHANGED <<fat, dir, data, mfat, mdir, pc, cmd, n, i, block, head, size, left, sect>>
      /\ UNCHANGED <<kept, suspects>>
  BY DEF cvars, vars, archive, buffer, locals
<1>2. UNCHANGED <<Touched, Exposed, Slack>>
  BY <1>1 DEF Touched, Exposed, Slack
<1>3. PICK own \in Maps : Held(own)
  BY DEF Cared
<1>4. Held(own)'
  BY <1>1, <1>2, <1>3 DEF Held, Closed, Placed, InUse
<1>5. EntriesApart' /\ OnDisk' /\ Deleting'
  BY <1>1, <1>2 DEF Cared, EntriesApart, OnDisk, Deleting
<1>6. Adding'
  BY <1>1, <1>2 DEF Cared, Adding, Measured, ToFree, BeingFreed, PathOf
<1> QED
  BY <1>4, <1>5, <1>6 DEF Cared

LEMMA CaredNext ==
    ASSUME FillInv, Cared, careful, Goes
    PROVE  Cared'
<1>1. Next /\ (suspects # {} /\ pc = "idle" => cmd'.op # "add")
  BY DEF Goes, Uninterrupted, DeletesFirst
<1>2. CASE Completes
  BY <1>1, <1>2, CaredDone DEF Goes, Uninterrupted
<1>3. CASE ~Completes
  <2>1. UNCHANGED <<suspects, kept>>
    BY <1>3 DEF Goes, Uninterrupted
  <2>2. ASSUME NEW f \in HostFiles, AddFile(f) PROVE Cared'
    <3>1. pc = "idle" /\ cmd'.op = "add"
      BY <2>2 DEF AddFile, NoCmd
    <3>2. suspects = {}
      BY <1>1, <3>1
    <3> QED
      BY <2>1, <2>2, <3>2, CaredAddFile
  <2>3. CASE Call
    <3>1. CASE \E f \in HostFiles : AddFile(f)
      BY <2>2, <3>1
    <3>2. CASE ~ \E f \in HostFiles : AddFile(f)
      <4>1. cmd'.op # "add"
        <5>1. CASE DeleteFile \/ ExtractFile
          BY <5>1 DEF DeleteFile, ExtractFile, ForEachFile, NoCmd
        <5>2. CASE AddNoFile \/ \E f \in HostFiles : AddEmptyFile(f) \/ AddDirFull(f)
          <6>1. Return
            BY <5>2 DEF AddNoFile, AddEmptyFile, AddDirFull, Refuse
          <6> QED
            BY <6>1 DEF Return, NoCmd
        <5> QED
          BY <2>3, <3>2, <5>1, <5>2 DEF Call
      <4> QED
        BY <2>1, <2>3, <4>1, CaredCall
    <3> QED
      BY <3>1, <3>2
  <2>4. CASE SizeStep
    BY <2>1, <2>4, CaredSize
  <2>5. CASE CheckStep
    BY <2>1, <2>5, CaredCheck
  <2>6. CASE DeleteStep
    BY <2>1, <2>6, CaredFreed
  <2>7. CASE DeleteDone
    BY <2>1, <2>7, CaredDeleted
  <2>8. CASE AllocFirst
    BY <2>1, <2>8, CaredAlloc
  <2>9. CASE FillBlock
    BY <2>1, <2>9, CaredFill
  <2>10. CASE FillTail
    BY <2>1, <2>10, CaredTail
  <2>11. CASE SaveSector
    <3>1. ~LastSector
      BY <1>3, <2>11 DEF Completes, SaveSector, Return
    <3> QED
      BY <2>1, <2>11, <3>1, CaredSaving
  <2>12. CASE SeekDelete
    BY <2>1, <2>12, CaredSeek
  <2>13. CASE AddTooBig \/ SeekExtract \/ ExtractNoPerm \/ ReadBlock \/ ReadTail
    BY <2>1, <2>13, CaredRead
  <2>14. CASE SeekEnd
    <3>1. CASE cmd.op = "delete"
      BY <2>1, <2>14, <3>1, CaredSought
    <3>2. CASE cmd.op # "delete"
      BY <2>1, <2>14, <3>2, CaredRead
    <3> QED
      BY <3>1, <3>2
  <2> QED
    BY <1>1, <2>3, <2>4, <2>5, <2>6, <2>7, <2>8, <2>9, <2>10, <2>11, <2>12, <2>13, <2>14
       DEF Next, Step
<1> QED
  BY <1>2, <1>3

LEMMA CarefulInvariant == CrashSpec => [](FillInv /\ CarefulInv)
<1>1. CInit => FillInv /\ CarefulInv
  BY FillInit, CaredInit DEF CInit, CarefulInv
<1>2. FillInv /\ CarefulInv /\ [Goes \/ Dies]_cvars => FillInv' /\ CarefulInv'
  <2> SUFFICES ASSUME FillInv, CarefulInv, [Goes \/ Dies]_cvars PROVE FillInv' /\ CarefulInv'
    OBVIOUS
  <2>1. FillInv'
    BY FillNext, FillCrash DEF Goes, Uninterrupted, Dies, cvars
  <2>2. careful' = careful
    BY DEF Goes, Dies, cvars
  <2>3. ASSUME careful PROVE Cared'
    <3>1. Cared
      BY <2>3 DEF CarefulInv
    <3>2. CASE Goes
      BY <2>3, <3>1, <3>2, CaredNext
    <3>3. CASE Dies
      BY <3>1, <3>3, CaredCrash DEF Dies
    <3>4. CASE UNCHANGED cvars
      BY <3>1, <3>4, CaredStutter
    <3> QED
      BY <3>2, <3>3, <3>4
  <2> QED
    BY <2>1, <2>2, <2>3 DEF CarefulInv
<1> QED
  BY <1>1, <1>2, PTL DEF CrashSpec

\* For a careful user a crash harms no file but those of the interrupted
\* command: what it wrote of track 20 and of its data went into blocks that no
\* other file's chain goes through, and a deletion of what is left frees no more.
THEOREM CrashIsContained == CrashSpec => []CrashContained
<1>1. FillInv /\ CarefulInv => CrashContained
  <2> SUFFICES ASSUME FillInv, CarefulInv, careful, pc = "idle",
                      NEW nm \in Names, nm \notin suspects
               PROVE  FilesOnDisk[nm] = kept[nm]
    BY DEF CrashContained
  <2>1. TypeOK /\ UniqueNames
    BY DEF FillInv, Basics, TypeInv, NamesInv, Distinct, UniqueNames
  <2>2. Stands(nm, kept[nm], fat, dir, data)
    BY NoneExposed DEF CarefulInv, Cared, OnDisk
  <2>3. CASE kept[nm] = NoFile
    <3>1. {e \in Entries : dir[e].name = nm} = {}
      BY <2>2, <2>3 DEF Stands
    <3> QED
      BY <2>3, <3>1 DEF FilesOnDisk
  <2>4. CASE kept[nm] # NoFile
    <3>1. PICK g \in HostFiles : g = kept[nm] /\ EntryName[g] = nm /\ Size[g] > 0
      BY <2>2, <2>4 DEF Stands
    <3>2. PICK e \in Entries :
             dir[e].name = nm /\ Holds(fat, data, dir[e].first, dir[e].end, kept[nm])
      BY <2>2, <2>4 DEF Stands
    <3>3. dir[e].name = EntryName[g] /\ Holds(fat, data, dir[e].first, dir[e].end, g)
      BY <3>1, <3>2
    <3>4. FilesOnDisk[EntryName[g]] = g
      BY <2>1, <3>1, <3>3, ListedFile
    <3> QED
      BY <3>1, <3>4
  <2> QED
    BY <2>3, <2>4
<1> QED
  BY <1>1, CarefulInvariant, PTL

\* Nor does he ever make do_add_file run out of blocks: the chain that it counts
\* and frees is the one of a file that stands.
THEOREM CarefulAllocates == CrashSpec => []StillAllocates
<1>1. FillInv /\ CarefulInv => StillAllocates
  <2> SUFFICES ASSUME FillInv, CarefulInv, careful, pc = "fill" PROVE block # NoBlock
    BY DEF StillAllocates, AllocationSucceeds
  <2>1. block \in Blocks
    BY DEF FillInv, Basics, TypeInv, RequestOK, CarefulInv, Cared, Adding
  <2> QED
    BY <2>1, Geometry
<1> QED
  BY <1>1, CarefulInvariant, PTL
=============================================================================
