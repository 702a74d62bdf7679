---------------------------- MODULE SapDosProofs ----------------------------
(***************************************************************************)
(* SapDos for every geometry, every set of files and every sequence of     *)
(* calls.  Part 1: types.  Part 2: whose the blocks are; no two files ever *)
(* share a block, no file ever holds a free one, no two entries of a       *)
(* directory bear the same name, and the blocks set aside for track 20     *)
(* stay as sap_FormatArchive left them.  Part 3: a file that sap_AddFile   *)
(* finds space for is always written to its end, and commands lose no      *)
(* block.  Part 4: a path through the FAT is what is read, and its sectors *)
(* are the file.  Part 5: what do_add_file has written so far.             *)
(***************************************************************************)
EXTENDS SapDosRead, TLAPS, WellFoundedInduction, FiniteSetTheorems

(***************************************************************************)
(* The inductive invariant for types: what the position in a command says  *)
(* of its request.                                                         *)
(***************************************************************************)
RequestOK ==
    /\ pc \in {"size", "check", "alloc", "fill"} => cmd.op = "add"
    /\ pc \in {"delete", "save"} => cmd.op \in {"add", "delete"}
    /\ pc = "seek" => cmd.op \in {"delete", "extract"}
    /\ pc = "read" => cmd.op = "extract"
    /\ cmd.op = "add" => cmd.file \in HostFiles
    /\ pc = "fill" => left =< Size[cmd.file]
    /\ pc = "fill" /\ head = NoBlock => block = NoBlock
    /\ block = NoBlock => pc = "fill"

-----------------------------------------------------------------------------
(***************************************************************************)
(* Lemmas on the operators.                                                *)
(***************************************************************************)

\* Min and Max, defined by CHOOSE, are members of the sets they are used on.
LEMMA MinMember ==
    ASSUME NEW S \in SUBSET Nat, S # {}
    PROVE  Min(S) \in S /\ \A y \in S : Min(S) =< y
<1>1. PICK x \in S : \A y \in S : ~ (<<y, x>> \in OpToRel(<, Nat))
  BY NatLessThanWellFounded, WFMin
<1>2. \A y \in S : ~ (y < x)
  BY <1>1 DEF OpToRel
<1>3. \A y \in S : x =< y
  BY <1>2
<1> QED
  BY <1>3 DEF Min

LEMMA MaxMember ==
    ASSUME NEW k \in Nat, NEW S \in SUBSET (0 .. k), S # {}
    PROVE  Max(S) \in S
<1> DEFINE T == {m \in Nat : k - m \in S}
<1>1. T # {}
  <2>1. PICK x \in S : TRUE
    OBVIOUS
  <2>2. k - x \in Nat /\ k - (k - x) = x
    BY <2>1
  <2> QED
    BY <2>1, <2>2
<1>2. PICK m \in T : \A y \in T : ~ (<<y, m>> \in OpToRel(<, Nat))
  BY <1>1, NatLessThanWellFounded, WFMin
<1>3. \A y \in T : ~ (y < m)
  BY <1>2 DEF OpToRel
<1>4. \A x \in S : k - m >= x
  <2> TAKE x \in S
  <2>1. k - x \in Nat /\ k - (k - x) = x
    OBVIOUS
  <2>2. k - x \in T
    BY <2>1
  <2>3. ~ (k - x < m)
    BY <1>3, <2>2
  <2>4. m \in Nat
    OBVIOUS
  <2>5. x \in 0 .. k
    OBVIOUS
  <2> HIDE DEF T
  <2> QED
    BY <2>3, <2>4, <2>5
<1> QED
  BY <1>2, <1>4 DEF Max

\* What the two searches return is a free block, or nothing.
LEMMA FindSym ==
    ASSUME NEW F
    PROVE  find_free_block_sym(F) \in FreeBlocks(F) \cup {NoBlock}
<1> DEFINE mid  == NBlocks \div 2 - 1
           dist == {k \in 0 .. NBlocks \div 2 :
                       mid + k \in FreeBlocks(F) \/ mid - k \in FreeBlocks(F)}
<1>1. CASE dist = {}
  BY <1>1 DEF find_free_block_sym
<1>2. CASE dist # {}
  <2>1. dist \in SUBSET Nat
    OBVIOUS
  <2> HIDE DEF dist
  <2>2. Min(dist) \in dist
    BY <1>2, <2>1, MinMember
  <2> USE DEF dist
  <2> QED
    BY <1>2, <2>2 DEF find_free_block_sym
<1> QED
  BY <1>1, <1>2

LEMMA FindRel ==
    ASSUME NEW F, NEW b
    PROVE  find_free_block_rel(F, b) \in FreeBlocks(F) \cup {NoBlock}
<1> DEFINE lower == {c \in FreeBlocks(F) : c =< b}
           upper == {c \in FreeBlocks(F) : c >= b}
<1>1. lower # {} => Max(lower) \in lower
  <2>1. lower \in SUBSET (0 .. NBlocks - 1) /\ NBlocks - 1 \in Nat
    BY GeometryAssumption DEF FreeBlocks, Blocks
  <2> QED
    BY <2>1, MaxMember
<1>2. upper # {} => Min(upper) \in upper
  <2>1. upper \in SUBSET Nat
    BY DEF FreeBlocks, Blocks
  <2> QED
    BY <2>1, MinMember
<1> QED
  BY <1>1, <1>2, FindSym DEF find_free_block_rel

\* Quotients, as the nonlinear facts that the provers need one by one.
LEMMA Quotient ==
    ASSUME NEW x \in Int, NEW d \in Nat \ {0}
    PROVE  /\ x \div d \in Int
           /\ d * (x \div d) =< x
           /\ x < d * (x \div d) + d
<1>1. x \div d \in Int /\ x % d \in 0 .. d - 1 /\ x = d * (x \div d) + (x % d)
  BY SMTT(30)
<1>2. d * (x \div d) \in Int
  BY <1>1
<1> QED
  BY <1>1, <1>2

LEMMA Product ==
    ASSUME NEW a \in Nat, NEW b \in Nat
    PROVE  a * b \in Nat
OBVIOUS

LEMMA Monotone ==
    ASSUME NEW d \in Nat \ {0}, NEW a \in Int, NEW b \in Int, d * a < d * b
    PROVE  a < b
<1>1. SUFFICES ASSUME b =< a PROVE d * b =< d * a
  <2>1. d * a \in Int /\ d * b \in Int
    OBVIOUS
  <2> QED
    BY <1>1, <2>1
<1>2. PICK k \in Nat : a = b + k
  <2>1. a - b \in Nat /\ a = b + (a - b)
    BY <1>1
  <2> QED
    BY <2>1
<1>3. d * a = d * b + d * k /\ d * k \in Nat /\ d * b \in Int
  BY <1>2
<1> QED
  BY <1>3

\* The sectors of the directory: every slot is in one that is written back.
LEMMA SlotSector ==
    ASSUME NEW e \in Entries
    PROVE  /\ TO_NSECTS \in Nat /\ TO_NSECTS >= 3
           /\ e \div EntriesPerSector \in Nat
           /\ e \div EntriesPerSector < TO_NSECTS - 2
<1> DEFINE d == EntriesPerSector
           q == NEntries \div d
           r == e \div d
<1>1. d \in Nat \ {0} /\ NEntries \in Nat /\ NEntries > 0 /\ NEntries % d = 0
  BY GeometryAssumption
<1>2. q \in Int /\ NEntries = d * q
  <2>1. NEntries = d * (NEntries \div d) + (NEntries % d) /\ q \in Int
    BY <1>1
  <2>2. d * q \in Int
    BY <1>1, <2>1
  <2> QED
    BY <1>1, <2>1, <2>2
<1>3. e \in Int /\ 0 =< e /\ e < NEntries
  BY <1>1 DEF Entries
<1>4. r \in Int /\ d * r =< e /\ e < d * r + d
  BY <1>1, <1>3, Quotient
<1>5. r < q
  <2> HIDE DEF q, r, d
  <2>1. d * r \in Int /\ d * q \in Int
    BY <1>1, <1>2, <1>4
  <2>2. d * r < d * q
    BY <1>2, <1>3, <1>4, <2>1
  <2> QED
    BY <1>1, <1>2, <1>4, <2>2, Monotone
<1>6. r >= 0
  <2> HIDE DEF q, r, d
  <2>1. d * (r + 1) = d * r + d /\ d * r \in Int /\ d * (-1 + 1) = 0
    BY <1>1, <1>4
  <2>2. d * 0 < d * (r + 1)
    BY <1>1, <1>3, <1>4, <2>1
  <2>3. 0 < r + 1
    BY <1>1, <1>4, <2>2, Monotone
  <2> QED
    BY <1>4, <2>3
<1> QED
  BY <1>2, <1>4, <1>5, <1>6 DEF TO_NSECTS

\* The last block of a file: whole sectors and bytes of the last one.
LEMMA TailSectors ==
    ASSUME NEW m \in Nat, m =< TO_BLOCKSIZE
    PROVE  LET full == (m - 1) \div SectSize
           IN  /\ full \in -1 .. SectPerBlock - 1
               /\ m - full * SectSize \in Nat
<1> DEFINE d == SectSize
           full == (m - 1) \div d
<1>1. d \in Nat \ {0} /\ SectPerBlock \in Nat /\ m - 1 \in Int
  BY GeometryAssumption
<1>2. full \in Int /\ d * full =< m - 1 /\ m - 1 < d * full + d
  BY <1>1, Quotient
<1>3. m =< d * SectPerBlock
  BY <1>1 DEF TO_BLOCKSIZE
<1> HIDE DEF d, full
<1>4. d * full \in Int /\ d * SectPerBlock \in Int /\ full * d = d * full
  BY <1>1, <1>2
<1>5. full < SectPerBlock
  <2>1. d * full < d * SectPerBlock
    BY <1>2, <1>3, <1>4
  <2> QED
    BY <1>1, <1>2, <2>1, Monotone
<1>6. full >= -1
  <2>1. d * (full + 2) = d * full + d + d
    BY <1>1, <1>2
  <2>2. d * 0 = 0 /\ d * 0 < d * (full + 2)
    BY <1>1, <1>2, <1>4, <2>1
  <2>3. 0 < full + 2
    BY <1>1, <1>2, <2>2, Monotone
  <2> QED
    BY <1>2, <2>3
<1>7. m - full * d \in Nat
  BY <1>2, <1>4
<1> QED
  BY <1>1, <1>2, <1>5, <1>6, <1>7 DEF d, full

-----------------------------------------------------------------------------
(***************************************************************************)
(* Types.                                                                  *)
(***************************************************************************)
TypeInv == TypeOK /\ RequestOK

\* Every geometric constant is a number, and a FAT link is a byte.
LEMMA Geometry ==
    /\ NBlocks \in 4 .. 192 /\ SectSize \in Nat \ {0} /\ SectPerBlock \in 1 .. 61
    /\ TO_BLOCKSIZE \in Nat /\ TO_FILESIZE_MAX \in Nat
    /\ Blocks \subseteq Byte /\ NoBlock \notin Blocks
    /\ TO_NSECTS \in Nat /\ TO_NSECTS >= 3 /\ 0 \in Entries
<1>1. TO_BLOCKSIZE \in Nat
  BY GeometryAssumption, Product DEF TO_BLOCKSIZE
<1>2. 0 \in Entries
  BY GeometryAssumption DEF Entries
<1> QED
  BY <1>1, <1>2, SlotSector, GeometryAssumption
     DEF TO_FILESIZE_MAX, TO_END_BLOCK_OFFSET, Blocks, Byte, NoBlock

\* A byte is never NoBlock; NoBlock stored in a FAT byte is 255.
LEMMA Bytes ==
    /\ \A v \in Byte : v # NoBlock
    /\ \A b \in Blocks \cup {NoBlock} : b % 256 \in Byte
    /\ \A b \in Blocks : b % 256 = b
    /\ NoBlock % 256 = TO_TAG_FREE
<1>1. \A v \in Byte : v # NoBlock
  BY DEF Byte, NoBlock
<1>2. NoBlock % 256 = 255
  <2> DEFINE x == NoBlock
             q == x \div 256
  <2>1. q \in Int /\ x % 256 \in 0 .. 255 /\ x = 256 * q + (x % 256)
    <3>1. x \in Int
      BY DEF NoBlock
    <3> HIDE DEF x
    <3> QED
      BY <3>1, SMTT(30)
  <2> HIDE DEF q
  <2> QED
    BY <2>1 DEF NoBlock
<1>3. \A b \in Blocks : b % 256 = b
  BY Geometry DEF Blocks
<1> QED
  BY <1>1, <1>2, <1>3, Geometry DEF Byte, TO_TAG_FREE

\* The slot a search stops at.
LEMMA SlotFound ==
    ASSUME NEW D, NEW S, NEW k, SlotsOf(D, S, k) # {}
    PROVE  /\ Min(SlotsOf(D, S, k)) \in Entries
           /\ D[Min(SlotsOf(D, S, k))].name \in S
<1>1. SlotsOf(D, S, k) \in SUBSET Nat
  BY DEF SlotsOf, Entries
<1>2. Min(SlotsOf(D, S, k)) \in SlotsOf(D, S, k)
  BY <1>1, MinMember
<1> QED
  BY <1>2 DEF SlotsOf

\* Sectors read are chunks; sectors written are chunks of the file added.
LEMMA SectorsRead ==
    ASSUME TypeOK, NEW k, NEW m \in Int
    PROVE  WholeSectors(k, m) \in Seq(Chunk \X Nat)
<1>1. \A p : SectorAt(p) \in Chunk
  BY DEF TypeOK, SectorAt, Chunk
<1>2. CASE m >= 0
  BY <1>1, <1>2, Geometry DEF WholeSectors
<1>3. CASE m < 0
  <2>1. 1 .. m = 1 .. 0
    BY <1>3
  <2>2. WholeSectors(k, m) \in [1 .. 0 -> Chunk \X Nat]
    BY <1>1, <2>1, Geometry DEF WholeSectors
  <2> QED
    BY <2>2
<1> QED
  BY <1>2, <1>3

LEMMA SectorsWritten ==
    ASSUME TypeOK, cmd.file \in HostFiles, NEW b \in Blocks, NEW c, NEW r \in Nat
    PROVE  WriteSectors(b, c, r) \in [Sectors -> Chunk]
<1>1. b * SectPerBlock \in Nat
  BY Geometry, Product DEF Blocks
<1>2. ASSUME NEW p \in Sectors, p \in b * SectPerBlock .. b * SectPerBlock + c - 1
      PROVE  r + p - b * SectPerBlock \in Nat
  BY <1>1, <1>2 DEF Sectors
<1> QED
  BY <1>2 DEF TypeOK, WriteSectors, Chunk

LEMMA RankType ==
    ASSUME cmd.file \in HostFiles, left \in Nat, left =< Size[cmd.file]
    PROVE  NextSector \in Nat
<1> DEFINE x == Size[cmd.file] - left
           q == x \div SectSize
<1>1. x \in Nat /\ x \in Int
  BY FilesAssumption
<1>2. q \in Int /\ x < SectSize * q + SectSize
  BY <1>1, Geometry, Quotient
<1>3. q >= 0
  <2> HIDE DEF x, q
  <2>1. SectSize * (q + 1) = SectSize * q + SectSize /\ SectSize * q \in Int
    BY <1>2, Geometry
  <2>2. SectSize * 0 = 0 /\ SectSize * 0 < SectSize * (q + 1)
    BY <1>1, <1>2, <2>1, Geometry
  <2>3. 0 < q + 1
    BY <1>2, <2>2, Geometry, Monotone
  <2> QED
    BY <1>2, <2>3
<1> QED
  BY <1>2, <1>3 DEF NextSector

LEMMA TypeInit == Init => TypeInv
<1> SUFFICES ASSUME Init PROVE TypeInv
  OBVIOUS
<1>1. NothingExtracted \in [Names -> Seq(Chunk \X Nat)]
  BY DEF NothingExtracted
<1>2. FormattedFat \in [Blocks -> Byte] /\ FormattedDir \in [Entries -> Entry]
  BY DEF FormattedFat, FormattedDir, Byte, Entry, TO_TAG_RESERVED, TO_TAG_FREE
<1>3. NoCmd \in Cmd
  BY DEF NoCmd, Cmd
<1>4. data \in [Sectors -> Chunk]
  BY DEF Init, Chunk
<1>5. 0 \in Blocks /\ 0 \in 0 .. NEntries
  BY Geometry, GeometryAssumption DEF Blocks
<1>6. RequestOK
  BY DEF Init, RequestOK, NoCmd, NoBlock
<1> QED
  BY SMTT(30), <1>1, <1>2, <1>3, <1>4, <1>5, <1>6, Geometry
     DEF Init, TypeInv, TypeOK, Byte

\* A command that returns leaves well-typed locals and no request.
LEMMA ReturnType ==
    ASSUME Return
    PROVE  /\ pc' = "idle" /\ cmd' = NoCmd /\ cmd' \in Cmd /\ cmd'.op = "none"
           /\ n' \in Entries /\ block' \in Byte /\ head' \in Blocks
           /\ size' \in 0 .. TO_FILESIZE_MAX /\ left' \in Nat
           /\ sect' \in 1 .. TO_NSECTS /\ block' # NoBlock
<1>1. NoCmd \in Cmd /\ NoCmd.op = "none"
  BY DEF NoCmd, Cmd
<1> QED
  BY <1>1, Geometry, GeometryAssumption DEF Return, Blocks, Byte, NoBlock

LEMMA RefuseType ==
    ASSUME TypeInv, NEW e \in {"ENOENT", "ENFILE", "ENOSPC", "EFBIG"}, Refuse(e)
    PROVE  TypeInv'
<1>1. NothingExtracted \in [Names -> Seq(Chunk \X Nat)]
  BY DEF NothingExtracted
<1>2. TypeOK'
  BY <1>1, ReturnType DEF TypeInv, TypeOK, Refuse, archive, buffer
<1>3. RequestOK'
  BY ReturnType DEF Refuse, RequestOK
<1> QED
  BY <1>2, <1>3 DEF TypeInv

LEMMA AddFileType ==
    ASSUME TypeInv, NEW f \in HostFiles, AddFile(f)
    PROVE  TypeInv'
<1>1. NothingExtracted \in [Names -> Seq(Chunk \X Nat)]
  BY DEF NothingExtracted
<1>2. cmd' \in Cmd /\ cmd'.op = "add" /\ cmd'.file = f
  BY DEF AddFile, Cmd, NoCmd
<1>3. /\ n' \in Entries /\ block' \in Byte
      /\ pc' \in {"size", "check"} /\ block' # NoBlock
  <2>1. CASE PrevSlots(f) # {}
    <3>1. Min(PrevSlots(f)) \in Entries
      BY <2>1, SlotFound DEF PrevSlots
    <3> QED
      BY <2>1, <3>1, Bytes DEF AddFile, TypeInv, TypeOK, Entry
  <2>2. CASE PrevSlots(f) = {}
    <3>1. FreeSlots # {}
      BY <2>2 DEF AddFile
    <3>2. Min(FreeSlots) \in Entries
      BY <3>1, SlotFound DEF FreeSlots
    <3> QED
      BY <2>2, <3>2 DEF AddFile, Byte, NoBlock
  <2> QED
    BY <2>1, <2>2
<1>4. TypeOK'
  BY <1>1, <1>2, <1>3 DEF AddFile, ReadTrack20, TypeInv, TypeOK, archive
<1>5. RequestOK'
  BY <1>2, <1>3 DEF RequestOK
<1> QED
  BY <1>4, <1>5 DEF TypeInv

LEMMA ForEachFileType ==
    ASSUME TypeInv, NEW op \in {"delete", "extract"}, NEW S \in SUBSET Names,
           NEW w \in BOOLEAN, ForEachFile(op, S, w)
    PROVE  TypeInv'
<1>1. NothingExtracted \in [Names -> Seq(Chunk \X Nat)]
  BY DEF NothingExtracted
<1>2. cmd' \in Cmd /\ cmd'.op = op
  BY DEF ForEachFile, Cmd, NoCmd
<1>3. TypeOK'
  BY <1>1, <1>2 DEF ForEachFile, ReadTrack20, TypeInv, TypeOK, archive, locals
<1>4. RequestOK'
  BY <1>2 DEF ForEachFile, TypeInv, RequestOK, locals
<1> QED
  BY <1>3, <1>4 DEF TypeInv

LEMMA CallType == TypeInv /\ Call => TypeInv'
<1> SUFFICES ASSUME TypeInv, Call PROVE TypeInv'
  OBVIOUS
<1>1. CASE AddNoFile
  BY <1>1, RefuseType DEF AddNoFile
<1>2. ASSUME NEW f \in HostFiles, AddEmptyFile(f) PROVE TypeInv'
  BY <1>2, RefuseType DEF AddEmptyFile
<1>3. ASSUME NEW f \in HostFiles, AddDirFull(f) PROVE TypeInv'
  BY <1>3, RefuseType DEF AddDirFull
<1>4. ASSUME NEW f \in HostFiles, AddFile(f) PROVE TypeInv'
  BY <1>4, AddFileType
<1>5. CASE DeleteFile
  <2>1. ASSUME NEW nm \in Names, ForEachFile("delete", {nm}, FALSE) PROVE TypeInv'
    BY <2>1, ForEachFileType
  <2>2. ASSUME NEW S \in Wildcards, ForEachFile("delete", S, TRUE) PROVE TypeInv'
    BY <2>2, ForEachFileType, FilesAssumption
  <2> QED
    BY <1>5, <2>1, <2>2 DEF DeleteFile
<1>6. CASE ExtractFile
  <2>1. ASSUME NEW nm \in Names, ForEachFile("extract", {nm}, FALSE) PROVE TypeInv'
    BY <2>1, ForEachFileType
  <2>2. ASSUME NEW S \in Wildcards, ForEachFile("extract", S, TRUE) PROVE TypeInv'
    BY <2>2, ForEachFileType, FilesAssumption
  <2> QED
    BY <1>6, <2>1, <2>2 DEF ExtractFile
<1> QED
  BY <1>1, <1>2, <1>3, <1>4, <1>5, <1>6 DEF Call

\* The bytes of a file are a number, whatever its chain and entry say.
LEMMA DeletedSizeType ==
    ASSUME TypeOK
    PROVE  DeletedSize \in Nat
<1>1. size * TO_BLOCKSIZE \in Nat
  BY Geometry, Product DEF TypeOK
<1>2. (IF block > TO_END_BLOCK_OFFSET + 1
         THEN (block - TO_END_BLOCK_OFFSET - 1) * SectSize ELSE 0) \in Nat
  <2>1. CASE block > TO_END_BLOCK_OFFSET + 1
    <3>1. block - TO_END_BLOCK_OFFSET - 1 \in Nat
      BY <2>1, Geometry DEF TypeOK, Byte, NoBlock, TO_END_BLOCK_OFFSET
    <3> QED
      BY <2>1, <3>1, Geometry, Product
  <2> QED
    BY <2>1
<1>3. mdir[n].end \in Nat
  BY DEF TypeOK, Entry
<1> QED
  BY <1>1, <1>2, <1>3 DEF DeletedSize

LEMMA StartDeleteType ==
    ASSUME TypeOK, NEW e \in Entries, StartDelete(e)
    PROVE  /\ mdir' \in [Entries -> Entry] /\ block' \in Byte
           /\ size' \in 0 .. TO_FILESIZE_MAX /\ pc' = "delete" /\ block' # NoBlock
<1>1. [mdir[e] EXCEPT !.name = NoName] \in Entry /\ mdir[e].first \in Byte
  BY DEF TypeOK, Entry
<1>2. mdir' = [mdir EXCEPT ![e] = [mdir[e] EXCEPT !.name = NoName]]
  BY DEF StartDelete
<1>3. mdir' \in [Entries -> Entry]
  BY <1>1, <1>2 DEF TypeOK
<1>4. block' \in Byte /\ block' # NoBlock
  BY <1>1, Bytes DEF StartDelete
<1>5. size' \in 0 .. TO_FILESIZE_MAX /\ pc' = "delete"
  BY Geometry DEF StartDelete
<1> QED
  BY <1>3, <1>4, <1>5

LEMMA AddStepType ==
    ASSUME TypeInv, SizeStep \/ AddTooBig \/ CheckStep \/ DeleteStep \/ DeleteDone
    PROVE  TypeInv'
<1> USE DEF TypeInv
<1>1. CASE SizeStep
  <2>1. CASE InChain(block)
    <3>1. block \in Blocks
      BY <1>1, <2>1, Geometry DEF SizeStep, TypeOK, RequestOK, InChain, Blocks, Byte, NoBlock
    <3>2. mfat[block] \in Byte /\ mfat[block] # NoBlock /\ size + 1 \in 0 .. TO_FILESIZE_MAX
      BY <2>1, <3>1, Geometry, Bytes DEF TypeOK, InChain
    <3> QED
      BY <1>1, <2>1, <3>2 DEF SizeStep, TypeOK, RequestOK, archive, buffer
  <2>2. CASE ~InChain(block)
    BY <1>1, <2>2 DEF SizeStep, TypeOK, RequestOK, archive, buffer
  <2> QED
    BY <2>1, <2>2
<1>2. CASE AddTooBig
  BY <1>2, RefuseType DEF AddTooBig
<1>3. CASE CheckStep
  <2>1. /\ mdir' \in [Entries -> Entry] /\ block' \in Byte \cup {NoBlock}
        /\ size' \in 0 .. TO_FILESIZE_MAX /\ pc' \in {"delete", "alloc"}
        /\ block' # NoBlock
    BY <1>3, StartDeleteType DEF CheckStep, TypeOK, RequestOK
  <2> QED
    BY <1>3, <2>1 DEF CheckStep, TypeOK, RequestOK, archive
<1>4. CASE DeleteStep
  <2>1. block \in Blocks
    BY <1>4, Geometry DEF DeleteStep, TypeOK, RequestOK, InChain, Blocks, Byte, NoBlock
  <2>2. mfat[block] \in Byte /\ mfat[block] # NoBlock /\ size + 1 \in 0 .. TO_FILESIZE_MAX
    BY <1>4, <2>1, Geometry, Bytes DEF DeleteStep, TypeOK, InChain
  <2>3. mfat' \in [Blocks -> Byte]
    BY <1>4, <2>1 DEF DeleteStep, TypeOK, Byte, TO_TAG_FREE
  <2> QED
    BY <1>4, <2>2, <2>3 DEF DeleteStep, TypeOK, RequestOK, archive
<1>5. CASE DeleteDone
  <2>1. ret' \in Nat /\ sect' \in 1 .. TO_NSECTS /\ pc' \in {"alloc", "seek", "save"}
    BY <1>5, DeletedSizeType, Geometry DEF DeleteDone, StartSave, TypeOK
  <2>2. pc' = "alloc" => cmd.op = "add"
    BY <1>5 DEF DeleteDone, StartSave
  <2>3. pc' = "seek" => cmd.op = "delete"
    BY <1>5 DEF DeleteDone, StartSave
  <2> QED
    BY <1>5, <2>1, <2>2, <2>3 DEF DeleteDone, TypeOK, RequestOK, archive, buffer
<1> QED
  BY <1>1, <1>2, <1>3, <1>4, <1>5

LEMMA FillType ==
    ASSUME TypeInv, AllocFirst \/ FillBlock \/ FillTail \/ SaveSector
    PROVE  TypeInv'
<1> USE DEF TypeInv
<1>1. CASE AllocFirst
  <2>1. block' \in Blocks \cup {NoBlock} /\ head' = block'
    BY <1>1, FindSym DEF AllocFirst, FreeBlocks
  <2>2. Size[cmd.file] \in Nat /\ left' = Size[cmd.file] /\ cmd.op = "add"
    BY <1>1, FilesAssumption DEF AllocFirst, RequestOK
  <2> QED
    BY <1>1, <2>1, <2>2, Geometry DEF AllocFirst, TypeOK, RequestOK, archive, buffer
<1>2. ASSUME pc = "fill"
      PROVE  cmd.file \in HostFiles /\ Size[cmd.file] \in Nat /\ NextSector \in Nat
  BY <1>2, RankType, FilesAssumption DEF TypeOK, RequestOK
<1>3. CASE FillBlock
  <2>1. data' \in [Sectors -> Chunk]
    BY <1>2, <1>3, SectorsWritten DEF FillBlock
  <2>2. block' \in Blocks \cup {NoBlock}
    BY <1>3, FindRel DEF FillBlock, FreeBlocks
  <2>3. block' % 256 \in Byte
    BY <2>2, Bytes
  <2>4. mfat' \in [Blocks -> Byte]
    BY <1>3, <2>3 DEF FillBlock, TypeOK
  <2>5. left' \in Nat /\ left' =< left
    BY <1>3, Geometry DEF FillBlock, TypeOK
  <2>6. head # NoBlock
    BY <1>3, Geometry DEF FillBlock, RequestOK
  <2>7. left' =< Size[cmd.file]
    BY <1>2, <1>3, <2>5 DEF FillBlock, RequestOK, TypeOK
  <2> QED
    BY <1>3, <2>1, <2>2, <2>4, <2>5, <2>6, <2>7, Geometry DEF FillBlock, TypeOK, RequestOK
<1>4. CASE FillTail
  <2> DEFINE full == (left - 1) \div SectSize
  <2>1. full \in -1 .. SectPerBlock - 1 /\ left - full * SectSize \in Nat
    BY <1>4, TailSectors DEF FillTail, TypeOK
  <2> HIDE DEF full
  <2>2. data' \in [Sectors -> Chunk]
    BY <1>2, <1>4, SectorsWritten DEF FillTail
  <2>3. mfat' \in [Blocks -> Byte]
    <3>1. TO_END_BLOCK_OFFSET + 1 + full \in Byte
      BY <2>1, Geometry DEF Byte, TO_END_BLOCK_OFFSET
    <3> QED
      BY <1>4, <3>1 DEF FillTail, TypeOK, full
  <2>4. mdir' \in [Entries -> Entry]
    <3>1. EntryName[cmd.file] \in Names
      BY <1>2, <1>4, FilesAssumption DEF FillTail
    <3>2. head \in Byte
      BY <1>4, Geometry DEF FillTail, TypeOK, RequestOK
    <3>3. [name |-> EntryName[cmd.file], first |-> head, end |-> left - full * SectSize] \in Entry
      BY <2>1, <3>1, <3>2 DEF Entry
    <3> QED
      BY <1>4, <3>3 DEF FillTail, TypeOK, full
  <2>5. ret' \in Nat /\ sect' \in 1 .. TO_NSECTS /\ pc' = "save" /\ block' # NoBlock
    BY <1>2, <1>4, Geometry DEF FillTail, StartSave
  <2> QED
    BY <1>4, <2>2, <2>3, <2>4, <2>5 DEF FillTail, TypeOK, RequestOK
<1>5. CASE SaveSector
  <2>1. fat' \in [Blocks -> Byte] /\ dir' \in [Entries -> Entry]
    BY <1>5 DEF SaveSector, TypeOK
  <2>2. CASE LastSector
    BY <1>5, <2>1, <2>2, ReturnType DEF SaveSector, TypeOK, RequestOK, buffer
  <2>3. CASE ~LastSector
    <3>1. sect' \in 1 .. TO_NSECTS
      BY <1>5, <2>3, Geometry DEF SaveSector, LastSector, TypeOK
    <3> QED
      BY <1>5, <2>1, <2>3, <3>1 DEF SaveSector, TypeOK, RequestOK, buffer
  <2> QED
    BY <2>2, <2>3
<1> QED
  BY <1>1, <1>3, <1>4, <1>5

LEMMA ForEachStepType ==
    ASSUME TypeInv, SeekDelete \/ SeekExtract \/ ExtractNoPerm \/ SeekEnd
    PROVE  TypeInv'
<1> USE DEF TypeInv
<1>1. ASSUME Matches # {}
      PROVE  /\ Min(Matches) \in Entries /\ mdir[Min(Matches)] \in Entry
             /\ Found(Min(Matches)) => i' \in 0 .. NEntries
  <2>1. Min(Matches) \in Entries
    BY <1>1, SlotFound DEF Matches
  <2>2. Found(Min(Matches)) => i' \in 0 .. NEntries
    <3>1. PICK e : e = Min(Matches)
      OBVIOUS
    <3>2. e + 1 \in 0 .. NEntries
      BY <2>1, <3>1, GeometryAssumption DEF Entries
    <3>3. Found(e) => i' \in 0 .. NEntries
      BY <3>2 DEF Found, TypeOK
    <3> QED
      BY <3>1, <3>3
  <2> QED
    BY <2>1, <2>2 DEF TypeOK
<1>2. CASE SeekDelete
  <2>1. n' \in Entries /\ i' \in 0 .. NEntries /\ StartDelete(n')
    BY <1>1, <1>2 DEF SeekDelete
  <2>2. /\ mdir' \in [Entries -> Entry] /\ block' \in Byte
        /\ size' \in 0 .. TO_FILESIZE_MAX /\ pc' = "delete" /\ block' # NoBlock
    BY <2>1, StartDeleteType
  <2> QED
    BY <1>2, <2>1, <2>2 DEF SeekDelete, TypeOK, RequestOK, archive
<1>3. CASE SeekExtract
  <2>1. n' \in Entries /\ i' \in 0 .. NEntries /\ block' \in Byte /\ block' # NoBlock
    BY <1>1, <1>3 DEF SeekExtract, Entry, Byte, NoBlock
  <2> QED
    BY <1>3, <2>1, Geometry DEF SeekExtract, TypeOK, RequestOK, archive, buffer
<1>4. CASE ExtractNoPerm
  <2>1. CASE cmd.wild
    BY <1>1, <1>4, <2>1 DEF ExtractNoPerm, TypeOK, RequestOK, archive, buffer
  <2>2. CASE ~cmd.wild
    BY <1>1, <1>4, <2>2, ReturnType DEF ExtractNoPerm, TypeOK, RequestOK, archive, buffer
  <2> QED
    BY <2>1, <2>2
<1>5. CASE SeekEnd
  <2>1. errno' \in {"none", "ENOENT", "ENFILE", "ENOSPC", "EFBIG", "EPERM"}
    BY <1>5 DEF SeekEnd, TypeOK
  <2>4. i' \in 0 .. NEntries
    BY <1>5, GeometryAssumption DEF SeekEnd, NothingMore, IndexAtEnd, TypeOK
  <2>2. CASE cmd.op = "delete"
    BY <1>5, <2>1, <2>2, <2>4, Geometry DEF SeekEnd, StartSave, TypeOK, RequestOK, archive, buffer
  <2>3. CASE cmd.op # "delete"
    BY <1>5, <2>1, <2>3, <2>4, ReturnType DEF SeekEnd, TypeOK, RequestOK, archive, buffer
  <2> QED
    BY <2>2, <2>3
<1> QED
  BY <1>2, <1>3, <1>4, <1>5

LEMMA ReadType ==
    ASSUME TypeInv, ReadBlock \/ ReadTail
    PROVE  TypeInv'
<1> USE DEF TypeInv
<1>1. CASE ReadBlock
  <2>1. WholeSectors(block * SectPerBlock, SectPerBlock) \in Seq(Chunk \X Nat)
    BY SectorsRead, Geometry
  <2>2. extracted' \in [Names -> Seq(Chunk \X Nat)]
    <3> DEFINE whole == WholeSectors(block * SectPerBlock, SectPerBlock)
    <3>1. \A s \in Seq(Chunk \X Nat) : s \o whole \in Seq(Chunk \X Nat)
      BY <2>1
    <3>2. extracted' = [extracted EXCEPT ![mdir[n].name] = @ \o whole]
      BY <1>1 DEF ReadBlock
    <3> HIDE DEF whole
    <3> QED
      BY <3>1, <3>2 DEF TypeOK
  <2>3. block' \in Byte /\ block' # NoBlock
    BY <1>1, Bytes DEF ReadBlock, TypeOK
  <2>4. size' \in 0 .. TO_FILESIZE_MAX
    BY <1>1, Geometry DEF ReadBlock, InChain, TypeOK
  <2> QED
    BY <1>1, <2>2, <2>3, <2>4 DEF ReadBlock, TypeOK, RequestOK, archive, buffer
<1>2. CASE ReadTail
  <2> DEFINE full == mfat[block] - TO_END_BLOCK_OFFSET - 1
             last == block * SectPerBlock + (IF full > 0 THEN full ELSE 0)
  <2>1. full \in Int
    <3>1. mfat[block] \in Byte
      BY <1>2 DEF ReadTail, TypeOK
    <3> QED
      BY <3>1 DEF Byte, TO_END_BLOCK_OFFSET
  <2>2. mdir[n].end \in Nat
    BY DEF TypeOK, Entry
  <2> HIDE DEF full
  <2>3. extracted' \in [Names -> Seq(Chunk \X Nat)]
    <3>1. WholeSectors(block * SectPerBlock, full) \in Seq(Chunk \X Nat)
      BY <2>1, SectorsRead
    <3>2. <<SectorAt(last), mdir[n].end>> \in Chunk \X Nat
      BY <2>2 DEF TypeOK, SectorAt, Chunk
    <3> HIDE DEF last
    <3>3. << <<SectorAt(last), mdir[n].end>> >> \in Seq(Chunk \X Nat)
      BY <3>2
    <3> DEFINE added == WholeSectors(block * SectPerBlock, full)
                        \o << <<SectorAt(last), mdir[n].end>> >>
    <3>4. added \in Seq(Chunk \X Nat)
      BY <3>1, <3>3
    <3>5. \A s \in Seq(Chunk \X Nat) :
             s \o WholeSectors(block * SectPerBlock, full)
               \o << <<SectorAt(last), mdir[n].end>> >> \in Seq(Chunk \X Nat)
      BY <3>1, <3>3
    <3> QED
      BY <1>2, <3>5 DEF ReadTail, TypeOK, full, last
  <2>4. ret' \in Nat
    <3>1. size * TO_BLOCKSIZE \in Nat
      BY Geometry, Product DEF TypeOK
    <3>2. (IF full > 0 THEN full ELSE 0) \in Nat
      BY <2>1
    <3>3. (IF full > 0 THEN full ELSE 0) * SectSize \in Nat
      BY <3>2, Geometry, Product
    <3> QED
      BY <1>2, <2>2, <3>1, <3>3 DEF ReadTail, TypeOK, full
  <2>5. CASE cmd.wild
    BY <1>2, <2>3, <2>4, <2>5 DEF ReadTail, TypeOK, RequestOK, archive, buffer, locals
  <2>6. CASE ~cmd.wild
    BY <1>2, <2>3, <2>4, <2>6, ReturnType DEF ReadTail, TypeOK, RequestOK, archive, buffer
  <2> QED
    BY <2>5, <2>6
<1> QED
  BY <1>1, <1>2

LEMMA TypeNext == TypeInv /\ [Next]_vars => TypeInv'
<1> SUFFICES ASSUME TypeInv, [Next]_vars PROVE TypeInv'
  OBVIOUS
<1>1. CASE Call
  BY <1>1, CallType
<1>2. CASE Step
  BY <1>2, AddStepType, FillType, ForEachStepType, ReadType DEF Step
<1>3. CASE UNCHANGED vars
  BY <1>3 DEF TypeInv, TypeOK, RequestOK, vars, archive, buffer, locals
<1> QED
  BY <1>1, <1>2, <1>3 DEF Next

LEMMA TypeInvariant == Spec => []TypeInv
BY TypeInit, TypeNext, PTL DEF Spec

\* Whatever calls are made, in whatever order, every variable keeps its type:
\* a FAT byte and the first block of an entry stay bytes, no counter passes
\* its cap, and what reaches the host is a sequence of sectors of the archive.
THEOREM TypeCorrectness == Spec => []TypeOK
<1>1. TypeInv => TypeOK
  BY DEF TypeInv
<1> QED
  BY <1>1, TypeInvariant, PTL
-----------------------------------------------------------------------------
(***************************************************************************)
(* The inductive invariant: TypeInv, with what follows.                    *)
(***************************************************************************)
\* The buffer is the disk's track 20 until a command changes it ...
Synced ==
    pc \in {"idle", "size", "check"} \/ cmd.op = "extract" => mfat = fat /\ mdir = dir

\* ... and again, sector by sector, as it is written back.
Saved ==
    pc = "save" =>
        /\ sect > 2 => fat = mfat
        /\ \A e \in Entries : e \div EntriesPerSector < sect - 3 => dir[e] = mdir[e]

Live(e) == mdir[e].name # NoName

\* A block has one referrer, by kinds of referrers.
SingleReferrer ==
    /\ \A e1, e2 \in Entries :
          Live(e1) /\ Live(e2) /\ mdir[e1].first = mdir[e2].first => e1 = e2
    /\ \A c1, c2 \in Blocks : mfat[c1] = mfat[c2] /\ mfat[c1] \in Blocks => c1 = c2
    /\ \A e \in Entries, c \in Blocks : Live(e) => mfat[c] # mdir[e].first
    /\ pc = "delete" /\ block \in Blocks =>
          /\ \A e \in Entries : Live(e) => mdir[e].first # block
          /\ \A c \in Blocks : mfat[c] # block
    /\ pc = "fill" /\ head \in Blocks =>
          /\ \A e \in Entries : Live(e) => mdir[e].first # head
          /\ \A c \in Blocks : mfat[c] # head

\* A block with a referrer is in use, but for the one being filled.
ReferredInUse ==
    /\ \A e \in Entries : Live(e) => mdir[e].first \in Blocks
    /\ pc = "fill" /\ block \in Blocks => mfat[block] = TO_TAG_FREE
    /\ AllocationSucceeds =>
          /\ \A e \in Entries : Live(e) => Used(mdir[e].first)
          /\ \A c \in Blocks : mfat[c] \in Blocks =>
                Used(mfat[c]) \/ (pc = "fill" /\ mfat[c] = block)
          /\ pc = "delete" /\ block \in Blocks => Used(block)
          /\ pc = "fill" => head = block \/ Used(head)

IInv == TypeInv /\ Synced /\ Saved /\ SingleReferrer /\ ReferredInUse

-----------------------------------------------------------------------------
LEMMA LinkInit == Init => Synced /\ Saved /\ SingleReferrer /\ ReferredInUse
<1> SUFFICES ASSUME Init PROVE Synced /\ Saved /\ SingleReferrer /\ ReferredInUse
  OBVIOUS
<1>1. \A e \in Entries : ~Live(e)
  BY DEF Init, Live, FormattedDir
<1>2. \A c \in Blocks : mfat[c] \notin Blocks
  BY Geometry DEF Init, FormattedFat, TO_TAG_FREE, TO_TAG_RESERVED, Blocks
<1>3. Synced /\ Saved
  BY DEF Init, Synced, Saved
<1>4. SingleReferrer
  BY <1>1, <1>2 DEF Init, SingleReferrer
<1>5. ReferredInUse
  BY <1>1, <1>2 DEF Init, ReferredInUse
<1> QED
  BY <1>3, <1>4, <1>5

\* A step that leaves the buffer alone and starts no chain.
LEMMA BufferKept ==
    ASSUME SingleReferrer, ReferredInUse, UNCHANGED buffer,
           pc # "fill", pc' \notin {"delete", "fill"}
    PROVE  SingleReferrer' /\ ReferredInUse'
<1>1. SingleReferrer'
  BY DEF SingleReferrer, Live, buffer
<1>2. ReferredInUse'
  BY DEF ReferredInUse, AllocationSucceeds, Used, Live, buffer
<1> QED
  BY <1>1, <1>2

\* The entry deleted hands its chain over to the cursor of the deletion.
LEMMA EntryDropped ==
    ASSUME IInv, NEW e \in Entries, Live(e), pc # "fill",
           StartDelete(e), mfat' = mfat
    PROVE  SingleReferrer' /\ ReferredInUse'
<1>1. pc' = "delete" /\ block' = mdir[e].first
  BY DEF StartDelete
<1>2. \A k \in Entries : /\ Live(k)' <=> Live(k) /\ k # e
                          /\ mdir'[k].first = mdir[k].first
  BY DEF StartDelete, Live, IInv, TypeInv, TypeOK, Entry
<1>3. SingleReferrer'
  BY <1>1, <1>2 DEF SingleReferrer, IInv
<1>4. ReferredInUse'
  BY <1>1, <1>2 DEF ReferredInUse, IInv, AllocationSucceeds, Used
<1> QED
  BY <1>3, <1>4

\* The block freed had no other referrer than the cursor, and its successor
\* none but the block freed.
LEMMA BlockFreed ==
    ASSUME IInv, DeleteStep
    PROVE  SingleReferrer' /\ ReferredInUse'
<1>1. /\ pc = "delete" /\ pc' = "delete" /\ block \in Blocks
      /\ block' = mfat[block] /\ mdir' = mdir
  BY Geometry DEF DeleteStep, InChain, IInv, TypeInv, TypeOK, RequestOK, Blocks, Byte, NoBlock
<1>2. /\ mfat'[block] = TO_TAG_FREE
      /\ \A c \in Blocks : c # block => mfat'[c] = mfat[c]
  BY <1>1 DEF DeleteStep, IInv, TypeInv, TypeOK
<1>3. TO_TAG_FREE \notin Blocks
  BY Geometry DEF Blocks, TO_TAG_FREE
<1>4. \A e \in Entries : Live(e)' = Live(e)
  BY <1>1 DEF Live
<1>5. SingleReferrer'
  <2>1. \A e1, e2 \in Entries :
           Live(e1)' /\ Live(e2)' /\ mdir'[e1].first = mdir'[e2].first => e1 = e2
    BY <1>1, <1>4 DEF SingleReferrer, IInv
  <2>2. \A c \in Blocks : mfat'[c] \in Blocks => c # block /\ mfat'[c] = mfat[c]
    BY <1>2, <1>3
  <2>3. \A c1, c2 \in Blocks : mfat'[c1] = mfat'[c2] /\ mfat'[c1] \in Blocks => c1 = c2
    BY <2>2 DEF SingleReferrer, IInv
  <2>4. \A e \in Entries, c \in Blocks : Live(e)' => mfat'[c] # mdir'[e].first
    <3>1. \A e \in Entries : Live(e) => mdir[e].first \in Blocks
      BY DEF ReferredInUse, IInv
    <3> QED
      BY <1>1, <1>4, <2>2, <3>1 DEF SingleReferrer, IInv
  <2>5. block' \in Blocks =>
           /\ \A e \in Entries : Live(e)' => mdir'[e].first # block'
           /\ \A c \in Blocks : mfat'[c] # block'
    BY <1>1, <1>4, <2>2 DEF SingleReferrer, IInv
  <2> QED
    BY <1>1, <2>1, <2>3, <2>4, <2>5 DEF SingleReferrer
<1>6. ReferredInUse'
  BY <1>1, <1>2, <1>3, <1>4 DEF ReferredInUse, SingleReferrer, IInv, AllocationSucceeds, Used
<1> QED
  BY <1>5, <1>6

\* The first block of a new file is free, so nothing refers to it.
LEMMA FirstBlockTaken ==
    ASSUME IInv, AllocFirst
    PROVE  SingleReferrer' /\ ReferredInUse'
<1>1. /\ pc = "alloc" /\ pc' = "fill" /\ mfat' = mfat /\ mdir' = mdir
      /\ head' = block'
  BY DEF AllocFirst, buffer
<1>2. block' \in Blocks => mfat[block'] = TO_TAG_FREE
  BY FindSym, Geometry DEF AllocFirst, FreeBlocks
<1>3. \A e \in Entries : Live(e)' = Live(e)
  BY <1>1 DEF Live
<1>4. SingleReferrer'
  BY <1>1, <1>2, <1>3 DEF SingleReferrer, ReferredInUse, IInv, AllocationSucceeds, Used
<1>5. ReferredInUse'
  BY <1>1, <1>2, <1>3 DEF ReferredInUse, IInv, AllocationSucceeds, Used
<1> QED
  BY <1>4, <1>5

\* do_add_file links a block to a free one, other than itself since it is
\* marked during the search.
LEMMA BlockLinked ==
    ASSUME IInv, FillBlock
    PROVE  SingleReferrer' /\ ReferredInUse'
<1> DEFINE next == find_free_block_rel(MarkBlock(mfat, block), block)
<1>1. /\ pc = "fill" /\ pc' = "fill" /\ mdir' = mdir /\ head' = head
      /\ block \in Blocks /\ block' = next /\ AllocationSucceeds
      /\ mfat[block] = TO_TAG_FREE /\ head \in Blocks
  BY Geometry
     DEF FillBlock, AllocationSucceeds, ReferredInUse, IInv, TypeInv, TypeOK, RequestOK
<1>2. /\ mfat'[block] = next % 256
      /\ \A c \in Blocks : c # block => mfat'[c] = mfat[c]
  BY <1>1 DEF FillBlock, IInv, TypeInv, TypeOK
<1>3. next \in Blocks => next # block /\ mfat[next] = TO_TAG_FREE
  <2> SUFFICES ASSUME next \in Blocks
               PROVE  next # block /\ mfat[next] = TO_TAG_FREE
    OBVIOUS
  <2>1. next \in FreeBlocks(MarkBlock(mfat, block))
    BY FindRel, Geometry
  <2> HIDE DEF next
  <2>2. MarkBlock(mfat, block)[next] = TO_TAG_FREE
    BY <2>1 DEF FreeBlocks
  <2> QED
    BY <1>1, <2>2 DEF MarkBlock, TO_TAG_FREE, TO_TAG_RESERVED, IInv, TypeInv, TypeOK
<1>4. next \in Blocks \cup {NoBlock}
  BY FindRel DEF FreeBlocks
<1> HIDE DEF next
<1>5. next \in Blocks => mfat'[block] = next
  BY <1>2, Bytes
<1>6. mfat'[block] \in Blocks => next \in Blocks
  BY <1>2, <1>4, Bytes, Geometry DEF TO_TAG_FREE, Blocks
<1>7. \A b \in Blocks : b # TO_TAG_FREE /\ b # TO_TAG_RESERVED
  BY Geometry DEF Blocks, TO_TAG_FREE, TO_TAG_RESERVED
<1>8. \A e \in Entries : Live(e)' = Live(e)
  BY <1>1 DEF Live
<1>9. next \in Blocks => /\ \A e \in Entries : Live(e) => mdir[e].first # next
                         /\ \A c \in Blocks : mfat[c] # next
                         /\ head # next
  BY <1>1, <1>3 DEF ReferredInUse, IInv, Used
<1>10. SingleReferrer'
  <2>1. \A c1, c2 \in Blocks : mfat'[c1] = mfat'[c2] /\ mfat'[c1] \in Blocks => c1 = c2
    BY <1>2, <1>5, <1>6, <1>9 DEF SingleReferrer, IInv
  <2>2. \A e \in Entries : Live(e) => mdir[e].first \in Blocks
    BY DEF ReferredInUse, IInv
  <2>3. \A e \in Entries, c \in Blocks : Live(e)' => mfat'[c] # mdir'[e].first
    BY <1>1, <1>2, <1>5, <1>6, <1>8, <1>9, <2>2 DEF SingleReferrer, IInv
  <2>4. /\ \A e \in Entries : Live(e)' => mdir'[e].first # head'
        /\ \A c \in Blocks : mfat'[c] # head'
    BY <1>1, <1>2, <1>5, <1>6, <1>8, <1>9 DEF SingleReferrer, IInv
  <2>5. \A e1, e2 \in Entries :
           Live(e1)' /\ Live(e2)' /\ mdir'[e1].first = mdir'[e2].first => e1 = e2
    BY <1>1, <1>8 DEF SingleReferrer, IInv
  <2> QED
    BY <1>1, <2>1, <2>3, <2>4, <2>5 DEF SingleReferrer
<1>11. ASSUME NEW b \in Blocks, Used(b) \/ b = block, next \in Blocks
       PROVE  Used(b)'
  BY <1>2, <1>5, <1>7, <1>11 DEF Used
<1>12. ReferredInUse'
  <2>1. \A e \in Entries : Live(e)' => mdir'[e].first \in Blocks
    BY <1>1, <1>8 DEF ReferredInUse, IInv
  <2>2. block' \in Blocks => mfat'[block'] = TO_TAG_FREE
    BY <1>1, <1>2, <1>3
  <2>3. ASSUME block' # NoBlock
        PROVE  /\ \A e \in Entries : Live(e)' => Used(mdir[e].first)'
               /\ \A c \in Blocks : mfat'[c] \in Blocks =>
                     Used(mfat[c])' \/ mfat'[c] = block'
               /\ head = block' \/ Used(head)'
    <3>1. next \in Blocks
      BY <1>1, <1>4, <2>3
    <3>2. \A e \in Entries : Live(e)' => Used(mdir[e].first)'
      BY <1>1, <1>8, <1>11, <3>1 DEF ReferredInUse, IInv
    <3>3. \A c \in Blocks : mfat'[c] \in Blocks => Used(mfat[c])' \/ mfat'[c] = block'
      BY <1>1, <1>2, <1>5, <1>11, <3>1 DEF ReferredInUse, IInv
    <3>4. Used(head)'
      BY <1>1, <1>11, <3>1 DEF ReferredInUse, IInv
    <3> QED
      BY <3>2, <3>3, <3>4
  <2> QED
    BY <1>1, <2>1, <2>2, <2>3 DEF ReferredInUse, AllocationSucceeds, Used
<1> QED
  BY <1>10, <1>12

\* The last block is tagged with a byte that is no link, and the entry takes
\* over the first block.
LEMMA ChainClosed ==
    ASSUME IInv, FillTail
    PROVE  SingleReferrer' /\ ReferredInUse'
<1> DEFINE full == (left - 1) \div SectSize
<1>1. /\ pc = "fill" /\ pc' = "save" /\ block \in Blocks /\ AllocationSucceeds
      /\ mfat[block] = TO_TAG_FREE /\ head \in Blocks
  BY Geometry
     DEF FillTail, StartSave, AllocationSucceeds, ReferredInUse, IInv, TypeInv, TypeOK, RequestOK
<1>2. full \in -1 .. SectPerBlock - 1
  BY TailSectors DEF FillTail, IInv, TypeInv, TypeOK
<1>3. /\ mfat'[block] = TO_END_BLOCK_OFFSET + 1 + full
      /\ \A c \in Blocks : c # block => mfat'[c] = mfat[c]
  BY <1>1 DEF FillTail, IInv, TypeInv, TypeOK
<1>4. /\ \A e \in Entries : e # n => mdir'[e] = mdir[e]
      /\ mdir'[n].first = head
  BY DEF FillTail, IInv, TypeInv, TypeOK
<1> HIDE DEF full
<1>5. mfat'[block] \notin Blocks /\ mfat'[block] \notin {TO_TAG_FREE, TO_TAG_RESERVED}
  BY <1>2, <1>3, Geometry DEF Blocks, TO_END_BLOCK_OFFSET, TO_TAG_FREE, TO_TAG_RESERVED
<1>6. \A e \in Entries : e # n => (Live(e)' <=> Live(e))
  BY <1>4 DEF Live
<1>7. \A c \in Blocks : mfat'[c] \in Blocks => mfat'[c] = mfat[c]
  BY <1>3, <1>5
<1>8. SingleReferrer'
  <2>1. \A e1, e2 \in Entries :
           Live(e1)' /\ Live(e2)' /\ mdir'[e1].first = mdir'[e2].first => e1 = e2
    BY <1>1, <1>4, <1>6 DEF SingleReferrer, IInv
  <2>2. \A c1, c2 \in Blocks : mfat'[c1] = mfat'[c2] /\ mfat'[c1] \in Blocks => c1 = c2
    BY <1>7 DEF SingleReferrer, IInv
  <2>3. \A e \in Entries : Live(e)' => mdir'[e].first \in Blocks
    BY <1>1, <1>4, <1>6 DEF ReferredInUse, IInv
  <2>4. \A e \in Entries, c \in Blocks : Live(e)' => mfat'[c] # mdir'[e].first
    BY <1>1, <1>4, <1>6, <1>7, <2>3 DEF SingleReferrer, IInv
  <2> QED
    BY <1>1, <2>1, <2>2, <2>4 DEF SingleReferrer
<1>9. ASSUME NEW b \in Blocks, Used(b) \/ b = block
      PROVE  Used(b)'
  BY <1>3, <1>5, <1>9 DEF Used
<1>10. ReferredInUse'
  <2>1. \A e \in Entries : Live(e)' => mdir'[e].first \in Blocks /\ Used(mdir[e].first)'
    <3>1. \A e \in Entries : e # n /\ Live(e)' => mdir'[e].first \in Blocks /\ Used(mdir[e].first)'
      BY <1>1, <1>4, <1>6, <1>9 DEF ReferredInUse, IInv
    <3>2. Used(head) \/ head = block
      BY <1>1 DEF ReferredInUse, IInv
    <3>3. ASSUME NEW e \in Entries, e = n
          PROVE  mdir'[e].first \in Blocks /\ Used(mdir[e].first)'
      <4>1. mdir'[e].first = head
        BY <1>4, <3>3
      <4>2. PICK h \in Blocks : h = head
        BY <1>1
      <4>3. Used(h)'
        BY <1>9, <3>2, <4>2
      <4> QED
        BY <1>1, <4>1, <4>2, <4>3 DEF Used
    <3> QED
      BY <3>1, <3>3
  <2>2. \A c \in Blocks : mfat'[c] \in Blocks => Used(mfat[c])'
    BY <1>1, <1>7, <1>9 DEF ReferredInUse, IInv
  <2> QED
    BY <1>1, <2>1, <2>2 DEF ReferredInUse, AllocationSucceeds
<1> QED
  BY <1>8, <1>10

LEMMA LinksPreserved ==
    ASSUME IInv, Next
    PROVE  SingleReferrer' /\ ReferredInUse'
<1> USE DEF IInv
<1>1. CASE Call
  <2>1. pc = "idle" /\ mfat = fat /\ mdir = dir
    BY <1>1 DEF Call, AddNoFile, AddEmptyFile, AddDirFull, AddFile, DeleteFile,
                ExtractFile, ForEachFile, Synced
  <2>2. UNCHANGED buffer /\ pc' \in {"idle", "size", "check", "seek"}
    BY <1>1, <2>1 DEF Call, AddNoFile, AddEmptyFile, AddDirFull, AddFile, DeleteFile,
                      ExtractFile, ForEachFile, Refuse, Return, ReadTrack20, buffer
  <2> QED
    BY <2>1, <2>2, BufferKept
<1>2. CASE SizeStep \/ AddTooBig
  BY <1>2, BufferKept DEF SizeStep, AddTooBig, Refuse, Return
<1>3. CASE CheckStep
  <2>1. CASE mdir[n].name # NoName
    <3>1. n \in Entries /\ Live(n) /\ StartDelete(n) /\ mfat' = mfat /\ pc # "fill"
      BY <1>3, <2>1 DEF CheckStep, Live, TypeInv, TypeOK
    <3> QED
      BY <3>1, EntryDropped
  <2>2. CASE mdir[n].name = NoName
    BY <1>3, <2>2, BufferKept DEF CheckStep, buffer
  <2> QED
    BY <2>1, <2>2
<1>4. CASE DeleteStep
  BY <1>4, BlockFreed
<1>5. CASE DeleteDone
  BY <1>5, BufferKept DEF DeleteDone, StartSave
<1>6. CASE AllocFirst
  BY <1>6, FirstBlockTaken
<1>7. CASE FillBlock
  BY <1>7, BlockLinked
<1>8. CASE FillTail
  BY <1>8, ChainClosed
<1>9. CASE SaveSector
  <2>1. pc = "save" /\ pc' \in {"save", "idle"} /\ UNCHANGED buffer
    BY <1>9 DEF SaveSector, Return
  <2> QED
    BY <2>1, BufferKept
<1>10. CASE SeekDelete
  <2>1. n' \in Entries /\ mdir[n'].name \in cmd.pattern
    BY <1>10, SlotFound DEF SeekDelete, Matches
  <2>2. Live(n')
    BY <2>1, FilesAssumption DEF Live, TypeInv, TypeOK, Cmd
  <2>3. StartDelete(n') /\ mfat' = mfat /\ pc # "fill"
    BY <1>10 DEF SeekDelete
  <2> QED
    BY <2>1, <2>2, <2>3, EntryDropped
<1>11. CASE SeekExtract \/ ExtractNoPerm \/ SeekEnd
  <2>1. /\ pc = "seek" /\ UNCHANGED buffer
        /\ pc' \in {"read", "seek", "idle", "save"}
    BY <1>11 DEF SeekExtract, ExtractNoPerm, SeekEnd, Return, StartSave
  <2> QED
    BY <2>1, BufferKept
<1>12. CASE ReadBlock \/ ReadTail
  <2>1. pc = "read" /\ UNCHANGED buffer /\ pc' \in {"read", "seek", "idle"}
    BY <1>12 DEF ReadBlock, ReadTail, Return
  <2> QED
    BY <2>1, BufferKept
<1> QED
  BY <1>1, <1>2, <1>3, <1>4, <1>5, <1>6, <1>7, <1>8, <1>9, <1>10, <1>11, <1>12
     DEF Next, Step

\* A command changes the buffer after it has read track 20, and idle comes
\* back when the last sector of the buffer is written.
LEMMA BufferSynced ==
    ASSUME TypeInv, Synced, Saved, Next
    PROVE  Synced' /\ Saved'
<1>1. CASE Call
  <2>1. pc = "idle" /\ mfat = fat /\ mdir = dir
    BY <1>1 DEF Call, AddNoFile, AddEmptyFile, AddDirFull, AddFile, DeleteFile,
                ExtractFile, ForEachFile, Synced
  <2>2. UNCHANGED <<archive, buffer>> /\ pc' # "save"
    BY <1>1, <2>1 DEF Call, AddNoFile, AddEmptyFile, AddDirFull, AddFile, DeleteFile,
                      ExtractFile, ForEachFile, Refuse, Return, ReadTrack20, buffer, archive
  <2> QED
    BY <2>1, <2>2 DEF Synced, Saved, buffer, archive
<1>2. CASE SizeStep \/ AddTooBig
  <2>1. /\ mfat = fat /\ mdir = dir /\ UNCHANGED <<archive, buffer>>
        /\ pc' \in {"size", "check", "idle"}
    BY <1>2 DEF SizeStep, AddTooBig, Refuse, Return, Synced
  <2> QED
    BY <2>1 DEF Synced, Saved, archive, buffer
<1>3. CASE CheckStep \/ DeleteStep \/ AllocFirst \/ FillBlock
  <2>1. /\ pc' \in {"delete", "alloc", "fill"}
        /\ cmd' = cmd /\ cmd.op # "extract"
    BY <1>3 DEF CheckStep, DeleteStep, AllocFirst, FillBlock, StartDelete, TypeInv, RequestOK
  <2> QED
    BY <2>1 DEF Synced, Saved
<1>4. CASE DeleteDone \/ FillTail \/ SeekDelete
  <2>1. /\ pc' \in {"alloc", "seek", "save", "delete"}
        /\ cmd' = cmd /\ cmd.op # "extract" /\ (pc' = "save" => sect' = 1)
    BY <1>4 DEF DeleteDone, FillTail, SeekDelete, StartDelete, StartSave, TypeInv, RequestOK
  <2> QED
    BY <2>1, SlotSector DEF Synced, Saved
<1>5. CASE SaveSector
  <2>1. /\ pc = "save" /\ UNCHANGED buffer
        /\ fat' = IF sect = 2 THEN mfat ELSE fat
        /\ \A e \in Entries :
              dir'[e] = IF e \div EntriesPerSector = sect - 3 THEN mdir[e] ELSE dir[e]
    BY <1>5 DEF SaveSector
  <2>2. sect \in 1 .. TO_NSECTS /\ sect \in Int
    BY Geometry DEF TypeInv, TypeOK
  <2>3. fat' = IF sect >= 2 THEN mfat ELSE fat
    BY <2>1, <2>2 DEF Saved
  <2>4. \A e \in Entries : e \div EntriesPerSector < sect - 2 => dir'[e] = mdir[e]
    BY <2>1, <2>2, SlotSector DEF Saved
  <2>5. CASE LastSector
    <3>1. sect >= 2 /\ \A e \in Entries : e \div EntriesPerSector < sect - 2
      BY <2>5, SlotSector, Geometry DEF LastSector
    <3>2. fat' = mfat' /\ mdir' = mdir
      BY <2>1, <2>3, <3>1 DEF buffer
    <3>3. \A e \in Entries : dir'[e] = mdir'[e]
      BY <2>4, <3>1, <3>2
    <3>4. dir' = mdir'
      BY <1>5, <3>2, <3>3 DEF SaveSector, TypeInv, TypeOK
    <3>5. pc' = "idle"
      BY <1>5, <2>5 DEF SaveSector, Return
    <3> QED
      BY <3>2, <3>4, <3>5 DEF Synced, Saved
  <2>6. CASE ~LastSector
    <3>1. pc' = "save" /\ cmd' = cmd /\ sect' = sect + 1 /\ cmd.op # "extract"
      BY <1>5, <2>6 DEF SaveSector, TypeInv, RequestOK
    <3> QED
      BY <2>1, <2>2, <2>3, <2>4, <3>1, SlotSector DEF Synced, Saved, buffer
  <2> QED
    BY <2>5, <2>6
<1>6. CASE SeekExtract \/ ReadBlock \/ ReadTail \/ ExtractNoPerm
  <2>1. /\ cmd.op = "extract" /\ UNCHANGED <<archive, buffer>> /\ pc' # "save"
    BY <1>6 DEF SeekExtract, ReadBlock, ReadTail, ExtractNoPerm, Return, TypeInv, RequestOK
  <2> QED
    BY <2>1 DEF Synced, Saved, archive, buffer
<1>7. CASE SeekEnd
  <2>1. CASE cmd.op = "delete"
    BY <1>7, <2>1, SlotSector DEF SeekEnd, StartSave, Synced, Saved
  <2>2. CASE cmd.op # "delete"
    <3>1. cmd.op = "extract" /\ UNCHANGED <<archive, buffer>> /\ pc' = "idle"
      BY <1>7, <2>2 DEF SeekEnd, Return, TypeInv, RequestOK
    <3> QED
      BY <3>1 DEF Synced, Saved, archive, buffer
  <2> QED
    BY <2>1, <2>2
<1> QED
  BY <1>1, <1>2, <1>3, <1>4, <1>5, <1>6, <1>7 DEF Next, Step

LEMMA LinkInvariant == Spec => []IInv
<1>1. Init => IInv
  BY TypeInit, LinkInit DEF IInv
<1>2. IInv /\ [Next]_vars => IInv'
  <2> SUFFICES ASSUME IInv, [Next]_vars PROVE IInv'
    OBVIOUS
  <2>1. TypeInv'
    BY TypeNext DEF IInv
  <2>2. CASE Next
    BY <2>1, <2>2, LinksPreserved, BufferSynced DEF IInv
  <2>3. CASE UNCHANGED vars
    BY <2>1, <2>3 DEF IInv, Synced, Saved, SingleReferrer, ReferredInUse, Live, Used,
                      AllocationSucceeds, vars, archive, buffer, locals
  <2> QED
    BY <2>2, <2>3
<1> QED
  BY <1>1, <1>2, PTL DEF Spec

\* No two files ever share a block, nor does a file being written or deleted
\* share one with another, whatever is called and however full the disk is.
THEOREM NoSharedBlock == Spec => []NoCrossLink
<1>1. IInv => NoCrossLink
  <2> SUFFICES ASSUME IInv, NEW b \in Blocks,
                      NEW o1 \in Owners(b), NEW o2 \in Owners(b)
               PROVE  o1 = o2
    BY DEF NoCrossLink
  <2> DEFINE starts == {k \in Entries : mdir[k].name # NoName /\ mdir[k].first = b}
             links  == {k \in Blocks : mfat[k] = b}
  <2>1. ASSUME NEW o \in Owners(b)
        PROVE  \/ \E e \in starts : o = <<"entry", e>>
               \/ \E c \in links : o = <<"link", c>>
               \/ pc = "delete" /\ block = b /\ o = <<"cursor", 0>>
               \/ pc = "fill" /\ head = b /\ o = <<"head", 0>>
    BY DEF Owners
  <2>2. \A e1, e2 \in starts : e1 = e2
    BY DEF IInv, SingleReferrer, Live
  <2>3. \A c1, c2 \in links : c1 = c2
    BY DEF IInv, SingleReferrer
  <2>4. starts = {} \/ links = {}
    BY DEF IInv, SingleReferrer, Live
  <2>5. pc = "delete" /\ block = b => starts = {} /\ links = {}
    BY DEF IInv, SingleReferrer, Live
  <2>6. pc = "fill" /\ head = b => starts = {} /\ links = {}
    BY DEF IInv, SingleReferrer, Live
  <2> HIDE DEF starts, links
  <2> QED
    BY <2>1, <2>2, <2>3, <2>4, <2>5, <2>6
<1> QED
  BY <1>1, LinkInvariant, PTL

\* No file, no link and no deletion under way ever refers to a free block, as
\* long as the searches for a free block succeed.
THEOREM ReferredBlocksInUse == Spec => []LiveChains
<1>1. IInv => LiveChains
  <2> SUFFICES ASSUME IInv, AllocationSucceeds, NEW b \in Blocks, NEW o \in Owners(b)
               PROVE  Used(b) \/ (pc = "fill" /\ b = block)
    BY DEF LiveChains
  <2>1. CASE \E e \in Entries : Live(e) /\ mdir[e].first = b
    BY <2>1 DEF IInv, ReferredInUse
  <2>2. CASE \E c \in Blocks : mfat[c] = b
    BY <2>2 DEF IInv, ReferredInUse
  <2>3. CASE pc = "delete" /\ block = b
    BY <2>3 DEF IInv, ReferredInUse
  <2>4. CASE pc = "fill" /\ head = b
    BY <2>4 DEF IInv, ReferredInUse
  <2> QED
    BY <2>1, <2>2, <2>3, <2>4 DEF Owners, Live
<1> QED
  BY <1>1, LinkInvariant, PTL

-----------------------------------------------------------------------------
(***************************************************************************)
(* The names of the directory, and the blocks of track 20.                 *)
(***************************************************************************)
(***************************************************************************)
(* The inductive invariant for names.  While track 20 is saved, the disk   *)
(* has some slots of the buffer and some of before: names are distinct     *)
(* within each and across the two.                                         *)
(***************************************************************************)
Distinct(D1, D2) ==
    \A e1, e2 \in Entries : D1[e1].name # NoName /\ D1[e1].name = D2[e2].name => e1 = e2

\* Where the file that is being added goes, no other slot has its name.
OnlySlot ==
    cmd.op = "add" /\ pc # "save" =>
        \A e \in Entries :
            dir[e].name = EntryName[cmd.file] \/ mdir[e].name = EntryName[cmd.file] => e = n

NamesInv ==
    /\ Distinct(dir, dir) /\ Distinct(mdir, mdir) /\ Distinct(dir, mdir)
    /\ OnlySlot

-----------------------------------------------------------------------------
LEMMA NamesInit == Init => NamesInv
<1> SUFFICES ASSUME Init PROVE NamesInv
  OBVIOUS
<1>1. \A e \in Entries : dir[e].name = NoName /\ mdir[e].name = NoName
  BY DEF Init, FormattedDir
<1>2. cmd.op # "add"
  BY DEF Init, NoCmd
<1> QED
  BY <1>1, <1>2 DEF NamesInv, Distinct, OnlySlot

\* Track 20 is read: the buffer is the disk, whose names are distinct.
LEMMA NamesRead ==
    ASSUME NamesInv, mdir' = dir, dir' = dir, cmd'.op # "add"
    PROVE  NamesInv'
BY DEF NamesInv, Distinct, OnlySlot

\* The slot that sap_AddFile chooses is that of the name, or nobody has it.
LEMMA NamesAdd ==
    ASSUME TypeInv, NamesInv, NEW f \in HostFiles, AddFile(f)
    PROVE  NamesInv'
<1>1. mdir' = dir /\ dir' = dir /\ cmd'.file = f
  BY DEF AddFile, ReadTrack20, archive, NoCmd
<1>2. EntryName[f] \in Names /\ EntryName[f] # NoName
  BY FilesAssumption
<1>3. ASSUME NEW e \in Entries, dir[e].name = EntryName[f]
      PROVE  e = n'
  <2>1. e \in PrevSlots(f)
    BY <1>3, GeometryAssumption DEF PrevSlots, SlotsOf, Entries
  <2>2. n' = Min(PrevSlots(f)) /\ n' \in Entries /\ dir[n'].name = EntryName[f]
    BY <2>1, SlotFound DEF AddFile, PrevSlots
  <2> QED
    BY <1>2, <1>3, <2>2 DEF NamesInv, Distinct
<1> QED
  BY <1>1, <1>3 DEF NamesInv, Distinct, OnlySlot

\* An entry deleted leaves fewer names.
LEMMA NamesDrop ==
    ASSUME TypeInv, NamesInv, NEW e \in Entries, StartDelete(e), dir' = dir, cmd' = cmd,
           cmd.op = "add" => n' = n /\ pc # "save"
    PROVE  NamesInv'
<1>1. \A k \in Entries : mdir'[k].name = (IF k = e THEN NoName ELSE mdir[k].name)
  BY DEF StartDelete, TypeInv, TypeOK, Entry
<1>2. OnlySlot'
  <2>1. ASSUME cmd.op = "add" PROVE EntryName[cmd.file] # NoName
    BY <2>1, FilesAssumption DEF TypeInv, RequestOK
  <2> QED
    BY <1>1, <2>1 DEF NamesInv, OnlySlot
<1> QED
  BY <1>1, <1>2 DEF NamesInv, Distinct

\* The directory is not changed, and no file is added that was not before.
LEMMA NamesKept ==
    ASSUME NamesInv, dir' = dir, mdir' = mdir,
           cmd'.op = "add" => cmd' = cmd /\ n' = n /\ pc # "save"
    PROVE  NamesInv'
BY DEF NamesInv, Distinct, OnlySlot

\* The new entry.
LEMMA NamesWrite ==
    ASSUME TypeInv, NamesInv, FillTail
    PROVE  NamesInv'
<1>1. /\ dir' = dir /\ pc' = "save" /\ cmd.op = "add" /\ pc # "save" /\ n \in Entries
  BY DEF FillTail, StartSave, TypeInv, TypeOK, RequestOK
<1>2. \A k \in Entries :
         mdir'[k].name = IF k = n THEN EntryName[cmd.file] ELSE mdir[k].name
  BY DEF FillTail, TypeInv, TypeOK
<1> QED
  BY <1>1, <1>2 DEF NamesInv, Distinct, OnlySlot

\* A sector of the directory is written: its slots are now those of the buffer.
LEMMA NamesSave ==
    ASSUME TypeInv, NamesInv, SaveSector
    PROVE  NamesInv'
<1>1. \A e \in Entries : dir'[e] = dir[e] \/ dir'[e] = mdir[e]
  BY DEF SaveSector
<1>2. mdir' = mdir /\ (cmd'.op = "add" => pc' = "save")
  BY DEF SaveSector, buffer, Return, NoCmd
<1> QED
  BY <1>1, <1>2 DEF NamesInv, Distinct, OnlySlot

LEMMA NamesNext == TypeInv /\ Synced /\ NamesInv /\ [Next]_vars => NamesInv'
<1> SUFFICES ASSUME TypeInv, Synced, NamesInv, [Next]_vars PROVE NamesInv'
  OBVIOUS
<1>1. CASE Call
  <2>1. ASSUME NEW e, Refuse(e) PROVE NamesInv'
    BY <2>1, NamesKept DEF Refuse, Return, NoCmd, archive, buffer
  <2>2. ASSUME NEW f \in HostFiles, AddFile(f) PROVE NamesInv'
    BY <2>2, NamesAdd
  <2>3. ASSUME NEW op \in {"delete", "extract"}, NEW S, NEW w, ForEachFile(op, S, w)
        PROVE  NamesInv'
    BY <2>3, NamesRead DEF ForEachFile, ReadTrack20, NoCmd, archive
  <2> QED
    BY <1>1, <2>1, <2>2, <2>3
       DEF Call, AddNoFile, AddEmptyFile, AddDirFull, DeleteFile, ExtractFile
<1>2. CASE SizeStep
  BY <1>2, NamesKept DEF SizeStep, archive, buffer
<1>3. CASE AddTooBig
  BY <1>3, NamesKept DEF AddTooBig, Refuse, Return, NoCmd, archive, buffer
<1>4. CASE CheckStep
  <2>1. CASE mdir[n].name # NoName
    BY <1>4, <2>1, NamesDrop DEF CheckStep, archive, TypeInv, TypeOK
  <2>2. CASE mdir[n].name = NoName
    BY <1>4, <2>2, NamesKept DEF CheckStep, archive
  <2> QED
    BY <2>1, <2>2
<1>5. CASE DeleteStep \/ AllocFirst \/ FillBlock
  BY <1>5, NamesKept DEF DeleteStep, AllocFirst, FillBlock, archive, buffer
<1>6. CASE DeleteDone
  BY <1>6, NamesKept DEF DeleteDone, archive, buffer
<1>7. CASE FillTail
  BY <1>7, NamesWrite
<1>8. CASE SaveSector
  BY <1>8, NamesSave
<1>9. CASE SeekDelete
  <2>1. n' \in Entries /\ StartDelete(n') /\ cmd.op # "add"
    BY <1>9, SlotFound DEF SeekDelete, Matches
  <2> QED
    BY <1>9, <2>1, NamesDrop DEF SeekDelete, archive
<1>10. CASE SeekExtract \/ ExtractNoPerm \/ SeekEnd \/ ReadBlock \/ ReadTail
  <2>1. cmd.op # "add" /\ (cmd' = cmd \/ cmd' = NoCmd) /\ dir' = dir /\ mdir' = mdir
    BY <1>10 DEF SeekExtract, ExtractNoPerm, SeekEnd, ReadBlock, ReadTail, Return,
                 TypeInv, RequestOK, archive, buffer
  <2> QED
    BY <2>1, NamesKept DEF NoCmd
<1>11. CASE UNCHANGED vars
  BY <1>11, NamesKept DEF NamesInv, Distinct, OnlySlot, vars, archive, buffer, locals
<1> QED
  BY <1>1, <1>2, <1>3, <1>4, <1>5, <1>6, <1>7, <1>8, <1>9, <1>10, <1>11 DEF Next, Step

\* Whatever is added, replaced and deleted, two entries on the disk never bear one
\* name, not even while the directory is written back a sector at a time.
THEOREM NamesStayUnique == Spec => []UniqueNames
<1>1. IInv => TypeInv /\ Synced
  BY DEF IInv
<1>2. NamesInv => UniqueNames
  BY DEF NamesInv, Distinct, UniqueNames
<1> QED
  BY <1>1, <1>2, NamesInit, NamesNext, LinkInvariant, PTL DEF Spec

-----------------------------------------------------------------------------
(***************************************************************************)
(* Reserved blocks are reserved, in the buffer and on the disk: since a    *)
(* link never leads to one (ReferredInUse), and the search for a free      *)
(* block never gives one, no command reaches its FAT byte or its sectors.  *)
(***************************************************************************)
ReservedInv ==
    \A b \in Reserved : mfat[b] = TO_TAG_RESERVED /\ fat[b] = TO_TAG_RESERVED

\* A block that is written or freed is not a reserved one.
LEMMA WorkedOnBlock ==
    ASSUME IInv, ReservedInv, block \in Blocks, pc \in {"delete", "fill"}
    PROVE  block \notin Reserved
<1>1. CASE pc = "delete"
  BY <1>1 DEF IInv, ReferredInUse, AllocationSucceeds, Used, ReservedInv
<1>2. CASE pc = "fill"
  BY <1>2 DEF IInv, ReferredInUse, ReservedInv, TO_TAG_FREE, TO_TAG_RESERVED
<1> QED
  BY <1>1, <1>2

\* The sectors of two blocks are apart.
LEMMA OtherSectors ==
    ASSUME NEW b \in Blocks, NEW c \in Blocks, b # c, NEW s \in 0 .. SectPerBlock - 1,
           NEW count \in 0 .. SectPerBlock
    PROVE  b * SectPerBlock + s \notin c * SectPerBlock .. c * SectPerBlock + count - 1
<1> DEFINE d == SectPerBlock
<1>1. d \in Nat \ {0} /\ b \in Int /\ c \in Int
  BY Geometry DEF Blocks
<1> HIDE DEF d
<1>2. d * b = b * d /\ d * c = c * d /\ d * b \in Int /\ d * c \in Int
  BY <1>1
<1>3. d * (b + 1) = d * b + d /\ d * (c + 1) = d * c + d
  BY <1>1
<1>4. CASE b < c
  <2>1. d * (b + 1) =< d * c
    <3>1. SUFFICES ASSUME d * c < d * (b + 1) PROVE FALSE
      BY <1>1, <1>2, <1>3, <3>1
    <3>2. c < b + 1
      BY <1>1, <3>1, Monotone
    <3> QED
      BY <1>1, <1>4, <3>2
  <2> QED
    BY <1>1, <1>2, <1>3, <2>1 DEF d
<1>5. CASE c < b
  <2>1. d * (c + 1) =< d * b
    <3>1. SUFFICES ASSUME d * b < d * (c + 1) PROVE FALSE
      BY <1>1, <1>2, <1>3, <3>1
    <3>2. b < c + 1
      BY <1>1, <3>1, Monotone
    <3> QED
      BY <1>1, <1>5, <3>2
  <2> QED
    BY <1>1, <1>2, <1>3, <2>1 DEF d
<1> QED
  BY <1>1, <1>4, <1>5

\* A sector of the disk is where its block puts it.
LEMMA BlockSector ==
    ASSUME NEW b \in Blocks, NEW s \in 0 .. SectPerBlock - 1
    PROVE  b * SectPerBlock + s \in Sectors
<1> DEFINE d == SectPerBlock
<1>1. d \in Nat \ {0} /\ b \in Nat /\ NBlocks \in Nat /\ b < NBlocks
  BY Geometry DEF Blocks
<1> HIDE DEF d
<1>2. d * b = b * d /\ d * b \in Nat /\ d * NBlocks = NBlocks * d /\ d * (b + 1) = d * b + d
  BY <1>1
<1>3. d * (b + 1) =< d * NBlocks
  <2>1. SUFFICES ASSUME d * NBlocks < d * (b + 1) PROVE FALSE
    BY <1>1, <1>2, <2>1
  <2>2. NBlocks < b + 1
    BY <1>1, <2>1, Monotone
  <2> QED
    BY <1>1, <2>2
<1> QED
  BY <1>1, <1>2, <1>3 DEF d, Sectors

LEMMA DataKept ==
    ASSUME NEW b \in Blocks, NEW c \in Blocks, b # c, NEW s \in 0 .. SectPerBlock - 1,
           NEW count \in 0 .. SectPerBlock, NEW from, data' = WriteSectors(c, count, from)
    PROVE  data'[b * SectPerBlock + s] = data[b * SectPerBlock + s]
BY OtherSectors, BlockSector DEF WriteSectors

\* What a step does to the reserved blocks: nothing.
Untouched ==
    \A b \in Reserved :
        /\ fat'[b] = fat[b]
        /\ \A s \in 0 .. SectPerBlock - 1 :
              data'[b * SectPerBlock + s] = data[b * SectPerBlock + s]

LEMMA ReservedInit == Init => ReservedInv
BY GeometryAssumption DEF Init, FormattedFat, ReservedInv

LEMMA DeletedBlock == IInv /\ DeleteStep => block \in Blocks /\ pc = "delete"
<1> SUFFICES ASSUME IInv, DeleteStep PROVE block \in Blocks /\ pc = "delete"
  OBVIOUS
<1> QED
  BY Geometry DEF DeleteStep, InChain, IInv, TypeInv, TypeOK, RequestOK, Blocks, Byte, NoBlock

LEMMA TailCount ==
    IInv /\ FillTail => (left - 1) \div SectSize + 1 \in 0 .. SectPerBlock
<1> DEFINE full == (left - 1) \div SectSize
<1> SUFFICES ASSUME IInv, FillTail PROVE full + 1 \in 0 .. SectPerBlock
  OBVIOUS
<1>1. full \in -1 .. SectPerBlock - 1
  BY TailSectors DEF FillTail, IInv, TypeInv, TypeOK
<1> HIDE DEF full
<1> QED
  BY <1>1, Geometry

LEMMA ReservedNext == IInv /\ ReservedInv /\ [Next]_vars => ReservedInv' /\ Untouched
<1> SUFFICES ASSUME IInv, ReservedInv, [Next]_vars PROVE ReservedInv' /\ Untouched
  OBVIOUS
<1> USE DEF ReservedInv, Untouched
<1>1. ASSUME UNCHANGED <<fat, data>>, mfat' = mfat \/ mfat' = fat
      PROVE  ReservedInv' /\ Untouched
  BY <1>1
<1>2. CASE Call
  BY <1>1, <1>2 DEF Call, AddNoFile, AddEmptyFile, AddDirFull, AddFile, DeleteFile,
                    ExtractFile, ForEachFile, Refuse, ReadTrack20, archive, buffer
<1>3. CASE SizeStep \/ AddTooBig \/ CheckStep \/ DeleteDone \/ AllocFirst
  BY <1>1, <1>3 DEF SizeStep, AddTooBig, CheckStep, DeleteDone, AllocFirst, Refuse,
                    archive, buffer
<1>4. CASE SeekDelete \/ SeekExtract \/ ExtractNoPerm \/ SeekEnd \/ ReadBlock \/ ReadTail
  BY <1>1, <1>4 DEF SeekDelete, SeekExtract, ExtractNoPerm, SeekEnd, ReadBlock, ReadTail,
                    archive, buffer
<1>5. CASE DeleteStep
  <2>1. block \in Blocks /\ pc = "delete"
    BY <1>5, DeletedBlock
  <2>2. block \notin Reserved
    BY <2>1, WorkedOnBlock
  <2> QED
    BY <1>5, <2>1, <2>2, GeometryAssumption DEF DeleteStep, archive, IInv, TypeInv, TypeOK
<1>6. CASE FillBlock
  <2>1. block \in Blocks \ Reserved
    BY <1>6, WorkedOnBlock DEF FillBlock
  <2>2. ReservedInv'
    BY <1>6, <2>1, GeometryAssumption DEF FillBlock, IInv, TypeInv, TypeOK
  <2>3. data' = WriteSectors(block, SectPerBlock, NextSector) /\ SectPerBlock \in 0 .. SectPerBlock
    BY <1>6, Geometry DEF FillBlock
  <2>4. \A b \in Reserved : \A s \in 0 .. SectPerBlock - 1 :
           data'[b * SectPerBlock + s] = data[b * SectPerBlock + s]
    BY <2>1, <2>3, DataKept, GeometryAssumption
  <2> QED
    BY <1>6, <2>2, <2>4 DEF FillBlock
<1>7. CASE FillTail
  <2> DEFINE full == (left - 1) \div SectSize
  <2>1. block \in Blocks \ Reserved
    BY <1>7, WorkedOnBlock DEF FillTail
  <2>2. full + 1 \in 0 .. SectPerBlock
    BY <1>7, TailCount
  <2>3. data' = WriteSectors(block, full + 1, NextSector)
    BY <1>7 DEF FillTail
  <2>4. mfat' = [mfat EXCEPT ![block] = TO_END_BLOCK_OFFSET + 1 + full] /\ fat' = fat
    BY <1>7 DEF FillTail
  <2> HIDE DEF full
  <2>5. ReservedInv'
    BY <2>1, <2>4, GeometryAssumption DEF IInv, TypeInv, TypeOK
  <2>6. \A b \in Reserved : \A s \in 0 .. SectPerBlock - 1 :
           data'[b * SectPerBlock + s] = data[b * SectPerBlock + s]
    BY <2>1, <2>2, <2>3, DataKept, GeometryAssumption
  <2> QED
    BY <2>4, <2>5, <2>6
<1>8. CASE SaveSector
  BY <1>8 DEF SaveSector, buffer
<1>9. CASE UNCHANGED vars
  BY <1>9 DEF vars, archive, buffer
<1> QED
  BY <1>2, <1>3, <1>4, <1>5, <1>6, <1>7, <1>8, <1>9 DEF Next, Step

\* No command writes data in the blocks of track 20 or changes their FAT bytes,
\* however full the disk is and whatever chain it follows.
THEOREM ReservedStaysUntouched == Spec => ReservedUntouched
<1>1. IInv /\ ReservedInv /\ [Next]_vars => [Untouched]_vars
  BY ReservedNext
<1>2. Spec => [](IInv /\ ReservedInv)
  BY ReservedInit, ReservedNext, LinkInvariant, PTL DEF Spec
<1>3. Spec => [][Untouched]_vars
  BY <1>1, <1>2, PTL DEF Spec
<1> QED
  BY <1>3 DEF ReservedUntouched, Untouched

-----------------------------------------------------------------------------
(***************************************************************************)
(* Counting free blocks.                                                   *)
(***************************************************************************)
LEMMA FreeFinite ==
    ASSUME NEW F
    PROVE  IsFiniteSet(FreeBlocks(F)) /\ get_dskf(F) \in Nat
<1>1. IsFiniteSet(0 .. NBlocks - 1)
  BY Geometry, FS_Interval
<1>2. FreeBlocks(F) \in SUBSET (0 .. NBlocks - 1)
  BY DEF FreeBlocks, Blocks
<1>3. IsFiniteSet(FreeBlocks(F))
  BY <1>1, <1>2, FS_Subset
<1> QED
  BY <1>3, FS_CardinalityType DEF get_dskf

LEMMA OneMoreFree ==
    ASSUME NEW F \in [Blocks -> Byte], NEW b \in Blocks, F[b] # TO_TAG_FREE
    PROVE  get_dskf([F EXCEPT ![b] = TO_TAG_FREE]) = get_dskf(F) + 1
<1>1. FreeBlocks([F EXCEPT ![b] = TO_TAG_FREE]) = FreeBlocks(F) \cup {b}
  BY DEF FreeBlocks
<1>2. b \notin FreeBlocks(F)
  BY DEF FreeBlocks
<1> QED
  BY <1>1, <1>2, FreeFinite, FS_AddElement DEF get_dskf

LEMMA OneLessFree ==
    ASSUME NEW F \in [Blocks -> Byte], NEW b \in Blocks, F[b] = TO_TAG_FREE,
           NEW v, v # TO_TAG_FREE
    PROVE  get_dskf([F EXCEPT ![b] = v]) = get_dskf(F) - 1
<1>1. FreeBlocks([F EXCEPT ![b] = v]) = FreeBlocks(F) \ {b}
  BY DEF FreeBlocks
<1>2. b \in FreeBlocks(F)
  BY DEF FreeBlocks
<1> QED
  BY <1>1, <1>2, FreeFinite, FS_RemoveElement DEF get_dskf

\* The searches find a block when there is one.
LEMMA SymFinds ==
    ASSUME NEW F, get_dskf(F) > 0
    PROVE  find_free_block_sym(F) \in Blocks
<1> DEFINE mid  == NBlocks \div 2 - 1
           dist == {k \in 0 .. NBlocks \div 2 :
                       mid + k \in FreeBlocks(F) \/ mid - k \in FreeBlocks(F)}
<1>1. PICK b : b \in FreeBlocks(F)
  <2>1. FreeBlocks(F) # {}
    BY FS_EmptySet DEF get_dskf
  <2> QED
    BY <2>1
<1>2. dist # {}
  <2>1. b \in 0 .. NBlocks - 1 /\ NBlocks \in Nat /\ NBlocks % 2 = 0
    BY <1>1, GeometryAssumption DEF FreeBlocks, Blocks
  <2>2. CASE b > mid
    <3>1. b - mid \in 0 .. NBlocks \div 2 /\ mid + (b - mid) = b
      BY <2>1, <2>2
    <3> QED
      BY <1>1, <3>1
  <2>3. CASE b =< mid
    <3>1. mid - b \in 0 .. NBlocks \div 2 /\ mid - (mid - b) = b
      BY <2>1, <2>3
    <3> QED
      BY <1>1, <3>1
  <2> QED
    BY <2>1, <2>2, <2>3
<1>3. dist \in SUBSET Nat
  OBVIOUS
<1>4. Min(dist) \in dist
  <2> HIDE DEF dist
  <2> QED
    BY <1>2, <1>3, MinMember
<1> QED
  BY <1>2, <1>4 DEF find_free_block_sym, FreeBlocks

LEMMA RelFinds ==
    ASSUME NEW F, get_dskf(F) > 0, NEW b
    PROVE  find_free_block_rel(F, b) \in Blocks
<1> DEFINE lower == {c \in FreeBlocks(F) : c =< b}
           upper == {c \in FreeBlocks(F) : c >= b}
<1>1. lower # {} => Max(lower) \in Blocks
  <2>1. lower \in SUBSET (0 .. NBlocks - 1) /\ NBlocks - 1 \in Nat /\ lower \subseteq Blocks
    BY GeometryAssumption DEF FreeBlocks, Blocks
  <2> HIDE DEF lower
  <2> QED
    BY <2>1, MaxMember
<1>2. upper # {} => Min(upper) \in Blocks
  <2>1. upper \in SUBSET Nat /\ upper \subseteq Blocks
    BY DEF FreeBlocks, Blocks
  <2> HIDE DEF upper
  <2> QED
    BY <2>1, MinMember
<1> QED
  BY <1>1, <1>2, SymFinds DEF find_free_block_rel

-----------------------------------------------------------------------------
(***************************************************************************)
(* The inductive invariant for allocation.  The blocks that get_file_size  *)
(* counted are a walk through the FAT, and the deletion takes the same     *)
(* walk: every block counted is free when it ends.                         *)
(***************************************************************************)
Paths == [Nat -> Byte]

Walk(p, from, to) == \A j \in from .. to - 1 : p[j] \in Blocks /\ p[j + 1] = mfat[p[j]]

Room(blocks, bytes) == blocks * TO_BLOCKSIZE >= bytes

Counted ==
    \E p \in Paths : p[0] = mdir[n].first /\ p[size] = block /\ Walk(p, 0, size)

Checked ==
    IF mdir[n].name = NoName THEN size = 0
    ELSE \E p \in Paths : p[0] = mdir[n].first /\ Walk(p, 0, size)

Freeing ==
    \E p \in Paths, total \in 0 .. TO_FILESIZE_MAX :
        /\ Room(get_dskf(mfat) + total - size, Size[cmd.file])
        /\ size < total => p[size] = block /\ Walk(p, size, total)

SpaceInv ==
    /\ pc = "idle" => size = 0
    /\ cmd.op = "add" => Size[cmd.file] > 0
    /\ pc = "size" => mdir[n].name # NoName /\ Counted
    /\ pc = "check" => Checked
    /\ pc = "delete" /\ cmd.op = "add" => Freeing
    /\ pc = "alloc" => Room(get_dskf(mfat), Size[cmd.file])
    /\ pc = "fill" => block \in Blocks /\ left > 0 /\ Room(get_dskf(mfat), left)

LEMMA MoreRoom ==
    ASSUME NEW a \in Int, NEW b \in Int, a =< b, NEW m \in Nat, Room(a, m)
    PROVE  Room(b, m)
<1> DEFINE d == TO_BLOCKSIZE
<1>1. d \in Nat
  BY Geometry
<1>2. PICK k \in Nat : b = a + k
  <2>1. b - a \in Nat /\ b = a + (b - a)
    OBVIOUS
  <2> QED
    BY <2>1
<1> HIDE DEF d
<1>3. b * d = a * d + k * d /\ k * d \in Nat /\ a * d \in Int
  BY <1>1, <1>2
<1>4. a * d >= m
  BY DEF Room, d
<1>5. b * d >= m
  BY <1>3, <1>4
<1> QED
  BY <1>5 DEF Room, d

\* Where bytes have room there is a block.
LEMMA RoomIsBlocks ==
    ASSUME NEW a \in Nat, NEW m \in Nat, Room(a, m)
    PROVE  /\ m > 0 => a > 0
           /\ m > TO_BLOCKSIZE => a > 1 /\ Room(a - 1, m - TO_BLOCKSIZE)
<1> DEFINE d == TO_BLOCKSIZE
<1>1. d \in Nat /\ a * d >= m
  BY Geometry DEF Room
<1> HIDE DEF d
<1>2. ASSUME m > 0 PROVE a > 0
  <2>1. a # 0
    BY <1>1, <1>2
  <2> QED
    BY <2>1
<1>3. ASSUME m > d PROVE a > 1 /\ (a - 1) * d >= m - d
  <2>1. a # 0 /\ a # 1
    BY <1>1, <1>3
  <2>2. (a - 1) * d = a * d - d /\ a * d \in Nat
    BY <1>1
  <2> QED
    BY <1>1, <2>1, <2>2
<1> QED
  BY <1>2, <1>3 DEF d, Room

LEMMA SpaceInit == Init => SpaceInv
BY DEF Init, SpaceInv, NoCmd

\* A step to a part of a command that needs no space.
LEMMA NoSpaceNeeded ==
    ASSUME pc' \in {"save", "seek", "read"} \/ (pc' = "delete" /\ cmd'.op # "add"),
           SpaceInv, cmd' = cmd
    PROVE  SpaceInv'
BY DEF SpaceInv

LEMMA SpaceReturn == ASSUME Return PROVE SpaceInv'
BY DEF Return, SpaceInv, NoCmd

LEMMA SpaceAddFile ==
    ASSUME IInv, SpaceInv, NEW f \in HostFiles, AddFile(f)
    PROVE  SpaceInv'
<1>1. /\ pc = "idle" /\ Size[f] > 0 /\ mdir' = dir /\ size' = 0
      /\ cmd'.op = "add" /\ cmd'.file = f
  BY DEF AddFile, ReadTrack20, SpaceInv, NoCmd
<1>2. CASE /\ PrevSlots(f) # {} /\ n' = Min(PrevSlots(f))
           /\ block' = dir[Min(PrevSlots(f))].first /\ pc' = "size"
  <2>1. n' \in Entries /\ dir[n'].name = EntryName[f]
    BY <1>2, SlotFound DEF PrevSlots
  <2>2. mdir'[n'].name # NoName
    BY <1>1, <2>1, FilesAssumption
  <2>3. block' = mdir'[n'].first /\ block' \in Byte
    BY <1>1, <1>2, <2>1 DEF IInv, TypeInv, TypeOK, Entry
  <2>4. Counted'
    <3>1. PICK b \in Byte : b = block'
      BY <2>3
    <3> DEFINE p == [k \in Nat |-> b]
    <3>2. p \in Paths /\ p[0] = b
      BY DEF Paths
    <3>3. Walk(p, 0, size)'
      BY <1>1 DEF Walk
    <3> HIDE DEF p
    <3> QED
      BY <1>1, <2>3, <3>1, <3>2, <3>3 DEF Counted
  <2> QED
    BY <1>1, <1>2, <2>2, <2>4 DEF SpaceInv
<1>3. CASE FreeSlots # {} /\ n' = Min(FreeSlots) /\ pc' = "check"
  <2>1. dir[n'].name = NoName
    BY <1>3, SlotFound DEF FreeSlots
  <2>2. Checked'
    BY <1>1, <2>1 DEF Checked
  <2> QED
    BY <1>1, <1>3, <2>2 DEF SpaceInv
<1> QED
  BY <1>2, <1>3 DEF AddFile

LEMMA SpaceSize ==
    ASSUME IInv, SpaceInv, SizeStep
    PROVE  SpaceInv'
<1>1. /\ pc = "size" /\ UNCHANGED <<mfat, mdir, n, cmd>> /\ mdir[n].name # NoName
  BY DEF SizeStep, SpaceInv, buffer
<1>2. PICK p \in Paths : p[0] = mdir[n].first /\ p[size] = block /\ Walk(p, 0, size)
  BY <1>1 DEF SpaceInv, Counted
<1>3. PICK k \in Nat : k = size
  BY Geometry DEF IInv, TypeInv, TypeOK
<1>4. CASE InChain(block) /\ size' = size + 1 /\ block' = mfat[block] /\ pc' = pc
  <2>1. block \in Blocks
    BY <1>2, <1>3, <1>4, Geometry DEF InChain, Paths, Byte, Blocks
  <2>2. PICK b \in Byte : b = mfat[block]
    BY <2>1 DEF IInv, TypeInv, TypeOK
  <2> DEFINE q == [p EXCEPT ![k + 1] = b]
  <2>3. q \in Paths /\ q[k + 1] = b /\ \A j \in 0 .. k : q[j] = p[j]
    BY DEF Paths
  <2>4. Walk(p, 0, k) /\ p[k] = block
    BY <1>2, <1>3
  <2>5. \A j \in 0 .. k : q[j] \in Blocks /\ q[j + 1] = mfat[q[j]]
    <3> SUFFICES ASSUME NEW j \in 0 .. k
                 PROVE  q[j] \in Blocks /\ q[j + 1] = mfat[q[j]]
      OBVIOUS
    <3> HIDE DEF q
    <3>1. CASE j = k
      BY <2>1, <2>2, <2>3, <2>4, <3>1
    <3>2. CASE j \in 0 .. k - 1
      <4>1. q[j] = p[j] /\ q[j + 1] = p[j + 1]
        BY <2>3, <3>2
      <4> QED
        BY <2>4, <3>2, <4>1 DEF Walk
    <3> QED
      BY <3>1, <3>2
  <2> HIDE DEF q
  <2>6. Walk(q, 0, size)'
    BY <1>1, <1>3, <1>4, <2>5 DEF Walk
  <2>7. q[0] = mdir[n].first /\ q[k + 1] = block' /\ size' = k + 1
    BY <1>2, <1>3, <1>4, <2>2, <2>3
  <2>8. Counted'
    BY <1>1, <2>3, <2>6, <2>7 DEF Counted
  <2> QED
    BY <1>1, <1>4, <2>8 DEF SpaceInv
<1>5. CASE pc' = "check" /\ UNCHANGED <<size, block>>
  <2>1. Walk(p, 0, size)' /\ p[0] = mdir'[n'].first
    BY <1>1, <1>2, <1>5 DEF Walk
  <2>2. Checked'
    BY <1>1, <2>1 DEF Checked
  <2> QED
    BY <1>1, <1>5, <2>2 DEF SpaceInv
<1> QED
  BY <1>4, <1>5 DEF SizeStep

LEMMA SpaceCheck ==
    ASSUME IInv, SpaceInv, CheckStep
    PROVE  SpaceInv'
<1>1. /\ pc = "check" /\ Checked /\ cmd' = cmd /\ n' = n /\ mfat' = mfat
      /\ Room(get_dskf(mfat) + size, Size[cmd.file]) /\ size \in 0 .. TO_FILESIZE_MAX
  BY DEF CheckStep, SpaceInv, EnoughSpace, Room, IInv, TypeInv, TypeOK
<1>2. CASE mdir[n].name = NoName
  <2>1. pc' = "alloc" /\ size = 0 /\ get_dskf(mfat) + 0 = get_dskf(mfat)
    BY <1>1, <1>2, FreeFinite DEF CheckStep, Checked
  <2>2. Room(get_dskf(mfat), Size[cmd.file])
    BY <1>1, <2>1
  <2>3. Room(get_dskf(mfat), Size[cmd.file])'
    BY <1>1, <2>2
  <2> QED
    BY <1>1, <2>1, <2>3 DEF SpaceInv
<1>3. CASE mdir[n].name # NoName
  <2>1. pc' = "delete" /\ size' = 0 /\ block' = mdir[n].first
    BY <1>3 DEF CheckStep, StartDelete
  <2>2. PICK p \in Paths, total \in 0 .. TO_FILESIZE_MAX :
           p[0] = mdir[n].first /\ total = size /\ Walk(p, 0, total)
    BY <1>1, <1>3 DEF Checked
  <2>3. /\ Room(get_dskf(mfat) + total - size, Size[cmd.file])'
        /\ p[0] = block' /\ Walk(p, 0, total)'
    <3>1. get_dskf(mfat) + total - 0 = get_dskf(mfat) + size
      BY <1>1, <2>2, FreeFinite
    <3> QED
      BY <1>1, <2>1, <2>2, <3>1 DEF Walk
  <2>4. Freeing'
    BY <2>1, <2>3 DEF Freeing
  <2> QED
    BY <1>1, <2>1, <2>4 DEF SpaceInv
<1> QED
  BY <1>2, <1>3

\* A block freed is not met again: the cursor was its last referrer.
LEMMA SpaceDelete ==
    ASSUME IInv, SpaceInv, DeleteStep, cmd.op = "add"
    PROVE  SpaceInv'
<1>1. /\ pc = "delete" /\ pc' = "delete" /\ cmd' = cmd /\ block \in Blocks
      /\ mfat' = [mfat EXCEPT ![block] = TO_TAG_FREE]
      /\ block' = mfat[block] /\ size' = size + 1
  BY DeletedBlock DEF DeleteStep
<1>2. PICK p \in Paths, total \in 0 .. TO_FILESIZE_MAX :
         /\ Room(get_dskf(mfat) + total - size, Size[cmd.file])
         /\ size < total => p[size] = block /\ Walk(p, size, total)
  BY <1>1 DEF SpaceInv, Freeing
<1>3. PICK k \in Nat : k = size
  BY Geometry DEF IInv, TypeInv, TypeOK
<1>4. mfat[block] # TO_TAG_FREE
  BY <1>1 DEF IInv, ReferredInUse, AllocationSucceeds, Used
<1>5. get_dskf(mfat') = get_dskf(mfat) + 1
  BY <1>1, <1>4, OneMoreFree DEF IInv, TypeInv, TypeOK
<1>6. Room(get_dskf(mfat) + total - size, Size[cmd.file])'
  <2>1. get_dskf(mfat') + total - (k + 1) = get_dskf(mfat) + total - k
    BY <1>2, <1>3, <1>5, FreeFinite, Geometry
  <2> QED
    BY <1>1, <1>2, <1>3, <2>1
<1>7. ASSUME k + 1 < total
      PROVE  p[k + 1] = block' /\ \A j \in k + 1 .. total - 1 :
                 p[j] \in Blocks /\ p[j + 1] = mfat'[p[j]]
  <2>1. /\ p[k] = block
        /\ \A j \in k .. total - 1 : p[j] \in Blocks /\ p[j + 1] = mfat[p[j]]
    BY <1>2, <1>3, <1>7, Geometry DEF Walk
  <2>2. p[k + 1] = block'
    BY <1>1, <1>2, <1>7, <2>1, Geometry
  <2>3. ASSUME NEW j \in k + 1 .. total - 1
        PROVE  p[j] \in Blocks /\ p[j + 1] = mfat'[p[j]]
    <3>1. p[j] \in Blocks /\ p[j + 1] = mfat[p[j]]
      BY <2>1, Geometry
    <3>2. p[j] # block
      <4>1. j - 1 \in k .. total - 1 /\ (j - 1) + 1 = j
        BY Geometry
      <4>2. p[j - 1] \in Blocks /\ p[j] = mfat[p[j - 1]]
        BY <2>1, <4>1
      <4> QED
        BY <1>1, <4>2 DEF IInv, SingleReferrer
    <3>3. mfat'[p[j]] = mfat[p[j]]
      BY <1>1, <3>1, <3>2 DEF IInv, TypeInv, TypeOK
    <3> QED
      BY <3>1, <3>3
  <2> QED
    BY <2>2, <2>3
<1>8. (size < total => p[size] = block /\ Walk(p, size, total))'
  BY <1>1, <1>3, <1>7 DEF Walk
<1>9. Freeing'
  BY <1>6, <1>8 DEF Freeing
<1> QED
  BY <1>1, <1>9 DEF SpaceInv

\* The blocks counted are all free when the loop of the deletion stops.
LEMMA AllCounted ==
    ASSUME TypeInv, cmd.op = "add", ~InChain(block), NEW total \in 0 .. TO_FILESIZE_MAX,
           Room(get_dskf(mfat) + total - size, Size[cmd.file]),
           size < total => block \in Blocks
    PROVE  Room(get_dskf(mfat), Size[cmd.file])
<1>1. size \in Nat /\ total \in Nat /\ get_dskf(mfat) \in Nat /\ Size[cmd.file] \in Nat
  BY Geometry, FreeFinite, FilesAssumption DEF TypeInv, TypeOK, RequestOK
<1>2. total =< size
  <2>1. SUFFICES ASSUME size < total PROVE FALSE
    BY <1>1
  <2>2. InChain(block)
    BY <1>1, <2>1, Geometry DEF InChain, Blocks
  <2> QED
    BY <2>2
<1>3. get_dskf(mfat) + total - size =< get_dskf(mfat)
  BY <1>1, <1>2
<1> QED
  BY <1>1, <1>3, MoreRoom

LEMMA SpaceDeleted ==
    ASSUME IInv, SpaceInv, DeleteDone
    PROVE  SpaceInv'
<1>1. pc = "delete" /\ ~InChain(block) /\ cmd' = cmd /\ mfat' = mfat
  BY DEF DeleteDone, buffer
<1>2. CASE cmd.op = "add"
  <2>1. PICK p \in Paths, total \in 0 .. TO_FILESIZE_MAX :
           /\ Room(get_dskf(mfat) + total - size, Size[cmd.file])
           /\ size < total => p[size] = block /\ Walk(p, size, total)
    BY <1>1, <1>2 DEF SpaceInv, Freeing
  <2>2. size < total => block \in Blocks
    BY <2>1, Geometry DEF Walk, IInv, TypeInv, TypeOK
  <2>3. Room(get_dskf(mfat), Size[cmd.file])
    BY <1>1, <1>2, <2>1, <2>2, AllCounted DEF IInv
  <2>4. pc' = "alloc" /\ Room(get_dskf(mfat), Size[cmd.file])'
    BY <1>1, <1>2, <2>3 DEF DeleteDone
  <2> QED
    BY <1>1, <2>4 DEF SpaceInv
<1>3. CASE cmd.op # "add"
  <2>1. pc' \in {"seek", "save"}
    BY <1>3 DEF DeleteDone, StartSave
  <2> QED
    BY <1>1, <2>1, NoSpaceNeeded
<1> QED
  BY <1>2, <1>3

\* Where the file has room, the search for its first block finds one ...
LEMMA FirstFound ==
    ASSUME TypeInv, AllocFirst, Size[cmd.file] > 0, Room(get_dskf(mfat), Size[cmd.file])
    PROVE  block' \in Blocks /\ left' > 0 /\ Room(get_dskf(mfat), left)'
<1>1. /\ pc = "alloc" /\ mfat' = mfat /\ cmd.op = "add"
      /\ block' = find_free_block_sym(mfat) /\ left' = Size[cmd.file]
  BY DEF AllocFirst, buffer, TypeInv, RequestOK
<1>2. Size[cmd.file] \in Nat
  BY <1>1, FilesAssumption DEF TypeInv, RequestOK
<1>3. get_dskf(mfat) > 0
  BY <1>2, RoomIsBlocks, FreeFinite
<1>4. block' \in Blocks
  BY <1>1, <1>3, SymFinds
<1> QED
  BY <1>1, <1>4

\* ... and so do the searches that follow, each for one block less.
LEMMA NextFound ==
    ASSUME TypeInv, FillBlock, mfat[block] = TO_TAG_FREE, Room(get_dskf(mfat), left)
    PROVE  block' \in Blocks /\ left' > 0 /\ Room(get_dskf(mfat), left)'
<1> DEFINE marked == MarkBlock(mfat, block)
<1>1. /\ block \in Blocks /\ left > TO_BLOCKSIZE /\ left' = left - TO_BLOCKSIZE /\ left \in Nat
      /\ block' = find_free_block_rel(marked, block)
      /\ mfat' = [mfat EXCEPT ![block] = block' % 256]
  BY DEF FillBlock, TypeInv, TypeOK
<1>2. mfat \in [Blocks -> Byte]
  BY DEF TypeInv, TypeOK
<1>3. get_dskf(mfat) > 1 /\ Room(get_dskf(mfat) - 1, left - TO_BLOCKSIZE)
  BY <1>1, FreeFinite, RoomIsBlocks
<1>4. get_dskf(marked) = get_dskf(mfat) - 1
  <2>1. TO_TAG_RESERVED # TO_TAG_FREE
    BY DEF TO_TAG_RESERVED, TO_TAG_FREE
  <2> QED
    BY <1>1, <1>2, <2>1, OneLessFree DEF MarkBlock
<1>5. block' \in Blocks
  <2>1. get_dskf(marked) > 0
    BY <1>3, <1>4, FreeFinite
  <2> HIDE DEF marked
  <2> QED
    BY <1>1, <2>1, RelFinds
<1>6. block' % 256 # TO_TAG_FREE
  <2>1. PICK c \in Blocks : c = block'
    BY <1>5
  <2>2. c % 256 = c /\ c # TO_TAG_FREE
    BY Bytes, Geometry DEF Blocks, TO_TAG_FREE
  <2> QED
    BY <2>1, <2>2
<1>7. get_dskf(mfat') = get_dskf(mfat) - 1
  BY ZenonT(40), <1>1, <1>2, <1>6, OneLessFree
<1> QED
  BY <1>1, <1>3, <1>5, <1>7, Geometry

LEMMA SpaceAlloc ==
    ASSUME IInv, SpaceInv, AllocFirst
    PROVE  SpaceInv'
<1>1. pc = "alloc" /\ pc' = "fill" /\ cmd' = cmd /\ cmd.op = "add" /\ TypeInv
  BY DEF AllocFirst, IInv, TypeInv, RequestOK
<1>2. block' \in Blocks /\ left' > 0 /\ Room(get_dskf(mfat), left)'
  BY <1>1, FirstFound DEF SpaceInv
<1> QED
  BY <1>1, <1>2 DEF SpaceInv

LEMMA SpaceFill ==
    ASSUME IInv, SpaceInv, FillBlock
    PROVE  SpaceInv'
<1>1. pc = "fill" /\ pc' = "fill" /\ cmd' = cmd /\ mfat[block] = TO_TAG_FREE
  BY DEF FillBlock, IInv, ReferredInUse
<1>2. block' \in Blocks /\ left' > 0 /\ Room(get_dskf(mfat), left)'
  BY <1>1, NextFound DEF SpaceInv, IInv
<1> QED
  BY <1>1, <1>2 DEF SpaceInv

LEMMA SpaceNext == IInv /\ SpaceInv /\ [Next]_vars => SpaceInv'
<1> SUFFICES ASSUME IInv, SpaceInv, [Next]_vars PROVE SpaceInv'
  OBVIOUS
<1>1. ASSUME NEW f \in HostFiles, AddFile(f) PROVE SpaceInv'
  BY <1>1, SpaceAddFile
<1>2. CASE AddNoFile \/ AddTooBig \/ \E f \in HostFiles : AddEmptyFile(f) \/ AddDirFull(f)
  BY <1>2, SpaceReturn DEF AddNoFile, AddTooBig, AddEmptyFile, AddDirFull, Refuse
<1>3. CASE DeleteFile \/ ExtractFile
  <2>1. pc' = "seek" /\ cmd'.op # "add"
    BY <1>3 DEF DeleteFile, ExtractFile, ForEachFile, NoCmd
  <2> QED
    BY <2>1 DEF SpaceInv
<1>4. CASE SizeStep \/ CheckStep \/ DeleteDone \/ AllocFirst \/ FillBlock
  BY <1>4, SpaceSize, SpaceCheck, SpaceDeleted, SpaceAlloc, SpaceFill
<1>5. CASE DeleteStep
  <2>1. CASE cmd.op = "add"
    BY <1>5, <2>1, SpaceDelete
  <2>2. CASE cmd.op # "add"
    BY <1>5, <2>2, NoSpaceNeeded DEF DeleteStep
  <2> QED
    BY <2>1, <2>2
<1>6. CASE FillTail
  BY <1>6, NoSpaceNeeded DEF FillTail, StartSave
<1>7. CASE SaveSector
  BY <1>7, SpaceReturn, NoSpaceNeeded DEF SaveSector
<1>8. CASE SeekDelete
  <2>1. pc' = "delete" /\ cmd' = cmd /\ cmd.op = "delete"
    BY <1>8 DEF SeekDelete, StartDelete
  <2> QED
    BY <2>1, NoSpaceNeeded
<1>9. CASE SeekExtract \/ ExtractNoPerm \/ SeekEnd \/ ReadBlock \/ ReadTail
  BY <1>9, SpaceReturn, NoSpaceNeeded
     DEF SeekExtract, ExtractNoPerm, SeekEnd, ReadBlock, ReadTail, StartSave
<1>10. CASE UNCHANGED vars
  BY <1>10 DEF vars, buffer, locals, SpaceInv, Counted, Checked, Freeing, Walk
<1> QED
  BY <1>1, <1>2, <1>3, <1>4, <1>5, <1>6, <1>7, <1>8, <1>9, <1>10 DEF Next, Call, Step

LEMMA SpaceInvariant == Spec => [](IInv /\ SpaceInv)
  BY LinkInvariant, SpaceInit, SpaceNext, PTL DEF Spec

\* The one test against EFBIG in sap_AddFile, before the replaced entry is
\* deleted and the first block taken, is enough: find_free_block_* never
\* returns -1 to do_add_file.
THEOREM AllocationAlwaysSucceeds == Spec => []AllocationSucceeds
<1>1. SpaceInv => AllocationSucceeds
  BY Geometry DEF SpaceInv, AllocationSucceeds
<1> QED
  BY <1>1, SpaceInvariant, PTL

-----------------------------------------------------------------------------
(***************************************************************************)
(* Blocks in use have a referrer.  The slot that a file goes to refers to  *)
(* nothing while the file is written, and a deletion frees the whole of    *)
(* its chain: the chain is never longer than TO_FILESIZE_MAX, because the  *)
(* blocks freed are as many as `size' and two blocks are reserved.         *)
(***************************************************************************)
Referred(b) ==
    \/ \E e \in Entries : Live(e) /\ mdir[e].first = b
    \/ \E c \in Blocks : mfat[c] = b
    \/ pc = "delete" /\ block = b
    \/ pc = "fill" /\ head = b

AllReferred == \A b \in Blocks : Used(b) => Referred(b)

SlotFreed == pc \in {"delete", "alloc", "fill"} => ~Live(n)

OwnerInv ==
    /\ AllReferred
    /\ SlotFreed
    /\ pc = "delete" => get_dskf(mfat) >= size
    /\ pc = "fill" => head = block \/ \E c \in Blocks : mfat[c] = block

LEMMA OwnerInit == Init => OwnerInv
<1> SUFFICES ASSUME Init PROVE OwnerInv
  OBVIOUS
<1>1. \A b \in Blocks : ~Used(b)
  BY DEF Init, FormattedFat, Used
<1> QED
  BY <1>1 DEF Init, OwnerInv, AllReferred, SlotFreed

\* A chain that is in use ends before the cap on its length.
LEMMA ChainEnds ==
    ASSUME IInv, ReservedInv, OwnerInv, pc = "delete", ~InChain(block)
    PROVE  block \notin Blocks
<1>1. SUFFICES ASSUME block \in Blocks PROVE FALSE
  OBVIOUS
<1>2. size = NBlocks - 2 /\ NBlocks \in Nat
  BY <1>1, Geometry DEF InChain, Blocks, IInv, TypeInv, TypeOK, TO_FILESIZE_MAX
<1>3. Used(block)
  BY <1>1 DEF IInv, ReferredInUse, AllocationSucceeds
<1>4. PICK a \in Reserved, b \in Reserved : a # b
  BY Track20Assumption
<1> DEFINE free == FreeBlocks(mfat)
           others == ((free \cup {block}) \cup {a}) \cup {b}
<1>5. block \notin free /\ a \notin free \cup {block} /\ b \notin (free \cup {block}) \cup {a}
  BY <1>3, <1>4, GeometryAssumption
     DEF FreeBlocks, Used, ReservedInv, TO_TAG_FREE, TO_TAG_RESERVED
<1>6. IsFiniteSet(free) /\ Cardinality(free) >= size /\ Cardinality(free) \in Nat
  BY FreeFinite DEF OwnerInv, get_dskf
<1>7. Cardinality(others) = Cardinality(free) + 3
  <2> HIDE DEF free
  <2>1. IsFiniteSet(free \cup {block}) /\ Cardinality(free \cup {block}) = Cardinality(free) + 1
    BY <1>5, <1>6, FS_AddElement
  <2>2. /\ IsFiniteSet((free \cup {block}) \cup {a})
        /\ Cardinality((free \cup {block}) \cup {a}) = Cardinality(free) + 1 + 1
    BY <1>5, <2>1, FS_AddElement
  <2>3. Cardinality(others) = Cardinality(free) + 1 + 1 + 1
    BY <1>5, <2>2, FS_AddElement
  <2> QED
    BY <1>6, <2>3
<1>8. others \in SUBSET (0 .. NBlocks - 1)
  BY <1>1, <1>4, GeometryAssumption DEF FreeBlocks, Blocks
<1>9. Cardinality(others) =< NBlocks
  <2>1. IsFiniteSet(0 .. NBlocks - 1) /\ Cardinality(0 .. NBlocks - 1) = NBlocks
    BY <1>2, Geometry, FS_Interval
  <2> HIDE DEF others
  <2> QED
    BY <1>8, <2>1, FS_Subset
<1> QED
  BY <1>2, <1>6, <1>7, <1>9

\* A step that leaves the buffer alone and ends no chain that is under way.
LEMMA OwnersKept ==
    ASSUME OwnerInv, UNCHANGED buffer, pc \notin {"delete", "fill"},
           pc' \notin {"delete", "alloc", "fill"}
    PROVE  OwnerInv'
BY DEF OwnerInv, AllReferred, SlotFreed, Referred, Used, Live, buffer

LEMMA OwnerDropped ==
    ASSUME IInv, OwnerInv, NEW e \in Entries, n' = e, StartDelete(e), mfat' = mfat,
           pc \notin {"delete", "fill"}
    PROVE  OwnerInv'
<1>1. /\ pc' = "delete" /\ block' = mdir[e].first /\ size' = 0
      /\ \A k \in Entries : /\ Live(k)' <=> Live(k) /\ k # e
                            /\ mdir'[k].first = mdir[k].first
  BY DEF StartDelete, Live, IInv, TypeInv, TypeOK, Entry
<1>2. AllReferred'
  <2> SUFFICES ASSUME NEW b \in Blocks, Used(b)' PROVE Referred(b)'
    BY DEF AllReferred
  <2>1. Referred(b)
    BY DEF OwnerInv, AllReferred, Used
  <2>2. CASE \E k \in Entries : Live(k) /\ mdir[k].first = b
    <3>1. PICK k \in Entries : Live(k) /\ mdir[k].first = b
      BY <2>2
    <3>2. CASE k = e
      BY <1>1, <3>1, <3>2 DEF Referred
    <3>3. CASE k # e
      <4>1. Live(k)'
        BY <1>1, <3>1, <3>3
      <4>2. mdir'[k].first = b
        BY <1>1, <3>1
      <4> QED
        BY <4>1, <4>2 DEF Referred
    <3> QED
      BY <3>2, <3>3
  <2>3. CASE \E c \in Blocks : mfat[c] = b
    BY <2>3 DEF Referred
  <2> QED
    BY <2>1, <2>2, <2>3 DEF Referred
<1>3. SlotFreed'
  BY <1>1 DEF SlotFreed
<1> QED
  BY <1>1, <1>2, <1>3, FreeFinite DEF OwnerInv

LEMMA OwnerFreed ==
    ASSUME IInv, OwnerInv, DeleteStep
    PROVE  OwnerInv'
<1>1. /\ pc = "delete" /\ pc' = "delete" /\ block \in Blocks /\ n' = n /\ mdir' = mdir
      /\ mfat' = [mfat EXCEPT ![block] = TO_TAG_FREE]
      /\ block' = mfat[block] /\ size' = size + 1
  BY DeletedBlock DEF DeleteStep
<1>2. mfat[block] # TO_TAG_FREE
  BY <1>1 DEF IInv, ReferredInUse, AllocationSucceeds, Used
<1>3. get_dskf(mfat') = get_dskf(mfat) + 1
  BY <1>1, <1>2, OneMoreFree DEF IInv, TypeInv, TypeOK
<1>4. \A c \in Blocks : mfat'[c] = IF c = block THEN TO_TAG_FREE ELSE mfat[c]
  BY <1>1 DEF IInv, TypeInv, TypeOK
<1>5. AllReferred'
  <2> SUFFICES ASSUME NEW b \in Blocks, Used(b)' PROVE Referred(b)'
    BY DEF AllReferred
  <2>1. b # block /\ Used(b)
    BY <1>4 DEF Used
  <2>2. Referred(b)
    BY <2>1 DEF OwnerInv, AllReferred
  <2> QED
    BY <1>1, <1>4, <2>1, <2>2 DEF Referred, Live
<1> QED
  BY <1>1, <1>3, <1>5, FreeFinite, Geometry
     DEF OwnerInv, SlotFreed, Live, IInv, TypeInv, TypeOK

LEMMA OwnerLinked ==
    ASSUME IInv, SpaceInv, OwnerInv, FillBlock, SpaceInv'
    PROVE  OwnerInv'
<1>1. /\ pc = "fill" /\ pc' = "fill" /\ block \in Blocks /\ block' \in Blocks
      /\ n' = n /\ mdir' = mdir /\ head' = head
      /\ mfat' = [mfat EXCEPT ![block] = block' % 256] /\ block' % 256 = block'
  BY Bytes DEF FillBlock, SpaceInv
<1>2. mfat[block] = TO_TAG_FREE
  BY <1>1 DEF IInv, ReferredInUse
<1>3. \A c \in Blocks : mfat'[c] = IF c = block THEN block' ELSE mfat[c]
  BY <1>1 DEF IInv, TypeInv, TypeOK
<1>4. TO_TAG_FREE \notin Blocks
  BY Geometry DEF Blocks, TO_TAG_FREE
<1>5. AllReferred'
  <2> SUFFICES ASSUME NEW b \in Blocks, Used(b)' PROVE Referred(b)'
    BY DEF AllReferred
  <2>1. Referred(b)
    <3>1. CASE b = block
      BY <1>1, <3>1 DEF OwnerInv, Referred
    <3>2. CASE b # block
      BY <1>3, <3>2 DEF OwnerInv, AllReferred, Used
    <3> QED
      BY <3>1, <3>2
  <2>2. \A c \in Blocks : mfat[c] = b => c # block
    BY <1>2, <1>4
  <2> QED
    BY <1>1, <1>3, <2>1, <2>2 DEF Referred, Live
<1> QED
  BY <1>1, <1>3, <1>5 DEF OwnerInv, SlotFreed, Live

LEMMA OwnerClosed ==
    ASSUME IInv, OwnerInv, FillTail
    PROVE  OwnerInv'
<1>1. /\ pc = "fill" /\ pc' = "save" /\ block \in Blocks /\ n \in Entries /\ n' = n
      /\ mdir'[n].first = head /\ mdir'[n].name \in Names
      /\ \A e \in Entries : e # n => mdir'[e] = mdir[e]
      /\ \A c \in Blocks : c # block => mfat'[c] = mfat[c]
  <2>1. EntryName[cmd.file] \in Names
    BY FilesAssumption DEF FillTail, IInv, TypeInv, RequestOK
  <2> QED
    BY <2>1 DEF FillTail, StartSave, IInv, TypeInv, TypeOK
<1>2. mfat[block] = TO_TAG_FREE /\ TO_TAG_FREE \notin Blocks
  BY <1>1, Geometry DEF IInv, ReferredInUse, Blocks, TO_TAG_FREE
<1>3. Live(n)' /\ ~Live(n)
  BY <1>1, FilesAssumption DEF Live, OwnerInv, SlotFreed
<1>4. AllReferred'
  <2> SUFFICES ASSUME NEW b \in Blocks, Used(b)' PROVE Referred(b)'
    BY DEF AllReferred
  <2>1. Referred(b)
    <3>1. CASE b = block
      BY <1>1, <3>1 DEF OwnerInv, Referred
    <3>2. CASE b # block
      BY <1>1, <3>2 DEF OwnerInv, AllReferred, Used
    <3> QED
      BY <3>1, <3>2
  <2>2. CASE \E e \in Entries : Live(e) /\ mdir[e].first = b
    BY <1>1, <1>3, <2>2 DEF Referred, Live
  <2>3. CASE \E c \in Blocks : mfat[c] = b
    BY <1>1, <1>2, <2>3 DEF Referred
  <2>4. CASE head = b
    BY <1>1, <1>3, <2>4 DEF Referred, Live
  <2> QED
    BY <1>1, <2>1, <2>2, <2>3, <2>4 DEF Referred
<1> QED
  BY <1>1, <1>4 DEF OwnerInv, SlotFreed

LEMMA OwnerNext ==
    IInv /\ SpaceInv /\ ReservedInv /\ OwnerInv /\ SpaceInv' /\ [Next]_vars => OwnerInv'
<1> SUFFICES ASSUME IInv, SpaceInv, ReservedInv, OwnerInv, SpaceInv', [Next]_vars
             PROVE  OwnerInv'
  OBVIOUS
<1>1. CASE Call
  <2>1. pc = "idle" /\ mfat = fat /\ mdir = dir
    BY <1>1 DEF Call, AddNoFile, AddEmptyFile, AddDirFull, AddFile, DeleteFile,
                ExtractFile, ForEachFile, IInv, Synced
  <2>2. UNCHANGED buffer /\ pc' \in {"idle", "size", "check", "seek"}
    BY <1>1, <2>1 DEF Call, AddNoFile, AddEmptyFile, AddDirFull, AddFile, DeleteFile,
                      ExtractFile, ForEachFile, Refuse, Return, ReadTrack20, buffer
  <2> QED
    BY <2>1, <2>2, OwnersKept
<1>2. CASE SizeStep \/ AddTooBig
  BY <1>2, OwnersKept DEF SizeStep, AddTooBig, Refuse, Return
<1>3. CASE CheckStep
  <2>1. CASE mdir[n].name # NoName
    <3>1. n \in Entries /\ n' = n /\ StartDelete(n) /\ mfat' = mfat /\ pc = "check"
      BY <1>3, <2>1 DEF CheckStep, IInv, TypeInv, TypeOK
    <3>2. PICK e \in Entries : e = n /\ StartDelete(e)
      BY <3>1
    <3> QED
      BY <3>1, <3>2, OwnerDropped
  <2>2. CASE mdir[n].name = NoName
    BY <1>3, <2>2 DEF CheckStep, OwnerInv, AllReferred, SlotFreed, Referred, Used, Live
  <2> QED
    BY <2>1, <2>2
<1>4. CASE DeleteStep
  BY <1>4, OwnerFreed
<1>5. CASE DeleteDone
  <2>1. /\ pc = "delete" /\ pc' \in {"alloc", "seek", "save"} /\ UNCHANGED buffer
        /\ n' = n /\ block \notin Blocks
    BY <1>5, ChainEnds DEF DeleteDone, StartSave
  <2> QED
    BY <2>1 DEF OwnerInv, AllReferred, SlotFreed, Referred, Used, Live, buffer
<1>6. CASE AllocFirst
  <2>1. /\ pc = "alloc" /\ pc' = "fill" /\ UNCHANGED buffer /\ n' = n /\ head' = block'
    BY <1>6 DEF AllocFirst
  <2> QED
    BY <2>1 DEF OwnerInv, AllReferred, SlotFreed, Referred, Used, Live, buffer
<1>7. CASE FillBlock
  BY <1>7, OwnerLinked
<1>8. CASE FillTail
  BY <1>8, OwnerClosed
<1>9. CASE SaveSector
  BY <1>9, OwnersKept DEF SaveSector, Return
<1>10. CASE SeekDelete
  <2>1. n' \in Entries /\ StartDelete(n') /\ mfat' = mfat /\ pc = "seek"
    BY <1>10, SlotFound DEF SeekDelete, Matches
  <2>2. PICK e \in Entries : e = n' /\ StartDelete(e)
    BY <2>1
  <2> QED
    BY <2>1, <2>2, OwnerDropped
<1>11. CASE SeekExtract \/ ExtractNoPerm \/ SeekEnd
  BY <1>11, OwnersKept DEF SeekExtract, ExtractNoPerm, SeekEnd, Return, StartSave
<1>12. CASE ReadBlock \/ ReadTail
  BY <1>12, OwnersKept DEF ReadBlock, ReadTail, Return
<1>13. CASE UNCHANGED vars
  BY <1>13 DEF vars, buffer, locals, OwnerInv, AllReferred, SlotFreed, Referred, Used, Live
<1> QED
  BY <1>1, <1>2, <1>3, <1>4, <1>5, <1>6, <1>7, <1>8, <1>9, <1>10, <1>11, <1>12, <1>13
     DEF Next, Step

\* Between two calls every block that is neither free nor reserved belongs to
\* the chain of an entry: no sequence of calls that complete loses a block.
THEOREM NoBlockIsLost == Spec => []NoLostBlock
<1>1. IInv /\ ReservedInv /\ [Next]_vars => ReservedInv'
  BY ReservedNext
<1>2. IInv /\ SpaceInv /\ [Next]_vars => SpaceInv'
  BY SpaceNext
<1>3. Spec => []OwnerInv
  BY <1>1, <1>2, SpaceInit, ReservedInit, OwnerInit, OwnerNext, LinkInvariant, PTL DEF Spec
<1>4. OwnerInv => NoLostBlock
  <2> SUFFICES ASSUME OwnerInv, pc = "idle", NEW b \in Blocks, Used(b)
               PROVE  Owners(b) # {}
    BY DEF NoLostBlock
  <2>1. Referred(b)
    BY DEF OwnerInv, AllReferred
  <2>2. CASE \E e \in Entries : Live(e) /\ mdir[e].first = b
    BY <2>2 DEF Owners, Live
  <2>3. CASE \E c \in Blocks : mfat[c] = b
    BY <2>3 DEF Owners
  <2> QED
    BY <2>1, <2>2, <2>3 DEF Referred
<1> QED
  BY <1>3, <1>4, PTL

-----------------------------------------------------------------------------
(***************************************************************************)
(* What is read from an archive.                                           *)
(***************************************************************************)
LEMMA EveryNumber ==
    ASSUME NEW S \in SUBSET Nat, 0 \in S, \A k \in S : k + 1 \in S
    PROVE  \A k \in Nat : k \in S
<1> SUFFICES ASSUME Nat \ S # {} PROVE FALSE
  OBVIOUS
<1>1. PICK x \in Nat \ S : \A y \in Nat \ S : ~ (<<y, x>> \in OpToRel(<, Nat))
  BY NatLessThanWellFounded, WFMin
<1>2. x # 0 /\ x \in Nat
  OBVIOUS
<1>3. x - 1 \in Nat /\ x - 1 < x /\ (x - 1) + 1 = x
  BY <1>2
<1>4. x - 1 \in S
  BY <1>1, <1>2, <1>3 DEF OpToRel
<1> QED
  BY <1>3, <1>4

-----------------------------------------------------------------------------
(***************************************************************************)
(* The chain of a file.                                                    *)
(***************************************************************************)

\* p leads through k links of the FAT F.
Links(F, p, k) == \A j \in 0 .. k - 1 : p[j] \in Blocks /\ F[p[j]] = p[j + 1]

\* The recursive function in Chain, and what Chain takes it to be.
Longer(w, k) == LET c == w[k - 1]
                IN IF fat[Last(c)] < NBlocks THEN Append(c, fat[Last(c)]) ELSE c

IsWalk(w, b) == w = [k \in 0 .. TO_FILESIZE_MAX |-> IF k = 0 THEN <<b>> ELSE Longer(w, k)]

WalkFrom(b) == CHOOSE w : IsWalk(w, b)

LEMMA ChainIsWalk ==
    ASSUME NEW b
    PROVE  Chain(b) = WalkFrom(b)[TO_FILESIZE_MAX]
BY DEF Chain, WalkFrom, IsWalk, Longer

LEMMA ChainOfPath ==
    ASSUME NEW p \in Paths, NEW k \in 0 .. TO_FILESIZE_MAX, fat \in [Blocks -> Byte],
           Links(fat, p, k), p[k] \in Blocks, fat[p[k]] \notin Blocks
    PROVE  Chain(p[0]) = [j \in 1 .. k + 1 |-> p[j - 1]]
<1> DEFINE m == TO_FILESIZE_MAX
           Upto(a) == [j \in 1 .. a + 1 |-> p[j - 1]]
           W == [a \in 0 .. m |-> IF a < k THEN Upto(a) ELSE Upto(k)]
           w == WalkFrom(p[0])
<1>0. m \in Nat /\ NBlocks \in Nat /\ Blocks = 0 .. NBlocks - 1 /\ \A j \in Nat : p[j] \in Byte
  BY Geometry DEF Blocks, Paths
<1>1. \A a \in 0 .. k : Upto(a) \in Seq(Byte) /\ Len(Upto(a)) = a + 1 /\ Last(Upto(a)) = p[a]
  BY <1>0 DEF Last
<1> HIDE DEF Upto
<1>2. \A a \in 1 .. k : Append(Upto(a - 1), p[a]) = Upto(a)
  <2> TAKE a \in 1 .. k
  <2>1. Upto(a - 1) \in Seq(Byte) /\ Len(Upto(a - 1)) = a
    <3>1. a - 1 \in 0 .. k /\ (a - 1) + 1 = a
      OBVIOUS
    <3> QED
      BY <1>1, <3>1
  <2>2. Upto(a) \in Seq(Byte) /\ Len(Upto(a)) = a + 1
    BY <1>1
  <2>3. \A j \in 1 .. a + 1 : Append(Upto(a - 1), p[a])[j] = Upto(a)[j]
    BY <1>0, <2>1 DEF Upto
  <2>4. p[a] \in Byte
    BY <1>0
  <2> QED
    BY <2>1, <2>2, <2>3, <2>4
<1>3. \A a \in 0 .. k - 1 : fat[p[a]] < NBlocks /\ fat[p[a]] = p[a + 1]
  <2> TAKE a \in 0 .. k - 1
  <2>1. a + 1 =< k /\ a + 1 \in Nat /\ p[a] \in Blocks /\ fat[p[a]] = p[a + 1]
    BY DEF Links
  <2>2. p[a + 1] \in Blocks
    BY <2>1 DEF Links
  <2> QED
    BY <1>0, <2>1, <2>2
<1>4. ~ (fat[p[k]] < NBlocks)
  <2>1. PICK v \in Byte : v = fat[p[k]]
    OBVIOUS
  <2>2. v \notin Blocks
    BY <2>1
  <2>3. ~ (v < NBlocks)
    BY <2>2, Geometry DEF Byte, Blocks
  <2> QED
    BY <2>1, <2>3
<1>5. \A a \in 1 .. m : Longer(W, a) = W[a]
  <2> TAKE a \in 1 .. m
  <2>1. a - 1 \in 0 .. m /\ a \in 0 .. m
    BY <1>0
  <2>2. CASE a =< k
    <3>1. W[a - 1] = Upto(a - 1) /\ W[a] = Upto(a)
      BY <2>1, <2>2
    <3>2. /\ Last(Upto(a - 1)) = p[a - 1] /\ fat[p[a - 1]] < NBlocks
          /\ fat[p[a - 1]] = p[a] /\ Append(Upto(a - 1), p[a]) = Upto(a)
      BY <1>1, <1>2, <1>3, <2>2
    <3> HIDE DEF W
    <3> QED
      BY <3>1, <3>2 DEF Longer
  <2>3. CASE ~ (a =< k)
    <3>1. W[a - 1] = Upto(k) /\ W[a] = Upto(k)
      BY <2>1, <2>3
    <3>2. Last(Upto(k)) = p[k]
      BY <1>1
    <3> HIDE DEF W
    <3> QED
      BY <1>4, <3>1, <3>2 DEF Longer
  <2> QED
    BY <2>2, <2>3
<1>6. W[0] = <<p[0]>>
  <2>1. W[0] = Upto(0)
    BY <1>0
  <2>2. Upto(0) \in Seq(Byte) /\ Len(Upto(0)) = 1 /\ Upto(0)[1] = p[0]
    <3>1. 0 \in 0 .. k
      OBVIOUS
    <3>2. Upto(0) \in Seq(Byte) /\ Len(Upto(0)) = 0 + 1
      BY <1>1, <3>1
    <3>3. Upto(0)[1] = p[0]
      BY DEF Upto
    <3> QED
      BY <3>2, <3>3
  <2> QED
    BY <1>0, <2>1, <2>2
<1>7. IsWalk(W, p[0])
  <2>1. W = [a \in 0 .. m |-> W[a]]
    OBVIOUS
  <2>2. \A a \in 0 .. m : W[a] = IF a = 0 THEN <<p[0]>> ELSE Longer(W, a)
    BY SMTT(30), <1>5, <1>6
  <2> HIDE DEF W
  <2> QED
    BY <2>1, <2>2 DEF IsWalk
<1>8. IsWalk(w, p[0])
  BY <1>7 DEF WalkFrom
<1>9. \A a \in 0 .. m : w[a] = IF a = 0 THEN <<p[0]>> ELSE Longer(w, a)
  BY <1>8 DEF IsWalk
<1> DEFINE S == {a \in Nat : a =< m => w[a] = W[a]}
<1>10. 0 \in S
  BY <1>0, <1>6, <1>9
<1>11. ASSUME NEW a \in S PROVE a + 1 \in S
  <2> SUFFICES ASSUME a + 1 =< m PROVE w[a + 1] = W[a + 1]
    OBVIOUS
  <2>1. a + 1 \in 1 .. m /\ a + 1 \in 0 .. m /\ (a + 1) - 1 = a
    BY <1>0
  <2>2. w[a] = W[a]
    BY <1>0
  <2> HIDE DEF w, W
  <2>3. w[a + 1] = Longer(w, a + 1) /\ W[a + 1] = Longer(W, a + 1)
    BY <1>5, <1>9, <2>1
  <2> QED
    BY <2>1, <2>2, <2>3 DEF Longer
<1>12. m \in S
  <2> HIDE DEF S
  <2>1. \A a \in Nat : a \in S
    <3>1. S \in SUBSET Nat
      BY DEF S
    <3> QED
      BY <1>10, <1>11, <3>1, EveryNumber
  <2> QED
    BY <1>0, <2>1
<1>13. w[m] = W[m]
  BY <1>0, <1>12
<1>14. W[m] = Upto(k)
  BY <1>0
<1> QED
  BY <1>13, <1>14, ChainIsWalk DEF Upto

-----------------------------------------------------------------------------
(***************************************************************************)
(* A file in the FAT F and the sectors X: a path p of k full blocks and a  *)
(* last one, of which t full sectors and the end of the next are used.     *)
(***************************************************************************)
Laid(X, p, j, count, f) ==
    \A s \in 0 .. count - 1 : X[p[j] * SectPerBlock + s] = <<f, j * SectPerBlock + s + 1>>

FullBlocks(F, X, p, k, f) ==
    Links(F, p, k) /\ \A j \in 0 .. k - 1 : Laid(X, p, j, SectPerBlock, f)

FileAt(F, X, first, end, f, p, k, t) ==
    /\ p[0] = first /\ FullBlocks(F, X, p, k, f)
    /\ p[k] \in Blocks /\ F[p[k]] = TO_END_BLOCK_OFFSET + 1 + t
    /\ Laid(X, p, k, t + 1, f)
    /\ end \in 1 .. SectSize
    /\ Size[f] = (k * SectPerBlock + t) * SectSize + end

Holds(F, X, first, end, f) ==
    \E p \in Paths, k \in 0 .. TO_FILESIZE_MAX, t \in 0 .. SectPerBlock - 1 :
        FileAt(F, X, first, end, f, p, k, t)

LEMMA QuotientIs ==
    ASSUME NEW d \in Nat \ {0}, NEW q \in Int, NEW r \in 0 .. d - 1
    PROVE  (q * d + r) \div d = q
<1> DEFINE x == q * d + r
           y == x \div d
<1>1. q * d = d * q /\ d * q \in Int /\ x \in Int /\ x = d * q + r
  OBVIOUS
<1> HIDE DEF x
<1>2. y \in Int /\ d * y =< x /\ x < d * y + d /\ d * y \in Int
  BY <1>1, Quotient
<1> HIDE DEF y
<1>3. d * (y + 1) = d * y + d /\ d * (q + 1) = d * q + d
  BY <1>2
<1>4. d * q < d * (y + 1) /\ d * y < d * (q + 1)
  BY <1>1, <1>2, <1>3
<1>5. q < y + 1 /\ y < q + 1
  BY <1>2, <1>4, Monotone
<1> QED
  BY <1>2, <1>5 DEF x, y

\* Sector s of the file, from 1, is in block number (s - 1) \div SectPerBlock.
LEMMA RankOfSector ==
    ASSUME NEW k \in Nat, NEW t \in 0 .. SectPerBlock - 1,
           NEW s \in 1 .. k * SectPerBlock + t + 1
    PROVE  LET j == (s - 1) \div SectPerBlock
               r == s - 1 - j * SectPerBlock
           IN  /\ j \in 0 .. k /\ r \in 0 .. SectPerBlock - 1
               /\ j = k => r =< t
               /\ Min({j, k}) = j
               /\ j * SectPerBlock + r + 1 = s
<1> DEFINE d == SectPerBlock
           j == (s - 1) \div d
           r == s - 1 - j * d
<1>1. d \in Nat \ {0} /\ s - 1 \in Nat /\ k * d \in Nat /\ k * d = d * k
  BY Geometry
<1>2. j \in Int /\ d * j =< s - 1 /\ s - 1 < d * j + d /\ d * j \in Int /\ d * j = j * d
  BY <1>1, Quotient
<1> HIDE DEF d, j
<1>3. d * (k + 1) = d * k + d /\ d * (j + 1) = d * j + d /\ d * 0 = 0
  BY <1>1, <1>2
<1>4. d * j < d * (k + 1)
  BY <1>1, <1>2, <1>3 DEF d
<1>5. d * 0 < d * (j + 1)
  BY <1>1, <1>2, <1>3
<1>6. j < k + 1 /\ 0 < j + 1
  BY <1>1, <1>2, <1>4, <1>5, Monotone
<1>7. j \in 0 .. k /\ r \in 0 .. d - 1 /\ j * d + r + 1 = s
  BY <1>1, <1>2, <1>6
<1>8. j = k => r =< t
  BY <1>1, <1>2 DEF d
<1>9. Min({j, k}) = j
  <2>1. {j, k} \in SUBSET Nat /\ {j, k} # {}
    BY <1>7
  <2>2. \A x \in {j, k} : j =< x
    BY <1>7
  <2>3. \A y \in {j, k} : (\A x \in {j, k} : y =< x) => y = j
    BY <1>7
  <2> QED
    BY <1>7, <2>2, <2>3 DEF Min
<1> QED
  BY <1>7, <1>8, <1>9 DEF d, j

LEMMA FileReadsBack ==
    ASSUME TypeOK, NEW e \in Entries, NEW f \in HostFiles, NEW p \in Paths,
           NEW k \in 0 .. TO_FILESIZE_MAX, NEW t \in 0 .. SectPerBlock - 1,
           FileAt(fat, data, dir[e].first, dir[e].end, f, p, k, t)
    PROVE  ReadBack(e) = Content(f)
<1> DEFINE N == k * SectPerBlock + t
           chain == Chain(dir[e].first)
           full  == (Len(chain) - 1) * SectPerBlock
                    + fat[Last(chain)] - TO_END_BLOCK_OFFSET - 1
           at(s) == LET rank == Min({(s - 1) \div SectPerBlock, Len(chain) - 1})
                    IN chain[rank + 1] * SectPerBlock + (s - 1 - rank * SectPerBlock)
<1>1. /\ p[0] = dir[e].first /\ Links(fat, p, k) /\ p[k] \in Blocks
      /\ fat[p[k]] = TO_END_BLOCK_OFFSET + 1 + t
      /\ \A j \in 0 .. k - 1 : Laid(data, p, j, SectPerBlock, f)
      /\ Laid(data, p, k, t + 1, f)
      /\ dir[e].end \in 1 .. SectSize
      /\ Size[f] = N * SectSize + dir[e].end
  BY DEF FileAt, FullBlocks
<1>2. k \in Nat /\ SectPerBlock \in Nat \ {0} /\ SectSize \in Nat \ {0} /\ N \in Nat
  BY Geometry, Product
<1>3. chain = [j \in 1 .. k + 1 |-> p[j - 1]]
  <2>1. fat[p[k]] \notin Blocks /\ fat \in [Blocks -> Byte]
    BY <1>1, <1>2, Geometry DEF TO_END_BLOCK_OFFSET, Blocks, TypeOK
  <2> QED
    BY <1>1, <2>1, ChainOfPath
<1> HIDE DEF chain
<1>4. /\ Len(chain) = k + 1 /\ Last(chain) = p[k]
      /\ \A j \in 0 .. k : chain[j + 1] = p[j]
  <2>1. \A j \in Nat : p[j] \in Byte
    BY DEF Paths
  <2>2. chain \in Seq(Byte) /\ Len(chain) = k + 1
    BY <1>2, <1>3, <2>1
  <2>3. chain[k + 1] = p[k]
    BY <1>2, <1>3
  <2> QED
    BY <1>2, <1>3, <2>2, <2>3 DEF Last
<1>5. full = N
  <2>1. full = k * SectPerBlock + (TO_END_BLOCK_OFFSET + 1 + t) - TO_END_BLOCK_OFFSET - 1
    <3>1. Len(chain) - 1 = k
      BY <1>2, <1>4
    <3> QED
      BY <1>1, <1>4, <3>1
  <2>2. PICK m \in Nat : m = k * SectPerBlock
    BY <1>2, Product
  <2>3. m + (TO_END_BLOCK_OFFSET + 1 + t) - TO_END_BLOCK_OFFSET - 1 = m + t
    BY Geometry DEF TO_END_BLOCK_OFFSET
  <2> HIDE DEF full
  <2> QED
    BY <2>1, <2>2, <2>3
<1>6. (Size[f] - 1) \div SectSize = N
  <2>1. PICK r \in 0 .. SectSize - 1 : r = dir[e].end - 1
    BY <1>1, <1>2
  <2>2. N * SectSize \in Int
    BY <1>2
  <2>3. Size[f] - 1 = N * SectSize + r
    BY <1>1, <1>2, <2>1, <2>2
  <2> HIDE DEF N
  <2>4. PICK q \in Nat, d \in Nat \ {0} : q = N /\ d = SectSize
    BY <1>2
  <2>5. (q * d + r) \div d = q
    <3>1. q \in Int /\ r \in 0 .. d - 1
      BY <2>4
    <3> QED
      BY <3>1, QuotientIs
  <2> QED
    BY <2>3, <2>4, <2>5
<1>7. Content(f) = [s \in 1 .. N + 1 |->
                       <<<<f, s>>, IF s =< N THEN SectSize ELSE Size[f] - N * SectSize>>]
  BY <1>6 DEF Content
<1>8. ReadBack(e) = [s \in 1 .. N + 1 |->
                        <<SectorAt(at(s)), IF s =< N THEN SectSize ELSE dir[e].end>>]
  BY <1>5 DEF ReadBack, chain
<1>9. Size[f] - N * SectSize = dir[e].end
  <2>1. N * SectSize \in Int
    BY <1>2
  <2> HIDE DEF N
  <2> QED
    BY <1>1, <1>2, <2>1
<1>10. ASSUME NEW s \in 1 .. N + 1 PROVE SectorAt(at(s)) = <<f, s>>
  <2> DEFINE j == (s - 1) \div SectPerBlock
             r == s - 1 - j * SectPerBlock
  <2>1. /\ j \in 0 .. k /\ r \in 0 .. SectPerBlock - 1 /\ (j = k => r =< t)
        /\ Min({j, k}) = j /\ j * SectPerBlock + r + 1 = s
    BY <1>2, RankOfSector
  <2>2. at(s) = p[j] * SectPerBlock + r
    <3>1. Len(chain) - 1 = k
      BY <1>2, <1>4
    <3>2. at(s) = chain[Min({j, k}) + 1] * SectPerBlock + (s - 1 - Min({j, k}) * SectPerBlock)
      BY <3>1
    <3> QED
      BY <1>4, <2>1, <3>2
  <2> HIDE DEF j, r, at
  <2>3. p[j] \in Blocks
    BY <1>1, <2>1 DEF Links
  <2>4. at(s) \in Sectors
    BY <2>1, <2>2, <2>3, BlockSector
  <2>5. data[p[j] * SectPerBlock + r] = <<f, j * SectPerBlock + r + 1>>
    <3>1. CASE j = k
      <4>1. r \in 0 .. (t + 1) - 1
        BY <2>1, <3>1
      <4> QED
        BY <1>1, <3>1, <4>1 DEF Laid
    <3>2. CASE j # k
      <4>1. j \in 0 .. k - 1
        BY <1>2, <2>1, <3>2
      <4> QED
        BY <1>1, <2>1, <4>1 DEF Laid
    <3> QED
      BY <3>1, <3>2
  <2> QED
    BY <2>1, <2>2, <2>4, <2>5 DEF SectorAt
<1> HIDE DEF at, N
<1> QED
  BY <1>7, <1>8, <1>9, <1>10

\* An entry whose blocks hold a file is listed as that file: no other file has
\* its sectors, and no other entry its name.
LEMMA ListedFile ==
    ASSUME TypeOK, UniqueNames, NEW e \in Entries, NEW f \in HostFiles,
           dir[e].name = EntryName[f], Size[f] > 0,
           Holds(fat, data, dir[e].first, dir[e].end, f)
    PROVE  FilesOnDisk[EntryName[f]] = f
<1> DEFINE same == {g \in HostFiles : EntryName[g] = dir[e].name
                                      /\ Size[g] > 0 /\ Content(g) = ReadBack(e)}
           slots == {k \in Entries : dir[k].name = EntryName[f]}
<1>1. ReadBack(e) = Content(f)
  BY FileReadsBack DEF Holds
<1>2. ASSUME NEW g \in HostFiles, Size[g] > 0
      PROVE  Content(g)[1][1] = <<g, 1>>
  <2> DEFINE full == (Size[g] - 1) \div SectSize
  <2>1. full \in Int /\ Size[g] - 1 < SectSize * full + SectSize /\ Size[g] - 1 \in Nat
    <3>1. Size[g] - 1 \in Nat /\ Size[g] - 1 \in Int /\ SectSize \in Nat \ {0}
      <4>1. Size[g] \in Nat
        BY FilesAssumption
      <4> QED
        BY <1>2, <4>1, Geometry
    <3>2. PICK x \in Nat : x = Size[g] - 1
      BY <3>1
    <3> QED
      BY <3>1, <3>2, Quotient
  <2>2. full >= 0
    <3> HIDE DEF full
    <3>1. SectSize * (full + 1) = SectSize * full + SectSize /\ SectSize * full \in Int
      BY <2>1, Geometry
    <3>2. SectSize * 0 = 0 /\ SectSize * 0 < SectSize * (full + 1)
      BY <2>1, <3>1, Geometry
    <3>3. 0 < full + 1
      BY <2>1, <3>2, Geometry, Monotone
    <3> QED
      BY <2>1, <3>3
  <2>3. Content(g) = [s \in 1 .. full + 1 |->
                        <<<<g, s>>, IF s =< full THEN SectSize ELSE Size[g] - full * SectSize>>]
    BY DEF Content
  <2> HIDE DEF full
  <2>4. 1 \in 1 .. full + 1
    BY <2>1, <2>2
  <2> QED
    BY <2>3, <2>4
<1>3. same = {f}
  <2>1. f \in same
    BY <1>1
  <2>2. ASSUME NEW g \in same PROVE g = f
    <3>1. Content(g) = Content(f)
      BY <1>1
    <3>2. <<g, 1>> = <<f, 1>>
      BY <1>2, <3>1
    <3> QED
      BY <3>2
  <2> HIDE DEF same
  <2> QED
    BY <2>1, <2>2
<1>4. FileOf(e) = f
  <2>1. FileOf(e) = IF same = {} THEN Filler ELSE CHOOSE g \in same : TRUE
    BY DEF FileOf
  <2> HIDE DEF same
  <2> QED
    BY <1>3, <2>1
<1>5. slots = {e}
  <2>1. EntryName[f] # NoName
    BY FilesAssumption
  <2> QED
    BY <2>1 DEF UniqueNames
<1>6. Min(slots) = e
  <2>1. slots \in SUBSET Nat /\ slots # {}
    BY <1>5 DEF Entries
  <2>2. Min(slots) \in slots
    <3> HIDE DEF slots
    <3> QED
      BY <2>1, MinMember
  <2> HIDE DEF slots
  <2> QED
    BY <1>5, <2>2
<1>7. EntryName[f] \in Names
  BY FilesAssumption
<1>8. FilesOnDisk[EntryName[f]] = IF slots = {} THEN NoFile ELSE FileOf(Min(slots))
  BY <1>7 DEF FilesOnDisk
<1> HIDE DEF slots
<1> QED
  BY <1>4, <1>5, <1>6, <1>8

\* A file stays where it is as long as its blocks do.
LEMMA FileKept ==
    ASSUME NEW F, NEW G, NEW X, NEW Y, NEW first, NEW end, NEW f,
           NEW p \in Paths, NEW k \in 0 .. TO_FILESIZE_MAX, NEW t \in 0 .. SectPerBlock - 1,
           FileAt(F, X, first, end, f, p, k, t),
           \A j \in 0 .. k : /\ G[p[j]] = F[p[j]]
                             /\ \A s \in 0 .. SectPerBlock - 1 :
                                   Y[p[j] * SectPerBlock + s] = X[p[j] * SectPerBlock + s]
    PROVE  FileAt(G, Y, first, end, f, p, k, t)
<1>1. \A j \in 0 .. k - 1 : Laid(Y, p, j, SectPerBlock, f)
  <2>1. \A j \in 0 .. k - 1 : j \in 0 .. k
    OBVIOUS
  <2>2. \A j \in 0 .. k - 1 : Laid(X, p, j, SectPerBlock, f)
    BY DEF FileAt, FullBlocks
  <2>3. ASSUME NEW j \in 0 .. k - 1 PROVE Laid(Y, p, j, SectPerBlock, f)
    <3>1. \A s \in 0 .. SectPerBlock - 1 :
             Y[p[j] * SectPerBlock + s] = X[p[j] * SectPerBlock + s]
      BY <2>1
    <3>2. Laid(X, p, j, SectPerBlock, f)
      BY <2>2
    <3> QED
      BY ONLY <3>1, <3>2 DEF Laid
  <2> QED
    BY <2>3
<1>2. Laid(Y, p, k, t + 1, f)
  <2>1. \A s \in 0 .. (t + 1) - 1 : s \in 0 .. SectPerBlock - 1
    BY Geometry
  <2>2. k \in 0 .. k
    OBVIOUS
  <2> QED
    BY <2>1, <2>2 DEF FileAt, Laid
<1>3. Links(G, p, k) /\ G[p[k]] = F[p[k]]
  <2>1. \A j \in 0 .. k - 1 : j \in 0 .. k
    OBVIOUS
  <2>2. k \in 0 .. k
    OBVIOUS
  <2> QED
    BY <2>1, <2>2 DEF FileAt, FullBlocks, Links
<1> QED
  BY <1>1, <1>2, <1>3 DEF FileAt, FullBlocks

LEMMA PathDistinct ==
    ASSUME NEW F, NEW X, NEW first, NEW end, NEW f, NEW p \in Paths, NEW k \in Nat,
           NEW t \in 0 .. SectPerBlock - 1, FileAt(F, X, first, end, f, p, k, t)
    PROVE  \A i1, j1 \in 0 .. k : p[i1] = p[j1] => i1 = j1
<1> DEFINE S == {d \in Nat : \A a, b \in 0 .. k : a < b /\ k - b = d => p[a] # p[b]}
<1>1. \A j \in 0 .. k - 1 : F[p[j]] = p[j + 1] /\ p[j] \in Blocks
  BY DEF FileAt, FullBlocks, Links
<1>2. p[k] \in Blocks /\ F[p[k]] \notin Blocks
  <2>1. TO_END_BLOCK_OFFSET + 1 + t \notin Blocks
    BY Geometry DEF Blocks, TO_END_BLOCK_OFFSET
  <2> QED
    BY <2>1 DEF FileAt
<1>3. \A j \in 0 .. k : p[j] \in Blocks
  <2>1. \A j \in 0 .. k : j = k \/ j \in 0 .. k - 1
    OBVIOUS
  <2> QED
    BY <1>1, <1>2, <2>1
<1>4. 0 \in S
  <2> SUFFICES ASSUME NEW a \in 0 .. k, NEW b \in 0 .. k, a < b, k - b = 0
               PROVE  p[a] # p[b]
    OBVIOUS
  <2>1. b = k /\ a \in 0 .. k - 1 /\ a + 1 \in 0 .. k
    OBVIOUS
  <2> QED
    BY <1>1, <1>2, <1>3, <2>1
<1>5. ASSUME NEW d \in S PROVE d + 1 \in S
  <2> SUFFICES ASSUME NEW a \in 0 .. k, NEW b \in 0 .. k, a < b, k - b = d + 1, p[a] = p[b]
               PROVE  FALSE
    OBVIOUS
  <2>1. /\ a \in 0 .. k - 1 /\ b \in 0 .. k - 1 /\ a + 1 \in 0 .. k /\ b + 1 \in 0 .. k
        /\ a + 1 < b + 1 /\ k - (b + 1) = d
    OBVIOUS
  <2>2. p[a + 1] # p[b + 1]
    BY <2>1
  <2> HIDE DEF S
  <2> QED
    BY <1>1, <2>1, <2>2
<1>6. \A d \in Nat : d \in S
  <2>1. S \in SUBSET Nat
    OBVIOUS
  <2> HIDE DEF S
  <2> QED
    BY <1>4, <1>5, <2>1, EveryNumber
<1> SUFFICES ASSUME NEW a \in 0 .. k, NEW b \in 0 .. k, a < b PROVE p[a] # p[b]
  OBVIOUS
<1>7. k - b \in Nat
  OBVIOUS
<1> QED
  BY <1>6, <1>7

\* The path of a file leads through used blocks.
LEMMA PathUsed ==
    ASSUME NEW F, NEW X, NEW first, NEW end, NEW f, NEW p \in Paths, NEW k \in Nat,
           NEW t \in 0 .. SectPerBlock - 1, FileAt(F, X, first, end, f, p, k, t)
    PROVE  \A j \in 0 .. k : p[j] \in Blocks /\ F[p[j]] # TO_TAG_FREE
<1>1. \A j \in 0 .. k - 1 : F[p[j]] = p[j + 1] /\ p[j] \in Blocks
  BY DEF FileAt, FullBlocks, Links
<1>2. \A j \in 0 .. k : p[j] \in Blocks
  <2>1. \A j \in 0 .. k : j = k \/ j \in 0 .. k - 1
    OBVIOUS
  <2> QED
    BY <1>1, <2>1 DEF FileAt
<1>3. TO_TAG_FREE \notin Blocks /\ TO_END_BLOCK_OFFSET + 1 + t # TO_TAG_FREE
  BY Geometry DEF Blocks, TO_TAG_FREE, TO_END_BLOCK_OFFSET
<1>4. ASSUME NEW j \in 0 .. k PROVE F[p[j]] # TO_TAG_FREE
  <2>1. CASE j = k
    BY <1>3, <2>1 DEF FileAt
  <2>2. CASE j # k
    <3>1. j \in 0 .. k - 1 /\ j + 1 \in 0 .. k
      BY <2>2
    <3> QED
      BY <1>1, <1>2, <1>3, <3>1
  <2> QED
    BY <2>1, <2>2
<1> QED
  BY <1>2, <1>4

\* Name nm stands for the file g, or for no file.
Stands(nm, g, F, D, X) ==
    IF g = NoFile THEN \A e \in Entries : D[e].name # nm
    ELSE /\ g \in HostFiles /\ EntryName[g] = nm /\ Size[g] > 0
         /\ \E e \in Entries : D[e].name = nm /\ Holds(F, X, D[e].first, D[e].end, g)

-----------------------------------------------------------------------------
(***************************************************************************)
(* The static index of seek_wildcard: a call leaves it as it found it, at  *)
(* the first slot, since every search of _ForEachFile goes on to its end.  *)
(***************************************************************************)
IndexInv ==
    i # 0 => /\ cmd.wild /\ cmd.op \in {"delete", "extract"}
             /\ pc \in {"seek", "delete", "read"}

LEMMA IndexInit == Init => IndexInv
BY DEF Init, IndexInv

LEMMA IndexNext == TypeInv /\ IndexInv /\ [Next]_vars => IndexInv'
<1> SUFFICES ASSUME TypeInv, IndexInv, [Next]_vars PROVE IndexInv'
  OBVIOUS
<1>1. CASE Call \/ SizeStep \/ AddTooBig \/ CheckStep \/ AllocFirst \/ FillBlock \/ FillTail
           \/ SaveSector
  <2>1. i' = i /\ i = 0
    BY <1>1 DEF Call, AddNoFile, AddEmptyFile, AddDirFull, AddFile, DeleteFile, ExtractFile,
                ForEachFile, Refuse, locals, SizeStep, AddTooBig, CheckStep, AllocFirst,
                FillBlock, FillTail, SaveSector, IndexInv
  <2> QED
    BY <2>1 DEF IndexInv
<1>2. CASE DeleteStep \/ ReadBlock \/ UNCHANGED vars
  <2>1. i' = i /\ cmd' = cmd /\ pc' = pc
    BY <1>2 DEF DeleteStep, ReadBlock, vars, locals
  <2> QED
    BY <2>1 DEF IndexInv
<1>3. CASE DeleteDone
  <2>1. i' = i /\ cmd' = cmd
    BY <1>3 DEF DeleteDone
  <2>2. CASE i = 0
    BY <2>1, <2>2 DEF IndexInv
  <2>3. CASE i # 0
    <3>1. cmd.wild /\ cmd.op \in {"delete", "extract"}
      BY <2>3 DEF IndexInv
    <3>2. cmd.op = "delete"
      BY <1>3, <3>1 DEF DeleteDone, TypeInv, RequestOK
    <3>3. pc' = "seek"
      BY <1>3, <3>1, <3>2 DEF DeleteDone
    <3> QED
      BY <2>1, <3>1, <3>2, <3>3 DEF IndexInv
  <2> QED
    BY <2>2, <2>3
<1>4. CASE SeekDelete \/ SeekExtract
  <2>1. /\ pc' \in {"delete", "read"} /\ cmd' = cmd /\ cmd.op \in {"delete", "extract"}
        /\ ~cmd.wild => i' = i
    BY <1>4 DEF SeekDelete, SeekExtract, StartDelete, Found
  <2> QED
    BY <2>1 DEF IndexInv
<1>5. CASE ExtractNoPerm \/ ReadTail
  <2>1. CASE cmd.wild
    BY <1>5, <2>1 DEF ExtractNoPerm, ReadTail, IndexInv
  <2>2. CASE ~cmd.wild
    BY <1>5, <2>2 DEF ExtractNoPerm, ReadTail, Found, IndexInv
  <2> QED
    BY <2>1, <2>2
<1>6. CASE SeekEnd
  <2>1. i' = 0
    BY <1>6 DEF SeekEnd, NothingMore, IndexAtEnd, IndexInv
  <2> QED
    BY <2>1 DEF IndexInv
<1> QED
  BY <1>1, <1>2, <1>3, <1>4, <1>5, <1>6 DEF Next, Step

-----------------------------------------------------------------------------
(***************************************************************************)
(* What is being filled.  Only what does not depend on the shape of the    *)
(* other chains is used: they may meet, end in a free block or turn in     *)
(* circles, as SapDosCrashProofs needs it.                                 *)
(***************************************************************************)
Basics == TypeInv /\ Synced /\ Saved /\ NamesInv /\ IndexInv

\* The blocks set aside are neither free nor in the way of any chain.
Aside(F, D) ==
    /\ \A b \in Reserved : F[b] = TO_TAG_RESERVED
    /\ \A c \in Blocks : F[c] \notin Reserved
    /\ \A e \in Entries : D[e].first \notin Reserved

NoneReserved ==
    /\ Aside(fat, dir) /\ Aside(mfat, mdir)
    /\ pc \in {"delete", "fill"} => block \notin Reserved
    /\ pc = "fill" => head \notin Reserved

Request ==
    IF cmd.op = "add" THEN Size[cmd.file] > 0 ELSE cmd.file = NoFile

\* What do_add_file has written so far is a path of full blocks up to the block
\* to fill, and what is free leaves the path shorter than TO_FILESIZE_MAX.
FilledSoFar(p, k) ==
    /\ p[0] = head /\ p[k] = block
    /\ FullBlocks(mfat, data, p, k, cmd.file)
    /\ Size[cmd.file] = k * TO_BLOCKSIZE + left
    /\ k + get_dskf(mfat) =< TO_FILESIZE_MAX

Filling ==
    pc = "fill" /\ block \in Blocks =>
        /\ mfat[block] = TO_TAG_FREE
        /\ left > 0
        /\ \E p \in Paths, k \in Nat : FilledSoFar(p, k)

\* What is then saved is the whole file.
Filled ==
    pc = "save" /\ cmd.op = "add" =>
        /\ mdir[n].name = EntryName[cmd.file]
        /\ Holds(mfat, data, mdir[n].first, mdir[n].end, cmd.file)

FillInv == Basics /\ NoneReserved /\ Request /\ Filling /\ Filled

-----------------------------------------------------------------------------
LEMMA BasicsInit == Init => Basics
BY TypeInit, LinkInit, NamesInit, IndexInit DEF Basics

LEMMA BasicsNext == Basics /\ [Next]_vars => Basics'
<1> SUFFICES ASSUME Basics, [Next]_vars PROVE Basics'
  OBVIOUS
<1>1. TypeInv' /\ NamesInv' /\ IndexInv'
  BY TypeNext, NamesNext, IndexNext DEF Basics
<1>2. CASE Next
  BY <1>1, <1>2, BufferSynced DEF Basics
<1>3. CASE UNCHANGED vars
  BY <1>1, <1>3 DEF Basics, Synced, Saved, vars, archive, buffer, locals
<1> QED
  BY <1>1, <1>2, <1>3

-----------------------------------------------------------------------------
LEMMA AsideInit == Init => NoneReserved
<1> SUFFICES ASSUME Init PROVE NoneReserved
  OBVIOUS
<1>1. TO_TAG_FREE \notin Blocks /\ TO_TAG_RESERVED \notin Blocks /\ Reserved \subseteq Blocks
  BY Geometry, GeometryAssumption DEF Blocks, TO_TAG_FREE, TO_TAG_RESERVED
<1>2. Aside(FormattedFat, FormattedDir)
  BY <1>1, GeometryAssumption DEF Aside, FormattedFat, FormattedDir, TO_TAG_FREE
<1> QED
  BY <1>2 DEF Init, NoneReserved

\* A free block is not a reserved one, even while another is marked.
LEMMA FreeNotReserved ==
    ASSUME NoneReserved, TypeOK, NEW b \in Blocks
    PROVE  /\ b \in FreeBlocks(mfat) => b \notin Reserved
           /\ \A c \in FreeBlocks(MarkBlock(mfat, b)) :
                 c # b /\ c \in Blocks /\ mfat[c] = TO_TAG_FREE /\ c \notin Reserved
<1>1. \A c \in Blocks : mfat[c] = TO_TAG_FREE => c \notin Reserved
  BY DEF NoneReserved, Aside, TO_TAG_FREE, TO_TAG_RESERVED
<1>2. ASSUME NEW c \in FreeBlocks(MarkBlock(mfat, b))
      PROVE  c # b /\ c \in Blocks /\ mfat[c] = TO_TAG_FREE
  BY DEF FreeBlocks, MarkBlock, TO_TAG_FREE, TO_TAG_RESERVED, TypeOK
<1> QED
  BY <1>1, <1>2 DEF FreeBlocks

LEMMA CursorInBlocks ==
    ASSUME TypeInv, DeleteStep
    PROVE  block \in Blocks /\ pc = "delete"
<1>1. pc = "delete" /\ block < NBlocks
  BY DEF DeleteStep, InChain
<1>2. block \in Byte
  BY <1>1 DEF TypeInv, TypeOK, RequestOK
<1> QED
  BY <1>1, <1>2, Geometry DEF Blocks, Byte

LEMMA AsideNext == Basics /\ NoneReserved /\ [Next]_vars => NoneReserved'
<1> SUFFICES ASSUME Basics, NoneReserved, [Next]_vars PROVE NoneReserved'
  OBVIOUS
<1> USE DEF NoneReserved
<1>t. TypeInv /\ TypeOK /\ Reserved \subseteq Blocks
  BY GeometryAssumption DEF Basics, TypeInv
<1>k. ASSUME NEW D, NEW E, Aside(mfat, D),
             \A e \in Entries : E[e].first = D[e].first
      PROVE  Aside(mfat, E)
  BY <1>k DEF Aside
<1>1. CASE Call
  <2>1. UNCHANGED <<fat, dir>> /\ mfat' \in {fat, mfat} /\ mdir' \in {dir, mdir}
    BY <1>1 DEF Call, AddNoFile, AddEmptyFile, AddDirFull, AddFile, DeleteFile,
                ExtractFile, ForEachFile, Refuse, ReadTrack20, archive, buffer
  <2>2. pc' \notin {"delete", "fill"}
    BY <1>1 DEF Call, AddNoFile, AddEmptyFile, AddDirFull, AddFile, DeleteFile,
                ExtractFile, ForEachFile, Refuse, Return
  <2> QED
    BY <2>1, <2>2 DEF Aside
<1>2. CASE SizeStep \/ AddTooBig \/ DeleteDone
  <2>1. UNCHANGED <<fat, dir, mfat, mdir>> /\ pc' \notin {"delete", "fill"}
    BY <1>2 DEF SizeStep, AddTooBig, DeleteDone, StartSave, Refuse, Return, archive, buffer
  <2> QED
    BY <2>1
<1>3. ASSUME NEW e \in Entries, StartDelete(e), UNCHANGED <<fat, dir, mfat>>
      PROVE  NoneReserved'
  <2>1. \A k \in Entries : mdir'[k].first = mdir[k].first
    BY <1>3, <1>t DEF StartDelete, TypeOK, Entry
  <2>2. pc' = "delete" /\ block' = mdir[e].first
    BY <1>3 DEF StartDelete
  <2> QED
    BY <1>3, <2>1, <2>2 DEF Aside
<1>4. CASE CheckStep
  <2>1. CASE mdir[n].name # NoName
    <3>1. PICK e \in Entries : e = n /\ StartDelete(e)
      BY <1>4, <1>t, <2>1 DEF CheckStep, TypeOK
    <3> QED
      BY <1>3, <1>4, <3>1 DEF CheckStep, archive
  <2>2. CASE mdir[n].name = NoName
    BY <1>4, <2>2 DEF CheckStep, archive
  <2> QED
    BY <2>1, <2>2
<1>5. CASE DeleteStep
  <2>1. block \in Blocks /\ pc = "delete"
    BY <1>5, <1>t, CursorInBlocks
  <2>2. \A c \in Blocks : mfat'[c] = IF c = block THEN TO_TAG_FREE ELSE mfat[c]
    BY <1>5, <1>t DEF DeleteStep, TypeOK
  <2>3. TO_TAG_FREE \notin Reserved
    BY <1>t, Geometry DEF Blocks, TO_TAG_FREE
  <2>4. Aside(mfat', mdir)
    BY <1>t, <2>1, <2>2, <2>3 DEF Aside
  <2> QED
    BY <1>5, <2>1, <2>4 DEF DeleteStep, Aside, archive
<1>6. CASE AllocFirst
  <2>1. block' \in FreeBlocks(mfat) \cup {NoBlock} /\ head' = block'
    BY <1>6, FindSym DEF AllocFirst
  <2>2. block' \notin Reserved
    BY <1>t, <2>1, FreeNotReserved, Geometry DEF FreeBlocks
  <2> QED
    BY <1>6, <2>1, <2>2 DEF AllocFirst, archive, buffer
<1>7. CASE FillBlock
  <2>1. block \in Blocks /\ block \notin Reserved
    BY <1>7 DEF FillBlock
  <2>2. block' \in FreeBlocks(MarkBlock(mfat, block)) \cup {NoBlock}
    BY <1>7, FindRel DEF FillBlock
  <2>3. block' \in Blocks \cup {NoBlock} /\ block' \notin Reserved
    BY <1>t, <2>1, <2>2, FreeNotReserved, Geometry
  <2>4. \A c \in Blocks : mfat'[c] = IF c = block THEN block' % 256 ELSE mfat[c]
    BY <1>7, <1>t DEF FillBlock, TypeOK
  <2>5. block' % 256 \notin Reserved
    <3>1. TO_TAG_FREE \notin Reserved
      BY <1>t, Geometry DEF Blocks, TO_TAG_FREE
    <3> QED
      BY <2>3, <3>1, Bytes
  <2>6. Aside(mfat', mdir)
    BY <1>t, <2>1, <2>4, <2>5 DEF Aside
  <2> QED
    BY <1>7, <2>3, <2>6 DEF FillBlock
<1>8. CASE FillTail
  <2> DEFINE full == (left - 1) \div SectSize
  <2>1. block \in Blocks /\ block \notin Reserved /\ head \notin Reserved
    BY <1>8 DEF FillTail
  <2>2. full \in -1 .. SectPerBlock - 1
    BY <1>8, <1>t, TailSectors DEF FillTail, TypeOK
  <2>3. \A c \in Blocks :
           mfat'[c] = IF c = block THEN TO_END_BLOCK_OFFSET + 1 + full ELSE mfat[c]
    BY <1>8, <1>t DEF FillTail, TypeOK
  <2>4. \A e \in Entries : mdir'[e].first = IF e = n THEN head ELSE mdir[e].first
    BY <1>8, <1>t DEF FillTail, TypeOK
  <2> HIDE DEF full
  <2>5. TO_END_BLOCK_OFFSET + 1 + full \notin Blocks
    BY <2>2, Geometry DEF Blocks, TO_END_BLOCK_OFFSET
  <2>6. Aside(mfat', mdir')
    BY <1>t, <2>1, <2>3, <2>4, <2>5 DEF Aside
  <2> QED
    BY <1>8, <2>6 DEF FillTail, StartSave
<1>9. CASE SaveSector
  <2>1. /\ UNCHANGED <<mfat, mdir>> /\ fat' \in {fat, mfat} /\ pc' \in {"save", "idle"}
        /\ \A e \in Entries : dir'[e] \in {dir[e], mdir[e]}
    BY <1>9 DEF SaveSector, buffer, Return
  <2> QED
    BY <2>1 DEF Aside
<1>10. CASE SeekDelete
  <2>1. PICK e \in Entries : e = n' /\ StartDelete(e)
    BY <1>10, SlotFound DEF SeekDelete, Matches
  <2> QED
    BY <1>3, <1>10, <2>1 DEF SeekDelete, archive
<1>11. CASE SeekExtract \/ ExtractNoPerm \/ SeekEnd \/ ReadBlock \/ ReadTail
  <2>1. UNCHANGED <<fat, dir, mfat, mdir>> /\ pc' \notin {"delete", "fill"}
    BY <1>11 DEF SeekExtract, ExtractNoPerm, SeekEnd, ReadBlock, ReadTail, StartSave,
                 Return, archive, buffer
  <2> QED
    BY <2>1
<1>12. CASE UNCHANGED vars
  BY <1>12 DEF vars, archive, buffer, locals
<1> QED
  BY <1>1, <1>2, <1>4, <1>5, <1>6, <1>7, <1>8, <1>9, <1>10, <1>11, <1>12 DEF Next, Step

LEMMA RequestInit == Init => Request
BY DEF Init, Request, NoCmd

LEMMA RequestNext == Basics /\ Request /\ [Next]_vars => Request'
<1> SUFFICES ASSUME Basics, Request, [Next]_vars PROVE Request'
  OBVIOUS
<1>1. ASSUME cmd' = cmd \/ cmd' = NoCmd PROVE Request'
  BY <1>1 DEF Request, NoCmd
<1>2. ASSUME NEW f \in HostFiles, AddFile(f) PROVE Request'
  BY <1>2 DEF AddFile, Request, NoCmd
<1>3. CASE DeleteFile \/ ExtractFile
  <2>1. cmd'.op # "add" /\ cmd'.file = NoFile
    BY <1>3 DEF DeleteFile, ExtractFile, ForEachFile, NoCmd
  <2> QED
    BY <2>1 DEF Request
<1>4. CASE AddNoFile \/ AddTooBig \/ \E f \in HostFiles : AddEmptyFile(f) \/ AddDirFull(f)
  BY <1>1, <1>4 DEF AddNoFile, AddTooBig, AddEmptyFile, AddDirFull, Refuse, Return
<1>5. CASE \/ SizeStep \/ CheckStep \/ DeleteStep \/ DeleteDone \/ AllocFirst
           \/ FillBlock \/ FillTail \/ SeekDelete \/ SeekExtract \/ ReadBlock
  BY <1>1, <1>5 DEF SizeStep, CheckStep, DeleteStep, DeleteDone, AllocFirst,
                    FillBlock, FillTail, SeekDelete, SeekExtract, ReadBlock
<1>6. CASE SaveSector \/ ExtractNoPerm \/ SeekEnd \/ ReadTail
  BY <1>1, <1>6 DEF SaveSector, ExtractNoPerm, SeekEnd, ReadTail, Return, locals
<1>7. CASE UNCHANGED vars
  BY <1>1, <1>7 DEF vars
<1> QED
  BY <1>2, <1>3, <1>4, <1>5, <1>6, <1>7 DEF Next, Call, Step

-----------------------------------------------------------------------------
\* Track 20 takes two blocks that are never free.
LEMMA FreeAtMost ==
    ASSUME NoneReserved
    PROVE  get_dskf(mfat) =< TO_FILESIZE_MAX
<1>1. PICK a \in Reserved, b \in Reserved : a # b
  BY Track20Assumption
<1> DEFINE free == FreeBlocks(mfat)
           others == (free \cup {a}) \cup {b}
<1>2. a \notin free /\ b \notin free \cup {a}
  BY <1>1 DEF NoneReserved, Aside, FreeBlocks, TO_TAG_FREE, TO_TAG_RESERVED
<1>3. IsFiniteSet(free) /\ Cardinality(free) \in Nat /\ get_dskf(mfat) = Cardinality(free)
  BY FreeFinite DEF get_dskf
<1>4. Cardinality(others) = Cardinality(free) + 2
  <2> HIDE DEF free
  <2>1. IsFiniteSet(free \cup {a}) /\ Cardinality(free \cup {a}) = Cardinality(free) + 1
    BY <1>2, <1>3, FS_AddElement
  <2>2. Cardinality(others) = Cardinality(free) + 1 + 1
    BY <1>2, <2>1, FS_AddElement
  <2> QED
    BY <1>3, <2>2
<1>5. others \in SUBSET (0 .. NBlocks - 1)
  BY <1>1, GeometryAssumption DEF FreeBlocks, Blocks
<1>6. Cardinality(others) =< NBlocks
  <2>1. IsFiniteSet(0 .. NBlocks - 1) /\ Cardinality(0 .. NBlocks - 1) = NBlocks
    BY Geometry, FS_Interval
  <2> HIDE DEF others
  <2> QED
    BY <1>5, <2>1, FS_Subset
<1> HIDE DEF free, others
<1> QED
  BY <1>3, <1>4, <1>6, Geometry DEF TO_FILESIZE_MAX

\* The sectors of a block that has just been written.
LEMMA SectorsLaid ==
    ASSUME TypeOK, NEW b \in Blocks, NEW count \in 0 .. SectPerBlock, NEW from \in Nat,
           data' = WriteSectors(b, count, from), NEW s \in 0 .. count - 1
    PROVE  data'[b * SectPerBlock + s] = <<cmd.file, from + s>>
<1>1. PICK m \in Nat : m = b * SectPerBlock
  BY Geometry, Product DEF Blocks
<1>2. b * SectPerBlock + s \in Sectors
  BY BlockSector, Geometry
<1>3. m + s \in m .. m + count - 1 /\ from + (m + s) - m = from + s
  BY Geometry
<1> QED
  BY <1>1, <1>2, <1>3 DEF WriteSectors

\* NextSector when k blocks are full.
LEMMA RankOfBlock ==
    ASSUME NEW k \in Nat, left \in Nat, Size[cmd.file] = k * TO_BLOCKSIZE + left
    PROVE  NextSector = k * SectPerBlock + 1
<1> DEFINE d == SectSize
           q == k * SectPerBlock
<1>1. q \in Nat /\ d \in Nat \ {0} /\ SectPerBlock \in Nat
  BY Geometry, Product
<1>2. k * TO_BLOCKSIZE = q * d
  BY <1>1 DEF TO_BLOCKSIZE
<1>3. PICK x \in Nat : x = q * d
  BY <1>1, Product
<1>4. Size[cmd.file] - left = q * d + 0
  BY <1>2, <1>3
<1> HIDE DEF q, d
<1>5. (q * d + 0) \div d = q
  <2>1. q \in Int /\ 0 \in 0 .. d - 1
    BY <1>1
  <2> QED
    BY <1>1, <2>1, QuotientIs
<1> QED
  BY <1>4, <1>5 DEF NextSector, q, d

\* A path of full blocks is apart from a free block, and from what is done there.
LEMMA PathKept ==
    ASSUME TypeOK, NEW p \in Paths, NEW k \in Nat, NEW f, NEW b \in Blocks,
           FullBlocks(mfat, data, p, k, f), p[k] = b, mfat[b] = TO_TAG_FREE,
           NEW count \in 0 .. SectPerBlock, NEW from, data' = WriteSectors(b, count, from),
           \A c \in Blocks : c # b => mfat'[c] = mfat[c]
    PROVE  FullBlocks(mfat', data', p, k, f)
<1>1. \A j \in 0 .. k - 1 : p[j] \in Blocks /\ mfat[p[j]] = p[j + 1]
  BY DEF FullBlocks, Links
<1>2. ASSUME NEW j \in 0 .. k - 1 PROVE p[j] \in Blocks /\ p[j] # b
  <2>1. p[j + 1] \in Blocks
    <3>1. j + 1 \in 0 .. k - 1 \/ j + 1 = k
      OBVIOUS
    <3> QED
      BY <1>1, <3>1
  <2>2. TO_TAG_FREE \notin Blocks
    BY Geometry DEF Blocks, TO_TAG_FREE
  <2> QED
    BY <1>1, <2>1, <2>2
<1>3. Links(mfat', p, k)
  BY <1>1, <1>2 DEF Links
<1>4. ASSUME NEW j \in 0 .. k - 1 PROVE Laid(data', p, j, SectPerBlock, f)
  <2>1. Laid(data, p, j, SectPerBlock, f)
    BY DEF FullBlocks
  <2>2. \A s \in 0 .. SectPerBlock - 1 :
           data'[p[j] * SectPerBlock + s] = data[p[j] * SectPerBlock + s]
    BY <1>2, DataKept
  <2> QED
    BY <2>1, <2>2 DEF Laid
<1> QED
  BY <1>3, <1>4 DEF FullBlocks

LEMMA FirstToFill ==
    ASSUME FillInv, AllocFirst
    PROVE  Filling'
<1> SUFFICES ASSUME block' \in Blocks
             PROVE  /\ mfat'[block'] = TO_TAG_FREE /\ left' > 0
                    /\ \E p \in Paths, k \in Nat : FilledSoFar(p, k)'
  BY DEF Filling
<1>1. /\ mfat' = mfat /\ cmd' = cmd /\ cmd.op = "add" /\ cmd.file \in HostFiles
      /\ head' = block' /\ left' = Size[cmd.file] /\ Size[cmd.file] \in Nat
  BY FilesAssumption DEF AllocFirst, buffer, FillInv, Basics, TypeInv, RequestOK
<1>2. mfat[block'] = TO_TAG_FREE
  BY FindSym, Geometry DEF AllocFirst, FreeBlocks
<1>3. PICK b \in Byte : b = block'
  BY Geometry
<1> DEFINE p == [k \in Nat |-> b]
<1>4. p \in Paths /\ p[0] = block'
  BY <1>3 DEF Paths
<1>5. FilledSoFar(p, 0)'
  <2>1. FullBlocks(mfat', data', p, 0, cmd.file)
    BY DEF FullBlocks, Links
  <2>2. get_dskf(mfat) =< TO_FILESIZE_MAX /\ get_dskf(mfat) \in Nat
    BY FreeAtMost, FreeFinite DEF FillInv
  <2>3. 0 * TO_BLOCKSIZE = 0
    BY Geometry
  <2> HIDE DEF p
  <2> QED
    BY <1>1, <1>4, <2>1, <2>2, <2>3 DEF FilledSoFar
<1> HIDE DEF p
<1> QED
  BY <1>1, <1>2, <1>4, <1>5 DEF FillInv, Request

LEMMA NextToFill ==
    ASSUME FillInv, FillBlock
    PROVE  Filling'
<1> SUFFICES ASSUME block' \in Blocks
             PROVE  /\ mfat'[block'] = TO_TAG_FREE /\ left' > 0
                    /\ \E p \in Paths, k \in Nat : FilledSoFar(p, k)'
  BY DEF Filling
<1>t. TypeOK /\ NoneReserved
  BY DEF FillInv, Basics, TypeInv
<1>1. /\ pc = "fill" /\ block \in Blocks /\ cmd' = cmd /\ head' = head
      /\ left \in Nat /\ left > TO_BLOCKSIZE /\ left' = left - TO_BLOCKSIZE
      /\ data' = WriteSectors(block, SectPerBlock, NextSector)
  BY <1>t DEF FillBlock, TypeOK
<1>2. PICK p \in Paths, k \in Nat : FilledSoFar(p, k)
  BY <1>1 DEF FillInv, Filling
<1>3. mfat[block] = TO_TAG_FREE
  BY <1>1 DEF FillInv, Filling
<1>4. block' # block /\ mfat[block'] = TO_TAG_FREE
  <2>1. block' \in FreeBlocks(MarkBlock(mfat, block))
    BY FindRel, Geometry DEF FillBlock
  <2> QED
    BY <1>t, <1>1, <2>1, FreeNotReserved
<1>5. /\ mfat' = [mfat EXCEPT ![block] = block' % 256] /\ block' % 256 = block'
      /\ \A c \in Blocks : mfat'[c] = IF c = block THEN block' ELSE mfat[c]
  BY <1>t, <1>1, Bytes DEF FillBlock, TypeOK
<1>6. PICK b \in Byte : b = block'
  BY Geometry
<1> DEFINE q == [p EXCEPT ![k + 1] = b]
<1>7. q \in Paths /\ q[k + 1] = block' /\ \A j \in 0 .. k : q[j] = p[j]
  BY <1>6 DEF Paths
<1> HIDE DEF q
<1>8. FullBlocks(mfat', data', p, k, cmd.file)
  <2>1. SectPerBlock \in 0 .. SectPerBlock
    BY Geometry
  <2>2. /\ \A c \in Blocks : c # block => mfat'[c] = mfat[c]
        /\ FullBlocks(mfat, data, p, k, cmd.file) /\ p[k] = block
    BY <1>2, <1>5 DEF FilledSoFar
  <2> QED
    BY <1>t, <1>1, <1>3, <2>1, <2>2, PathKept
<1>9. NextSector = k * SectPerBlock + 1
  BY <1>1, <1>2, RankOfBlock DEF FilledSoFar
<1>10. Laid(data', p, k, SectPerBlock, cmd.file)
  <2>1. PICK m \in Nat : m = k * SectPerBlock
    BY Geometry, Product
  <2>2. \A s \in 0 .. SectPerBlock - 1 :
           data'[block * SectPerBlock + s] = <<cmd.file, m + 1 + s>>
    BY <1>t, <1>1, <1>9, <2>1, SectorsLaid, Geometry
  <2>3. p[k] = block /\ \A s \in 0 .. SectPerBlock - 1 : m + 1 + s = m + s + 1
    BY <1>2 DEF FilledSoFar
  <2> QED
    BY <2>1, <2>2, <2>3 DEF Laid
<1>11. FullBlocks(mfat', data', q, k + 1, cmd.file)
  <2>1. ASSUME NEW j \in 0 .. k
        PROVE  p[j] \in Blocks /\ mfat'[p[j]] = q[j + 1] /\ Laid(data', p, j, SectPerBlock, cmd.file)
    <3>1. CASE j = k
      BY <1>1, <1>2, <1>5, <1>7, <1>10, <3>1 DEF FilledSoFar
    <3>2. CASE j # k
      <4>1. j \in 0 .. k - 1 /\ j + 1 \in 0 .. k
        BY <3>2
      <4> QED
        BY <1>7, <1>8, <4>1 DEF FullBlocks, Links
    <3> QED
      BY <3>1, <3>2
  <2>2. Links(mfat', q, k + 1)
    BY <1>7, <2>1 DEF Links
  <2>3. \A j \in 0 .. k : Laid(data', q, j, SectPerBlock, cmd.file)
    BY <1>7, <2>1 DEF Laid
  <2> QED
    BY <2>2, <2>3 DEF FullBlocks
<1>12. Size[cmd.file] = (k + 1) * TO_BLOCKSIZE + left'
  <2>1. PICK m \in Nat, d \in Nat : d = TO_BLOCKSIZE /\ m = k * TO_BLOCKSIZE
    BY Geometry, Product
  <2>2. (k + 1) * d = k * d + d
    OBVIOUS
  <2> QED
    BY <1>1, <1>2, <2>1, <2>2 DEF FilledSoFar
<1>13. (k + 1) + get_dskf(mfat') =< TO_FILESIZE_MAX
  <2>1. block' % 256 # TO_TAG_FREE
    <3>1. TO_TAG_FREE \notin Blocks
      BY Geometry DEF Blocks, TO_TAG_FREE
    <3> QED
      BY <1>5, <3>1
  <2>2. get_dskf(mfat') = get_dskf(mfat) - 1
    BY <1>t, <1>1, <1>3, <1>5, <2>1, OneLessFree, ZenonT(40) DEF TypeOK
  <2>3. get_dskf(mfat) \in Nat /\ k + get_dskf(mfat) =< TO_FILESIZE_MAX
    BY <1>2, FreeFinite DEF FilledSoFar
  <2> QED
    BY <2>2, <2>3, Geometry
<1>14. FilledSoFar(q, k + 1)'
  BY <1>1, <1>2, <1>7, <1>11, <1>12, <1>13 DEF FilledSoFar
<1> QED
  BY <1>1, <1>4, <1>5, <1>7, <1>14, Geometry

\* The last block ends the file, and the entry says where it starts and ends.
LEMMA LastToFill ==
    ASSUME FillInv, FillTail
    PROVE  Filled'
<1> DEFINE full == (left - 1) \div SectSize
<1>t. TypeOK /\ RequestOK
  BY DEF FillInv, Basics, TypeInv
<1>1. /\ pc = "fill" /\ block \in Blocks /\ n \in Entries /\ n' = n /\ cmd' = cmd
      /\ left \in Nat /\ left =< TO_BLOCKSIZE /\ cmd.file \in HostFiles
      /\ data' = WriteSectors(block, full + 1, NextSector)
  BY <1>t DEF FillTail, TypeOK, RequestOK
<1>2. mfat[block] = TO_TAG_FREE /\ left > 0
  BY <1>1 DEF FillInv, Filling
<1>3. PICK p \in Paths, k \in Nat : FilledSoFar(p, k)
  BY <1>1 DEF FillInv, Filling
<1>4. /\ mdir'[n].name = EntryName[cmd.file] /\ mdir'[n].first = head
      /\ mdir'[n].end = left - full * SectSize
  BY <1>t, <1>1 DEF FillTail, TypeOK
<1>5. \A c \in Blocks :
         mfat'[c] = IF c = block THEN TO_END_BLOCK_OFFSET + 1 + full ELSE mfat[c]
  BY <1>t, <1>1 DEF FillTail, TypeOK
<1>6. full \in 0 .. SectPerBlock - 1 /\ left - full * SectSize \in 1 .. SectSize
  <2>1. full \in -1 .. SectPerBlock - 1
    BY <1>1, TailSectors
  <2>2. /\ SectSize * full =< left - 1 /\ left - 1 < SectSize * full + SectSize
        /\ SectSize \in Nat \ {0} /\ left - 1 \in Nat
    <3>1. PICK x \in Nat : x = left - 1
      BY <1>1, <1>2
    <3>2. /\ SectSize * (x \div SectSize) =< x
          /\ x < SectSize * (x \div SectSize) + SectSize
      BY Geometry, Quotient
    <3> QED
      BY <3>1, <3>2, Geometry
  <2> HIDE DEF full
  <2>3. full * SectSize = SectSize * full /\ SectSize * full \in Int /\ SectSize * (-1) = -SectSize
    BY <2>1, <2>2, Geometry
  <2>4. full # -1
    BY <2>2, <2>3
  <2>5. full \in 0 .. SectPerBlock - 1
    BY <2>1, <2>4, Geometry
  <2>6. left - full * SectSize \in 1 .. SectSize
    BY <1>1, <2>2, <2>3
  <2> QED
    BY <2>5, <2>6
<1>7. NextSector = k * SectPerBlock + 1
  BY <1>1, <1>3, RankOfBlock DEF FilledSoFar
<1> HIDE DEF full
<1>8. full + 1 \in 0 .. SectPerBlock
  BY <1>6, Geometry
<1>9. FullBlocks(mfat', data', p, k, cmd.file)
  BY <1>t, <1>1, <1>2, <1>3, <1>5, <1>8, PathKept DEF FilledSoFar
<1>10. Laid(data', p, k, full + 1, cmd.file)
  <2>1. PICK m \in Nat : m = k * SectPerBlock
    BY Geometry, Product
  <2>2. \A s \in 0 .. (full + 1) - 1 :
           data'[block * SectPerBlock + s] = <<cmd.file, m + 1 + s>>
    BY <1>t, <1>1, <1>7, <1>8, <2>1, SectorsLaid
  <2>3. p[k] = block /\ \A s \in 0 .. (full + 1) - 1 : m + 1 + s = m + s + 1
    BY <1>3, <1>6 DEF FilledSoFar
  <2> QED
    BY <2>1, <2>2, <2>3 DEF Laid
<1>11. Size[cmd.file] = (k * SectPerBlock + full) * SectSize + (left - full * SectSize)
  <2>1. PICK a \in Nat, u \in Nat, d \in Nat : a = k * SectPerBlock /\ u = full /\ d = SectSize
    BY <1>6, Geometry, Product
  <2>2. k * TO_BLOCKSIZE = a * d
    BY <2>1, Geometry DEF TO_BLOCKSIZE
  <2>3. PICK x \in Nat, y \in Nat : x = a * d /\ y = u * d
    BY Product
  <2>4. (a + u) * d = x + y
    BY <2>3
  <2>5. Size[cmd.file] = x + left
    BY <1>3, <2>2, <2>3 DEF FilledSoFar
  <2>6. x + left = (x + y) + (left - y)
    BY <1>1
  <2> QED
    BY <2>1, <2>3, <2>4, <2>5, <2>6
<1>12. k \in 0 .. TO_FILESIZE_MAX
  BY <1>3, FreeFinite, Geometry DEF FilledSoFar
<1>13. FileAt(mfat', data', mdir'[n].first, mdir'[n].end, cmd.file, p, k, full)
  <2>1. p[0] = head /\ p[k] = block
    BY <1>3 DEF FilledSoFar
  <2> QED
    BY <1>1, <1>4, <1>5, <1>6, <1>9, <1>10, <1>11, <2>1 DEF FileAt
<1>14. Holds(mfat', data', mdir'[n].first, mdir'[n].end, cmd.file)
  BY <1>6, <1>12, <1>13 DEF Holds
<1> QED
  BY <1>1, <1>4, <1>14 DEF Filled

LEMMA FillInit == Init => FillInv
BY BasicsInit, AsideInit, RequestInit DEF FillInv, Filling, Filled, Init

LEMMA FillNext == FillInv /\ [Next]_vars => FillInv'
<1> SUFFICES ASSUME FillInv, [Next]_vars PROVE FillInv'
  OBVIOUS
<1>1. Basics' /\ NoneReserved' /\ Request'
  BY BasicsNext, AsideNext, RequestNext DEF FillInv
<1> SUFFICES Filling' /\ Filled'
  BY <1>1 DEF FillInv
<1>2. ASSUME pc' \notin {"fill", "save"} PROVE Filling' /\ Filled'
  BY <1>2 DEF Filling, Filled
<1>3. RequestOK
  BY DEF FillInv, Basics, TypeInv
<1>4. CASE Call
  BY <1>2, <1>4 DEF Call, AddNoFile, AddEmptyFile, AddDirFull, AddFile, DeleteFile,
                    ExtractFile, ForEachFile, Refuse, Return
<1>5. CASE SizeStep \/ AddTooBig \/ CheckStep \/ DeleteStep
  BY <1>2, <1>5 DEF SizeStep, AddTooBig, CheckStep, DeleteStep, StartDelete, Refuse, Return
<1>6. CASE AllocFirst
  <2>1. pc' = "fill"
    BY <1>6 DEF AllocFirst
  <2> QED
    BY <1>6, <2>1, FirstToFill DEF Filled
<1>7. CASE FillBlock
  <2>1. pc' = "fill"
    BY <1>7 DEF FillBlock
  <2> QED
    BY <1>7, <2>1, NextToFill DEF Filled
<1>8. CASE FillTail
  <2>1. pc' = "save"
    BY <1>8 DEF FillTail, StartSave
  <2> QED
    BY <1>8, <2>1, LastToFill DEF Filling
<1>9. CASE SaveSector
  <2>1. CASE pc' = "idle"
    BY <1>2, <2>1
  <2>2. CASE pc' # "idle"
    <3>1. pc = "save" /\ UNCHANGED <<pc, cmd, n, mfat, mdir, data>>
      BY <1>9, <2>2 DEF SaveSector, Return, buffer
    <3> QED
      BY <3>1 DEF FillInv, Filling, Filled
  <2> QED
    BY <2>1, <2>2
<1>10. CASE DeleteDone \/ SeekEnd
  <2>1. pc' # "fill" /\ (pc' = "save" => cmd.op = "delete" /\ cmd' = cmd)
    BY <1>10 DEF DeleteDone, SeekEnd, StartSave, Return
  <2> QED
    BY <2>1 DEF Filling, Filled
<1>11. CASE SeekDelete \/ SeekExtract \/ ExtractNoPerm \/ ReadBlock \/ ReadTail
  BY <1>2, <1>11 DEF SeekDelete, SeekExtract, ExtractNoPerm, ReadBlock, ReadTail,
                     StartDelete, Return
<1>12. CASE UNCHANGED vars
  BY <1>12 DEF FillInv, Filling, Filled, FilledSoFar, vars, archive, buffer, locals
<1> QED
  BY <1>4, <1>5, <1>6, <1>7, <1>8, <1>9, <1>10, <1>11, <1>12 DEF Next, Step
=============================================================================
