--------------------------- MODULE TrackDiskProofs ---------------------------
(***************************************************************************)
(* A demo loads the file that it asks for, for every size of a sector,     *)
(* every number of tracks, every list of files that leaves the boot room   *)
(* for its loader, and every order in which the demo loads them.           *)
(***************************************************************************)
EXTENDS TrackDisk, TLAPS, WellFoundedInduction

(***************************************************************************)
(* The inductive invariant.                                                *)
(***************************************************************************)
Byte   == Int \X Int
Record == [file : Nat, exec : BOOLEAN, nsec : Nat, track : Nat, sect : Nat,
           sizea : Nat, offsa : Nat, sizez : Nat]
Modes  == {"diskto", "boot", "booted", "first", "sectors", "loaded", "error"}

\* What the entries before n and n itself take of the list.
Upto(s, n) == SizeOfList(SubSeq(s, 1, n))

\* The first byte behind the loader and its list.
Behind == files[1].size + list_size

DiskTypeOK ==
    /\ files \in Lists /\ entry \in 1 .. Len(files) + 1 /\ pos \in Nat
    /\ buffer \in [0 .. DISK_SIZE - 1 -> Byte]
    /\ list \in Seq(Record) /\ booted \in Seq(Byte) /\ mode \in Modes
    /\ tries \in Nat

\* Where the file of an entry is, and what the entry says of it.
Place(e) == (e.track * NSECTS + e.sect) * SECTOR_SIZE + e.offsa
SizeOf(e) == files[e.file].size

EntryOK(e) ==
    /\ e.file \in 2 .. Len(files) /\ SizeOf(e) > 0 /\ e.exec = files[e.file].exec
    /\ e.sect < NSECTS /\ e.offsa < SECTOR_SIZE
    /\ Behind =< Place(e) /\ Place(e) + SizeOf(e) =< pos
    /\ e.nsec = (e.offsa + SizeOf(e) + SECTOR_SIZE - 1) \div SECTOR_SIZE
    /\ e.sizea = SizeA(e.offsa, SizeOf(e))
    /\ e.sizez = (Place(e) + SizeOf(e)) % SECTOR_SIZE

\* What is in the buffer: the loader, the entries behind it, the files.
LoaderThere == \A p \in 0 .. files[1].size - 1 : buffer[p] = FileByte(1, p)
EntryThere(n) ==
    \A j \in 0 .. EntrySize(list[n]) - 1 :
        buffer[files[1].size + Upto(list, n - 1) + j] = ListByte(n, j)
FileThere(e) ==
    \A j \in 0 .. SizeOf(e) - 1 : buffer[Place(e) + j] = FileByte(e.file, j)

LaidInv ==
    /\ entry = 1 => mode = "diskto" /\ list = <<>>
    /\ entry # 1 =>
          /\ secnbr = (Behind - 1) \div SECTOR_SIZE
          /\ Behind =< pos /\ pos =< DISK_SIZE
          /\ SizeOfList(list) + P_SIZEOF =< Upto(files, entry - 1)
          /\ LoaderThere
          /\ \A n \in DOMAIN list : EntryOK(list[n]) /\ EntryThere(n) /\ FileThere(list[n])

\* Once the disk is made, each sector is where the loader looks for it.
MadeInv ==
    mode # "diskto" =>
        /\ entry = Len(files) + 1
        /\ \A t \in 0 .. Tracks - 1, s \in 0 .. NSECTS - 1 :
              disk[t][NumberOf(t, s)] = t * NSECTS + s

\* What the boot has loaded is the beginning of the disk.
BootInv ==
    /\ mode = "diskto" => booted = <<>>
    /\ mode = "boot" => \E b \in 0 .. secnbr : Len(booted) = b * SECTOR_SIZE
    /\ mode \in {"booted", "first", "sectors", "loaded"} =>
          Len(booted) = (secnbr + 1) * SECTOR_SIZE
    /\ mode \in {"boot", "booted", "first", "sectors", "loaded"} =>
          \A i \in 1 .. Len(booted) : booted[i] = buffer[i - 1]

\* y bytes of the file are loaded, nsect sectors have the others.
LoadInv ==
    /\ mode \in {"first", "sectors", "loaded"} =>
          /\ cur \in DOMAIN list /\ track \in Nat /\ sector \in 0 .. NSECTS - 1
          /\ nsect \in Nat /\ y \in 0 .. SizeOf(list[cur])
          /\ mem = [j \in 0 .. y - 1 |-> FileByte(list[cur].file, j)]
    /\ mode = "first" =>
          /\ y = 0 /\ list[cur].sizea # 0 /\ nsect = list[cur].nsec
          /\ track = list[cur].track /\ sector = list[cur].sect
    /\ mode = "sectors" =>
          /\ SizeOf(list[cur]) - y =< nsect * SECTOR_SIZE
          /\ SizeOf(list[cur]) - y > (nsect - 1) * SECTOR_SIZE
          /\ nsect > 0 => (track * NSECTS + sector) * SECTOR_SIZE = Place(list[cur]) + y
    /\ mode = "loaded" => y = SizeOf(list[cur]) /\ jumped = list[cur].exec

DiskInv == DiskTypeOK /\ LaidInv /\ MadeInv /\ BootInv /\ LoadInv

-----------------------------------------------------------------------------
(***************************************************************************)
(* Sums of sizes.  The recursive function of SizeOfList exists since each  *)
(* beginning of it does.                                                   *)
(***************************************************************************)
LEMMA EveryNumber ==
    ASSUME NEW S \in SUBSET Nat, 0 \in S, \A k \in S : k + 1 \in S
    PROVE  \A k \in Nat : k \in S
  <1> SUFFICES ASSUME Nat \ S # {} PROVE FALSE
    OBVIOUS
  <1>1. PICK x \in Nat \ S : \A z \in Nat \ S : ~ (<<z, x>> \in OpToRel(<, Nat))
    BY NatLessThanWellFounded, WFMin
  <1>2. x # 0 /\ x \in Nat
    OBVIOUS
  <1>3. x - 1 \in Nat /\ x - 1 < x /\ (x - 1) + 1 = x
    BY <1>2
  <1>4. x - 1 \in S
    BY <1>1, <1>2, <1>3 DEF OpToRel
  <1> QED
    BY <1>3, <1>4

LEMMA Sizes ==
    /\ SECTOR_SIZE \in Nat \ {0} /\ Tracks \in Nat \ {0} /\ P_SIZEOF \in Nat \ {0}
    /\ EXEC \in Nat \ {0} /\ NSECTS = 16
    /\ \A e : EntrySize(e) \in Nat \ {0}
  <1>1. /\ SECTOR_SIZE \in Nat \ {0} /\ Tracks \in Nat \ {0} /\ P_SIZEOF \in Nat \ {0}
        /\ EXEC \in Nat \ {0} /\ NSECTS = 16
    BY TrackDiskAssumption DEF NSECTS
  <1>2. ASSUME NEW e PROVE EntrySize(e) \in Nat \ {0}
    <2>1. CASE e.exec
      BY <1>1, <2>1 DEF EntrySize
    <2>2. CASE ~e.exec
      BY <1>1, <2>2 DEF EntrySize
    <2> QED
      BY <2>1, <2>2
  <1> QED
    BY <1>1, <1>2

IsSum(g, s) == g = [n \in 0 .. Len(s) |-> IF n = 0 THEN 0 ELSE g[n - 1] + EntrySize(s[n])]
SumOf(s) == CHOOSE g : IsSum(g, s)

LEMMA SizeIsSum ==
    ASSUME NEW s
    PROVE  SizeOfList(s) = SumOf(s)[Len(s)]
  BY DEF SizeOfList, SumOf, IsSum

LEMMA SumExists ==
    ASSUME NEW s, Len(s) \in Nat
    PROVE  IsSum(SumOf(s), s)
  <1> DEFINE Ok(k, g) == g[0] = 0 /\ \A i \in 1 .. k : g[i] = g[i - 1] + EntrySize(s[i])
             K == {k \in Nat : \E g \in [0 .. k -> Nat] : Ok(k, g)}
  <1>1. 0 \in K
    <2> DEFINE g == [i \in 0 .. 0 |-> 0]
    <2>1. g \in [0 .. 0 -> Nat] /\ Ok(0, g)
      OBVIOUS
    <2> HIDE DEF g, Ok
    <2> QED
      BY <2>1
  <1>2. ASSUME NEW k \in K PROVE k + 1 \in K
    <2>1. PICK g \in [0 .. k -> Nat] : Ok(k, g)
      OBVIOUS
    <2> DEFINE h == [i \in 0 .. k + 1 |-> IF i = k + 1 THEN g[k] + EntrySize(s[k + 1]) ELSE g[i]]
    <2>2. h \in [0 .. k + 1 -> Nat]
      BY <2>1, Sizes
    <2>3. \A i \in 0 .. k : h[i] = g[i]
      OBVIOUS
    <2>4. h[k + 1] = g[k] + EntrySize(s[k + 1])
      OBVIOUS
    <2> HIDE DEF h
    <2>5. Ok(k + 1, h)
      BY SMTT(30), <2>1, <2>3, <2>4
    <2> HIDE DEF Ok
    <2>6. k + 1 \in Nat
      OBVIOUS
    <2>7. \E f \in [0 .. k + 1 -> Nat] : Ok(k + 1, f)
      BY <2>2, <2>5, Zenon
    <2> QED
      BY <2>6, <2>7
  <1>3. Len(s) \in K
    <2>1. K \in SUBSET Nat
      OBVIOUS
    <2> HIDE DEF K
    <2> QED
      BY <1>1, <1>2, <2>1, EveryNumber
  <1>4. PICK g \in [0 .. Len(s) -> Nat] : Ok(Len(s), g)
    BY <1>3
  <1>5. IsSum(g, s)
    BY <1>4 DEF IsSum
  <1> QED
    BY <1>5 DEF SumOf

\* What a sum does not see, it does not depend on.
LEMMA SumsAgree ==
    ASSUME NEW s, NEW t, Len(s) \in Nat, Len(t) \in Nat, NEW m \in Nat,
           m =< Len(s), m =< Len(t), \A i \in 1 .. m : s[i] = t[i]
    PROVE  \A n \in 0 .. m : SumOf(s)[n] = SumOf(t)[n] /\ SumOf(s)[n] \in Nat
  <1> DEFINE g == SumOf(s)
             h == SumOf(t)
             K == {k \in Nat : k =< m => g[k] = h[k] /\ g[k] \in Nat}
  <1>1. /\ g = [n \in 0 .. Len(s) |-> IF n = 0 THEN 0 ELSE g[n - 1] + EntrySize(s[n])]
        /\ h = [n \in 0 .. Len(t) |-> IF n = 0 THEN 0 ELSE h[n - 1] + EntrySize(t[n])]
    BY SumExists DEF IsSum
  <1> HIDE DEF g, h
  <1>2. g[0] = 0 /\ h[0] = 0
    BY <1>1
  <1>3. \A n \in 1 .. m : g[n] = g[n - 1] + EntrySize(s[n]) /\ h[n] = h[n - 1] + EntrySize(t[n])
    <2> TAKE n \in 1 .. m
    <2>1. n \in 0 .. Len(s) /\ n \in 0 .. Len(t) /\ n # 0
      OBVIOUS
    <2> QED
      BY <1>1, <2>1
  <1>4. 0 \in K
    BY <1>2
  <1>5. ASSUME NEW k \in K PROVE k + 1 \in K
    BY <1>3, Sizes
  <1>6. \A k \in Nat : k \in K
    <2>1. K \in SUBSET Nat
      OBVIOUS
    <2> HIDE DEF K
    <2> QED
      BY <1>4, <1>5, <2>1, EveryNumber
  <1> QED
    BY <1>6 DEF g, h

LEMMA UptoIsSum ==
    ASSUME NEW X, NEW s \in Seq(X), NEW n \in 0 .. Len(s)
    PROVE  Upto(s, n) = SumOf(s)[n] /\ Upto(s, n) \in Nat
  <1> DEFINE t == SubSeq(s, 1, n)
  <1>1. /\ Len(t) = n /\ Len(s) \in Nat /\ n \in Nat /\ n =< Len(s) /\ n =< n
        /\ \A i \in 1 .. n : t[i] = s[i]
    OBVIOUS
  <1> HIDE DEF t
  <1>2. \A k \in 0 .. n : SumOf(t)[k] = SumOf(s)[k] /\ SumOf(t)[k] \in Nat
    BY <1>1, SumsAgree
  <1>3. SumOf(t)[n] = SumOf(s)[n] /\ SumOf(t)[n] \in Nat
    BY <1>1, <1>2
  <1> QED
    BY <1>1, <1>3, SizeIsSum DEF Upto, t

\* The beginnings of a list.
LEMMA Beginnings ==
    ASSUME NEW X, NEW s \in Seq(X)
    PROVE  /\ Upto(s, 0) = 0
           /\ \A n \in 1 .. Len(s) : Upto(s, n) = Upto(s, n - 1) + EntrySize(s[n])
           /\ \A n \in 0 .. Len(s) : Upto(s, n) \in Nat
           /\ Upto(s, Len(s)) = SizeOfList(s)
  <1>1. Len(s) \in Nat
    OBVIOUS
  <1>2. \A n \in 0 .. Len(s) : Upto(s, n) = SumOf(s)[n] /\ Upto(s, n) \in Nat
    BY UptoIsSum
  <1> DEFINE g == SumOf(s)
  <1>3. g = [n \in 0 .. Len(s) |-> IF n = 0 THEN 0 ELSE g[n - 1] + EntrySize(s[n])]
    BY <1>1, SumExists DEF IsSum
  <1> HIDE DEF g
  <1>4. g[0] = 0 /\ \A n \in 1 .. Len(s) : g[n] = g[n - 1] + EntrySize(s[n])
    BY <1>1, <1>3
  <1>5. SizeOfList(s) = g[Len(s)]
    BY SizeIsSum DEF g
  <1> QED
    BY <1>1, <1>2, <1>4, <1>5 DEF g

LEMMA BeginningsGrow ==
    ASSUME NEW X, NEW s \in Seq(X), NEW m \in 0 .. Len(s), NEW n \in m .. Len(s)
    PROVE  Upto(s, m) =< Upto(s, n)
  <1> DEFINE K == {k \in Nat : m + k =< Len(s) => Upto(s, m) =< Upto(s, m + k)}
  <1>1. Len(s) \in Nat /\ m \in Nat
    OBVIOUS
  <1>2. /\ \A k \in 1 .. Len(s) : Upto(s, k) = Upto(s, k - 1) + EntrySize(s[k])
        /\ \A k \in 0 .. Len(s) : Upto(s, k) \in Nat
    BY Beginnings
  <1>3. 0 \in K
    BY <1>1, <1>2
  <1>4. ASSUME NEW k \in K PROVE k + 1 \in K
    <2> SUFFICES ASSUME m + (k + 1) =< Len(s) PROVE Upto(s, m) =< Upto(s, m + (k + 1))
      OBVIOUS
    <2> DEFINE j == m + (k + 1)
    <2>1. j \in 1 .. Len(s) /\ j - 1 = m + k /\ m + k =< Len(s) /\ m + k \in 0 .. Len(s)
      BY <1>1
    <2>2. Upto(s, j) = Upto(s, m + k) + EntrySize(s[j]) /\ EntrySize(s[j]) \in Nat
      BY <1>2, <2>1, Sizes
    <2>3. Upto(s, m) =< Upto(s, m + k)
      BY <2>1
    <2>4. Upto(s, m) \in Nat /\ Upto(s, m + k) \in Nat
      BY <1>2, <2>1
    <2> HIDE DEF j
    <2>5. Upto(s, m) =< Upto(s, j)
      BY <2>2, <2>3, <2>4
    <2> QED
      BY <2>5 DEF j
  <1>5. n - m \in K
    <2>1. K \in SUBSET Nat /\ n - m \in Nat
      BY <1>1
    <2> HIDE DEF K
    <2> QED
      BY <1>3, <1>4, <2>1, EveryNumber
  <1>6. m + (n - m) = n
    BY <1>1
  <1> QED
    BY <1>5, <1>6

LEMMA BeginningsStay ==
    ASSUME NEW X, NEW s \in Seq(X), NEW e \in X, NEW n \in 0 .. Len(s)
    PROVE  Upto(Append(s, e), n) = Upto(s, n)
  <1> DEFINE t == Append(s, e)
  <1>1. t \in Seq(X) /\ Len(t) = Len(s) + 1 /\ Len(s) \in Nat /\ \A i \in 1 .. n : s[i] = t[i]
    OBVIOUS
  <1> HIDE DEF t
  <1>2. Upto(s, n) = SumOf(s)[n] /\ Upto(t, n) = SumOf(t)[n]
    BY <1>1, UptoIsSum
  <1>3. SumOf(s)[n] = SumOf(t)[n]
    BY <1>1, SumsAgree
  <1> QED
    BY <1>2, <1>3 DEF t

-----------------------------------------------------------------------------
(***************************************************************************)
(* The lists, and the order of the sectors.                                *)
(***************************************************************************)
File == [size : Nat, exec : BOOLEAN]

\* The boot has room for the loader and its list.
LEMMA ListFacts ==
    ASSUME files \in Lists
    PROVE  /\ files \in Seq(File) /\ Len(files) \in Nat \ {0}
           /\ \A k \in 1 .. Len(files) : files[k].size \in Nat /\ files[k].exec \in BOOLEAN
           /\ Upto(files, 1) = P_SIZEOF
           /\ files[1].size > SECTOR_SIZE /\ Behind \in Nat /\ files[1].size =< Behind
           /\ Behind =< NSECTS * SECTOR_SIZE
           /\ Behind = files[1].size + SizeOfList(files) - P_SIZEOF
           /\ NSECTS * SECTOR_SIZE =< DISK_SIZE /\ DISK_SIZE \in Nat
  <1>1. /\ files \in Seq(File) /\ files # <<>> /\ ~files[1].exec /\ files[1].size > SECTOR_SIZE
        /\ files[1].size + SizeOfList(files) - P_SIZEOF =< NSECTS * SECTOR_SIZE
    BY TrackDiskAssumption DEF File
  <1>2. Len(files) \in Nat \ {0} /\ \A k \in 1 .. Len(files) : files[k] \in File
    BY <1>1
  <1>3. \A k \in 1 .. Len(files) : files[k].size \in Nat /\ files[k].exec \in BOOLEAN
    BY <1>2 DEF File
  <1>4. EntrySize(files[1]) = P_SIZEOF
    BY <1>1, Sizes DEF EntrySize
  <1>5. /\ Upto(files, 0) = 0 /\ Upto(files, 1) = Upto(files, 1 - 1) + EntrySize(files[1])
        /\ Upto(files, Len(files)) = SizeOfList(files)
        /\ Upto(files, Len(files)) \in Nat
    BY <1>1, <1>2, Beginnings
  <1>6. Upto(files, 1) = P_SIZEOF
    BY <1>4, <1>5, Sizes
  <1>7. Upto(files, 1) =< Upto(files, Len(files))
    BY <1>1, <1>2, BeginningsGrow
  <1>8. /\ Behind \in Nat /\ files[1].size =< Behind
        /\ Behind = files[1].size + SizeOfList(files) - P_SIZEOF
    BY <1>2, <1>3, <1>5, <1>6, <1>7, Sizes DEF Behind, list_size
  <1>9. \A a \in Nat, b \in Nat \ {0} : a =< a * b /\ a * b \in Nat
    BY Z3
  <1>10. NSECTS * SECTOR_SIZE =< DISK_SIZE /\ DISK_SIZE \in Nat
    BY <1>9, Sizes DEF DISK_SIZE
  <1> QED
    BY <1>1, <1>2, <1>3, <1>6, <1>8, <1>10

\* A place on a track has a number of its own.
LEMMA NumberOneToOne ==
    ASSUME NEW t \in Nat, NEW a \in 0 .. NSECTS - 1, NEW b \in 0 .. NSECTS - 1
    PROVE  /\ NumberOf(t, a) \in 1 .. NSECTS
           /\ NumberOf(t, a) = NumberOf(t, b) => a = b
  <1> DEFINE o == (2 * t) % 8
             i == (o + a) % 16
             j == (o + b) % 16
  <1>1. o \in 0 .. 7 /\ a \in 0 .. 15 /\ b \in 0 .. 15
    BY Sizes
  <1> HIDE DEF o
  <1>2. i \in 0 .. 15 /\ j \in 0 .. 15 /\ (i = j => a = b)
    BY <1>1
  <1>3. NumberOf(t, a) = sector_list[i + 1] /\ NumberOf(t, b) = sector_list[j + 1]
    BY Sizes DEF NumberOf, o
  <1> HIDE DEF i, j
  <1>4. \A p, q \in 1 .. 16 : sector_list[p] \in 1 .. 16 /\ (sector_list[p] = sector_list[q] => p = q)
    BY DEF sector_list
  <1> QED
    BY <1>2, <1>3, <1>4, Sizes

LEMMA DiskInit == TrackDiskInit => DiskInv
  <1> SUFFICES ASSUME TrackDiskInit PROVE DiskInv
    OBVIOUS
  <1>1. /\ files \in Lists /\ entry = 1 /\ pos = 0 /\ secnbr = 0 /\ list = <<>>
        /\ buffer = [p \in 0 .. DISK_SIZE - 1 |-> Filler]
        /\ mode = "diskto" /\ booted = <<>> /\ tries = 0
    BY DEF TrackDiskInit
  <1>2. DiskTypeOK
    <2>1. buffer \in [0 .. DISK_SIZE - 1 -> Byte]
      BY <1>1 DEF Filler, Byte
    <2> QED
      BY <1>1, <2>1, ListFacts DEF DiskTypeOK, Modes
  <1>3. BootInv
    BY <1>1 DEF BootInv
  <1> QED
    BY <1>1, <1>2, <1>3 DEF DiskInv, LaidInv, MadeInv, LoadInv

-----------------------------------------------------------------------------
(***************************************************************************)
(* diskto.c.                                                               *)
(***************************************************************************)
LEMMA LayLoaderStep == DiskInv /\ LayLoader => DiskInv'
  <1> SUFFICES ASSUME DiskInv, LayLoader PROVE DiskInv'
    OBVIOUS
  <1>1. /\ mode = "diskto" /\ entry = 1 /\ entry' = 2 /\ list = <<>>
        /\ buffer' = [p \in DOMAIN buffer |-> IF p < files[1].size THEN FileByte(1, p) ELSE Filler]
        /\ pos' = Behind /\ secnbr' = (pos' - 1) \div SECTOR_SIZE
        /\ UNCHANGED <<files, list, disk, mode, booted, loading, tries>>
    BY DEF LayLoader, DiskInv, LaidInv, Behind
  <1>2. /\ files \in Lists /\ buffer \in [0 .. DISK_SIZE - 1 -> Byte] /\ entry' \in 1 .. Len(files) + 1
        /\ list \in Seq(Record) /\ booted \in Seq(Byte) /\ mode \in Modes /\ tries \in Nat
    BY <1>1, ListFacts DEF DiskInv, DiskTypeOK
  <1>3. buffer' \in [0 .. DISK_SIZE - 1 -> Byte]
    BY <1>1, <1>2, ListFacts, SMTT(30) DEF FileByte, Filler, Byte
  <1>4. DiskTypeOK'
    BY <1>1, <1>2, <1>3, ListFacts DEF DiskTypeOK
  <1>5. Behind' = Behind
    BY <1>1 DEF Behind, list_size
  <1>6. LoaderThere'
    <2>0. files[1].size \in Nat /\ files[1].size =< DISK_SIZE /\ DISK_SIZE \in Nat
      BY <1>2, ListFacts, Sizes, SMTT(30)
    <2>1. \A p \in 0 .. files[1].size - 1 : p \in DOMAIN buffer /\ p < files[1].size
      BY <1>2, <2>0
    <2>2. \A p \in 0 .. files[1].size - 1 : buffer'[p] = FileByte(1, p)
      BY <1>1, <2>1
    <2> QED
      BY <1>1, <2>2 DEF LoaderThere
  <1>7. SizeOfList(list) = 0
    BY <1>1, Beginnings, <1>2
  <1>8. LaidInv'
    <2>1. entry' - 1 = 1 /\ (SizeOfList(list) + P_SIZEOF =< Upto(files, 1))
      BY <1>1, <1>2, <1>7, ListFacts, Sizes
    <2>2. DOMAIN list = {}
      BY <1>1
    <2>3. Behind =< DISK_SIZE /\ Behind \in Nat
      BY <1>2, ListFacts, Sizes
    <2> QED
      BY <1>1, <1>5, <1>6, <2>1, <2>2, <2>3 DEF LaidInv
  <1>9. BootInv'
    BY <1>1 DEF BootInv, DiskInv
  <1> QED
    BY <1>1, <1>4, <1>8, <1>9 DEF DiskInv, MadeInv, LoadInv

LEMMA Division ==
    ASSUME NEW a \in Int, NEW m \in Nat \ {0}
    PROVE  /\ a \div m \in Int /\ a % m \in 0 .. m - 1
           /\ a = m * (a \div m) + (a % m)
  OBVIOUS

LEMMA Quotient ==
    ASSUME NEW m \in Nat \ {0}, NEW q \in Int, NEW r \in 0 .. m - 1
    PROVE  (m * q + r) \div m = q /\ (m * q + r) % m = r
  BY Z3

\* An entry leads to the place it was made for.
LEMMA EntryPlace ==
    ASSUME NEW p \in Nat
    PROVE  LET t == p \div (NSECTS * SECTOR_SIZE)
               s == (p % (NSECTS * SECTOR_SIZE)) \div SECTOR_SIZE
           IN /\ t \in Nat /\ s \in 0 .. NSECTS - 1 /\ p % SECTOR_SIZE \in 0 .. SECTOR_SIZE - 1
              /\ (t * NSECTS + s) * SECTOR_SIZE + (p % SECTOR_SIZE) = p
  <1> DEFINE S == SECTOR_SIZE
             T == NSECTS * S
             t == p \div T
             b == p % T
             c == b \div S
             d == b % S
  <1>1. S \in Nat \ {0} /\ T \in Nat \ {0} /\ T = 16 * S /\ p \in Int
    BY Sizes
  <1> HIDE DEF S, T
  <1>2. t \in Int /\ b \in 0 .. T - 1 /\ p = T * t + b
    BY <1>1, Division
  <1> HIDE DEF t, b
  <1>3. c \in Int /\ d \in 0 .. S - 1 /\ b = S * c + d
    BY <1>1, <1>2, Division
  <1> HIDE DEF c, d
  <1>4. t >= 0
    <2> SUFFICES ASSUME t =< -1 PROVE FALSE
      BY <1>2
    <2>1. T * t =< -T
      BY <1>1, <1>2, Z3
    <2> QED
      BY <1>1, <1>2, <2>1
  <1>5. c >= 0
    <2> SUFFICES ASSUME c =< -1 PROVE FALSE
      BY <1>3
    <2>1. S * c =< -S
      BY <1>1, <1>3, Z3
    <2> QED
      BY <1>1, <1>2, <1>3, <2>1
  <1>6. c < 16
    <2> SUFFICES ASSUME c >= 16 PROVE FALSE
      BY <1>3
    <2>1. S * c >= S * 16
      BY <1>1, <1>3, Z3
    <2> QED
      BY <1>1, <1>2, <1>3, <2>1
  <1> DEFINE q == 16 * t + c
  <1>7. p = S * q + d /\ q \in Int
    BY <1>1, <1>2, <1>3
  <1>8. (t * 16 + c) * S + d = p
    BY <1>1, <1>2, <1>3, <1>7
  <1> HIDE DEF q
  <1>9. p % S = d
    BY <1>1, <1>3, <1>7, Quotient
  <1>10. NSECTS = 16
    BY Sizes
  <1> QED
    BY <1>2, <1>3, <1>4, <1>5, <1>6, <1>8, <1>9, <1>10 DEF S, T, t, b, c

\* The new entry.
LEMMA NewEntry ==
    ASSUME DiskTypeOK, NEW k \in 2 .. Len(files), files[k].size > 0,
           NEW e, e = Entry(k, files[k])
    PROVE  /\ e \in Record /\ Place(e) = pos /\ e.file = k
           /\ e.exec = files[k].exec /\ e.sect < NSECTS /\ e.offsa < SECTOR_SIZE
           /\ e.nsec = (e.offsa + files[k].size + SECTOR_SIZE - 1) \div SECTOR_SIZE
           /\ e.sizea = SizeA(e.offsa, files[k].size)
           /\ e.sizez = (pos + files[k].size) % SECTOR_SIZE
           /\ EntrySize(e) = EntrySize(files[k])
  <1> DEFINE z == files[k].size
             at == pos % SECTOR_SIZE
  <1>1. /\ pos \in Nat /\ z \in Nat /\ files[k].exec \in BOOLEAN /\ k \in Nat
        /\ SECTOR_SIZE \in Nat \ {0}
    BY ListFacts, Sizes DEF DiskTypeOK
  <1>2. /\ e.track \in Nat /\ e.sect \in 0 .. NSECTS - 1 /\ at \in 0 .. SECTOR_SIZE - 1
        /\ (e.track * NSECTS + e.sect) * SECTOR_SIZE + at = pos
    BY <1>1, EntryPlace DEF Entry
  <1>3. /\ e.file = k /\ e.exec = files[k].exec /\ e.offsa = at
        /\ e.nsec = (at + z + SECTOR_SIZE - 1) \div SECTOR_SIZE
        /\ e.sizea = SizeA(at, z) /\ e.sizez = (pos + z) % SECTOR_SIZE
    BY DEF Entry
  <1>4. e.nsec \in Nat
    <2> DEFINE x == at + z + SECTOR_SIZE - 1
    <2>1. x \in Nat
      BY SMTT(30), <1>1, <1>2
    <2> HIDE DEF x
    <2>2. x \div SECTOR_SIZE \in Nat
      BY <1>1, <2>1, Z3
    <2> QED
      BY <1>3, <2>2 DEF x
  <1>5. e.sizea \in Nat /\ e.sizez \in Nat
    <2>1. Least(z, SECTOR_SIZE - at) \in Int /\ pos + z \in Int
      BY <1>1, <1>2 DEF Least
    <2>2. \A a \in Int : a % SECTOR_SIZE \in Nat
      BY <1>1
    <2> QED
      BY <1>3, <2>1, <2>2 DEF SizeA
  <1>6. e.sect \in Nat /\ e.sect < NSECTS
    <2>1. \A i \in 0 .. NSECTS - 1 : i \in Nat /\ i < NSECTS
      BY Sizes
    <2> QED
      BY <1>2, <2>1, Zenon
  <1>7. e = [file |-> e.file, exec |-> e.exec, nsec |-> e.nsec, track |-> e.track, sect |-> e.sect,
             sizea |-> e.sizea, offsa |-> e.offsa, sizez |-> e.sizez]
    BY DEF Entry
  <1> HIDE DEF at
  <1>8. e \in Record
    <2>1. e.sect \in Nat /\ e.offsa \in Nat
      BY <1>1, <1>2, <1>3, <1>6 DEF at
    <2>2. e.file \in Nat /\ e.exec \in BOOLEAN
      BY <1>1, <1>3, Zenon
    <2> QED
      BY <1>2, <1>4, <1>5, <1>7, <2>1, <2>2, Zenon DEF Record
  <1>9. Place(e) = pos
    BY <1>2, <1>3 DEF Place
  <1>10. EntrySize(e) = EntrySize(files[k])
    BY <1>3 DEF EntrySize
  <1>11. e.offsa < SECTOR_SIZE
    BY <1>1, <1>2, <1>3
  <1> QED
    BY <1>3, <1>6, <1>8, <1>9, <1>10, <1>11, Zenon

\* What a file and its entry leave of the buffer, and what they put in it.
LEMMA NewBytes ==
    ASSUME NEW at \in Nat, NEW len \in Nat, NEW from \in Nat, NEW z \in Nat, NEW k, NEW n,
           at + len =< from, from + z =< DISK_SIZE, DISK_SIZE \in Nat,
           buffer \in [0 .. DISK_SIZE - 1 -> Byte],
           buffer' = [p \in DOMAIN buffer |->
                       IF p \in at .. at + len - 1 THEN ListByte(n, p - at)
                       ELSE IF p \in from .. from + z - 1 THEN FileByte(k, p - from)
                       ELSE buffer[p]]
    PROVE  /\ \A p \in Nat : p < from /\ (p < at \/ p >= at + len) => buffer'[p] = buffer[p]
           /\ \A j \in 0 .. len - 1 : buffer'[at + j] = ListByte(n, j)
           /\ \A j \in 0 .. z - 1 : buffer'[from + j] = FileByte(k, j)
  <1>1. \A p \in 0 .. DISK_SIZE - 1 :
           buffer'[p] = IF p \in at .. at + len - 1 THEN ListByte(n, p - at)
                        ELSE IF p \in from .. from + z - 1 THEN FileByte(k, p - from)
                        ELSE buffer[p]
    OBVIOUS
  <1>2. ASSUME NEW p \in Nat, p < from, p < at \/ p >= at + len PROVE buffer'[p] = buffer[p]
    <2>1. p \in 0 .. DISK_SIZE - 1 /\ p \notin at .. at + len - 1 /\ p \notin from .. from + z - 1
      BY <1>2
    <2> QED
      BY <1>1, <2>1, Zenon
  <1>3. ASSUME NEW j \in 0 .. len - 1 PROVE buffer'[at + j] = ListByte(n, j)
    <2>1. at + j \in 0 .. DISK_SIZE - 1 /\ at + j \in at .. at + len - 1 /\ (at + j) - at = j
      OBVIOUS
    <2> QED
      BY <1>1, <2>1, Zenon
  <1>4. ASSUME NEW j \in 0 .. z - 1 PROVE buffer'[from + j] = FileByte(k, j)
    <2>1. /\ from + j \in 0 .. DISK_SIZE - 1 /\ from + j \notin at .. at + len - 1
          /\ from + j \in from .. from + z - 1 /\ (from + j) - from = j
      OBVIOUS
    <2> QED
      BY <1>1, <2>1, Zenon
  <1> QED
    BY <1>2, <1>3, <1>4, Zenon

\* What holds of the disk and what is laid on it before the next file.
LEMMA BeforeFile ==
    ASSUME DiskInv, LayFile
    PROVE  /\ files \in Lists /\ mode = "diskto" /\ entry \in 2 .. Len(files) /\ entry' = entry + 1
           /\ secnbr = (Behind - 1) \div SECTOR_SIZE /\ Behind =< pos /\ pos =< DISK_SIZE
           /\ pos \in Nat /\ list \in Seq(Record)
           /\ buffer \in [0 .. DISK_SIZE - 1 -> Byte]
           /\ SizeOfList(list) + P_SIZEOF =< Upto(files, entry - 1) /\ LoaderThere
           /\ \A n \in DOMAIN list : EntryOK(list[n]) /\ EntryThere(n) /\ FileThere(list[n])
           /\ SizeOfList(list) \in Nat
           /\ Upto(files, entry) = Upto(files, entry - 1) + EntrySize(files[entry])
           /\ Upto(files, entry) =< SizeOfList(files)
           /\ Upto(files, entry - 1) \in Nat /\ Upto(files, entry) \in Nat
           /\ SizeOfList(files) \in Nat
  <1>1. /\ files \in Lists /\ mode = "diskto" /\ entry \in 2 .. Len(files) /\ entry' = entry + 1
        /\ pos \in Nat /\ list \in Seq(Record) /\ buffer \in [0 .. DISK_SIZE - 1 -> Byte]
    BY DEF LayFile, DiskInv, DiskTypeOK
  <1>2. /\ secnbr = (Behind - 1) \div SECTOR_SIZE /\ Behind =< pos /\ pos =< DISK_SIZE
        /\ SizeOfList(list) + P_SIZEOF =< Upto(files, entry - 1) /\ LoaderThere
        /\ \A n \in DOMAIN list : EntryOK(list[n]) /\ EntryThere(n) /\ FileThere(list[n])
    <2>1. entry # 1
      BY <1>1
    <2> QED
      BY <2>1 DEF DiskInv, LaidInv
  <1>3. SizeOfList(list) \in Nat
    BY <1>1, Beginnings
  <1>4. files \in Seq(File) /\ Len(files) \in Nat
    BY <1>1, ListFacts
  <1>5. /\ \A n \in 1 .. Len(files) : Upto(files, n) = Upto(files, n - 1) + EntrySize(files[n])
        /\ \A n \in 0 .. Len(files) : Upto(files, n) \in Nat
        /\ Upto(files, Len(files)) = SizeOfList(files)
    BY <1>4, Beginnings
  <1>6. entry \in 1 .. Len(files) /\ entry - 1 \in 0 .. Len(files) /\ entry \in 0 .. Len(files)
    BY <1>1, <1>4
  <1>7. Len(files) \in entry .. Len(files)
    BY <1>4, <1>6
  <1>8. Upto(files, entry) =< Upto(files, Len(files))
    BY <1>4, <1>6, <1>7, BeginningsGrow
  <1>9. Len(files) \in 0 .. Len(files)
    BY <1>4
  <1> QED
    BY <1>1, <1>2, <1>3, <1>5, <1>6, <1>8, <1>9

LEMMA LayFileStep == DiskInv /\ LayFile => DiskInv'
  <1> SUFFICES ASSUME DiskInv, LayFile PROVE DiskInv'
    OBVIOUS
  <1> DEFINE e0  == files[entry]
             z   == e0.size
             at  == files[1].size + SizeOfList(list)
             len == EntrySize(e0)
  <1>0. PICK n \in Nat \ {0} : n = Len(list) + 1
    <2>1. list \in Seq(Record)
      BY DEF DiskInv, DiskTypeOK
    <2> QED
      BY <2>1
  <1>1. /\ UNCHANGED <<files, secnbr, disk, mode, booted, loading, tries>>
        /\ IF z > 0 /\ pos + z <= DISK_SIZE
           THEN /\ list' = Append(list, Entry(entry, e0))
                /\ buffer' = [p \in DOMAIN buffer |->
                       IF p \in at .. at + len - 1 THEN ListByte(n, p - at)
                       ELSE IF p \in pos .. pos + z - 1 THEN FileByte(entry, p - pos)
                       ELSE buffer[p]]
                /\ pos' = pos + z
           ELSE UNCHANGED <<list, buffer, pos>>
    BY <1>0 DEF LayFile
  <1>2. /\ files \in Lists /\ mode = "diskto" /\ entry \in 2 .. Len(files) /\ entry' = entry + 1
        /\ secnbr = (Behind - 1) \div SECTOR_SIZE /\ Behind =< pos /\ pos =< DISK_SIZE
        /\ pos \in Nat /\ list \in Seq(Record)
        /\ buffer \in [0 .. DISK_SIZE - 1 -> Byte]
        /\ SizeOfList(list) + P_SIZEOF =< Upto(files, entry - 1) /\ LoaderThere
        /\ \A m \in DOMAIN list : EntryOK(list[m]) /\ EntryThere(m) /\ FileThere(list[m])
        /\ SizeOfList(list) \in Nat
        /\ Upto(files, entry) = Upto(files, entry - 1) + EntrySize(files[entry])
        /\ Upto(files, entry) =< SizeOfList(files)
        /\ Upto(files, entry - 1) \in Nat /\ Upto(files, entry) \in Nat
        /\ SizeOfList(files) \in Nat
    BY BeforeFile, Zenon
  <1>3. /\ Len(files) \in Nat /\ files[1].size \in Nat /\ z \in Nat /\ len \in Nat \ {0}
        /\ Behind = files[1].size + SizeOfList(files) - P_SIZEOF /\ Behind \in Nat
        /\ files[1].size =< Behind /\ DISK_SIZE \in Nat
        /\ P_SIZEOF \in Nat /\ SECTOR_SIZE \in Nat \ {0}
    <2>1. files \in Lists /\ entry \in 1 .. Len(files)
      BY <1>2, ListFacts
    <2>2. Len(files) \in Nat /\ 1 \in 1 .. Len(files)
      BY <2>1, ListFacts
    <2>3. files[1].size \in Nat /\ z \in Nat
      BY <2>1, <2>2, ListFacts, Zenon
    <2> HIDE DEF z
    <2> QED
      BY <2>1, <2>2, <2>3, ListFacts, Sizes
  <1> HIDE DEF z, len
  <1>4. at \in Nat /\ at + len =< Behind /\ at + len =< pos /\ files[1].size =< at
    <2>1. /\ SizeOfList(list) \in Nat /\ files[1].size \in Nat /\ len \in Nat \ {0}
          /\ Upto(files, entry) \in Nat /\ SizeOfList(files) \in Nat /\ P_SIZEOF \in Nat
          /\ Upto(files, entry - 1) \in Nat /\ pos \in Nat
      BY <1>2, <1>3, Zenon
    <2>2. /\ Upto(files, entry) = Upto(files, entry - 1) + len
          /\ SizeOfList(list) + P_SIZEOF =< Upto(files, entry - 1)
          /\ Upto(files, entry) =< SizeOfList(files)
          /\ Behind = files[1].size + SizeOfList(files) - P_SIZEOF /\ Behind =< pos
      BY <1>2, <1>3, Zenon DEF len
    <2> QED
      BY <2>1, <2>2
  <1> HIDE DEF at, e0
  <1>5. Behind' = Behind
    BY <1>1 DEF Behind, list_size
  <1>6. booted \in Seq(Byte) /\ mode \in Modes /\ tries \in Nat
    BY DEF DiskInv, DiskTypeOK
  <1>7. entry' \in 1 .. Len(files) + 1 /\ entry' # 1 /\ entry' - 1 = entry
    <2>1. Len(files) \in Nat /\ entry \in 2 .. Len(files) /\ entry' = entry + 1
      BY <1>2, <1>3
    <2> QED
      BY <2>1
  <1>8. BootInv' /\ MadeInv' /\ LoadInv'
    <2>1. mode' = "diskto" /\ booted' = booted
      BY <1>1, <1>2
    <2>2. booted = <<>>
      BY <1>2 DEF DiskInv, BootInv
    <2> QED
      BY <2>1, <2>2 DEF BootInv, MadeInv, LoadInv
  <1>9. CASE ~(z > 0 /\ pos + z <= DISK_SIZE)
    <2>1. UNCHANGED <<list, buffer, pos, files, secnbr, mode, booted, tries>>
      BY <1>1, <1>9
    <2>2. DiskTypeOK'
      BY <1>2, <1>6, <1>7, <2>1 DEF DiskTypeOK
    <2>3. SizeOfList(list) + P_SIZEOF =< Upto(files, entry)
      <3>1. /\ SizeOfList(list) \in Nat /\ Upto(files, entry - 1) \in Nat /\ len \in Nat
            /\ Upto(files, entry) = Upto(files, entry - 1) + len /\ P_SIZEOF \in Nat
            /\ SizeOfList(list) + P_SIZEOF =< Upto(files, entry - 1)
        BY <1>2, <1>3 DEF len, e0
      <3> QED
        BY <3>1
    <2>4. LaidInv'
      BY <1>2, <1>5, <1>7, <2>1, <2>3 DEF LaidInv, LoaderThere, EntryOK, EntryThere, FileThere, SizeOf
    <2> QED
      BY <1>8, <2>2, <2>4 DEF DiskInv
  <1>10. CASE z > 0 /\ pos + z <= DISK_SIZE
    <2> DEFINE new == Entry(entry, e0)
    <2>1. /\ list' = Append(list, new) /\ pos' = pos + z
          /\ buffer' = [p \in DOMAIN buffer |->
                       IF p \in at .. at + len - 1 THEN ListByte(n, p - at)
                       ELSE IF p \in pos .. pos + z - 1 THEN FileByte(entry, p - pos)
                       ELSE buffer[p]]
          /\ UNCHANGED <<files, secnbr, mode, booted, tries>>
      BY <1>1, <1>10
    <2>2. /\ new \in Record /\ Place(new) = pos /\ new.file = entry
          /\ new.exec = e0.exec /\ new.sect < NSECTS /\ new.offsa < SECTOR_SIZE
          /\ new.nsec = (new.offsa + z + SECTOR_SIZE - 1) \div SECTOR_SIZE
          /\ new.sizea = SizeA(new.offsa, z)
          /\ new.sizez = (pos + z) % SECTOR_SIZE
          /\ EntrySize(new) = len
      <3>1. DiskTypeOK
        BY DEF DiskInv
      <3> QED
        BY <1>2, <1>10, <3>1, NewEntry DEF z, len, e0
    <2> HIDE DEF new
    <2>3. /\ list' \in Seq(Record) /\ Len(list) \in Nat /\ n \in Nat
          /\ DOMAIN list' = 1 .. n /\ DOMAIN list = 1 .. n - 1 /\ Len(list') = n
          /\ list'[n] = new /\ \A m \in 1 .. n - 1 : list'[m] = list[m]
      BY SMTT(30), <1>0, <1>2, <2>1, <2>2
    <2>4. \A m \in 0 .. Len(list) : Upto(list', m) = Upto(list, m)
      BY <1>2, <2>1, <2>2, BeginningsStay
    <2>5. SizeOfList(list') = SizeOfList(list) + len /\ Upto(list', n - 1) = SizeOfList(list)
      <3>1. Upto(list', n) = Upto(list', n - 1) + EntrySize(list'[n]) /\ Upto(list', n) = SizeOfList(list')
        <4>1. n \in 1 .. Len(list')
          BY <2>3
        <4> QED
          BY <2>3, <4>1, Beginnings
      <3>2. Upto(list', n - 1) = Upto(list, Len(list)) /\ Upto(list, Len(list)) = SizeOfList(list)
        BY <1>2, <2>3, <2>4, Beginnings
      <3> QED
        BY <2>2, <2>3, <3>1, <3>2
    <2>6. /\ \A p \in Nat : p < pos /\ (p < at \/ p >= at + len) => buffer'[p] = buffer[p]
          /\ \A j \in 0 .. len - 1 : buffer'[at + j] = ListByte(n, j)
          /\ \A j \in 0 .. z - 1 : buffer'[pos + j] = FileByte(entry, j)
      <3>1. /\ at \in Nat /\ len \in Nat /\ pos \in Nat /\ z \in Nat /\ at + len =< pos
            /\ DISK_SIZE \in Nat /\ pos + z =< DISK_SIZE /\ buffer \in [0 .. DISK_SIZE - 1 -> Byte]
        BY <1>2, <1>3, <1>4, <1>10
      <3>2. buffer' = [p \in DOMAIN buffer |->
                       IF p \in at .. at + len - 1 THEN ListByte(n, p - at)
                       ELSE IF p \in pos .. pos + z - 1 THEN FileByte(entry, p - pos)
                       ELSE buffer[p]]
        BY <2>1
      <3> QED
        BY <3>1, <3>2, NewBytes
    <2>7. buffer' \in [0 .. DISK_SIZE - 1 -> Byte]
      <3>1. \A p \in 0 .. DISK_SIZE - 1 :
               ListByte(n, p - at) \in Byte /\ FileByte(entry, p - pos) \in Byte /\ buffer[p] \in Byte
        <4>1. n \in Int /\ entry \in Int /\ at \in Int /\ pos \in Int
          BY <1>2, <1>3, <1>4, <2>3
        <4>2. \A p \in 0 .. DISK_SIZE - 1 : buffer[p] \in Byte
          BY <1>2
        <4> QED
          BY <4>1, <4>2 DEF ListByte, FileByte, Byte
      <3>2. buffer \in [0 .. DISK_SIZE - 1 -> Byte]
        BY <1>2
      <3>3. buffer' = [p \in DOMAIN buffer |->
                       IF p \in at .. at + len - 1 THEN ListByte(n, p - at)
                       ELSE IF p \in pos .. pos + z - 1 THEN FileByte(entry, p - pos)
                       ELSE buffer[p]]
        BY <2>1
      <3> QED
        BY <3>1, <3>2, <3>3
    <2>8. pos' \in Nat /\ Behind =< pos' /\ pos' =< DISK_SIZE /\ pos =< pos'
      <3>1. pos \in Nat /\ z \in Nat /\ Behind \in Nat /\ Behind =< pos /\ pos + z =< DISK_SIZE
        BY <1>2, <1>3, <1>10
      <3>2. pos' = pos + z
        BY <2>1
      <3> QED
        BY <3>1, <3>2
    <2>9. DiskTypeOK'
      BY <1>2, <1>6, <1>7, <2>1, <2>3, <2>7, <2>8 DEF DiskTypeOK
    <2>10. LoaderThere'
      <3>1. \A p \in 0 .. files[1].size - 1 : p \in Nat /\ p < pos /\ p < at
        <4>1. files[1].size \in Nat /\ at \in Nat /\ len \in Nat /\ pos \in Nat /\ at + len =< pos /\ files[1].size =< at
          BY <1>2, <1>3, <1>4
        <4> QED
          BY <4>1
      <3>2. \A p \in 0 .. files[1].size - 1 : buffer'[p] = FileByte(1, p)
        BY <1>2, <2>6, <3>1 DEF LoaderThere
      <3> QED
        BY <2>1, <3>2 DEF LoaderThere
    <2>11. ASSUME NEW m \in 1 .. n - 1
           PROVE  (EntryOK(list[m]) /\ EntryThere(m) /\ FileThere(list[m]))'
      <3> DEFINE e == list[m]
      <3>1. /\ e \in Record /\ EntryOK(e) /\ EntryThere(m) /\ FileThere(e)
            /\ list'[m] = e /\ m \in 1 .. Len(list) /\ m \in 0 .. Len(list)
            /\ m - 1 \in 0 .. Len(list) /\ Len(list) \in m .. Len(list)
        <4>1. m \in DOMAIN list /\ m \in 1 .. Len(list) /\ list \in Seq(Record) /\ list'[m] = e
          BY <1>0, <1>2, <2>3
        <4>2. EntryOK(e) /\ EntryThere(m) /\ FileThere(e)
          BY <1>2, <4>1, Zenon
        <4> HIDE DEF e
        <4> QED
          BY <4>1, <4>2 DEF e
      <3>2. /\ Place(e) \in Nat /\ SizeOf(e) \in Nat /\ Behind =< Place(e)
            /\ Place(e) + SizeOf(e) =< pos
        <4>1. e.track \in Nat /\ e.sect \in Nat /\ e.offsa \in Nat
          BY <3>1 DEF Record
        <4>2. e.file \in 1 .. Len(files) /\ Behind =< Place(e) /\ Place(e) + SizeOf(e) =< pos
          BY <1>3, <3>1 DEF EntryOK
        <4>3. SizeOf(e) \in Nat
          BY <1>2, <4>2, ListFacts, Zenon DEF SizeOf
        <4>4. \A a, b \in Nat : a * b \in Nat
          OBVIOUS
        <4>5. Place(e) \in Nat
          <5>1. (e.track * NSECTS + e.sect) \in Nat
            BY <4>1, Sizes
          <5>2. (e.track * NSECTS + e.sect) * SECTOR_SIZE \in Nat
            BY <4>4, <5>1, Sizes
          <5> QED
            BY <4>1, <5>2 DEF Place
        <4> QED
          BY <4>2, <4>3, <4>5
      <3>3. EntryOK(list[m])'
        <4>1. Place(e) + SizeOf(e) =< pos'
          <5>1. pos \in Nat /\ pos' \in Nat /\ pos =< pos'
            BY <1>2, <2>8
          <5> HIDE DEF e
          <5> QED
            BY <3>2, <5>1
        <4> QED
          BY <1>5, <2>1, <3>1, <4>1 DEF EntryOK, SizeOf, Place
      <3>4. EntryThere(m)'
        <4> DEFINE a == files[1].size + Upto(list, m - 1)
                   l == EntrySize(e)
        <4>1. /\ Upto(list, m) = Upto(list, m - 1) + l /\ Upto(list, m) =< SizeOfList(list)
              /\ Upto(list, m - 1) \in Nat /\ Upto(list, m) \in Nat
          <5>1. list \in Seq(Record)
            BY <1>2
          <5>2. Upto(list, m) =< Upto(list, Len(list))
            BY <3>1, <5>1, BeginningsGrow
          <5>3. m \in 1 .. Len(list) /\ m \in 0 .. Len(list) /\ m - 1 \in 0 .. Len(list)
            BY <3>1
          <5> QED
            BY <5>1, <5>2, <5>3, Beginnings
        <4>2. a \in Nat /\ l \in Nat /\ a + l =< at
          <5>1. l \in Nat
            BY Sizes
          <5>2. SizeOfList(list) \in Nat /\ files[1].size \in Nat
            BY <1>2, <1>3
          <5> HIDE DEF l, e
          <5> QED
            BY <4>1, <5>1, <5>2 DEF at
        <4>3. \A j \in 0 .. l - 1 : buffer[a + j] = ListByte(m, j)
          BY <3>1 DEF EntryThere
        <4> HIDE DEF a, l
        <4>4. ASSUME NEW j \in 0 .. l - 1 PROVE a + j \in Nat /\ a + j < at /\ a + j < pos
          <5>1. at \in Nat /\ len \in Nat /\ pos \in Nat /\ at + len =< pos
            BY <1>2, <1>3, <1>4
          <5> QED
            BY <4>2, <5>1
        <4>5. \A j \in 0 .. l - 1 : buffer'[a + j] = ListByte(m, j)
          BY <2>6, <4>3, <4>4
        <4>6. Upto(list', m - 1) = Upto(list, m - 1)
          BY <2>4, <3>1
        <4> QED
          BY <2>1, <3>1, <4>5, <4>6 DEF EntryThere, a, l
      <3>5. FileThere(list[m])'
        <4> DEFINE a == Place(e)
                   l == SizeOf(e)
        <4>3. \A j \in 0 .. l - 1 : buffer[a + j] = FileByte(e.file, j)
          BY <3>1 DEF FileThere
        <4> HIDE DEF e
        <4>4. ASSUME NEW j \in 0 .. l - 1
              PROVE  a + j \in Nat /\ a + j < pos /\ a + j >= at + len
          <5>1. /\ at \in Nat /\ len \in Nat /\ pos \in Nat /\ at + len =< Behind
                /\ a \in Nat /\ l \in Nat /\ Behind =< a /\ a + l =< pos /\ Behind \in Nat
            BY <1>2, <1>3, <1>4, <3>2
          <5> HIDE DEF a, l
          <5> QED
            BY <5>1
        <4> HIDE DEF a, l
        <4>5. \A j \in 0 .. l - 1 : buffer'[a + j] = FileByte(e.file, j)
          BY <2>6, <4>3, <4>4
        <4> QED
          BY <2>1, <3>1, <4>5 DEF FileThere, SizeOf, Place, a, l, e
      <3> QED
        BY <3>3, <3>4, <3>5
    <2>12. (EntryOK(list[n]) /\ EntryThere(n) /\ FileThere(list[n]))'
      <3>1. list'[n] = new /\ files' = files
        BY <2>1, <2>3
      <3>2. SizeOf(new) = z
        BY <2>2 DEF SizeOf, z, e0
      <3>3. EntryOK(list[n])'
        <4>1. Behind =< Place(new) /\ Place(new) + SizeOf(new) =< pos' /\ SizeOf(new) > 0
          <5>1. pos \in Nat /\ z \in Nat /\ pos' = pos + z /\ Place(new) = pos /\ Behind =< pos /\ z > 0
            BY <1>2, <1>3, <1>10, <2>1, <2>2
          <5> QED
            BY <3>2, <5>1
        <4>2. new.file \in 2 .. Len(files) /\ new.exec = files[new.file].exec
          BY <1>2, <2>2 DEF e0
        <4>3. /\ new.nsec = (new.offsa + SizeOf(new) + SECTOR_SIZE - 1) \div SECTOR_SIZE
              /\ new.sizea = SizeA(new.offsa, SizeOf(new))
              /\ new.sizez = (Place(new) + SizeOf(new)) % SECTOR_SIZE
              /\ new.sect < NSECTS /\ new.offsa < SECTOR_SIZE
          BY <2>2, <3>2
        <4> QED
          BY <1>5, <3>1, <4>1, <4>2, <4>3 DEF EntryOK, SizeOf, Place
      <3>4. EntryThere(n)'
        <4>1. files[1].size + Upto(list', n - 1) = at /\ EntrySize(list'[n]) = len
          BY <2>2, <2>3, <2>5 DEF at
        <4> QED
          BY <2>6, <3>1, <4>1 DEF EntryThere
      <3>5. FileThere(list[n])'
        <4>1. \A j \in 0 .. z - 1 : buffer'[Place(new) + j] = FileByte(new.file, j)
          BY <2>2, <2>6
        <4> QED
          BY <3>1, <3>2, <4>1 DEF FileThere, SizeOf, Place
      <3> QED
        BY <3>3, <3>4, <3>5
    <2>13. \A m \in DOMAIN list' : (EntryOK(list[m]) /\ EntryThere(m) /\ FileThere(list[m]))'
      <3>1. \A m \in DOMAIN list' : m \in 1 .. n - 1 \/ m = n
        BY <2>3
      <3> QED
        BY <2>11, <2>12, <3>1
    <2>14. SizeOfList(list') + P_SIZEOF =< Upto(files, entry)
      <3>1. /\ SizeOfList(list) \in Nat /\ Upto(files, entry - 1) \in Nat /\ len \in Nat
            /\ Upto(files, entry) = Upto(files, entry - 1) + len /\ P_SIZEOF \in Nat
            /\ SizeOfList(list) + P_SIZEOF =< Upto(files, entry - 1)
            /\ SizeOfList(list') = SizeOfList(list) + len
        BY <1>2, <1>3, <2>5 DEF len, e0
      <3> QED
        BY <3>1
    <2>15. LaidInv'
      BY <1>2, <1>5, <1>7, <2>1, <2>8, <2>10, <2>13, <2>14 DEF LaidInv
    <2> QED
      BY <1>8, <2>9, <2>15 DEF DiskInv
  <1> QED
    BY <1>9, <1>10

\* Each sector of a track is found under its number.
LEMMA create_diskStep == DiskInv /\ create_disk => DiskInv'
  <1> SUFFICES ASSUME DiskInv, create_disk PROVE DiskInv'
    OBVIOUS
  <1>1. /\ mode = "diskto" /\ entry > Len(files) /\ mode' = "boot"
        /\ disk' = [t \in 0 .. Tracks - 1 |->
                   [nb \in 1 .. NSECTS |->
                      t * NSECTS + (CHOOSE s \in 0 .. NSECTS - 1 : NumberOf(t, s) = nb)]]
        /\ UNCHANGED <<laid, booted, loading, tries>>
    BY DEF create_disk
  <1>2. /\ files \in Lists /\ entry \in 1 .. Len(files) + 1 /\ Len(files) \in Nat \ {0}
        /\ UNCHANGED <<files, entry, pos, secnbr, buffer, list>>
    BY <1>1, ListFacts DEF DiskInv, DiskTypeOK, laid
  <1>3. entry = Len(files) + 1 /\ entry # 1
    BY <1>1, <1>2
  <1>4. DiskTypeOK'
    BY <1>1, <1>2 DEF DiskInv, DiskTypeOK, Modes
  <1>5. LaidInv'
    <2>1. Behind' = Behind
      BY <1>2 DEF Behind, list_size
    <2>2. /\ secnbr = (Behind - 1) \div SECTOR_SIZE
          /\ Behind =< pos /\ pos =< DISK_SIZE
          /\ SizeOfList(list) + P_SIZEOF =< Upto(files, entry - 1)
          /\ LoaderThere
          /\ \A n \in DOMAIN list : EntryOK(list[n]) /\ EntryThere(n) /\ FileThere(list[n])
      BY <1>3 DEF DiskInv, LaidInv
    <2> QED
      BY <1>2, <1>3, <2>1, <2>2
      DEF LaidInv, LoaderThere, EntryOK, EntryThere, FileThere, SizeOf, Place
  <1>6. MadeInv'
    <2>1. ASSUME NEW t \in 0 .. Tracks - 1, NEW s \in 0 .. NSECTS - 1
          PROVE  disk'[t][NumberOf(t, s)] = t * NSECTS + s
      <3>1. t \in Nat
        BY Sizes
      <3> DEFINE nb == NumberOf(t, s)
                 c  == CHOOSE r \in 0 .. NSECTS - 1 : NumberOf(t, r) = nb
      <3>2. nb \in 1 .. NSECTS
        BY <3>1, NumberOneToOne
      <3>3. c \in 0 .. NSECTS - 1 /\ NumberOf(t, c) = nb
        OBVIOUS
      <3>4. disk'[t][nb] = t * NSECTS + c
        BY <1>1, <3>2
      <3> HIDE DEF c
      <3>5. NumberOf(t, c) = NumberOf(t, s) => c = s
        BY <3>1, <3>3, NumberOneToOne
      <3> QED
        BY <3>3, <3>4, <3>5
    <2> QED
      BY <1>2, <1>3, <2>1 DEF MadeInv
  <1>7. BootInv'
    <2>1. booted' = <<>> /\ secnbr' \in Nat
      <3>1. booted = <<>>
        BY <1>1 DEF DiskInv, BootInv
      <3>2. secnbr = (Behind - 1) \div SECTOR_SIZE
        BY <1>3 DEF DiskInv, LaidInv
      <3>3. Behind - 1 \in Nat /\ SECTOR_SIZE \in Nat \ {0}
        BY <1>2, ListFacts, Sizes
      <3>4. (Behind - 1) \div SECTOR_SIZE \in Nat
        BY <3>3, Z3
      <3> QED
        BY <1>1, <1>2, <3>1, <3>2, <3>4
    <2>2. 0 \in 0 .. secnbr' /\ Len(booted') = 0 * SECTOR_SIZE
      BY <2>1, Sizes
    <2> QED
      BY <1>1, <2>1, <2>2 DEF BootInv
  <1>8. LoadInv'
    BY <1>1 DEF LoadInv
  <1> QED
    BY <1>4, <1>5, <1>6, <1>7, <1>8 DEF DiskInv

-----------------------------------------------------------------------------
(***************************************************************************)
(* loader.ASS.  From now on the disk and what is laid on it stay.          *)
(***************************************************************************)
LEMMA DiskStays ==
    ASSUME DiskInv, mode # "diskto", mode' # "diskto", mode' \in Modes,
           UNCHANGED <<laid, disk>>, booted' \in Seq(Byte), tries' \in Nat
    PROVE  DiskTypeOK' /\ LaidInv' /\ MadeInv'
  <1>1. UNCHANGED <<files, entry, pos, secnbr, buffer, list, disk>>
    BY DEF laid
  <1>2. DiskTypeOK'
    BY <1>1 DEF DiskInv, DiskTypeOK
  <1>3. Behind' = Behind
    BY <1>1 DEF Behind, list_size
  <1>4. LaidInv'
    <2>1. entry # 1 /\ entry' # 1
      BY <1>1 DEF DiskInv, LaidInv
    <2>2. /\ secnbr = (Behind - 1) \div SECTOR_SIZE
          /\ Behind =< pos /\ pos =< DISK_SIZE
          /\ SizeOfList(list) + P_SIZEOF =< Upto(files, entry - 1)
          /\ LoaderThere
          /\ \A n \in DOMAIN list : EntryOK(list[n]) /\ EntryThere(n) /\ FileThere(list[n])
      BY <2>1 DEF DiskInv, LaidInv
    <2> QED
      BY <1>1, <1>3, <2>1, <2>2
      DEF LaidInv, LoaderThere, EntryOK, EntryThere, FileThere, SizeOf, Place
  <1>5. MadeInv'
    BY <1>1 DEF DiskInv, MadeInv
  <1> QED
    BY <1>2, <1>4, <1>5

\* A sector is read where it was laid.
LEMMA SectorRead ==
    ASSUME DiskInv, mode # "diskto",
           NEW t \in 0 .. Tracks - 1, NEW s \in 0 .. NSECTS - 1
    PROVE  ContentOf(t, NumberOf(t, s)) =
              [j \in 1 .. SECTOR_SIZE |-> buffer[(t * NSECTS + s) * SECTOR_SIZE + j - 1]]
  <1>1. disk[t][NumberOf(t, s)] = t * NSECTS + s
    BY DEF DiskInv, MadeInv
  <1> QED
    BY <1>1 DEF ContentOf

\* What is known once the disk is made.
LEMMA DiskMade ==
    ASSUME DiskInv, mode # "diskto"
    PROVE  /\ files \in Lists /\ secnbr = (Behind - 1) \div SECTOR_SIZE /\ secnbr \in 0 .. NSECTS - 1
           /\ Behind \in Nat /\ Behind =< (secnbr + 1) * SECTOR_SIZE
           /\ pos \in Nat /\ Behind =< pos /\ pos =< DISK_SIZE /\ list \in Seq(Record)
           /\ SizeOfList(list) \in Nat /\ files[1].size \in Nat
           /\ files[1].size + SizeOfList(list) =< Behind
           /\ LoaderThere /\ buffer \in [0 .. DISK_SIZE - 1 -> Byte]
           /\ \A n \in DOMAIN list : EntryOK(list[n]) /\ EntryThere(n) /\ FileThere(list[n])
  <1>1. /\ files \in Lists /\ entry = Len(files) + 1 /\ pos \in Nat /\ list \in Seq(Record)
        /\ buffer \in [0 .. DISK_SIZE - 1 -> Byte]
    BY DEF DiskInv, DiskTypeOK, MadeInv
  <1>2. /\ Len(files) \in Nat \ {0} /\ files \in Seq(File) /\ Behind \in Nat
        /\ files[1].size > SECTOR_SIZE /\ files[1].size =< Behind
        /\ Behind =< NSECTS * SECTOR_SIZE
        /\ Behind = files[1].size + SizeOfList(files) - P_SIZEOF
    BY <1>1, ListFacts
  <1>3. /\ SECTOR_SIZE \in Nat \ {0} /\ NSECTS = 16 /\ P_SIZEOF \in Nat
    BY Sizes
  <1>4. entry # 1 /\ entry - 1 = Len(files)
    BY <1>1, <1>2
  <1>5. /\ secnbr = (Behind - 1) \div SECTOR_SIZE
        /\ Behind =< pos /\ pos =< DISK_SIZE
        /\ SizeOfList(list) + P_SIZEOF =< Upto(files, Len(files))
        /\ LoaderThere
        /\ \A n \in DOMAIN list : EntryOK(list[n]) /\ EntryThere(n) /\ FileThere(list[n])
    BY <1>4 DEF DiskInv, LaidInv
  <1>6. /\ Upto(files, Len(files)) = SizeOfList(files) /\ SizeOfList(files) \in Nat
        /\ SizeOfList(list) \in Nat
    <2>1. Len(files) \in 0 .. Len(files)
      BY <1>2
    <2> QED
      BY <1>1, <1>2, <2>1, Beginnings
  <1>7. files[1].size \in Nat
    <2>1. 1 \in 1 .. Len(files)
      BY <1>2
    <2> QED
      BY <1>1, <2>1, ListFacts, Zenon
  <1>8. files[1].size + SizeOfList(list) =< Behind
    BY SMTT(30), <1>2, <1>3, <1>5, <1>6, <1>7
  <1>9. secnbr \in 0 .. NSECTS - 1 /\ Behind =< (secnbr + 1) * SECTOR_SIZE
    <2> DEFINE S == SECTOR_SIZE
               b == Behind - 1
               q == b \div S
               r == b % S
    <2>1. b \in Nat /\ b < 16 * S /\ S \in Nat \ {0}
      BY <1>2, <1>3, <1>7
    <2> HIDE DEF b, S
    <2>2. q \in Int /\ r \in 0 .. S - 1 /\ b = S * q + r
      BY <2>1, Division
    <2> HIDE DEF q, r
    <2>3. q >= 0
      <3> SUFFICES ASSUME q =< -1 PROVE FALSE
        BY <2>2
      <3>1. S * q =< -S
        BY <2>1, <2>2, Z3
      <3> QED
        BY <2>1, <2>2, <3>1
    <2>4. q < 16
      <3> SUFFICES ASSUME q >= 16 PROVE FALSE
        BY <2>2
      <3>1. S * q >= S * 16
        BY <2>1, <2>2, Z3
      <3> QED
        BY <2>1, <2>2, <3>1
    <2>5. b + 1 =< (q + 1) * S
      BY <2>1, <2>2, Z3
    <2>6. secnbr = q
      BY <1>5 DEF q, b, S
    <2>7. b + 1 = Behind
      BY <1>2 DEF b
    <2> QED
      BY <1>3, <2>2, <2>3, <2>4, <2>5, <2>6, <2>7 DEF S
  <1> QED
    BY <1>1, <1>2, <1>5, <1>6, <1>7, <1>8, <1>9

LEMMA ReadFailsStep == DiskInv /\ ReadFails => DiskInv'
  <1> SUFFICES ASSUME DiskInv, ReadFails PROVE DiskInv'
    OBVIOUS
  <1>1. /\ mode \in {"boot", "first", "sectors"} /\ mode' \in {mode, "error"} /\ tries' = tries + 1
        /\ UNCHANGED <<laid, disk, booted, loading>>
    BY DEF ReadFails
  <1>2. booted \in Seq(Byte) /\ tries \in Nat
    BY DEF DiskInv, DiskTypeOK
  <1>3. DiskTypeOK' /\ LaidInv' /\ MadeInv'
    <2>1. mode # "diskto" /\ mode' # "diskto" /\ mode' \in Modes
      BY <1>1 DEF Modes
    <2>2. booted' \in Seq(Byte) /\ tries' \in Nat /\ UNCHANGED <<laid, disk>>
      BY <1>1, <1>2
    <2> QED
      BY <2>1, <2>2, DiskStays
  <1>4. UNCHANGED <<files, buffer, secnbr, list, booted, cur, nsect, track, sector, y, mem, jumped>>
    BY <1>1 DEF laid, loading
  <1>5. BootInv' /\ LoadInv'
    <2>1. CASE mode' = "error"
      BY <2>1 DEF BootInv, LoadInv
    <2>2. CASE mode' = mode
      BY <1>4, <2>2 DEF DiskInv, BootInv, LoadInv, SizeOf, Place
    <2> QED
      BY <1>1, <2>1, <2>2
  <1> QED
    BY <1>3, <1>5 DEF DiskInv

\* The sectors of the first track in the order of their numbers.
LEMMA FirstTrack == \A b \in 0 .. NSECTS - 1 : sector_list[b + 1] = NumberOf(0, b)
  <1> SUFFICES ASSUME NEW b \in 0 .. NSECTS - 1 PROVE sector_list[b + 1] = NumberOf(0, b)
    OBVIOUS
  <1>1. b \in 0 .. 15 /\ NSECTS = 16
    BY Sizes
  <1>2. (((2 * 0) % 8) + b) % NSECTS = b
    BY <1>1
  <1> QED
    BY <1>2 DEF NumberOf

LEMMA BootStep == DiskInv /\ Boot => DiskInv'
  <1> SUFFICES ASSUME DiskInv, Boot PROVE DiskInv'
    OBVIOUS
  <1> DEFINE S == SECTOR_SIZE
  <1>1. /\ mode = "boot" /\ tries' = 0 /\ UNCHANGED <<laid, disk, loading>>
        /\ booted' = booted \o ContentOf(0, sector_list[(Len(booted) \div S) + 1])
        /\ mode' = IF Len(booted) \div S = secnbr THEN "booted" ELSE "boot"
    BY DEF Boot
  <1>2. /\ secnbr \in 0 .. NSECTS - 1 /\ buffer \in [0 .. DISK_SIZE - 1 -> Byte] /\ files \in Lists
    BY <1>1, DiskMade
  <1>3. booted \in Seq(Byte) /\ \A i \in 1 .. Len(booted) : booted[i] = buffer[i - 1]
    BY <1>1 DEF DiskInv, DiskTypeOK, BootInv
  <1>4. PICK b \in 0 .. secnbr : Len(booted) = b * S
    BY <1>1 DEF DiskInv, BootInv
  <1>5. S \in Nat \ {0} /\ NSECTS = 16 /\ Tracks \in Nat \ {0} /\ DISK_SIZE \in Nat /\ NSECTS * S =< DISK_SIZE
    BY <1>2, Sizes, ListFacts
  <1> HIDE DEF S
  <1>6. b \in 0 .. NSECTS - 1 /\ b \in Nat /\ b \in Int
    BY <1>2, <1>5
  <1>7. Len(booted) \div S = b
    <2>1. 0 \in 0 .. S - 1 /\ S * b + 0 = Len(booted)
      BY <1>4, <1>5, <1>6
    <2> QED
      BY <1>5, <1>6, <2>1, Quotient
  <1> DEFINE c == [j \in 1 .. S |-> buffer[(0 * NSECTS + b) * S + j - 1]]
  <1>8. booted' = booted \o c
    <2>1. sector_list[b + 1] = NumberOf(0, b)
      BY <1>6, FirstTrack
    <2>2. 0 \in 0 .. Tracks - 1 /\ mode # "diskto"
      BY <1>1, <1>5
    <2>3. ContentOf(0, NumberOf(0, b)) = c
      BY <1>6, <2>2, SectorRead DEF S
    <2> QED
      BY <1>1, <1>7, <2>1, <2>3
  <1>9. b * S \in Nat /\ (b + 1) * S = b * S + S /\ (b + 1) * S =< DISK_SIZE
    <2>1. b * S \in Nat /\ (b + 1) * S = b * S + S
      BY <1>5, <1>6, Z3
    <2>2. (b + 1) * S =< 16 * S
      BY <1>5, <1>6, Z3
    <2> QED
      BY <1>5, <2>1, <2>2
  <1>10. \A j \in 1 .. S : c[j] = buffer[b * S + j - 1] /\ b * S + j - 1 \in 0 .. DISK_SIZE - 1
    <2>1. (0 * NSECTS + b) * S = b * S
      BY <1>5, <1>6
    <2> QED
      BY <1>5, <1>9, <2>1
  <1>11. c \in Seq(Byte) /\ Len(c) = S
    <2>1. \A j \in 1 .. S : c[j] \in Byte
      BY <1>2, <1>10
    <2>2. c = [j \in 1 .. S |-> c[j]] /\ S \in Nat
      BY <1>5
    <2> HIDE DEF c
    <2> QED
      BY <2>1, <2>2
  <1> HIDE DEF c
  <1>12. /\ booted' \in Seq(Byte) /\ Len(booted') = (b + 1) * S
         /\ \A i \in 1 .. (b + 1) * S :
               booted'[i] = IF i =< b * S THEN booted[i] ELSE c[i - b * S]
    <2>0. booted \in Seq(Byte) /\ c \in Seq(Byte) /\ Len(c) = S
      BY <1>3, <1>11
    <2>1. booted \o c \in Seq(Byte) /\ Len(booted \o c) = Len(booted) + S
      BY <2>0
    <2>2. \A i \in 1 .. Len(booted) + S :
             (booted \o c)[i] = IF i =< Len(booted) THEN booted[i] ELSE c[i - Len(booted)]
      BY <2>0
    <2>3. Len(booted) + S = (b + 1) * S
      BY <1>4, <1>9
    <2> QED
      BY <1>4, <1>8, <2>1, <2>2, <2>3
  <1>13. \A i \in 1 .. Len(booted') : booted'[i] = buffer[i - 1]
    <2> SUFFICES ASSUME NEW i \in 1 .. (b + 1) * S PROVE booted'[i] = buffer[i - 1]
      BY <1>12
    <2>1. CASE i =< b * S
      <3>1. i \in 1 .. Len(booted)
        BY <1>4, <1>9, <2>1
      <3> QED
        BY <1>3, <1>12, <2>1, <3>1
    <2>2. CASE ~(i =< b * S)
      <3>1. i - b * S \in 1 .. S /\ b * S + (i - b * S) - 1 = i - 1
        BY <1>5, <1>9, <2>2
      <3> QED
        BY <1>10, <1>12, <2>2, <3>1
    <2> QED
      BY <2>1, <2>2
  <1>14. UNCHANGED <<files, buffer, secnbr>>
    BY <1>1 DEF laid
  <1>15. DiskTypeOK' /\ LaidInv' /\ MadeInv'
    <2>1. mode # "diskto" /\ mode' # "diskto" /\ mode' \in Modes
      BY <1>1 DEF Modes
    <2>2. booted' \in Seq(Byte) /\ tries' \in Nat /\ UNCHANGED <<laid, disk>>
      BY <1>1, <1>12
    <2> QED
      BY <2>1, <2>2, DiskStays
  <1>16. BootInv'
    <2>1. CASE b = secnbr
      <3>1. mode' = "booted"
        BY <1>1, <1>7, <2>1
      <3> QED
        BY <1>12, <1>13, <1>14, <2>1, <3>1 DEF BootInv, S
    <2>2. CASE b # secnbr
      <3>1. mode' = "boot" /\ b + 1 \in 0 .. secnbr
        BY <1>1, <1>2, <1>5, <1>7, <2>2
      <3> QED
        BY <1>12, <1>13, <1>14, <3>1 DEF BootInv, S
    <2> QED
      BY <2>1, <2>2
  <1>17. LoadInv'
    BY <1>1 DEF LoadInv
  <1> QED
    BY <1>15, <1>16, <1>17 DEF DiskInv

\* The loader finds every entry where diskto put it.
LEMMA EntryFound ==
    ASSUME DiskInv, mode \in {"booted", "loaded"}, NEW n \in DOMAIN list
    PROVE  Found(n)
  <1>1. /\ list \in Seq(Record) /\ EntryThere(n) /\ SizeOfList(list) \in Nat
        /\ files[1].size \in Nat /\ files[1].size + SizeOfList(list) =< Behind
        /\ Behind \in Nat /\ Behind =< (secnbr + 1) * SECTOR_SIZE
    BY DiskMade
  <1>2. /\ Len(booted) = (secnbr + 1) * SECTOR_SIZE /\ booted \in Seq(Byte)
        /\ \A i \in 1 .. Len(booted) : booted[i] = buffer[i - 1]
    BY DEF DiskInv, DiskTypeOK, BootInv
  <1>3. /\ n \in 1 .. Len(list) /\ n \in 0 .. Len(list) /\ n - 1 \in 0 .. Len(list)
        /\ Len(list) \in n .. Len(list)
    BY <1>1
  <1> DEFINE u  == Upto(list, n - 1)
             l  == EntrySize(list[n])
             at == files[1].size + u
  <1>4. Upto(list, n) = u + l /\ u \in Nat /\ Upto(list, n) =< SizeOfList(list)
    <2>1. Upto(list, n) =< Upto(list, Len(list))
      BY <1>1, <1>3, BeginningsGrow
    <2> QED
      BY <1>1, <1>3, <2>1, Beginnings
  <1>5. l \in Nat
    BY Sizes
  <1>6. \A j \in 0 .. l - 1 : buffer[at + j] = ListByte(n, j)
    BY <1>1 DEF EntryThere
  <1> HIDE DEF u, l
  <1>7. ASSUME NEW j \in 0 .. l - 1
        PROVE  at + j < Len(booted) /\ booted[at + j + 1] = ListByte(n, j)
    <2>1. at + j \in Nat /\ at + j < Behind
      <3>1. /\ SizeOfList(list) \in Nat /\ files[1].size \in Nat /\ Behind \in Nat
            /\ files[1].size + SizeOfList(list) =< Behind /\ u + l =< SizeOfList(list)
            /\ u \in Nat /\ l \in Nat
        BY <1>1, <1>4, <1>5
      <3> QED
        BY <3>1
    <2>2. Len(booted) \in Nat
      BY <1>2
    <2>3. at + j < Len(booted) /\ at + j + 1 \in 1 .. Len(booted) /\ (at + j + 1) - 1 = at + j
      BY SMTT(30), <1>1, <1>2, <2>1, <2>2
    <2> HIDE DEF at
    <2> QED
      BY <1>2, <1>6, <2>3
  <1> QED
    BY <1>7 DEF Found, Upto, u, l

\* An entry of the list, in numbers.
LEMMA EntryNumbers ==
    ASSUME DiskInv, mode # "diskto", NEW n \in DOMAIN list, NEW e, e = list[n]
    PROVE  /\ e \in Record /\ EntryOK(e) /\ FileThere(e)
           /\ SizeOf(e) \in Nat \ {0} /\ Place(e) \in Nat
           /\ Place(e) + SizeOf(e) =< DISK_SIZE
  <1>1. list \in Seq(Record) /\ EntryOK(e) /\ FileThere(e) /\ files \in Lists
    BY DiskMade
  <1>2. e \in Record
    BY <1>1
  <1>3. e.track \in Nat /\ e.sect \in Nat /\ e.offsa \in Nat
    BY <1>2 DEF Record
  <1>4. Place(e) \in Nat
    <2>1. \A a, b \in Nat : a * b \in Nat
      OBVIOUS
    <2>2. (e.track * NSECTS + e.sect) \in Nat
      BY <1>3, Sizes
    <2>3. (e.track * NSECTS + e.sect) * SECTOR_SIZE \in Nat
      BY <2>1, <2>2, Sizes
    <2> QED
      BY <1>3, <2>3 DEF Place
  <1>5. e.file \in 1 .. Len(files) /\ SizeOf(e) > 0 /\ Place(e) + SizeOf(e) =< pos
    BY <1>1, ListFacts DEF EntryOK
  <1>6. SizeOf(e) \in Nat
    BY <1>1, <1>5, ListFacts, Zenon DEF SizeOf
  <1>7. pos \in Nat /\ pos =< DISK_SIZE /\ DISK_SIZE \in Nat
    BY <1>1, DiskMade, ListFacts
  <1> QED
    BY <1>1, <1>2, <1>4, <1>5, <1>6, <1>7

\* Counts of sectors are rounded up.
LEMMA RoundUp ==
    ASSUME NEW x \in Nat, NEW S \in Nat \ {0}
    PROVE  LET q == (x + S - 1) \div S
           IN q \in Int /\ x =< q * S /\ x > (q - 1) * S
  <1> DEFINE w == x + S - 1
             q == w \div S
             r == w % S
  <1>1. w \in Int
    OBVIOUS
  <1> HIDE DEF w
  <1>2. q \in Int /\ r \in 0 .. S - 1 /\ w = S * q + r
    BY <1>1, Division
  <1> HIDE DEF q, r
  <1>3. S * q = q * S /\ (q - 1) * S = q * S - S
    BY <1>2, Z3
  <1>4. x = q * S + r - S + 1
    BY <1>2, <1>3 DEF w
  <1>5. q * S \in Int
    BY <1>2
  <1> QED
    BY <1>2, <1>3, <1>4, <1>5 DEF q, w

\* What is used of the first sector.
LEMMA FirstPart ==
    ASSUME NEW S \in Nat \ {0}, S = SECTOR_SIZE, NEW at \in 0 .. S - 1, NEW z \in Nat \ {0}
    PROVE  /\ SizeA(at, z) = 0 => at = 0 /\ z >= S
           /\ SizeA(at, z) # 0 => /\ SizeA(at, z) = Least(z, S - at)
                                  /\ SizeA(at, z) \in 1 .. S - at
                                  /\ SizeA(at, z) =< z
  <1> DEFINE l == Least(z, S - at)
  <1>1. l \in 1 .. S /\ l =< z /\ l =< S - at /\ (l = S => at = 0 /\ z >= S)
    BY DEF Least
  <1> HIDE DEF l
  <1>2. (l = S => l % S = 0) /\ (l # S => l % S = l)
    BY <1>1
  <1>3. SizeA(at, z) = l % S
    BY DEF SizeA, l
  <1> QED
    BY <1>1, <1>2, <1>3 DEF l

LEMMA loadStep == DiskInv /\ (\E n \in DOMAIN list : load(n)) => DiskInv'
  <1> SUFFICES ASSUME DiskInv, NEW n \in DOMAIN list, load(n) PROVE DiskInv'
    OBVIOUS
  <1> DEFINE e == list[n]
  <1>1. mode \in {"booted", "loaded"} /\ Found(n)
    BY EntryFound DEF load
  <1>2. /\ cur' = n /\ nsect' = e.nsec /\ track' = e.track /\ sector' = e.sect
        /\ mode' = IF e.sizea = 0 THEN "sectors" ELSE "first"
        /\ y' = 0 /\ mem' = <<>> /\ jumped' = FALSE
        /\ UNCHANGED <<laid, disk, booted, tries>>
    BY <1>1 DEF load
  <1>3. UNCHANGED <<files, buffer, secnbr, list>>
    BY <1>2 DEF laid
  <1>4. mode # "diskto" /\ mode' # "diskto" /\ mode' \in {"first", "sectors"} /\ mode' \in Modes
    BY <1>1, <1>2 DEF Modes
  <1>5. DiskTypeOK' /\ LaidInv' /\ MadeInv'
    <2>1. booted' \in Seq(Byte) /\ tries' \in Nat /\ UNCHANGED <<laid, disk>>
      BY <1>2 DEF DiskInv, DiskTypeOK
    <2> QED
      BY <1>4, <2>1, DiskStays
  <1>6. BootInv'
    BY <1>1, <1>2, <1>3, <1>4 DEF DiskInv, BootInv
  <1>7. /\ e \in Record /\ EntryOK(e) /\ SizeOf(e) \in Nat \ {0} /\ Place(e) \in Nat
    BY <1>4, EntryNumbers
  <1>8. /\ e.track \in Nat /\ e.sect \in 0 .. NSECTS - 1 /\ e.nsec \in Nat
        /\ e.offsa \in 0 .. SECTOR_SIZE - 1 /\ SECTOR_SIZE \in Nat \ {0}
        /\ e.sizea = SizeA(e.offsa, SizeOf(e))
        /\ e.nsec = (e.offsa + SizeOf(e) + SECTOR_SIZE - 1) \div SECTOR_SIZE
    <2>1. e.track \in Nat /\ e.sect \in Nat /\ e.nsec \in Nat /\ e.offsa \in Nat
      BY <1>7 DEF Record
    <2>2. e.sect < NSECTS /\ e.offsa < SECTOR_SIZE
      BY <1>7 DEF EntryOK
    <2> HIDE DEF e
    <2>3. e.sect \in 0 .. NSECTS - 1 /\ e.offsa \in 0 .. SECTOR_SIZE - 1
      BY <2>1, <2>2, Sizes
    <2> QED
      BY <1>7, <2>1, <2>3, Sizes DEF EntryOK
  <1>9. mem' = [j \in 0 .. 0 - 1 |-> FileByte(e.file, j)]
    <2>1. 0 .. 0 - 1 = {}
      OBVIOUS
    <2> QED
      BY <1>2, <2>1
  <1>10. SizeOf(list[cur])' = SizeOf(e) /\ Place(list[cur])' = Place(e) /\ list'[cur'] = e
    BY <1>2, <1>3 DEF SizeOf, Place
  <1>11. /\ cur' \in DOMAIN list' /\ track' \in Nat /\ sector' \in 0 .. NSECTS - 1
         /\ nsect' \in Nat /\ y' \in 0 .. SizeOf(list[cur])'
         /\ mem' = [j \in 0 .. y' - 1 |-> FileByte(list'[cur'].file, j)]
    <2>1. 0 \in 0 .. SizeOf(e)
      BY <1>7
    <2> QED
      BY <1>2, <1>3, <1>8, <1>9, <1>10, <2>1
  <1>12. CASE e.sizea # 0
    <2>1. mode' = "first"
      BY <1>2, <1>12
    <2> QED
      BY <1>2, <1>5, <1>6, <1>10, <1>11, <1>12, <2>1 DEF DiskInv, LoadInv
  <1>13. CASE e.sizea = 0
    <2>1. mode' = "sectors"
      BY <1>2, <1>13
    <2>2. e.offsa = 0
      <3> DEFINE o == e.offsa
                 z == SizeOf(e)
      <3>1. o \in 0 .. SECTOR_SIZE - 1 /\ z \in Nat \ {0} /\ SizeA(o, z) = 0 /\ SECTOR_SIZE \in Nat \ {0}
        BY <1>7, <1>8, <1>13
      <3> HIDE DEF o, z
      <3>2. o = 0
        BY <3>1, FirstPart
      <3> QED
        BY <3>2 DEF o
    <2>3. SizeOf(e) =< e.nsec * SECTOR_SIZE /\ SizeOf(e) > (e.nsec - 1) * SECTOR_SIZE
      <3>1. e.nsec = (SizeOf(e) + SECTOR_SIZE - 1) \div SECTOR_SIZE
        BY <1>7, <1>8, <2>2
      <3> QED
        BY <1>7, <1>8, <3>1, RoundUp
    <2>4. (e.track * NSECTS + e.sect) * SECTOR_SIZE = Place(e)
      <3>1. (e.track * NSECTS + e.sect) * SECTOR_SIZE + 0 = Place(e)
        BY <2>2 DEF Place
      <3>2. (e.track * NSECTS + e.sect) * SECTOR_SIZE \in Int
        BY <1>8, Sizes
      <3> QED
        BY <3>1, <3>2
    <2>5. SizeOf(e) - 0 = SizeOf(e) /\ Place(e) + 0 = Place(e)
      BY <1>7
    <2>6. /\ SizeOf(list[cur])' - y' =< nsect' * SECTOR_SIZE
          /\ SizeOf(list[cur])' - y' > (nsect' - 1) * SECTOR_SIZE
          /\ (track' * NSECTS + sector') * SECTOR_SIZE = Place(list[cur])' + y'
      BY <1>2, <1>10, <2>3, <2>4, <2>5
    <2> QED
      BY <1>5, <1>6, <1>11, <2>1, <2>6 DEF DiskInv, LoadInv
  <1> QED
    BY <1>12, <1>13

\* A sector, or a part of it, is read behind what is loaded.
LEMMA ldsecStep ==
    ASSUME DiskInv, mode \in {"first", "sectors"}, mode' = "sectors",
           NEW e, e = list[cur], NEW r \in Nat \ {0}, r = SizeOf(e) - y, nsect \in Nat \ {0},
           NEW offset \in Nat, NEW n \in Nat \ {0}, offset + n =< SECTOR_SIZE, n =< r,
           (track * NSECTS + sector) * SECTOR_SIZE + offset = Place(e) + y,
           r - n =< (nsect - 1) * SECTOR_SIZE, r - n > (nsect - 2) * SECTOR_SIZE,
           nsect > 1 => offset + n = SECTOR_SIZE,
           ldsec(offset, n)
    PROVE  DiskInv'
  <1> DEFINE S    == SECTOR_SIZE
             from == (track * NSECTS + sector) * S
             z    == SizeOf(e)
             p    == Place(e)
             f    == e.file
  <1>1. /\ y' = y + n /\ nsect' = nsect - 1 /\ tries' = 0
        /\ IF sector = NSECTS - 1 THEN track' = track + 1 /\ sector' = 0
           ELSE sector' = sector + 1 /\ track' = track
        /\ UNCHANGED <<laid, disk, booted, cur, jumped>>
        /\ mem' = [a \in 0 .. y + n - 1 |->
                      IF a < y THEN mem[a]
                      ELSE ContentOf(track, NumberOf(track, sector))[offset + (a - y) + 1]]
    BY DEF ldsec
  <1>2. UNCHANGED <<files, buffer, secnbr, list>>
    BY <1>1 DEF laid
  <1>3. /\ cur \in DOMAIN list /\ track \in Nat /\ sector \in 0 .. NSECTS - 1 /\ y \in Nat
        /\ mem = [j \in 0 .. y - 1 |-> FileByte(f, j)]
    BY SMTT(30) DEF DiskInv, LoadInv
  <1>4. z \in Nat \ {0} /\ p \in Nat /\ p + z =< DISK_SIZE /\ FileThere(e)
    BY <1>3, EntryNumbers
  <1>5. S \in Nat \ {0} /\ NSECTS = 16 /\ Tracks \in Nat \ {0}
    BY Sizes
  <1>6. \A j \in 0 .. z - 1 : buffer[p + j] = FileByte(f, j)
    BY <1>4 DEF FileThere
  <1>7. y + n =< z /\ from \in Nat /\ from + offset = p + y /\ z = y + r
    <2>1. z \in Nat /\ y \in Nat /\ r \in Nat /\ r = z - y /\ n \in Nat /\ n =< r
      BY <1>3, <1>4
    <2>2. y + n =< z /\ z = y + r
      BY <2>1
    <2>3. track * NSECTS + sector \in Nat
      BY <1>3, <1>5
    <2>4. \A a, b \in Nat : a * b \in Nat
      OBVIOUS
    <2>5. from \in Nat
      BY <1>5, <2>3, <2>4
    <2> QED
      BY <2>2, <2>5
  <1>8. track \in 0 .. Tracks - 1
    <2> SUFFICES ASSUME track >= Tracks PROVE FALSE
      BY <1>3, <1>5
    <2>1. (track * 16 + sector) * S >= track * 16 * S
      BY <1>3, <1>5, Z3
    <2>2. track * 16 * S >= Tracks * 16 * S
      BY <1>3, <1>5, Z3
    <2>3. from >= Tracks * 16 * S
      BY <1>3, <1>5, <2>1, <2>2
    <2>4. DISK_SIZE = Tracks * 16 * S
      BY <1>5 DEF DISK_SIZE
    <2> HIDE DEF from, p, z
    <2>5. /\ from \in Nat /\ p \in Nat /\ y \in Nat /\ z \in Nat /\ r \in Nat \ {0}
          /\ from + offset = p + y /\ z = y + r /\ offset \in Nat /\ p + z =< DISK_SIZE
      BY <1>3, <1>4, <1>7
    <2>6. from < DISK_SIZE /\ DISK_SIZE \in Int
      <3>1. DISK_SIZE \in Int
        BY <1>5, <2>4
      <3> QED
        BY <2>5, <3>1
    <2> QED
      BY <2>3, <2>4, <2>5, <2>6
  <1> HIDE DEF from, p, z, S
  <1>20. /\ from \in Nat /\ p \in Nat /\ y \in Nat /\ z \in Nat /\ r \in Nat \ {0} /\ n \in Nat \ {0}
         /\ from + offset = p + y /\ z = y + r /\ y + n =< z /\ offset \in Nat /\ p + z =< DISK_SIZE
         /\ S \in Nat \ {0} /\ offset + n =< S
    BY <1>3, <1>4, <1>5, <1>7 DEF S
  <1>9. \A a \in y .. y + n - 1 :
           ContentOf(track, NumberOf(track, sector))[offset + (a - y) + 1] = FileByte(f, a)
    <2> SUFFICES ASSUME NEW a \in y .. y + n - 1
                 PROVE  ContentOf(track, NumberOf(track, sector))[offset + (a - y) + 1] = FileByte(f, a)
      OBVIOUS
    <2>1. ContentOf(track, NumberOf(track, sector)) = [j \in 1 .. S |-> buffer[from + j - 1]]
      <3>1. mode # "diskto"
        OBVIOUS
      <3> QED
        BY <1>3, <1>8, <3>1, SectorRead DEF from, S
    <2> DEFINE j == offset + (a - y) + 1
    <2>3. j \in 1 .. S /\ from + j - 1 = p + a /\ a \in 0 .. z - 1
      BY <1>20
    <2> HIDE DEF j
    <2>4. ContentOf(track, NumberOf(track, sector))[j] = buffer[p + a]
      BY <2>1, <2>3
    <2> QED
      BY <1>6, <2>3, <2>4 DEF j
  <1>10. mem' = [j \in 0 .. y' - 1 |-> FileByte(f, j)]
    <2> HIDE DEF f
    <2>1. \A a \in 0 .. y + n - 1 :
             (IF a < y THEN mem[a]
              ELSE ContentOf(track, NumberOf(track, sector))[offset + (a - y) + 1]) = FileByte(f, a)
      <3> TAKE a \in 0 .. y + n - 1
      <3>1. CASE a < y
        <4>1. a \in 0 .. y - 1
          BY <1>20, <3>1
        <4> QED
          BY <1>3, <3>1, <4>1
      <3>2. CASE ~(a < y)
        <4>1. a \in y .. y + n - 1
          BY <1>20, <3>2
        <4> QED
          BY <1>9, <3>2, <4>1
      <3> QED
        BY <3>1, <3>2
    <2>2. [a \in 0 .. y + n - 1 |->
             IF a < y THEN mem[a]
             ELSE ContentOf(track, NumberOf(track, sector))[offset + (a - y) + 1]]
          = [a \in 0 .. y + n - 1 |-> FileByte(f, a)]
      BY <2>1
    <2>3. mem' = [a \in 0 .. y + n - 1 |-> FileByte(f, a)]
      BY <1>1, <2>2, Zenon
    <2>4. y' = y + n
      BY <1>1
    <2>5. 0 .. y' - 1 = 0 .. y + n - 1
      BY <1>20, <2>4
    <2> QED
      BY <2>3, <2>5, Zenon
  <1>11. track' \in Nat /\ sector' \in 0 .. NSECTS - 1 /\ (track' * NSECTS + sector') * S = from + S
    <2>1. CASE sector = NSECTS - 1
      <3>1. track' = track + 1 /\ sector' = 0 /\ sector = 15
        BY <1>1, <1>5, <2>1
      <3>2. ((track + 1) * 16 + 0) * S = (track * 16 + 15) * S + S
        BY <1>3, <1>5, Z3
      <3> QED
        BY <1>3, <1>5, <3>1, <3>2 DEF from
    <2>2. CASE sector # NSECTS - 1
      <3>1. track' = track /\ sector' = sector + 1
        BY <1>1, <2>2
      <3>2. (track * 16 + (sector + 1)) * S = (track * 16 + sector) * S + S
        BY <1>3, <1>5, Z3
      <3> QED
        BY <1>3, <1>5, <2>2, <3>1, <3>2 DEF from
    <2> QED
      BY <2>1, <2>2
  <1>12. nsect' \in Nat /\ (nsect' > 0 => from + S = p + y')
    <2>1. nsect > 1 => offset + n = S
      BY DEF S
    <2>2. nsect' = nsect - 1 /\ y' = y + n /\ nsect \in Nat \ {0}
      BY <1>1
    <2> QED
      BY <1>20, <2>1, <2>2
  <1>13. z - y' = r - n /\ y' \in 0 .. z /\ nsect' - 1 = nsect - 2
    <2>1. nsect' = nsect - 1 /\ y' = y + n /\ nsect \in Nat \ {0}
      BY <1>1
    <2> QED
      BY <1>20, <2>1
  <1>14. DiskTypeOK' /\ LaidInv' /\ MadeInv'
    <2>1. booted' \in Seq(Byte) /\ tries' \in Nat /\ UNCHANGED <<laid, disk>>
      BY <1>1 DEF DiskInv, DiskTypeOK
    <2>2. mode # "diskto" /\ mode' # "diskto" /\ mode' \in Modes
      BY DEF Modes
    <2> QED
      BY <2>1, <2>2, DiskStays
  <1>15. BootInv'
    <2>1. mode \in {"booted", "first", "sectors", "loaded"} /\ booted' = booted
      BY <1>1
    <2> QED
      BY <1>2, <2>1 DEF DiskInv, BootInv
  <1>16. /\ SizeOf(list[cur])' = z /\ Place(list[cur])' = p /\ list'[cur'].file = f
         /\ cur' \in DOMAIN list'
    BY <1>1, <1>2, <1>3 DEF SizeOf, Place, z, p
  <1>17. LoadInv'
    <2>1. z - y' =< nsect' * S /\ z - y' > (nsect' - 1) * S
      BY <1>1, <1>13 DEF S
    <2>2. nsect' > 0 => (track' * NSECTS + sector') * S = p + y'
      BY <1>11, <1>12
    <2> QED
      BY <1>10, <1>11, <1>12, <1>13, <1>16, <2>1, <2>2 DEF LoadInv, S
  <1> QED
    BY <1>14, <1>15, <1>17 DEF DiskInv

LEMMA FirstSectorStep == DiskInv /\ FirstSector => DiskInv'
  <1> SUFFICES ASSUME DiskInv, FirstSector PROVE DiskInv'
    OBVIOUS
  <1> DEFINE S == SECTOR_SIZE
  <1>0. PICK e : e = list[cur]
    OBVIOUS
  <1>1. mode = "first" /\ mode' = "sectors" /\ ldsec(e.offsa, e.sizea)
    BY <1>0 DEF FirstSector
  <1>2. /\ cur \in DOMAIN list /\ track \in Nat /\ sector \in 0 .. NSECTS - 1 /\ nsect \in Nat
        /\ y = 0 /\ e.sizea # 0 /\ nsect = e.nsec /\ track = e.track /\ sector = e.sect
    BY <1>0, <1>1 DEF DiskInv, LoadInv
  <1>3. /\ e \in Record /\ EntryOK(e) /\ SizeOf(e) \in Nat \ {0} /\ Place(e) \in Nat
    BY <1>0, <1>1, <1>2, EntryNumbers
  <1>4. PICK at \in 0 .. S - 1 : at = e.offsa
    <2>1. e.offsa \in Nat /\ e.offsa < S
      BY <1>3 DEF Record, EntryOK
    <2>2. e.offsa \in 0 .. S - 1
      BY <2>1, Sizes
    <2> QED
      BY <2>2
  <1>5. PICK z \in Nat \ {0} : z = SizeOf(e)
    BY <1>3
  <1>6. PICK n : n = e.sizea
    OBVIOUS
  <1>7. S \in Nat \ {0}
    BY Sizes
  <1>8. n = SizeA(at, z) /\ nsect = (at + z + S - 1) \div S /\ n # 0
    BY <1>2, <1>3, <1>4, <1>5, <1>6 DEF EntryOK
  <1>9. n = Least(z, S - at) /\ n \in 1 .. S - at /\ n =< z
    BY <1>7, <1>8, FirstPart
  <1>10. (track * NSECTS + sector) * S + at = Place(e) + y
    <2>1. Place(e) + y = Place(e)
      BY <1>2, <1>3
    <2> QED
      BY <1>2, <1>4, <2>1 DEF Place
  <1> HIDE DEF S
  <1>11. at + z =< nsect * S /\ at + z > (nsect - 1) * S
    BY <1>7, <1>8, RoundUp
  <1>12. nsect * S \in Nat /\ (nsect - 1) * S = nsect * S - S /\ (nsect - 2) * S = nsect * S - S - S
    BY <1>2, <1>7, Z3
  <1>13. nsect # 0
    <2> SUFFICES ASSUME nsect = 0 PROVE FALSE
      OBVIOUS
    <2>1. nsect * S = 0
      BY <1>7
    <2> QED
      BY <1>11, <2>1
  <1>14. nsect > 1 => n = S - at
    <2> SUFFICES ASSUME nsect > 1, n # S - at PROVE FALSE
      OBVIOUS
    <2>1. n = z /\ z < S - at
      BY <1>7, <1>9 DEF Least
    <2>2. (nsect - 1) * S >= S
      BY <1>2, <1>7, Z3
    <2> QED
      BY <1>7, <1>11, <1>12, <2>1, <2>2
  <1>15. z - n =< (nsect - 1) * S /\ z - n > (nsect - 2) * S
    <2>1. CASE n = S - at
      BY <1>7, <1>11, <1>12, <2>1
    <2>2. CASE n # S - at
      <3>1. n = z /\ ~(nsect > 1)
        BY <1>7, <1>9, <1>14, <2>2 DEF Least
      <3>2. nsect = 1
        BY <1>2, <1>13, <3>1
      <3>3. (nsect - 1) * S = 0 /\ (nsect - 2) * S = -S
        BY <1>7, <3>2
      <3> QED
        BY <1>7, <3>1, <3>3
    <2> QED
      BY <2>1, <2>2
  <1>16. /\ z = SizeOf(e) - y /\ nsect \in Nat \ {0} /\ at \in Nat /\ n \in Nat \ {0}
         /\ at + n =< S
    BY <1>2, <1>5, <1>7, <1>9, <1>13
  <1>17. nsect > 1 => at + n = S
    BY <1>7, <1>14
  <1>18. mode \in {"first", "sectors"} /\ ldsec(at, n)
    BY <1>1, <1>4, <1>6
  <1> QED
    BY <1>0, <1>1, <1>9, <1>10, <1>15, <1>16, <1>17, <1>18, ldsecStep DEF S

LEMMA NextSectorStep == DiskInv /\ NextSector => DiskInv'
  <1> SUFFICES ASSUME DiskInv, NextSector PROVE DiskInv'
    OBVIOUS
  <1> DEFINE S == SECTOR_SIZE
  <1>0. PICK e : e = list[cur]
    OBVIOUS
  <1>1. PICK n : /\ n = IF nsect = 1 /\ e.sizez # 0 THEN e.sizez ELSE S
                 /\ mode = "sectors" /\ nsect > 0 /\ mode' = mode /\ ldsec(0, n)
    BY <1>0 DEF NextSector, ThroughBuffer
  <1>2. /\ cur \in DOMAIN list /\ track \in Nat /\ sector \in 0 .. NSECTS - 1 /\ nsect \in Nat
        /\ y \in 0 .. SizeOf(e)
        /\ SizeOf(e) - y =< nsect * S /\ SizeOf(e) - y > (nsect - 1) * S
        /\ (track * NSECTS + sector) * S = Place(e) + y
    BY <1>0, <1>1 DEF DiskInv, LoadInv
  <1>3. /\ e \in Record /\ EntryOK(e) /\ SizeOf(e) \in Nat \ {0} /\ Place(e) \in Nat
    BY <1>0, <1>1, <1>2, EntryNumbers
  <1>4. S \in Nat \ {0} /\ NSECTS = 16
    BY Sizes
  <1> HIDE DEF S
  <1>5. nsect \in Nat \ {0} /\ y \in Nat
    BY <1>1, <1>2, <1>3
  <1>6. PICK r : r = SizeOf(e) - y
    OBVIOUS
  <1>7. /\ nsect * S \in Nat /\ (nsect - 1) * S = nsect * S - S /\ (nsect - 2) * S = nsect * S - S - S
        /\ (nsect - 1) * S >= 0
    BY <1>4, <1>5, Z3
  <1>8. r \in Nat \ {0} /\ r =< nsect * S /\ r > (nsect - 1) * S /\ SizeOf(e) = y + r
    <2>1. r =< nsect * S /\ r > (nsect - 1) * S
      BY <1>2, <1>6
    <2>2. SizeOf(e) \in Nat /\ y \in Nat
      BY <1>3, <1>5
    <2>3. r \in Int /\ SizeOf(e) = y + r
      BY <1>6, <2>2
    <2>4. nsect * S \in Nat /\ (nsect - 1) * S \in Int /\ (nsect - 1) * S >= 0
      BY <1>4, <1>7
    <2> QED
      BY <2>1, <2>3, <2>4
  <1>9. PICK q \in Int : q = track * NSECTS + sector
    BY <1>2, <1>4
  <1>10. e.sizez = (S * q + r) % S
    <2>1. e.sizez = (Place(e) + SizeOf(e)) % S
      BY <1>3 DEF EntryOK, S
    <2>2. q * S = Place(e) + y
      BY <1>2, <1>9
    <2>3. q * S = S * q /\ S * q \in Int
      BY <1>4, Z3
    <2>4. Place(e) \in Nat /\ y \in Nat /\ r \in Nat
      BY <1>3, <1>5, <1>8
    <2>5. Place(e) + SizeOf(e) = S * q + r
      BY <1>8, <2>2, <2>3, <2>4
    <2> QED
      BY <2>1, <2>5
  <1>11. nsect = 1 => n = r /\ r =< S
    <2> SUFFICES ASSUME nsect = 1 PROVE n = r /\ r =< S
      OBVIOUS
    <2>1. r \in 1 .. S
      <3>1. nsect * S = S
        BY <1>4
      <3> QED
        BY <1>4, <1>8, <3>1
    <2>2. CASE r = S
      <3>1. S * q + r = S * (q + 1) + 0 /\ q + 1 \in Int /\ 0 \in 0 .. S - 1
        BY <1>4, <2>2, Z3
      <3>2. (S * q + r) % S = 0
        BY <1>4, <3>1, Quotient
      <3> QED
        BY <1>1, <1>10, <2>1, <2>2, <3>2
    <2>3. CASE r # S
      <3>1. r \in 0 .. S - 1
        BY <1>4, <2>1, <2>3
      <3>2. (S * q + r) % S = r
        BY <1>4, <3>1, Quotient
      <3> QED
        BY <1>1, <1>10, <2>1, <3>2
    <2> QED
      BY <2>2, <2>3
  <1>12. nsect # 1 => n = S /\ S =< r
    <2> SUFFICES ASSUME nsect # 1 PROVE n = S /\ S =< r
      OBVIOUS
    <2>1. (nsect - 1) * S >= S
      <3>1. nsect - 1 \in Nat \ {0}
        BY <1>5
      <3>2. \A k \in Nat \ {0} : k * S >= S
        BY <1>4, Z3
      <3> QED
        BY <3>1, <3>2
    <2> QED
      BY <1>1, <1>4, <1>7, <1>8, <2>1
  <1>13. n \in Nat \ {0} /\ n =< r /\ 0 + n =< S /\ (nsect > 1 => 0 + n = S)
    BY <1>4, <1>5, <1>8, <1>11, <1>12
  <1>14. r - n =< (nsect - 1) * S /\ r - n > (nsect - 2) * S
    <2>1. CASE nsect = 1
      <3>1. (nsect - 1) * S = 0 /\ (nsect - 2) * S = -S
        BY <1>4, <2>1
      <3> QED
        BY <1>4, <1>8, <1>11, <2>1, <3>1
    <2>2. CASE nsect # 1
      BY <1>4, <1>7, <1>8, <1>12, <2>2
    <2> QED
      BY <2>1, <2>2
  <1>15. (track * NSECTS + sector) * S + 0 = Place(e) + y
    <2>1. (track * NSECTS + sector) * S \in Int
      BY <1>2, <1>4
    <2> QED
      BY <1>2, <2>1
  <1>16. mode \in {"first", "sectors"} /\ mode' = "sectors" /\ ldsec(0, n) /\ 0 \in Nat
    BY <1>1
  <1> QED
    BY <1>0, <1>5, <1>6, <1>8, <1>13, <1>14, <1>15, <1>16, ldsecStep DEF S

LEMMA LoadedStep == DiskInv /\ Loaded => DiskInv'
  <1> SUFFICES ASSUME DiskInv, Loaded PROVE DiskInv'
    OBVIOUS
  <1> DEFINE e == list[cur]
  <1>1. /\ mode = "sectors" /\ nsect = 0 /\ mode' = "loaded" /\ jumped' = e.exec
        /\ UNCHANGED <<laid, disk, booted, cur, nsect, track, sector, y, mem, tries>>
    BY DEF Loaded
  <1>2. UNCHANGED <<files, buffer, secnbr, list>>
    BY <1>1 DEF laid
  <1>3. DiskTypeOK' /\ LaidInv' /\ MadeInv'
    <2>1. booted' \in Seq(Byte) /\ tries' \in Nat /\ UNCHANGED <<laid, disk>>
      BY <1>1 DEF DiskInv, DiskTypeOK
    <2>2. mode # "diskto" /\ mode' # "diskto" /\ mode' \in Modes
      BY <1>1 DEF Modes
    <2> QED
      BY <2>1, <2>2, DiskStays
  <1>4. BootInv'
    BY <1>1, <1>2 DEF DiskInv, BootInv
  <1>5. /\ cur \in DOMAIN list /\ track \in Nat /\ sector \in 0 .. NSECTS - 1
        /\ nsect \in Nat /\ y \in 0 .. SizeOf(e)
        /\ mem = [j \in 0 .. y - 1 |-> FileByte(e.file, j)]
        /\ SizeOf(e) - y =< nsect * SECTOR_SIZE
    BY <1>1 DEF DiskInv, LoadInv
  <1>6. SizeOf(e) \in Nat
    BY <1>1, <1>5, EntryNumbers
  <1>7. y = SizeOf(e)
    <2>1. nsect * SECTOR_SIZE = 0
      BY <1>1, Sizes
    <2>2. y \in 0 .. SizeOf(e) /\ SizeOf(e) - y =< 0
      BY <1>5, <2>1
    <2> HIDE DEF e
    <2> QED
      BY <1>6, <2>2
  <1>8. SizeOf(list[cur])' = SizeOf(e) /\ list'[cur'] = e
    BY <1>1, <1>2 DEF SizeOf
  <1>9. LoadInv'
    BY <1>1, <1>2, <1>5, <1>7, <1>8 DEF LoadInv
  <1> QED
    BY <1>3, <1>4, <1>9 DEF DiskInv

-----------------------------------------------------------------------------
\* A step that changes nothing.
LEMMA DiskStutter == DiskInv /\ UNCHANGED diskvars => DiskInv'
  <1> SUFFICES ASSUME DiskInv, UNCHANGED diskvars PROVE DiskInv'
    OBVIOUS
  <1>1. UNCHANGED <<files, entry, pos, secnbr, buffer, list, disk, mode, booted,
              cur, nsect, track, sector, y, mem, jumped, tries>>
    BY DEF diskvars
  <1>2. Behind' = Behind
    BY <1>1 DEF Behind, list_size
  <1>3. DiskTypeOK' /\ MadeInv' /\ BootInv'
    BY <1>1 DEF DiskInv, DiskTypeOK, MadeInv, BootInv
  <1>4. LaidInv'
    BY <1>1, <1>2 DEF DiskInv, LaidInv, LoaderThere, EntryOK, EntryThere, FileThere, SizeOf, Place
  <1>5. LoadInv'
    BY <1>1 DEF DiskInv, LoadInv, SizeOf, Place
  <1> QED
    BY <1>3, <1>4, <1>5 DEF DiskInv

LEMMA DiskStep == DiskInv /\ [TrackDiskNext]_diskvars => DiskInv'
  BY LayLoaderStep, LayFileStep, create_diskStep, BootStep, ReadFailsStep, loadStep,
     FirstSectorStep, NextSectorStep, LoadedStep, DiskStutter, Zenon DEF TrackDiskNext

LEMMA DiskShows == DiskInv => LoadsTheFile
  <1> SUFFICES ASSUME DiskInv PROVE LoadsTheFile
    OBVIOUS
  <1>1. mode # "lost"
    BY DEF DiskInv, DiskTypeOK, Modes
  <1>2. ASSUME mode = "booted"
        PROVE  SubSeq(booted, 1, files[1].size) = [j \in 1 .. files[1].size |-> FileByte(1, j - 1)]
    <2> DEFINE a == files[1].size
    <2>1. /\ files \in Lists /\ a \in Nat /\ LoaderThere /\ Behind \in Nat
          /\ Behind =< (secnbr + 1) * SECTOR_SIZE
      BY <1>2, DiskMade
    <2>2. a =< Behind
      BY <2>1, ListFacts
    <2>3. /\ Len(booted) = (secnbr + 1) * SECTOR_SIZE /\ booted \in Seq(Byte)
          /\ \A i \in 1 .. Len(booted) : booted[i] = buffer[i - 1]
      BY <1>2 DEF DiskInv, DiskTypeOK, BootInv
    <2>4. \A p \in 0 .. a - 1 : buffer[p] = FileByte(1, p)
      BY <2>1 DEF LoaderThere
    <2> HIDE DEF a
    <2>5. a =< Len(booted) /\ Len(booted) \in Nat
      <3>1. Len(booted) \in Nat /\ Behind =< Len(booted)
        BY <2>1, <2>3
      <3> QED
        BY <2>1, <2>2, <3>1
    <2>6. \A j \in 1 .. a : booted[j] = FileByte(1, j - 1)
      <3> TAKE j \in 1 .. a
      <3>1. j \in 1 .. Len(booted) /\ j - 1 \in 0 .. a - 1
        BY <2>1, <2>5
      <3> QED
        BY <2>3, <2>4, <3>1
    <2>7. SubSeq(booted, 1, a) = [j \in 1 .. a |-> booted[j]]
      BY <2>1, <2>3, <2>5
    <2>8. SubSeq(booted, 1, a) = [j \in 1 .. a |-> FileByte(1, j - 1)]
      BY <2>6, <2>7
    <2> QED
      BY <2>8 DEF a
  <1>3. ASSUME mode = "loaded"
        PROVE  LET k == list[cur].file
               IN /\ mem = [j \in 0 .. files[k].size - 1 |-> FileByte(k, j)]
                  /\ jumped = files[k].exec
    <2>1. /\ cur \in DOMAIN list /\ y = SizeOf(list[cur]) /\ jumped = list[cur].exec
          /\ mem = [j \in 0 .. y - 1 |-> FileByte(list[cur].file, j)]
      BY <1>3 DEF DiskInv, LoadInv
    <2>2. EntryOK(list[cur])
      BY <1>3, <2>1, EntryNumbers
    <2> QED
      BY <2>1, <2>2 DEF EntryOK, SizeOf
  <1> QED
    BY <1>1, <1>2, <1>3 DEF LoadsTheFile

(***************************************************************************)
(* A file that the demo asks for is loaded whole, and nothing else is.     *)
(***************************************************************************)
THEOREM DemoLoadsTheFile == TrackDiskSpec => []LoadsTheFile
  <1>1. TrackDiskSpec => []DiskInv
    BY DiskInit, DiskStep, PTL DEF TrackDiskSpec
  <1> QED
    BY <1>1, DiskShows, PTL
=============================================================================
