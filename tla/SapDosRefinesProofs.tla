------------------------ MODULE SapDosRefinesProofs -------------------------
(***************************************************************************)
(* SapDos implements SapDirectory, for every geometry, every set of files  *)
(* and every sequence of calls.                                            *)
(***************************************************************************)
EXTENDS SapDosRefines, SapDosProofs

-----------------------------------------------------------------------------
(***************************************************************************)
(* Sums over sets, counted by pairs.                                       *)
(***************************************************************************)
Pairs(c, S) == UNION {{x} \X (1 .. c[x]) : x \in S}

\* The instance has a Cardinality of its own.
LEMMA SameCardinality ==
    ASSUME NEW S
    PROVE  Dictionary!Cardinality(S) = Cardinality(S)
BY DEF Dictionary!Cardinality, Cardinality

LEMMA TotalIs ==
    ASSUME NEW c, NEW S
    PROVE  Dictionary!Total(c, S) = Cardinality(Pairs(c, S))
BY SameCardinality DEF Dictionary!Total, Pairs

LEMMA PairsFinite ==
    ASSUME NEW S, IsFiniteSet(S), NEW c, \A x \in S : c[x] \in Nat
    PROVE  IsFiniteSet(Pairs(c, S)) /\ Cardinality(Pairs(c, S)) \in Nat
<1> DEFINE m == [x \in S |-> {x} \X (1 .. c[x])]
           T == {{x} \X (1 .. c[x]) : x \in S}
<1>1. m \in Surjection(S, T)
  <2>1. m \in [S -> T]
    OBVIOUS
  <2>2. \A t \in T : \E x \in S : m[x] = t
    OBVIOUS
  <2> QED
    BY <2>1, <2>2, Zenon DEF Surjection
<1>2. IsFiniteSet(T)
  <2> HIDE DEF m, T
  <2> QED
    BY <1>1, FS_Surjection
<1>3. ASSUME NEW x \in S PROVE IsFiniteSet({x} \X (1 .. c[x]))
  <2>1. IsFiniteSet({x})
    BY FS_Singleton
  <2>2. c[x] \in Int /\ 1 \in Int
    OBVIOUS
  <2>3. IsFiniteSet(1 .. c[x])
    BY <2>2, FS_Interval
  <2> QED
    BY <2>1, <2>3, FS_Product
<1>4. \A t \in T : IsFiniteSet(t)
  BY <1>3
<1>5. IsFiniteSet(UNION T)
  <2> HIDE DEF T
  <2> QED
    BY <1>2, <1>4, FS_UNION
<1> QED
  BY <1>5, FS_CardinalityType DEF Pairs

LEMMA OneMorePaired ==
    ASSUME NEW S, IsFiniteSet(S), NEW x, x \notin S, NEW c, c[x] \in Nat,
           \A y \in S : c[y] \in Nat
    PROVE  Cardinality(Pairs(c, S \cup {x})) = Cardinality(Pairs(c, S)) + c[x]
<1> DEFINE P == {x} \X (1 .. c[x])
<1>1. Pairs(c, S \cup {x}) = Pairs(c, S) \cup P
  BY DEF Pairs
<1>2. Pairs(c, S) \cap P = {}
  BY DEF Pairs
<1>3. IsFiniteSet(P) /\ Cardinality(P) = c[x]
  <2>1. IsFiniteSet({x}) /\ Cardinality({x}) = 1
    BY FS_Singleton
  <2>2. IsFiniteSet(1 .. c[x]) /\ Cardinality(1 .. c[x]) = c[x]
    <3>1. PICK m \in Nat : m = c[x]
      OBVIOUS
    <3>2. IsFiniteSet(1 .. m) /\ Cardinality(1 .. m) = m
      BY FS_Interval
    <3> QED
      BY <3>1, <3>2
  <2>3. IsFiniteSet(P) /\ Cardinality(P) = Cardinality({x}) * Cardinality(1 .. c[x])
    BY <2>1, <2>2, FS_Product
  <2> QED
    BY <2>1, <2>2, <2>3
<1>4. IsFiniteSet(Pairs(c, S)) /\ Cardinality(Pairs(c, S)) \in Nat
  BY PairsFinite
<1> HIDE DEF P
<1>5. Cardinality(Pairs(c, S) \cup P)
        = Cardinality(Pairs(c, S)) + Cardinality(P) - Cardinality(Pairs(c, S) \cap P)
  BY <1>3, <1>4, FS_Union
<1>6. Cardinality(Pairs(c, S) \cap P) = 0
  BY <1>2, FS_EmptySet
<1>7. PICK q \in Nat : q = Cardinality(Pairs(c, S))
  BY <1>4
<1>8. PICK m \in Nat : m = c[x]
  OBVIOUS
<1>9. Cardinality(Pairs(c, S) \cup P) = q + m - 0
  BY <1>3, <1>5, <1>6, <1>7, <1>8, Zenon
<1>10. q + m - 0 = q + m
  OBVIOUS
<1> QED
  BY <1>1, <1>7, <1>8, <1>9, <1>10, Zenon

-----------------------------------------------------------------------------
(***************************************************************************)
(* The blocks and the bytes of a dictionary.                               *)
(***************************************************************************)
Files == [Names -> HostFiles \cup {NoFile}]

Stored(G) == {nm \in Names : G[nm] # NoFile}

\* Blocks of a file, and of all the files of a dictionary.
Need(f) == (Size[f] + TO_BLOCKSIZE - 1) \div TO_BLOCKSIZE

BlocksIn(G) == [nm \in Stored(G) |-> Need(G[nm])]
BytesIn(G)  == [nm \in Stored(G) |-> Size[G[nm]]]
Taken(G)    == Cardinality(Pairs(BlocksIn(G), Stored(G)))

LEMMA DictionaryIs ==
    ASSUME NEW G
    PROVE  /\ Dictionary!In(G) = Stored(G) /\ Dictionary!BlocksOf(G) = BlocksIn(G)
           /\ Dictionary!BytesOf(G) = BytesIn(G)
           /\ \A f : Dictionary!Need(f) = Need(f)
BY DEF Dictionary!In, Dictionary!BlocksOf, Dictionary!BytesOf, Dictionary!Need,
       Stored, BlocksIn, BytesIn, Need

LEMMA BlockBytes == TO_BLOCKSIZE \in Nat \ {0}
<1>1. SectSize \in Nat \ {0} /\ SectPerBlock \in Nat \ {0}
  BY Geometry
<1>2. SectPerBlock * SectSize \in Nat \ {0}
  BY <1>1
<1> QED
  BY <1>2 DEF TO_BLOCKSIZE

LEMMA NeedType ==
    ASSUME NEW f \in HostFiles
    PROVE  Need(f) \in Nat
<1>1. Size[f] \in Nat
  BY FilesAssumption
<1>2. Size[f] + TO_BLOCKSIZE - 1 \in Nat
  BY <1>1, BlockBytes
<1>3. (Size[f] + TO_BLOCKSIZE - 1) \div TO_BLOCKSIZE \in Nat
  BY <1>2, BlockBytes
<1> QED
  BY <1>3 DEF Need

\* A file of k full blocks and a last one has k + 1 blocks.
LEMMA NeedIs ==
    ASSUME NEW f, NEW k \in Nat, NEW m \in 1 .. TO_BLOCKSIZE, Size[f] = k * TO_BLOCKSIZE + m
    PROVE  Need(f) = k + 1
<1>1. PICK x \in Nat : x = k * TO_BLOCKSIZE
  BY BlockBytes, Product
<1>2. (k + 1) * TO_BLOCKSIZE = x + TO_BLOCKSIZE
  BY <1>1, BlockBytes
<1>3. Size[f] + TO_BLOCKSIZE - 1 = (k + 1) * TO_BLOCKSIZE + (m - 1)
  BY <1>1, <1>2, BlockBytes
<1>4. m - 1 \in 0 .. TO_BLOCKSIZE - 1
  BY BlockBytes
<1>5. ((k + 1) * TO_BLOCKSIZE + (m - 1)) \div TO_BLOCKSIZE = k + 1
  BY <1>4, BlockBytes, QuotientIs
<1> QED
  BY <1>3, <1>5 DEF Need

LEMMA NeedOfPath ==
    ASSUME NEW f, NEW k \in Nat, NEW t \in 0 .. SectPerBlock - 1, NEW end \in 1 .. SectSize,
           Size[f] = (k * SectPerBlock + t) * SectSize + end
    PROVE  Need(f) = k + 1
<1> DEFINE m == t * SectSize + end
<1>1. k * SectPerBlock \in Nat /\ SectSize \in Nat \ {0} /\ SectPerBlock \in Nat
  BY Geometry, Product
<1>2. (k * SectPerBlock + t) * SectSize = (k * SectPerBlock) * SectSize + t * SectSize
  BY <1>1
<1>3. (k * SectPerBlock) * SectSize = k * TO_BLOCKSIZE
  BY <1>1 DEF TO_BLOCKSIZE
<1>4. t * SectSize \in Nat /\ t * SectSize =< (SectPerBlock - 1) * SectSize
  BY <1>1
<1>5. (SectPerBlock - 1) * SectSize = TO_BLOCKSIZE - SectSize
  BY <1>1 DEF TO_BLOCKSIZE
<1>6. m \in 1 .. TO_BLOCKSIZE
  BY <1>1, <1>4, <1>5, BlockBytes
<1>7. k * TO_BLOCKSIZE \in Nat
  BY BlockBytes, Product
<1>8. Size[f] = k * TO_BLOCKSIZE + m
  BY <1>1, <1>2, <1>3, <1>4, <1>7
<1> HIDE DEF m
<1> QED
  BY <1>6, <1>8, NeedIs

LEMMA TakenType ==
    ASSUME NEW G \in Files, IsFiniteSet(Stored(G))
    PROVE  Taken(G) \in Nat
<1>1. \A nm \in Stored(G) : BlocksIn(G)[nm] \in Nat
  <2> SUFFICES ASSUME NEW nm \in Stored(G) PROVE BlocksIn(G)[nm] \in Nat
    OBVIOUS
  <2>1. G[nm] \in HostFiles
    BY DEF Stored, Files
  <2>2. BlocksIn(G)[nm] = Need(G[nm])
    BY DEF BlocksIn
  <2> QED
    BY <2>1, <2>2, NeedType
<1> QED
  BY <1>1, PairsFinite DEF Taken

\* What is stored under a name adds its blocks to those of the others.
LEMMA TakenWith ==
    ASSUME NEW G \in Files, IsFiniteSet(Stored(G)), NEW nm \in Names, G[nm] = NoFile,
           NEW f \in HostFiles, NEW H, H = [G EXCEPT ![nm] = f]
    PROVE  /\ H \in Files /\ Stored(H) = Stored(G) \cup {nm} /\ nm \notin Stored(G)
           /\ IsFiniteSet(Stored(H))
           /\ Cardinality(Stored(H)) = Cardinality(Stored(G)) + 1
           /\ Taken(G) \in Nat /\ Taken(H) = Taken(G) + Need(f)
<1> DEFINE c == BlocksIn(G)
           d == BlocksIn(H)
<1>0. f # NoFile
  BY FilesAssumption
<1>1. /\ H \in Files /\ Stored(H) = Stored(G) \cup {nm} /\ nm \notin Stored(G)
  BY <1>0 DEF Files, Stored
<1>2. /\ IsFiniteSet(Stored(H)) /\ Cardinality(Stored(H)) = Cardinality(Stored(G)) + 1
  <2> DEFINE S == Stored(G)
  <2>1. IsFiniteSet(S) /\ nm \notin S /\ Stored(H) = S \cup {nm}
    BY <1>1
  <2> HIDE DEF S
  <2>2. IsFiniteSet(S \cup {nm}) /\ Cardinality(S \cup {nm}) = Cardinality(S) + 1
    BY <2>1, FS_AddElement
  <2> QED
    BY <2>1, <2>2 DEF S
<1>3. /\ c = [x \in Stored(G) |-> Need(G[x])] /\ d = [x \in Stored(H) |-> Need(H[x])]
  BY DEF BlocksIn
<1>4. \A x \in Stored(G) : c[x] \in Nat /\ d[x] = c[x]
  <2> SUFFICES ASSUME NEW x \in Stored(G) PROVE c[x] \in Nat /\ d[x] = c[x]
    OBVIOUS
  <2>1. x \in Names /\ G[x] \in HostFiles /\ x # nm /\ H[x] = G[x] /\ x \in Stored(H)
    BY <1>1 DEF Files, Stored
  <2>2. c[x] = Need(G[x]) /\ d[x] = Need(H[x])
    BY <1>3, <2>1
  <2> QED
    BY <2>1, <2>2, NeedType
<1>5. d[nm] = Need(f) /\ Need(f) \in Nat
  <2>1. nm \in Stored(H) /\ H[nm] = f
    BY <1>1 DEF Files
  <2> QED
    BY <1>3, <2>1, NeedType
<1> HIDE DEF c, d
<1>6. Cardinality(Pairs(d, Stored(G) \cup {nm})) = Cardinality(Pairs(d, Stored(G))) + d[nm]
  BY <1>1, <1>4, <1>5, OneMorePaired
<1>7. Pairs(d, Stored(G)) = Pairs(c, Stored(G))
  BY <1>4 DEF Pairs
<1>8. Cardinality(Pairs(c, Stored(G))) \in Nat
  BY <1>4, PairsFinite
<1>9. Taken(G) = Cardinality(Pairs(c, Stored(G))) /\ Taken(H) = Cardinality(Pairs(d, Stored(H)))
  BY DEF Taken, c, d
<1> QED
  BY <1>1, <1>2, <1>5, <1>6, <1>7, <1>8, <1>9

LEMMA TakenWithout ==
    ASSUME NEW G \in Files, IsFiniteSet(Stored(G)), NEW nm \in Names, NEW H,
           H = [G EXCEPT ![nm] = NoFile]
    PROVE  /\ H \in Files /\ Stored(H) = Stored(G) \ {nm} /\ IsFiniteSet(Stored(H))
           /\ Taken(H) \in Nat
           /\ G[nm] # NoFile => Taken(G) = Taken(H) + Need(G[nm])
           /\ Cardinality(Pairs(BlocksIn(G), Stored(G) \ {nm})) = Taken(H)
<1>1. H \in Files /\ Stored(H) = Stored(G) \ {nm} /\ H[nm] = NoFile
  BY DEF Files, Stored
<1>2. IsFiniteSet(Stored(H))
  BY <1>1, FS_RemoveElement
<1>3. ASSUME G[nm] # NoFile
      PROVE  Taken(G) = Taken(H) + Need(G[nm])
  <2>1. G[nm] \in HostFiles /\ G = [H EXCEPT ![nm] = G[nm]]
    BY <1>3 DEF Files
  <2> QED
    BY <1>1, <1>2, <2>1, TakenWith
<1> DEFINE c == BlocksIn(G)
           d == BlocksIn(H)
<1>4. /\ c = [x \in Stored(G) |-> Need(G[x])] /\ d = [x \in Stored(H) |-> Need(H[x])]
  BY DEF BlocksIn
<1>5. \A x \in Stored(H) : d[x] \in Nat /\ d[x] = c[x]
  <2> SUFFICES ASSUME NEW x \in Stored(H) PROVE d[x] \in Nat /\ d[x] = c[x]
    OBVIOUS
  <2>1. x \in Names /\ G[x] \in HostFiles /\ H[x] = G[x] /\ x \in Stored(G)
    BY <1>1 DEF Files, Stored
  <2>2. c[x] = Need(G[x]) /\ d[x] = Need(H[x])
    BY <1>4, <2>1
  <2>3. Need(G[x]) \in Nat
    BY <2>1, NeedType
  <2> QED
    BY <2>1, <2>2, <2>3
<1>6. Taken(H) = Cardinality(Pairs(d, Stored(H)))
  BY DEF Taken
<1> HIDE DEF c, d
<1>8. Pairs(d, Stored(H)) = Pairs(c, Stored(H))
  BY <1>5 DEF Pairs
<1>9. Taken(H) \in Nat
  BY <1>2, <1>5, <1>6, PairsFinite
<1> QED
  BY <1>1, <1>2, <1>3, <1>6, <1>8, <1>9 DEF c

-----------------------------------------------------------------------------
(***************************************************************************)
(* What the disk holds and what the listing functions tell of it.          *)
(***************************************************************************)

\* The FAT F, the directory D and the sectors X hold the files of G, and no others.
Keeps(G, F, D, X) == G \in Files /\ \A nm \in Names : Stands(nm, G[nm], F, D, X)

Capacity == NBlocks - Cardinality(Reserved)

\* Blocks that are neither free nor reserved are those of the files of G, and k more.
Spare(G, F, k) == get_dskf(F) + Taken(G) + k = Capacity

LEMMA StoredNames ==
    ASSUME NEW G, NEW F, NEW D \in [Entries -> Entry], NEW X, Keeps(G, F, D, X), Distinct(D, D)
    PROVE  LET used == {e \in Entries : D[e].name # NoName}
           IN  /\ Stored(G) = {D[e].name : e \in used}
               /\ IsFiniteSet(Stored(G)) /\ Cardinality(Stored(G)) \in Nat
               /\ Cardinality(Stored(G)) = Cardinality(used)
               /\ Cardinality(Stored(G)) =< NEntries
               /\ Cardinality(Stored(G)) < NEntries <=> \E e \in Entries : D[e].name = NoName
<1> DEFINE used == {e \in Entries : D[e].name # NoName}
           m == [e \in used |-> D[e].name]
<1>1. \A e \in used : e \in Entries /\ D[e].name \in Names
  BY DEF Entry
<1>2. \A nm \in Names : G[nm] = NoFile => \A e \in Entries : D[e].name # nm
  BY DEF Keeps, Stands
<1>3. \A nm \in Names : G[nm] # NoFile => \E e \in Entries : D[e].name = nm
  BY DEF Keeps, Stands
<1>4. \A e \in used : D[e].name \in Stored(G)
  BY <1>1, <1>2 DEF Stored
<1>5. \A nm \in Stored(G) : \E e \in used : D[e].name = nm
  BY <1>3, FilesAssumption DEF Stored
<1>6. Stored(G) = {D[e].name : e \in used}
  <2> HIDE DEF used
  <2> QED
    BY <1>4, <1>5
<1>7. m \in Bijection(used, Stored(G))
  <2>1. m \in [used -> Stored(G)]
    BY <1>4
  <2>2. IsInjective(m)
    BY DEF Distinct, IsInjective
  <2>3. \A t \in Stored(G) : \E s \in used : m[s] = t
    BY <1>5
  <2> HIDE DEF m, used
  <2> QED
    BY <2>1, <2>2, <2>3, Zenon DEF Bijection, Injection, Surjection
<1>8. /\ IsFiniteSet(Entries) /\ Cardinality(Entries) = NEntries /\ NEntries \in Nat
  BY GeometryAssumption, FS_Interval DEF Entries
<1>9. /\ IsFiniteSet(used) /\ Cardinality(used) =< NEntries
      /\ Cardinality(used) = NEntries => used = Entries
  <2>1. used \in SUBSET Entries
    OBVIOUS
  <2> HIDE DEF used
  <2> QED
    BY <1>8, <2>1, FS_Subset
<1>10. IsFiniteSet(Stored(G)) /\ Cardinality(Stored(G)) = Cardinality(used)
  <2> HIDE DEF m, used
  <2>1. ExistsBijection(used, Stored(G))
    BY <1>7 DEF ExistsBijection
  <2> QED
    BY <1>9, <2>1, FS_Bijection
<1>11. Cardinality(used) < NEntries <=> \E e \in Entries : D[e].name = NoName
  <2>1. CASE \E e \in Entries : D[e].name = NoName
    <3>1. Cardinality(used) # NEntries
      BY <1>9, <2>1
    <3>2. Cardinality(used) \in Nat
      BY <1>9, FS_CardinalityType
    <3> HIDE DEF used
    <3> QED
      BY <1>8, <1>9, <2>1, <3>1, <3>2
  <2>2. CASE \A e \in Entries : D[e].name # NoName
    <3>1. used = Entries
      BY <2>2
    <3> HIDE DEF used
    <3> QED
      BY <1>8, <2>2, <3>1
  <2> QED
    BY <2>1, <2>2
<1>12. Cardinality(used) \in Nat
  BY <1>9, FS_CardinalityType
<1> HIDE DEF used, m
<1>13. /\ Cardinality(Stored(G)) \in Nat /\ Cardinality(Stored(G)) =< NEntries
       /\ Cardinality(Stored(G)) < NEntries <=> \E e \in Entries : D[e].name = NoName
  BY <1>9, <1>10, <1>11, <1>12
<1> QED
  BY <1>6, <1>10, <1>13 DEF used

\* Reading the archive finds them.
LEMMA FilesRead ==
    ASSUME TypeOK, UniqueNames, NEW G, Keeps(G, fat, dir, data)
    PROVE  FilesOnDisk = G
<1>1. ASSUME NEW nm \in Names PROVE FilesOnDisk[nm] = G[nm]
  <2>1. CASE G[nm] = NoFile
    <3>1. {e \in Entries : dir[e].name = nm} = {}
      BY <2>1 DEF Keeps, Stands
    <3> QED
      BY <2>1, <3>1 DEF FilesOnDisk
  <2>2. CASE G[nm] # NoFile
    <3>1. /\ G[nm] \in HostFiles /\ EntryName[G[nm]] = nm /\ Size[G[nm]] > 0
          /\ \E e \in Entries : dir[e].name = nm /\ Holds(fat, data, dir[e].first, dir[e].end, G[nm])
      BY <2>2 DEF Keeps, Stands
    <3>2. PICK f \in HostFiles : f = G[nm]
      BY <3>1
    <3>3. PICK e \in Entries : dir[e].name = nm /\ Holds(fat, data, dir[e].first, dir[e].end, f)
      BY <3>1, <3>2
    <3>4. EntryName[f] = nm /\ Size[f] > 0
      BY <3>1, <3>2
    <3>5. FilesOnDisk[EntryName[f]] = f
      BY <3>3, <3>4, ListedFile
    <3> QED
      BY <3>2, <3>4, <3>5
  <2> QED
    BY <2>1, <2>2
<1>2. FilesOnDisk = [nm \in Names |-> FilesOnDisk[nm]]
  BY DEF FilesOnDisk
<1>3. G = [nm \in Names |-> G[nm]]
  BY DEF Keeps, Files
<1> HIDE DEF FilesOnDisk
<1> QED
  BY <1>1, <1>2, <1>3, Zenon

LEMMA CapacityBounds ==
    /\ Capacity \in Nat /\ Capacity =< TO_FILESIZE_MAX
    /\ get_dskf(FormattedFat) = Capacity
<1>1. PICK a \in Reserved, b \in Reserved : a # b
  BY Track20Assumption
<1>2. IsFiniteSet(Blocks) /\ Cardinality(Blocks) = NBlocks /\ NBlocks \in Nat
  BY Geometry, FS_Interval DEF Blocks
<1>3. IsFiniteSet(Reserved) /\ Cardinality(Reserved) =< NBlocks /\ Cardinality(Reserved) \in Nat
  <2>1. Reserved \in SUBSET Blocks
    BY GeometryAssumption
  <2> QED
    BY <1>2, <2>1, FS_Subset, FS_CardinalityType
<1>4. Cardinality(Reserved) >= 2
  <2>1. IsFiniteSet({a}) /\ Cardinality({a}) = 1
    BY FS_Singleton
  <2>2. IsFiniteSet({a} \cup {b}) /\ Cardinality({a} \cup {b}) = 1 + 1
    BY <1>1, <2>1, FS_AddElement
  <2>3. ({a} \cup {b}) \in SUBSET Reserved
    OBVIOUS
  <2>4. Cardinality({a} \cup {b}) =< Cardinality(Reserved)
    BY <1>3, <2>3, FS_Subset
  <2> QED
    BY <2>2, <2>4
<1>5. FreeBlocks(FormattedFat) = Blocks \ Reserved
  BY DEF FreeBlocks, FormattedFat, TO_TAG_RESERVED, TO_TAG_FREE
<1>6. Cardinality(Blocks \ Reserved) = Cardinality(Blocks) - Cardinality(Blocks \cap Reserved)
  BY <1>2, FS_Difference
<1>7. Blocks \cap Reserved = Reserved
  BY GeometryAssumption
<1> QED
  BY <1>2, <1>3, <1>4, <1>5, <1>6, <1>7, Geometry DEF Capacity, TO_FILESIZE_MAX, get_dskf

\* The loop of get_file_size, as a function.
OneMore(w, k) == LET c == w[k - 1]
                 IN IF c.block < NBlocks
                      THEN [block |-> fat[c.block], size |-> c.size + 1] ELSE c

Counts(w, b) ==
    w = [k \in 0 .. TO_FILESIZE_MAX |-> IF k = 0 THEN [block |-> b, size |-> 0] ELSE OneMore(w, k)]

CountFrom(b) == CHOOSE w : Counts(w, b)

LEMMA SizeIsCount ==
    ASSUME NEW e
    PROVE  get_file_size(e) = CountFrom(dir[e].first)[TO_FILESIZE_MAX].size
BY DEF get_file_size, CountFrom, Counts, OneMore

LEMMA SizeOfPath ==
    ASSUME NEW e \in Entries, NEW p \in Paths, NEW k \in Nat, k + 1 =< TO_FILESIZE_MAX,
           fat \in [Blocks -> Byte], p[0] = dir[e].first,
           Links(fat, p, k), p[k] \in Blocks, fat[p[k]] \notin Blocks
    PROVE  get_file_size(e) = k + 1
<1> DEFINE m == TO_FILESIZE_MAX
           At(a) == IF a =< k THEN p[a] ELSE fat[p[k]]
           Seen(a) == IF a =< k THEN a ELSE k + 1
           W == [a \in 0 .. m |-> [block |-> At(a), size |-> Seen(a)]]
           w == CountFrom(p[0])
<1>0. m \in Nat /\ NBlocks \in Nat /\ Blocks = 0 .. NBlocks - 1
  BY Geometry DEF Blocks
<1>1. \A a \in 0 .. k : p[a] < NBlocks /\ fat[p[a]] = At(a + 1)
  <2> TAKE a \in 0 .. k
  <2>1. CASE a = k
    BY <1>0, <2>1
  <2>2. CASE a # k
    <3>1. a \in 0 .. k - 1 /\ a + 1 =< k
      BY <2>2
    <3>2. p[a] \in Blocks /\ fat[p[a]] = p[a + 1]
      BY <3>1 DEF Links
    <3> QED
      BY <1>0, <3>1, <3>2
  <2> QED
    BY <2>1, <2>2
<1>2. ~ (fat[p[k]] < NBlocks)
  <2>1. PICK v \in Byte : v = fat[p[k]]
    OBVIOUS
  <2>2. v \notin Blocks
    BY <2>1
  <2>3. ~ (v < NBlocks)
    BY <2>2, Geometry DEF Byte, Blocks
  <2> QED
    BY <2>1, <2>3
<1>3. \A a \in 1 .. m : OneMore(W, a) = W[a]
  <2> TAKE a \in 1 .. m
  <2>1. a - 1 \in 0 .. m /\ a \in 0 .. m
    BY <1>0
  <2>2. /\ W[a - 1] = [block |-> At(a - 1), size |-> Seen(a - 1)]
        /\ W[a] = [block |-> At(a), size |-> Seen(a)]
    BY <2>1
  <2>3. CASE a - 1 =< k
    <3>1. At(a - 1) = p[a - 1] /\ p[a - 1] < NBlocks /\ fat[p[a - 1]] = At(a)
      <4>1. a - 1 \in 0 .. k /\ (a - 1) + 1 = a
        BY <2>1, <2>3
      <4>2. p[a - 1] < NBlocks /\ fat[p[a - 1]] = At((a - 1) + 1)
        BY <1>1, <4>1
      <4> QED
        BY <2>3, <4>1, <4>2
    <3>2. Seen(a) = Seen(a - 1) + 1
      BY <2>3
    <3> HIDE DEF W, At, Seen
    <3> QED
      BY <2>2, <3>1, <3>2 DEF OneMore
  <2>4. CASE ~ (a - 1 =< k)
    <3>1. At(a - 1) = fat[p[k]] /\ At(a) = fat[p[k]] /\ Seen(a) = Seen(a - 1)
      BY <2>4
    <3> HIDE DEF W, At, Seen
    <3> QED
      BY <1>2, <2>2, <3>1 DEF OneMore
  <2> QED
    BY <2>3, <2>4
<1>4. W[0] = [block |-> p[0], size |-> 0]
  BY <1>0
<1>5. Counts(W, p[0])
  <2>1. W = [a \in 0 .. m |-> W[a]]
    OBVIOUS
  <2>2. \A a \in 0 .. m : W[a] = IF a = 0 THEN [block |-> p[0], size |-> 0] ELSE OneMore(W, a)
    <3> TAKE a \in 0 .. m
    <3>1. a = 0 \/ a \in 1 .. m
      BY <1>0
    <3> HIDE DEF W
    <3> QED
      BY <1>3, <1>4, <3>1
  <2> HIDE DEF W
  <2> QED
    BY <2>1, <2>2 DEF Counts
<1>6. Counts(w, p[0])
  BY <1>5 DEF CountFrom
<1>7. \A a \in 0 .. m : w[a] = IF a = 0 THEN [block |-> p[0], size |-> 0] ELSE OneMore(w, a)
  BY <1>6 DEF Counts
<1> DEFINE S == {a \in Nat : a =< m => w[a] = W[a]}
<1>8. 0 \in S
  BY <1>0, <1>4, <1>7
<1>9. ASSUME NEW a \in S PROVE a + 1 \in S
  <2> SUFFICES ASSUME a + 1 =< m PROVE w[a + 1] = W[a + 1]
    OBVIOUS
  <2> HIDE DEF w, W
  <2>1. a \in Nat /\ a + 1 \in 1 .. m /\ a + 1 \in 0 .. m /\ (a + 1) - 1 = a
    BY <1>0
  <2>2. w[a] = W[a]
    BY <1>0
  <2>3. w[a + 1] = OneMore(w, a + 1) /\ W[a + 1] = OneMore(W, a + 1)
    BY <1>3, <1>7, <2>1
  <2> QED
    BY <2>1, <2>2, <2>3 DEF OneMore
<1>10. m \in S
  <2> HIDE DEF S
  <2>1. \A a \in Nat : a \in S
    <3>1. S \in SUBSET Nat
      BY DEF S
    <3> QED
      BY <1>8, <1>9, <3>1, EveryNumber
  <2> QED
    BY <1>0, <2>1
<1>11. w[m] = W[m]
  BY <1>0, <1>10
<1>12. W[m].size = k + 1
  <2>1. Seen(m) = k + 1
    BY <1>0
  <2>2. W[m] = [block |-> At(m), size |-> Seen(m)]
    BY <1>0
  <2> HIDE DEF At, Seen, W
  <2> QED
    BY <2>1, <2>2
<1> QED
  BY <1>11, <1>12, SizeIsCount

\* sap_GetFileInfo tells every block of the path once.
LEMMA BlocksOfPath ==
    ASSUME NEW e \in Entries, NEW f, NEW p \in Paths, NEW k \in Nat, k + 1 =< TO_FILESIZE_MAX,
           NEW t \in 0 .. SectPerBlock - 1, fat \in [Blocks -> Byte],
           FileAt(fat, data, dir[e].first, dir[e].end, f, p, k, t)
    PROVE  Cardinality(ToSet(BlocksTold(e))) = k + 1
<1>1. /\ p[0] = dir[e].first /\ Links(fat, p, k) /\ p[k] \in Blocks /\ fat[p[k]] \notin Blocks
  <2>1. TO_END_BLOCK_OFFSET + 1 + t \notin Blocks
    BY Geometry DEF Blocks, TO_END_BLOCK_OFFSET
  <2> QED
    BY <2>1 DEF FileAt, FullBlocks
<1>2. k \in 0 .. TO_FILESIZE_MAX
  BY Geometry
<1>3. PICK c : c = Chain(dir[e].first)
  OBVIOUS
<1>4. c = [j \in 1 .. k + 1 |-> p[j - 1]]
  BY <1>1, <1>2, <1>3, ChainOfPath
<1>5. c \in Seq(Byte) /\ Len(c) = k + 1
  <2>1. \A j \in 1 .. k + 1 : p[j - 1] \in Byte
    BY DEF Paths
  <2> QED
    BY <1>4, <2>1
<1>6. Min({Len(c), TO_FILESIZE_MAX}) = k + 1
  <2>1. {Len(c), TO_FILESIZE_MAX} \in SUBSET Nat
    BY <1>5, Geometry
  <2> DEFINE S == {Len(c), TO_FILESIZE_MAX}
  <2>2. Min(S) \in S /\ \A y \in S : Min(S) =< y
    BY <2>1, MinMember
  <2>3. Len(c) \in S
    OBVIOUS
  <2> QED
    BY <1>5, <2>2, <2>3, Geometry
<1>7. BlocksTold(e) = c
  <2>1. BlocksTold(e) = SubSeq(c, 1, k + 1)
    BY <1>3, <1>6 DEF BlocksTold
  <2>2. SubSeq(c, 1, k + 1) = c
    BY <1>5
  <2> QED
    BY <2>1, <2>2
<1>8. c \in Bijection(1 .. k + 1, ToSet(c))
  <2>1. c \in [1 .. k + 1 -> ToSet(c)] /\ \A y \in ToSet(c) : \E j \in 1 .. k + 1 : c[j] = y
    BY <1>4, <1>5 DEF ToSet
  <2>2. IsInjective(c)
    <3> SUFFICES ASSUME NEW i1 \in 1 .. k + 1, NEW j1 \in 1 .. k + 1, c[i1] = c[j1] PROVE i1 = j1
      BY <1>4 DEF IsInjective
    <3>1. i1 - 1 \in 0 .. k /\ j1 - 1 \in 0 .. k /\ p[i1 - 1] = p[j1 - 1]
      BY <1>4
    <3>2. \A a, b \in 0 .. k : p[a] = p[b] => a = b
      BY PathDistinct
    <3>3. i1 - 1 = j1 - 1
      BY <3>1, <3>2
    <3> QED
      BY <3>3
  <2> QED
    BY <2>1, <2>2, Zenon DEF Bijection, Injection, Surjection
<1>9. IsFiniteSet(1 .. k + 1) /\ Cardinality(1 .. k + 1) = k + 1
  BY FS_Interval
<1>10. Cardinality(ToSet(c)) = k + 1
  <2>1. ExistsBijection(1 .. k + 1, ToSet(c))
    BY <1>8 DEF ExistsBijection
  <2> QED
    BY <1>9, <2>1, FS_Bijection
<1> QED
  BY <1>7, <1>10

\* A file of the dictionary takes no more than the dictionary, which the disk holds.
LEMMA NeedBounded ==
    ASSUME NEW G \in Files, IsFiniteSet(Stored(G)), NEW F, NEW k \in Nat, Spare(G, F, k),
           NEW nm \in Names, G[nm] # NoFile
    PROVE  Need(G[nm]) \in Nat /\ Need(G[nm]) =< TO_FILESIZE_MAX
<1>1. PICK H : H = [G EXCEPT ![nm] = NoFile]
  OBVIOUS
<1>2. Taken(H) \in Nat /\ Taken(G) = Taken(H) + Need(G[nm])
  BY <1>1, TakenWithout
<1>3. G[nm] \in HostFiles
  BY DEF Files
<1>4. Need(G[nm]) \in Nat
  BY <1>3, NeedType
<1>5. get_dskf(F) \in Nat
  BY FreeFinite
<1> QED
  BY <1>2, <1>4, <1>5, CapacityBounds, Geometry DEF Spare

\* The entry of a name holds its file.
LEMMA EntryHolds ==
    ASSUME NEW G, NEW F, NEW D \in [Entries -> Entry], NEW X, Keeps(G, F, D, X), Distinct(D, D),
           NEW e \in Entries, D[e].name # NoName
    PROVE  /\ D[e].name \in Names /\ G[D[e].name] \in HostFiles
           /\ EntryName[G[D[e].name]] = D[e].name /\ Size[G[D[e].name]] > 0
           /\ \E p \in Paths, k \in Nat, t \in 0 .. SectPerBlock - 1 :
                 /\ FileAt(F, X, D[e].first, D[e].end, G[D[e].name], p, k, t)
                 /\ Need(G[D[e].name]) = k + 1
<1>1. PICK nm \in Names : nm = D[e].name
  BY DEF Entry
<1>2. Stands(nm, G[nm], F, D, X) /\ G \in Files
  BY DEF Keeps
<1>3. G[nm] # NoFile
  BY <1>1, <1>2 DEF Stands
<1>4. PICK f \in HostFiles : f = G[nm]
  BY <1>2, <1>3 DEF Files
<1>5. EntryName[f] = nm /\ Size[f] > 0
  BY <1>2, <1>3, <1>4 DEF Stands
<1>6. PICK d \in Entries : D[d].name = nm /\ Holds(F, X, D[d].first, D[d].end, f)
  BY <1>2, <1>3, <1>4 DEF Stands
<1>7. d = e
  BY <1>1, <1>6 DEF Distinct
<1>8. PICK p \in Paths, k \in 0 .. TO_FILESIZE_MAX, t \in 0 .. SectPerBlock - 1 :
          FileAt(F, X, D[e].first, D[e].end, f, p, k, t)
  BY <1>6, <1>7 DEF Holds
<1>9. k \in Nat
  BY Geometry
<1>10. D[e].end \in 1 .. SectSize /\ Size[f] = (k * SectPerBlock + t) * SectSize + D[e].end
  BY <1>8 DEF FileAt
<1>11. Need(f) = k + 1
  <2>1. PICK end \in 1 .. SectSize : end = D[e].end
    BY <1>10
  <2>2. Size[f] = (k * SectPerBlock + t) * SectSize + end
    BY <1>10, <2>1
  <2> QED
    BY <1>9, <2>2, NeedOfPath
<1>12. \E q \in Paths, j \in Nat, s \in 0 .. SectPerBlock - 1 :
          FileAt(F, X, D[e].first, D[e].end, f, q, j, s) /\ Need(f) = j + 1
  BY <1>8, <1>9, <1>11
<1> QED
  BY <1>1, <1>4, <1>5, <1>12

\* What is told of an entry.
LEMMA EntryTold ==
    ASSUME TypeOK, NEW G, Keeps(G, fat, dir, data), Distinct(dir, dir), Spare(G, fat, 0),
           NEW e \in Entries, dir[e].name # NoName
    PROVE  /\ get_file_size(e) = Need(G[dir[e].name])
           /\ Cardinality(ToSet(BlocksTold(e))) = Need(G[dir[e].name])
           /\ dir[e].end \div 256 = 0
<1>1. fat \in [Blocks -> Byte] /\ dir \in [Entries -> Entry] /\ G \in Files
  BY DEF TypeOK, Keeps
<1>2. PICK nm \in Names : nm = dir[e].name
  BY <1>1 DEF Entry
<1>3. PICK f \in HostFiles : f = G[nm]
  BY <1>1, <1>2, EntryHolds
<1>4. PICK p \in Paths, k \in Nat, t \in 0 .. SectPerBlock - 1 :
          FileAt(fat, data, dir[e].first, dir[e].end, f, p, k, t) /\ Need(f) = k + 1
  BY <1>1, <1>2, <1>3, EntryHolds
<1>5. k + 1 =< TO_FILESIZE_MAX
  <2>1. IsFiniteSet(Stored(G))
    BY <1>1, StoredNames
  <2>2. f # NoFile
    BY FilesAssumption
  <2> QED
    BY <1>1, <1>3, <1>4, <2>1, <2>2, NeedBounded
<1>6. /\ p[0] = dir[e].first /\ Links(fat, p, k) /\ p[k] \in Blocks /\ fat[p[k]] \notin Blocks
  <2>1. TO_END_BLOCK_OFFSET + 1 + t \notin Blocks
    BY Geometry DEF Blocks, TO_END_BLOCK_OFFSET
  <2> QED
    BY <1>4, <2>1 DEF FileAt, FullBlocks
<1>7. get_file_size(e) = k + 1
  BY <1>1, <1>5, <1>6, SizeOfPath
<1>8. Cardinality(ToSet(BlocksTold(e))) = k + 1
  BY <1>1, <1>4, <1>5, BlocksOfPath
<1>9. dir[e].end \div 256 = 0
  <2>1. dir[e].end \in 1 .. SectSize
    BY <1>4 DEF FileAt
  <2>2. PICK x \in 1 .. SectSize : x = dir[e].end
    BY <2>1
  <2>3. x \div 256 = 0
    BY Geometry, SectorAssumption
  <2> QED
    BY <2>2, <2>3
<1> QED
  BY <1>2, <1>3, <1>4, <1>7, <1>8, <1>9

\* What the listing functions tell is what the dictionary lists.
LEMMA ListingTold ==
    ASSUME TypeOK, NEW G, Keeps(G, fat, dir, data), Distinct(dir, dir), Spare(G, fat, 0)
    PROVE  Listing = Dictionary!Listing(G)
<1> DEFINE S == Stored(G)
           need == [nm \in Names |-> IF nm \in S THEN Need(G[nm]) ELSE 0]
           list == [lines |-> 1 + Cardinality(S), dskf |-> get_dskf(fat) * BlockKBytes,
                    entries |-> {<<nm, need[nm] * BlockKBytes>> : nm \in S}]
           info(nm) == [nblocks |-> need[nm], distinct |-> need[nm], size |-> need[nm] * TO_BLOCKSIZE]
<1>1. dir \in [Entries -> Entry] /\ G \in Files
  BY DEF TypeOK, Keeps
<1>2. /\ S = {dir[e].name : e \in Listed} /\ IsFiniteSet(S)
      /\ Cardinality(S) = Cardinality(Listed)
  BY <1>1, StoredNames DEF Listed
<1>3. ASSUME NEW e \in Listed
      PROVE  /\ get_file_size(e) = need[dir[e].name] /\ dir[e].name \in S
             /\ Cardinality(ToSet(BlocksTold(e))) = need[dir[e].name]
             /\ dir[e].end \div 256 = 0
  <2>1. e \in Entries /\ dir[e].name # NoName
    BY DEF Listed
  <2>2. dir[e].name \in S /\ dir[e].name \in Names
    BY <1>1, <1>2, <2>1 DEF Entry
  <2>3. need[dir[e].name] = Need(G[dir[e].name])
    BY <2>2
  <2> HIDE DEF need, S
  <2> QED
    BY <2>1, <2>2, <2>3, EntryTold
<1>4. sap_ListArchive = list
  <2>1. {<<dir[e].name, get_file_size(e) * BlockKBytes>> : e \in Listed}
          = {<<nm, need[nm] * BlockKBytes>> : nm \in S}
    <3> HIDE DEF need, S
    <3> QED
      BY <1>2, <1>3
  <2> HIDE DEF need, S
  <2> QED
    BY <1>2, <2>1 DEF sap_ListArchive
<1>5. ASSUME NEW nm \in Names PROVE InfoOf(nm) = info(nm)
  <2> DEFINE slots == {e \in Entries : dir[e].name = nm}
  <2>1. CASE nm \in S
    <3>1. PICK e \in Listed : dir[e].name = nm
      BY <1>2, <2>1
    <3>2. slots = {e}
      BY <3>1 DEF Listed, Distinct
    <3>3. Min(slots) = e
      <4>1. slots \in SUBSET Nat /\ slots # {}
        BY <3>2 DEF Entries
      <4> HIDE DEF slots
      <4>2. Min(slots) \in slots
        BY <4>1, MinMember
      <4> QED
        BY <3>2, <4>2
    <3>4. sap_GetFileInfo(nm) = [ret |-> SAP_OK, nblocks |-> get_file_size(e), block |-> BlocksTold(e),
                                 size |-> get_file_size(e) * TO_BLOCKSIZE + dir[e].end \div 256]
      <4>1. slots # {}
        BY <3>2
      <4> HIDE DEF slots
      <4>2. sap_GetFileInfo(nm) = [ret |-> SAP_OK, nblocks |-> get_file_size(Min(slots)),
                                   block |-> BlocksTold(Min(slots)),
                                   size |-> get_file_size(Min(slots)) * TO_BLOCKSIZE
                                            + dir[Min(slots)].end \div 256]
        BY <4>1 DEF sap_GetFileInfo, slots
      <4> QED
        BY <3>3, <4>2
    <3>5. need[nm] \in Nat
      <4>1. G[nm] \in HostFiles
        BY <1>1, <2>1 DEF Stored, Files
      <4> QED
        BY <2>1, <4>1, NeedType
    <3>6. need[nm] * TO_BLOCKSIZE + 0 = need[nm] * TO_BLOCKSIZE
      <4> HIDE DEF need
      <4> QED
        BY <3>5, BlockBytes
    <3> HIDE DEF need, S, slots
    <3>7. sap_GetFileInfo(nm) = [ret |-> SAP_OK, nblocks |-> need[nm], block |-> BlocksTold(e),
                                 size |-> need[nm] * TO_BLOCKSIZE]
      BY <1>3, <3>1, <3>4, <3>6
    <3>8. Cardinality(ToSet(BlocksTold(e))) = need[nm]
      BY <1>3, <3>1
    <3> QED
      BY <3>7, <3>8 DEF InfoOf
  <2>2. CASE nm \notin S
    <3>1. slots = {}
      <4>1. nm # NoName
        BY FilesAssumption
      <4> QED
        BY <1>2, <2>2, <4>1 DEF Listed
    <3>2. need[nm] = 0 /\ need[nm] * TO_BLOCKSIZE = 0
      BY <2>2, BlockBytes
    <3>3. sap_GetFileInfo(nm) = [ret |-> SAP_ERROR]
      BY <3>1 DEF sap_GetFileInfo
    <3>4. InfoOf(nm) = [nblocks |-> 0, size |-> 0, distinct |-> 0]
      BY <3>3 DEF InfoOf, SAP_OK, SAP_ERROR
    <3> HIDE DEF need, S, slots
    <3> QED
      BY <3>2, <3>4
  <2> QED
    BY <2>1, <2>2
<1>6. Listing = [list |-> list, info |-> [nm \in Names |-> info(nm)]]
  <2>1. [nm \in Names |-> InfoOf(nm)] = [nm \in Names |-> info(nm)]
    <3> HIDE DEF info
    <3> QED
      BY <1>5, Zenon
  <2> HIDE DEF list, info
  <2> QED
    BY <1>4, <2>1 DEF Listing
<1>7. Dictionary!Total(need, S) = Taken(G)
  <2> DEFINE c == BlocksIn(G)
  <2>1. \A nm \in S : c[nm] = need[nm]
    BY DEF BlocksIn, Stored
  <2> HIDE DEF need, c
  <2>2. Pairs(need, S) = Pairs(c, S)
    BY <2>1 DEF Pairs
  <2> QED
    BY <2>2, TotalIs DEF Taken, c
<1>8. Capacity - Dictionary!Total(need, S) = get_dskf(fat)
  <2>1. PICK x \in Nat : x = get_dskf(fat)
    BY FreeFinite
  <2>2. PICK y \in Nat : y = Taken(G)
    BY <1>1, <1>2, TakenType
  <2> QED
    BY <1>7, <2>1, <2>2, CapacityBounds DEF Spare
<1>9. Dictionary!Listing(G) = [list |-> list, info |-> [nm \in Names |-> info(nm)]]
  <2>1. Dictionary!In(G) = S
    BY DictionaryIs
  <2>2. [nm \in Names |-> IF nm \in Dictionary!In(G) THEN Dictionary!BlocksOf(G)[nm] ELSE 0] = need
    BY <2>1, DictionaryIs DEF BlocksIn
  <2>3. Dictionary!Listing(G) =
          [list |-> [lines |-> 1 + Dictionary!Cardinality(S),
                     dskf |-> (Capacity - Dictionary!Total(need, S)) * BlockKBytes,
                     entries |-> {<<nm, need[nm] * BlockKBytes>> : nm \in S}],
           info |-> [nm \in Names |-> [nblocks |-> need[nm], distinct |-> need[nm],
                                       size |-> need[nm] * TO_BLOCKSIZE]]]
    <3> HIDE DEF need, S
    <3> QED
      BY <2>1, <2>2, Zenon DEF Dictionary!Listing, Capacity
  <2> HIDE DEF need, S
  <2> QED
    BY <1>8, <2>3, SameCardinality
<1> QED
  BY <1>6, <1>9, Zenon

-----------------------------------------------------------------------------
(***************************************************************************)
(* The result of a call: from the record u of what was seen before it, to  *)
(* the dictionary G, the host files got, the value r and the errno er.     *)
(***************************************************************************)
Refusal(u, G, got, r, er, why) ==
    G = u.files /\ got = NothingExtracted /\ r = 0 /\ er = why

Without(u, nm)  == [u.files EXCEPT ![nm] = NoFile]
SlotFor(u, f)   == EntryName[f] \in Stored(u.files) \/ Cardinality(Stored(u.files)) < NEntries
SpaceFor(u, f)  == Taken(Without(u, EntryName[f])) + Need(f) =< Capacity

Added(u, G, got, r, er, f) ==
    \/ /\ Size[f] > 0 /\ SlotFor(u, f) /\ SpaceFor(u, f)
       /\ G = [u.files EXCEPT ![EntryName[f]] = f]
       /\ got = NothingExtracted /\ r = Size[f] /\ er = u.errno
    \/ Size[f] = 0 /\ Refusal(u, G, got, r, er, "ENFILE")
    \/ Size[f] > 0 /\ ~SlotFor(u, f) /\ Refusal(u, G, got, r, er, "ENOSPC")
    \/ Size[f] > 0 /\ SlotFor(u, f) /\ ~SpaceFor(u, f) /\ Refusal(u, G, got, r, er, "EFBIG")

Missing(u, S, w) == IF S \cap Stored(u.files) = {} /\ ~w THEN "ENOENT" ELSE u.errno

Emptied(u, S) == [nm \in Names |-> IF nm \in S THEN NoFile ELSE u.files[nm]]

Deleted(u, G, got, r, er, S, w) ==
    /\ G = Emptied(u, S) /\ got = NothingExtracted
    /\ r > 0 <=> S \cap Stored(u.files) # {}
    /\ er = Missing(u, S, w)

Read(u, O) == [nm \in Names |-> IF nm \in O THEN Content(u.files[nm]) ELSE <<>>]

BytesOfAll(u, O) == Cardinality(Pairs(BytesIn(u.files), O))

Extracted(u, G, got, r, er, S, w) ==
    \E O \in SUBSET (S \cap Stored(u.files)) :
        /\ G = u.files /\ got = Read(u, O) /\ r = BytesOfAll(u, O)
        /\ er = IF O # S \cap Stored(u.files) THEN "EPERM" ELSE Missing(u, S, w)

Pattern(S, w) == IF w THEN S \in Wildcards ELSE \E nm \in Names : S = {nm}

Answered(u, G, got, r, er) ==
    \/ u.call.op = "none" /\ G = u.files /\ got = u.got /\ r = u.ret /\ er = u.errno
    \/ u.call.op = "add" /\ u.call.file = NoFile /\ Refusal(u, G, got, r, er, "ENOENT")
    \/ \E f \in HostFiles : u.call.op = "add" /\ u.call.file = f /\ Added(u, G, got, r, er, f)
    \/ \E S \in SUBSET Names, w \in BOOLEAN :
          /\ u.call.pattern = S /\ u.call.wild = w
          /\ \/ u.call.op = "delete"  /\ Deleted(u, G, got, r, er, S, w)
             \/ u.call.op = "extract" /\ Extracted(u, G, got, r, er, S, w)

\* The request that seen holds is that of the call under way.
Agreed(u) == pc # "idle" => u.call = cmd

\* The program makes the call c.
Starts(c) ==
    \/ AddNoFile /\ c = Adding(NoFile)
    \/ \E f \in HostFiles : (AddEmptyFile(f) \/ AddDirFull(f) \/ AddFile(f)) /\ c = Adding(f)
    \/ (DeleteFile \/ ExtractFile) /\ c = cmd'

\* What the dictionary calls a request.
Asked(c) ==
    \/ \E f \in HostFiles \cup {NoFile} : c = Dictionary!Request("add", f, {}, FALSE)
    \/ \E op \in {"delete", "extract"} :
          \/ \E nm \in Names    : c = Dictionary!Request(op, NoFile, {nm}, FALSE)
          \/ \E S \in Wildcards : c = Dictionary!Request(op, NoFile, S, TRUE)

LEMMA RequestMade ==
    ASSUME NEW c, Starts(c)
    PROVE  Asked(c)
<1>1. ASSUME NEW f PROVE Adding(f) = Dictionary!Request("add", f, {}, FALSE)
  <2>1. PICK a : a = Adding(f)
    OBVIOUS
  <2>2. a = Dictionary!Request("add", f, {}, FALSE)
    BY <2>1 DEF Adding, NoCmd, Dictionary!Request
  <2> QED
    BY <2>1, <2>2
<1>2. ASSUME NEW op, NEW S, NEW w, ForEachFile(op, S, w)
      PROVE  cmd' = Dictionary!Request(op, NoFile, S, w)
  BY <1>2 DEF ForEachFile, NoCmd, Dictionary!Request
<1>3. CASE AddNoFile /\ c = Adding(NoFile)
  BY <1>1, <1>3 DEF Asked
<1>4. CASE \E f \in HostFiles : c = Adding(f)
  BY <1>1, <1>4 DEF Asked
<1>5. CASE DeleteFile /\ c = cmd'
  BY <1>2, <1>5 DEF DeleteFile, Asked
<1>6. CASE ExtractFile /\ c = cmd'
  BY <1>2, <1>6 DEF ExtractFile, Asked
<1> QED
  BY <1>3, <1>4, <1>5, <1>6 DEF Starts

\* What seen is, all the time.
SeenOK(u) ==
    /\ u.files \in Files /\ IsFiniteSet(Stored(u.files))
    /\ u.shown = Dictionary!Listing(u.files)

\* Such a result is the effect of that call on SapDirectory.
LEMMA AnswerIsCall ==
    ASSUME SeenOK(seen), NEW G, NEW got, NEW r, NEW er, Answered(seen, G, got, r, er),
           seen'.files = G, seen'.shown = Dictionary!Listing(G), seen'.got = got,
           seen'.ret = r, seen'.errno = er, Asked(seen'.call)
    PROVE  Dictionary!Next
<1>1. Dictionary!Stored = Stored(seen.files)
  BY DictionaryIs DEF Dictionary!Stored
<1>2. seen'.shown = Dictionary!Listing(seen'.files)
  OBVIOUS
<1>3. Dictionary!Nothing = NothingExtracted
  BY DEF Dictionary!Nothing, NothingExtracted
<1>4. ASSUME NEW why, Refusal(seen, G, got, r, er, why)
      PROVE  Dictionary!Refuse(why)
  BY <1>3, <1>4 DEF Refusal, Dictionary!Refuse
<1>5. ASSUME NEW f \in HostFiles
      PROVE  /\ Dictionary!HasSlot(f) <=> SlotFor(seen, f)
             /\ Dictionary!Fits(f) <=> SpaceFor(seen, f)
  <2>1. Dictionary!HasSlot(f) <=> SlotFor(seen, f)
    BY <1>1, SameCardinality DEF Dictionary!HasSlot, SlotFor
  <2>2. EntryName[f] \in Names
    BY FilesAssumption
  <2>3. PICK H : H = [seen.files EXCEPT ![EntryName[f]] = NoFile]
    OBVIOUS
  <2>4. PICK F : F = seen.files
    OBVIOUS
  <2>5. Cardinality(Pairs(BlocksIn(F), Stored(F) \ {EntryName[f]})) = Taken(H)
    BY <2>2, <2>3, <2>4, TakenWithout DEF SeenOK
  <2>6. Dictionary!TakenByOthers(EntryName[f]) = Taken(Without(seen, EntryName[f]))
    BY <1>1, <2>3, <2>4, <2>5, DictionaryIs, TotalIs DEF Dictionary!TakenByOthers, Without
  <2>7. Dictionary!Fits(f) <=> SpaceFor(seen, f)
    BY <2>6, DictionaryIs DEF Dictionary!Fits, SpaceFor, Capacity
  <2> QED
    BY <2>1, <2>7
<1>a. Dictionary!NextCall
  BY DEF Asked, Dictionary!NextCall
<1>6. CASE seen.call.op = "none" /\ G = seen.files /\ got = seen.got /\ r = seen.ret /\ er = seen.errno
  BY <1>2, <1>6, <1>a DEF Dictionary!Next, Dictionary!Effect
<1>7. CASE seen.call.op = "add" /\ seen.call.file = NoFile /\ Refusal(seen, G, got, r, er, "ENOENT")
  BY <1>2, <1>4, <1>7, <1>a DEF Dictionary!Next, Dictionary!Effect
<1>8. ASSUME NEW f \in HostFiles, seen.call.op = "add", seen.call.file = f,
             Added(seen, G, got, r, er, f)
      PROVE  Dictionary!Next
  <2>1. Dictionary!Add(f)
    BY <1>3, <1>4, <1>5, <1>8 DEF Added, Dictionary!Add
  <2>2. Dictionary!Effect
    BY <1>8, <2>1, FilesAssumption DEF Dictionary!Effect
  <2> QED
    BY <1>2, <1>a, <2>2 DEF Dictionary!Next
<1>9. ASSUME NEW S \in SUBSET Names, NEW w \in BOOLEAN, seen.call.op = "delete",
             seen.call.pattern = S, seen.call.wild = w, Deleted(seen, G, got, r, er, S, w)
      PROVE  Dictionary!Next
  <2>1. Dictionary!Delete(S, w)
    BY <1>1, <1>3, <1>9 DEF Deleted, Dictionary!Delete, Dictionary!NotFound, Missing, Emptied
  <2>2. Dictionary!Effect
    BY <1>9, <2>1 DEF Dictionary!Effect
  <2> QED
    BY <1>2, <1>a, <2>2 DEF Dictionary!Next
<1>10. ASSUME NEW S \in SUBSET Names, NEW w \in BOOLEAN, seen.call.op = "extract",
              seen.call.pattern = S, seen.call.wild = w, Extracted(seen, G, got, r, er, S, w)
       PROVE  Dictionary!Next
  <2>1. PICK O \in SUBSET (S \cap Stored(seen.files)) :
        /\ G = seen.files /\ got = Read(seen, O) /\ r = BytesOfAll(seen, O)
        /\ er = IF O # S \cap Stored(seen.files) THEN "EPERM" ELSE Missing(seen, S, w)
    BY <1>10 DEF Extracted
  <2>2. r = Dictionary!Total(Dictionary!BytesOf(seen.files), O)
    BY <2>1, DictionaryIs, TotalIs DEF BytesOfAll
  <2>3. Dictionary!Extract(S, w)
    BY <1>1, <2>1, <2>2 DEF Dictionary!Extract, Dictionary!NotFound, Missing, Read
  <2>4. Dictionary!Effect
    BY <1>10, <2>3 DEF Dictionary!Effect
  <2> QED
    BY <1>2, <1>a, <2>4 DEF Dictionary!Next
<1> QED
  BY <1>6, <1>7, <1>8, <1>9, <1>10 DEF Answered

-----------------------------------------------------------------------------
(***************************************************************************)
(* The inductive invariant: how far the buffer and the results of the      *)
(* command that runs are from the record u, seen when the call started.    *)
(***************************************************************************)
Kept(G) == Keeps(G, mfat, mdir, data)

Quiet(u) == errno = u.errno /\ extracted = NothingExtracted

\* The cursor has counted size blocks of the file f, and has the rest before it.
Trail(f, p, k, t) ==
    /\ Need(f) = k + 1 /\ k + 1 =< TO_FILESIZE_MAX /\ size =< k + 1
    /\ \A j \in size .. k :
          /\ p[j] \in Blocks
          /\ mfat[p[j]] = IF j = k THEN TO_END_BLOCK_OFFSET + 1 + t ELSE p[j + 1]
    /\ block = IF size =< k THEN p[size] ELSE TO_END_BLOCK_OFFSET + 1 + t

Trails(f) == \E p \in Paths, k \in Nat, t \in 0 .. SectPerBlock - 1 : Trail(f, p, k, t)

AtIdle(u) == \E G : Kept(G) /\ Spare(G, mfat, 0) /\ Answered(u, G, extracted, ret, errno)

\* sap_AddFile: the file that is replaced, counted ...
Old(u) == u.files[EntryName[cmd.file]]

AtSize(u) ==
    /\ Quiet(u) /\ Kept(u.files) /\ Spare(u.files, mfat, 0)
    /\ mdir[n].name = EntryName[cmd.file] /\ Trails(Old(u))

AtCheck(u) ==
    /\ Quiet(u) /\ Kept(u.files) /\ Spare(u.files, mfat, 0)
    /\ IF Old(u) = NoFile THEN mdir[n].name = NoName /\ size = 0
       ELSE mdir[n].name = EntryName[cmd.file] /\ size = Need(Old(u))

\* ... deleted, so that its slot is free, and replaced.
Cleared(u, k) ==
    /\ Quiet(u) /\ mdir[n].name = NoName
    /\ \E G : G = Without(u, EntryName[cmd.file]) /\ Kept(G) /\ Spare(G, mfat, k)

AtReplace(u) == \E f \in HostFiles : Trails(f) /\ Cleared(u, Need(f) - size)

AtAlloc(u) == Cleared(u, 0)

AtFill(u) == \E k \in Nat : Size[cmd.file] = k * TO_BLOCKSIZE + left /\ Cleared(u, k)

AtSaved(u) ==
    /\ Quiet(u) /\ ret = Size[cmd.file]
    /\ \E G : /\ G = [u.files EXCEPT ![EntryName[cmd.file]] = cmd.file]
              /\ Kept(G) /\ Spare(G, mfat, 0)

\* sap_DeleteFile has looked at the slots before SearchFrom, and deleted those files of
\* the pattern that G has not.
Kind == Pattern(cmd.pattern, cmd.wild)

Shrunk(u, G) ==
    \A nm \in Names : G[nm] = u.files[nm] \/ (nm \in cmd.pattern /\ G[nm] = NoFile)

Passed == \A e \in Entries : e < SearchFrom => mdir[e].name \notin cmd.pattern

AtSeekDelete(u) ==
    /\ Quiet(u) /\ Kind /\ Passed
    /\ \E G : /\ Kept(G) /\ Shrunk(u, G) /\ Spare(G, mfat, 0)
              /\ ret > 0 <=> G # u.files
              /\ ~cmd.wild => G = u.files

AtDelete(u) ==
    /\ Quiet(u) /\ Kind /\ Passed
    /\ ~cmd.wild => \A e \in Entries : mdir[e].name \notin cmd.pattern
    /\ \E G, f : /\ f \in HostFiles /\ Trails(f)
                 /\ Kept(G) /\ Shrunk(u, G) /\ G # u.files /\ Spare(G, mfat, Need(f) - size)

AtDeleted(u) ==
    /\ extracted = NothingExtracted /\ Kind
    /\ \E G : G = Emptied(u, cmd.pattern) /\ Kept(G) /\ Spare(G, mfat, 0)
    /\ ret > 0 <=> cmd.pattern \cap Stored(u.files) # {}
    /\ errno = Missing(u, cmd.pattern, cmd.wild)

\* sap_ExtractFile has looked at the slots before Looked, has written the files O, and
\* could not write others.
Looked     == IF ~cmd.wild /\ pc = "read" THEN n + 1 ELSE SearchFrom
Behind(O)  == \A e \in Entries : mdir[e].name \in O => e < Looked
Refused(O) == \E e \in Entries : e < Looked /\ mdir[e].name \in cmd.pattern \ O

Reading(u, O) ==
    /\ Kept(u.files) /\ Spare(u.files, mfat, 0) /\ Kind
    /\ O \in SUBSET (cmd.pattern \cap Stored(u.files)) /\ Behind(O)
    /\ errno = IF Refused(O) THEN "EPERM" ELSE u.errno

AtSeekExtract(u) == \E O : Reading(u, O) /\ extracted = Read(u, O) /\ ret = BytesOfAll(u, O)

\* The file under way: its first size blocks are read.
Half(f, p, k, t) ==
    /\ FileAt(mfat, data, mdir[n].first, mdir[n].end, f, p, k, t)
    /\ size =< k /\ k + 1 =< TO_FILESIZE_MAX /\ block = p[size]

AtRead(u) ==
    \E O : \E nm \in Names, f \in HostFiles :
        /\ Reading(u, O) /\ nm = mdir[n].name /\ nm \in O /\ f = u.files[nm]
        /\ \E p \in Paths, k \in Nat, t \in 0 .. SectPerBlock - 1 : Half(f, p, k, t)
        /\ extracted = [Read(u, O) EXCEPT ![nm] = SubSeq(Content(f), 1, size * SectPerBlock)]
        /\ ret = BytesOfAll(u, O \ {nm})

Stage(u) ==
    /\ pc = "idle"  => AtIdle(u)
    /\ pc = "size"  => AtSize(u)
    /\ pc = "check" => AtCheck(u)
    /\ pc = "alloc" => AtAlloc(u)
    /\ pc = "fill"  => AtFill(u)
    /\ pc = "delete" /\ cmd.op = "add"    => AtReplace(u)
    /\ pc = "delete" /\ cmd.op = "delete" => AtDelete(u)
    /\ pc = "save" /\ cmd.op = "add"      => AtSaved(u)
    /\ pc = "save" /\ cmd.op = "delete"   => AtDeleted(u)
    /\ pc = "seek" /\ cmd.op = "delete"   => AtSeekDelete(u)
    /\ pc = "seek" /\ cmd.op = "extract"  => AtSeekExtract(u)
    /\ pc = "read"  => AtRead(u)

Sound == IInv /\ SpaceInv /\ FillInv

RInv == Sound /\ \E u : u = seen /\ SeenOK(u) /\ Stage(u) /\ Agreed(u)

-----------------------------------------------------------------------------
LEMMA SoundFacts ==
    ASSUME Sound
    PROVE  /\ TypeInv /\ TypeOK /\ RequestOK /\ NamesInv /\ SingleReferrer /\ ReferredInUse
           /\ Synced /\ Saved /\ IndexInv
           /\ fat \in [Blocks -> Byte] /\ mfat \in [Blocks -> Byte]
           /\ dir \in [Entries -> Entry] /\ mdir \in [Entries -> Entry]
           /\ Distinct(mdir, mdir) /\ Distinct(dir, dir)
           /\ size \in Nat /\ ret \in Nat /\ n \in Entries /\ i \in 0 .. NEntries
           /\ cmd \in Cmd /\ TO_FILESIZE_MAX \in Nat
BY Geometry DEF Sound, IInv, FillInv, Basics, TypeInv, TypeOK, NamesInv

\* The size test of sap_AddFile, as a count of blocks.
LEMMA RoomIsNeed ==
    ASSUME NEW f \in HostFiles, NEW x \in Nat
    PROVE  x * TO_BLOCKSIZE >= Size[f] <=> Need(f) =< x
<1> DEFINE d == TO_BLOCKSIZE
<1>1. d \in Nat \ {0} /\ Size[f] \in Nat
  BY BlockBytes, FilesAssumption
<1>2. PICK m \in Nat : m = Size[f]
  BY <1>1
<1>3. PICK q \in Nat : q = Need(f)
  BY NeedType
<1>4. m + d - 1 \in Int /\ q = (m + d - 1) \div d
  BY <1>1, <1>2, <1>3 DEF Need
<1> HIDE DEF d
<1>5. d * q =< m + d - 1 /\ m + d - 1 < d * q + d
  BY <1>1, <1>4, Quotient
<1>6. PICK y \in Nat : y = d * q
  BY <1>1, Product
<1>7. PICK z \in Nat : z = d * x /\ z = x * d
  BY <1>1, Product
<1>8. ASSUME q =< x PROVE z >= m
  <2>1. d * q =< d * x
    BY <1>1, <1>8
  <2> QED
    BY <1>1, <1>5, <1>6, <1>7, <2>1
<1>9. ASSUME z >= m PROVE q =< x
  <2>1. d * (q - 1) = d * q - d
    BY <1>1
  <2>2. d * (q - 1) < d * x
    BY <1>1, <1>5, <1>6, <1>7, <1>9, <2>1
  <2>3. q - 1 \in Int /\ x \in Int
    OBVIOUS
  <2>4. q - 1 < x
    BY <1>1, <2>2, <2>3, Monotone
  <2> QED
    BY <2>4
<1> QED
  BY <1>2, <1>3, <1>7, <1>8, <1>9 DEF d

-----------------------------------------------------------------------------
(***************************************************************************)
(* The cursor on the blocks of a file.                                     *)
(***************************************************************************)
LEMMA TrailStarts ==
    ASSUME Sound, NEW G, Kept(G), Spare(G, mfat, 0), NEW e \in Entries, Live(e)
    PROVE  /\ mdir[e].name \in Names /\ G[mdir[e].name] \in HostFiles
           /\ \E p \in Paths, k \in Nat, t \in 0 .. SectPerBlock - 1 :
                 /\ FileAt(mfat, data, mdir[e].first, mdir[e].end, G[mdir[e].name], p, k, t)
                 /\ Need(G[mdir[e].name]) = k + 1 /\ k + 1 =< TO_FILESIZE_MAX
<1>1. mdir \in [Entries -> Entry] /\ Distinct(mdir, mdir)
  BY SoundFacts
<1>2. Keeps(G, mfat, mdir, data) /\ G \in Files
  BY DEF Kept, Keeps
<1>3. PICK nm \in Names : nm = mdir[e].name
  BY <1>1 DEF Live, Entry
<1>4. PICK f \in HostFiles : f = G[nm]
  BY <1>1, <1>2, <1>3, EntryHolds DEF Live
<1>5. PICK p \in Paths, k \in Nat, t \in 0 .. SectPerBlock - 1 :
          FileAt(mfat, data, mdir[e].first, mdir[e].end, f, p, k, t) /\ Need(f) = k + 1
  BY <1>1, <1>2, <1>3, <1>4, EntryHolds DEF Live
<1>6. k + 1 =< TO_FILESIZE_MAX
  <2>1. IsFiniteSet(Stored(G)) /\ f # NoFile
    BY <1>1, <1>2, StoredNames, FilesAssumption
  <2> QED
    BY <1>2, <1>3, <1>4, <1>5, <2>1, NeedBounded
<1> QED
  BY <1>3, <1>4, <1>5, <1>6

\* The trail of a file whose first block the cursor is put on.
LEMMA TrailFrom ==
    ASSUME NEW f, NEW F, NEW X, NEW first, NEW end, NEW p \in Paths, NEW k \in Nat,
           NEW t \in 0 .. SectPerBlock - 1, FileAt(F, X, first, end, f, p, k, t),
           Need(f) = k + 1, k + 1 =< TO_FILESIZE_MAX,
           mfat' = F, size' = 0, block' = first
    PROVE  Trails(f)'
<1>1. ASSUME NEW j \in 0 .. k
      PROVE  /\ p[j] \in Blocks
             /\ F[p[j]] = IF j = k THEN TO_END_BLOCK_OFFSET + 1 + t ELSE p[j + 1]
  <2>1. j = k \/ j \in 0 .. k - 1
    OBVIOUS
  <2> QED
    BY <2>1 DEF FileAt, FullBlocks, Links
<1>2. p[0] = first
  BY DEF FileAt
<1>3. Trail(f, p, k, t)'
  BY <1>1, <1>2 DEF Trail
<1> QED
  BY <1>3 DEF Trails

LEMMA TrailEnds ==
    ASSUME TypeOK, NEW f, Trails(f), ~InChain(block)
    PROVE  size = Need(f)
<1>1. PICK p \in Paths, k \in Nat, t \in 0 .. SectPerBlock - 1 : Trail(f, p, k, t)
  BY DEF Trails
<1>2. size \in Nat
  BY Geometry DEF TypeOK
<1>3. CASE size =< k
  <2>1. block \in Blocks
    BY <1>1, <1>2, <1>3 DEF Trail
  <2> QED
    BY <1>1, <1>2, <1>3, <2>1, Geometry DEF Trail, InChain, Blocks
<1> QED
  BY <1>1, <1>2, <1>3 DEF Trail

\* One block further, also when the block that is left is freed.
LEMMA TrailGoesOn ==
    ASSUME TypeOK, NEW f, Trails(f), InChain(block), block \in Byte,
           size' = size + 1, block' = mfat[block],
           \/ mfat' = mfat
           \/ mfat' = [mfat EXCEPT ![block] = TO_TAG_FREE] /\ \A c \in Blocks : mfat[c] # block
    PROVE  Trails(f)' /\ block \in Blocks /\ mfat[block] # TO_TAG_FREE /\ size < Need(f)
<1>1. PICK p \in Paths, k \in Nat, t \in 0 .. SectPerBlock - 1 : Trail(f, p, k, t)
  BY DEF Trails
<1>2. size \in Nat /\ NBlocks \in 4 .. 192 /\ SectPerBlock \in 1 .. 61
  BY Geometry DEF TypeOK
<1>3. block \in Blocks
  BY <1>2 DEF InChain, Byte, Blocks
<1>4. size =< k
  <2>1. CASE size > k
    <3>1. block = TO_END_BLOCK_OFFSET + 1 + t
      BY <1>1, <1>2, <2>1 DEF Trail
    <3> QED
      BY <1>2, <1>3, <3>1 DEF Blocks, TO_END_BLOCK_OFFSET
  <2> QED
    BY <1>2, <2>1
<1>5. block = p[size] /\ Need(f) = k + 1
  BY <1>1, <1>4 DEF Trail
<1>6. mfat[block] = IF size = k THEN TO_END_BLOCK_OFFSET + 1 + t ELSE p[size + 1]
  BY <1>1, <1>2, <1>4, <1>5 DEF Trail
<1>7. mfat[block] # TO_TAG_FREE
  <2>1. CASE size = k
    BY <1>2, <1>6, <2>1 DEF TO_END_BLOCK_OFFSET, TO_TAG_FREE
  <2>2. CASE size # k
    <3>1. size + 1 \in size .. k
      BY <1>2, <1>4, <2>2
    <3>2. p[size + 1] \in Blocks
      BY <1>1, <3>1 DEF Trail
    <3> QED
      BY <1>2, <1>6, <2>2, <3>2 DEF Blocks, TO_TAG_FREE
  <2> QED
    BY <2>1, <2>2
<1>8. ASSUME NEW j \in size + 1 .. k
      PROVE  p[j] \in Blocks /\ mfat'[p[j]] = mfat[p[j]]
             /\ mfat[p[j]] = IF j = k THEN TO_END_BLOCK_OFFSET + 1 + t ELSE p[j + 1]
  <2>1. j \in size .. k /\ j - 1 \in size .. k /\ j - 1 # k /\ (j - 1) + 1 = j
    BY <1>2
  <2>2. p[j] \in Blocks /\ mfat[p[j]] = IF j = k THEN TO_END_BLOCK_OFFSET + 1 + t ELSE p[j + 1]
    BY <1>1, <2>1 DEF Trail
  <2>3. p[j - 1] \in Blocks /\ mfat[p[j - 1]] = p[j]
    <3>1. PICK a : a = j - 1
      OBVIOUS
    <3>2. a \in size .. k /\ a # k /\ a + 1 = j
      BY <2>1, <3>1
    <3>3. p[a] \in Blocks /\ mfat[p[a]] = p[a + 1]
      BY <1>1, <3>2 DEF Trail
    <3> QED
      BY <3>1, <3>2, <3>3
  <2>4. mfat'[p[j]] = mfat[p[j]]
    <3>1. CASE mfat' = mfat
      BY <3>1
    <3>2. CASE mfat' = [mfat EXCEPT ![block] = TO_TAG_FREE] /\ \A c \in Blocks : mfat[c] # block
      <4>1. p[j] # block
        BY <2>3, <3>2
      <4> QED
        BY <2>2, <3>2, <4>1 DEF TypeOK
    <3> QED
      BY <3>1, <3>2
  <2> QED
    BY <2>2, <2>4
<1>9. block' = IF size + 1 =< k THEN p[size + 1] ELSE TO_END_BLOCK_OFFSET + 1 + t
  BY <1>2, <1>4, <1>6
<1>10. Trail(f, p, k, t)'
  <2>1. size' =< k + 1 /\ size' = size + 1
    BY <1>2, <1>4
  <2>2. \A j \in size' .. k :
          /\ p[j] \in Blocks
          /\ mfat'[p[j]] = IF j = k THEN TO_END_BLOCK_OFFSET + 1 + t ELSE p[j + 1]
    BY <1>8
  <2> QED
    BY <1>1, <1>9, <2>1, <2>2 DEF Trail
<1> QED
  BY <1>2, <1>3, <1>4, <1>5, <1>7, <1>10 DEF Trails

-----------------------------------------------------------------------------
(***************************************************************************)
(* What a command does to one block or one entry, the files of others keep *)
(* their entries, blocks and sectors.                                      *)
(***************************************************************************)
SameBut(b, F, X, G, Y) ==
    \A c \in Blocks : c # b =>
        /\ G[c] = F[c]
        /\ \A s \in 0 .. SectPerBlock - 1 : Y[c * SectPerBlock + s] = X[c * SectPerBlock + s]

SameEntry(nm, D, E) == \A e \in Entries : D[e].name = nm \/ E[e].name = nm => E[e] = D[e]

LEMMA StandsBeside ==
    ASSUME NEW F, NEW D, NEW X, NEW G, NEW E, NEW Y, NEW b, SameBut(b, F, X, G, Y),
           NEW nm, NEW g, Stands(nm, g, F, D, X), SameEntry(nm, D, E),
           \/ F[b] = TO_TAG_FREE
           \/ /\ \A e \in Entries : D[e].name = nm => D[e].first # b
              /\ \A c \in Blocks : F[c] # b
    PROVE  Stands(nm, g, G, E, Y)
<1>1. CASE g = NoFile
  BY <1>1 DEF Stands, SameEntry
<1>2. CASE g # NoFile
  <2>1. /\ g \in HostFiles /\ EntryName[g] = nm /\ Size[g] > 0
        /\ \E e \in Entries : D[e].name = nm /\ Holds(F, X, D[e].first, D[e].end, g)
    BY <1>2 DEF Stands
  <2>2. PICK e \in Entries : D[e].name = nm /\ Holds(F, X, D[e].first, D[e].end, g)
    BY <2>1
  <2>3. E[e] = D[e]
    BY <2>2 DEF SameEntry
  <2>4. PICK first, end : first = D[e].first /\ end = D[e].end
    OBVIOUS
  <2>5. PICK p \in Paths, k \in 0 .. TO_FILESIZE_MAX, t \in 0 .. SectPerBlock - 1 :
            FileAt(F, X, first, end, g, p, k, t)
    BY <2>2, <2>4 DEF Holds
  <2>6. k \in Nat
    BY Geometry
  <2>7. \A j \in 0 .. k : p[j] \in Blocks /\ F[p[j]] # TO_TAG_FREE
    BY <2>5, <2>6, PathUsed
  <2>8. ASSUME NEW j \in 0 .. k PROVE p[j] # b
    <3>1. CASE F[b] = TO_TAG_FREE
      BY <2>7, <3>1
    <3>2. CASE /\ \A d \in Entries : D[d].name = nm => D[d].first # b
               /\ \A c \in Blocks : F[c] # b
      <4>1. CASE j = 0
        BY <2>2, <2>4, <2>5, <3>2, <4>1 DEF FileAt
      <4>2. CASE j # 0
        <5>1. PICK a : a = j - 1
          OBVIOUS
        <5>2. a \in 0 .. k - 1 /\ j = a + 1
          BY <2>6, <4>2, <5>1
        <5>3. p[a] \in Blocks /\ F[p[a]] = p[j]
          BY <2>5, <5>2 DEF FileAt, FullBlocks, Links
        <5> QED
          BY <3>2, <5>3
      <4> QED
        BY <4>1, <4>2
    <3> QED
      BY <3>1, <3>2
  <2>9. \A j \in 0 .. k : /\ G[p[j]] = F[p[j]]
                          /\ \A s \in 0 .. SectPerBlock - 1 :
                                Y[p[j] * SectPerBlock + s] = X[p[j] * SectPerBlock + s]
    BY <2>7, <2>8 DEF SameBut
  <2>10. FileAt(G, Y, first, end, g, p, k, t)
    BY <2>5, <2>9, FileKept
  <2>11. Holds(G, Y, E[e].first, E[e].end, g)
    BY <2>3, <2>4, <2>10 DEF Holds
  <2> QED
    BY <1>2, <2>1, <2>2, <2>3, <2>11 DEF Stands
<1> QED
  BY <1>1, <1>2

LEMMA KeepsBeside ==
    ASSUME NEW F, NEW D, NEW X, NEW G, NEW Y, NEW b, NEW H, Keeps(H, F, D, X),
           SameBut(b, F, X, G, Y),
           \/ F[b] = TO_TAG_FREE
           \/ /\ \A e \in Entries : D[e].name # NoName => D[e].first # b
              /\ \A c \in Blocks : F[c] # b
    PROVE  Keeps(H, G, D, Y)
<1>1. ASSUME NEW nm \in Names PROVE Stands(nm, H[nm], G, D, Y)
  <2>1. PICK g : g = H[nm]
    OBVIOUS
  <2>2. Stands(nm, g, F, D, X)
    BY <2>1 DEF Keeps
  <2>3. nm # NoName
    BY FilesAssumption
  <2>4. \/ F[b] = TO_TAG_FREE
        \/ /\ \A e \in Entries : D[e].name = nm => D[e].first # b
           /\ \A c \in Blocks : F[c] # b
    BY <2>3
  <2>5. SameEntry(nm, D, D)
    BY DEF SameEntry
  <2>6. Stands(nm, g, G, D, Y)
    BY <2>2, <2>4, <2>5, StandsBeside
  <2> QED
    BY <2>1, <2>6
<1> QED
  BY <1>1 DEF Keeps

\* An entry that is dropped takes its file along, and no other.
LEMMA KeepsWithout ==
    ASSUME NEW F, NEW D \in [Entries -> Entry], NEW X, NEW G, Keeps(G, F, D, X), Distinct(D, D),
           NEW e \in Entries, D[e].name # NoName, NEW nm, nm = D[e].name,
           NEW E, E = [D EXCEPT ![e].name = NoName], NEW H, H = [G EXCEPT ![nm] = NoFile]
    PROVE  Keeps(H, F, E, X)
<1>1. nm \in Names /\ G \in Files /\ nm # NoName
  BY FilesAssumption DEF Entry, Keeps
<1>2. \A d \in Entries : d # e => E[d] = D[d] /\ D[d].name # nm
  BY DEF Distinct
<1>3. E[e].name = NoName
  OBVIOUS
<1>4. H \in Files /\ H[nm] = NoFile /\ \A x \in Names : x # nm => H[x] = G[x]
  BY <1>1 DEF Files
<1>5. ASSUME NEW x \in Names PROVE Stands(x, H[x], F, E, X)
  <2>1. CASE x = nm
    BY <1>1, <1>2, <1>3, <1>4, <2>1 DEF Stands
  <2>2. CASE x # nm
    <3>1. PICK g : g = H[x]
      OBVIOUS
    <3>2. Stands(x, g, F, D, X)
      BY <1>4, <2>2, <3>1 DEF Keeps
    <3>3. x # NoName
      BY FilesAssumption
    <3>4. \A d \in Entries : D[d].name = x \/ E[d].name = x => E[d] = D[d]
      BY <1>2, <1>3, <2>2, <3>3
    <3>5. Stands(x, g, F, E, X)
      BY <3>2, <3>4 DEF Stands
    <3> QED
      BY <3>1, <3>5
  <2> QED
    BY <2>1, <2>2
<1> QED
  BY <1>4, <1>5 DEF Keeps

-----------------------------------------------------------------------------
(***************************************************************************)
(* A deletion: the entry first, then its blocks one by one.                *)
(***************************************************************************)
LEMMA KeptTaken ==
    ASSUME Sound, NEW G, Kept(G)
    PROVE  G \in Files /\ IsFiniteSet(Stored(G)) /\ Taken(G) \in Nat /\ get_dskf(mfat) \in Nat
<1>1. mdir \in [Entries -> Entry] /\ Distinct(mdir, mdir)
  BY SoundFacts
<1>2. G \in Files /\ IsFiniteSet(Stored(G))
  BY <1>1, StoredNames DEF Kept, Keeps
<1> QED
  BY <1>2, TakenType, FreeFinite

LEMMA EntryLeaves ==
    ASSUME Sound, NEW G, Kept(G), Spare(G, mfat, 0), NEW e \in Entries, Live(e),
           StartDelete(e), mfat' = mfat, data' = data,
           NEW nm, nm = mdir[e].name, NEW f, f = G[nm], NEW H, H = [G EXCEPT ![nm] = NoFile]
    PROVE  /\ nm \in Names /\ f \in HostFiles /\ mdir'[e].name = NoName
           /\ Trails(f)' /\ Kept(H)' /\ Spare(H, mfat, Need(f) - size)'
<1>1. mdir \in [Entries -> Entry] /\ Distinct(mdir, mdir)
  BY SoundFacts
<1>2. nm \in Names /\ f \in HostFiles
      /\ \E p \in Paths, k \in Nat, t \in 0 .. SectPerBlock - 1 :
                 /\ FileAt(mfat, data, mdir[e].first, mdir[e].end, f, p, k, t)
                 /\ Need(f) = k + 1 /\ k + 1 =< TO_FILESIZE_MAX
  BY TrailStarts
<1>3. PICK p \in Paths, k \in Nat, t \in 0 .. SectPerBlock - 1 :
                 /\ FileAt(mfat, data, mdir[e].first, mdir[e].end, f, p, k, t)
                 /\ Need(f) = k + 1 /\ k + 1 =< TO_FILESIZE_MAX
  BY <1>2
<1>4. /\ mdir' = [mdir EXCEPT ![e].name = NoName] /\ size' = 0 /\ block' = mdir[e].first
  BY DEF StartDelete
<1>5. Trails(f)'
  <2>1. PICK F, X, first, end : F = mfat /\ X = data /\ first = mdir[e].first /\ end = mdir[e].end
    OBVIOUS
  <2>2. FileAt(F, X, first, end, f, p, k, t) /\ Need(f) = k + 1 /\ k + 1 =< TO_FILESIZE_MAX
    BY <1>3, <2>1
  <2>3. mfat' = F /\ size' = 0 /\ block' = first
    BY <1>4, <2>1
  <2> QED
    BY <2>2, <2>3, TrailFrom
<1>6. Kept(H)'
  <2>1. PICK F, D, X, E : F = mfat /\ D = mdir /\ X = data /\ E = [D EXCEPT ![e].name = NoName]
    OBVIOUS
  <2>2. Keeps(H, F, E, X)
    <3>1. Keeps(G, F, D, X) /\ Distinct(D, D) /\ D \in [Entries -> Entry] /\ D[e].name # NoName
          /\ nm = D[e].name
      BY <1>1, <2>1 DEF Kept, Live
    <3> QED
      BY <2>1, <3>1, KeepsWithout
  <2>3. mfat' = F /\ mdir' = E /\ data' = X
    BY <1>4, <2>1
  <2> QED
    BY <2>2, <2>3 DEF Kept
<1>7. Spare(H, mfat, Need(f) - size)'
  <2>1. G \in Files /\ IsFiniteSet(Stored(G)) /\ get_dskf(mfat) \in Nat
    BY KeptTaken
  <2>2. Taken(H) \in Nat /\ Taken(G) = Taken(H) + Need(f)
    <3>1. nm \in Names /\ H = [G EXCEPT ![nm] = NoFile] /\ G[nm] = f /\ f # NoFile
      BY <1>2, FilesAssumption
    <3>2. Taken(H) \in Nat /\ (G[nm] # NoFile => Taken(G) = Taken(H) + Need(G[nm]))
      BY ONLY <2>1, <3>1, TakenWithout
    <3> QED
      BY <3>1, <3>2
  <2>3. Need(f) \in Nat /\ get_dskf(mfat') = get_dskf(mfat)
    BY <1>2, NeedType
  <2>4. get_dskf(mfat) + Taken(G) + 0 = Capacity
    BY DEF Spare
  <2>5. get_dskf(mfat') + Taken(H) + (Need(f) - size') = Capacity
    BY <1>4, <2>1, <2>2, <2>3, <2>4
  <2> QED
    BY <2>5 DEF Spare
<1>8. mdir'[e].name = NoName
  BY <1>1, <1>4
<1> QED
  BY <1>2, <1>5, <1>6, <1>7, <1>8

LEMMA BlockLeaves ==
    ASSUME Sound, DeleteStep, NEW f \in HostFiles, Trails(f),
           NEW H, Kept(H), Spare(H, mfat, Need(f) - size)
    PROVE  Trails(f)' /\ Kept(H)' /\ Spare(H, mfat, Need(f) - size)'
<1>0. TypeOK /\ mfat \in [Blocks -> Byte] /\ SingleReferrer /\ size \in Nat
  BY SoundFacts
<1>1. /\ pc = "delete" /\ InChain(block) /\ block' = mfat[block] /\ size' = size + 1
      /\ mfat' = [mfat EXCEPT ![block] = TO_TAG_FREE] /\ mdir' = mdir /\ data' = data
  BY DEF DeleteStep, archive
<1>2. block \in Blocks
  <2>1. TypeInv
    BY SoundFacts
  <2> QED
    BY <2>1, CursorInBlocks
<1>3. /\ \A e \in Entries : Live(e) => mdir[e].first # block
      /\ \A c \in Blocks : mfat[c] # block
  BY <1>0, <1>1, <1>2 DEF SingleReferrer
<1>4. /\ Trails(f)' /\ mfat[block] # TO_TAG_FREE /\ size < Need(f)
  <2>1. block \in Byte
    BY <1>2, Geometry
  <2> QED
    BY <1>0, <1>1, <1>3, <2>1, TrailGoesOn
<1>5. Kept(H)'
  <2>1. PICK F, D, X, G, Y, b : F = mfat /\ D = mdir /\ X = data /\ Y = data /\ b = block
                                /\ G = [F EXCEPT ![b] = TO_TAG_FREE]
    OBVIOUS
  <2>2. Keeps(H, F, D, X)
    BY <2>1 DEF Kept
  <2>3. /\ \A e \in Entries : D[e].name # NoName => D[e].first # b
        /\ \A c \in Blocks : F[c] # b
    BY <1>3, <2>1 DEF Live
  <2>4. SameBut(b, F, X, G, Y)
    BY <1>0, <2>1 DEF SameBut
  <2>5. Keeps(H, G, D, Y)
    BY <2>2, <2>3, <2>4, KeepsBeside
  <2>6. mfat' = G /\ mdir' = D /\ data' = Y
    BY <1>1, <2>1
  <2> QED
    BY <2>5, <2>6 DEF Kept
<1>6. Spare(H, mfat, Need(f) - size)'
  <2>1. Taken(H) \in Nat /\ get_dskf(mfat) \in Nat
    BY KeptTaken
  <2>2. get_dskf(mfat') = get_dskf(mfat) + 1
    BY <1>0, <1>1, <1>2, <1>4, OneMoreFree
  <2>3. Need(f) \in Nat
    BY NeedType
  <2>4. get_dskf(mfat) + Taken(H) + (Need(f) - size) = Capacity
    BY DEF Spare
  <2>5. get_dskf(mfat') + Taken(H) + (Need(f) - size') = Capacity
    BY <1>0, <1>1, <2>1, <2>2, <2>3, <2>4
  <2> QED
    BY <2>5 DEF Spare
<1> QED
  BY <1>4, <1>5, <1>6

-----------------------------------------------------------------------------
(***************************************************************************)
(* A call starts: what the one before has left is seen.                    *)
(***************************************************************************)

\* The record v is what the archive and the result of the last call are.
Fresh(v) ==
    /\ pc = "idle" /\ i = 0 /\ size = 0
    /\ Kept(v.files) /\ Spare(v.files, mfat, 0)
    /\ v.got = extracted /\ v.ret = ret /\ v.errno = errno

LEMMA SnapshotTaken ==
    ASSUME Sound, pc = "idle", NEW u, AtIdle(u), NEW c, seen' = Snapshot(c)
    PROVE  \E v : /\ v = seen' /\ SeenOK(v) /\ Fresh(v)
                  /\ v.shown = Dictionary!Listing(v.files) /\ v.call = c
                  /\ Answered(u, v.files, extracted, ret, errno)
<1>1. /\ TypeOK /\ Distinct(dir, dir) /\ mfat = fat /\ mdir = dir /\ size = 0 /\ i = 0
  BY SoundFacts DEF Synced, Sound, SpaceInv, IndexInv
<1>2. PICK G : Kept(G) /\ Spare(G, mfat, 0) /\ Answered(u, G, extracted, ret, errno)
  BY DEF AtIdle
<1>3. Keeps(G, fat, dir, data) /\ Spare(G, fat, 0)
  BY <1>1, <1>2 DEF Kept
<1>4. UniqueNames
  BY <1>1 DEF Distinct, UniqueNames
<1>5. FilesOnDisk = G
  BY <1>1, <1>3, <1>4, FilesRead
<1>6. Listing = Dictionary!Listing(G)
  BY <1>1, <1>3, ListingTold
<1>7. PICK v : v = seen'
  OBVIOUS
<1>8. /\ v.files = G /\ v.shown = Dictionary!Listing(G) /\ v.got = extracted
      /\ v.ret = ret /\ v.errno = errno /\ v.call = c
  BY <1>5, <1>6, <1>7 DEF Snapshot
<1>9. SeenOK(v)
  BY <1>2, <1>8, KeptTaken DEF SeenOK
<1>10. Fresh(v)
  BY <1>1, <1>2, <1>8 DEF Fresh
<1> QED
  BY <1>2, <1>7, <1>8, <1>9, <1>10

\* A call that is refused leaves the archive as it was.
LEMMA RefusedCall ==
    ASSUME NEW v, Kept(v.files), Spare(v.files, mfat, 0), NEW why, Refuse(why),
           Answered(v, v.files, NothingExtracted, 0, why)
    PROVE  Stage(v)'
<1>1. /\ pc' = "idle" /\ ret' = 0 /\ errno' = why /\ extracted' = NothingExtracted
      /\ mfat' = mfat /\ mdir' = mdir /\ data' = data
  BY DEF Refuse, Return, archive, buffer
<1>2. PICK G : G = v.files
  OBVIOUS
<1>3. Kept(G)' /\ Spare(G, mfat, 0)'
  BY <1>1, <1>2 DEF Kept, Spare
<1>4. Answered(v, G, extracted, ret, errno)'
  BY <1>1, <1>2
<1>5. AtIdle(v)'
  BY <1>1, <1>3, <1>4 DEF AtIdle
<1> QED
  BY <1>1, <1>5 DEF Stage

\* What the slots and the free blocks of the buffer say of room for a file.
LEMMA SlotIsFree ==
    ASSUME Sound, NEW u, Kept(u.files), NEW f \in HostFiles
    PROVE  SlotFor(u, f) <=> \E e \in Entries : mdir[e].name \in {EntryName[f], NoName}
<1>1. mdir \in [Entries -> Entry] /\ Distinct(mdir, mdir)
  BY SoundFacts
<1>2. PICK G : G = u.files
  OBVIOUS
<1>3. /\ Stored(G) = {mdir[e].name : e \in {d \in Entries : mdir[d].name # NoName}}
      /\ Cardinality(Stored(G)) < NEntries <=> \E e \in Entries : mdir[e].name = NoName
  BY <1>1, <1>2, StoredNames DEF Kept
<1>4. EntryName[f] # NoName
  BY FilesAssumption
<1>5. EntryName[f] \in Stored(G) <=> \E e \in Entries : mdir[e].name = EntryName[f]
  BY <1>3, <1>4
<1>6. SlotFor(u, f) <=> EntryName[f] \in Stored(G) \/ Cardinality(Stored(G)) < NEntries
  BY <1>2 DEF SlotFor
<1> QED
  BY <1>3, <1>5, <1>6

LEMMA SpaceIsFree ==
    ASSUME Sound, NEW u, NEW f \in HostFiles, f = cmd.file, AtCheck(u)
    PROVE  /\ EnoughSpace <=> SpaceFor(u, f)
           /\ SlotFor(u, f)
<1> DEFINE nm == EntryName[f]
<1>0. nm \in Names /\ n \in Entries /\ size \in Nat
  BY SoundFacts, FilesAssumption
<1>1. PICK G : G = u.files
  OBVIOUS
<1>2. Kept(G) /\ Spare(G, mfat, 0)
  BY <1>1 DEF AtCheck
<1>3. G \in Files /\ IsFiniteSet(Stored(G)) /\ Taken(G) \in Nat /\ get_dskf(mfat) \in Nat
  BY <1>2, KeptTaken
<1>4. PICK H : H = [G EXCEPT ![nm] = NoFile]
  OBVIOUS
<1>5. Taken(H) \in Nat /\ (G[nm] # NoFile => Taken(G) = Taken(H) + Need(G[nm]))
  BY <1>0, <1>3, <1>4, TakenWithout
<1>6. Taken(G) = Taken(H) + size
  <2>1. CASE G[nm] = NoFile
    <3>1. H = G
      BY <1>4, <2>1, <1>3 DEF Files
    <3>2. size = 0
      BY <1>1, <2>1 DEF AtCheck, Old
    <3> QED
      BY <1>3, <3>1, <3>2
  <2>2. CASE G[nm] # NoFile
    <3>1. size = Need(G[nm])
      BY <1>1, <2>2 DEF AtCheck, Old
    <3> QED
      BY <1>5, <2>2, <3>1
  <2> QED
    BY <2>1, <2>2
<1>7. get_dskf(mfat) + Taken(G) + 0 = Capacity
  BY <1>2 DEF Spare
<1>8. Need(f) \in Nat
  BY NeedType
<1>9. Need(f) =< get_dskf(mfat) + size <=> Taken(H) + Need(f) =< Capacity
  BY <1>0, <1>3, <1>5, <1>6, <1>7, <1>8
<1>10. EnoughSpace <=> Need(f) =< get_dskf(mfat) + size
  <2>1. PICK x \in Nat : x = get_dskf(mfat) + size
    BY <1>0, <1>3
  <2>2. x * TO_BLOCKSIZE >= Size[f] <=> Need(f) =< x
    BY RoomIsNeed
  <2> QED
    BY <2>1, <2>2 DEF EnoughSpace
<1>11. SpaceFor(u, f) <=> Taken(H) + Need(f) =< Capacity
  BY <1>1, <1>4 DEF SpaceFor, Without
<1>12. mdir[n].name \in {nm, NoName}
  BY DEF AtCheck
<1>13. SlotFor(u, f)
  BY <1>0, <1>1, <1>2, <1>12, SlotIsFree
<1> QED
  BY <1>9, <1>10, <1>11, <1>13

LEMMA AddStarts ==
    ASSUME Sound, NEW v, Fresh(v), NEW f \in HostFiles, AddFile(f)
    PROVE  Stage(v)'
<1> DEFINE nm == EntryName[f]
<1>0. /\ TypeOK /\ mfat = fat /\ mdir = dir /\ mdir \in [Entries -> Entry]
      /\ nm \in Names /\ nm # NoName
  BY SoundFacts, FilesAssumption DEF Synced, Fresh
<1>1. /\ mfat' = mfat /\ mdir' = mdir /\ data' = data /\ size' = 0 /\ cmd'.file = f
      /\ errno' = errno /\ extracted' = NothingExtracted
  BY <1>0 DEF AddFile, ReadTrack20, archive, Fresh, NoCmd
<1>2. PICK G : G = v.files
  OBVIOUS
<1>3. Kept(G) /\ Spare(G, mfat, 0) /\ v.errno = errno
  BY <1>2 DEF Fresh
<1>4. Kept(G)' /\ Spare(G, mfat, 0)' /\ Quiet(v)'
  BY <1>1, <1>3 DEF Kept, Spare, Quiet
<1>5. CASE PrevSlots(f) # {}
  <2>1. /\ pc' = "size" /\ n' = Min(PrevSlots(f)) /\ block' = dir[n'].first
    BY <1>5 DEF AddFile
  <2>2. PICK e \in Entries : e = n' /\ mdir[e].name = nm
    BY <1>0, <1>5, <2>1, SlotFound DEF PrevSlots
  <2>3. PICK g : g = G[nm]
    OBVIOUS
  <2>4. /\ g \in HostFiles
        /\ \E p \in Paths, k \in Nat, t \in 0 .. SectPerBlock - 1 :
              /\ FileAt(mfat, data, mdir[e].first, mdir[e].end, g, p, k, t)
              /\ Need(g) = k + 1 /\ k + 1 =< TO_FILESIZE_MAX
    <3>1. Live(e)
      BY <1>0, <2>2 DEF Live
    <3> QED
      BY <1>3, <2>2, <2>3, <3>1, TrailStarts
  <2>a. PICK F, X, first, end :
            F = mfat /\ X = data /\ first = mdir[e].first /\ end = mdir[e].end
    OBVIOUS
  <2>5. PICK p \in Paths, k \in Nat, t \in 0 .. SectPerBlock - 1 :
              /\ FileAt(F, X, first, end, g, p, k, t)
              /\ Need(g) = k + 1 /\ k + 1 =< TO_FILESIZE_MAX
    BY <2>4, <2>a
  <2>6. mfat' = F /\ size' = 0 /\ block' = first
    BY <1>0, <1>1, <2>1, <2>2, <2>a
  <2>7. Trails(g)'
    BY <2>5, <2>6, TrailFrom
  <2>8. mdir'[n'].name = EntryName[cmd'.file]
    BY <1>1, <2>2
  <2>9. g = Old(v)'
    BY <1>1, <1>2, <2>3 DEF Old
  <2>10. AtSize(v)'
    BY <1>2, <1>4, <2>7, <2>8, <2>9 DEF AtSize
  <2> QED
    BY <2>1, <2>10 DEF Stage
<1>6. CASE PrevSlots(f) = {}
  <2>1. /\ pc' = "check" /\ n' = Min(FreeSlots) /\ FreeSlots # {}
    BY <1>6 DEF AddFile
  <2>2. PICK e \in Entries : e = n' /\ mdir[e].name = NoName
    <3>1. PICK D : D = dir
      OBVIOUS
    <3>2. PICK e : e = Min(SlotsOf(D, {NoName}, 0))
      OBVIOUS
    <3>3. SlotsOf(D, {NoName}, 0) # {} /\ n' = e
      BY <2>1, <3>1, <3>2 DEF FreeSlots
    <3>4. e \in Entries /\ D[e].name = NoName
      BY <3>2, <3>3, SlotFound
    <3> QED
      BY <1>0, <3>1, <3>3, <3>4
  <2>3. \A d \in Entries : mdir[d].name # nm
    BY <1>0, <1>6, Geometry DEF PrevSlots, SlotsOf, Entries
  <2>4. G[nm] = NoFile
    BY <1>0, <1>3, <2>3 DEF Kept, Keeps, Stands
  <2>5. Old(v)' = NoFile
    BY <1>1, <1>2, <2>4 DEF Old
  <2>6. mdir'[n'].name = NoName
    BY <1>1, <2>2
  <2>7. AtCheck(v)'
    BY <1>1, <1>2, <1>4, <2>5, <2>6 DEF AtCheck
  <2> QED
    BY <2>1, <2>7 DEF Stage
<1> QED
  BY <1>5, <1>6

LEMMA NothingRead ==
    ASSUME NEW u
    PROVE  Read(u, {}) = NothingExtracted /\ BytesOfAll(u, {}) = 0
<1>1. Read(u, {}) = NothingExtracted
  BY DEF Read, NothingExtracted
<1>2. Pairs(BytesIn(u.files), {}) = {}
  BY DEF Pairs
<1> QED
  BY <1>1, <1>2, FS_EmptySet DEF BytesOfAll

LEMMA ForEachStarts ==
    ASSUME Sound, NEW v, Fresh(v), NEW op \in {"delete", "extract"}, NEW S \in SUBSET Names,
           NEW w \in BOOLEAN, Pattern(S, w), ForEachFile(op, S, w)
    PROVE  Stage(v)'
<1>0. TypeOK /\ mfat = fat /\ mdir = dir
  BY SoundFacts DEF Synced, Fresh
<1>1. /\ pc' = "seek" /\ mfat' = mfat /\ mdir' = mdir /\ data' = data /\ i' = 0
      /\ cmd'.op = op /\ cmd'.pattern = S /\ cmd'.wild = w
      /\ errno' = errno /\ extracted' = NothingExtracted /\ ret' = 0
  BY <1>0 DEF ForEachFile, ReadTrack20, archive, locals, Fresh, NoCmd
<1>2. PICK G : G = v.files
  OBVIOUS
<1>3. Kept(G) /\ Spare(G, mfat, 0) /\ v.errno = errno
  BY <1>2 DEF Fresh
<1>4. Kept(G)' /\ Spare(G, mfat, 0)' /\ Quiet(v)' /\ Kind'
  BY <1>1, <1>3 DEF Kept, Spare, Quiet, Kind
<1>5. SearchFrom' = 0 /\ Looked' = 0 /\ \A e \in Entries : ~(e < 0)
  BY <1>1, Geometry DEF SearchFrom, Looked, Entries
<1>6. CASE op = "delete"
  <2>1. Passed'
    BY <1>1, <1>5 DEF Passed
  <2>2. Shrunk(v, G)'
    BY <1>2 DEF Shrunk
  <2>3. AtSeekDelete(v)'
    BY <1>1, <1>2, <1>4, <2>1, <2>2 DEF AtSeekDelete
  <2> QED
    BY <1>1, <1>6, <2>3 DEF Stage
<1>7. CASE op = "extract"
  <2>1. Behind({})' /\ ~Refused({})'
    BY <1>1, <1>5 DEF Behind, Refused
  <2>2. Reading(v, {})'
    BY <1>1, <1>2, <1>3, <1>4, <2>1 DEF Reading
  <2>3. extracted' = Read(v, {}) /\ ret' = BytesOfAll(v, {})
    BY <1>1, NothingRead
  <2>4. AtSeekExtract(v)'
    BY <1>1, <2>2, <2>3 DEF AtSeekExtract
  <2> QED
    BY <1>1, <1>7, <2>4 DEF Stage
<1> QED
  BY <1>6, <1>7

LEMMA CallStarts ==
    ASSUME Sound, NEW v, SeenOK(v), Fresh(v), Starts(v.call)
    PROVE  Stage(v)' /\ Agreed(v)'
<1>0. mfat = fat /\ mdir = dir
  BY SoundFacts DEF Synced, Fresh
<1>1. Kept(v.files) /\ Spare(v.files, mfat, 0)
  BY DEF Fresh
<1>a. ASSUME NEW f PROVE Adding(f).op = "add" /\ Adding(f).file = f
  BY DEF Adding, NoCmd
<1>2. ASSUME NEW why, Refuse(why), Answered(v, v.files, NothingExtracted, 0, why)
      PROVE  Stage(v)' /\ Agreed(v)'
  <2>1. Stage(v)'
    BY <1>1, <1>2, RefusedCall
  <2>2. pc' = "idle"
    BY <1>2 DEF Refuse, Return
  <2> QED
    BY <2>1, <2>2 DEF Agreed
<1>3. CASE AddNoFile /\ v.call = Adding(NoFile)
  <2>1. Refuse("ENOENT") /\ Refusal(v, v.files, NothingExtracted, 0, "ENOENT", "ENOENT")
    BY <1>3 DEF AddNoFile, Refusal
  <2>2. v.call.op = "add" /\ v.call.file = NoFile
    BY <1>3, <1>a
  <2> QED
    BY <1>2, <2>1, <2>2 DEF Answered
<1>4. ASSUME NEW f \in HostFiles, AddEmptyFile(f), v.call = Adding(f)
      PROVE  Stage(v)' /\ Agreed(v)'
  <2>1. Refuse("ENFILE") /\ Size[f] = 0
    BY <1>4 DEF AddEmptyFile
  <2>2. Added(v, v.files, NothingExtracted, 0, "ENFILE", f)
    BY <2>1 DEF Added, Refusal
  <2>3. v.call.op = "add" /\ v.call.file = f
    BY <1>4, <1>a
  <2> QED
    BY <1>2, <2>1, <2>2, <2>3 DEF Answered
<1>5. ASSUME NEW f \in HostFiles, AddDirFull(f), v.call = Adding(f)
      PROVE  Stage(v)' /\ Agreed(v)'
  <2>1. Refuse("ENOSPC") /\ Size[f] > 0 /\ SlotsOf(dir, {EntryName[f], NoName}, 0) = {}
    BY <1>5 DEF AddDirFull
  <2>2. \A e \in Entries : mdir[e].name \notin {EntryName[f], NoName}
    BY <1>0, <2>1, Geometry DEF SlotsOf, Entries
  <2>3. ~SlotFor(v, f)
    BY <1>1, <2>2, SlotIsFree
  <2>4. Added(v, v.files, NothingExtracted, 0, "ENOSPC", f)
    BY <2>1, <2>3 DEF Added, Refusal
  <2>5. v.call.op = "add" /\ v.call.file = f
    BY <1>5, <1>a
  <2> QED
    BY <1>2, <2>1, <2>4, <2>5 DEF Answered
<1>6. ASSUME NEW f \in HostFiles, AddFile(f), v.call = Adding(f)
      PROVE  Stage(v)' /\ Agreed(v)'
  <2>1. cmd' = v.call
    BY <1>6 DEF AddFile, Adding
  <2> QED
    BY <1>6, <2>1, AddStarts DEF Agreed
<1>7. ASSUME NEW op \in {"delete", "extract"}, NEW S \in SUBSET Names, NEW w \in BOOLEAN,
             Pattern(S, w), ForEachFile(op, S, w), v.call = cmd'
      PROVE  Stage(v)' /\ Agreed(v)'
  BY <1>7, ForEachStarts DEF Agreed
<1>8. CASE DeleteFile /\ v.call = cmd'
  <2>1. PICK S \in SUBSET Names, w \in BOOLEAN : Pattern(S, w) /\ ForEachFile("delete", S, w)
    BY <1>8, FilesAssumption DEF DeleteFile, Pattern
  <2> QED
    BY <1>7, <1>8, <2>1
<1>9. CASE ExtractFile /\ v.call = cmd'
  <2>1. PICK S \in SUBSET Names, w \in BOOLEAN : Pattern(S, w) /\ ForEachFile("extract", S, w)
    BY <1>9, FilesAssumption DEF ExtractFile, Pattern
  <2> QED
    BY <1>7, <1>9, <2>1
<1> QED
  BY <1>3, <1>4, <1>5, <1>6, <1>8, <1>9 DEF Starts

-----------------------------------------------------------------------------
(***************************************************************************)
(* sap_AddFile, step by step.                                              *)
(***************************************************************************)
LEMMA CursorIsByte ==
    ASSUME Sound, pc # "fill"
    PROVE  block \in Byte
BY SoundFacts DEF TypeOK, RequestOK

LEMMA SizeGoesOn ==
    ASSUME Sound, NEW u, SizeStep, AtSize(u)
    PROVE  Stage(u)'
<1>0. /\ TypeOK /\ pc = "size" /\ block \in Byte /\ cmd \in Cmd /\ n \in Entries
      /\ cmd.op = "add" /\ cmd.file \in HostFiles
  BY SoundFacts, CursorIsByte DEF SizeStep, RequestOK
<1>1. /\ mfat' = mfat /\ mdir' = mdir /\ data' = data /\ cmd' = cmd /\ n' = n
      /\ errno' = errno /\ extracted' = extracted
  BY DEF SizeStep, archive, buffer
<1>2. PICK G, g : G = u.files /\ g = Old(u)
  OBVIOUS
<1>3. Kept(G) /\ Spare(G, mfat, 0) /\ Quiet(u) /\ mdir[n].name = EntryName[cmd.file] /\ Trails(g)
  BY <1>2 DEF AtSize
<1>4. Kept(G)' /\ Spare(G, mfat, 0)' /\ Quiet(u)' /\ mdir'[n'].name = EntryName[cmd'.file]
  BY <1>1, <1>3 DEF Kept, Spare, Quiet
<1>5. g = Old(u)'
  BY <1>1, <1>2 DEF Old
<1>6. CASE InChain(block)
  <2>1. pc' = "size" /\ size' = size + 1 /\ block' = mfat[block]
    BY <1>0, <1>6 DEF SizeStep
  <2>2. Trails(g)'
    BY <1>0, <1>1, <1>3, <1>6, <2>1, TrailGoesOn
  <2>3. AtSize(u)'
    BY <1>2, <1>4, <1>5, <2>2 DEF AtSize
  <2> QED
    BY <2>1, <2>3 DEF Stage
<1>7. CASE ~InChain(block)
  <2>1. pc' = "check" /\ size' = size
    BY <1>7 DEF SizeStep
  <2>2. size = Need(g)
    BY <1>0, <1>3, <1>7, TrailEnds
  <2>3. g # NoFile
    <3>1. PICK nm \in Names : nm = EntryName[cmd.file]
      BY <1>0, FilesAssumption
    <3>2. g = G[nm] /\ mdir[n].name = nm
      BY <1>2, <1>3, <3>1 DEF Old
    <3>3. Stands(nm, G[nm], mfat, mdir, data)
      BY <1>3, <3>1 DEF Kept, Keeps
    <3> QED
      BY <1>0, <3>2, <3>3 DEF Stands
  <2>4. AtCheck(u)'
    BY <1>2, <1>4, <1>5, <2>1, <2>2, <2>3 DEF AtCheck
  <2> QED
    BY <2>1, <2>4 DEF Stage
<1> QED
  BY <1>6, <1>7

LEMMA TooBigRefused ==
    ASSUME Sound, NEW u, AddTooBig, AtCheck(u), u.call = cmd
    PROVE  Stage(u)'
<1>1. Refuse("EFBIG") /\ ~EnoughSpace /\ cmd.file \in HostFiles
  BY SoundFacts DEF AddTooBig, RequestOK
<1>2. PICK f \in HostFiles : f = cmd.file
  BY <1>1
<1>3. SlotFor(u, f) /\ ~SpaceFor(u, f)
  BY <1>1, <1>2, SpaceIsFree
<1>4. Size[f] > 0
  BY <1>2, SoundFacts DEF AddTooBig, Sound, SpaceInv, RequestOK
<1>5. Added(u, u.files, NothingExtracted, 0, "EFBIG", f)
  BY <1>3, <1>4 DEF Added, Refusal
<1>6. Kept(u.files) /\ Spare(u.files, mfat, 0)
  BY DEF AtCheck
<1>7. u.call.op = "add" /\ u.call.file = f
  BY <1>2, SoundFacts DEF AddTooBig, RequestOK
<1>8. Answered(u, u.files, NothingExtracted, 0, "EFBIG")
  BY <1>5, <1>7 DEF Answered
<1> QED
  BY <1>1, <1>6, <1>8, RefusedCall

LEMMA CheckPassed ==
    ASSUME Sound, NEW u, CheckStep, AtCheck(u)
    PROVE  Stage(u)'
<1>0. /\ pc = "check" /\ cmd \in Cmd /\ n \in Entries
      /\ cmd.op = "add" /\ cmd.file \in HostFiles
  BY SoundFacts DEF CheckStep, RequestOK
<1>1. /\ mfat' = mfat /\ data' = data /\ cmd' = cmd /\ n' = n
      /\ errno' = errno /\ extracted' = extracted
  BY DEF CheckStep, archive
<1>a. PICK G : G = u.files
  OBVIOUS
<1>b. PICK nm \in Names : nm = EntryName[cmd.file]
  BY <1>0, FilesAssumption
<1>2. G = u.files /\ nm = EntryName[cmd.file]
  BY <1>a, <1>b
<1>3. PICK g : g = G[nm]
  OBVIOUS
<1>4. g = Old(u)
  BY <1>2, <1>3 DEF Old
<1>5. Kept(G) /\ Spare(G, mfat, 0) /\ Quiet(u)
      /\ IF g = NoFile THEN mdir[n].name = NoName ELSE mdir[n].name = nm
  BY <1>2, <1>4 DEF AtCheck
<1>6. Quiet(u)'
  BY <1>1, <1>5 DEF Quiet
<1>7. PICK H : H = [G EXCEPT ![nm] = NoFile]
  OBVIOUS
<1>8. H = Without(u, EntryName[cmd'.file])
  BY <1>1, <1>2, <1>7 DEF Without
<1>9. CASE mdir[n].name # NoName
  <2>1. StartDelete(n) /\ Live(n) /\ nm = mdir[n].name /\ pc' = "delete"
    BY <1>5, <1>9 DEF CheckStep, Live, StartDelete
  <2>2. PICK e \in Entries : e = n
    BY <1>0
  <2>3. /\ g \in HostFiles /\ mdir'[e].name = NoName
        /\ Trails(g)' /\ Kept(H)' /\ Spare(H, mfat, Need(g) - size)'
    BY <1>1, <1>3, <1>5, <1>7, <2>1, <2>2, EntryLeaves
  <2>4. Cleared(u, Need(g) - size)'
    BY <1>1, <1>6, <1>8, <2>2, <2>3 DEF Cleared
  <2>5. AtReplace(u)'
    BY <2>3, <2>4 DEF AtReplace
  <2> QED
    BY <1>0, <1>1, <2>1, <2>5 DEF Stage
<1>10. CASE mdir[n].name = NoName
  <2>1. pc' = "alloc" /\ mdir' = mdir
    BY <1>10 DEF CheckStep
  <2>2. g = NoFile
    BY <1>2, <1>5, <1>10, FilesAssumption
  <2>3. H = G
    BY <1>3, <1>5, <1>7, <2>2 DEF Kept, Keeps, Files
  <2>4. Kept(H)' /\ Spare(H, mfat, 0)'
    BY <1>1, <1>5, <2>1, <2>3 DEF Kept, Spare
  <2>5. Cleared(u, 0)'
    BY <1>1, <1>6, <1>8, <1>10, <2>1, <2>4 DEF Cleared
  <2> QED
    BY <2>1, <2>5 DEF Stage, AtAlloc
<1> QED
  BY <1>9, <1>10

LEMMA FirstBlockChosen ==
    ASSUME Sound, NEW u, AllocFirst, AtAlloc(u)
    PROVE  Stage(u)'
<1>0. cmd.file \in HostFiles
  BY SoundFacts DEF AllocFirst, RequestOK
<1>1. /\ pc' = "fill" /\ mfat' = mfat /\ mdir' = mdir /\ data' = data /\ cmd' = cmd /\ n' = n
      /\ errno' = errno /\ extracted' = extracted /\ left' = Size[cmd.file]
  BY DEF AllocFirst, archive, buffer
<1>2. Cleared(u, 0)'
  BY <1>1 DEF AtAlloc, Cleared, Quiet, Kept, Spare
<1>3. Size[cmd'.file] = 0 * TO_BLOCKSIZE + left'
  BY <1>0, <1>1, FilesAssumption, BlockBytes
<1>4. AtFill(u)'
  BY <1>2, <1>3 DEF AtFill
<1> QED
  BY <1>1, <1>4 DEF Stage

\* The sectors of the other blocks, when some of block b are written.
LEMMA OthersKept ==
    ASSUME NEW b \in Blocks, NEW count \in 0 .. SectPerBlock, NEW from,
           data' = WriteSectors(b, count, from), NEW v, mfat' = [mfat EXCEPT ![b] = v],
           mfat \in [Blocks -> Byte]
    PROVE  SameBut(b, mfat, data, mfat', data')
<1>1. ASSUME NEW c \in Blocks, c # b, NEW s \in 0 .. SectPerBlock - 1
      PROVE  data'[c * SectPerBlock + s] = data[c * SectPerBlock + s]
  BY <1>1, DataKept
<1> QED
  BY <1>1 DEF SameBut

LEMMA BlockFilled ==
    ASSUME Sound, SpaceInv', NEW u, FillBlock, AtFill(u)
    PROVE  Stage(u)'
<1>0. /\ TypeOK /\ mfat \in [Blocks -> Byte] /\ cmd.file \in HostFiles /\ left \in Nat
  BY SoundFacts DEF FillBlock, RequestOK, TypeOK
<1>1. /\ pc = "fill" /\ pc' = "fill" /\ block \in Blocks /\ left > TO_BLOCKSIZE
      /\ mfat' = [mfat EXCEPT ![block] = block' % 256] /\ left' = left - TO_BLOCKSIZE
      /\ data' = WriteSectors(block, SectPerBlock, NextSector)
      /\ mdir' = mdir /\ cmd' = cmd /\ n' = n /\ errno' = errno /\ extracted' = extracted
  BY DEF FillBlock
<1>2. mfat[block] = TO_TAG_FREE
  BY <1>1 DEF Sound, FillInv, Filling
<1>3. block' % 256 # TO_TAG_FREE
  <2>1. PICK c \in Blocks : c = block'
    BY <1>1 DEF SpaceInv
  <2>2. c % 256 = c
    BY Bytes
  <2>3. c # TO_TAG_FREE
    BY Geometry DEF Blocks, TO_TAG_FREE
  <2> QED
    BY <2>1, <2>2, <2>3
<1>4. PICK k \in Nat : Size[cmd.file] = k * TO_BLOCKSIZE + left /\ Cleared(u, k)
  BY DEF AtFill
<1>5. PICK H : H = Without(u, EntryName[cmd.file]) /\ Kept(H) /\ Spare(H, mfat, k)
  BY <1>4 DEF Cleared
<1>6. Kept(H)'
  <2>1. PICK F, D, X, G, Y, b : /\ F = mfat /\ D = mdir /\ X = data /\ b = block
                                /\ G = mfat' /\ Y = data'
    OBVIOUS
  <2>2. SameBut(b, F, X, G, Y)
    <3>1. SectPerBlock \in 0 .. SectPerBlock
      BY Geometry
    <3>2. PICK a, from, v : a \in Blocks /\ a = block /\ from = NextSector /\ v = block' % 256
      BY <1>1
    <3>3. data' = WriteSectors(a, SectPerBlock, from) /\ mfat' = [mfat EXCEPT ![a] = v]
      BY <1>1, <3>2
    <3> QED
      BY <1>0, <2>1, <3>1, <3>2, <3>3, OthersKept
  <2>3. Keeps(H, F, D, X) /\ F[b] = TO_TAG_FREE
    BY <1>2, <1>5, <2>1 DEF Kept
  <2>4. Keeps(H, G, D, Y)
    BY <2>2, <2>3, KeepsBeside
  <2> QED
    BY <1>1, <2>1, <2>4 DEF Kept
<1>7. Spare(H, mfat, k + 1)'
  <2>1. Taken(H) \in Nat /\ get_dskf(mfat) \in Nat
    BY <1>5, KeptTaken
  <2>2. get_dskf(mfat') = get_dskf(mfat) - 1
    <3>1. PICK a, v : a \in Blocks /\ a = block /\ v = block' % 256
      BY <1>1
    <3>2. mfat[a] = TO_TAG_FREE /\ v # TO_TAG_FREE /\ mfat' = [mfat EXCEPT ![a] = v]
      BY <1>1, <1>2, <1>3, <3>1
    <3> QED
      BY <1>0, <3>1, <3>2, OneLessFree
  <2>3. get_dskf(mfat) + Taken(H) + k = Capacity
    BY <1>5 DEF Spare
  <2>4. get_dskf(mfat') + Taken(H) + (k + 1) = Capacity
    BY <2>1, <2>2, <2>3
  <2> QED
    BY <2>4 DEF Spare
<1>8. Cleared(u, k + 1)'
  BY <1>1, <1>4, <1>5, <1>6, <1>7 DEF Cleared, Quiet
<1>9. Size[cmd'.file] = (k + 1) * TO_BLOCKSIZE + left'
  <2>1. PICK x \in Nat : x = k * TO_BLOCKSIZE
    BY BlockBytes, Product
  <2>2. (k + 1) * TO_BLOCKSIZE = x + TO_BLOCKSIZE
    BY <2>1, BlockBytes
  <2>3. Size[cmd'.file] = x + left /\ left' = left - TO_BLOCKSIZE
    BY <1>1, <1>4, <2>1
  <2> QED
    BY <1>0, <2>1, <2>2, <2>3, BlockBytes
<1>10. AtFill(u)'
  BY <1>8, <1>9 DEF AtFill
<1> QED
  BY <1>1, <1>10 DEF Stage

LEMMA LastBlockFilled ==
    ASSUME Sound, FillInv', NEW u, u.files \in Files, FillTail, AtFill(u)
    PROVE  Stage(u)'
<1> DEFINE full == (left - 1) \div SectSize
           tag  == TO_END_BLOCK_OFFSET + 1 + full
<1>0. /\ TypeOK /\ mfat \in [Blocks -> Byte] /\ mdir \in [Entries -> Entry]
      /\ cmd.file \in HostFiles /\ cmd.op = "add" /\ left \in Nat /\ n \in Entries
  BY SoundFacts DEF FillTail, RequestOK, TypeOK
<1>1. /\ pc = "fill" /\ pc' = "save" /\ block \in Blocks /\ left =< TO_BLOCKSIZE
      /\ mfat' = [mfat EXCEPT ![block] = tag]
      /\ data' = WriteSectors(block, full + 1, NextSector)
      /\ mdir' = [mdir EXCEPT ![n] = [name  |-> EntryName[cmd.file], first |-> head,
                                      end   |-> left - full * SectSize]]
      /\ cmd' = cmd /\ n' = n /\ errno' = errno /\ extracted' = extracted
      /\ ret' = Size[cmd.file]
  BY DEF FillTail, StartSave
<1>2. mfat[block] = TO_TAG_FREE /\ left > 0
  BY <1>1 DEF Sound, FillInv, Filling
<1>3. full \in -1 .. SectPerBlock - 1 /\ full + 1 \in 0 .. SectPerBlock /\ tag # TO_TAG_FREE
  <2>1. full \in -1 .. SectPerBlock - 1
    BY <1>0, <1>1, TailSectors
  <2> HIDE DEF full
  <2> QED
    BY <2>1, Geometry DEF TO_END_BLOCK_OFFSET, TO_TAG_FREE
<1> HIDE DEF full, tag
<1>4. PICK k \in Nat : Size[cmd.file] = k * TO_BLOCKSIZE + left /\ Cleared(u, k)
  BY DEF AtFill
<1>5. PICK nm \in Names : nm = EntryName[cmd.file]
  BY <1>0, FilesAssumption
<1>6. PICK f \in HostFiles : f = cmd.file
  BY <1>0
<1>7. PICK H : H = [u.files EXCEPT ![nm] = NoFile] /\ Kept(H) /\ Spare(H, mfat, k)
  BY <1>4, <1>5 DEF Cleared, Without
<1>8. PICK G : G = [u.files EXCEPT ![nm] = f]
  OBVIOUS
<1>9. H \in Files /\ H[nm] = NoFile /\ G = [H EXCEPT ![nm] = f]
      /\ G \in Files /\ G[nm] = f /\ \A x \in Names : x # nm => G[x] = H[x]
  BY <1>7, <1>8 DEF Files
<1>10. mdir[n].name = NoName /\ Quiet(u)
  BY <1>4 DEF Cleared
<1>11. Keeps(G, mfat', mdir', data')
  <2>1. PICK F, D, X, K, E, Y, b : /\ F = mfat /\ D = mdir /\ X = data /\ b = block
                                   /\ K = mfat' /\ E = mdir' /\ Y = data'
    OBVIOUS
  <2>2. SameBut(b, F, X, K, Y)
    <3>1. PICK a, from, v, count : /\ a \in Blocks /\ a = block /\ from = NextSector /\ v = tag
                                              /\ count = full + 1
      BY <1>1
    <3>2. data' = WriteSectors(a, count, from) /\ mfat' = [mfat EXCEPT ![a] = v]
          /\ count \in 0 .. SectPerBlock
      BY <1>1, <1>3, <3>1
    <3> QED
      BY <1>0, <2>1, <3>1, <3>2, OthersKept
  <2>3. Keeps(H, F, D, X) /\ F[b] = TO_TAG_FREE
    BY <1>2, <1>7, <2>1 DEF Kept
  <2>4. /\ \A d \in Entries : d # n => E[d] = D[d]
        /\ D[n].name = NoName /\ E[n].name = nm
    BY <1>0, <1>1, <1>5, <1>10, <2>1
  <2>5. ASSUME NEW x \in Names, x # nm PROVE Stands(x, G[x], K, E, Y)
    <3>1. x # NoName
      BY FilesAssumption
    <3>2. SameEntry(x, D, E)
      BY <2>4, <2>5, <3>1 DEF SameEntry
    <3>3. PICK g : g = H[x]
      OBVIOUS
    <3>4. Stands(x, g, F, D, X)
      BY <2>3, <3>3 DEF Keeps
    <3>5. Stands(x, g, K, E, Y)
      <4>1. \/ F[b] = TO_TAG_FREE
            \/ /\ \A d \in Entries : D[d].name = x => D[d].first # b
               /\ \A c \in Blocks : F[c] # b
        BY <2>3
      <4> QED
        BY <2>2, <3>2, <3>4, <4>1, StandsBeside
    <3> QED
      BY <1>9, <2>5, <3>3, <3>5
  <2>6. Stands(nm, G[nm], K, E, Y)
    <3>1. /\ mdir'[n].name = nm /\ Holds(mfat', data', mdir'[n].first, mdir'[n].end, f)
      BY <1>0, <1>1, <1>5, <1>6 DEF FillInv, Filled
    <3>2. Size[f] > 0 /\ f # NoFile /\ EntryName[f] = nm
      BY <1>0, <1>5, <1>6, FilesAssumption DEF Sound, SpaceInv
    <3> QED
      BY <1>0, <1>9, <2>1, <3>1, <3>2 DEF Stands
  <2>7. Keeps(G, K, E, Y)
    BY <1>9, <2>5, <2>6 DEF Keeps
  <2> QED
    BY <2>1, <2>7
<1>12. Spare(G, mfat, 0)'
  <2>1. H \in Files /\ IsFiniteSet(Stored(H)) /\ Taken(H) \in Nat /\ get_dskf(mfat) \in Nat
    BY <1>7, KeptTaken
  <2>2. get_dskf(mfat') = get_dskf(mfat) - 1
    <3>1. PICK a, v : a \in Blocks /\ a = block /\ v = tag
      BY <1>1
    <3>2. mfat[a] = TO_TAG_FREE /\ v # TO_TAG_FREE /\ mfat' = [mfat EXCEPT ![a] = v]
      BY <1>1, <1>2, <1>3, <3>1
    <3> QED
      BY <1>0, <3>1, <3>2, OneLessFree
  <2>3. get_dskf(mfat) + Taken(H) + k = Capacity
    BY <1>7 DEF Spare
  <2>4. Taken(G) = Taken(H) + Need(f)
    <3>1. Stored(G) = Stored(H) \cup {nm} /\ nm \notin Stored(H)
      BY <1>9, FilesAssumption DEF Stored
    <3>2. IsFiniteSet(Stored(G))
      BY <2>1, <3>1, FS_AddElement
    <3>3. PICK K : K = [G EXCEPT ![nm] = NoFile]
      OBVIOUS
    <3>4. K = H
      BY <1>7, <1>8, <1>9, <3>3 DEF Files
    <3>5. G[nm] = f /\ f # NoFile /\ G \in Files
      BY <1>9, FilesAssumption
    <3>6. Taken(G) = Taken(K) + Need(G[nm])
      BY <3>2, <3>3, <3>5, TakenWithout
    <3> QED
      BY <3>4, <3>5, <3>6
  <2>5. Need(f) = k + 1
    <3>1. PICK m \in 1 .. TO_BLOCKSIZE : m = left
      BY <1>0, <1>1, <1>2
    <3>2. Size[f] = k * TO_BLOCKSIZE + m
      BY <1>4, <1>6, <3>1
    <3> QED
      BY <3>2, NeedIs
  <2>6. get_dskf(mfat') + Taken(G) + 0 = Capacity
    BY <2>1, <2>2, <2>3, <2>4, <2>5
  <2> QED
    BY <2>6 DEF Spare
<1>13. AtSaved(u)'
  <2>1. Kept(G)' /\ G = [u.files EXCEPT ![EntryName[cmd'.file]] = cmd'.file]
    BY <1>1, <1>5, <1>6, <1>8, <1>11 DEF Kept
  <2>2. Quiet(u)' /\ ret' = Size[cmd'.file]
    BY <1>1, <1>10 DEF Quiet
  <2> QED
    BY <1>12, <2>1, <2>2 DEF AtSaved
<1> QED
  BY <1>0, <1>1, <1>13 DEF Stage

\* A file that was added had a slot and space.
LEMMA FileAdded ==
    ASSUME Sound, NEW u, SeenOK(u), NEW f \in HostFiles, Size[f] > 0,
           NEW nm, nm = EntryName[f], NEW G, G = [u.files EXCEPT ![nm] = f],
           Kept(G), Spare(G, mfat, 0)
    PROVE  Added(u, G, NothingExtracted, Size[f], u.errno, f)
<1>0. nm \in Names /\ f # NoFile
  BY FilesAssumption
<1>1. PICK F : F = u.files
  OBVIOUS
<1>2. F \in Files /\ IsFiniteSet(Stored(F)) /\ G = [F EXCEPT ![nm] = f]
  BY <1>1 DEF SeenOK
<1>3. /\ G \in Files /\ IsFiniteSet(Stored(G)) /\ Taken(G) \in Nat /\ get_dskf(mfat) \in Nat
  BY KeptTaken
<1>a. G[nm] = f
  BY <1>0, <1>2 DEF Files
<1>b. PICK K : K = [G EXCEPT ![nm] = NoFile]
  OBVIOUS
<1>6. Taken(G) = Taken(K) + Need(G[nm]) /\ Taken(K) \in Nat
  <2>1. G[nm] # NoFile
    BY <1>0, <1>a
  <2> QED
    BY ONLY <1>0, <1>3, <1>b, <2>1, TakenWithout
<1>4. PICK H : H = [F EXCEPT ![nm] = NoFile]
  OBVIOUS
<1>5. H = K /\ G[nm] = f
  BY <1>0, <1>2, <1>4, <1>a, <1>b DEF Files
<1>7. SpaceFor(u, f)
  <2>1. get_dskf(mfat) + Taken(G) + 0 = Capacity
    BY DEF Spare
  <2>2. Taken(G) = Taken(H) + Need(f) /\ Taken(H) \in Nat /\ Need(f) \in Nat
    BY <1>5, <1>6, NeedType
  <2>3. Taken(H) + Need(f) =< Capacity
    BY <1>3, <2>1, <2>2
  <2> QED
    BY <1>1, <1>4, <2>3 DEF SpaceFor, Without
<1>8. SlotFor(u, f)
  <2>1. CASE F[nm] # NoFile
    BY <1>0, <1>1, <2>1 DEF SlotFor, Stored
  <2>2. CASE F[nm] = NoFile
    <3>1. mdir \in [Entries -> Entry] /\ Distinct(mdir, mdir) /\ Keeps(G, mfat, mdir, data)
      BY SoundFacts DEF Kept
    <3>2. Cardinality(Stored(G)) =< NEntries
      BY <3>1, StoredNames
    <3>3. Stored(G) = Stored(F) \cup {nm} /\ nm \notin Stored(F)
      BY <1>0, <1>2, <2>2 DEF Stored, Files
    <3>4. Cardinality(Stored(G)) = Cardinality(Stored(F)) + 1 /\ Cardinality(Stored(F)) \in Nat
      BY <1>2, <3>3, FS_AddElement, FS_CardinalityType
    <3>5. Cardinality(Stored(F)) < NEntries
      BY <3>2, <3>4, GeometryAssumption
    <3> QED
      BY <1>1, <3>5 DEF SlotFor
  <2> QED
    BY <2>1, <2>2
<1> QED
  BY <1>7, <1>8 DEF Added

LEMMA SaveGoesOn ==
    ASSUME SaveSector, ~LastSector, NEW u, Stage(u)
    PROVE  Stage(u)'
<1>1. /\ pc = "save" /\ UNCHANGED <<pc, cmd, n, mfat, mdir, data, extracted, ret, errno>>
  BY DEF SaveSector, buffer
<1>2. AtSaved(u) => AtSaved(u)'
  BY <1>1 DEF AtSaved, Quiet, Kept, Spare
<1>3. AtDeleted(u) => AtDeleted(u)'
  BY <1>1 DEF AtDeleted, Kept, Spare, Kind
<1> QED
  BY <1>1, <1>2, <1>3 DEF Stage

\* The call returns, and the last sector of track 20 has been written.
LEMMA SaveReturns ==
    ASSUME SaveSector, LastSector, NEW u, NEW G, Kept(G), Spare(G, mfat, 0),
           Answered(u, G, extracted, ret, errno)
    PROVE  Stage(u)'
<1>1. /\ pc' = "idle" /\ UNCHANGED <<mfat, mdir, data, extracted, ret, errno>>
  BY DEF SaveSector, Return, buffer
<1>2. Kept(G)' /\ Spare(G, mfat, 0)' /\ Answered(u, G, extracted, ret, errno)'
  BY <1>1 DEF Kept, Spare
<1>3. AtIdle(u)'
  BY <1>1, <1>2 DEF AtIdle
<1> QED
  BY <1>1, <1>3 DEF Stage

LEMMA TrackSaved ==
    ASSUME Sound, NEW u, SeenOK(u), SaveSector, Stage(u), u.call = cmd
    PROVE  Stage(u)'
<1>0. pc = "save" /\ cmd.op \in {"add", "delete"} /\ (cmd.op = "add" => cmd.file \in HostFiles)
      /\ cmd \in Cmd
  BY SoundFacts DEF SaveSector, RequestOK
<1>1. CASE ~LastSector
  BY <1>1, SaveGoesOn
<1>2. CASE LastSector /\ cmd.op = "add"
  <2>1. AtSaved(u)
    BY <1>0, <1>2 DEF Stage
  <2>2. PICK f \in HostFiles : f = cmd.file
    BY <1>0, <1>2
  <2>3. PICK nm : nm = EntryName[f]
    OBVIOUS
  <2>4. PICK G : G = [u.files EXCEPT ![nm] = f] /\ Kept(G) /\ Spare(G, mfat, 0)
    BY <2>1, <2>2, <2>3 DEF AtSaved
  <2>5. Size[f] > 0
    BY <1>2, <2>2 DEF Sound, SpaceInv
  <2>6. Added(u, G, NothingExtracted, Size[f], u.errno, f)
    BY <2>3, <2>4, <2>5, FileAdded
  <2>7. extracted = NothingExtracted /\ ret = Size[f] /\ errno = u.errno
    BY <2>1, <2>2 DEF AtSaved, Quiet
  <2>8. Answered(u, G, extracted, ret, errno)
    BY <1>2, <2>2, <2>6, <2>7 DEF Answered
  <2> QED
    BY <1>2, <2>4, <2>8, SaveReturns
<1>3. CASE LastSector /\ cmd.op = "delete"
  <2>1. AtDeleted(u)
    BY <1>0, <1>3 DEF Stage
  <2>2. PICK S \in SUBSET Names, w \in BOOLEAN : S = cmd.pattern /\ w = cmd.wild
    BY <1>0 DEF Cmd
  <2>3. PICK G : G = Emptied(u, S) /\ Kept(G) /\ Spare(G, mfat, 0)
    BY <2>1, <2>2 DEF AtDeleted
  <2>4. Deleted(u, G, extracted, ret, errno, S, w)
    BY <2>1, <2>2, <2>3 DEF AtDeleted, Deleted
  <2>5. Answered(u, G, extracted, ret, errno)
    BY <1>3, <2>2, <2>4 DEF Answered
  <2> QED
    BY <1>3, <2>3, <2>5, SaveReturns
<1> QED
  BY <1>0, <1>1, <1>2, <1>3

-----------------------------------------------------------------------------
(***************************************************************************)
(* sap_DeleteFile, step by step.                                           *)
(***************************************************************************)
LEMMA MatchFound ==
    ASSUME Sound, Matches # {}
    PROVE  LET e == Min(Matches)
           IN  /\ e \in Entries /\ e >= SearchFrom /\ mdir[e].name \in cmd.pattern /\ Live(e)
               /\ \A d \in Entries : d >= SearchFrom /\ d < e => mdir[d].name \notin cmd.pattern
<1>1. /\ Matches \in SUBSET Nat /\ cmd.pattern \in SUBSET Names /\ SearchFrom \in Nat
  BY SoundFacts, GeometryAssumption DEF Matches, SlotsOf, SearchFrom, Entries, Cmd
<1>2. Min(Matches) \in Matches /\ \A y \in Matches : Min(Matches) =< y
  BY <1>1, MinMember
<1>3. PICK e : e = Min(Matches)
  OBVIOUS
<1>4. e \in Entries /\ e >= SearchFrom /\ mdir[e].name \in cmd.pattern
  BY <1>2, <1>3 DEF Matches, SlotsOf
<1>5. Live(e)
  BY <1>1, <1>4, FilesAssumption DEF Live
<1>6. ASSUME NEW d \in Entries, d >= SearchFrom, d < e PROVE mdir[d].name \notin cmd.pattern
  <2>1. d \notin Matches
    BY <1>2, <1>3, <1>4, <1>6, GeometryAssumption DEF Entries
  <2> QED
    BY <1>6, <2>1 DEF Matches, SlotsOf
<1> QED
  BY <1>3, <1>4, <1>5, <1>6

\* When no entry of the pattern is left, its files are gone and no others.
LEMMA AllEmptied ==
    ASSUME Sound, NEW u, SeenOK(u), NEW G, Kept(G), Shrunk(u, G),
           \A e \in Entries : mdir[e].name \notin cmd.pattern
    PROVE  /\ G = Emptied(u, cmd.pattern)
           /\ G # u.files <=> cmd.pattern \cap Stored(u.files) # {}
<1>1. G \in Files /\ u.files \in Files /\ cmd.pattern \in SUBSET Names
  BY KeptTaken, SoundFacts DEF SeenOK, Cmd
<1>2. PICK F, S : F = u.files /\ S = cmd.pattern
  OBVIOUS
<1>3. ASSUME NEW nm \in Names
      PROVE  G[nm] = IF nm \in S THEN NoFile ELSE F[nm]
  <2>1. CASE nm \in S
    <3>1. Stands(nm, G[nm], mfat, mdir, data)
      BY DEF Kept, Keeps
    <3>2. \A e \in Entries : mdir[e].name # nm
      BY <1>2, <2>1
    <3> QED
      BY <2>1, <3>1, <3>2 DEF Stands
  <2>2. CASE nm \notin S
    BY <1>2, <2>2 DEF Shrunk
  <2> QED
    BY <2>1, <2>2
<1>4. G = [nm \in Names |-> IF nm \in S THEN NoFile ELSE F[nm]]
  <2>1. G = [nm \in Names |-> G[nm]]
    BY <1>1 DEF Files
  <2> QED
    BY <1>3, <2>1, Zenon
<1>5. G = Emptied(u, cmd.pattern)
  BY <1>2, <1>4 DEF Emptied
<1>6. ASSUME S \cap Stored(F) = {} PROVE G = F
  <2>1. \A nm \in Names : G[nm] = F[nm]
    BY <1>3, <1>6 DEF Stored
  <2>2. G = [nm \in Names |-> G[nm]] /\ F = [nm \in Names |-> F[nm]]
    BY <1>1, <1>2 DEF Files
  <2> QED
    BY <2>1, <2>2, Zenon
<1>7. ASSUME S \cap Stored(F) # {} PROVE G # F
  <2>1. PICK nm \in Names : nm \in S /\ F[nm] # NoFile
    BY <1>7 DEF Stored
  <2> QED
    BY <1>3, <2>1
<1> QED
  BY <1>2, <1>5, <1>6, <1>7

LEMMA DeletionStarts ==
    ASSUME Sound, NEW u, SeekDelete, AtSeekDelete(u)
    PROVE  Stage(u)'
<1>0. /\ cmd.op = "delete" /\ cmd.pattern \in SUBSET Names /\ Matches # {} /\ SearchFrom \in Nat
      /\ mdir \in [Entries -> Entry] /\ Distinct(mdir, mdir)
  BY SoundFacts, Geometry DEF SeekDelete, SearchFrom, Cmd
<1>1. PICK e : e = Min(Matches)
  OBVIOUS
<1>2. /\ e \in Entries /\ e >= SearchFrom /\ mdir[e].name \in cmd.pattern /\ Live(e)
      /\ \A d \in Entries : d >= SearchFrom /\ d < e => mdir[d].name \notin cmd.pattern
  BY <1>0, <1>1, MatchFound
<1>3. /\ n' = e /\ (cmd.wild => i' = e + 1) /\ StartDelete(e) /\ mfat' = mfat /\ data' = data /\ cmd' = cmd
      /\ errno' = errno /\ extracted' = extracted
  BY <1>1 DEF SeekDelete, Found, archive
<1>4. mdir' = [mdir EXCEPT ![e].name = NoName] /\ pc' = "delete"
  BY <1>3 DEF StartDelete
<1>5. PICK G : Kept(G) /\ Shrunk(u, G) /\ Spare(G, mfat, 0)
  BY DEF AtSeekDelete
<1>6. PICK nm : nm = mdir[e].name
  OBVIOUS
<1>7. PICK f : f = G[nm]
  OBVIOUS
<1>8. PICK H : H = [G EXCEPT ![nm] = NoFile]
  OBVIOUS
<1>9. /\ nm \in Names /\ f \in HostFiles
      /\ Trails(f)' /\ Kept(H)' /\ Spare(H, mfat, Need(f) - size)'
  BY <1>2, <1>3, <1>5, <1>6, <1>7, <1>8, EntryLeaves
<1>10. /\ H[nm] = NoFile /\ \A x \in Names : x # nm => H[x] = G[x]
  BY <1>5, <1>8, <1>9, KeptTaken DEF Files
<1>11. Shrunk(u, H)' /\ H # u.files
  <2>1. nm \in cmd.pattern /\ f # NoFile
    BY <1>2, <1>6, <1>9, FilesAssumption
  <2>2. Shrunk(u, H)'
    BY <1>3, <1>5, <1>10, <2>1 DEF Shrunk
  <2>3. u.files[nm] = f
    BY <1>5, <1>7, <1>9, <2>1 DEF Shrunk
  <2> QED
    BY <1>10, <2>1, <2>2, <2>3
<1>12. Quiet(u)' /\ Kind'
  BY <1>3 DEF AtSeekDelete, Quiet, Kind
<1>13. /\ mdir'[e].name = NoName /\ \A d \in Entries : d # e => mdir'[d] = mdir[d]
       /\ NoName \notin cmd.pattern
  BY <1>0, <1>2, <1>4, FilesAssumption
<1>14. Passed'
  <2>1. ASSUME NEW d \in Entries, d < SearchFrom' PROVE mdir'[d].name \notin cmd.pattern
    <3>1. d \in Nat /\ e \in Nat
      BY <1>2, Geometry DEF Entries
    <3>2. d < e + 1
      BY <1>3, <2>1, <3>1 DEF SearchFrom
    <3>3. d < SearchFrom \/ (d >= SearchFrom /\ d < e) \/ d = e
      BY <1>0, <3>1, <3>2
    <3> QED
      BY <1>2, <1>13, <3>3 DEF AtSeekDelete, Passed
  <2> QED
    BY <1>3, <2>1 DEF Passed
<1>15. ~cmd'.wild => \A d \in Entries : mdir'[d].name \notin cmd'.pattern
  <2>1. SUFFICES ASSUME ~cmd.wild, NEW d \in Entries PROVE mdir'[d].name \notin cmd.pattern
    BY <1>3
  <2>2. PICK x \in Names : cmd.pattern = {x}
    BY <2>1 DEF AtSeekDelete, Kind, Pattern
  <2>3. mdir[e].name = x /\ x # NoName
    BY <1>2, <2>2, FilesAssumption
  <2>4. d # e => mdir[d].name # x
    BY <1>0, <1>2, <2>3 DEF Distinct
  <2> QED
    BY <1>13, <2>2, <2>4
<1>16. AtDelete(u)'
  BY <1>9, <1>11, <1>12, <1>14, <1>15 DEF AtDelete
<1> QED
  BY <1>0, <1>3, <1>4, <1>16 DEF Stage

LEMMA DeletionGoesOn ==
    ASSUME Sound, NEW u, DeleteStep, Stage(u)
    PROVE  Stage(u)'
<1>1. /\ pc = "delete" /\ pc' = "delete" /\ UNCHANGED <<mdir, data, cmd, n, i, extracted, errno>>
  BY DEF DeleteStep, archive
<1>2. cmd.op \in {"add", "delete"}
  BY <1>1, SoundFacts DEF RequestOK
<1>3. CASE cmd.op = "add"
  <2>1. PICK f \in HostFiles : Trails(f) /\ Cleared(u, Need(f) - size)
    BY <1>1, <1>3 DEF Stage, AtReplace
  <2>2. PICK H : H = Without(u, EntryName[cmd.file]) /\ Kept(H) /\ Spare(H, mfat, Need(f) - size)
    BY <2>1 DEF Cleared
  <2>3. Trails(f)' /\ Kept(H)' /\ Spare(H, mfat, Need(f) - size)'
    BY <2>1, <2>2, BlockLeaves
  <2>4. Cleared(u, Need(f) - size)'
    BY <1>1, <2>1, <2>2, <2>3 DEF Cleared, Quiet
  <2>5. AtReplace(u)'
    BY <2>3, <2>4 DEF AtReplace
  <2> QED
    BY <1>1, <1>3, <2>5 DEF Stage
<1>4. CASE cmd.op = "delete"
  <2>1. PICK G, f : /\ f \in HostFiles /\ Trails(f)
                    /\ Kept(G) /\ Shrunk(u, G) /\ G # u.files /\ Spare(G, mfat, Need(f) - size)
    BY <1>1, <1>4 DEF Stage, AtDelete
  <2>2. Trails(f)' /\ Kept(G)' /\ Spare(G, mfat, Need(f) - size)'
    BY <2>1, BlockLeaves
  <2>3. Shrunk(u, G)' /\ Quiet(u)' /\ Kind' /\ Passed'
        /\ (~cmd'.wild => \A e \in Entries : mdir'[e].name \notin cmd'.pattern)
    BY <1>1, <1>4, <2>1 DEF Stage, AtDelete, Shrunk, Quiet, Kind, Passed, SearchFrom
  <2>4. AtDelete(u)'
    BY <2>1, <2>2, <2>3 DEF AtDelete
  <2> QED
    BY <1>1, <1>4, <2>4 DEF Stage
<1> QED
  BY <1>2, <1>3, <1>4

\* A file has a block, so its deletion returns more than 0.
LEMMA SizeReturned ==
    ASSUME Sound, NEW f, Trails(f), ~InChain(block)
    PROVE  size = Need(f) /\ Need(f) \in Nat /\ DeletedSize \in Nat /\ DeletedSize > 0
<1>0. TypeOK /\ n \in Entries /\ mdir \in [Entries -> Entry]
  BY SoundFacts
<1>1. size = Need(f)
  BY <1>0, TrailEnds
<1>2. PICK p \in Paths, k \in Nat, t \in 0 .. SectPerBlock - 1 : Trail(f, p, k, t)
  BY DEF Trails
<1>3. Need(f) = k + 1
  BY <1>2 DEF Trail
<1>4. mdir[n].end \in Nat
  BY <1>0 DEF Entry
<1>5. DeletedSize \in Nat
  BY <1>0, DeletedSizeType
<1>6. PICK tail \in Nat :
          tail = IF block > TO_END_BLOCK_OFFSET + 1
                   THEN (block - TO_END_BLOCK_OFFSET - 1) * SectSize ELSE 0
  <2>1. block \in Byte \cup {NoBlock} /\ SectSize \in Nat
    BY <1>0, Geometry DEF TypeOK
  <2>2. CASE block > TO_END_BLOCK_OFFSET + 1
    <3>1. PICK x \in Nat : x = block - TO_END_BLOCK_OFFSET - 1
      BY <2>1, <2>2 DEF Byte, NoBlock, TO_END_BLOCK_OFFSET
    <3>2. x * SectSize \in Nat
      BY <2>1, Product
    <3> QED
      BY <2>2, <3>1, <3>2
  <2>3. CASE ~(block > TO_END_BLOCK_OFFSET + 1)
    BY <2>3
  <2> QED
    BY <2>2, <2>3
<1>7. PICK x \in Nat : x = k * TO_BLOCKSIZE
  BY BlockBytes, Product
<1>8. size * TO_BLOCKSIZE = x + TO_BLOCKSIZE
  BY <1>1, <1>3, <1>7, BlockBytes
<1>9. DeletedSize = size * TO_BLOCKSIZE + tail + mdir[n].end
  BY <1>6 DEF DeletedSize
<1>10. DeletedSize > 0
  BY <1>4, <1>7, <1>8, <1>9, BlockBytes
<1> QED
  BY <1>1, <1>3, <1>5, <1>10

LEMMA DeletionEnds ==
    ASSUME Sound, NEW u, SeenOK(u), DeleteDone, Stage(u)
    PROVE  Stage(u)'
<1>1. /\ pc = "delete" /\ ~InChain(block)
      /\ UNCHANGED <<mfat, mdir, data, cmd, n, i, extracted, errno>>
  BY DEF DeleteDone, archive, buffer
<1>2. cmd.op \in {"add", "delete"} /\ ret \in Nat
  BY <1>1, SoundFacts DEF RequestOK
<1>3. CASE cmd.op = "add"
  <2>1. PICK f \in HostFiles : Trails(f) /\ Cleared(u, Need(f) - size)
    BY <1>1, <1>3 DEF Stage, AtReplace
  <2>2. size = Need(f) /\ Need(f) \in Nat
    BY <1>1, <2>1, SizeReturned
  <2>3. Need(f) - size = 0
    BY <2>2
  <2>4. Cleared(u, 0)
    BY <2>1, <2>3
  <2>5. AtAlloc(u)'
    BY <1>1, <2>4 DEF AtAlloc, Cleared, Quiet, Kept, Spare
  <2>6. pc' = "alloc"
    BY <1>3 DEF DeleteDone
  <2> QED
    BY <2>5, <2>6 DEF Stage
<1>4. CASE cmd.op = "delete"
  <2>0. AtDelete(u)
    BY <1>1, <1>4 DEF Stage
  <2>1. PICK G, f : /\ f \in HostFiles /\ Trails(f)
                    /\ Kept(G) /\ Shrunk(u, G) /\ G # u.files /\ Spare(G, mfat, Need(f) - size)
    BY <2>0 DEF AtDelete
  <2>2. size = Need(f) /\ Need(f) \in Nat /\ DeletedSize \in Nat /\ DeletedSize > 0
    BY <1>1, <2>1, SizeReturned
  <2>3. Need(f) - size = 0
    BY <2>2
  <2>4. Kept(G)' /\ Shrunk(u, G)' /\ Spare(G, mfat, 0)'
    BY <1>1, <2>1, <2>3 DEF Kept, Shrunk, Spare
  <2>5. Quiet(u) /\ Quiet(u)' /\ Kind' /\ Passed'
    BY <1>1, <2>0 DEF AtDelete, Quiet, Kind, Passed, SearchFrom
  <2>6. ret' > 0
    <3>1. ret' = ret + DeletedSize
      BY <1>4 DEF DeleteDone
    <3> QED
      BY <1>2, <2>2, <3>1
  <2>7. CASE cmd.wild
    <3>1. pc' = "seek" /\ cmd' = cmd
      BY <1>1, <1>4, <2>7 DEF DeleteDone
    <3>2. AtSeekDelete(u)'
      BY <2>1, <2>4, <2>5, <2>6, <2>7, <3>1 DEF AtSeekDelete
    <3> QED
      BY <1>4, <3>1, <3>2 DEF Stage
  <2>8. CASE ~cmd.wild
    <3>1. pc' = "save" /\ cmd' = cmd
      BY <1>1, <1>4, <2>8 DEF DeleteDone, StartSave
    <3>2. \A e \in Entries : mdir[e].name \notin cmd.pattern
      BY <2>0, <2>8 DEF AtDelete
    <3>3. /\ G = Emptied(u, cmd.pattern)
          /\ G # u.files <=> cmd.pattern \cap Stored(u.files) # {}
      BY <2>1, <3>2, AllEmptied
    <3>4. errno' = Missing(u, cmd.pattern, cmd.wild) /\ extracted' = NothingExtracted
      BY <2>1, <2>5, <3>3 DEF Missing, Quiet
    <3>5. AtDeleted(u)'
      BY <2>1, <2>4, <2>5, <2>6, <3>1, <3>3, <3>4 DEF AtDeleted
    <3> QED
      BY <1>4, <3>1, <3>5 DEF Stage
  <2> QED
    BY <2>7, <2>8
<1> QED
  BY <1>2, <1>3, <1>4

LEMMA DeletionSearchEnds ==
    ASSUME Sound, NEW u, SeenOK(u), SeekEnd, cmd.op = "delete", AtSeekDelete(u)
    PROVE  Stage(u)'
<1>1. /\ pc' = "save" /\ UNCHANGED <<mfat, mdir, data, cmd, extracted, ret>>
      /\ Matches = {} /\ errno' = IF cmd.wild THEN errno ELSE "ENOENT"
  BY DEF SeekEnd, StartSave, archive, buffer
<1>2. PICK G : /\ Kept(G) /\ Shrunk(u, G) /\ Spare(G, mfat, 0)
               /\ ret > 0 <=> G # u.files
               /\ ~cmd.wild => G = u.files
  BY DEF AtSeekDelete
<1>3. \A e \in Entries : mdir[e].name \notin cmd.pattern
  <2>1. \A e \in Entries : e < SearchFrom => mdir[e].name \notin cmd.pattern
    BY DEF AtSeekDelete, Passed
  <2>2. \A e \in Entries : e >= SearchFrom => mdir[e].name \notin cmd.pattern
    BY <1>1 DEF Matches, SlotsOf
  <2>3. SearchFrom \in Nat
    BY SoundFacts, GeometryAssumption DEF SearchFrom
  <2> QED
    BY <2>1, <2>2, <2>3, GeometryAssumption DEF Entries
<1>4. /\ G = Emptied(u, cmd.pattern)
      /\ G # u.files <=> cmd.pattern \cap Stored(u.files) # {}
  BY <1>2, <1>3, AllEmptied
<1>5. errno' = Missing(u, cmd.pattern, cmd.wild)
  BY <1>1, <1>2, <1>4 DEF Missing, AtSeekDelete, Quiet
<1>6. Kept(G)' /\ Spare(G, mfat, 0)' /\ Kind' /\ extracted' = NothingExtracted
  BY <1>1, <1>2 DEF Kept, Spare, Kind, AtSeekDelete, Quiet
<1>7. AtDeleted(u)'
  BY <1>1, <1>2, <1>4, <1>5, <1>6 DEF AtDeleted
<1> QED
  BY <1>1, <1>7 DEF Stage

-----------------------------------------------------------------------------
(***************************************************************************)
(* sap_ExtractFile, step by step.                                          *)
(***************************************************************************)
LEMMA ReadingKept ==
    ASSUME NEW u, NEW O, Reading(u, O), UNCHANGED <<mfat, mdir, data, cmd, errno>>,
           Looked' = Looked
    PROVE  Reading(u, O)'
BY DEF Reading, Kept, Spare, Kind, Behind, Refused

\* Every file of the dictionary has an entry.
LEMMA EntryOfFile ==
    ASSUME Sound, NEW u, Kept(u.files), NEW nm
    PROVE  nm \in Stored(u.files) <=> \E e \in Entries : Live(e) /\ mdir[e].name = nm
<1>1. mdir \in [Entries -> Entry] /\ Distinct(mdir, mdir)
  BY SoundFacts
<1>2. PICK G : G = u.files
  OBVIOUS
<1>3. Stored(G) = {mdir[e].name : e \in {d \in Entries : mdir[d].name # NoName}}
  BY <1>1, <1>2, StoredNames DEF Kept
<1> QED
  BY <1>2, <1>3 DEF Live

\* At the first slot nothing is read yet.
LEMMA NothingBehind ==
    ASSUME Sound, NEW u, NEW O, Reading(u, O), Looked = 0
    PROVE  O = {}
<1>1. SUFFICES ASSUME NEW nm \in O PROVE FALSE
  OBVIOUS
<1>2. nm \in Stored(u.files)
  BY DEF Reading
<1>3. PICK e \in Entries : Live(e) /\ mdir[e].name = nm
  BY <1>2, EntryOfFile DEF Reading
<1>4. e < 0
  BY <1>1, <1>3 DEF Reading, Behind
<1> QED
  BY <1>4, Geometry DEF Entries

\* A return from an extraction that has written the files O.
LEMMA ExtractReturns ==
    ASSUME Sound, NEW u, u.call = cmd, cmd.op = "extract", NEW O, Reading(u, O), Return,
           UNCHANGED <<mfat, mdir, data>>,
           extracted' = Read(u, O), ret' = BytesOfAll(u, O),
           errno' = IF O # cmd.pattern \cap Stored(u.files) THEN "EPERM"
                    ELSE Missing(u, cmd.pattern, cmd.wild)
    PROVE  Stage(u)'
<1>0. cmd \in Cmd
  BY SoundFacts
<1>1. PICK S \in SUBSET Names, w \in BOOLEAN : S = cmd.pattern /\ w = cmd.wild
  BY <1>0 DEF Cmd
<1>2. O \in SUBSET (S \cap Stored(u.files))
  BY <1>1 DEF Reading
<1>3. PICK G : G = u.files
  OBVIOUS
<1>4. Extracted(u, G, extracted', ret', errno', S, w)
  BY <1>1, <1>2, <1>3 DEF Extracted
<1>5. Answered(u, G, extracted', ret', errno')
  BY <1>1, <1>4 DEF Answered
<1>6. Kept(G)' /\ Spare(G, mfat, 0)'
  BY <1>3 DEF Reading, Kept, Spare
<1>7. pc' = "idle"
  BY DEF Return
<1>8. AtIdle(u)'
  BY <1>5, <1>6 DEF AtIdle
<1> QED
  BY <1>7, <1>8 DEF Stage

LEMMA ExtractionRefused ==
    ASSUME Sound, NEW u, ExtractNoPerm, AtSeekExtract(u), u.call = cmd
    PROVE  Stage(u)'
<1>0. /\ pc = "seek" /\ cmd.op = "extract" /\ cmd.pattern \in SUBSET Names /\ SearchFrom \in Nat
      /\ Matches # {} /\ errno' = "EPERM"
      /\ UNCHANGED <<mfat, mdir, data, extracted, ret>>
  BY SoundFacts, Geometry DEF ExtractNoPerm, SearchFrom, Cmd, archive, buffer
<1>a. Looked = SearchFrom
  BY <1>0 DEF Looked
<1>1. PICK e : e = Min(Matches)
  OBVIOUS
<1>2. /\ e \in Entries /\ e >= SearchFrom /\ mdir[e].name \in cmd.pattern /\ Live(e)
      /\ \A d \in Entries : d >= SearchFrom /\ d < e => mdir[d].name \notin cmd.pattern
  BY <1>0, <1>1, MatchFound
<1>3. PICK O : Reading(u, O) /\ extracted = Read(u, O) /\ ret = BytesOfAll(u, O)
  BY DEF AtSeekExtract
<1>4. e \in Nat
  BY <1>2, GeometryAssumption DEF Entries
<1>5. mdir[e].name \notin O
  BY <1>0, <1>a, <1>2, <1>3, <1>4 DEF Reading, Behind
<1>6. CASE cmd.wild
  <2>1. UNCHANGED <<pc, cmd>> /\ Looked' = e + 1
    BY <1>0, <1>1, <1>6 DEF ExtractNoPerm, Found, Looked, SearchFrom
  <2>2. Behind(O)'
    <3>1. ASSUME NEW d \in Entries, mdir[d].name \in O PROVE d < e + 1
      <4>1. d < SearchFrom /\ d \in Nat
        BY <1>a, <1>3, <3>1, GeometryAssumption DEF Reading, Behind, Entries
      <4> QED
        BY <1>0, <1>2, <1>4, <4>1
    <3> QED
      BY <1>0, <2>1, <3>1 DEF Behind
  <2>3. Refused(O)'
    <3>1. e < e + 1
      BY <1>4
    <3> QED
      BY <1>0, <1>2, <1>5, <2>1, <3>1 DEF Refused
  <2>4. Reading(u, O)'
    BY <1>0, <1>3, <2>1, <2>2, <2>3 DEF Reading, Kept, Spare, Kind
  <2>5. AtSeekExtract(u)'
    BY <1>0, <1>3, <2>4 DEF AtSeekExtract
  <2> QED
    BY <1>0, <2>1, <2>5 DEF Stage
<1>7. CASE ~cmd.wild
  <2>1. Return
    BY <1>7 DEF ExtractNoPerm
  <2>2. O = {}
    BY <1>a, <1>3, <1>7, NothingBehind DEF SearchFrom
  <2>3. mdir[e].name \in cmd.pattern \cap Stored(u.files)
    BY <1>2, <1>3, EntryOfFile DEF Reading
  <2> QED
    BY <1>0, <1>3, <2>1, <2>2, <2>3, ExtractReturns
<1> QED
  BY <1>6, <1>7

LEMMA ExtractionSearchEnds ==
    ASSUME Sound, NEW u, SeekEnd, cmd.op = "extract", AtSeekExtract(u), u.call = cmd
    PROVE  Stage(u)'
<1>1. /\ Return /\ UNCHANGED <<mfat, mdir, data, extracted, ret>>
      /\ Matches = {} /\ errno' = IF cmd.wild THEN errno ELSE "ENOENT"
  BY DEF SeekEnd, archive, buffer
<1>2. PICK O : Reading(u, O) /\ extracted = Read(u, O) /\ ret = BytesOfAll(u, O)
  BY DEF AtSeekExtract
<1>a. Looked = SearchFrom
  BY DEF SeekEnd, Looked
<1>3. \A e \in Entries : mdir[e].name \in cmd.pattern => e < Looked
  <2>1. SearchFrom \in Nat
    BY SoundFacts, GeometryAssumption DEF SearchFrom
  <2> QED
    BY <1>1, <1>a, <2>1, GeometryAssumption DEF Matches, SlotsOf, Entries
<1>4. /\ O \in SUBSET (cmd.pattern \cap Stored(u.files)) /\ Kept(u.files)
      /\ errno = IF Refused(O) THEN "EPERM" ELSE u.errno
  BY <1>2 DEF Reading
<1>5. Refused(O) <=> O # cmd.pattern \cap Stored(u.files)
  <2>1. ASSUME Refused(O) PROVE O # cmd.pattern \cap Stored(u.files)
    <3>1. PICK e \in Entries : mdir[e].name \in cmd.pattern \ O
      BY <2>1 DEF Refused
    <3>2. mdir[e].name # NoName
      BY <3>1, SoundFacts, FilesAssumption DEF Cmd
    <3>3. mdir[e].name \in Stored(u.files)
      BY <1>4, <3>1, <3>2, EntryOfFile DEF Live
    <3> QED
      BY <3>1, <3>3
  <2>2. ASSUME O # cmd.pattern \cap Stored(u.files) PROVE Refused(O)
    <3>1. PICK nm : nm \in cmd.pattern /\ nm \in Stored(u.files) /\ nm \notin O
      BY <1>4, <2>2
    <3>2. PICK e \in Entries : mdir[e].name = nm
      BY <1>4, <3>1, EntryOfFile
    <3> QED
      BY <1>3, <3>1, <3>2 DEF Refused
  <2> QED
    BY <2>1, <2>2
<1>6. errno' = IF O # cmd.pattern \cap Stored(u.files) THEN "EPERM"
               ELSE Missing(u, cmd.pattern, cmd.wild)
  <2>1. CASE cmd.wild
    BY <1>1, <1>4, <1>5, <2>1 DEF Missing
  <2>2. CASE ~cmd.wild
    <3>1. Looked = 0
      BY <1>a, <2>2 DEF SearchFrom
    <3>2. O = {}
      BY <1>2, <3>1, NothingBehind
    <3>3. ~Refused(O)
      BY <3>1, Geometry DEF Refused, Entries
    <3> QED
      BY <1>1, <1>5, <2>2, <3>2, <3>3 DEF Missing
  <2> QED
    BY <2>1, <2>2
<1> QED
  BY <1>1, <1>2, <1>6, ExtractReturns

\* A sequence, and what follows its x first elements.
Whole(c, L)    == [s \in 1 .. L |-> c[s]]
After(c, x, m) == [s \in 1 .. m |-> c[x + s]]
First(c, x)    == SubSeq(c, 1, x)
Joined(a, b)   == a \o b

\* The last sector of a file, as it reads.
Ending(b, t, end) == << <<SectorAt(b + t), end>> >>

\* The sectors of a file that have been read, as a prefix of it.
LEMMA PrefixGrows ==
    ASSUME NEW L \in Nat, NEW c, c = Whole(c, L),
           NEW x \in Nat, NEW m \in Nat, x + m =< L
    PROVE  /\ First(c, 0) = <<>> /\ First(c, L) = c
           /\ Joined(First(c, x), After(c, x, m)) = First(c, x + m)
<1> DEFINE T == {c[s] : s \in 1 .. L}
           w == [s \in 1 .. m |-> c[x + s]]
           a == SubSeq(c, 1, x)
           b == SubSeq(c, 1, x + m)
<1>1. c \in Seq(T) /\ Len(c) = L
  BY DEF Whole
<1>2. w \in Seq(T) /\ Len(w) = m /\ \A s \in 1 .. m : w[s] = c[x + s]
  <2>1. \A s \in 1 .. m : c[x + s] \in T
    OBVIOUS
  <2>2. \A s \in 1 .. m : w[s] = c[x + s]
    OBVIOUS
  <2>3. w \in [1 .. m -> T]
    <3> HIDE DEF T
    <3> QED
      BY <2>1
  <2> HIDE DEF T, w
  <2>4. w \in Seq(T) /\ Len(w) = m
    BY <2>3
  <2> QED
    BY <2>2, <2>4
<1> HIDE DEF T, w
<1>3. a \in Seq(T) /\ Len(a) = x /\ \A s \in 1 .. x : a[s] = c[s]
  BY <1>1
<1>4. b \in Seq(T) /\ Len(b) = x + m /\ \A s \in 1 .. x + m : b[s] = c[s]
  BY <1>1
<1> HIDE DEF a, b
<1> DEFINE g == a \o w
<1>5. g \in Seq(T) /\ Len(g) = x + m
      /\ \A s \in 1 .. x + m : g[s] = IF s =< x THEN a[s] ELSE w[s - x]
  BY ONLY <1>2, <1>3, x \in Nat, m \in Nat DEF g
<1> HIDE DEF g
<1>6. ASSUME NEW s \in 1 .. x + m PROVE g[s] = b[s]
  <2>1. CASE s =< x
    <3>1. g[s] = a[s] /\ s \in 1 .. x
      BY <1>5, <2>1
    <3> QED
      BY <1>3, <1>4, <3>1
  <2>2. CASE s > x
    <3>1. s - x \in 1 .. m /\ x + (s - x) = s
      BY <2>2
    <3>2. g[s] = w[s - x]
      BY <1>5, <2>2
    <3>3. w[s - x] = c[s]
      BY <1>2, <3>1
    <3> QED
      BY <1>4, <3>2, <3>3
  <2> QED
    BY <2>1, <2>2
<1>7. g = b
  <2>1. g = [s \in 1 .. x + m |-> g[s]]
    BY <1>5
  <2>2. b = [s \in 1 .. x + m |-> b[s]]
    BY <1>4
  <2> QED
    BY <1>6, <2>1, <2>2, Zenon
<1>8. SubSeq(c, 1, 0) = <<>>
  BY <1>1
<1>9. SubSeq(c, 1, L) = c
  BY <1>1
<1> QED
  BY <1>7, <1>8, <1>9 DEF a, b, w, g, After, First, Joined

\* N whole sectors of the file f, and a last one with end bytes of it.
Sheet(f, N, end) ==
    [s \in 1 .. N + 1 |-> <<<<f, s>>, IF s =< N THEN SectSize ELSE end>>]

LEMMA ContentOfPath ==
    ASSUME NEW F, NEW X, NEW first, NEW end, NEW f, NEW p \in Paths, NEW k \in Nat,
           NEW t \in 0 .. SectPerBlock - 1, FileAt(F, X, first, end, f, p, k, t)
    PROVE  \E N \in Nat :
               /\ N = k * SectPerBlock + t
               /\ Content(f) = Sheet(f, N, end)
<1>0. PICK N \in Nat : N = k * SectPerBlock + t
  BY Geometry, Product
<1>1. end \in 1 .. SectSize /\ Size[f] = N * SectSize + end
  BY <1>0 DEF FileAt
<1>2. SectPerBlock \in Nat \ {0} /\ SectSize \in Nat \ {0} /\ N \in Nat
  BY <1>0, Geometry
<1>3. PICK q \in Nat, d \in Nat \ {0}, e \in Nat : q = N /\ d = SectSize /\ e = end
  BY <1>1, <1>2
<1>4. PICK x \in Nat : x = q * d
  BY Product
<1>5. Size[f] - 1 = x + (e - 1) /\ e - 1 \in 0 .. d - 1 /\ e = Size[f] - x
  BY <1>1, <1>3, <1>4
<1>6. (q * d + (e - 1)) \div d = q
  <2>1. q \in Int /\ e - 1 \in 0 .. d - 1
    BY <1>5
  <2> QED
    BY <2>1, QuotientIs
<1>7. (Size[f] - 1) \div SectSize = N /\ Size[f] - N * SectSize = end
  BY <1>3, <1>4, <1>5, <1>6
<1>8. Content(f) = [s \in 1 .. N + 1 |->
                       <<<<f, s>>, IF s =< N THEN SectSize ELSE Size[f] - N * SectSize>>]
  BY <1>7 DEF Content
<1>9. Content(f) = [s \in 1 .. N + 1 |-> <<<<f, s>>, IF s =< N THEN SectSize ELSE end>>]
  BY <1>7, <1>8
<1> QED
  BY <1>0, <1>9 DEF Sheet

\* Block number j of the path p is at sector b, and m sectors of it are full: x come before.
Reaches(f, end, p, k, t, j, m, x, b) ==
    /\ p \in Paths /\ k \in Nat /\ t \in 0 .. SectPerBlock - 1 /\ j \in 0 .. k
    /\ m \in Nat /\ m = IF j < k THEN SectPerBlock ELSE t
    /\ x \in Nat /\ x = j * SectPerBlock /\ b = p[j] * SectPerBlock
    /\ FileAt(mfat, data, p[0], end, f, p, k, t)

\* What is written to the host for one block is what comes next in the file.
LEMMA SectorsHeld ==
    ASSUME NEW f, NEW end, NEW p, NEW k, NEW t, NEW j, NEW m, NEW x, NEW b,
           Reaches(f, end, p, k, t, j, m, x, b)
    PROVE  /\ WholeSectors(b, m) = After(Content(f), x, m)
           /\ j = k => <<SectorAt(b + t), end>> = Content(f)[x + t + 1]
<1> DEFINE d == SectPerBlock
           c == Content(f)
<1> p \in Paths /\ k \in Nat /\ t \in 0 .. SectPerBlock - 1 /\ j \in 0 .. k
    /\ m \in Nat /\ m = (IF j < k THEN SectPerBlock ELSE t)
    /\ x \in Nat /\ x = j * SectPerBlock /\ b = p[j] * SectPerBlock
    /\ FileAt(mfat, data, p[0], end, f, p, k, t)
  BY DEF Reaches
<1>0. d \in Nat \ {0} /\ p[j] \in Blocks /\ k * d \in Nat
  <2>1. p[j] \in Blocks
    <3>1. j = k \/ j \in 0 .. k - 1
      OBVIOUS
    <3> QED
      BY <3>1 DEF FileAt, FullBlocks, Links
  <2> QED
    BY <2>1, Geometry, Product
<1>a. PICK N \in Nat : N = k * SectPerBlock + t /\ Content(f) = Sheet(f, N, end)
  BY ContentOfPath
<1>1. /\ N \in Nat /\ N = k * d + t
      /\ c = [s \in 1 .. N + 1 |-> <<<<f, s>>, IF s =< N THEN SectSize ELSE end>>]
  BY <1>a DEF Sheet
<1>2. ASSUME NEW r \in Nat, r < m \/ (j = k /\ r = t)
      PROVE  SectorAt(p[j] * d + r) = <<f, x + r + 1>>
  <2>1. r \in 0 .. d - 1
    BY <1>0, <1>2
  <2>2. p[j] * d + r \in Sectors
    BY <1>0, <2>1, BlockSector
  <2>3. data[p[j] * d + r] = <<f, x + r + 1>>
    <3>1. CASE j < k
      <4>1. Laid(data, p, j, d, f)
        BY <3>1 DEF FileAt, FullBlocks
      <4> QED
        BY <2>1, <4>1 DEF Laid
    <3>2. CASE j = k
      <4>1. Laid(data, p, k, t + 1, f)
        BY DEF FileAt
      <4>2. r \in 0 .. (t + 1) - 1
        BY <1>2, <3>2
      <4> QED
        BY <3>2, <4>1, <4>2 DEF Laid
    <3> QED
      BY <3>1, <3>2
  <2> QED
    BY <2>2, <2>3 DEF SectorAt
<1>3. x + m =< N
  <2>1. CASE j < k
    <3>1. (j + 1) * d =< k * d
      BY <1>0, <2>1
    <3>2. (j + 1) * d = x + d
      BY <1>0
    <3>3. PICK y \in Nat, z \in Nat : y = k * d /\ z = d
      BY <1>0
    <3>4. m = z /\ N = y + t /\ x + z =< y
      BY <1>1, <2>1, <3>1, <3>2, <3>3
    <3> QED
      BY <3>4
  <2>2. CASE j = k
    BY <1>0, <1>1, <2>2
  <2> QED
    BY <2>1, <2>2
<1>4. j = k => N = x + t
  BY <1>1
<1> HIDE DEF c
<1>5. ASSUME NEW s \in 1 .. m
      PROVE  <<SectorAt(p[j] * d + s - 1), SectSize>> = c[x + s]
  <2>1. PICK r \in Nat : r = s - 1
    OBVIOUS
  <2>2. r < m /\ x + r + 1 = x + s
    BY <2>1
  <2>3. SectorAt(p[j] * d + r) = <<f, x + s>>
    BY <1>2, <2>2
  <2>4. x + s \in 1 .. N + 1 /\ x + s =< N
    BY <1>3
  <2>5. c[x + s] = <<<<f, x + s>>, SectSize>>
    BY <1>1, <2>4
  <2>6. p[j] * d + s - 1 = p[j] * d + r
    <3>1. PICK y \in Nat : y = p[j] * d
      BY <1>0, Product, Geometry DEF Blocks
    <3> QED
      BY <2>1, <3>1
  <2> QED
    BY <2>3, <2>5, <2>6
<1>6. WholeSectors(p[j] * d, m) = [s \in 1 .. m |-> c[x + s]]
  <2>1. WholeSectors(p[j] * d, m) = [s \in 1 .. m |-> <<SectorAt(p[j] * d + s - 1), SectSize>>]
    BY DEF WholeSectors
  <2> QED
    BY <1>5, <2>1, Zenon
<1>7. ASSUME j = k PROVE <<SectorAt(p[j] * d + t), end>> = c[x + t + 1]
  <2>1. SectorAt(p[j] * d + t) = <<f, x + t + 1>>
    BY <1>2, <1>7
  <2>2. x + t + 1 = N + 1 /\ x + t + 1 \in 1 .. N + 1 /\ ~(x + t + 1 =< N)
    BY <1>4, <1>7
  <2>3. c[x + t + 1] = <<<<f, x + t + 1>>, end>>
    BY <1>1, <2>2
  <2> QED
    BY <2>1, <2>3
<1> QED
  BY <1>6, <1>7 DEF c, After

\* A file reads as a sequence, one element longer than its whole sectors.
LEMMA ContentListed ==
    ASSUME NEW F, NEW X, NEW first, NEW end, NEW f, NEW p \in Paths, NEW k \in Nat,
           NEW t \in 0 .. SectPerBlock - 1, FileAt(F, X, first, end, f, p, k, t)
    PROVE  \E N \in Nat : /\ N = k * SectPerBlock + t
                          /\ Content(f) = Whole(Content(f), N + 1)
<1>1. PICK N \in Nat : /\ N = k * SectPerBlock + t
                       /\ Content(f) = Sheet(f, N, end)
  BY ContentOfPath
<1>2. PICK c : c = Content(f)
  OBVIOUS
<1>3. c = [s \in 1 .. N + 1 |-> c[s]]
  BY <1>1, <1>2 DEF Sheet
<1> QED
  BY <1>1, <1>2, <1>3 DEF Whole

\* A file begins: nothing of it is on the host yet.
LEMMA ExtractionStarts ==
    ASSUME Sound, NEW u, SeekExtract, AtSeekExtract(u)
    PROVE  Stage(u)'
<1>0. /\ pc = "seek" /\ pc' = "read" /\ cmd.pattern \in SUBSET Names /\ SearchFrom \in Nat
      /\ Matches # {} /\ size' = 0
      /\ UNCHANGED <<mfat, mdir, data, cmd, extracted, ret, errno>>
      /\ mdir \in [Entries -> Entry] /\ Distinct(mdir, mdir)
  BY SoundFacts, Geometry DEF SeekExtract, SearchFrom, Cmd, archive, buffer
<1>a. Looked = SearchFrom
  BY <1>0 DEF Looked
<1>1. PICK e : e = Min(Matches)
  OBVIOUS
<1>2. /\ e \in Entries /\ e >= SearchFrom /\ mdir[e].name \in cmd.pattern /\ Live(e)
      /\ \A d \in Entries : d >= SearchFrom /\ d < e => mdir[d].name \notin cmd.pattern
  BY <1>0, <1>1, MatchFound
<1>3. n' = e /\ Looked' = e + 1 /\ block' = mdir[e].first
  BY <1>0, <1>1 DEF SeekExtract, Found, Looked, SearchFrom
<1>4. PICK O : Reading(u, O) /\ extracted = Read(u, O) /\ ret = BytesOfAll(u, O)
  BY DEF AtSeekExtract
<1>5. PICK G : G = u.files
  OBVIOUS
<1>6. Kept(G) /\ Spare(G, mfat, 0) /\ O \in SUBSET (cmd.pattern \cap Stored(G)) /\ Behind(O)
      /\ errno = (IF Refused(O) THEN "EPERM" ELSE u.errno) /\ Kind
  BY <1>4, <1>5 DEF Reading
<1>7. PICK nm : nm = mdir[e].name
  OBVIOUS
<1>8. PICK f : f = G[nm]
  OBVIOUS
<1>9. /\ nm \in Names /\ f \in HostFiles
      /\ \E p \in Paths, k \in Nat, t \in 0 .. SectPerBlock - 1 :
            /\ FileAt(mfat, data, mdir[e].first, mdir[e].end, f, p, k, t)
            /\ Need(f) = k + 1 /\ k + 1 =< TO_FILESIZE_MAX
  BY <1>2, <1>6, <1>7, <1>8, TrailStarts
<1>10. PICK p \in Paths, k \in Nat, t \in 0 .. SectPerBlock - 1 :
            /\ FileAt(mfat, data, mdir[e].first, mdir[e].end, f, p, k, t)
            /\ k + 1 =< TO_FILESIZE_MAX
  BY <1>9
<1>11. e \in Nat
  BY <1>2, GeometryAssumption DEF Entries
<1>12. nm \notin O /\ nm \in Stored(G) /\ nm \in cmd.pattern
  <2>1. nm \notin O
    BY <1>0, <1>a, <1>2, <1>6, <1>7, <1>11 DEF Behind
  <2>2. nm \in Stored(G)
    BY <1>8, <1>9, FilesAssumption DEF Stored
  <2> QED
    BY <1>2, <1>7, <2>1, <2>2
<1>13. PICK Q : Q = O \cup {nm}
  OBVIOUS
<1>14. Behind(Q)'
  <2>1. ASSUME NEW d \in Entries, mdir[d].name \in Q PROVE d < e + 1
    <3>1. d \in Nat
      BY GeometryAssumption DEF Entries
    <3>2. CASE mdir[d].name \in O
      BY <1>0, <1>a, <1>2, <1>6, <1>11, <3>1, <3>2 DEF Behind
    <3>3. CASE mdir[d].name = nm
      <4>1. d = e
        BY <1>0, <1>2, <1>7, <3>3 DEF Distinct, Live
      <4> QED
        BY <1>11, <4>1
    <3> QED
      BY <1>13, <2>1, <3>2, <3>3
  <2> QED
    BY <1>0, <1>3, <2>1 DEF Behind
<1>15. Refused(Q)' <=> Refused(O)
  <2>1. ASSUME NEW d \in Entries, d < e + 1, mdir[d].name \in cmd.pattern \ Q
        PROVE  d < SearchFrom /\ mdir[d].name \in cmd.pattern \ O
    <3>1. d \in Nat
      BY GeometryAssumption DEF Entries
    <3>2. d # e
      BY <1>7, <1>13, <2>1
    <3> QED
      BY <1>0, <1>2, <1>11, <1>13, <2>1, <3>1, <3>2
  <2>2. ASSUME NEW d \in Entries, d < SearchFrom, mdir[d].name \in cmd.pattern \ O
        PROVE  d < e + 1 /\ mdir[d].name \in cmd.pattern \ Q
    <3>1. d \in Nat /\ d < e
      BY <1>0, <1>2, <1>11, <2>2, GeometryAssumption DEF Entries
    <3>2. mdir[d].name # nm
      BY <1>0, <1>2, <1>7, <1>11, <3>1 DEF Distinct, Live
    <3> QED
      BY <1>11, <1>13, <2>2, <3>1, <3>2
  <2> QED
    BY <1>0, <1>a, <1>3, <2>1, <2>2 DEF Refused
<1>16. Reading(u, Q)'
  <2>1. Kept(G)' /\ Spare(G, mfat, 0)' /\ Kind'
    BY <1>0, <1>6 DEF Kept, Spare, Kind
  <2>2. Q \in SUBSET (cmd'.pattern \cap Stored(G))
    BY <1>0, <1>6, <1>12, <1>13
  <2>3. errno' = IF Refused(Q)' THEN "EPERM" ELSE u.errno
    BY <1>0, <1>6, <1>15
  <2> QED
    BY <1>5, <1>14, <2>1, <2>2, <2>3 DEF Reading
<1>17. Half(f, p, k, t)'
  <2>1. FileAt(mfat', data', mdir'[n'].first, mdir'[n'].end, f, p, k, t)
    BY <1>0, <1>3, <1>10
  <2>2. p[0] = mdir[e].first
    BY <1>10 DEF FileAt
  <2> QED
    BY <1>0, <1>3, <1>10, <2>1, <2>2 DEF Half
<1>18. extracted' = [Read(u, Q) EXCEPT ![nm] = SubSeq(Content(f), 1, size' * SectPerBlock)]
  <2>1. size' * SectPerBlock = 0
    BY <1>0, Geometry
  <2>a. PICK first, end : first = mdir[e].first /\ end = mdir[e].end
    OBVIOUS
  <2>b. FileAt(mfat, data, first, end, f, p, k, t)
    BY <1>10, <2>a
  <2>2. PICK N \in Nat : Content(f) = Whole(Content(f), N + 1)
    BY <1>10, <2>b, ContentListed
  <2>3. PICK c : c = Content(f)
    OBVIOUS
  <2>4. c = Whole(c, N + 1)
    BY <2>2, <2>3
  <2>5. SubSeq(c, 1, 0) = <<>>
    BY <2>4, PrefixGrows DEF First
  <2>6. Read(u, O) = [Read(u, Q) EXCEPT ![nm] = <<>>]
    BY <1>9, <1>12, <1>13 DEF Read
  <2> QED
    BY <1>0, <1>4, <2>1, <2>3, <2>5, <2>6
<1>19. ret' = BytesOfAll(u, Q \ {nm})
  <2>1. Q \ {nm} = O
    BY <1>12, <1>13
  <2> QED
    BY <1>0, <1>4, <2>1
<1>20. AtRead(u)'
  <2>1. nm = mdir'[n'].name /\ nm \in Q /\ f = u.files[nm]
    BY <1>0, <1>3, <1>5, <1>7, <1>8, <1>13
  <2>2. \E q \in Paths, j \in Nat, s \in 0 .. SectPerBlock - 1 : Half(f, q, j, s)'
    BY <1>17
  <2>3. /\ Reading(u, Q)' /\ nm = mdir'[n'].name /\ nm \in Q /\ f = u.files[nm]
        /\ \E q \in Paths, j \in Nat, s \in 0 .. SectPerBlock - 1 : Half(f, q, j, s)'
        /\ extracted' = [Read(u, Q) EXCEPT ![nm] = SubSeq(Content(f), 1, size' * SectPerBlock)]
        /\ ret' = BytesOfAll(u, Q \ {nm})
    BY <1>16, <1>18, <1>19, <2>1, <2>2
  <2>4. nm \in Names /\ f \in HostFiles
    BY <1>9
  <2>5. \E O1 : \E nm1 \in Names, f1 \in HostFiles :
        /\ Reading(u, O1)' /\ nm1 = mdir'[n'].name /\ nm1 \in O1 /\ f1 = u.files[nm1]
        /\ \E q \in Paths, j \in Nat, s \in 0 .. SectPerBlock - 1 : Half(f1, q, j, s)'
        /\ extracted' = [Read(u, O1) EXCEPT ![nm1] = SubSeq(Content(f1), 1, size' * SectPerBlock)]
        /\ ret' = BytesOfAll(u, O1 \ {nm1})
    BY <2>3, <2>4
  <2> QED
    BY <2>5 DEF AtRead
<1> QED
  BY <1>0, <1>20 DEF Stage

\* The block at the cursor, put behind what is read.
LEMMA FileRead ==
    ASSUME NEW f, NEW end, NEW p, NEW k, NEW t, NEW j, NEW m, NEW x, NEW b,
           Reaches(f, end, p, k, t, j, m, x, b)
    PROVE  /\ Joined(First(Content(f), x), WholeSectors(b, m)) = First(Content(f), x + m)
           /\ j = k => Joined(First(Content(f), x + t), Ending(b, t, end)) = Content(f)
<1>0. p \in Paths /\ k \in Nat /\ t \in 0 .. SectPerBlock - 1 /\ j \in 0 .. k
      /\ m \in Nat /\ m = (IF j < k THEN SectPerBlock ELSE t)
      /\ x \in Nat /\ x = j * SectPerBlock
      /\ FileAt(mfat, data, p[0], end, f, p, k, t)
  BY DEF Reaches
<1>1. PICK N \in Nat : N = k * SectPerBlock + t /\ Content(f) = Whole(Content(f), N + 1)
  BY <1>0, ContentListed
<1>2. PICK c : c = Content(f)
  OBVIOUS
<1>3. PICK L \in Nat : L = N + 1 /\ c = Whole(c, L)
  BY <1>1, <1>2
<1>4. PICK d \in Nat \ {0} : d = SectPerBlock
  BY Geometry
<1>5. PICK y \in Nat : y = k * d
  BY <1>0, <1>4, Product
<1>6. x + m =< N /\ (j = k => x + t = N)
  <2>1. CASE j < k
    <3>1. (j + 1) * d =< k * d /\ (j + 1) * d = x + d
      BY <1>0, <1>4, <2>1
    <3>2. x + d =< y
      BY <1>0, <1>4, <1>5, <3>1
    <3>3. N = y + t /\ m = d
      BY <1>0, <1>1, <1>4, <1>5, <2>1
    <3> QED
      BY <1>0, <1>1, <2>1, <3>2, <3>3
  <2>2. CASE j = k
    BY <1>0, <1>1, <1>4, <1>5, <2>2
  <2> QED
    BY <1>0, <2>1, <2>2
<1>7. /\ WholeSectors(b, m) = After(Content(f), x, m)
      /\ j = k => <<SectorAt(b + t), end>> = Content(f)[x + t + 1]
  BY SectorsHeld
<1>8. Joined(First(c, x), After(c, x, m)) = First(c, x + m)
  <2>1. x + m =< L
    BY <1>0, <1>1, <1>3, <1>6
  <2>2. x \in Nat /\ m \in Nat
    BY <1>0
  <2>3. PICK w : w = After(c, x, m)
    OBVIOUS
  <2> QED
    BY ONLY <1>3, <2>1, <2>2, <2>3, PrefixGrows
<1>9. ASSUME j = k
      PROVE  Joined(First(c, x + t), << <<SectorAt(b + t), end>> >>) = c
  <2>1. <<SectorAt(b + t), end>> = c[x + t + 1]
    BY <1>2, <1>7, <1>9
  <2>2. L = x + t + 1 /\ L = N + 1
    BY <1>0, <1>1, <1>3, <1>6, <1>9
  <2>3. PICK z : z = c[L]
    OBVIOUS
  <2>4. <<z>> = After(c, N, 1)
    BY <1>3, <2>3 DEF After
  <2>5. Joined(First(c, N), After(c, N, 1)) = First(c, N + 1) /\ First(c, L) = c
    BY <1>1, <1>3, PrefixGrows
  <2> QED
    BY <1>6, <1>9, <2>1, <2>2, <2>3, <2>4, <2>5
<1> QED
  BY <1>2, <1>7, <1>8, <1>9 DEF Ending

LEMMA PrefixRead ==
    ASSUME NEW f, NEW end, NEW p, NEW k, NEW t, NEW j, NEW m, NEW x, NEW b,
           Reaches(f, end, p, k, t, j, m, x, b)
    PROVE  Joined(First(Content(f), x), WholeSectors(b, m)) = First(Content(f), x + m)
BY FileRead

LEMMA TailRead ==
    ASSUME NEW f, NEW end, NEW p, NEW k, NEW t, NEW j, NEW m, NEW x, NEW b,
           Reaches(f, end, p, k, t, j, m, x, b), j = k
    PROVE  Joined(First(Content(f), x + t), Ending(b, t, end)) = Content(f)
BY FileRead

\* Until the last block, the byte of the FAT is that of the next one.
LEMMA HalfGoesOn ==
    ASSUME Sound, NEW f, NEW p \in Paths, NEW k \in Nat, NEW t \in 0 .. SectPerBlock - 1,
           Half(f, p, k, t)
    PROVE  IF InChain(mfat[block]) THEN size < k /\ mfat[block] = p[size + 1]
           ELSE size = k /\ mfat[block] = TO_END_BLOCK_OFFSET + 1 + t
<1>0. /\ size \in Nat /\ size =< k /\ block = p[size] /\ k + 1 =< TO_FILESIZE_MAX
      /\ TO_FILESIZE_MAX \in Nat /\ NBlocks \in 4 .. 192
  BY SoundFacts, Geometry DEF Half
<1>1. CASE size = k
  <2>1. mfat[block] = TO_END_BLOCK_OFFSET + 1 + t
    BY <1>0, <1>1 DEF Half, FileAt
  <2>2. ~InChain(mfat[block])
    BY <1>0, <2>1, Geometry DEF InChain, TO_END_BLOCK_OFFSET
  <2> QED
    BY <1>1, <2>1, <2>2
<1>2. CASE size < k
  <2>1. size \in 0 .. k - 1 /\ size + 1 \in 0 .. k
    BY <1>0, <1>2
  <2>2. mfat[block] = p[size + 1]
    BY <1>0, <2>1 DEF Half, FileAt, FullBlocks, Links
  <2>3. p[size + 1] \in Blocks
    <3>1. size + 1 = k \/ size + 1 \in 0 .. k - 1
      BY <2>1
    <3> QED
      BY <3>1 DEF Half, FileAt, FullBlocks, Links
  <2>4. InChain(mfat[block])
    BY <1>0, <1>2, <2>2, <2>3 DEF InChain, Blocks
  <2> QED
    BY <1>2, <2>2, <2>4
<1> QED
  BY <1>0, <1>1, <1>2

\* One more block of the file is on the host.
LEMMA BlockRead ==
    ASSUME Sound, NEW u, ReadBlock, AtRead(u)
    PROVE  Stage(u)'
<1>0. /\ pc = "read" /\ pc' = "read" /\ InChain(mfat[block]) /\ block' = mfat[block] /\ size' = size + 1
      /\ UNCHANGED <<mfat, mdir, data, cmd, n, i, ret, errno>>
      /\ extracted' = [extracted EXCEPT ![mdir[n].name] =
                          @ \o WholeSectors(block * SectPerBlock, SectPerBlock)]
  BY DEF ReadBlock, archive, buffer
<1>1. PICK O : \E nm \in Names, f \in HostFiles :
        /\ Reading(u, O) /\ nm = mdir[n].name /\ nm \in O /\ f = u.files[nm]
        /\ \E p \in Paths, k \in Nat, t \in 0 .. SectPerBlock - 1 : Half(f, p, k, t)
        /\ extracted = [Read(u, O) EXCEPT ![nm] = SubSeq(Content(f), 1, size * SectPerBlock)]
        /\ ret = BytesOfAll(u, O \ {nm})
  BY DEF AtRead
<1>2. PICK nm \in Names, f \in HostFiles :
        /\ Reading(u, O) /\ nm = mdir[n].name /\ nm \in O /\ f = u.files[nm]
        /\ \E p \in Paths, k \in Nat, t \in 0 .. SectPerBlock - 1 : Half(f, p, k, t)
        /\ extracted = [Read(u, O) EXCEPT ![nm] = SubSeq(Content(f), 1, size * SectPerBlock)]
        /\ ret = BytesOfAll(u, O \ {nm})
  BY <1>1
<1>3. PICK p \in Paths, k \in Nat, t \in 0 .. SectPerBlock - 1 : Half(f, p, k, t)
  BY <1>2
<1>4. size < k /\ mfat[block] = p[size + 1]
  BY <1>0, <1>3, HalfGoesOn
<1>5. PICK j \in Nat : j = size
  BY SoundFacts
<1>6. PICK first, end : first = mdir[n].first /\ end = mdir[n].end
  OBVIOUS
<1>7. FileAt(mfat, data, first, end, f, p, k, t) /\ first = p[0] /\ k + 1 =< TO_FILESIZE_MAX
      /\ block = p[j]
  BY <1>3, <1>5, <1>6 DEF Half, FileAt
<1>8. \E q \in Paths, k1 \in Nat, t1 \in 0 .. SectPerBlock - 1 : Half(f, q, k1, t1)'
  <2>1. FileAt(mfat', data', mdir'[n'].first, mdir'[n'].end, f, p, k, t)
    BY <1>0, <1>6, <1>7
  <2>2. size' =< k /\ block' = p[size']
    BY <1>0, <1>3, <1>4, <1>5
  <2>3. Half(f, p, k, t)'
    BY <1>7, <2>1, <2>2 DEF Half
  <2> QED
    BY <1>3, <2>3
<1>9. PICK d \in Nat : d = SectPerBlock
  BY Geometry
<1>10. PICK x \in Nat : x = j * d
  BY Product
<1>11. PICK b : b = p[j] * d
  OBVIOUS
<1>12. Reaches(f, end, p, k, t, j, d, x, b)
  BY <1>3, <1>4, <1>5, <1>7, <1>9, <1>10, <1>11 DEF Reaches
<1>13. SubSeq(Content(f), 1, x) \o WholeSectors(b, d) = SubSeq(Content(f), 1, x + d)
  <2>1. Joined(First(Content(f), x), WholeSectors(b, d)) = First(Content(f), x + d)
    BY ONLY <1>12, PrefixRead
  <2> QED
    BY <2>1 DEF Joined, First
<1>14. size' * SectPerBlock = x + d /\ size * SectPerBlock = x
  BY <1>0, <1>5, <1>9, <1>10
<1>15. extracted' = [Read(u, O) EXCEPT ![nm] = SubSeq(Content(f), 1, size' * SectPerBlock)]
  <2>1. PICK R : R = Read(u, O)
    OBVIOUS
  <2>2. R = [x1 \in Names |-> R[x1]]
    BY <2>1 DEF Read
  <2>3. extracted = [R EXCEPT ![nm] = SubSeq(Content(f), 1, x)]
    BY <1>2, <1>14, <2>1
  <2>4. extracted' = [extracted EXCEPT ![nm] = extracted[nm] \o WholeSectors(b, d)]
    BY <1>0, <1>2, <1>7, <1>9, <1>11
  <2>5. extracted[nm] = SubSeq(Content(f), 1, x)
    BY <1>2, <2>2, <2>3
  <2>6. PICK y : y = SubSeq(Content(f), 1, x + d)
    OBVIOUS
  <2>7. extracted' = [extracted EXCEPT ![nm] = y]
    BY <1>13, <2>4, <2>5, <2>6
  <2>8. extracted' = [R EXCEPT ![nm] = y]
    BY <1>2, <2>2, <2>3, <2>7
  <2> QED
    BY <1>14, <2>1, <2>6, <2>8
<1>16. Reading(u, O)'
  <2>1. Looked' = Looked
    BY <1>0 DEF Looked, SearchFrom
  <2> QED
    BY <1>0, <1>2, <2>1, ReadingKept
<1>17. AtRead(u)'
  <2>1. /\ Reading(u, O)' /\ nm = mdir'[n'].name /\ nm \in O /\ f = u.files[nm]
        /\ ret' = BytesOfAll(u, O \ {nm})
    BY <1>0, <1>2, <1>16
  <2>2. \E O1 : \E nm1 \in Names, f1 \in HostFiles :
        /\ Reading(u, O1)' /\ nm1 = mdir'[n'].name /\ nm1 \in O1 /\ f1 = u.files[nm1]
        /\ \E q \in Paths, k1 \in Nat, t1 \in 0 .. SectPerBlock - 1 : Half(f1, q, k1, t1)'
        /\ extracted' = [Read(u, O1) EXCEPT ![nm1] = SubSeq(Content(f1), 1, size' * SectPerBlock)]
        /\ ret' = BytesOfAll(u, O1 \ {nm1})
    BY <1>2, <1>8, <1>15, <2>1
  <2> QED
    BY <2>2 DEF AtRead
<1> QED
  BY <1>0, <1>17 DEF Stage

\* The bytes of a file, block after block.
LEMMA BytesOfFile ==
    ASSUME NEW k \in Nat, NEW t \in Nat, NEW end \in Nat
    PROVE  (k * SectPerBlock + t) * SectSize + end = k * TO_BLOCKSIZE + t * SectSize + end
<1>1. PICK a \in Nat, b \in Nat : a = SectPerBlock /\ b = SectSize
  BY Geometry
<1>2. (k * a + t) * b + end = k * (a * b) + t * b + end
  OBVIOUS
<1> QED
  BY <1>1, <1>2 DEF TO_BLOCKSIZE

\* A file that is completely read counts with the others.
LEMMA BytesAdded ==
    ASSUME NEW u, SeenOK(u), NEW O \in SUBSET Stored(u.files), NEW nm \in O
    PROVE  /\ BytesOfAll(u, O \ {nm}) \in Nat
           /\ BytesOfAll(u, O) = BytesOfAll(u, O \ {nm}) + Size[u.files[nm]]
<1>1. PICK G \in Files : G = u.files
  BY DEF SeenOK
<1>2. PICK S : S = O \ {nm}
  OBVIOUS
<1>3. PICK c : c = BytesIn(G)
  OBVIOUS
<1>4. IsFiniteSet(S) /\ nm \notin S /\ O = S \cup {nm}
  <2>1. IsFiniteSet(O)
    BY FS_Subset DEF SeenOK
  <2>2. IsFiniteSet(S)
    BY <1>2, <2>1, FS_Subset
  <2> QED
    BY <1>2, <2>2
<1>5. \A x \in Stored(G) : c[x] = Size[G[x]] /\ c[x] \in Nat
  <2> SUFFICES ASSUME NEW x \in Stored(G) PROVE c[x] = Size[G[x]] /\ c[x] \in Nat
    OBVIOUS
  <2>1. G[x] \in HostFiles
    BY DEF Stored, Files
  <2> QED
    BY <1>3, <2>1, FilesAssumption DEF BytesIn
<1>6. c[nm] \in Nat /\ \A y \in S : c[y] \in Nat
  BY <1>1, <1>2, <1>5
<1>7. Cardinality(Pairs(c, S \cup {nm})) = Cardinality(Pairs(c, S)) + c[nm]
  BY <1>4, <1>6, OneMorePaired
<1>8. Cardinality(Pairs(c, S)) \in Nat
  BY <1>4, <1>6, PairsFinite
<1>9. c[nm] = Size[u.files[nm]]
  BY <1>1, <1>5
<1> QED
  BY <1>1, <1>2, <1>3, <1>4, <1>7, <1>8, <1>9 DEF BytesOfAll

\* With its last block the file is complete on the host.
LEMMA FileCompleted ==
    ASSUME Sound, NEW u, SeenOK(u), ReadTail, AtRead(u)
    PROVE  /\ UNCHANGED <<mfat, mdir, data, errno>>
           /\ \E O : /\ Reading(u, O) /\ O # {}
                     /\ extracted' = Read(u, O) /\ ret' = BytesOfAll(u, O)
<1>1. PICK O : \E nm \in Names, f \in HostFiles :
        /\ Reading(u, O) /\ nm = mdir[n].name /\ nm \in O /\ f = u.files[nm]
        /\ \E p \in Paths, k \in Nat, t \in 0 .. SectPerBlock - 1 : Half(f, p, k, t)
        /\ extracted = [Read(u, O) EXCEPT ![nm] = SubSeq(Content(f), 1, size * SectPerBlock)]
        /\ ret = BytesOfAll(u, O \ {nm})
  BY DEF AtRead
<1>2. PICK nm \in Names, f \in HostFiles :
        /\ Reading(u, O) /\ nm = mdir[n].name /\ nm \in O /\ f = u.files[nm]
        /\ \E p \in Paths, k \in Nat, t \in 0 .. SectPerBlock - 1 : Half(f, p, k, t)
        /\ extracted = [Read(u, O) EXCEPT ![nm] = SubSeq(Content(f), 1, size * SectPerBlock)]
        /\ ret = BytesOfAll(u, O \ {nm})
  BY <1>1
<1>3. PICK p \in Paths, k \in Nat, t \in 0 .. SectPerBlock - 1 : Half(f, p, k, t)
  BY <1>2
<1>4. PICK first, end : first = mdir[n].first /\ end = mdir[n].end
  OBVIOUS
<1>5. FileAt(mfat, data, first, end, f, p, k, t) /\ first = p[0]
  BY <1>3, <1>4 DEF Half, FileAt
<1>6. size = k /\ mfat[block] = TO_END_BLOCK_OFFSET + 1 + t /\ block = p[k]
  <2>1. ~InChain(mfat[block])
    BY DEF ReadTail
  <2>2. size = k /\ mfat[block] = TO_END_BLOCK_OFFSET + 1 + t
    BY <1>3, <2>1, HalfGoesOn
  <2> QED
    BY <1>3, <2>2 DEF Half
<1>7. PICK d \in Nat : d = SectPerBlock
  BY Geometry
<1>8. PICK x \in Nat : x = k * d
  BY <1>3, Product
<1>9. PICK b : b = p[k] * d
  OBVIOUS
<1>10. Reaches(f, end, p, k, t, k, t, x, b)
  <2>1. t \in Nat /\ k \in 0 .. k /\ ~(k < k)
    BY <1>3, Geometry
  <2> QED
    BY <1>3, <1>5, <1>7, <1>8, <1>9, <2>1 DEF Reaches
<1>11. mfat[block] - TO_END_BLOCK_OFFSET - 1 = t /\ (IF t > 0 THEN t ELSE 0) = t /\ t \in Nat
  BY <1>3, <1>6, Geometry DEF TO_END_BLOCK_OFFSET
<1>12. /\ UNCHANGED <<mfat, mdir, data, errno>>
       /\ extracted' = [extracted EXCEPT ![nm] =
                           @ \o WholeSectors(b, t) \o << <<SectorAt(b + t), end>> >>]
       /\ ret' = ret + k * TO_BLOCKSIZE + t * SectSize + end
  <2>1. UNCHANGED <<mfat, mdir, data, errno>>
    BY DEF ReadTail, archive, buffer
  <2>2. PICK full : full = mfat[block] - TO_END_BLOCK_OFFSET - 1
    OBVIOUS
  <2>3. full = t /\ (IF full > 0 THEN full ELSE 0) = t
    BY <1>11, <2>2
  <2>4. /\ extracted' = [extracted EXCEPT ![mdir[n].name] =
                            @ \o WholeSectors(block * SectPerBlock, full)
                              \o << <<SectorAt(block * SectPerBlock + (IF full > 0 THEN full ELSE 0)),
                                     mdir[n].end>> >>]
        /\ ret' = ret + size * TO_BLOCKSIZE + (IF full > 0 THEN full ELSE 0) * SectSize + mdir[n].end
    BY <2>2 DEF ReadTail
  <2>5. block * SectPerBlock = b
    BY <1>6, <1>7, <1>9
  <2>6. nm = mdir[n].name /\ end = mdir[n].end /\ size = k
    BY <1>2, <1>4, <1>6
  <2> QED
    <3>1. extracted' = [extracted EXCEPT ![nm] =
                          @ \o WholeSectors(b, t) \o << <<SectorAt(b + t), end>> >>]
      BY ONLY <2>3, <2>4, <2>5, <2>6
    <3>2. ret' = ret + k * TO_BLOCKSIZE + t * SectSize + end
      BY ONLY <2>3, <2>4, <2>6
    <3> QED
      BY <2>1, <3>1, <3>2
<1>13. (SubSeq(Content(f), 1, x) \o WholeSectors(b, t)) \o << <<SectorAt(b + t), end>> >> = Content(f)
  <2>1. Joined(First(Content(f), x), WholeSectors(b, t)) = First(Content(f), x + t)
    BY <1>10, PrefixRead
  <2>2. Joined(First(Content(f), x + t), Ending(b, t, end)) = Content(f)
    BY <1>10, TailRead
  <2>3. Joined(Joined(First(Content(f), x), WholeSectors(b, t)), Ending(b, t, end)) = Content(f)
    BY <2>1, <2>2
  <2> QED
    BY <2>3, Zenon DEF Joined, First, Ending
<1>14. extracted' = Read(u, O)
  <2>1. PICK R : R = Read(u, O)
    OBVIOUS
  <2>2. R = [x1 \in Names |-> R[x1]] /\ R[nm] = Content(f)
    BY <1>2, <2>1 DEF Read
  <2>3. size * SectPerBlock = x
    BY <1>6, <1>7, <1>8
  <2>4. PICK y : y = SubSeq(Content(f), 1, x)
    OBVIOUS
  <2>5. extracted = [R EXCEPT ![nm] = y]
    BY <1>2, <2>1, <2>3, <2>4
  <2>6. extracted[nm] = y
    BY <1>2, <2>2, <2>5
  <2>7. extracted' = [extracted EXCEPT ![nm] =
                        (y \o WholeSectors(b, t)) \o << <<SectorAt(b + t), end>> >>]
    BY <1>12, <2>6
  <2>8. PICK c : c = Content(f)
    OBVIOUS
  <2>9. extracted' = [extracted EXCEPT ![nm] = c]
    BY <1>13, <2>4, <2>7, <2>8
  <2>10. [R EXCEPT ![nm] = c] = R
    BY <2>2, <2>8
  <2> QED
    BY <1>2, <2>1, <2>2, <2>5, <2>9, <2>10
<1>15. ret' = BytesOfAll(u, O)
  <2>1. O \in SUBSET Stored(u.files)
    BY <1>2 DEF Reading
  <2>2. PICK r \in Nat : r = BytesOfAll(u, O \ {nm})
    BY <1>2, <2>1, BytesAdded
  <2>3. BytesOfAll(u, O) = r + Size[f]
    BY <1>2, <2>1, <2>2, BytesAdded
  <2>4. Size[f] = (k * SectPerBlock + t) * SectSize + end /\ end \in Nat
    BY <1>5, Geometry DEF FileAt
  <2>5. Size[f] = k * TO_BLOCKSIZE + t * SectSize + end
    BY <1>3, <1>11, <2>4, BytesOfFile
  <2>6. PICK y \in Nat, z \in Nat, w \in Nat : y = k * TO_BLOCKSIZE /\ z = t * SectSize /\ w = end
    BY <1>3, <1>11, <2>4, Geometry, Product
  <2>7. ret' = ret + y + z + w
    BY <1>12, <2>6
  <2>8. ret = r
    BY <1>2, <2>2
  <2>9. Size[f] = y + z + w
    BY <2>5, <2>6
  <2>10. ret' = r + Size[f]
    BY <2>2, <2>6, <2>7, <2>8, <2>9
  <2> QED
    BY <2>3, <2>10
<1> QED
  BY <1>2, <1>12, <1>14, <1>15

LEMMA LastBlockRead ==
    ASSUME Sound, NEW u, SeenOK(u), ReadTail, AtRead(u), u.call = cmd
    PROVE  Stage(u)'
<1>1. /\ UNCHANGED <<mfat, mdir, data, errno>>
      /\ \E O : /\ Reading(u, O) /\ O # {}
                /\ extracted' = Read(u, O) /\ ret' = BytesOfAll(u, O)
  BY FileCompleted
<1>2. PICK O : /\ Reading(u, O) /\ O # {}
               /\ extracted' = Read(u, O) /\ ret' = BytesOfAll(u, O)
  BY <1>1
<1>3. CASE cmd.wild
  <2>1. pc' = "seek" /\ UNCHANGED cmd /\ Looked' = Looked
    BY <1>3 DEF ReadTail, Looked, SearchFrom
  <2>2. Reading(u, O)'
    BY <1>1, <1>2, <2>1, ReadingKept
  <2>3. AtSeekExtract(u)'
    BY <1>2, <1>3, <2>1, <2>2 DEF AtSeekExtract
  <2>4. cmd'.op # "delete" /\ cmd'.op # "add"
    BY <2>1, SoundFacts DEF RequestOK, ReadTail
  <2> QED
    BY <2>1, <2>3, <2>4 DEF Stage
<1>4. CASE ~cmd.wild
  <2>1. Return
    BY <1>4 DEF ReadTail
  <2>2. PICK nm \in Names : cmd.pattern = {nm}
    BY <1>2, <1>4 DEF Reading, Kind, Pattern
  <2>3. O = {nm} /\ O = cmd.pattern \cap Stored(u.files)
    BY <1>2, <2>2 DEF Reading
  <2>4. ~Refused(O)
    BY <2>2, <2>3 DEF Refused
  <2>5. errno' = Missing(u, cmd.pattern, cmd.wild)
    BY <1>1, <1>2, <2>3, <2>4 DEF Reading, Missing
  <2>6. cmd.op = "extract"
    BY SoundFacts DEF RequestOK, ReadTail
  <2> QED
    BY <1>1, <1>2, <2>1, <2>3, <2>5, <2>6, ExtractReturns
<1> QED
  BY <1>3, <1>4

-----------------------------------------------------------------------------
(***************************************************************************)
(* The invariant holds at first, every step keeps it, and a step that      *)
(* takes seen again is a call of the dictionary.                           *)
(***************************************************************************)
LEMMA SoundInit == Init => Sound
BY TypeInit, LinkInit, SpaceInit, FillInit DEF Sound, IInv

LEMMA SoundNext == Sound /\ [Next]_vars => Sound'
<1> SUFFICES ASSUME Sound, [Next]_vars PROVE Sound'
  OBVIOUS
<1>1. IInv /\ SpaceInv /\ FillInv
  BY DEF Sound
<1>2. TypeInv'
  BY <1>1, TypeNext DEF IInv
<1>3. IInv'
  <2>1. CASE Next
    BY <1>1, <1>2, <2>1, LinksPreserved, BufferSynced DEF IInv
  <2>2. CASE UNCHANGED vars
    BY <1>1, <1>2, <2>2 DEF IInv, Synced, Saved, SingleReferrer, ReferredInUse, Live, Used,
                            AllocationSucceeds, vars, archive, buffer, locals
  <2> QED
    BY <2>1, <2>2
<1> QED
  BY <1>1, <1>3, SpaceNext, FillNext DEF Sound

\* A step inside a call.
LEMMA StageGoesOn ==
    ASSUME Sound, Sound', NEW u, SeenOK(u), Stage(u), Step, u.call = cmd
    PROVE  Stage(u)'
<1>0. RequestOK /\ SpaceInv' /\ FillInv' /\ u.files \in Files
  BY SoundFacts DEF Sound, SeenOK
<1>1. CASE SizeStep
  <2>1. AtSize(u)
    BY <1>1 DEF SizeStep, Stage
  <2> QED
    BY <1>1, <2>1, SizeGoesOn
<1>2. CASE AddTooBig
  <2>1. AtCheck(u)
    BY <1>2 DEF AddTooBig, Stage
  <2> QED
    BY <1>2, <2>1, TooBigRefused
<1>3. CASE CheckStep
  <2>1. AtCheck(u)
    BY <1>3 DEF CheckStep, Stage
  <2> QED
    BY <1>3, <2>1, CheckPassed
<1>4. CASE DeleteStep
  BY <1>4, DeletionGoesOn
<1>5. CASE DeleteDone
  BY <1>5, DeletionEnds
<1>6. CASE AllocFirst
  <2>1. AtAlloc(u)
    BY <1>6 DEF AllocFirst, Stage
  <2> QED
    BY <1>6, <2>1, FirstBlockChosen
<1>7. CASE FillBlock
  <2>1. AtFill(u)
    BY <1>7 DEF FillBlock, Stage
  <2> QED
    BY <1>0, <1>7, <2>1, BlockFilled
<1>8. CASE FillTail
  <2>1. AtFill(u)
    BY <1>8 DEF FillTail, Stage
  <2> QED
    BY <1>0, <1>8, <2>1, LastBlockFilled
<1>9. CASE SaveSector
  BY <1>9, TrackSaved
<1>10. CASE SeekDelete
  <2>1. AtSeekDelete(u)
    BY <1>10 DEF SeekDelete, Stage
  <2> QED
    BY <1>10, <2>1, DeletionStarts
<1>11. CASE SeekExtract
  <2>1. AtSeekExtract(u)
    BY <1>11 DEF SeekExtract, Stage
  <2> QED
    BY <1>11, <2>1, ExtractionStarts
<1>12. CASE ExtractNoPerm
  <2>1. AtSeekExtract(u)
    BY <1>12 DEF ExtractNoPerm, Stage
  <2> QED
    BY <1>12, <2>1, ExtractionRefused
<1>13. CASE SeekEnd
  <2>1. CASE cmd.op = "delete"
    <3>1. AtSeekDelete(u)
      BY <1>13, <2>1 DEF SeekEnd, Stage
    <3> QED
      BY <1>13, <2>1, <3>1, DeletionSearchEnds
  <2>2. CASE cmd.op = "extract"
    <3>1. AtSeekExtract(u)
      BY <1>13, <2>2 DEF SeekEnd, Stage
    <3> QED
      BY <1>13, <2>2, <3>1, ExtractionSearchEnds
  <2>3. cmd.op \in {"delete", "extract"}
    BY <1>0, <1>13 DEF SeekEnd, RequestOK
  <2> QED
    BY <2>1, <2>2, <2>3
<1>14. CASE ReadBlock
  <2>1. AtRead(u)
    BY <1>14 DEF ReadBlock, Stage
  <2> QED
    BY <1>14, <2>1, BlockRead
<1>15. CASE ReadTail
  <2>1. AtRead(u)
    BY <1>15 DEF ReadTail, Stage
  <2> QED
    BY <1>15, <2>1, LastBlockRead
<1> QED
  BY <1>1, <1>2, <1>3, <1>4, <1>5, <1>6, <1>7, <1>8, <1>9, <1>10, <1>11, <1>12, <1>13,
     <1>14, <1>15 DEF Step

\* A step that changes nothing.
LEMMA StageStays ==
    ASSUME NEW u, Stage(u), UNCHANGED vars
    PROVE  Stage(u)'
<1>0. UNCHANGED <<mfat, mdir, data, pc, cmd, n, i, block, size, left, extracted, ret, errno>>
  BY DEF vars, archive, buffer, locals
<1>1. AtIdle(u) => AtIdle(u)'
  BY <1>0 DEF AtIdle, Kept
<1>2. \A f : Trails(f) => Trails(f)'
  BY <1>0 DEF Trails, Trail
<1>3. AtSize(u) => AtSize(u)'
  BY <1>0, <1>2 DEF AtSize, Quiet, Kept, Old
<1>4. AtCheck(u) => AtCheck(u)'
  BY <1>0 DEF AtCheck, Quiet, Kept, Old
<1>5. \A k : Cleared(u, k) => Cleared(u, k)'
  BY <1>0 DEF Cleared, Quiet, Kept
<1>6. AtReplace(u) => AtReplace(u)'
  <2> SUFFICES ASSUME AtReplace(u) PROVE AtReplace(u)'
    OBVIOUS
  <2>1. PICK f \in HostFiles : Trails(f) /\ Cleared(u, Need(f) - size)
    BY DEF AtReplace
  <2>2. Trails(f)' /\ Cleared(u, Need(f) - size)'
    BY <1>0, <1>2, <1>5, <2>1
  <2> QED
    BY <2>2 DEF AtReplace
<1>7. AtAlloc(u) => AtAlloc(u)'
  BY <1>5 DEF AtAlloc
<1>8. AtFill(u) => AtFill(u)'
  BY <1>0, <1>5 DEF AtFill
<1>9. AtSaved(u) => AtSaved(u)'
  BY <1>0 DEF AtSaved, Quiet, Kept
<1>10. AtSeekDelete(u) => AtSeekDelete(u)'
  BY <1>0 DEF AtSeekDelete, Quiet, Kind, Passed, SearchFrom, Kept, Shrunk
<1>11. AtDelete(u) => AtDelete(u)'
  <2> SUFFICES ASSUME AtDelete(u) PROVE AtDelete(u)'
    OBVIOUS
  <2>1. PICK G, f : /\ f \in HostFiles /\ Trails(f)
                    /\ Kept(G) /\ Shrunk(u, G) /\ G # u.files /\ Spare(G, mfat, Need(f) - size)
    BY DEF AtDelete
  <2>2. /\ Trails(f)' /\ Kept(G)' /\ Shrunk(u, G)' /\ Spare(G, mfat, Need(f) - size)'
    BY <1>0, <1>2, <2>1 DEF Kept, Shrunk
  <2>3. \E H, g : /\ g \in HostFiles /\ Trails(g)'
                  /\ Kept(H)' /\ Shrunk(u, H)' /\ H # u.files /\ Spare(H, mfat, Need(g) - size)'
    BY <2>1, <2>2
  <2> QED
    BY <1>0, <2>3 DEF AtDelete, Quiet, Kind, Passed, SearchFrom
<1>12. AtDeleted(u) => AtDeleted(u)'
  BY <1>0 DEF AtDeleted, Kind, Kept
<1>13. \A O : Reading(u, O) => Reading(u, O)'
  BY <1>0, ReadingKept DEF Looked, SearchFrom
<1>14. AtSeekExtract(u) => AtSeekExtract(u)'
  BY <1>0, <1>13 DEF AtSeekExtract
<1>15. AtRead(u) => AtRead(u)'
  <2>1. \A f, p, k, t : Half(f, p, k, t) => Half(f, p, k, t)'
    BY <1>0 DEF Half
  <2>2. \A f : (\E p \in Paths, k \in Nat, t \in 0 .. SectPerBlock - 1 : Half(f, p, k, t))
               => \E p \in Paths, k \in Nat, t \in 0 .. SectPerBlock - 1 : Half(f, p, k, t)'
    BY <2>1
  <2> SUFFICES ASSUME AtRead(u) PROVE AtRead(u)'
    OBVIOUS
  <2>3. PICK O : \E nm \in Names, f \in HostFiles :
            /\ Reading(u, O) /\ nm = mdir[n].name /\ nm \in O /\ f = u.files[nm]
            /\ \E p \in Paths, k \in Nat, t \in 0 .. SectPerBlock - 1 : Half(f, p, k, t)
            /\ extracted = [Read(u, O) EXCEPT ![nm] = SubSeq(Content(f), 1, size * SectPerBlock)]
            /\ ret = BytesOfAll(u, O \ {nm})
    BY DEF AtRead
  <2>4. \E nm \in Names, f \in HostFiles :
            /\ Reading(u, O)' /\ nm = mdir'[n'].name /\ nm \in O /\ f = u.files[nm]
            /\ \E p \in Paths, k \in Nat, t \in 0 .. SectPerBlock - 1 : Half(f, p, k, t)'
            /\ extracted' = [Read(u, O) EXCEPT ![nm] = SubSeq(Content(f), 1, size' * SectPerBlock)]
            /\ ret' = BytesOfAll(u, O \ {nm})
    BY <1>0, <1>13, <2>2, <2>3
  <2> QED
    BY <2>4 DEF AtRead
<1> QED
  BY <1>0, <1>1, <1>3, <1>4, <1>6, <1>7, <1>8, <1>9, <1>10, <1>11, <1>12, <1>14, <1>15 DEF Stage

\* A formatted archive is the empty dictionary.
LEMMA EmptyArchive ==
    ASSUME Init
    PROVE  \E G : /\ G = [nm \in Names |-> NoFile] /\ Kept(G) /\ Keeps(G, fat, dir, data)
                  /\ Spare(G, mfat, 0) /\ Spare(G, fat, 0)
                  /\ FilesOnDisk = G /\ Listing = Dictionary!Listing(G)
                  /\ IsFiniteSet(Stored(G))
<1>1. PICK G : G = [nm \in Names |-> NoFile]
  OBVIOUS
<1>2. /\ fat = FormattedFat /\ dir = FormattedDir /\ mfat = fat /\ mdir = dir
  BY DEF Init
<1>3. Keeps(G, fat, dir, data)
  <2>1. G \in Files
    BY <1>1 DEF Files
  <2>2. ASSUME NEW e \in Entries, NEW nm \in Names PROVE dir[e].name # nm
    BY <1>2, FilesAssumption DEF FormattedDir
  <2>3. ASSUME NEW nm \in Names PROVE Stands(nm, G[nm], fat, dir, data)
    BY <1>1, <2>2 DEF Stands
  <2> QED
    BY <2>1, <2>3 DEF Keeps
<1>4. Stored(G) = {} /\ Taken(G) = 0 /\ IsFiniteSet(Stored(G))
  <2>1. Stored(G) = {}
    BY <1>1 DEF Stored
  <2>2. Pairs(BlocksIn(G), {}) = {}
    BY DEF Pairs
  <2> QED
    BY <2>1, <2>2, FS_EmptySet DEF Taken
<1>5. Spare(G, fat, 0)
  <2>1. get_dskf(fat) = Capacity /\ Capacity \in Nat
    BY <1>2, CapacityBounds
  <2> QED
    BY <1>4, <2>1 DEF Spare
<1>6. TypeOK /\ Distinct(dir, dir) /\ UniqueNames
  <2>1. Sound
    BY SoundInit
  <2> QED
    BY <2>1, SoundFacts DEF Distinct, UniqueNames
<1>7. FilesOnDisk = G /\ Listing = Dictionary!Listing(G)
  BY <1>3, <1>5, <1>6, FilesRead, ListingTold
<1> QED
  BY <1>1, <1>2, <1>3, <1>4, <1>5, <1>7 DEF Kept

LEMMA StartsEmpty == RInit => RInv /\ Dictionary!Init
<1> SUFFICES ASSUME RInit PROVE RInv /\ Dictionary!Init
  OBVIOUS
<1>1. Init /\ seen = Snapshot(NoCmd)
  BY DEF RInit
<1>2. PICK G : /\ G = [nm \in Names |-> NoFile] /\ Kept(G)
               /\ Spare(G, mfat, 0) /\ FilesOnDisk = G /\ Listing = Dictionary!Listing(G)
               /\ IsFiniteSet(Stored(G))
  BY <1>1, EmptyArchive
<1>3. PICK u : u = seen
  OBVIOUS
<1>4. /\ u.files = G /\ u.shown = Dictionary!Listing(G)
      /\ u.got = extracted /\ u.ret = ret /\ u.errno = errno /\ u.call = NoCmd
  BY <1>1, <1>2, <1>3 DEF Snapshot
<1>5. SeenOK(u)
  <2>1. G \in Files
    BY <1>2 DEF Files
  <2> QED
    BY <1>2, <1>4, <2>1 DEF SeenOK
<1>6. pc = "idle" /\ extracted = NothingExtracted /\ ret = 0 /\ errno = "none"
  BY <1>1 DEF Init
<1>7. Stage(u)
  <2>1. Answered(u, G, extracted, ret, errno)
    BY <1>4 DEF Answered, NoCmd
  <2>2. AtIdle(u)
    BY <1>2, <1>6, <2>1 DEF AtIdle
  <2> QED
    BY <1>6, <2>2 DEF Stage
<1>8. RInv
  BY <1>1, <1>3, <1>5, <1>6, <1>7, SoundInit DEF RInv, Agreed
<1>9. Dictionary!Init
  <2>1. seen.files = [nm \in Names |-> NoFile] /\ seen.shown = Dictionary!Listing(seen.files)
    BY <1>2, <1>3, <1>4
  <2>2. seen.got = NothingExtracted /\ seen.ret = 0 /\ seen.errno = "none"
    BY <1>3, <1>4, <1>6
  <2>3. seen.call = Dictionary!Request("none", NoFile, {}, FALSE)
    BY <1>3, <1>4 DEF NoCmd, Dictionary!Request
  <2> QED
    BY <2>1, <2>2, <2>3 DEF Dictionary!Init, Dictionary!Nothing, NothingExtracted
<1> QED
  BY <1>8, <1>9

\* A step from "idle": what the last call did is seen, and the next one starts.
LEMMA CallSeen ==
    ASSUME RInv, Sound', RNext, pc = "idle"
    PROVE  RInv' /\ Dictionary!Next
<1>1. PICK u : u = seen /\ SeenOK(u) /\ Stage(u)
  BY DEF RInv
<1>2. ~Step
  BY DEF Step, SizeStep, AddTooBig, CheckStep, DeleteStep, DeleteDone, AllocFirst,
         FillBlock, FillTail, SaveSector, SeekDelete, SeekExtract, ExtractNoPerm,
         SeekEnd, ReadBlock, ReadTail
<1>3. PICK c : Starts(c) /\ seen' = Snapshot(c)
  BY <1>2 DEF RNext, Starts
<1>4. Sound /\ AtIdle(u)
  BY <1>1 DEF RInv, Stage
<1>5. PICK v : /\ v = seen' /\ SeenOK(v) /\ Fresh(v)
               /\ v.shown = Dictionary!Listing(v.files) /\ v.call = c
               /\ Answered(u, v.files, extracted, ret, errno)
  BY <1>3, <1>4, SnapshotTaken
<1>6. Stage(v)' /\ Agreed(v)'
  BY <1>3, <1>4, <1>5, CallStarts
<1>7. RInv'
  <2>1. SeenOK(v)'
    BY <1>5 DEF SeenOK
  <2>2. \E w : w = seen' /\ SeenOK(w)' /\ Stage(w)' /\ Agreed(w)'
    BY <1>5, <1>6, <2>1
  <2> QED
    BY <2>2 DEF RInv
<1>8. Dictionary!Next
  <2>1. PICK G, got, r, er : G = v.files /\ got = extracted /\ r = ret /\ er = errno
    OBVIOUS
  <2>2. SeenOK(seen) /\ Answered(seen, G, got, r, er)
    BY <1>1, <1>5, <2>1
  <2>3. /\ seen'.files = G /\ seen'.shown = Dictionary!Listing(G)
        /\ seen'.got = got /\ seen'.ret = r /\ seen'.errno = er
    BY <1>5, <2>1 DEF Fresh
  <2>4. Asked(seen'.call)
    BY <1>3, <1>5, RequestMade
  <2> QED
    BY <2>2, <2>3, <2>4, AnswerIsCall
<1> QED
  BY <1>7, <1>8

LEMMA CallFromIdle ==
    ASSUME Call
    PROVE  pc = "idle"
<1>1. ASSUME NEW f \in HostFiles, AddEmptyFile(f) \/ AddDirFull(f) \/ AddFile(f)
      PROVE  pc = "idle"
  BY <1>1 DEF AddEmptyFile, AddDirFull, AddFile
<1>2. ASSUME NEW op, NEW S, NEW wild, ForEachFile(op, S, wild) PROVE pc = "idle"
  BY <1>2 DEF ForEachFile
<1>3. CASE DeleteFile \/ ExtractFile
  BY <1>2, <1>3 DEF DeleteFile, ExtractFile
<1> QED
  BY <1>1, <1>3 DEF Call, AddNoFile

\* A call keeps its request until it returns.
LEMMA RequestKept ==
    ASSUME Step
    PROVE  cmd' = cmd \/ pc' = "idle"
<1>1. CASE SizeStep \/ CheckStep \/ DeleteStep \/ DeleteDone
  BY <1>1 DEF SizeStep, CheckStep, DeleteStep, DeleteDone
<1>2. CASE AllocFirst \/ FillBlock \/ FillTail \/ SeekDelete \/ SeekExtract \/ ReadBlock
  BY <1>2 DEF AllocFirst, FillBlock, FillTail, SeekDelete, SeekExtract, ReadBlock
<1>3. CASE AddTooBig \/ SaveSector \/ ExtractNoPerm \/ SeekEnd \/ ReadTail
  BY <1>3 DEF AddTooBig, Refuse, SaveSector, ExtractNoPerm, SeekEnd, ReadTail, Return
<1> QED
  BY <1>1, <1>2, <1>3 DEF Step

LEMMA NextSeen == RInv /\ [RNext]_<<vars, seen>> => RInv' /\ [Dictionary!Next]_(Dictionary!vars)
<1> SUFFICES ASSUME RInv, [RNext]_<<vars, seen>>
             PROVE  RInv' /\ [Dictionary!Next]_(Dictionary!vars)
  OBVIOUS
<1>1. Sound'
  <2>1. [Next]_vars
    BY DEF RNext, Next, Call
  <2> QED
    BY <2>1, SoundNext DEF RInv
<1>2. CASE RNext /\ pc = "idle"
  BY <1>1, <1>2, CallSeen
<1>3. CASE (RNext /\ pc # "idle") \/ UNCHANGED <<vars, seen>>
  <2>a. RNext /\ pc # "idle" => Step /\ UNCHANGED seen
    <3>1. RNext => Call \/ (Step /\ UNCHANGED seen)
      BY DEF RNext, Call
    <3> QED
      BY <3>1, CallFromIdle
  <2>1. seen' = seen
    BY <1>3, <2>a
  <2>2. PICK u : u = seen /\ SeenOK(u) /\ Stage(u) /\ Agreed(u)
    BY DEF RInv
  <2>3. Stage(u)' /\ Agreed(u)'
    <3>1. CASE Step /\ pc # "idle"
      <4>1. u.call = cmd
        BY <2>2, <3>1 DEF Agreed
      <4>2. Stage(u)'
        BY <1>1, <2>2, <3>1, <4>1, StageGoesOn DEF RInv
      <4>3. Agreed(u)'
        BY <3>1, <4>1, RequestKept DEF Agreed
      <4> QED
        BY <4>2, <4>3
    <3>2. CASE UNCHANGED <<vars, seen>>
      <4>1. Stage(u)'
        BY <2>2, <3>2, StageStays
      <4>2. Agreed(u)'
        BY <2>2, <3>2 DEF Agreed, vars
      <4> QED
        BY <4>1, <4>2
    <3> QED
      BY <1>3, <2>a, <3>1, <3>2
  <2>4. SeenOK(u)'
    BY <2>2 DEF SeenOK
  <2>5. RInv'
    BY <1>1, <2>1, <2>2, <2>3, <2>4 DEF RInv
  <2>6. UNCHANGED Dictionary!vars
    BY <2>1 DEF Dictionary!vars
  <2> QED
    BY <2>5, <2>6
<1> QED
  BY <1>2, <1>3

\* libsap implements the dictionary that libsap.h promises: for every geometry and every
\* set of files, names and patterns, each completed sap_AddFile, sap_DeleteFile and
\* sap_ExtractFile has the effect and the result of that call on a map from names to
\* files, and sap_ListArchive and sap_GetFileInfo then tell what the map holds.
THEOREM DictionaryImplemented == RSpec => ImplementsDictionary
<1>1. RInit => RInv /\ Dictionary!Init
  BY StartsEmpty
<1>2. RInv /\ [RNext]_<<vars, seen>> => RInv' /\ [Dictionary!Next]_(Dictionary!vars)
  BY NextSeen
<1> QED
  BY <1>1, <1>2, PTL DEF RSpec, ImplementsDictionary, Dictionary!Spec
=============================================================================
