---------------------------- MODULE LibraryProofs ----------------------------
(***************************************************************************)
(* The parts of libsap that need no disk: the track that BuildSectorMap    *)
(* makes, for every number of sectors and every factor; the patterns of    *)
(* wcdcmp, for every set of patterns and of names; the names of a          *)
(* directory, for every alphabet, every set of paths, every size of the    *)
(* fields and of the directory; the bytes of a sector and their CRC, for   *)
(* every size of a sector, every byte and every burst of two bytes.        *)
(***************************************************************************)
EXTENDS SectorMap, SapSector, SapNames, Wildcard, TLAPS, WellFoundedInduction, SequenceTheorems

(***************************************************************************)
(* Part 1.  SectorMap.                                                     *)
(***************************************************************************)
\* The conjunct that makes the two halves of EachOnce inductive: no number laid
\* is as great as the next one.
Below == \A i \in MapPlaces : sector_map[i] < sect

MapInv == MapTypeOK /\ Below /\ EachOnce

\* A place stays a place when a number is added modulo the number of places.
LEMMA NextPlaceIsPlace ==
    ASSUME NEW i \in MapPlaces, NEW by \in Nat
    PROVE  NextPlace(i, by) \in MapPlaces
  <1>1. i + by \in Nat
    BY DEF MapPlaces
  <1>2. (i + by) % SAP_NSECTS \in 0 .. SAP_NSECTS - 1
    BY <1>1, SectorMapAssumption, Z3
  <1> QED
    BY <1>2 DEF NextPlace, MapPlaces

LEMMA MapInitInv == MapInit => MapInv
  BY SectorMapAssumption DEF MapInit, MapInv, MapTypeOK, Below, EachOnce, MapPlaces

LEMMA MapNextInv == MapInv /\ [MapNext]_mapvars => MapInv'
  <1> SUFFICES ASSUME MapInv, [MapNext]_mapvars
               PROVE  MapInv'
    OBVIOUS
  <1> USE SectorMapAssumption DEF MapInv
  <1>1. CASE Probe
    <2>1. loc' \in MapPlaces
      BY <1>1, NextPlaceIsPlace DEF Probe, MapTypeOK
    <2> QED
      BY <1>1, <2>1 DEF Probe, MapTypeOK, Below, EachOnce
  <1>2. CASE Lay
    <2>1. loc \in MapPlaces /\ sect \in 1 .. SAP_NSECTS /\ sector_map[loc] = 0
      BY <1>2 DEF Lay, Free, MapTypeOK
    <2>2. sector_map' = [sector_map EXCEPT ![loc] = sect] /\ sect' = sect + 1
      BY <1>2 DEF Lay
    <2>3. \A i \in MapPlaces : sector_map'[i] = IF i = loc THEN sect ELSE sector_map[i]
      BY <2>1, <2>2 DEF MapTypeOK
    <2>4. MapTypeOK'
      <3>1. loc' \in MapPlaces
        BY <1>2, <2>1, NextPlaceIsPlace DEF Lay, MapTypeOK
      <3> QED
        BY <1>2, <2>1, <2>2, <3>1 DEF Lay, MapTypeOK
    <2>5. Below'
      BY <2>1, <2>2, <2>3 DEF Below, MapTypeOK, MapPlaces
    <2>6. \A s \in 1 .. sect' - 1 : \E i \in MapPlaces : sector_map'[i] = s
      <3> SUFFICES ASSUME NEW s \in 1 .. sect
                   PROVE  \E i \in MapPlaces : sector_map'[i] = s
        BY <2>1, <2>2
      <3>1. CASE s = sect
        BY <3>1, <2>1, <2>3
      <3>2. CASE s # sect
        <4>1. PICK i \in MapPlaces : sector_map[i] = s
          BY <3>2, <2>1 DEF EachOnce
        <4>2. i # loc
          BY <4>1, <2>1
        <4> QED
          BY <4>1, <4>2, <2>3
      <3> QED
        BY <3>1, <3>2
    <2>7. ASSUME NEW i \in MapPlaces, NEW j \in MapPlaces, i # j, sector_map'[i] = sector_map'[j]
          PROVE  sector_map'[i] = 0
      <3>1. i # loc /\ j # loc
        BY <2>1, <2>3, <2>7 DEF Below, MapTypeOK
      <3> QED
        BY <2>3, <2>7, <3>1 DEF EachOnce
    <2> QED
      BY <2>4, <2>5, <2>6, <2>7 DEF EachOnce
  <1>3. CASE UNCHANGED mapvars
    BY <1>3 DEF mapvars, MapTypeOK, Below, EachOnce
  <1> QED
    BY <1>1, <1>2, <1>3 DEF MapNext

\* However many sectors a track has and whatever the factor, no sector is laid
\* twice and none that was laid is lost.
THEOREM SectorsLaidOnce == MapSpec => []EachOnce
  <1>1. MapInv => EachOnce
    BY DEF MapInv
  <1> QED
    BY MapInitInv, MapNextInv, <1>1, PTL DEF MapSpec

-----------------------------------------------------------------------------
(***************************************************************************)
(* Part 2.  Wildcard.                                                      *)
(***************************************************************************)
\* Induction: a set of natural numbers with 0 and each one's successor has all.
LEMMA EveryNat ==
    ASSUME NEW S \in SUBSET Nat, 0 \in S, \A k \in S : k + 1 \in S
    PROVE  \A k \in Nat : k \in S
<1> SUFFICES ASSUME Nat \ S # {} PROVE FALSE
  OBVIOUS
<1>1. PICK x \in Nat \ S : \A y \in Nat \ S : ~ (<<y, x>> \in OpToRel(<, Nat))
  BY NatLessThanWellFounded, WFMin
<1>2. x # 0 /\ x \in Nat
  OBVIOUS
<1>3. x - 1 \in Nat /\ x - 1 < x /\ (x - 1) + 1 = x
  BY <1>2
<1>4. x - 1 \in S
  BY <1>1, <1>2, <1>3 DEF OpToRel
<1> QED
  BY <1>3, <1>4

-----------------------------------------------------------------------------
(***************************************************************************)
(* The reference definition of a match.                                    *)
(***************************************************************************)

\* One line of the definition of a match, of the rest of p after its first j
\* characters with the rest of s after its first i.
Line(m, s, p, at) ==
    LET i == at[1]
        j == at[2]
    IN IF j = Len(p) THEN i = Len(s)
       ELSE IF p[j + 1] = Star
         THEN m[<<i, j + 1>>] \/ (i < Len(s) /\ m[<<i + 1, j>>])
       ELSE i < Len(s) /\ p[j + 1] \in {Quest, s[i + 1]} /\ m[<<i + 1, j + 1>>]

TablePlaces(s, p) == (0 .. Len(s)) \X (0 .. Len(p))

IsTable(m, s, p) == m = [at \in TablePlaces(s, p) |-> Line(m, s, p, at)]

Table(s, p) == CHOOSE m : IsTable(m, s, p)

LEMMA MatchesIsTable ==
    ASSUME NEW s, NEW p
    PROVE  Matches(s, p) = Table(s, p)[<<0, 0>>]
BY DEF Matches, Table, IsTable, Line, TablePlaces

\* There is a table: a match gives each character of the pattern the place where
\* it begins in the string.
Follows(s, p, x, y, k) ==
    IF p[k + 1] = Star THEN x =< y
    ELSE x < Len(s) /\ y = x + 1 /\ p[k + 1] \in {Quest, s[x + 1]}

Aligned(s, p, i, j) ==
    \E a \in [Nat -> 0 .. Len(s)] :
        /\ a[j] = i /\ a[Len(p)] = Len(s)
        /\ \A k \in j .. Len(p) - 1 : Follows(s, p, a[k], a[k + 1], k)

LEMMA AlignedEnd ==
    ASSUME NEW s \in CString, NEW p \in CString, NEW i \in 0 .. Len(s)
    PROVE  Aligned(s, p, i, Len(p)) <=> i = Len(s)
<1>1. Len(s) \in Nat /\ Len(p) \in Nat
  BY DEF CString
<1>2. ASSUME i = Len(s) PROVE Aligned(s, p, i, Len(p))
  <2> DEFINE a == [k \in Nat |-> Len(s)]
  <2>1. a \in [Nat -> 0 .. Len(s)] /\ a[Len(p)] = Len(s)
    BY <1>1
  <2>2. Len(p) .. Len(p) - 1 = {}
    BY <1>1
  <2> HIDE DEF a
  <2> QED
    BY <1>2, <2>1, <2>2 DEF Aligned
<1> QED
  BY <1>2 DEF Aligned

LEMMA AlignedLine ==
    ASSUME NEW s \in CString, NEW p \in CString,
           NEW i \in 0 .. Len(s), NEW j \in 0 .. Len(p), j # Len(p)
    PROVE  Aligned(s, p, i, j) <=>
              IF p[j + 1] = Star
                THEN Aligned(s, p, i, j + 1) \/ (i < Len(s) /\ Aligned(s, p, i + 1, j))
                ELSE /\ i < Len(s) /\ p[j + 1] \in {Quest, s[i + 1]}
                     /\ Aligned(s, p, i + 1, j + 1)
<1>1. Len(s) \in Nat /\ Len(p) \in Nat /\ i \in Nat /\ j \in Nat /\ j < Len(p) /\ i =< Len(s)
  BY DEF CString
<1>2. ASSUME NEW a \in [Nat -> 0 .. Len(s)], NEW b \in {j, j + 1},
             a[Len(p)] = Len(s),
             \A k \in b .. Len(p) - 1 : Follows(s, p, a[k], a[k + 1], k),
             NEW x \in 0 .. Len(s), Follows(s, p, x, a[j + 1], j)
      PROVE  Aligned(s, p, x, j)
  <2> DEFINE c == [a EXCEPT ![j] = x]
  <2>1. c \in [Nat -> 0 .. Len(s)] /\ c[j] = x
    BY <1>1
  <2>2. \A k \in Nat : k # j => c[k] = a[k]
    BY <1>1
  <2> HIDE DEF c
  <2>3. c[Len(p)] = Len(s)
    BY <1>1, <1>2, <2>2
  <2>4. ASSUME NEW k \in j .. Len(p) - 1 PROVE Follows(s, p, c[k], c[k + 1], k)
    <3>1. k \in Nat /\ k + 1 \in Nat /\ k + 1 # j
      BY <1>1
    <3>2. c[k + 1] = a[k + 1]
      BY <2>2, <3>1
    <3>3. CASE k = j
      BY <1>2, <2>1, <3>2, <3>3
    <3>4. CASE k # j
      <4>1. c[k] = a[k]
        BY <2>2, <3>1, <3>4
      <4>2. b \in Int /\ b =< k
        BY <1>1, <3>4
      <4>3. k \in b .. Len(p) - 1
        BY <1>1, <3>1, <4>2
      <4> QED
        BY <1>2, <3>2, <4>1, <4>3
    <3> QED
      BY <3>3, <3>4
  <2> QED
    BY <2>1, <2>3, <2>4 DEF Aligned
<1>3. ASSUME NEW x \in 0 .. Len(s), Aligned(s, p, x, j)
      PROVE  \E a \in [Nat -> 0 .. Len(s)] :
                /\ a[Len(p)] = Len(s) /\ Follows(s, p, x, a[j + 1], j)
                /\ \A k \in j + 1 .. Len(p) - 1 : Follows(s, p, a[k], a[k + 1], k)
  <2>1. PICK a \in [Nat -> 0 .. Len(s)] :
           /\ a[j] = x /\ a[Len(p)] = Len(s)
           /\ \A k \in j .. Len(p) - 1 : Follows(s, p, a[k], a[k + 1], k)
    BY <1>3 DEF Aligned
  <2>2. j \in j .. Len(p) - 1
    BY <1>1
  <2>3. \A k \in j + 1 .. Len(p) - 1 : k \in j .. Len(p) - 1
    BY <1>1
  <2> QED
    BY <2>1, <2>2, <2>3
<1>4. ASSUME NEW a \in [Nat -> 0 .. Len(s)], a[Len(p)] = Len(s),
             \A k \in j + 1 .. Len(p) - 1 : Follows(s, p, a[k], a[k + 1], k)
      PROVE  Aligned(s, p, a[j + 1], j + 1)
  BY <1>4 DEF Aligned
<1>5. ASSUME NEW x \in 0 .. Len(s), Aligned(s, p, x, j + 1)
      PROVE  \E a \in [Nat -> 0 .. Len(s)] :
                /\ a[j + 1] = x /\ a[Len(p)] = Len(s)
                /\ \A k \in j + 1 .. Len(p) - 1 : Follows(s, p, a[k], a[k + 1], k)
  BY <1>5 DEF Aligned
<1>6. CASE p[j + 1] = Star
  <2>1. ASSUME Aligned(s, p, i, j)
        PROVE  Aligned(s, p, i, j + 1) \/ (i < Len(s) /\ Aligned(s, p, i + 1, j))
    <3>1. PICK a \in [Nat -> 0 .. Len(s)] :
             /\ a[Len(p)] = Len(s) /\ Follows(s, p, i, a[j + 1], j)
             /\ \A k \in j + 1 .. Len(p) - 1 : Follows(s, p, a[k], a[k + 1], k)
      BY <1>3, <2>1
    <3>2. i =< a[j + 1] /\ a[j + 1] \in 0 .. Len(s)
      BY <1>1, <1>6, <3>1 DEF Follows
    <3>3. CASE a[j + 1] = i
      BY <1>4, <3>1, <3>3
    <3>4. CASE a[j + 1] # i
      <4>1. i + 1 \in 0 .. Len(s) /\ i < Len(s) /\ i + 1 =< a[j + 1]
        <5>1. PICK y \in 0 .. Len(s) : y = a[j + 1]
          BY <3>2
        <5>2. i =< y /\ i # y
          BY <3>2, <3>4, <5>1
        <5>3. i \in Nat /\ Len(s) \in Nat
          BY <1>1
        <5>4. i + 1 =< y /\ i + 1 \in Nat
          BY <5>2, <5>3
        <5>5. i + 1 =< Len(s)
          BY <5>3, <5>4
        <5> QED
          BY <5>1, <5>3, <5>4, <5>5
      <4>2. Follows(s, p, i + 1, a[j + 1], j)
        BY <1>6, <4>1 DEF Follows
      <4> QED
        BY <1>2, <3>1, <4>1, <4>2
    <3> QED
      BY <3>3, <3>4
  <2>2. ASSUME Aligned(s, p, i, j + 1) PROVE Aligned(s, p, i, j)
    <3>1. PICK a \in [Nat -> 0 .. Len(s)] :
             /\ a[j + 1] = i /\ a[Len(p)] = Len(s)
             /\ \A k \in j + 1 .. Len(p) - 1 : Follows(s, p, a[k], a[k + 1], k)
      BY <1>5, <2>2
    <3>2. Follows(s, p, i, a[j + 1], j)
      BY <1>1, <1>6, <3>1 DEF Follows
    <3> QED
      BY <1>2, <3>1, <3>2
  <2>3. ASSUME i < Len(s), Aligned(s, p, i + 1, j) PROVE Aligned(s, p, i, j)
    <3>1. i + 1 \in 0 .. Len(s)
      BY <1>1, <2>3
    <3>2. PICK a \in [Nat -> 0 .. Len(s)] :
             /\ a[Len(p)] = Len(s) /\ Follows(s, p, i + 1, a[j + 1], j)
             /\ \A k \in j + 1 .. Len(p) - 1 : Follows(s, p, a[k], a[k + 1], k)
      BY <1>3, <2>3, <3>1
    <3>3. Follows(s, p, i, a[j + 1], j)
      BY <1>1, <1>6, <3>2 DEF Follows
    <3> QED
      BY <1>2, <3>2, <3>3
  <2> QED
    BY <1>6, <2>1, <2>2, <2>3
<1>7. CASE p[j + 1] # Star
  <2>1. ASSUME Aligned(s, p, i, j)
        PROVE  /\ i < Len(s) /\ p[j + 1] \in {Quest, s[i + 1]}
               /\ Aligned(s, p, i + 1, j + 1)
    <3>1. PICK a \in [Nat -> 0 .. Len(s)] :
             /\ a[Len(p)] = Len(s) /\ Follows(s, p, i, a[j + 1], j)
             /\ \A k \in j + 1 .. Len(p) - 1 : Follows(s, p, a[k], a[k + 1], k)
      BY <1>3, <2>1
    <3>2. i < Len(s) /\ a[j + 1] = i + 1 /\ p[j + 1] \in {Quest, s[i + 1]}
      BY <1>7, <3>1 DEF Follows
    <3> QED
      BY <1>4, <3>1, <3>2
  <2>2. ASSUME i < Len(s), p[j + 1] \in {Quest, s[i + 1]}, Aligned(s, p, i + 1, j + 1)
        PROVE  Aligned(s, p, i, j)
    <3>1. i + 1 \in 0 .. Len(s)
      BY <1>1, <2>2
    <3>2. PICK a \in [Nat -> 0 .. Len(s)] :
             /\ a[j + 1] = i + 1 /\ a[Len(p)] = Len(s)
             /\ \A k \in j + 1 .. Len(p) - 1 : Follows(s, p, a[k], a[k + 1], k)
      BY <1>5, <2>2, <3>1
    <3>3. Follows(s, p, i, a[j + 1], j)
      BY <1>7, <2>2, <3>2 DEF Follows
    <3> QED
      BY <1>2, <3>2, <3>3
  <2> QED
    BY <1>7, <2>1, <2>2
<1> QED
  BY <1>6, <1>7

LEMMA TableLine ==
    ASSUME NEW s \in CString, NEW p \in CString
    PROVE  \A at \in TablePlaces(s, p) : Table(s, p)[at] = Line(Table(s, p), s, p, at)
<1> DEFINE w == [at \in TablePlaces(s, p) |-> Aligned(s, p, at[1], at[2])]
<1>0. Len(s) \in Nat /\ Len(p) \in Nat
  BY DEF CString
<1>1. ASSUME NEW at \in TablePlaces(s, p)
      PROVE  Aligned(s, p, at[1], at[2]) = Line(w, s, p, at)
  <2>1. PICK i \in 0 .. Len(s), j \in 0 .. Len(p) : at = <<i, j>>
    BY DEF TablePlaces
  <2>2. \A x \in 0 .. Len(s), y \in 0 .. Len(p) : w[<<x, y>>] = Aligned(s, p, x, y)
    BY DEF TablePlaces
  <2> HIDE DEF w
  <2>3. CASE j = Len(p)
    <3>1. Aligned(s, p, i, j) <=> i = Len(s)
      BY <2>3, AlignedEnd
    <3> QED
      BY <2>1, <2>3, <3>1 DEF Line, Aligned
  <2>4. CASE j # Len(p)
    <3>1. j + 1 \in 0 .. Len(p) /\ (i < Len(s) => i + 1 \in 0 .. Len(s))
      BY <1>0, <2>4
    <3>2. w[<<i, j + 1>>] = Aligned(s, p, i, j + 1)
      BY <2>2, <3>1
    <3>3. i < Len(s) => w[<<i + 1, j>>] = Aligned(s, p, i + 1, j)
      BY <2>2, <3>1
    <3>4. i < Len(s) => w[<<i + 1, j + 1>>] = Aligned(s, p, i + 1, j + 1)
      BY <2>2, <3>1
    <3>5. Aligned(s, p, i, j) <=> Line(w, s, p, <<i, j>>)
      BY <2>4, <3>2, <3>3, <3>4, AlignedLine DEF Line
    <3>6. Aligned(s, p, i, j) \in BOOLEAN
      BY DEF Aligned
    <3>7. Line(w, s, p, <<i, j>>) \in BOOLEAN
      BY <2>4 DEF Line
    <3> QED
      BY <2>1, <3>5, <3>6, <3>7
  <2> QED
    BY <2>3, <2>4
<1>2. IsTable(w, s, p)
  BY <1>1 DEF IsTable
<1>3. IsTable(Table(s, p), s, p)
  <2> HIDE DEF w
  <2> QED
    BY <1>2 DEF Table
<1> DEFINE m == Table(s, p)
<1>4. m = [at \in TablePlaces(s, p) |-> Line(m, s, p, at)]
  BY <1>3 DEF IsTable
<1> HIDE DEF m
<1>5. \A at \in TablePlaces(s, p) : m[at] = Line(m, s, p, at)
  BY <1>4
<1> QED
  BY <1>5 DEF m

-----------------------------------------------------------------------------
\* Whether the rest of p after j characters matches the rest of s after i.
M(s, p, i, j) == Table(s, p)[<<i, j>>] = TRUE

LEMMA MatchLine ==
    ASSUME NEW s \in CString, NEW p \in CString,
           NEW i \in 0 .. Len(s), NEW j \in 0 .. Len(p)
    PROVE  /\ j = Len(p) => (M(s, p, i, j) <=> i = Len(s))
           /\ j # Len(p) /\ p[j + 1] = Star =>
                 (M(s, p, i, j) <=> M(s, p, i, j + 1) \/ (i < Len(s) /\ M(s, p, i + 1, j)))
           /\ j # Len(p) /\ p[j + 1] # Star =>
                 (M(s, p, i, j) <=> /\ i < Len(s) /\ p[j + 1] \in {Quest, s[i + 1]}
                                    /\ M(s, p, i + 1, j + 1))
<1> DEFINE m == Table(s, p)
<1>0. Len(s) \in Nat /\ Len(p) \in Nat
  BY DEF CString
<1>1. \A at \in TablePlaces(s, p) : m[at] = Line(m, s, p, at)
  BY TableLine
<1> HIDE DEF m
<1>2. \A at \in TablePlaces(s, p) : m[at] \in BOOLEAN
  BY <1>1 DEF Line
<1>3. m[<<i, j>>] = Line(m, s, p, <<i, j>>) /\ m[<<i, j>>] \in BOOLEAN
  BY <1>1, <1>2 DEF TablePlaces
<1>4. j # Len(p) => m[<<i, j + 1>>] \in BOOLEAN
  BY <1>0, <1>2 DEF TablePlaces
<1>5. i < Len(s) => m[<<i + 1, j>>] \in BOOLEAN
  BY <1>0, <1>2 DEF TablePlaces
<1>6. i < Len(s) /\ j # Len(p) => m[<<i + 1, j + 1>>] \in BOOLEAN
  BY <1>0, <1>2 DEF TablePlaces
<1> QED
  BY <1>3, <1>4, <1>5, <1>6 DEF M, m, Line

\* A star stands for any number of characters.
LEMMA StarTakes ==
    ASSUME NEW s \in CString, NEW p \in CString,
           NEW j \in 0 .. Len(p), j # Len(p), p[j + 1] = Star, NEW i \in 0 .. Len(s)
    PROVE  M(s, p, i, j) <=> \E t \in i .. Len(s) : M(s, p, t, j + 1)
<1> DEFINE N == Len(s)
           Says(x) == M(s, p, x, j) <=> \E t \in x .. N : M(s, p, t, j + 1)
           S == {d \in Nat : d =< N => Says(N - d)}
<1>0. N \in Nat /\ Len(p) \in Nat
  BY DEF CString
<1>1. \A x \in 0 .. N :
         M(s, p, x, j) <=> M(s, p, x, j + 1) \/ (x < N /\ M(s, p, x + 1, j))
  BY MatchLine
<1> HIDE DEF N
<1>2. 0 \in S
  <2>1. N - 0 = N /\ N .. N = {N} /\ ~(N < N) /\ N \in 0 .. N
    BY <1>0
  <2> QED
    BY <1>0, <1>1, <2>1
<1>3. ASSUME NEW d \in S PROVE d + 1 \in S
  <2> SUFFICES ASSUME d + 1 =< N PROVE Says(N - (d + 1))
    BY <1>3
  <2> DEFINE x == N - (d + 1)
  <2>1. d \in Nat /\ x \in 0 .. N /\ x < N /\ x + 1 = N - d /\ d =< N
    BY <1>0, <1>3
  <2>2. Says(x + 1)
    BY <1>3, <2>1
  <2> HIDE DEF x
  <2>3. x .. N = {x} \cup (x + 1 .. N)
    BY <1>0, <2>1
  <2>4. Says(x)
    BY <1>1, <2>1, <2>2, <2>3
  <2> QED
    BY <2>4 DEF x
<1>4. \A d \in Nat : d \in S
  <2>1. S \in SUBSET Nat
    OBVIOUS
  <2> HIDE DEF S
  <2> QED
    BY <1>2, <1>3, <2>1, EveryNat
<1>5. N - i \in Nat /\ N - i =< N /\ N - (N - i) = i
  BY <1>0 DEF N
<1>6. Says(N - (N - i))
  BY <1>4, <1>5
<1> QED
  BY <1>5, <1>6 DEF N

\* At the end of the string only stars match.
LEMMA StarsAtEnd ==
    ASSUME NEW s \in CString, NEW p \in CString, NEW j \in 0 .. Len(p)
    PROVE  M(s, p, Len(s), j) <=> \A k \in j + 1 .. Len(p) : p[k] = Star
<1> DEFINE N == Len(p)
           Says(x) == M(s, p, Len(s), x) <=> \A k \in x + 1 .. N : p[k] = Star
           S == {d \in Nat : d =< N => Says(N - d)}
<1>0. N \in Nat /\ Len(s) \in Nat /\ ~(Len(s) < Len(s)) /\ Len(s) \in 0 .. Len(s)
  BY DEF CString
<1>1. /\ M(s, p, Len(s), N)
      /\ \A x \in 0 .. N : x # N =>
            (M(s, p, Len(s), x) <=> p[x + 1] = Star /\ M(s, p, Len(s), x + 1))
  <2>1. N \in 0 .. N
    BY <1>0
  <2> QED
    BY <1>0, <2>1, MatchLine
<1> HIDE DEF N
<1>2. 0 \in S
  <2>1. N - 0 = N /\ N + 1 .. N = {}
    BY <1>0
  <2> QED
    BY <1>1, <2>1
<1>3. ASSUME NEW d \in S PROVE d + 1 \in S
  <2> SUFFICES ASSUME d + 1 =< N PROVE Says(N - (d + 1))
    BY <1>3
  <2> DEFINE x == N - (d + 1)
  <2>1. d \in Nat /\ x \in 0 .. N /\ x # N /\ x + 1 = N - d /\ d =< N
    BY <1>0, <1>3
  <2>2. Says(x + 1)
    BY <1>3, <2>1
  <2> HIDE DEF x
  <2>3. x + 1 .. N = {x + 1} \cup ((x + 1) + 1 .. N)
    BY <1>0, <2>1
  <2>4. Says(x)
    BY SMTT(30), <1>1, <2>1, <2>2, <2>3
  <2> QED
    BY <2>4 DEF x
<1>4. \A d \in Nat : d \in S
  <2>1. S \in SUBSET Nat
    OBVIOUS
  <2> HIDE DEF S
  <2> QED
    BY <1>2, <1>3, <2>1, EveryNat
<1>5. N - j \in Nat /\ N - j =< N /\ N - (N - j) = j
  BY <1>0 DEF N
<1>6. Says(N - (N - j))
  BY <1>4, <1>5
<1> QED
  BY <1>5, <1>6 DEF N

-----------------------------------------------------------------------------
(***************************************************************************)
(* The inductive invariant.  The frame at place k of the stack is about    *)
(* the k-th character of the pattern: a match of its rest is one of the    *)
(* whole, and what was tried above it and is gone did not match.           *)
(***************************************************************************)
FrameType == [type : {"try", "any", "one"}, s1 : Nat, s2 : Nat]

WildTypeOK ==
    /\ s1 \in CString /\ s2 \in CString
    /\ capacity \in Nat
    /\ stack \in Seq(FrameType)
    /\ tail \in Nat
    /\ match \in {-1, 0, 1}

Rest(f) == M(s1, s2, f.s1, f.s2)

FrameOK(f, k) ==
    /\ f.s2 = k - 1 /\ f.s1 =< Len(s1) /\ f.s2 =< Len(s2)
    /\ Rest(f) => M(s1, s2, 0, 0)
    /\ f.type # "try" => f.s2 < Len(s2) /\ f.s1 < Len(s1)
    /\ f.type = "one" => s2[k] \in {Quest, s1[f.s1 + 1]} /\ s2[k] # Star
    /\ f.type = "any" => s2[k] = Star

\* Above frame f at place k, the places after `from' were tried in vain.
TriedAfter(f, k, from) ==
    /\ f.type = "one" => from = f.s1 + 1
    /\ f.type = "any" => /\ from \in f.s1 .. Len(s1)
                         /\ \A t \in from + 1 .. Len(s1) : ~ M(s1, s2, t, k)

SearchOK ==
    /\ Len(stack) > 0 /\ stack[1].s1 = 0
    /\ Len(s2) =< capacity
    /\ \A k \in 1 .. Len(stack) : FrameOK(stack[k], k)
    /\ \A k \in 1 .. Len(stack) - 1 :
          stack[k].type # "try" /\ TriedAfter(stack[k], k, stack[k + 1].s1)
    /\ stack[Len(stack)].type # "try" =>
          /\ TriedAfter(stack[Len(stack)], Len(stack), tail)
          /\ ~ M(s1, s2, tail, Len(stack))

WildInv ==
    /\ WildTypeOK
    /\ match = -1 => SearchOK
    /\ match # -1 => (match = 0 <=> M(s1, s2, 0, 0))

LEMMA WildInitInv == WildInit => WildInv
<1> SUFFICES ASSUME WildInit PROVE WildInv
  OBVIOUS
<1>1. <<>> \in CString /\ Len(<<>>) = 0
  BY DEF CString
<1>2. M(<<>>, <<>>, 0, 0)
  BY <1>1, MatchLine
<1>3. <<>> \in Seq(FrameType)
  OBVIOUS
<1> QED
  BY <1>1, <1>2, <1>3 DEF WildInit, WildInv, WildTypeOK

\* What is known of the frame on top.
LEMMA TopFrame ==
    ASSUME WildInv, match = -1
    PROVE  /\ Len(stack) \in Nat /\ Len(stack) > 0 /\ Len(stack) \in 1 .. Len(stack)
           /\ Len(s1) \in Nat /\ Len(s2) \in Nat
           /\ Top = stack[Len(stack)] /\ Top \in FrameType
           /\ FrameOK(Top, Len(stack))
           /\ Top.s1 \in 0 .. Len(s1) /\ Top.s2 \in 0 .. Len(s2)
           /\ Len(stack) - 1 = Top.s2 /\ Top.s2 + 1 = Len(stack)
           /\ c1 = EndOfString <=> Top.s1 = Len(s1)
           /\ c2 = EndOfString <=> Top.s2 = Len(s2)
           /\ Top.s1 # Len(s1) => c1 = s1[Top.s1 + 1]
           /\ Top.s2 # Len(s2) => c2 = s2[Top.s2 + 1]
<1>1. Len(stack) \in Nat /\ Len(stack) > 0 /\ Len(s1) \in Nat /\ Len(s2) \in Nat
  BY DEF WildInv, WildTypeOK, SearchOK, CString
<1>2. Len(stack) \in 1 .. Len(stack) /\ Top = stack[Len(stack)]
  BY <1>1 DEF Top, Last
<1>3. Top \in FrameType /\ FrameOK(Top, Len(stack))
  BY <1>1, <1>2 DEF WildInv, WildTypeOK, SearchOK
<1>4. /\ Top.s1 \in 0 .. Len(s1) /\ Top.s2 \in 0 .. Len(s2)
      /\ Len(stack) - 1 = Top.s2 /\ Top.s2 + 1 = Len(stack)
  BY <1>1, <1>3 DEF FrameOK, FrameType
<1>5. /\ Top.s1 # Len(s1) => c1 = s1[Top.s1 + 1] /\ c1 # EndOfString
      /\ Top.s1 = Len(s1) => c1 = EndOfString
  BY <1>1, <1>4 DEF WildInv, WildTypeOK, CString, c1, CharAt
<1>6. /\ Top.s2 # Len(s2) => c2 = s2[Top.s2 + 1] /\ c2 # EndOfString
      /\ Top.s2 = Len(s2) => c2 = EndOfString
  BY <1>1, <1>4 DEF WildInv, WildTypeOK, CString, c2, CharAt
<1> QED
  BY <1>1, <1>2, <1>3, <1>4, <1>5, <1>6

\* A frame whose rest does not match can go.
LEMMA PopInv ==
    ASSUME WildInv, match = -1, Pop, ~ Rest(Top)
    PROVE  WildInv'
<1> DEFINE L == Len(stack)
<1>0. /\ L \in Nat /\ L > 0 /\ Top = stack[L] /\ Top \in FrameType /\ Top.s2 = L - 1
      /\ stack \in Seq(FrameType) /\ SearchOK
  BY TopFrame DEF WildInv, WildTypeOK
<1>1. /\ UNCHANGED <<s1, s2, capacity>> /\ tail' = Top.s1 /\ stack' = Front(stack)
      /\ match' = IF L = 1 THEN 1 ELSE -1
  BY DEF Pop
<1>2. /\ stack' \in Seq(FrameType) /\ Len(stack') = L - 1
      /\ \A k \in 1 .. L - 1 : stack'[k] = stack[k]
  <2>1. stack' = SubSeq(stack, 1, L - 1)
    BY <1>1 DEF Front
  <2>2. L - 1 \in 0 .. Len(stack)
    BY <1>0
  <2> HIDE DEF L
  <2> QED
    BY <1>0, <2>1, <2>2, SubSeqProperties
<1>3. WildTypeOK'
  BY <1>0, <1>1, <1>2 DEF WildInv, WildTypeOK, FrameType
<1>4. CASE L = 1
  <2>1. Top.s1 = 0 /\ Top.s2 = 0
    BY <1>0, <1>4 DEF SearchOK
  <2>2. ~ M(s1, s2, 0, 0)
    BY <2>1 DEF Rest
  <2> QED
    BY <1>1, <1>3, <1>4, <2>2 DEF WildInv
<1>5. CASE L # 1
  <2>0. L - 1 \in 1 .. L - 1 /\ (L - 1) + 1 = L /\ L - 1 > 0 /\ 1 \in 1 .. L - 1
    <3> HIDE DEF L
    <3> QED
      BY <1>0, <1>5
  <2>5. \A k \in 1 .. (L - 1) - 1 : k \in 1 .. L - 1 /\ k + 1 \in 1 .. L - 1
    <3> HIDE DEF L
    <3> QED
      BY <1>0
  <2>1. \A k \in 1 .. L - 1 : FrameOK(stack[k], k)' <=> FrameOK(stack[k], k)
    BY <1>1, <1>2 DEF FrameOK, Rest
  <2>2. \A k \in 1 .. L - 1 : \A x : TriedAfter(stack[k], k, x)' <=> TriedAfter(stack[k], k, x)
    BY <1>1, <1>2 DEF TriedAfter
  <2>3. \A k \in 1 .. L - 1 : /\ FrameOK(stack[k], k)
                              /\ stack[k].type # "try" /\ TriedAfter(stack[k], k, stack[k + 1].s1)
    BY <1>0 DEF SearchOK
  <2>4. TriedAfter(stack[L - 1], L - 1, Top.s1) /\ ~ M(s1, s2, Top.s1, L - 1)
    BY <1>0, <2>0, <2>3 DEF Rest
  <2>6. SearchOK'
    <3>1. Len(stack') > 0 /\ stack'[1].s1 = 0 /\ Len(s2') =< capacity'
      BY <1>0, <1>1, <1>2, <2>0 DEF SearchOK
    <3>2. \A k \in 1 .. Len(stack') : FrameOK(stack[k], k)'
      BY <1>2, <2>1, <2>3
    <3>3. \A k \in 1 .. Len(stack') - 1 :
             stack'[k].type # "try" /\ TriedAfter(stack[k], k, stack[k + 1].s1)'
      BY <1>2, <2>2, <2>3, <2>5
    <3>4. /\ TriedAfter(stack[Len(stack)], Len(stack), tail)'
          /\ ~ M(s1', s2', tail', Len(stack'))
      BY <1>1, <1>2, <2>0, <2>2, <2>4
    <3> QED
      BY <3>1, <3>2, <3>3, <3>4 DEF SearchOK
  <2> QED
    BY <1>1, <1>3, <1>5, <2>6 DEF WildInv
<1> QED
  BY <1>4, <1>5

\* A frame stays under a new one, of which a match would be one of its own.
LEMMA CoverInv ==
    ASSUME WildInv, match = -1, UNCHANGED <<s1, s2, capacity, tail, match>>,
           NEW type \in {"any", "one"}, NEW p1 \in 0 .. Len(s1),
           stack' = Append([stack EXCEPT ![Len(stack)].type = type],
                           Frame("try", p1, Top.s2 + 1)),
           FrameOK([Top EXCEPT !.type = type], Len(stack)),
           TriedAfter([Top EXCEPT !.type = type], Len(stack), p1),
           M(s1, s2, p1, Len(stack)) => Rest(Top)
    PROVE  WildInv'
<1> DEFINE L == Len(stack)
           over == Frame("try", p1, Top.s2 + 1)
           under == [Top EXCEPT !.type = type]
<1>0. /\ L \in Nat /\ L > 0 /\ Top = stack[L] /\ Top \in FrameType /\ Top.s2 + 1 = L
      /\ stack \in Seq(FrameType) /\ SearchOK /\ Len(s1) \in Nat /\ Len(s2) \in Nat
      /\ L \in 1 .. L /\ FrameOK(Top, L)
  BY TopFrame DEF WildInv, WildTypeOK
<1>1. /\ over \in FrameType /\ over.s1 = p1 /\ over.s2 = L /\ over.type = "try"
  BY <1>0 DEF Frame, FrameType
<1>2. /\ under \in FrameType /\ under.type = type /\ under.s1 = Top.s1 /\ under.s2 = Top.s2
  BY <1>0 DEF FrameType
<1>3. /\ stack' \in Seq(FrameType) /\ Len(stack') = L + 1
      /\ stack'[L] = under /\ stack'[L + 1] = over
      /\ \A k \in 1 .. L - 1 : stack'[k] = stack[k]
  <2> DEFINE low == [stack EXCEPT ![L].type = type]
  <2>1. low = [stack EXCEPT ![L] = under]
    BY <1>0
  <2>2. low \in Seq(FrameType) /\ Len(low) = L /\ low[L] = under
        /\ \A k \in 1 .. L - 1 : low[k] = stack[k]
    <3> HIDE DEF low, under, L
    <3>1. DOMAIN stack = 1 .. L
      BY <1>0 DEF L
    <3>2. stack \in [1 .. L -> FrameType] /\ L \in 1 .. L /\ L \in Nat
      BY <1>0, <3>1
    <3>3. /\ low \in [1 .. L -> FrameType] /\ low[L] = under
          /\ \A k \in 1 .. L - 1 : low[k] = stack[k]
      BY <1>2, <2>1, <3>2
    <3> QED
      BY <3>2, <3>3
  <2>3. stack' = Append(low, over)
    OBVIOUS
  <2> HIDE DEF low, over, under, L
  <2>4. /\ stack' \in Seq(FrameType) /\ Len(stack') = L + 1 /\ stack'[L + 1] = over
        /\ \A k \in 1 .. L : stack'[k] = low[k]
    <3>1. low \in Seq(FrameType) /\ over \in FrameType /\ Len(low) = L
      BY <1>1, <2>2
    <3>2. /\ Append(low, over) \in Seq(FrameType) /\ Len(Append(low, over)) = Len(low) + 1
          /\ Append(low, over)[Len(low) + 1] = over
          /\ \A k \in 1 .. Len(low) : Append(low, over)[k] = low[k]
      BY <3>1, AppendProperties
    <3> QED
      BY <2>3, <3>1, <3>2
  <2>5. L \in 1 .. L /\ \A k \in 1 .. L - 1 : k \in 1 .. L
    BY <1>0
  <2> QED
    BY <2>2, <2>4, <2>5
<1> HIDE DEF over, under
<1>4. WildTypeOK'
  BY <1>3 DEF WildInv, WildTypeOK
<1>5. \A f : \A k : FrameOK(f, k)' <=> FrameOK(f, k)
  BY DEF FrameOK, Rest
<1>6. \A f : \A k : \A x : TriedAfter(f, k, x)' <=> TriedAfter(f, k, x)
  BY DEF TriedAfter
<1>7. ASSUME NEW k \in 1 .. L + 1 PROVE FrameOK(stack'[k], k)
  <2>1. CASE k \in 1 .. L - 1
    BY <1>0, <1>3, <2>1 DEF SearchOK
  <2>2. CASE k = L
    BY <1>3, <2>2 DEF under
  <2>3. CASE k = L + 1
    <3>1. L =< Len(s2)
      <4>1. Top.s2 < Len(s2)
        BY <1>2 DEF FrameOK, under
      <4> QED
        BY <1>0, <4>1 DEF FrameType
    <3>2. Rest(over) => M(s1, s2, 0, 0)
      BY <1>0, <1>1 DEF FrameOK, Rest
    <3>3. k - 1 = L /\ p1 =< Len(s1)
      BY <1>0, <2>3
    <3>4. FrameOK(over, k)
      BY <1>1, <3>1, <3>2, <3>3 DEF FrameOK
    <3> QED
      BY <1>3, <2>3, <3>4
  <2> QED
    BY <1>0, <2>1, <2>2, <2>3
<1>8. ASSUME NEW k \in 1 .. L
      PROVE  stack'[k].type # "try" /\ TriedAfter(stack'[k], k, stack'[k + 1].s1)
  <2>1. CASE k = L
    BY <1>1, <1>2, <1>3, <2>1 DEF under
  <2>2. CASE k \in 1 .. L - 1
    <3>1. stack'[k] = stack[k] /\ stack[k].type # "try" /\ TriedAfter(stack[k], k, stack[k + 1].s1)
      BY <1>0, <1>3, <2>2 DEF SearchOK
    <3>2. stack'[k + 1].s1 = stack[k + 1].s1
      <4>1. CASE k + 1 = L
        BY <1>0, <1>2, <1>3, <4>1
      <4>2. CASE k + 1 # L
        BY <1>0, <1>3, <2>2, <4>2
      <4> QED
        BY <4>1, <4>2
    <3> QED
      BY <3>1, <3>2
  <2> QED
    BY <1>0, <2>1, <2>2
<1>9. SearchOK'
  <2>1. stack'[1].s1 = 0
    <3>1. CASE L = 1
      BY <1>0, <1>2, <1>3, <3>1 DEF SearchOK
    <3>2. CASE L # 1
      BY <1>0, <1>3, <3>2 DEF SearchOK
    <3> QED
      BY <3>1, <3>2
  <2>2. Len(stack') > 0 /\ Len(s2') =< capacity' /\ stack'[Len(stack')].type = "try"
    BY <1>0, <1>1, <1>3 DEF SearchOK
  <2>3. \A k \in 1 .. Len(stack') : FrameOK(stack[k], k)'
    BY <1>3, <1>5, <1>7
  <2>4. \A k \in 1 .. Len(stack') - 1 :
           stack'[k].type # "try" /\ TriedAfter(stack[k], k, stack[k + 1].s1)'
    <3>1. Len(stack') - 1 = L
      BY <1>0, <1>3
    <3> QED
      BY <1>6, <1>8, <3>1
  <2> QED
    BY <2>1, <2>2, <2>3, <2>4 DEF SearchOK
<1> QED
  BY <1>4, <1>9 DEF WildInv

LEMMA AnswerInv ==
    ASSUME WildInv, match = -1, Answer(0), Rest(Top)
    PROVE  WildInv'
<1>1. M(s1, s2, 0, 0)
  BY TopFrame DEF FrameOK
<1> QED
  BY <1>1 DEF Answer, WildInv, WildTypeOK

LEMMA CallInv ==
    ASSUME WildInv, NEW s \in CString, NEW p \in CString, Call(s, p)
    PROVE  WildInv'
<1> DEFINE f == Frame("try", 0, 0)
<1>1. f \in FrameType /\ f.s1 = 0 /\ f.s2 = 0 /\ f.type = "try"
  BY DEF Frame, FrameType
<1>2. /\ s1' = s /\ s2' = p /\ match' = -1 /\ tail' = 0 /\ stack' = <<f>>
      /\ capacity' = Area(p)
  BY DEF Call
<1>3. Len(s) \in Nat /\ Len(p) \in Nat
  BY DEF CString
<1>4. capacity' \in Nat /\ Len(p) =< capacity'
  BY <1>2, <1>3 DEF Area, WildInv, WildTypeOK
<1> HIDE DEF f
<1>5. stack' \in Seq(FrameType) /\ Len(stack') = 1 /\ stack'[1] = f
  BY <1>1, <1>2
<1>6. WildTypeOK'
  BY <1>2, <1>4, <1>5 DEF WildTypeOK
<1>7. FrameOK(stack[1], 1)'
  BY <1>1, <1>2, <1>3, <1>5 DEF FrameOK, Rest
<1>8. SearchOK'
  <2>1. 1 .. Len(stack') = {1} /\ 1 .. Len(stack') - 1 = {}
    BY <1>5
  <2>2. \A k \in 1 .. Len(stack') : FrameOK(stack[k], k)'
    BY <1>7, <2>1
  <2> QED
    BY <1>1, <1>2, <1>4, <1>5, <2>1, <2>2 DEF SearchOK
<1> QED
  BY <1>2, <1>6, <1>8 DEF WildInv

LEMMA ExhaustedInv ==
    ASSUME WildInv, PatternExhausted \/ StringExhausted
    PROVE  WildInv'
<1>1. match = -1 /\ s1 \in CString /\ s2 \in CString
  BY DEF PatternExhausted, StringExhausted, Trying, WildInv, WildTypeOK
<1>2. Top.s1 \in 0 .. Len(s1) /\ Top.s2 \in 0 .. Len(s2)
  BY <1>1, TopFrame
<1>3. CASE PatternExhausted
  <2>1. Top.s2 = Len(s2) /\ (c1 = EndOfString <=> Top.s1 = Len(s1))
    BY <1>1, <1>3, TopFrame DEF PatternExhausted
  <2>2. Rest(Top) <=> c1 = EndOfString
    BY <1>1, <1>2, <2>1, MatchLine DEF Rest
  <2> QED
    BY <1>1, <1>3, <2>2, AnswerInv, PopInv DEF PatternExhausted
<1>4. CASE StringExhausted
  <2>1. Top.s1 = Len(s1)
    BY <1>1, <1>4, TopFrame DEF StringExhausted
  <2>2. Rest(Top) <=> OnlyStars(Top.s2)
    BY <1>1, <1>2, <2>1, StarsAtEnd DEF Rest, OnlyStars
  <2> QED
    BY <1>1, <1>4, <2>2, AnswerInv, PopInv DEF StringExhausted
<1> QED
  BY <1>3, <1>4

LEMMA TryStarInv ==
    ASSUME WildInv, TryStar
    PROVE  WildInv'
<1> DEFINE L == Len(stack)
           under == [Top EXCEPT !.type = "any"]
<1>1. match = -1 /\ s1 \in CString /\ s2 \in CString
  BY DEF TryStar, Trying, WildInv, WildTypeOK
<1>2. /\ Top.s1 \in 0 .. Len(s1) /\ Top.s2 \in 0 .. Len(s2) /\ Top \in FrameType
      /\ FrameOK(Top, L) /\ Top.s2 + 1 = L /\ Len(s1) \in Nat /\ Len(s2) \in Nat
      /\ L - 1 = Top.s2
  BY <1>1, TopFrame
<1>3. /\ Top.s1 # Len(s1) /\ Top.s2 # Len(s2) /\ s2[L] = Star
  <2>1. c1 # EndOfString /\ c2 = Star
    BY DEF TryStar
  <2>2. Top.s1 # Len(s1) /\ Top.s2 # Len(s2)
    BY <1>1, <2>1, TopFrame DEF Star, EndOfString
  <2>3. c2 = s2[Top.s2 + 1]
    BY <1>1, <2>2, TopFrame
  <2> QED
    BY <1>2, <2>1, <2>2, <2>3
<1>4. under \in FrameType /\ under.type = "any" /\ under.s1 = Top.s1 /\ under.s2 = Top.s2
  BY <1>2 DEF FrameType
<1>5. Len(s1) \in Top.s1 .. Len(s1) /\ Len(s1) + 1 .. Len(s1) = {} /\ Len(s1) \in 0 .. Len(s1)
      /\ Top.s2 < Len(s2) /\ Top.s1 < Len(s1)
  BY <1>2, <1>3
<1>6. M(s1, s2, Len(s1), L) => Rest(Top)
  BY <1>1, <1>2, <1>3, <1>5, StarTakes DEF Rest
<1> HIDE DEF under
<1>7. FrameOK(under, L)
  BY <1>2, <1>3, <1>4, <1>5 DEF FrameOK, Rest
<1>8. TriedAfter(under, L, Len(s1))
  BY <1>4, <1>5 DEF TriedAfter
<1>9. /\ stack' = Append([stack EXCEPT ![L].type = "any"], Frame("try", Len(s1), Top.s2 + 1))
      /\ UNCHANGED <<s1, s2, capacity, tail, match>>
  BY DEF TryStar, Push
<1> QED
  BY <1>1, <1>5, <1>6, <1>7, <1>8, <1>9, CoverInv DEF under

LEMMA TryOneInv ==
    ASSUME WildInv, TryOne
    PROVE  WildInv'
<1> DEFINE L == Len(stack)
           under == [Top EXCEPT !.type = "one"]
<1>1. match = -1 /\ s1 \in CString /\ s2 \in CString
  BY DEF TryOne, Trying, WildInv, WildTypeOK
<1>2. /\ Top.s1 \in 0 .. Len(s1) /\ Top.s2 \in 0 .. Len(s2) /\ Top \in FrameType
      /\ FrameOK(Top, L) /\ Top.s2 + 1 = L /\ Len(s1) \in Nat /\ Len(s2) \in Nat
      /\ L - 1 = Top.s2
  BY <1>1, TopFrame
<1>3. /\ Top.s1 # Len(s1) /\ Top.s2 # Len(s2) /\ s2[L] # Star
      /\ c1 = s1[Top.s1 + 1] /\ c2 = s2[L]
  <2>1. c1 # EndOfString /\ c2 # EndOfString /\ c2 # Star
    BY DEF TryOne
  <2>2. Top.s1 # Len(s1) /\ Top.s2 # Len(s2)
    BY <1>1, <2>1, TopFrame
  <2>3. c2 = s2[Top.s2 + 1] /\ c1 = s1[Top.s1 + 1]
    BY <1>1, <2>2, TopFrame
  <2> QED
    BY <1>2, <2>1, <2>2, <2>3
<1>4. Top.s2 < Len(s2) /\ Top.s1 < Len(s1) /\ Top.s1 + 1 \in 0 .. Len(s1)
  BY SMTT(30), <1>2, <1>3
<1>5. Rest(Top) <=> (c2 = Quest \/ c1 = c2) /\ M(s1, s2, Top.s1 + 1, L)
  BY <1>1, <1>2, <1>3, <1>4, MatchLine DEF Rest
<1>6. CASE c2 = Quest \/ c1 = c2
  <2>1. under \in FrameType /\ under.type = "one" /\ under.s1 = Top.s1 /\ under.s2 = Top.s2
    BY <1>2 DEF FrameType
  <2> HIDE DEF under
  <2>2. FrameOK(under, L)
    BY <1>2, <1>3, <1>4, <1>6, <2>1 DEF FrameOK, Rest
  <2>3. TriedAfter(under, L, Top.s1 + 1)
    BY <2>1 DEF TriedAfter
  <2>4. /\ stack' = Append([stack EXCEPT ![L].type = "one"], Frame("try", Top.s1 + 1, Top.s2 + 1))
        /\ UNCHANGED <<s1, s2, capacity, tail, match>>
    BY <1>6 DEF TryOne, Push
  <2> QED
    BY <1>1, <1>4, <1>5, <1>6, <2>2, <2>3, <2>4, CoverInv DEF under
<1>7. CASE ~(c2 = Quest \/ c1 = c2)
  BY <1>1, <1>5, <1>7, PopInv DEF TryOne
<1> QED
  BY <1>6, <1>7

LEMMA BackInv ==
    ASSUME WildInv, Back
    PROVE  WildInv'
<1> DEFINE L == Len(stack)
<1>1. match = -1 /\ s1 \in CString /\ s2 \in CString /\ Pop /\ Top.type = "one" /\ SearchOK
  BY DEF Back, WildInv, WildTypeOK
<1>2. /\ Top.s1 \in 0 .. Len(s1) /\ Top.s2 \in 0 .. Len(s2) /\ FrameOK(Top, L)
      /\ Top.s2 + 1 = L /\ Top = stack[L] /\ L - 1 = Top.s2 /\ Len(s2) \in Nat
  BY <1>1, TopFrame
<1>3. tail = Top.s1 + 1 /\ ~ M(s1, s2, tail, L)
  BY <1>1, <1>2 DEF SearchOK, TriedAfter
<1>4. Top.s2 # Len(s2) /\ s2[L] # Star
  <2>1. Top.s2 < Len(s2) /\ s2[L] # Star
    BY <1>1, <1>2 DEF FrameOK
  <2> QED
    BY <1>2, <2>1
<1>5. ~ Rest(Top)
  BY <1>1, <1>2, <1>3, <1>4, MatchLine DEF Rest
<1> QED
  BY <1>1, <1>5, PopInv

LEMMA LongerStarInv ==
    ASSUME WildInv, LongerStar
    PROVE  WildInv'
<1> DEFINE L == Len(stack)
           under == [Top EXCEPT !.type = "any"]
<1>1. match = -1 /\ s1 \in CString /\ s2 \in CString /\ Top.type = "any" /\ SearchOK
  BY DEF LongerStar, WildInv, WildTypeOK
<1>2. /\ Top.s1 \in 0 .. Len(s1) /\ Top.s2 \in 0 .. Len(s2) /\ FrameOK(Top, L)
      /\ Top.s2 + 1 = L /\ Top = stack[L] /\ L - 1 = Top.s2 /\ Top \in FrameType
      /\ Len(s1) \in Nat /\ L \in 1 .. L /\ Len(s2) \in Nat
  BY <1>1, TopFrame
<1>3. /\ tail \in Top.s1 .. Len(s1) /\ ~ M(s1, s2, tail, L)
      /\ \A t \in tail + 1 .. Len(s1) : ~ M(s1, s2, t, L)
  BY <1>1, <1>2 DEF SearchOK, TriedAfter
<1>4. Top.s2 # Len(s2) /\ s2[L] = Star
  <2>1. Top.s2 < Len(s2) /\ s2[L] = Star
    BY <1>1, <1>2 DEF FrameOK
  <2> QED
    BY <1>2, <2>1
<1>5. Rest(Top) <=> \E t \in Top.s1 .. Len(s1) : M(s1, s2, t, L)
  BY <1>1, <1>2, <1>4, StarTakes DEF Rest
<1>6. \A t \in tail .. Len(s1) : ~ M(s1, s2, t, L)
  <2>1. PICK x \in Nat : x = tail
    BY <1>2, <1>3
  <2>2. \A t \in x .. Len(s1) : t = x \/ t \in x + 1 .. Len(s1)
    BY <1>2
  <2> QED
    BY <1>3, <2>1, <2>2
<1>7. CASE Earlier(tail) >= Shortest(Top.s1)
  <2> DEFINE p1 == tail - 1
  <2>1. p1 \in Top.s1 .. Len(s1) /\ p1 \in 0 .. Len(s1) /\ p1 + 1 = tail
    BY <1>2, <1>3, <1>7 DEF Earlier, Shortest
  <2>2. /\ stack' = Append(stack, Frame("try", p1, Top.s2 + 1))
        /\ UNCHANGED <<s1, s2, capacity, tail, match>>
    BY <1>7 DEF LongerStar, Earlier
  <2> HIDE DEF p1
  <2>3. under = Top
    BY <1>1, <1>2 DEF FrameType
  <2>4. [stack EXCEPT ![L].type = "any"] = stack
    <3>1. [stack EXCEPT ![L].type = "any"] = [stack EXCEPT ![L] = under]
      BY <1>2
    <3>2. [stack EXCEPT ![L] = Top] = stack
      BY <1>2 DEF WildInv, WildTypeOK
    <3> QED
      BY <2>3, <3>1, <3>2
  <2>5. TriedAfter(under, L, p1)
    BY <1>1, <1>6, <2>1, <2>3 DEF TriedAfter
  <2>6. M(s1, s2, p1, L) => Rest(Top)
    BY <1>5, <2>1
  <2> HIDE DEF under
  <2> QED
    BY <1>1, <1>2, <2>1, <2>2, <2>3, <2>4, <2>5, <2>6, CoverInv DEF under
<1>8. CASE ~(Earlier(tail) >= Shortest(Top.s1))
  <2>1. tail = Top.s1
    BY <1>2, <1>3, <1>8 DEF Earlier, Shortest
  <2>2. ~ Rest(Top)
    BY <1>5, <1>6, <2>1
  <2> QED
    BY <1>1, <1>8, <2>2, PopInv DEF LongerStar
<1> QED
  BY <1>7, <1>8

LEMMA WildInvariant == WildSpec => []WildInv
<1>1. WildInv /\ [WildNext]_wvars => WildInv'
  <2> SUFFICES ASSUME WildInv, [WildNext]_wvars PROVE WildInv'
    OBVIOUS
  <2>1. CASE Turn
    BY <2>1, ExhaustedInv, TryStarInv, TryOneInv, BackInv, LongerStarInv DEF Turn
  <2>2. CASE Reset
    BY <2>2 DEF Reset, WildInv, WildTypeOK
  <2>3. ASSUME NEW s \in Subjects, NEW p \in Patterns, Call(s, p) PROVE WildInv'
    BY <2>3, CallInv, WildcardAssumption
  <2>4. CASE UNCHANGED wvars
    BY <2>4 DEF wvars, WildInv, WildTypeOK, SearchOK, FrameOK, TriedAfter, Rest
  <2> QED
    BY <2>1, <2>2, <2>3, <2>4 DEF WildNext
<1> QED
  BY <1>1, WildInitInv, PTL DEF WildSpec

\* Whatever the name and the pattern, and whatever area earlier calls have left,
\* wcdcmp answers what the comment before it says of '*' and '?'.
THEOREM AnswersAsDefined == WildSpec => []AnswerIsMatch
<1>1. WildInv => AnswerIsMatch
  <2> SUFFICES ASSUME WildInv, match # -1 PROVE match = 0 <=> Matches(s1, s2)
    BY DEF AnswerIsMatch
  <2>1. s1 \in CString /\ s2 \in CString /\ (match = 0 <=> M(s1, s2, 0, 0))
    BY DEF WildInv, WildTypeOK
  <2>2. <<0, 0>> \in TablePlaces(s1, s2)
    BY <2>1 DEF TablePlaces, CString
  <2>3. Table(s1, s2)[<<0, 0>>] \in BOOLEAN
    BY <2>1, <2>2, TableLine DEF Line
  <2> QED
    BY <2>1, <2>3, MatchesIsTable DEF M
<1> QED
  BY <1>1, WildInvariant, PTL

\* The working area is never too small for the frames of the search, for patterns
\* of any length after patterns of any other.
THEOREM AreaHoldsStack == WildSpec => []StackFits
<1>1. WildInv => StackFits
  <2> SUFFICES ASSUME WildInv, match = -1, s2 # <<>>
               PROVE  Len(stack) <= 2 * capacity
    BY DEF StackFits
  <2>1. Len(s2) =< capacity /\ capacity \in Nat /\ s2 \in CString
    BY DEF WildInv, WildTypeOK, SearchOK
  <2>2. Len(s2) \in Nat /\ Len(s2) > 0
    BY <2>1 DEF CString
  <2>3. Len(stack) =< Len(s2) + 1 /\ Len(stack) \in Nat
    BY TopFrame
  <2> QED
    BY <2>1, <2>2, <2>3
<1> QED
  BY <1>1, WildInvariant, PTL

-----------------------------------------------------------------------------
(***************************************************************************)
(* Part 3.  SapNames.                                                      *)
(***************************************************************************)
\* What Min and Max of a set of places are.
LEMMA LeastPlace ==
    ASSUME NEW S \in SUBSET Nat, S # {}
    PROVE  Min(S) \in S /\ \A x \in S : Min(S) =< x
<1>1. PICK x \in S : \A y \in S : ~ (<<y, x>> \in OpToRel(<, Nat))
  BY NatLessThanWellFounded, WFMin
<1>2. \A y \in S : ~ (y < x)
  BY <1>1 DEF OpToRel
<1>3. \A y \in S : x =< y
  BY <1>2
<1> QED
  BY <1>3 DEF Min

LEMMA GreatestPlace ==
    ASSUME NEW n \in Nat, NEW S \in SUBSET (1 .. n), S # {}
    PROVE  Max(S) \in S /\ \A x \in S : x =< Max(S)
<1> DEFINE T == {m \in Nat : n - m \in S}
<1>1. T # {}
  <2>1. PICK x \in S : TRUE
    OBVIOUS
  <2>2. n - x \in Nat /\ n - (n - x) = x
    BY <2>1
  <2> QED
    BY <2>1, <2>2
<1>2. Min(T) \in T /\ \A y \in T : Min(T) =< y
  <2>1. T \in SUBSET Nat
    OBVIOUS
  <2> HIDE DEF T
  <2> QED
    BY <1>1, <2>1, LeastPlace
<1>3. PICK m \in T : \A y \in T : m =< y
  BY <1>2
<1>4. \A x \in S : n - m >= x
  <2> TAKE x \in S
  <2>1. n - x \in Nat /\ n - (n - x) = x
    OBVIOUS
  <2>2. n - x \in T
    BY <2>1
  <2>3. m =< n - x /\ m \in Nat /\ x \in 1 .. n
    BY <1>3, <2>2
  <2> HIDE DEF T
  <2> QED
    BY <2>3
<1>5. n - m \in S /\ \A x \in S : n - m >= x
  BY <1>4
<1> HIDE DEF T
<1> QED
  BY <1>5 DEF Max

-----------------------------------------------------------------------------
LEMMA AfterSlashHasNone ==
    ASSUME NEW f \in Seq(Chars)
    PROVE  /\ AfterSlash(f) \in Seq(Chars)
           /\ \A k \in 1 .. Len(AfterSlash(f)) : AfterSlash(f)[k] # Slash
<1> DEFINE I == {k \in 1 .. Len(f) : f[k] = Slash}
           p == IF I # {} THEN Max(I) ELSE 0
<1>1. AfterSlash(f) = SubSeq(f, p + 1, Len(f))
  BY DEF AfterSlash, SelectLastInSeq
<1>2. Len(f) \in Nat
  OBVIOUS
<1>3. p \in 0 .. Len(f) /\ \A k \in 1 .. Len(f) : k > p => f[k] # Slash
  <2>1. I \in SUBSET (1 .. Len(f))
    OBVIOUS
  <2>2. CASE I # {}
    <3>1. Max(I) \in I /\ \A x \in I : x =< Max(I)
      BY <1>2, <2>1, <2>2, GreatestPlace
    <3>2. PICK m \in 1 .. Len(f) : m = Max(I)
      BY <3>1
    <3>3. \A k \in 1 .. Len(f) : k > m => k \notin I
      BY <3>1, <3>2
    <3>4. p = m
      BY <2>2, <3>2
    <3> HIDE DEF p
    <3> QED
      BY <3>3, <3>4
  <2>3. CASE I = {}
    BY <1>2, <2>3
  <2> QED
    BY <2>2, <2>3
<1> HIDE DEF p
<1>4. \A k \in p + 1 .. Len(f) : f[k] \in Chars
  BY <1>3
<1>5. /\ AfterSlash(f) \in Seq(Chars)
      /\ Len(AfterSlash(f)) = IF p + 1 =< Len(f) THEN Len(f) - (p + 1) + 1 ELSE 0
      /\ \A k \in 1 .. Len(f) - (p + 1) + 1 : AfterSlash(f)[k] = f[(p + 1) + k - 1]
  BY <1>1, <1>2, <1>3, <1>4, SubSeqProperties
<1>6. ASSUME NEW k \in 1 .. Len(AfterSlash(f)) PROVE AfterSlash(f)[k] # Slash
  <2>1. p + 1 =< Len(f)
    BY <1>2, <1>3, <1>5
  <2>2. k \in 1 .. Len(f) - (p + 1) + 1 /\ (p + 1) + k - 1 \in 1 .. Len(f)
        /\ (p + 1) + k - 1 > p
    BY <1>2, <1>3, <1>5, <2>1
  <2> QED
    BY <1>3, <1>5, <2>2
<1> QED
  BY <1>5, <1>6

LEMMA NoSlashNoCut ==
    ASSUME NEW C, NEW f \in Seq(C), \A k \in 1 .. Len(f) : f[k] # Slash
    PROVE  AfterSlash(f) = f
<1>1. {k \in 1 .. Len(f) : f[k] = Slash} = {}
  OBVIOUS
<1>2. AfterSlash(f) = SubSeq(f, 0 + 1, Len(f))
  BY <1>1 DEF AfterSlash, SelectLastInSeq
<1> QED
  BY <1>2, SubSeqFull

\* The last dot.
LEMMA DotPlace ==
    ASSUME NEW C, NEW s \in Seq(C)
    PROVE  /\ DotOf(s) \in 0 .. Len(s)
           /\ DotOf(s) # 0 => s[DotOf(s)] = Dot
           /\ \A k \in 1 .. Len(s) : k > DotOf(s) => s[k] # Dot
<1> DEFINE I == {k \in 1 .. Len(s) : s[k] = Dot}
<1>1. DotOf(s) = IF I # {} THEN Max(I) ELSE 0
  BY DEF DotOf, SelectLastInSeq
<1>2. Len(s) \in Nat /\ I \in SUBSET (1 .. Len(s))
  OBVIOUS
<1>3. CASE I # {}
  <2>1. Max(I) \in I /\ \A x \in I : x =< Max(I)
    BY <1>2, <1>3, GreatestPlace
  <2>2. PICK m \in 1 .. Len(s) : m = Max(I)
    BY <2>1
  <2>3. \A k \in 1 .. Len(s) : k > m => k \notin I
    BY <2>1, <2>2
  <2>4. DotOf(s) = m /\ s[m] = Dot
    BY <1>1, <1>3, <2>1, <2>2
  <2> QED
    BY <1>2, <2>3, <2>4
<1>4. CASE I = {}
  BY <1>1, <1>2, <1>4
<1> QED
  BY <1>3, <1>4

LEMMA DotIs ==
    ASSUME NEW C, NEW s \in Seq(C), NEW p \in 0 .. Len(s), p # 0 => s[p] = Dot,
           \A k \in 1 .. Len(s) : k > p => s[k] # Dot
    PROVE  DotOf(s) = p
<1>1. /\ DotOf(s) \in 0 .. Len(s)
      /\ DotOf(s) # 0 => s[DotOf(s)] = Dot
      /\ \A k \in 1 .. Len(s) : k > DotOf(s) => s[k] # Dot
  BY DotPlace
<1>2. ~ (DotOf(s) > p)
  BY <1>1
<1>3. ~ (p > DotOf(s))
  BY <1>1
<1> QED
  BY <1>1, <1>2, <1>3

\* The part of a field before its first blank.
LEMMA Trimmed ==
    ASSUME NEW C, NEW n \in Nat, NEW field \in [1 .. n -> C]
    PROVE  LET u == UpToBlank(field)
           IN  /\ u \in Seq(C) /\ Len(u) \in 0 .. n
               /\ \A k \in 1 .. Len(u) : u[k] = field[k] /\ u[k] # Blank
               /\ Len(u) < n => field[Len(u) + 1] = Blank
<1> DEFINE I == {k \in 1 .. Len(field) : field[k] = Blank}
           b == IF I # {} THEN Min(I) ELSE 0
           u == UpToBlank(field)
<1>1. u = IF b = 0 THEN field ELSE SubSeq(field, 1, b - 1)
  BY DEF UpToBlank, SelectInSeq
<1>2. field \in Seq(C) /\ Len(field) = n
  OBVIOUS
<1>3. CASE I # {}
  <2>1. I \in SUBSET Nat /\ I \in SUBSET (1 .. n)
    BY <1>2
  <2>2. Min(I) \in I /\ \A x \in I : Min(I) =< x
    BY <1>3, <2>1, LeastPlace
  <2>3. b \in 1 .. n /\ field[b] = Blank /\ \A k \in 1 .. n : k < b => field[k] # Blank
    <3>1. b = Min(I)
      BY <1>3
    <3>2. PICK m \in 1 .. n : m = Min(I)
      BY <2>1, <2>2
    <3>3. \A x \in 1 .. n : x < m => x \notin I
      BY <2>2, <3>2
    <3> QED
      BY <1>2, <2>2, <3>1, <3>2, <3>3
  <2> HIDE DEF b
  <2>4. u = SubSeq(field, 1, b - 1)
    BY <1>1, <2>3
  <2>5. \A k \in 1 .. b - 1 : field[k] \in C
    BY <2>3
  <2>6. /\ u \in Seq(C)
        /\ Len(u) = IF 1 =< b - 1 THEN (b - 1) - 1 + 1 ELSE 0
        /\ \A k \in 1 .. (b - 1) - 1 + 1 : u[k] = field[1 + k - 1]
    BY <2>3, <2>4, <2>5, SubSeqProperties
  <2> HIDE DEF u
  <2>7. Len(u) = b - 1
    BY <2>3, <2>6
  <2>8. \A k \in 1 .. Len(u) : u[k] = field[k] /\ k \in 1 .. n /\ k < b
    BY <2>3, <2>6, <2>7
  <2>9. field[Len(u) + 1] = Blank /\ Len(u) \in 0 .. n
    BY <2>3, <2>7
  <2> QED
    BY <2>3, <2>6, <2>8, <2>9 DEF u
<1>4. CASE I = {}
  <2>1. u = field
    BY <1>1, <1>4
  <2> QED
    BY <1>2, <1>4, <2>1
<1> QED
  BY <1>3, <1>4

LEMMA Padded ==
    ASSUME NEW C, NEW n \in Nat, NEW field \in [1 .. n -> C], ~ InnerBlank(field)
    PROVE  field = Field(UpToBlank(field), n)
<1> DEFINE u == UpToBlank(field)
<1>1. /\ Len(u) \in 0 .. n /\ \A k \in 1 .. Len(u) : u[k] = field[k]
      /\ Len(u) < n => field[Len(u) + 1] = Blank
  BY Trimmed
<1> HIDE DEF u
<1>2. ASSUME NEW k \in 1 .. n
      PROVE  field[k] = IF k <= Len(u) THEN u[k] ELSE Blank
  <2>1. CASE k <= Len(u)
    BY <1>1, <2>1
  <2>2. CASE k = Len(u) + 1
    BY <1>1, <2>2
  <2>3. CASE k > Len(u) + 1
    <3>1. Len(u) + 1 \in DOMAIN field /\ k \in DOMAIN field /\ field[Len(u) + 1] = Blank
      BY <1>1, <2>3
    <3> QED
      BY <1>1, <2>3, <3>1 DEF InnerBlank
  <2> QED
    BY <1>1, <2>1, <2>2, <2>3
<1> QED
  BY <1>2 DEF Field, u

-----------------------------------------------------------------------------
\* The type that an extension stands for, read from the whole field.
FieldType(ext) ==
    LET up == [k \in 1 .. TO_EXT_LENGTH |-> Upper[ext[k]]]
    IN IF up \in Tags THEN up ELSE NoType

PathChars == Chars \ {Slash}
ExtChars  == Chars \ {Slash, Dot}

EntryType == [name : [1 .. TO_NAME_LENGTH -> PathChars \cup {NUL}],
              ext  : [1 .. TO_EXT_LENGTH -> ExtChars],
              type : Tags \cup {NoType}]

LEMMA Lengths ==
    /\ TO_NAME_LENGTH \in Nat /\ TO_NAME_LENGTH > 0
    /\ TO_EXT_LENGTH \in Nat /\ TO_EXT_LENGTH > 0
    /\ ShortMax \in Nat /\ NSlots \in Nat
    /\ TO_NAME_LENGTH + 1 + TO_EXT_LENGTH <= ShortMax
    /\ Blank \in PathChars /\ Blank \in ExtChars /\ FREE \in PathChars /\ FREE \in ExtChars
    /\ Dot \in PathChars
<1>1. \A k \in {TO_NAME_LENGTH, TO_EXT_LENGTH, ShortMax, NSlots} : k \in Nat \ {0}
  BY SapNamesAssumption
<1>2. Blank \in Chars /\ Dot \in Chars /\ FREE \in Chars
  BY SapNamesAssumption
<1>3. /\ Blank # Slash /\ Blank # Dot /\ FREE # Slash /\ FREE # Dot /\ Dot # Slash
  BY DEF Blank, FREE, Slash, Dot
<1>4. TO_NAME_LENGTH + 1 + TO_EXT_LENGTH <= ShortMax
  BY SapNamesAssumption
<1> QED
  BY <1>1, <1>2, <1>3, <1>4 DEF PathChars, ExtChars

LEMMA FieldIn ==
    ASSUME NEW C, Blank \in C, NEW x \in Seq(C), NEW n \in Nat
    PROVE  Field(x, n) \in [1 .. n -> C]
BY DEF Field

LEMMA PartIn ==
    ASSUME NEW C, NEW x \in Seq(C), NEW a \in Nat \ {0}, NEW b \in 0 .. Len(x)
    PROVE  /\ SubSeq(x, a, b) \in Seq(C)
           /\ Len(SubSeq(x, a, b)) = IF a =< b THEN b - a + 1 ELSE 0
           /\ \A k \in 1 .. b - a + 1 : SubSeq(x, a, b)[k] = x[a + k - 1]
<1>1. \A k \in a .. b : x[k] \in C
  OBVIOUS
<1> QED
  BY <1>1, SubSeqProperties

\* A blank is never part of a standard extension, and none is shorter.
LEMMA TypeOfExt ==
    ASSUME NEW x \in Seq(ExtChars), Len(x) =< TO_EXT_LENGTH
    PROVE  ext_type(x) = FieldType(Field(x, TO_EXT_LENGTH))
<1> DEFINE n == TO_EXT_LENGTH
           up == [k \in 1 .. Len(x) |-> Upper[x[k]]]
           all == [k \in 1 .. n |-> Upper[Field(x, n)[k]]]
<1>1. n \in Nat /\ Len(x) \in Nat
  BY Lengths
<1>2. ext_type(x) = IF up \in Tags THEN up ELSE NoType
  BY DEF ext_type
<1>3. FieldType(Field(x, n)) = IF all \in Tags THEN all ELSE NoType
  BY DEF FieldType
<1>4. CASE Len(x) = n
  <2>1. up = all
    BY <1>4 DEF Field
  <2> HIDE DEF up, all
  <2> QED
    BY <1>2, <1>3, <2>1
<1>5. CASE Len(x) < n
  <2>1. up \notin Tags
    <3>1. DOMAIN up = 1 .. Len(x) /\ n \in 1 .. n /\ n \notin 1 .. Len(x)
      BY <1>1, <1>5, Lengths
    <3>2. \A t \in Tags : DOMAIN t = 1 .. n
      BY SapNamesAssumption
    <3> HIDE DEF up
    <3> QED
      BY <3>1, <3>2
  <2>2. all \notin Tags
    <3>1. n \in 1 .. n /\ Field(x, n)[n] = Blank
      BY <1>1, <1>5, Lengths DEF Field
    <3>2. all[n] = Blank
      BY <3>1, SapNamesAssumption
    <3>3. \A t \in Tags : t[n] # Blank
      BY <3>1, SapNamesAssumption
    <3> HIDE DEF all
    <3> QED
      BY <3>2, <3>3
  <2> QED
    BY <1>2, <1>3, <2>1, <2>2
<1> QED
  BY <1>1, <1>4, <1>5

LEMMA Decoded ==
    ASSUME NEW f \in Seq(Chars)
    PROVE  /\ decode_filename(f) \in EntryType
           /\ decode_filename(f).type = FieldType(decode_filename(f).ext)
<1> DEFINE s    == shortname(f)
           dot  == DotOf(s)
           name == IF dot = 0 THEN s ELSE SubSeq(s, 1, dot - 1)
           after == IF dot = 0 THEN <<>> ELSE SubSeq(s, dot + 1, Len(s))
           ext  == IF Len(after) > TO_EXT_LENGTH THEN SubSeq(after, 1, TO_EXT_LENGTH) ELSE after
<1>1. s \in Seq(PathChars)
  <2>1. AfterSlash(f) \in Seq(PathChars)
    BY AfterSlashHasNone DEF PathChars
  <2>2. CASE Len(AfterSlash(f)) > ShortMax
    <3>1. ShortMax \in 0 .. Len(AfterSlash(f))
      BY <2>1, <2>2, Lengths
    <3> QED
      BY <2>1, <2>2, <3>1, PartIn DEF shortname
  <2> QED
    BY <2>1, <2>2 DEF shortname
<1> HIDE DEF s
<1>2. /\ dot \in 0 .. Len(s) /\ Len(s) \in Nat
      /\ \A k \in 1 .. Len(s) : k > dot => s[k] # Dot
  BY <1>1, DotPlace
<1> HIDE DEF dot
<1>3. name \in Seq(PathChars)
  <2>1. dot # 0 => dot - 1 \in 0 .. Len(s)
    BY <1>2
  <2> QED
    BY <1>1, <2>1, PartIn
<1>4. after \in Seq(ExtChars)
  <2>1. CASE dot = 0
    BY <2>1
  <2>2. CASE dot # 0
    <3>1. dot + 1 \in Nat \ {0} /\ Len(s) \in 0 .. Len(s) /\ dot + 1 \in Int /\ Len(s) \in Int
      BY <1>2
    <3>2. \A k \in dot + 1 .. Len(s) : s[k] \in ExtChars
      <4> TAKE k \in dot + 1 .. Len(s)
      <4>1. k \in 1 .. Len(s) /\ k > dot
        BY <1>2
      <4> QED
        BY <1>1, <1>2, <4>1 DEF PathChars, ExtChars
    <3>3. SubSeq(s, dot + 1, Len(s)) \in Seq(ExtChars)
      BY <3>1, <3>2, SubSeqProperties
    <3> QED
      BY <2>2, <3>3
  <2> QED
    BY <2>1, <2>2
<1> HIDE DEF after
<1>5. ext \in Seq(ExtChars) /\ Len(ext) =< TO_EXT_LENGTH
  <2>1. CASE Len(after) > TO_EXT_LENGTH
    <3>1. TO_EXT_LENGTH \in 0 .. Len(after) /\ TO_EXT_LENGTH - 1 + 1 = TO_EXT_LENGTH
          /\ 1 =< TO_EXT_LENGTH
      BY <1>4, <2>1, Lengths
    <3>2. ext = SubSeq(after, 1, TO_EXT_LENGTH)
      BY <2>1
    <3> HIDE DEF ext
    <3> QED
      BY <1>4, <3>1, <3>2, PartIn
  <2>2. CASE ~(Len(after) > TO_EXT_LENGTH)
    BY <1>4, <2>2, Lengths
  <2> QED
    BY <2>1, <2>2
<1>6. decode_filename(f) = [name |-> Field(name, TO_NAME_LENGTH),
                            ext  |-> Field(ext, TO_EXT_LENGTH), type |-> ext_type(ext)]
  BY DEF decode_filename, s, dot, after
<1> HIDE DEF name, ext
<1>7. Field(name, TO_NAME_LENGTH) \in [1 .. TO_NAME_LENGTH -> PathChars \cup {NUL}]
  <2>1. Field(name, TO_NAME_LENGTH) \in [1 .. TO_NAME_LENGTH -> PathChars]
    BY <1>3, FieldIn, Lengths
  <2> QED
    BY <2>1
<1>8. Field(ext, TO_EXT_LENGTH) \in [1 .. TO_EXT_LENGTH -> ExtChars]
  BY <1>5, FieldIn, Lengths
<1>9. ext_type(ext) = FieldType(Field(ext, TO_EXT_LENGTH))
  BY <1>5, TypeOfExt
<1>10. FieldType(Field(ext, TO_EXT_LENGTH)) \in Tags \cup {NoType}
  BY DEF FieldType
<1> QED
  BY <1>6, <1>7, <1>8, <1>9, <1>10 DEF EntryType

-----------------------------------------------------------------------------
\* The listed name: the name alone, or the name, a dot and the extension.
LEMMA Listed ==
    ASSUME NEW e \in EntryType
    PROVE  LET n == UpToBlank(e.name)
               x == UpToBlank(e.ext)
               g == get_filename(e)
           IN  /\ g \in Seq(PathChars \cup {NUL})
               /\ Len(x) = 0 => g = n
               /\ Len(x) # 0 =>
                    /\ Len(g) = Len(n) + 1 + Len(x)
                    /\ \A k \in 1 .. Len(n) : g[k] = n[k]
                    /\ g[Len(n) + 1] = Dot
                    /\ \A k \in 1 .. Len(x) : g[Len(n) + 1 + k] = x[k]
<1> DEFINE C == PathChars \cup {NUL}
           n == UpToBlank(e.name)
           x == UpToBlank(e.ext)
           full == n \o <<Dot>> \o x
           g == get_filename(e)
<1>1. n \in Seq(C)
  BY Lengths, Trimmed DEF EntryType
<1>2. x \in Seq(ExtChars)
  BY Lengths, Trimmed DEF EntryType
<1>3. ExtChars \subseteq C /\ Dot \in C
  BY Lengths DEF ExtChars, PathChars
<1>4. g = IF full[Len(full)] = Dot THEN SubSeq(full, 1, Len(full) - 1) ELSE full
  BY DEF get_filename, Last, Front
<1> HIDE DEF n, x, g, C
<1>5. /\ full \in Seq(C)
      /\ Len(full) = Len(n) + 1 + Len(x)
      /\ \A k \in 1 .. Len(n) : full[k] = n[k]
      /\ full[Len(n) + 1] = Dot
      /\ \A k \in 1 .. Len(x) : full[Len(n) + 1 + k] = x[k]
  BY <1>1, <1>2, <1>3
<1> HIDE DEF full
<1>6. Len(n) \in Nat /\ Len(x) \in Nat
  BY <1>1, <1>2
<1>7. CASE Len(x) = 0
  <2>1. g = SubSeq(full, 1, Len(n))
    BY <1>4, <1>5, <1>6, <1>7
  <2>2. /\ g \in Seq(C) /\ Len(g) = Len(n)
        /\ \A k \in 1 .. Len(n) : g[k] = full[k]
    <3>1. 1 \in Nat \ {0} /\ Len(n) \in 0 .. Len(full) /\ Len(n) - 1 + 1 = Len(n)
      BY <1>5, <1>6, <1>7
    <3>2. /\ SubSeq(full, 1, Len(n)) \in Seq(C)
          /\ Len(SubSeq(full, 1, Len(n))) = IF 1 =< Len(n) THEN Len(n) - 1 + 1 ELSE 0
          /\ \A k \in 1 .. Len(n) - 1 + 1 : SubSeq(full, 1, Len(n))[k] = full[1 + k - 1]
      BY <1>5, <3>1, PartIn
    <3>3. Len(SubSeq(full, 1, Len(n))) = Len(n)
      BY <1>6, <3>2
    <3>4. \A k \in 1 .. Len(n) : SubSeq(full, 1, Len(n))[k] = full[k]
      BY <1>6, <3>2
    <3> QED
      BY <2>1, <3>2, <3>3, <3>4
  <2>3. g = n
    BY <1>1, <1>5, <2>2
  <2> QED
    BY <1>7, <2>2, <2>3 DEF n, x, g, C
<1>8. CASE Len(x) # 0
  <2>1. full[Len(full)] # Dot
    <3>1. Len(full) = Len(n) + 1 + Len(x) /\ Len(x) \in 1 .. Len(x)
      BY <1>5, <1>6, <1>8
    <3>2. full[Len(full)] = x[Len(x)] /\ x[Len(x)] \in ExtChars
      BY <1>2, <1>5, <3>1
    <3> QED
      BY <3>2 DEF ExtChars
  <2>2. g = full
    BY <1>4, <2>1
  <2> QED
    BY <1>5, <1>8, <2>2 DEF n, x, g, C
<1> QED
  BY <1>7, <1>8

\* A regular entry is what its listed name decodes to.
LEMMA RoundTrip ==
    ASSUME NEW e \in EntryType, ~ Irregular(e), e.type = FieldType(e.ext)
    PROVE  decode_filename(get_filename(e)) = e
<1> DEFINE C == PathChars \cup {NUL}
           n == UpToBlank(e.name)
           x == UpToBlank(e.ext)
           g == get_filename(e)
<1>1. /\ n \in Seq(C) /\ Len(n) \in 0 .. TO_NAME_LENGTH
      /\ \A k \in 1 .. Len(n) : n[k] = e.name[k]
  <2>1. TO_NAME_LENGTH \in Nat /\ e.name \in [1 .. TO_NAME_LENGTH -> C]
    BY Lengths DEF EntryType
  <2> HIDE DEF C
  <2> QED
    BY <2>1, Trimmed
<1>2. /\ x \in Seq(ExtChars) /\ Len(x) \in 0 .. TO_EXT_LENGTH
      /\ Len(x) < TO_EXT_LENGTH => e.ext[Len(x) + 1] = Blank
  <2>1. TO_EXT_LENGTH \in Nat /\ e.ext \in [1 .. TO_EXT_LENGTH -> ExtChars]
    BY Lengths DEF EntryType
  <2> QED
    BY <2>1, Trimmed
<1>3. e.name = Field(n, TO_NAME_LENGTH)
  BY Lengths, Padded DEF EntryType, Irregular
<1>4. e.ext = Field(x, TO_EXT_LENGTH)
  BY Lengths, Padded DEF EntryType, Irregular
<1>5. /\ g \in Seq(C)
      /\ Len(x) = 0 => g = n
      /\ Len(x) # 0 =>
           /\ Len(g) = Len(n) + 1 + Len(x)
           /\ \A k \in 1 .. Len(n) : g[k] = n[k]
           /\ g[Len(n) + 1] = Dot
           /\ \A k \in 1 .. Len(x) : g[Len(n) + 1 + k] = x[k]
  BY Listed
<1>6. Len(x) = 0 => \A k \in 1 .. Len(n) : n[k] # Dot
  <2> SUFFICES ASSUME Len(x) = 0, NEW k \in 1 .. Len(n), n[k] = Dot PROVE FALSE
    OBVIOUS
  <2>1. e.ext[1] = Blank
    BY <1>2, Lengths
  <2>2. e.name \in Seq(C) /\ Len(e.name) = TO_NAME_LENGTH
    BY Lengths DEF EntryType
  <2>3. k \in 1 .. Len(e.name) /\ e.name[k] = Dot
    BY <1>1, <2>2
  <2> QED
    BY <2>1, <2>3 DEF Irregular, Contains
<1> HIDE DEF n, x, g
<1>7. Slash \notin C /\ Len(n) \in Nat /\ Len(x) \in Nat /\ Len(g) \in Nat
  BY <1>1, <1>2, <1>5, SapNamesAssumption DEF PathChars
<1>8. shortname(g) = g
  <2>1. AfterSlash(g) = g
    BY <1>5, <1>7, NoSlashNoCut
  <2>2. ~ (Len(g) > ShortMax)
    BY <1>1, <1>2, <1>5, <1>7, Lengths
  <2> QED
    BY <2>1, <2>2 DEF shortname
<1>9. ext_type(x) = e.type
  <2>1. Len(x) =< TO_EXT_LENGTH
    BY <1>2, Lengths
  <2> QED
    BY <1>2, <1>4, <2>1, TypeOfExt
<1>10. CASE Len(x) = 0
  <2>1. DotOf(g) = 0
    <3>1. 0 \in 0 .. Len(g)
      BY <1>7
    <3> QED
      BY <1>5, <1>6, <1>10, <3>1, DotIs
  <2>2. x = <<>>
    BY <1>2, <1>10
  <2>3. decode_filename(g) = [name |-> Field(g, TO_NAME_LENGTH),
                              ext |-> Field(<<>>, TO_EXT_LENGTH), type |-> ext_type(<<>>)]
    <3>1. ~ (Len(<<>>) > TO_EXT_LENGTH)
      BY Lengths
    <3> QED
      BY <1>8, <2>1, <3>1 DEF decode_filename
  <2>4. decode_filename(g) = [name |-> e.name, ext |-> e.ext, type |-> e.type]
    BY <1>3, <1>4, <1>5, <1>9, <1>10, <2>2, <2>3
  <2> QED
    BY <2>4 DEF EntryType, g
<1>11. CASE Len(x) # 0
  <2> DEFINE p == Len(n) + 1
  <2>0. p \in Nat /\ p \in 1 .. Len(g) /\ Len(g) = p + Len(x)
    BY <1>5, <1>7, <1>11
  <2>1. DotOf(g) = p
    <3>1. \A k \in 1 .. Len(g) : k > p => g[k] # Dot
      <4> TAKE k \in 1 .. Len(g)
      <4> HAVE k > p
      <4>1. k - p \in 1 .. Len(x) /\ p + (k - p) = k
        BY <2>0, <1>7
      <4>2. g[k] = x[k - p] /\ x[k - p] \in ExtChars
        BY <1>2, <1>5, <1>11, <4>1
      <4> QED
        BY <4>2 DEF ExtChars
    <3>2. p \in 0 .. Len(g) /\ g[p] = Dot
      BY <1>5, <1>11, <2>0
    <3> HIDE DEF p
    <3> QED
      BY <1>5, <3>1, <3>2, DotIs
  <2>2. SubSeq(g, 1, p - 1) = n
    <3>1. Len(n) \in 0 .. Len(g) /\ p - 1 = Len(n) /\ Len(n) - 1 + 1 = Len(n)
      BY <1>7, <2>0
    <3>2. /\ SubSeq(g, 1, Len(n)) \in Seq(C)
          /\ Len(SubSeq(g, 1, Len(n))) = IF 1 =< Len(n) THEN Len(n) - 1 + 1 ELSE 0
          /\ \A k \in 1 .. Len(n) - 1 + 1 : SubSeq(g, 1, Len(n))[k] = g[1 + k - 1]
      BY <1>5, <3>1, PartIn
    <3>3. Len(SubSeq(g, 1, Len(n))) = Len(n)
      BY <1>7, <3>2
    <3>4. \A k \in 1 .. Len(n) : SubSeq(g, 1, Len(n))[k] = n[k]
      BY <1>5, <1>7, <1>11, <3>2
    <3> QED
      BY <1>1, <3>1, <3>2, <3>3, <3>4
  <2>3. SubSeq(g, p + 1, Len(g)) = x
    <3>1. p + 1 \in Nat \ {0} /\ Len(g) \in 0 .. Len(g) /\ Len(g) - (p + 1) + 1 = Len(x)
          /\ p + 1 =< Len(g)
      BY <1>7, <1>11, <2>0
    <3>2. /\ SubSeq(g, p + 1, Len(g)) \in Seq(C)
          /\ Len(SubSeq(g, p + 1, Len(g)))
               = IF p + 1 =< Len(g) THEN Len(g) - (p + 1) + 1 ELSE 0
          /\ \A k \in 1 .. Len(g) - (p + 1) + 1 :
               SubSeq(g, p + 1, Len(g))[k] = g[(p + 1) + k - 1]
      BY <1>5, <3>1, PartIn
    <3>3. Len(SubSeq(g, p + 1, Len(g))) = Len(x)
      BY <3>1, <3>2
    <3>4. \A k \in 1 .. Len(x) : SubSeq(g, p + 1, Len(g))[k] = x[k]
      <4> TAKE k \in 1 .. Len(x)
      <4>1. (p + 1) + k - 1 = p + k
        BY <2>0, <1>7
      <4> QED
        BY <1>5, <1>11, <3>1, <3>2, <4>1
    <3>5. x \in Seq(C)
      BY <1>2, Lengths DEF ExtChars, PathChars
    <3> QED
      BY SMTT(30), <3>2, <3>3, <3>4, <3>5
  <2>4. DotOf(g) # 0 /\ ~ (Len(x) > TO_EXT_LENGTH)
    BY <1>2, <2>0, <2>1, Lengths
  <2> HIDE DEF p
  <2>5. decode_filename(g) = [name |-> Field(n, TO_NAME_LENGTH),
                              ext |-> Field(x, TO_EXT_LENGTH), type |-> ext_type(x)]
    BY <1>8, <2>1, <2>2, <2>3, <2>4 DEF decode_filename
  <2> QED
    BY <1>3, <1>4, <1>9, <2>5 DEF EntryType, g
<1> QED
  BY <1>7, <1>10, <1>11

-----------------------------------------------------------------------------
\* The entries have the bytes that decode_filename writes, the type of a file is
\* that of its extension, and no two files have the same bytes.
NamesInv ==
    /\ slots \in [Slots -> EntryType]
    /\ \A k \in Files : slots[k].type = FieldType(slots[k].ext)
    /\ OneEntryPerName

LEMMA InitNames == NamesInit => NamesInv
<1> SUFFICES ASSUME NamesInit PROVE NamesInv
  OBVIOUS
<1>1. slots = [k \in Slots |-> Unused]
  BY DEF NamesInit
<1>2. Unused \in EntryType
  <2>1. [k \in 1 .. TO_NAME_LENGTH |-> FREE] \in [1 .. TO_NAME_LENGTH -> PathChars \cup {NUL}]
    BY Lengths
  <2>2. [k \in 1 .. TO_EXT_LENGTH |-> FREE] \in [1 .. TO_EXT_LENGTH -> ExtChars]
    BY Lengths
  <2> QED
    BY <2>1, <2>2 DEF Unused, EntryType
<1>3. Unused.name[1] = FREE
  BY Lengths DEF Unused
<1>4. Files = {}
  BY <1>1, <1>3 DEF Files, IsFile
<1> QED
  BY <1>1, <1>2, <1>4 DEF NamesInv, OneEntryPerName

\* The first of some slots, and 0 when there is none.
LEMMA FirstSlot ==
    ASSUME NEW I \in SUBSET Slots
    PROVE  /\ I # {} => Min(I) \in I /\ \A k \in I : Min(I) =< k
           /\ 0 \notin Slots
BY Lengths, LeastPlace DEF Slots

\* The entry that AddName fills.
LEMMA PlaceOfName ==
    ASSUME NEW d, slots \in [Slots -> EntryType]
    PROVE  /\ prev_n(d) # 0 => prev_n(d) \in Slots /\ SameBytes(slots[prev_n(d)], d)
           /\ prev_n(d) = 0 => \A k \in Slots : ~ SameBytes(slots[k], d)
           /\ free_n # 0 => free_n \in Slots
<1> DEFINE I == {k \in 1 .. Len(slots) : SameBytes(slots[k], d)}
           F == {k \in 1 .. Len(slots) : ~ IsFile(slots[k])}
<1>1. prev_n(d) = IF I # {} THEN Min(I) ELSE 0
  BY DEF prev_n, SelectInSeq
<1>2. free_n = IF F # {} THEN Min(F) ELSE 0
  BY DEF free_n, SelectInSeq
<1>3. 1 .. Len(slots) = Slots
  BY Lengths DEF Slots
<1>4. I \in SUBSET Slots /\ F \in SUBSET Slots
  BY <1>3
<1>5. /\ I # {} => Min(I) \in I
      /\ F # {} => Min(F) \in F
      /\ 0 \notin Slots
  BY <1>4, FirstSlot
<1> QED
  BY <1>1, <1>2, <1>3, <1>4, <1>5

\* The entry that seek_file finds is the first with the listed name.
LEMMA PlaceOfListed ==
    ASSUME NEW f, slots \in [Slots -> EntryType]
    PROVE  /\ seek_file(f) # 0 =>
                /\ seek_file(f) \in Files /\ get_filename(slots[seek_file(f)]) = f
           /\ \A k \in Files : get_filename(slots[k]) = f => seek_file(f) # 0
<1> DEFINE I == {k \in 1 .. Len(slots) : IsFile(slots[k]) /\ get_filename(slots[k]) = f}
<1>1. seek_file(f) = IF I # {} THEN Min(I) ELSE 0
  BY DEF seek_file, SelectInSeq
<1>2. 1 .. Len(slots) = Slots
  BY Lengths DEF Slots
<1>3. I \in SUBSET Slots
  BY <1>2
<1>4. (I # {} => Min(I) \in I) /\ 0 \notin Slots
  BY <1>3, FirstSlot
<1> QED
  BY <1>1, <1>2, <1>3, <1>4 DEF Files

LEMMA AddKeepsNames ==
    ASSUME NamesInv, NEW f \in Typed, AddName(f)
    PROVE  NamesInv'
<1> DEFINE d  == decode_filename(f)
           at == IF prev_n(d) # 0 THEN prev_n(d) ELSE free_n
<1>1. d \in EntryType /\ d.type = FieldType(d.ext)
  BY SapNamesAssumption, Decoded
<1>2. slots \in [Slots -> EntryType]
  BY DEF NamesInv
<1>3. slots' = IF at = 0 THEN slots ELSE [slots EXCEPT ![at] = d]
  BY DEF AddName
<1> HIDE DEF d
<1>4. /\ prev_n(d) # 0 => prev_n(d) \in Slots /\ SameBytes(slots[prev_n(d)], d)
      /\ prev_n(d) = 0 => \A k \in Slots : ~ SameBytes(slots[k], d)
      /\ free_n # 0 => free_n \in Slots
  BY <1>2, PlaceOfName
<1>5. CASE at = 0
  BY <1>3, <1>5 DEF NamesInv, OneEntryPerName, Files
<1>6. CASE at # 0
  <2>1. at \in Slots
    BY <1>4, <1>6
  <2>2. \A j \in Slots : j # at => ~ SameBytes(slots[j], d)
    <3>1. CASE prev_n(d) # 0
      <4>1. at = prev_n(d) /\ at \in Files
        BY <1>4, <3>1 DEF Files, SameBytes
      <4> HIDE DEF at
      <4>2. ASSUME NEW j \in Slots, j # at, SameBytes(slots[j], d) PROVE FALSE
        <5>1. SameBytes(slots[j], slots[at]) /\ j \in Files
          BY <1>4, <3>1, <4>1, <4>2 DEF SameBytes, Files
        <5> QED
          BY <4>1, <4>2, <5>1 DEF NamesInv, OneEntryPerName
      <4> QED
        BY <4>2
    <3>2. CASE prev_n(d) = 0
      BY <1>4, <3>2
    <3> QED
      BY <3>1, <3>2
  <2> HIDE DEF at
  <2>3. slots' = [slots EXCEPT ![at] = d]
    BY <1>3, <1>6
  <2>4. slots' \in [Slots -> EntryType]
    BY <1>1, <1>2, <2>1, <2>3
  <2>5. slots'[at] = d /\ \A k \in Slots : k # at => slots'[k] = slots[k]
    BY <1>2, <2>1, <2>3
  <2>6. \A k \in Files' : slots'[k].type = FieldType(slots'[k].ext)
    BY <1>1, <2>5 DEF NamesInv, Files
  <2>7. OneEntryPerName'
    <3> SUFFICES ASSUME NEW j \in Files', NEW k \in Files', SameBytes(slots'[j], slots'[k])
                 PROVE  j = k
      BY DEF OneEntryPerName, SameBytes, IsFile
    <3>1. CASE j # at /\ k # at
      BY <2>5, <3>1 DEF NamesInv, OneEntryPerName, Files
    <3>2. CASE j = at /\ k # at
      <4>1. SameBytes(slots[k], d)
        BY <2>5, <3>2 DEF SameBytes, Files
      <4> QED
        BY <2>2, <3>2, <4>1 DEF Files
    <3>3. CASE j # at /\ k = at
      <4>1. SameBytes(slots[j], d)
        BY <2>5, <3>3 DEF SameBytes, Files
      <4> QED
        BY <2>2, <3>3, <4>1 DEF Files
    <3> QED
      BY <3>1, <3>2, <3>3
  <2> QED
    BY <2>4, <2>6, <2>7 DEF NamesInv
<1> QED
  BY <1>5, <1>6

LEMMA DeleteKeepsNames ==
    ASSUME NamesInv, NEW f, DeleteName(f)
    PROVE  NamesInv'
<1> DEFINE at == seek_file(f)
<1>1. slots \in [Slots -> EntryType]
  BY DEF NamesInv
<1>2. slots' = IF at = 0 THEN slots ELSE [slots EXCEPT ![at].name[1] = NUL]
  BY DEF DeleteName
<1>3. at # 0 => at \in Slots
  BY <1>1, PlaceOfListed DEF Files
<1> HIDE DEF at
<1>4. CASE at = 0
  BY <1>2, <1>4 DEF NamesInv, OneEntryPerName, Files
<1>5. CASE at # 0
  <2> DEFINE e == [slots[at] EXCEPT !.name = [slots[at].name EXCEPT ![1] = NUL]]
  <2>1. slots[at] \in EntryType
    BY <1>1, <1>3, <1>5
  <2>2. e \in EntryType
    <3>1. slots[at].name \in [1 .. TO_NAME_LENGTH -> PathChars \cup {NUL}]
      BY <2>1 DEF EntryType
    <3>2. [slots[at].name EXCEPT ![1] = NUL] \in [1 .. TO_NAME_LENGTH -> PathChars \cup {NUL}]
      BY <3>1
    <3> QED
      BY <2>1, <3>2 DEF EntryType
  <2>3. ~ IsFile(e)
    <3>1. slots[at].name \in [1 .. TO_NAME_LENGTH -> PathChars \cup {NUL}]
      BY <2>1 DEF EntryType
    <3>2. [slots[at].name EXCEPT ![1] = NUL][1] = NUL
      BY <3>1, Lengths
    <3>3. e.name = [slots[at].name EXCEPT ![1] = NUL]
      BY <2>1 DEF EntryType
    <3> QED
      BY <3>2, <3>3 DEF IsFile
  <2>4. slots' = [slots EXCEPT ![at] = e]
    BY <1>2, <1>5
  <2> HIDE DEF e
  <2>5. slots' \in [Slots -> EntryType]
    BY <1>1, <1>3, <1>5, <2>2, <2>4
  <2>6. slots'[at] = e /\ \A k \in Slots : k # at => slots'[k] = slots[k]
    BY <1>1, <1>3, <1>5, <2>4
  <2>7. Files' = Files \ {at} /\ \A k \in Files' : slots'[k] = slots[k]
    BY <2>3, <2>6 DEF Files
  <2> QED
    BY <2>5, <2>7 DEF NamesInv, OneEntryPerName
<1> QED
  BY <1>4, <1>5

LEMMA NextNames ==
    ASSUME NamesInv, [NamesNext]_nvars
    PROVE  NamesInv'
<1>1. ASSUME NEW f \in Typed, AddName(f) PROVE NamesInv'
  BY <1>1, AddKeepsNames
<1>2. ASSUME NEW f, DeleteName(f) PROVE NamesInv'
  BY <1>2, DeleteKeepsNames
<1>3. CASE UNCHANGED nvars
  BY <1>3 DEF NamesInv, OneEntryPerName, Files, nvars
<1> QED
  BY <1>1, <1>2, <1>3 DEF NamesNext

\* Two regular files with the same listed name are one: the listed name decodes
\* to the bytes of both.
LEMMA ReachedAndReadded ==
    ASSUME NamesInv
    PROVE  ListedNameReaches /\ ReaddReplaces
<1>1. slots \in [Slots -> EntryType]
  BY DEF NamesInv
<1>2. ASSUME NEW k \in Files, ~ Irregular(slots[k])
      PROVE  decode_filename(get_filename(slots[k])) = slots[k]
  <2>1. slots[k] \in EntryType /\ slots[k].type = FieldType(slots[k].ext)
    BY <1>1 DEF NamesInv, Files
  <2> QED
    BY <1>2, <2>1, RoundTrip
<1>3. ASSUME NEW k \in Files, NEW found, found = seek_file(get_filename(slots[k])),
             ~ Irregular(slots[k]), ~ Irregular(slots[found])
      PROVE  found = k
  <2>1. found # 0
    BY <1>1, <1>3, PlaceOfListed
  <2>2. found \in Files /\ get_filename(slots[found]) = get_filename(slots[k])
    BY <1>1, <1>3, <2>1, PlaceOfListed
  <2>3. slots[found] = slots[k]
    BY <1>2, <1>3, <2>2
  <2> QED
    BY <2>2, <2>3 DEF NamesInv, OneEntryPerName, SameBytes, Files
<1>4. ReaddReplaces
  BY <1>2 DEF ReaddReplaces
<1>5. ListedNameReaches
  BY <1>3 DEF ListedNameReaches
<1> QED
  BY <1>4, <1>5

LEMMA NamesAlways == NamesSpec => []NamesInv
<1>1. NamesInv /\ [NamesNext]_nvars => NamesInv'
  BY NextNames
<1> QED
  BY InitNames, <1>1, PTL DEF NamesSpec

\* No two files have the same bytes for a name, whatever users added and deleted:
\* sap_AddFile looks for the file to replace behind the free entries too.
THEOREM OneEntry == NamesSpec => []OneEntryPerName
<1>1. NamesInv => OneEntryPerName
  BY DEF NamesInv
<1> QED
  BY NamesAlways, <1>1, PTL

\* The name in the listing of a regular file is one that seek_file finds it by,
\* unless an irregular file stands before it.
THEOREM ListedReaches == NamesSpec => []ListedNameReaches
<1>1. NamesInv => ListedNameReaches
  BY ReachedAndReadded
<1> QED
  BY NamesAlways, <1>1, PTL

\* decode_filename gives the entry of a regular file back from its listed name:
\* its bytes, so that it replaces itself, and the type of its extension.
THEOREM ReaddIsSame == NamesSpec => []ReaddReplaces
<1>1. NamesInv => ReaddReplaces
  BY ReachedAndReadded
<1> QED
  BY NamesAlways, <1>1, PTL
-----------------------------------------------------------------------------
(***************************************************************************)
(* Part 4.  SapSector: the steps of the CRC, bit by bit.                   *)
(***************************************************************************)
\* The bits that the entry of puktable for the four low bits of a word has.
InEntry(i, word) ==
    \/ i \in 0 .. 3 /\ i \in word
    \/ i \in 7 .. 10 /\ i - 7 \in word
    \/ i \in 12 .. 15 /\ i - 12 \in word

\* puktable is linear: each bit of its index puts three bits into the entry.
LEMMA EntryBits ==
    ASSUME NEW word
    PROVE  /\ puktable[Index(word) + 1] \in Register
           /\ \A i \in 0 .. 15 : i \in puktable[Index(word) + 1] <=> InEntry(i, word)
  <1> DEFINE e == puktable[Index(word) + 1]
  <1>1. CASE 0 \notin word /\ 1 \notin word /\ 2 \notin word /\ 3 \notin word
    <2>1. Index(word) + 1 = 1
      BY <1>1 DEF Index
    <2>2. e = {}
      BY <2>1 DEF puktable
    <2> QED
      BY <1>1, <2>2 DEF InEntry, Register
  <1>2. CASE 0 \in word /\ 1 \notin word /\ 2 \notin word /\ 3 \notin word
    <2>1. Index(word) + 1 = 2
      BY <1>2 DEF Index
    <2>2. e = {0, 7, 12}
      BY <2>1 DEF puktable
    <2> QED
      BY <1>2, <2>2 DEF InEntry, Register
  <1>3. CASE 0 \notin word /\ 1 \in word /\ 2 \notin word /\ 3 \notin word
    <2>1. Index(word) + 1 = 3
      BY <1>3 DEF Index
    <2>2. e = {1, 8, 13}
      BY <2>1 DEF puktable
    <2> QED
      BY <1>3, <2>2 DEF InEntry, Register
  <1>4. CASE 0 \in word /\ 1 \in word /\ 2 \notin word /\ 3 \notin word
    <2>1. Index(word) + 1 = 4
      BY <1>4 DEF Index
    <2>2. e = {0, 1, 7, 8, 12, 13}
      BY <2>1 DEF puktable
    <2> QED
      BY <1>4, <2>2 DEF InEntry, Register
  <1>5. CASE 0 \notin word /\ 1 \notin word /\ 2 \in word /\ 3 \notin word
    <2>1. Index(word) + 1 = 5
      BY <1>5 DEF Index
    <2>2. e = {2, 9, 14}
      BY <2>1 DEF puktable
    <2> QED
      BY <1>5, <2>2 DEF InEntry, Register
  <1>6. CASE 0 \in word /\ 1 \notin word /\ 2 \in word /\ 3 \notin word
    <2>1. Index(word) + 1 = 6
      BY <1>6 DEF Index
    <2>2. e = {0, 2, 7, 9, 12, 14}
      BY <2>1 DEF puktable
    <2> QED
      BY <1>6, <2>2 DEF InEntry, Register
  <1>7. CASE 0 \notin word /\ 1 \in word /\ 2 \in word /\ 3 \notin word
    <2>1. Index(word) + 1 = 7
      BY <1>7 DEF Index
    <2>2. e = {1, 2, 8, 9, 13, 14}
      BY <2>1 DEF puktable
    <2> QED
      BY <1>7, <2>2 DEF InEntry, Register
  <1>8. CASE 0 \in word /\ 1 \in word /\ 2 \in word /\ 3 \notin word
    <2>1. Index(word) + 1 = 8
      BY <1>8 DEF Index
    <2>2. e = {0, 1, 2, 7, 8, 9, 12, 13, 14}
      BY <2>1 DEF puktable
    <2> QED
      BY <1>8, <2>2 DEF InEntry, Register
  <1>9. CASE 0 \notin word /\ 1 \notin word /\ 2 \notin word /\ 3 \in word
    <2>1. Index(word) + 1 = 9
      BY <1>9 DEF Index
    <2>2. e = {3, 10, 15}
      BY <2>1 DEF puktable
    <2> QED
      BY <1>9, <2>2 DEF InEntry, Register
  <1>10. CASE 0 \in word /\ 1 \notin word /\ 2 \notin word /\ 3 \in word
    <2>1. Index(word) + 1 = 10
      BY <1>10 DEF Index
    <2>2. e = {0, 3, 7, 10, 12, 15}
      BY <2>1 DEF puktable
    <2> QED
      BY <1>10, <2>2 DEF InEntry, Register
  <1>11. CASE 0 \notin word /\ 1 \in word /\ 2 \notin word /\ 3 \in word
    <2>1. Index(word) + 1 = 11
      BY <1>11 DEF Index
    <2>2. e = {1, 3, 8, 10, 13, 15}
      BY <2>1 DEF puktable
    <2> QED
      BY <1>11, <2>2 DEF InEntry, Register
  <1>12. CASE 0 \in word /\ 1 \in word /\ 2 \notin word /\ 3 \in word
    <2>1. Index(word) + 1 = 12
      BY <1>12 DEF Index
    <2>2. e = {0, 1, 3, 7, 8, 10, 12, 13, 15}
      BY <2>1 DEF puktable
    <2> QED
      BY <1>12, <2>2 DEF InEntry, Register
  <1>13. CASE 0 \notin word /\ 1 \notin word /\ 2 \in word /\ 3 \in word
    <2>1. Index(word) + 1 = 13
      BY <1>13 DEF Index
    <2>2. e = {2, 3, 9, 10, 14, 15}
      BY <2>1 DEF puktable
    <2> QED
      BY <1>13, <2>2 DEF InEntry, Register
  <1>14. CASE 0 \in word /\ 1 \notin word /\ 2 \in word /\ 3 \in word
    <2>1. Index(word) + 1 = 14
      BY <1>14 DEF Index
    <2>2. e = {0, 2, 3, 7, 9, 10, 12, 14, 15}
      BY <2>1 DEF puktable
    <2> QED
      BY <1>14, <2>2 DEF InEntry, Register
  <1>15. CASE 0 \notin word /\ 1 \in word /\ 2 \in word /\ 3 \in word
    <2>1. Index(word) + 1 = 15
      BY <1>15 DEF Index
    <2>2. e = {1, 2, 3, 8, 9, 10, 13, 14, 15}
      BY <2>1 DEF puktable
    <2> QED
      BY <1>15, <2>2 DEF InEntry, Register
  <1>16. CASE 0 \in word /\ 1 \in word /\ 2 \in word /\ 3 \in word
    <2>1. Index(word) + 1 = 16
      BY <1>16 DEF Index
    <2>2. e = {0, 1, 2, 3, 7, 8, 9, 10, 12, 13, 14, 15}
      BY <2>1 DEF puktable
    <2> QED
      BY <1>16, <2>2 DEF InEntry, Register
  <1> QED
    BY <1>1, <1>2, <1>3, <1>4, <1>5, <1>6, <1>7, <1>8,
       <1>9, <1>10, <1>11, <1>12, <1>13, <1>14, <1>15, <1>16

LEMMA OneBit ==
    ASSUME NEW t
    PROVE  /\ BitStep(t) \in Register
           /\ \A i \in 0 .. 15 :
                 i \in BitStep(t) <=> ~((i + 1 \in t /\ i < 15) <=> (0 \in t /\ i \in {3, 10, 15}))
  BY DEF BitStep, SymDiff, Register

LEMMA TwoBits ==
    ASSUME NEW t
    PROVE  \A i \in 0 .. 15 :
              i \in BitStep(BitStep(t)) <=>
                ~((i + 2 \in t /\ i < 14)
                    <=> ((0 \in t /\ i \in {2, 9, 14}) \/ (1 \in t /\ i \in {3, 10, 15})))
  <1> DEFINE u == BitStep(t)
             v == BitStep(u)
  <1>1. \A i \in 0 .. 15 :
           i \in u <=> ~((i + 1 \in t /\ i < 15) <=> (0 \in t /\ i \in {3, 10, 15}))
    BY OneBit
  <1>2. \A i \in 0 .. 15 :
           i \in v <=> ~((i + 1 \in u /\ i < 15) <=> (0 \in u /\ i \in {3, 10, 15}))
    BY OneBit
  <1> HIDE DEF u, v
  <1>3. 0 \in u <=> 1 \in t
    BY <1>1
  <1> SUFFICES ASSUME NEW i \in 0 .. 15
               PROVE  i \in v <=> ((i + 2 \in t /\ i < 14) #
                         ((0 \in t /\ i \in {2, 9, 14}) \/ (1 \in t /\ i \in {3, 10, 15})))
    BY DEF u, v
  <1>4. CASE i = 15
    BY <1>2, <1>3, <1>4
  <1>5. CASE i < 15
    <2>1. i + 1 \in u <=> ~((i + 2 \in t /\ i + 1 < 15) <=> (0 \in t /\ i + 1 \in {3, 10, 15}))
      BY <1>1, <1>5
    <2> QED
      BY <1>2, <1>3, <1>5, <2>1
  <1> QED
    BY <1>4, <1>5

\* Four bits of the CRC at once: the four low bits go, each into three others.
LEMMA FourBitsAre ==
    ASSUME NEW t
    PROVE  /\ FourBits(t) \in Register
           /\ \A i \in 0 .. 15 :
                 i \in FourBits(t) <=> ~((i + 4 \in t /\ i < 12) <=> InEntry(i, t))
  <1> DEFINE u == BitStep(BitStep(t))
             v == BitStep(BitStep(u))
  <1>1. \A i \in 0 .. 15 :
           i \in u <=>
             ~((i + 2 \in t /\ i < 14)
                 <=> ((0 \in t /\ i \in {2, 9, 14}) \/ (1 \in t /\ i \in {3, 10, 15})))
    BY TwoBits
  <1>2. \A i \in 0 .. 15 :
           i \in v <=>
             ~((i + 2 \in u /\ i < 14)
                 <=> ((0 \in u /\ i \in {2, 9, 14}) \/ (1 \in u /\ i \in {3, 10, 15})))
    BY TwoBits
  <1>3. v \in Register
    BY OneBit
  <1>4. FourBits(t) = v
    BY DEF FourBits
  <1> HIDE DEF u, v
  <1>5. (0 \in u <=> 2 \in t) /\ (1 \in u <=> 3 \in t)
    BY <1>1
  <1>6. ASSUME NEW i \in 0 .. 15
        PROVE  i \in v <=> ~((i + 4 \in t /\ i < 12) <=> InEntry(i, t))
    <2>1. CASE i >= 14
      <3>1. i = 14 \/ i = 15
        BY <2>1
      <3> QED
        BY <1>2, <1>5, <3>1 DEF InEntry
    <2>2. CASE i < 14
      <3>1. i + 2 \in 0 .. 15 /\ (i + 2) + 2 = i + 4 /\ (i + 2 < 14 <=> i < 12)
        BY <2>2
      <3>2. i + 2 \in u <=>
              ~((i + 4 \in t /\ i < 12)
                 <=> ((0 \in t /\ i + 2 \in {2, 9, 14}) \/ (1 \in t /\ i + 2 \in {3, 10, 15})))
        BY <1>1, <3>1
      <3>3. i \in v <=>
              ~(i + 2 \in u <=> ((2 \in t /\ i \in {2, 9, 14}) \/ (3 \in t /\ i \in {3, 10, 15})))
        BY <1>2, <1>5, <2>2
      <3>4. InEntry(i, t) <=>
              \/ 0 \in t /\ i \in {0, 7, 12}
              \/ 1 \in t /\ i \in {1, 8, 13}
              \/ 2 \in t /\ i \in {2, 9, 14}
              \/ 3 \in t /\ i \in {3, 10, 15}
        BY DEF InEntry
      <3>5. (i + 2 \in {2, 9, 14} <=> i \in {0, 7, 12})
            /\ (i + 2 \in {3, 10, 15} <=> i \in {1, 8, 13})
        OBVIOUS
      <3> QED
        BY <3>2, <3>3, <3>4, <3>5
    <2> QED
      BY <2>1, <2>2
  <1> QED
    BY <1>3, <1>4, <1>6

\* Two words with the same bits are the same.
LEMMA SameBits ==
    ASSUME NEW a \in Register, NEW b \in Register, \A i \in 0 .. 15 : i \in a <=> i \in b
    PROVE  a = b
  BY DEF Register

LEMMA XorBits ==
    ASSUME NEW a, NEW b, NEW i
    PROVE  i \in SymDiff(a, b) <=> ~(i \in a <=> i \in b)
  BY DEF SymDiff

LEMMA XorWord ==
    ASSUME NEW a \in Register, NEW b \in Register
    PROVE  SymDiff(a, b) \in Register
  BY DEF SymDiff, Register

\* Half a step of crc_pukall is four bits of the CRC with the bits that were not
\* looked at yet put back.
LEMMA HalfStepIs ==
    ASSUME NEW temp, NEW c
    PROVE  HalfStep(temp, c) = SymDiff(FourBits(SymDiff(temp, c)), Shifted(c))
  <1> DEFINE x == SymDiff(temp, c)
             e == puktable[Index(x) + 1]
             l == HalfStep(temp, c)
             r == SymDiff(FourBits(x), Shifted(c))
  <1>1. e \in Register /\ \A i \in 0 .. 15 : i \in e <=> InEntry(i, x)
    BY EntryBits
  <1>2. FourBits(x) \in Register
        /\ \A i \in 0 .. 15 : i \in FourBits(x) <=> ~((i + 4 \in x /\ i < 12) <=> InEntry(i, x))
    BY FourBitsAre
  <1>3. \A i : i + 4 \in x <=> ~(i + 4 \in temp <=> i + 4 \in c)
    BY XorBits
  <1>4. l = SymDiff(Shifted(temp), e)
    BY DEF HalfStep
  <1> HIDE DEF x, e, l
  <1>5. l \in Register /\ r \in Register
    <2>1. Shifted(temp) \in Register /\ Shifted(c) \in Register
      BY DEF Shifted, Register
    <2> QED
      BY <1>1, <1>2, <1>4, <2>1, XorWord
  <1>6. ASSUME NEW i \in 0 .. 15
        PROVE  i \in l <=> i \in r
    <2>1. i \in l <=> ~(i \in Shifted(temp) <=> InEntry(i, x))
      BY <1>1, <1>4, XorBits
    <2>2. i \in r <=> ~(~((i + 4 \in x /\ i < 12) <=> InEntry(i, x)) <=> i \in Shifted(c))
      BY <1>2, XorBits
    <2>3. /\ i \in Shifted(temp) <=> i < 12 /\ i + 4 \in temp
          /\ i \in Shifted(c) <=> i < 12 /\ i + 4 \in c
      BY DEF Shifted
    <2>4. BOOLEAN = {TRUE, FALSE}
      OBVIOUS
    <2> QED
      BY <1>3, <2>1, <2>2, <2>3
  <1>7. l = r
    BY <1>5, <1>6, SameBits
  <1> QED
    BY <1>7 DEF l, r, x

\* A byte goes through crc_pukall as its eight bits through the CRC of one bit.
LEMMA StepIsEightBits ==
    ASSUME NEW temp, NEW c \in Byte
    PROVE  crc_pukall(temp, c) = EightBits(SymDiff(temp, c))
  <1> DEFINE f == FourBits(SymDiff(temp, c))
             d == Shifted(c)
             h == HalfStep(temp, c)
  <1>1. h = SymDiff(f, d)
    BY HalfStepIs
  <1>2. crc_pukall(temp, c) = SymDiff(FourBits(SymDiff(h, d)), Shifted(d))
    BY HalfStepIs DEF crc_pukall
  <1>3. Shifted(d) = {}
    BY DEF Shifted, Byte
  <1> HIDE DEF d, h
  <1>4. SymDiff(h, d) = f
    BY <1>1 DEF SymDiff
  <1>5. \A w : SymDiff(w, {}) = w
    BY DEF SymDiff
  <1>6. crc_pukall(temp, c) = FourBits(f)
    BY <1>2, <1>3, <1>4, <1>5
  <1> QED
    BY <1>6 DEF EightBits

LEMMA XorGroup ==
    ASSUME NEW a, NEW b, NEW c
    PROVE  /\ SymDiff(a, b) = SymDiff(b, a)
           /\ SymDiff(SymDiff(a, b), c) = SymDiff(a, SymDiff(b, c))
           /\ SymDiff(SymDiff(a, b), b) = a
           /\ SymDiff(a, {}) = a
           /\ SymDiff(a, b) = {} <=> a = b
           /\ SymDiff(SymDiff(a, c), SymDiff(b, c)) = SymDiff(a, b)
           /\ SymDiff(SymDiff(a, b), SymDiff(a, c)) = SymDiff(b, c)
  <1>1. SymDiff(a, b) = SymDiff(b, a)
    BY DEF SymDiff
  <1>2. SymDiff(SymDiff(a, b), c) = SymDiff(a, SymDiff(b, c))
    BY DEF SymDiff
  <1>3. SymDiff(SymDiff(a, b), b) = a
    BY DEF SymDiff
  <1>4. SymDiff(a, {}) = a
    BY DEF SymDiff
  <1>5. SymDiff(a, b) = {} <=> a = b
    BY DEF SymDiff
  <1>6. SymDiff(SymDiff(a, c), SymDiff(b, c)) = SymDiff(a, b)
    BY DEF SymDiff
  <1>7. SymDiff(SymDiff(a, b), SymDiff(a, c)) = SymDiff(b, c)
    BY DEF SymDiff
  <1> QED
    BY <1>1, <1>2, <1>3, <1>4, <1>5, <1>6, <1>7

\* The CRC is linear: what two words differ by goes through it on its own.
LEMMA FourBitsLinear ==
    ASSUME NEW a, NEW b
    PROVE  FourBits(SymDiff(a, b)) = SymDiff(FourBits(a), FourBits(b))
  <1> DEFINE x == SymDiff(a, b)
             l == FourBits(x)
             r == SymDiff(FourBits(a), FourBits(b))
  <1>1. \A t : FourBits(t) \in Register
    BY FourBitsAre
  <1>2. \A t : \A i \in 0 .. 15 : i \in FourBits(t) <=> ~((i + 4 \in t /\ i < 12) <=> InEntry(i, t))
    BY FourBitsAre
  <1>3. \A i : i \in x <=> ~(i \in a <=> i \in b)
    BY XorBits
  <1>4. l \in Register /\ r \in Register
    BY <1>1, XorWord
  <1>5. \A i : i \in r <=> ~(i \in FourBits(a) <=> i \in FourBits(b))
    BY XorBits
  <1>6. \A i \in 0 .. 15 : i \in l <=> ~((i + 4 \in x /\ i < 12) <=> InEntry(i, x))
    BY <1>2
  <1>7. \A i \in 0 .. 15 : i \in FourBits(a) <=> ~((i + 4 \in a /\ i < 12) <=> InEntry(i, a))
    BY <1>2
  <1>8. \A i \in 0 .. 15 : i \in FourBits(b) <=> ~((i + 4 \in b /\ i < 12) <=> InEntry(i, b))
    BY <1>2
  <1> HIDE DEF x, l, r
  <1>9. ASSUME NEW i \in 0 .. 15
        PROVE  i \in l <=> i \in r
    <2>1. InEntry(i, x) <=> ~(InEntry(i, a) <=> InEntry(i, b))
      BY <1>3 DEF InEntry
    <2>2. i + 4 \in x <=> ~(i + 4 \in a <=> i + 4 \in b)
      BY <1>3
    <2> QED
      BY <1>5, <1>6, <1>7, <1>8, <2>1, <2>2
  <1>10. l = r
    BY <1>4, <1>9, SameBits
  <1> QED
    BY <1>10 DEF l, r, x

\* Nothing but 0 goes to 0.
LEMMA FourBitsNone ==
    ASSUME NEW z \in Register
    PROVE  FourBits(z) = {} <=> z = {}
  <1>1. \A i \in 0 .. 15 : i \in FourBits(z) <=> ~((i + 4 \in z /\ i < 12) <=> InEntry(i, z))
    BY FourBitsAre
  <1>2. FourBits(z) \in Register
    BY FourBitsAre
  <1>3. ASSUME FourBits(z) = {} PROVE z = {}
    <2>1. 0 \notin z /\ 1 \notin z /\ 2 \notin z /\ 3 \notin z
      BY <1>1, <1>3 DEF InEntry
    <2>2. ASSUME NEW i \in 0 .. 11 PROVE i + 4 \notin z
      <3>1. ~InEntry(i, z)
        BY <2>1 DEF InEntry
      <3> QED
        BY <1>1, <1>3, <3>1
    <2>3. ASSUME NEW i \in 4 .. 15 PROVE i \notin z
      <3>1. i - 4 \in 0 .. 11 /\ (i - 4) + 4 = i
        OBVIOUS
      <3> QED
        BY <2>2, <3>1
    <2> QED
      BY <2>1, <2>3 DEF Register
  <1>4. ASSUME z = {} PROVE FourBits(z) = {}
    BY <1>1, <1>2, <1>4 DEF InEntry, Register
  <1> QED
    BY <1>3, <1>4

LEMMA EightBitsLinear ==
    ASSUME NEW a, NEW b
    PROVE  /\ EightBits(a) \in Register
           /\ EightBits(SymDiff(a, b)) = SymDiff(EightBits(a), EightBits(b))
  BY FourBitsLinear, FourBitsAre DEF EightBits

LEMMA EightBitsNone ==
    ASSUME NEW z \in Register
    PROVE  EightBits(z) = {} <=> z = {}
  BY FourBitsNone, FourBitsAre DEF EightBits

LEMMA EightBitsInjective ==
    ASSUME NEW a \in Register, NEW b \in Register, EightBits(a) = EightBits(b)
    PROVE  a = b
  <1>1. SymDiff(a, b) \in Register
    BY XorWord
  <1>2. EightBits(SymDiff(a, b)) = {}
    BY EightBitsLinear, XorGroup
  <1>3. SymDiff(a, b) = {}
    BY <1>1, <1>2, EightBitsNone
  <1> QED
    BY <1>3, XorGroup

\* The bits of a byte and of the word that it comes out as, one by one.
LEMMA ByteBits ==
    ASSUME NEW z \in Byte, NEW e, e = EightBits(z)
    PROVE  \E y : /\ (0 \in y <=> ~(4 \in z <=> 0 \in z)) /\ (1 \in y <=> ~(5 \in z <=> 1 \in z))
                  /\ (2 \in y <=> ~(6 \in z <=> 2 \in z)) /\ (3 \in y <=> ~(7 \in z <=> 3 \in z))
                  /\ (0 \in e <=> 0 \in y) /\ (1 \in e <=> 1 \in y) /\ (2 \in e <=> 2 \in y)
                  /\ (3 \in e <=> ~(0 \in z <=> 3 \in y)) /\ (4 \in e <=> 1 \in z)
                  /\ (5 \in e <=> 2 \in z) /\ (6 \in e <=> 3 \in z) /\ (7 \in e <=> 0 \in y)
                  /\ (8 \in e <=> ~(0 \in z <=> 1 \in y)) /\ (9 \in e <=> ~(1 \in z <=> 2 \in y))
                  /\ (10 \in e <=> ~(2 \in z <=> 3 \in y)) /\ (11 \in e <=> 3 \in z)
                  /\ (12 \in e <=> 0 \in y) /\ (13 \in e <=> 1 \in y)
                  /\ (14 \in e <=> 2 \in y) /\ (15 \in e <=> 3 \in y)
  <1> DEFINE y == FourBits(z)
  <1>1. \A i \in 0 .. 15 : i \in y <=> ~((i + 4 \in z /\ i < 12) <=> InEntry(i, z))
    BY FourBitsAre
  <1>2. \A i \in 0 .. 15 : i \in e <=> ~((i + 4 \in y /\ i < 12) <=> InEntry(i, y))
    BY FourBitsAre DEF EightBits
  <1>3. \A i : i \in z => i \in 0 .. 7
    BY DEF Byte
  <1> HIDE DEF y
  <1>4. /\ (0 \in y <=> ~(4 \in z <=> 0 \in z)) /\ (1 \in y <=> ~(5 \in z <=> 1 \in z))
        /\ (2 \in y <=> ~(6 \in z <=> 2 \in z)) /\ (3 \in y <=> ~(7 \in z <=> 3 \in z))
    BY <1>1 DEF InEntry
  <1>5. 4 \notin y /\ 5 \notin y /\ 6 \notin y /\ 11 \notin y
    BY <1>1, <1>3 DEF InEntry
  <1>6. /\ (7 \in y <=> 0 \in z) /\ (8 \in y <=> 1 \in z)
        /\ (9 \in y <=> 2 \in z) /\ (10 \in y <=> 3 \in z)
    BY <1>1, <1>3 DEF InEntry
  <1>7. /\ (12 \in y <=> 0 \in z) /\ (13 \in y <=> 1 \in z)
        /\ (14 \in y <=> 2 \in z) /\ (15 \in y <=> 3 \in z)
    BY <1>1, <1>3 DEF InEntry
  <1>8. /\ (0 \in e <=> 0 \in y) /\ (1 \in e <=> 1 \in y) /\ (2 \in e <=> 2 \in y)
        /\ (3 \in e <=> ~(0 \in z <=> 3 \in y)) /\ (4 \in e <=> 1 \in z)
        /\ (5 \in e <=> 2 \in z) /\ (6 \in e <=> 3 \in z) /\ (7 \in e <=> 0 \in y)
    BY <1>2, <1>5, <1>6 DEF InEntry
  <1>9. /\ (8 \in e <=> ~(0 \in z <=> 1 \in y)) /\ (9 \in e <=> ~(1 \in z <=> 2 \in y))
        /\ (10 \in e <=> ~(2 \in z <=> 3 \in y)) /\ (11 \in e <=> 3 \in z)
    BY <1>2, <1>7 DEF InEntry
  <1>10. /\ (12 \in e <=> 0 \in y) /\ (13 \in e <=> 1 \in y)
         /\ (14 \in e <=> 2 \in y) /\ (15 \in e <=> 3 \in y)
    BY <1>2 DEF InEntry
  <1> QED
    BY <1>4, <1>8, <1>9, <1>10

\* No byte but 0 comes out as a byte: what follows it cannot take it back.
LEMMA ByteLeavesByte ==
    ASSUME NEW z \in Byte, EightBits(z) \in Byte
    PROVE  z = {}
  <1> DEFINE e == EightBits(z)
  <1>1. 8 \notin e /\ 9 \notin e /\ 10 \notin e /\ 11 \notin e
        /\ 12 \notin e /\ 13 \notin e /\ 14 \notin e /\ 15 \notin e
    BY DEF Byte
  <1> HIDE DEF e
  <1>2. \A i \in 0 .. 7 : i \notin z
    BY <1>1, ByteBits DEF e
  <1> QED
    BY <1>2 DEF Byte

\* The one byte that comes out with an empty low byte.
LEMMA EmptyLowByte ==
    ASSUME NEW z \in Byte
    PROVE  /\ z = {0, 4, 7} <=> z # {} /\ Low(EightBits(z)) = {}
           /\ z = {0, 4, 7} => High(EightBits(z)) = {0, 2, 7}
  <1> DEFINE e == EightBits(z)
  <1>0. \A i \in z : i \in {0, 1, 2, 3, 4, 5, 6, 7}
    BY DEF Byte
  <1>1. Low(e) = {} <=> /\ 0 \notin e /\ 1 \notin e /\ 2 \notin e /\ 3 \notin e
                        /\ 4 \notin e /\ 5 \notin e /\ 6 \notin e /\ 7 \notin e
    BY DEF Low
  <1>2. z = {} <=> /\ 0 \notin z /\ 1 \notin z /\ 2 \notin z /\ 3 \notin z
                   /\ 4 \notin z /\ 5 \notin z /\ 6 \notin z /\ 7 \notin z
    BY <1>0
  <1>3. z = {0, 4, 7} <=> /\ 0 \in z /\ 1 \notin z /\ 2 \notin z /\ 3 \notin z
                          /\ 4 \in z /\ 5 \notin z /\ 6 \notin z /\ 7 \in z
    BY <1>0
  <1>4. High(e) = {0, 2, 7} <=> /\ 8 \in e /\ 9 \notin e /\ 10 \in e /\ 11 \notin e
                                /\ 12 \notin e /\ 13 \notin e /\ 14 \notin e /\ 15 \in e
    <2>1. \A i \in 0 .. 7 : i \in High(e) <=> i + 8 \in e
      BY DEF High
    <2>2. High(e) \in SUBSET (0 .. 7)
      BY DEF High
    <2> HIDE DEF e
    <2> QED
      BY <2>1, <2>2
  <1> HIDE DEF e
  <1>5. /\ z = {0, 4, 7} <=> z # {} /\ Low(e) = {}
        /\ z = {0, 4, 7} => High(e) = {0, 2, 7}
    BY <1>1, <1>2, <1>3, <1>4, ByteBits DEF e
  <1> QED
    BY <1>5 DEF e

\* A word is its two bytes.
LEMMA HighLow ==
    ASSUME NEW a \in Register, NEW b \in Register
    PROVE  /\ High(a) \in Byte /\ Low(a) \in Byte
           /\ <<High(a), Low(a)>> = <<High(b), Low(b)>> <=> a = b
           /\ High(SymDiff(a, b)) = SymDiff(High(a), High(b))
           /\ Low(SymDiff(a, b)) = SymDiff(Low(a), Low(b))
  <1>1. High(a) \in Byte /\ Low(a) \in Byte
    BY DEF High, Low, Byte
  <1>2. ASSUME High(a) = High(b), Low(a) = Low(b) PROVE a = b
    <2>1. ASSUME NEW i \in 0 .. 15 PROVE i \in a <=> i \in b
      <3>1. CASE i < 8
        BY <1>2, <3>1 DEF Low
      <3>2. CASE i >= 8
        <4>1. i - 8 \in 0 .. 7 /\ (i - 8) + 8 = i
          BY <3>2
        <4>2. (i - 8 \in High(a) <=> i \in a) /\ (i - 8 \in High(b) <=> i \in b)
          BY <4>1 DEF High
        <4> QED
          BY <1>2, <4>2
      <3> QED
        BY <3>1, <3>2
    <2> QED
      BY <2>1, SameBits
  <1>3. High(SymDiff(a, b)) = SymDiff(High(a), High(b))
    BY DEF High, SymDiff
  <1>4. Low(SymDiff(a, b)) = SymDiff(Low(a), Low(b))
    BY DEF Low, SymDiff
  <1> QED
    BY <1>1, <1>2, <1>3, <1>4

-----------------------------------------------------------------------------
(***************************************************************************)
(* The CRC of some bytes.  The recursive functions of do_crc and of        *)
(* Reference exist since each beginning of them does.                      *)
(***************************************************************************)
\* f[i] is the CRC after the first i of n bytes of x.
IsCrcOf(f, x, n) ==
    /\ f[0] = 0 .. 15
    /\ \A i \in 1 .. n : f[i] = EightBits(SymDiff(f[i - 1], x[i]))

CrcFunction(f, x, n) ==
    f = [i \in 0 .. n |-> IF i = 0 THEN 0 .. 15 ELSE crc_pukall(f[i - 1], x[i])]

BitFunction(f, x, n) ==
    f = [i \in 0 .. n |-> IF i = 0 THEN 0 .. 15 ELSE EightBits(SymDiff(f[i - 1], x[i]))]

\* Where two strings of bytes begin alike their CRCs do.
LEMMA CrcsAgree ==
    ASSUME NEW x, NEW y, NEW f, NEW g, NEW n \in Nat, NEW m \in 0 .. n,
           IsCrcOf(f, x, n), IsCrcOf(g, y, n), \A i \in 1 .. n : i <= m => x[i] = y[i]
    PROVE  f[m] = g[m]
  <1> DEFINE K == {k \in Nat : k <= m => f[k] = g[k]}
  <1>1. 0 \in K
    BY DEF IsCrcOf
  <1>2. ASSUME NEW k \in K PROVE k + 1 \in K
    <2>1. k + 1 \in Nat /\ (k + 1) - 1 = k
      OBVIOUS
    <2>2. ASSUME k + 1 <= m PROVE f[k + 1] = g[k + 1]
      <3>1. k + 1 \in 1 .. n
        BY <2>2
      <3>2. f[k] = g[k] /\ x[k + 1] = y[k + 1]
        BY <2>2, <3>1
      <3>3. /\ f[k + 1] = EightBits(SymDiff(f[k], x[k + 1]))
            /\ g[k + 1] = EightBits(SymDiff(g[k], y[k + 1]))
        BY <2>1, <3>1 DEF IsCrcOf
      <3> QED
        BY <3>2, <3>3
    <2> QED
      BY <2>1, <2>2
  <1>3. K \in SUBSET Nat
    OBVIOUS
  <1> HIDE DEF K
  <1>4. m \in K
    BY <1>1, <1>2, <1>3, EveryNat
  <1> QED
    BY <1>4 DEF K

LEMMA CrcExists ==
    ASSUME NEW x, NEW n \in Nat
    PROVE  \E f : /\ f = [i \in 0 .. n |-> f[i]]
                  /\ \A i \in 0 .. n : f[i] \in Register
                  /\ IsCrcOf(f, x, n)
  <1> DEFINE Ok(k, g) == /\ g[0] = 0 .. 15
                         /\ \A i \in 1 .. k : g[i] = EightBits(SymDiff(g[i - 1], x[i]))
             K == {k \in Nat : \E g \in [0 .. k -> Register] : Ok(k, g)}
  <1>1. 0 \in K
    <2> DEFINE g == [i \in 0 .. 0 |-> 0 .. 15]
    <2>1. g \in [0 .. 0 -> Register] /\ Ok(0, g)
      BY DEF Register
    <2> HIDE DEF g, Ok
    <2> QED
      BY <2>1
  <1>2. ASSUME NEW k \in K PROVE k + 1 \in K
    <2>1. PICK g \in [0 .. k -> Register] : Ok(k, g)
      OBVIOUS
    <2> DEFINE next == EightBits(SymDiff(g[k], x[k + 1]))
               h == [i \in 0 .. k + 1 |-> IF i = k + 1 THEN next ELSE g[i]]
    <2>2. next \in Register
      BY EightBitsLinear
    <2>3. h \in [0 .. k + 1 -> Register]
      BY <2>1, <2>2
    <2>4. \A i \in 0 .. k : h[i] = g[i]
      OBVIOUS
    <2>5. h[k + 1] = EightBits(SymDiff(g[k], x[k + 1]))
      OBVIOUS
    <2> HIDE DEF h, next
    <2>6. h[0] = 0 .. 15
      BY <2>1, <2>4
    <2>7. ASSUME NEW i \in 1 .. k + 1 PROVE h[i] = EightBits(SymDiff(h[i - 1], x[i]))
      <3>1. i - 1 \in 0 .. k /\ h[i - 1] = g[i - 1]
        BY <2>4
      <3>2. CASE i = k + 1
        BY <2>5, <3>1, <3>2
      <3>3. CASE i <= k
        BY <2>1, <2>4, <3>1, <3>3
      <3> QED
        BY <3>2, <3>3
    <2>8. Ok(k + 1, h)
      BY <2>6, <2>7
    <2> HIDE DEF Ok
    <2>9. \E f \in [0 .. k + 1 -> Register] : Ok(k + 1, f)
      BY <2>3, <2>8, Zenon
    <2> QED
      BY <2>9
  <1>3. K \in SUBSET Nat
    OBVIOUS
  <1>4. n \in K
    <2> HIDE DEF K
    <2> QED
      BY <1>1, <1>2, <1>3, EveryNat
  <1>5. PICK g \in [0 .. n -> Register] : Ok(n, g)
    BY <1>4
  <1> QED
    BY <1>5 DEF IsCrcOf

\* The bytes of a sector that are summed, and their CRC by the table and by bits.
LEMMA CrcOfSector ==
    ASSUME NEW s, Len(Summed(s)) \in Nat, \A i \in 1 .. Len(Summed(s)) : Summed(s)[i] \in Byte
    PROVE  \E f : /\ IsCrcOf(f, Summed(s), Len(Summed(s)))
                  /\ \A i \in 0 .. Len(Summed(s)) : f[i] \in Register
                  /\ do_crc(s) = f[Len(Summed(s))]
                  /\ Reference(s) = f[Len(Summed(s))]
  <1> DEFINE x == Summed(s)
             n == Len(x)
             c == CHOOSE g : CrcFunction(g, x, n)
             r == CHOOSE g : BitFunction(g, x, n)
  <1>1. do_crc(s) = c[n]
    BY DEF do_crc, CrcFunction
  <1>2. Reference(s) = r[n]
    BY DEF Reference, BitFunction
  <1>3. n \in Nat /\ \A i \in 1 .. n : x[i] \in Byte
    OBVIOUS
  <1> HIDE DEF x, n
  <1>5. PICK f : /\ f = [i \in 0 .. n |-> f[i]]
                 /\ \A i \in 0 .. n : f[i] \in Register
                 /\ IsCrcOf(f, x, n)
    BY <1>3, CrcExists
  <1>6. BitFunction(f, x, n)
    <2>1. \A i \in 0 .. n : f[i] = IF i = 0 THEN 0 .. 15 ELSE EightBits(SymDiff(f[i - 1], x[i]))
      BY <1>3, <1>5 DEF IsCrcOf
    <2> QED
      BY <1>5, <2>1 DEF BitFunction
  <1>7. CrcFunction(f, x, n)
    <2>1. \A i \in 0 .. n : f[i] = IF i = 0 THEN 0 .. 15 ELSE crc_pukall(f[i - 1], x[i])
      <3>1. f[0] = 0 .. 15
        BY <1>5 DEF IsCrcOf
      <3>2. ASSUME NEW i \in 1 .. n PROVE f[i] = crc_pukall(f[i - 1], x[i])
        <4>1. f[i] = EightBits(SymDiff(f[i - 1], x[i]))
          BY <1>5 DEF IsCrcOf
        <4> QED
          BY <1>3, <4>1, StepIsEightBits
      <3>3. \A i \in 0 .. n : i = 0 \/ i \in 1 .. n
        BY <1>3
      <3> QED
        BY <3>1, <3>2, <3>3
    <2> QED
      BY <1>5, <2>1 DEF CrcFunction
  <1>8. BitFunction(r, x, n) /\ CrcFunction(c, x, n)
    BY <1>6, <1>7
  <1> HIDE DEF r, c
  <1>9. IsCrcOf(r, x, n)
    <2>1. \A i \in 0 .. n : r[i] = IF i = 0 THEN 0 .. 15 ELSE EightBits(SymDiff(r[i - 1], x[i]))
      BY <1>8 DEF BitFunction
    <2> QED
      BY <1>3, <2>1 DEF IsCrcOf
  <1>10. IsCrcOf(c, x, n)
    <2>1. \A i \in 0 .. n : c[i] = IF i = 0 THEN 0 .. 15 ELSE crc_pukall(c[i - 1], x[i])
      BY <1>8 DEF CrcFunction
    <2>2. c[0] = 0 .. 15
      BY <1>3, <2>1
    <2>3. ASSUME NEW i \in 1 .. n PROVE c[i] = EightBits(SymDiff(c[i - 1], x[i]))
      <3>1. c[i] = crc_pukall(c[i - 1], x[i])
        BY <1>3, <2>1
      <3> QED
        BY <1>3, <3>1, StepIsEightBits
    <2> QED
      BY <2>2, <2>3 DEF IsCrcOf
  <1>11. f[n] = r[n] /\ f[n] = c[n]
    BY <1>3, <1>5, <1>9, <1>10, CrcsAgree
  <1>12. /\ IsCrcOf(f, x, n) /\ \A i \in 0 .. n : f[i] \in Register
         /\ do_crc(s) = f[n] /\ Reference(s) = f[n]
    BY <1>1, <1>2, <1>5, <1>11
  <1> QED
    BY <1>12 DEF x, n

\* A burst in the bytes summed changes the CRC of all of them.
LEMMA BurstInside ==
    ASSUME NEW x, NEW y, NEW f, NEW g, NEW n \in Nat, NEW k \in 1 .. n - 1,
           NEW b1 \in Byte, NEW b2 \in Byte, b1 # {} \/ b2 # {},
           \A i \in 1 .. n : x[i] \in Byte, IsCrcOf(f, x, n), IsCrcOf(g, y, n),
           \A i \in 0 .. n : f[i] \in Register,
           y[k] = SymDiff(x[k], b1), y[k + 1] = SymDiff(x[k + 1], b2),
           \A i \in 1 .. n : i # k /\ i # k + 1 => y[i] = x[i]
    PROVE  f[n] # g[n]
  <1>1. \A i \in 1 .. n : /\ f[i] = EightBits(SymDiff(f[i - 1], x[i]))
                          /\ g[i] = EightBits(SymDiff(g[i - 1], y[i]))
    BY DEF IsCrcOf
  <1>2. \A i \in 0 .. n : g[i] \in Register
    <2>1. g[0] \in Register
      BY DEF IsCrcOf, Register
    <2>2. ASSUME NEW i \in 1 .. n PROVE g[i] \in Register
      BY <1>1, EightBitsLinear
    <2> QED
      BY <2>1, <2>2
  <1>3. f[k - 1] = g[k - 1]
    <2>1. k - 1 \in 0 .. n /\ \A i \in 1 .. n : i <= k - 1 => x[i] = y[i]
      OBVIOUS
    <2> QED
      BY <2>1, CrcsAgree
  <1>4. SymDiff(g[k], f[k]) = EightBits(b1)
    <2>1. /\ f[k] = EightBits(SymDiff(f[k - 1], x[k]))
          /\ g[k] = EightBits(SymDiff(f[k - 1], SymDiff(x[k], b1)))
      BY <1>1, <1>3
    <2>2. SymDiff(f[k - 1], SymDiff(x[k], b1)) = SymDiff(SymDiff(f[k - 1], x[k]), b1)
      BY XorGroup
    <2>3. g[k] = SymDiff(f[k], EightBits(b1))
      BY <2>1, <2>2, EightBitsLinear
    <2>4. SymDiff(SymDiff(EightBits(b1), f[k]), f[k]) = EightBits(b1)
      BY XorGroup
    <2>5. SymDiff(f[k], EightBits(b1)) = SymDiff(EightBits(b1), f[k])
      BY XorGroup
    <2> QED
      BY <2>3, <2>4, <2>5
  <1>5. \A i \in 1 .. n : x[i] \in Register /\ (\A w \in Register : SymDiff(w, x[i]) \in Register)
    <2>1. \A w \in Byte : w \in Register
      BY DEF Byte, Register
    <2> QED
      BY <2>1, XorWord
  <1>6. f[k + 1] # g[k + 1]
    <2> SUFFICES ASSUME f[k + 1] = g[k + 1] PROVE FALSE
      OBVIOUS
    <2>1. k + 1 \in 1 .. n /\ (k + 1) - 1 = k /\ k \in 0 .. n
      OBVIOUS
    <2>2. /\ f[k + 1] = EightBits(SymDiff(f[k], x[k + 1]))
          /\ g[k + 1] = EightBits(SymDiff(g[k], SymDiff(x[k + 1], b2)))
      BY <1>1, <2>1
    <2>3. SymDiff(g[k], SymDiff(x[k + 1], b2)) = SymDiff(SymDiff(g[k], b2), x[k + 1])
      BY XorGroup
    <2>4. f[k] \in Register /\ SymDiff(g[k], b2) \in Register
      <3>1. b2 \in Register
        BY DEF Byte, Register
      <3> QED
        BY <1>2, <2>1, <3>1, XorWord
    <2>5. SymDiff(f[k], x[k + 1]) = SymDiff(SymDiff(g[k], b2), x[k + 1])
      <3>1. SymDiff(f[k], x[k + 1]) \in Register /\ SymDiff(SymDiff(g[k], b2), x[k + 1]) \in Register
        BY <1>5, <2>1, <2>4
      <3> QED
        BY <2>2, <2>3, <3>1, EightBitsInjective
    <2>6. f[k] = SymDiff(g[k], b2)
      BY <2>5, XorGroup
    <2>7. SymDiff(g[k], f[k]) = b2
      <3>1. SymDiff(SymDiff(g[k], {}), SymDiff(g[k], b2)) = SymDiff({}, b2)
        BY XorGroup
      <3>2. SymDiff(g[k], {}) = g[k] /\ SymDiff({}, b2) = SymDiff(b2, {}) /\ SymDiff(b2, {}) = b2
        BY XorGroup
      <3> QED
        BY <2>6, <3>1, <3>2
    <2>8. EightBits(b1) = b2
      BY <1>4, <2>7
    <2>9. b1 = {}
      BY <2>8, ByteLeavesByte
    <2>10. b2 = {}
      <3>1. {} \in Register
        BY DEF Register
      <3> QED
        BY <2>8, <2>9, <3>1, EightBitsNone
    <2> QED
      BY <2>9, <2>10
  <1> DEFINE K == {j \in Nat : j + k + 1 <= n => f[j + k + 1] # g[j + k + 1]}
  <1>7. 0 \in K
    BY <1>6
  <1>8. ASSUME NEW j \in K PROVE j + 1 \in K
    <2>1. j \in Nat /\ k \in Nat /\ n \in Nat
      OBVIOUS
    <2>2. ASSUME j + 1 + k + 1 <= n PROVE f[j + 1 + k + 1] # g[j + 1 + k + 1]
      <3> DEFINE m == j + k + 1
      <3>1. m \in 0 .. n /\ m + 1 \in 1 .. n /\ (m + 1) - 1 = m /\ m + 1 # k /\ m + 1 # k + 1
            /\ j + 1 + k + 1 = m + 1
        BY <2>1, <2>2
      <3>2. f[m] # g[m]
        BY <2>1, <2>2
      <3> HIDE DEF m
      <3>3. /\ f[m + 1] = EightBits(SymDiff(f[m], x[m + 1]))
            /\ g[m + 1] = EightBits(SymDiff(g[m], x[m + 1]))
        BY <1>1, <3>1
      <3>4. SymDiff(f[m], x[m + 1]) # SymDiff(g[m], x[m + 1])
        <4>1. /\ SymDiff(SymDiff(f[m], x[m + 1]), x[m + 1]) = f[m]
              /\ SymDiff(SymDiff(g[m], x[m + 1]), x[m + 1]) = g[m]
          BY XorGroup
        <4> QED
          BY <3>2, <4>1
      <3>5. SymDiff(f[m], x[m + 1]) \in Register /\ SymDiff(g[m], x[m + 1]) \in Register
        BY <1>2, <1>5, <3>1
      <3>6. f[m + 1] # g[m + 1]
        BY <3>3, <3>4, <3>5, EightBitsInjective
      <3> QED
        BY <3>1, <3>6
    <2> QED
      BY <2>1, <2>2
  <1>9. K \in SUBSET Nat
    OBVIOUS
  <1>10. n - k - 1 \in K
    <2>1. n - k - 1 \in Nat
      OBVIOUS
    <2> HIDE DEF K
    <2> QED
      BY <1>7, <1>8, <1>9, <2>1, EveryNat
  <1>11. (n - k - 1) + k + 1 = n
    OBVIOUS
  <1> QED
    BY <1>10, <1>11

\* A last byte that changed changes the CRC by what it comes out as.
LEMMA BurstAtEnd ==
    ASSUME NEW x, NEW y, NEW f, NEW g, NEW n \in Nat \ {0}, NEW b,
           IsCrcOf(f, x, n), IsCrcOf(g, y, n),
           y[n] = SymDiff(x[n], b), \A i \in 1 .. n : i # n => y[i] = x[i]
    PROVE  g[n] = SymDiff(f[n], EightBits(b))
  <1>1. f[n - 1] = g[n - 1]
    <2>1. n - 1 \in 0 .. n /\ \A i \in 1 .. n : i <= n - 1 => x[i] = y[i]
      OBVIOUS
    <2> QED
      BY <2>1, CrcsAgree
  <1>2. /\ f[n] = EightBits(SymDiff(f[n - 1], x[n]))
        /\ g[n] = EightBits(SymDiff(f[n - 1], SymDiff(x[n], b)))
    BY <1>1 DEF IsCrcOf
  <1>3. SymDiff(f[n - 1], SymDiff(x[n], b)) = SymDiff(SymDiff(f[n - 1], x[n]), b)
    BY XorGroup
  <1> QED
    BY <1>2, <1>3, EightBitsLinear

-----------------------------------------------------------------------------
(***************************************************************************)
(* The bytes of a sector in the file.                                      *)
(***************************************************************************)
HasBytes(s) ==
    /\ s.head \in Byte \X Byte
    /\ s.label \in Byte \X Byte
    /\ s.data \in [1 .. SAP_SECTSIZE -> Byte]

\* What the byte at a place of the file is masked with.
Mask(i) == IF i \in 5 .. SAP_SECTSIZE + 4 THEN SAP_MAGIC_NUM ELSE {}

LEMMA Pair ==
    ASSUME NEW p \in Byte \X Byte
    PROVE  p = <<p[1], p[2]>> /\ p[1] \in Byte /\ p[2] \in Byte /\ p \in Seq(Byte) /\ Len(p) = 2
  <1>1. PICK a \in Byte, b \in Byte : p = <<a, b>>
    OBVIOUS
  <1>2. p = <<p[1], p[2]>> /\ p[1] \in Byte /\ p[2] \in Byte
    BY <1>1
  <1>3. <<a, b>> \in Seq(Byte) /\ Len(<<a, b>>) = 2
    OBVIOUS
  <1> QED
    BY <1>1, <1>2, <1>3

\* One string of bytes behind another.
LEMMA Behind ==
    ASSUME NEW s \in Seq(Byte), NEW t \in Seq(Byte), NEW u, u = s \o t
    PROVE  /\ u \in Seq(Byte) /\ Len(u) = Len(s) + Len(t)
           /\ \A i \in 1 .. Len(s) : u[i] = s[i]
           /\ \A i \in 1 .. Len(t) : u[i + Len(s)] = t[i]
           /\ \A i \in 1 .. Len(s) + Len(t) : u[i] \in Byte
  <1> DEFINE m == Len(s)
             n == Len(t)
  <1>1. /\ u \in Seq(Byte) /\ Len(u) = m + n
        /\ \A i \in 1 .. m + n : u[i] = IF i <= m THEN s[i] ELSE t[i - m]
    BY ConcatProperties
  <1>2. m \in Nat /\ n \in Nat
    BY LenProperties
  <1>3. \A i \in 1 .. Len(u) : u[i] \in Byte
    BY <1>1, ElementOfSeq
  <1> HIDE DEF m, n
  <1>4. \A i \in 1 .. m : u[i] = s[i]
    BY <1>1, <1>2
  <1>5. ASSUME NEW i \in 1 .. n PROVE u[i + m] = t[i]
    <2>1. i + m \in 1 .. m + n /\ ~(i + m <= m) /\ (i + m) - m = i
      BY <1>2
    <2> QED
      BY <1>1, <2>1
  <1>6. \A i \in 1 .. m + n : u[i] \in Byte
    BY <1>1, <1>3
  <1> QED
    BY <1>1, <1>4, <1>5, <1>6 DEF m, n

LEMMA SummedIs ==
    ASSUME NEW s, HasBytes(s)
    PROVE  /\ Summed(s) \in Seq(Byte) /\ Len(Summed(s)) = SAP_SECTSIZE + 4
           /\ Summed(s)[1] = s.head[1] /\ Summed(s)[2] = s.head[2]
           /\ Summed(s)[3] = s.label[1] /\ Summed(s)[4] = s.label[2]
           /\ \A i \in 1 .. SAP_SECTSIZE : Summed(s)[i + 4] = s.data[i]
           /\ \A i \in 1 .. SAP_SECTSIZE + 4 : Summed(s)[i] \in Byte
  <1> DEFINE h == s.head
             l == s.label
             d == s.data
             hl == h \o l
             x == hl \o d
  <1>1. SAP_SECTSIZE \in Nat \ {0}
    BY SapSectorAssumption
  <1>2. h \in Byte \X Byte /\ l \in Byte \X Byte /\ d \in [1 .. SAP_SECTSIZE -> Byte]
    BY DEF HasBytes
  <1>3. Summed(s) = x
    BY DEF Summed
  <1> HIDE DEF h, l, d
  <1>4. /\ h \in Seq(Byte) /\ Len(h) = 2 /\ l \in Seq(Byte) /\ Len(l) = 2
        /\ d \in Seq(Byte) /\ Len(d) = SAP_SECTSIZE
    <2>1. d \in Seq(Byte) /\ Len(d) = SAP_SECTSIZE
      BY <1>1, <1>2
    <2> QED
      BY <1>2, <2>1, Pair
  <1>5. hl = h \o l /\ x = hl \o d
    OBVIOUS
  <1> HIDE DEF hl, x
  <1>6. /\ hl \in Seq(Byte) /\ Len(hl) = 2 + 2
        /\ \A i \in 1 .. 2 : hl[i] = h[i]
        /\ \A i \in 1 .. 2 : hl[i + 2] = l[i]
    <2>1. /\ hl \in Seq(Byte) /\ Len(hl) = Len(h) + Len(l)
          /\ \A i \in 1 .. Len(h) : hl[i] = h[i]
          /\ \A i \in 1 .. Len(l) : hl[i + Len(h)] = l[i]
      <3>1. h \in Seq(Byte) /\ l \in Seq(Byte) /\ hl = h \o l
        BY <1>4, <1>5
      <3> QED
        BY ONLY <3>1, Behind
    <2> QED
      BY <1>4, <1>5, <2>1
  <1>7. hl[1] = h[1] /\ hl[2] = h[2] /\ hl[3] = l[1] /\ hl[4] = l[2]
    <2>1. hl[1 + 2] = l[1] /\ hl[2 + 2] = l[2]
      BY <1>6
    <2> QED
      BY <1>6, <2>1
  <1>8. /\ x \in Seq(Byte) /\ Len(x) = 4 + SAP_SECTSIZE
        /\ \A i \in 1 .. 4 : x[i] = hl[i]
        /\ \A i \in 1 .. SAP_SECTSIZE : x[i + 4] = d[i]
        /\ \A i \in 1 .. 4 + SAP_SECTSIZE : x[i] \in Byte
    <2>1. hl \in Seq(Byte) /\ d \in Seq(Byte) /\ x = hl \o d
      BY <1>4, <1>5, <1>6
    <2>2. /\ x \in Seq(Byte) /\ Len(x) = Len(hl) + Len(d)
          /\ \A i \in 1 .. Len(hl) : x[i] = hl[i]
          /\ \A i \in 1 .. Len(d) : x[i + Len(hl)] = d[i]
          /\ \A i \in 1 .. Len(hl) + Len(d) : x[i] \in Byte
      BY ONLY <2>1, Behind
    <2>3. Len(hl) = 4 /\ Len(d) = SAP_SECTSIZE
      BY <1>4, <1>6
    <2> QED
      BY ONLY <2>2, <2>3
  <1>9. 4 + SAP_SECTSIZE = SAP_SECTSIZE + 4
    BY <1>1
  <1> QED
    BY <1>3, <1>7, <1>8, <1>9 DEF h, l, d

\* do_crc of a sector is a word, the last of the words that the bytes give.
LEMMA CrcOfBytes ==
    ASSUME NEW s, HasBytes(s)
    PROVE  /\ do_crc(s) = Reference(s)
           /\ \E f : /\ IsCrcOf(f, Summed(s), SAP_SECTSIZE + 4)
                     /\ \A i \in 0 .. SAP_SECTSIZE + 4 : f[i] \in Register
                     /\ do_crc(s) = f[SAP_SECTSIZE + 4]
  <1>1. /\ Len(Summed(s)) = SAP_SECTSIZE + 4
        /\ \A i \in 1 .. SAP_SECTSIZE + 4 : Summed(s)[i] \in Byte
    BY SummedIs
  <1>2. SAP_SECTSIZE + 4 \in Nat
    BY SapSectorAssumption
  <1> QED
    BY <1>1, <1>2, CrcOfSector

LEMMA CrcIsWord ==
    ASSUME NEW s, HasBytes(s)
    PROVE  do_crc(s) \in Register /\ High(do_crc(s)) \in Byte /\ Low(do_crc(s)) \in Byte
  <1>1. SAP_SECTSIZE + 4 \in 0 .. SAP_SECTSIZE + 4
    BY SapSectorAssumption
  <1>2. do_crc(s) \in Register
    BY <1>1, CrcOfBytes
  <1> QED
    BY <1>2, HighLow

LEMMA EncodedIs ==
    ASSUME NEW s, HasBytes(s)
    PROVE  /\ Encoded(s) \in [1 .. SAP_SECTSIZE + 6 -> Byte]
           /\ \A i \in 1 .. SAP_SECTSIZE + 4 : Encoded(s)[i] = SymDiff(Summed(s)[i], Mask(i))
           /\ Encoded(s)[SAP_SECTSIZE + 5] = High(do_crc(s))
           /\ Encoded(s)[SAP_SECTSIZE + 6] = Low(do_crc(s))
  <1> DEFINE n == SAP_SECTSIZE
             h == s.head \o s.label
             m == Masked(s.data)
             a == High(do_crc(s))
             b == Low(do_crc(s))
             e == Encoded(s)
             x == Summed(s)
  <1>1. n \in Nat \ {0}
    BY SapSectorAssumption
  <1>2. a \in Byte /\ b \in Byte
    BY CrcIsWord
  <1>3. m \in Seq(Byte) /\ Len(m) = n /\ \A i \in 1 .. n : m[i] = SymDiff(s.data[i], SAP_MAGIC_NUM)
    <2>1. \A i \in 1 .. n : SymDiff(s.data[i], SAP_MAGIC_NUM) \in Byte
      <3>1. \A i \in 1 .. n : s.data[i] \in Byte
        BY DEF HasBytes
      <3>2. SAP_MAGIC_NUM \in Byte
        BY DEF SAP_MAGIC_NUM, Byte
      <3> QED
        BY <3>1, <3>2 DEF SymDiff, Byte
    <2>2. m \in [1 .. n -> Byte] /\ \A i \in 1 .. n : m[i] = SymDiff(s.data[i], SAP_MAGIC_NUM)
      BY <2>1 DEF Masked
    <2> HIDE DEF m
    <2> QED
      BY <1>1, <2>2
  <1>4. h \in Seq(Byte) /\ Len(h) = 4 /\ \A i \in 1 .. 4 : h[i] = x[i]
    <2>1. /\ s.head \in Seq(Byte) /\ Len(s.head) = 2 /\ s.label \in Seq(Byte) /\ Len(s.label) = 2
      BY Pair DEF HasBytes
    <2> DEFINE p == s.head
               q == s.label
    <2>2. p \in Seq(Byte) /\ Len(p) = 2 /\ q \in Seq(Byte) /\ Len(q) = 2 /\ h = p \o q
      BY <2>1
    <2>3. p[1] = x[1] /\ p[2] = x[2] /\ q[1] = x[3] /\ q[2] = x[4]
      BY SummedIs
    <2> HIDE DEF p, q, h, x
    <2>4. /\ h \in Seq(Byte) /\ Len(h) = 2 + 2
          /\ \A i \in 1 .. 2 : h[i] = p[i]
          /\ \A i \in 1 .. 2 : h[i + 2] = q[i]
      <3>1. /\ h \in Seq(Byte) /\ Len(h) = Len(p) + Len(q)
            /\ \A i \in 1 .. Len(p) : h[i] = p[i]
            /\ \A i \in 1 .. Len(q) : h[i + Len(p)] = q[i]
        <4>1. p \in Seq(Byte) /\ q \in Seq(Byte) /\ h = p \o q
          BY <2>2
        <4> QED
          BY ONLY <4>1, Behind
      <3> QED
        BY <2>2, <3>1
    <2>5. h[1 + 2] = q[1] /\ h[2 + 2] = q[2]
      BY <2>4
    <2>6. \A i \in 1 .. 4 : i = 1 \/ i = 2 \/ i = 3 \/ i = 4
      OBVIOUS
    <2> QED
      BY <2>3, <2>4, <2>5, <2>6
  <1>5. \A i \in 1 .. n : x[i + 4] = s.data[i]
    BY SummedIs
  <1>6. e = (h \o m) \o <<a, b>>
    BY DEF Encoded
  <1> HIDE DEF n, h, m, a, b, e, x
  <1> DEFINE hm == h \o m
  <1>7. /\ hm \in Seq(Byte) /\ Len(hm) = 4 + n
        /\ \A i \in 1 .. 4 : hm[i] = h[i]
        /\ \A i \in 1 .. n : hm[i + 4] = m[i]
    <2>1. hm = h \o m
      OBVIOUS
    <2> HIDE DEF hm
    <2> QED
      <3>1. /\ hm \in Seq(Byte) /\ Len(hm) = Len(h) + Len(m)
            /\ \A i \in 1 .. Len(h) : hm[i] = h[i]
            /\ \A i \in 1 .. Len(m) : hm[i + Len(h)] = m[i]
        <4>1. h \in Seq(Byte) /\ m \in Seq(Byte) /\ hm = h \o m
          BY <1>3, <1>4, <2>1
        <4> QED
          BY ONLY <4>1, Behind
      <3> QED
        BY <1>3, <1>4, <2>1, <3>1
  <1> HIDE DEF hm
  <1>10. e = hm \o <<a, b>>
    BY <1>6 DEF hm
  <1>11. /\ e \in Seq(Byte) /\ Len(e) = (4 + n) + 2
         /\ \A i \in 1 .. 4 + n : e[i] = hm[i]
         /\ \A i \in 1 .. 2 : e[i + (4 + n)] = <<a, b>>[i]
    <2> DEFINE ab == <<a, b>>
    <2>1. ab \in Seq(Byte) /\ Len(ab) = 2 /\ 4 + n \in Nat
      BY <1>1, <1>2
    <2>2. e = hm \o ab
      BY <1>10
    <2> HIDE DEF ab
    <2>3. /\ e \in Seq(Byte) /\ Len(e) = (4 + n) + 2
          /\ \A i \in 1 .. 4 + n : e[i] = hm[i]
          /\ \A i \in 1 .. 2 : e[i + (4 + n)] = ab[i]
      <3>1. /\ e \in Seq(Byte) /\ Len(e) = Len(hm) + Len(ab)
            /\ \A i \in 1 .. Len(hm) : e[i] = hm[i]
            /\ \A i \in 1 .. Len(ab) : e[i + Len(hm)] = ab[i]
        <4>1. hm \in Seq(Byte) /\ ab \in Seq(Byte) /\ e = hm \o ab
          BY <1>7, <2>1, <2>2
        <4> QED
          BY ONLY <4>1, Behind
      <3> QED
        BY <1>7, <2>1, <2>2, <3>1
    <2> QED
      BY <2>3 DEF ab
  <1>12. e[n + 5] = a /\ e[n + 6] = b
    <2>1. e[1 + (4 + n)] = a /\ e[2 + (4 + n)] = b
      BY <1>11
    <2>2. 1 + (4 + n) = n + 5 /\ 2 + (4 + n) = n + 6
      BY <1>1
    <2> QED
      BY <2>1, <2>2
  <1>13. \A i \in 1 .. n + 4 : e[i] = hm[i]
    BY <1>1, <1>11
  <1>14. e \in [1 .. n + 6 -> Byte]
    BY <1>1, <1>11
  <1>15. ASSUME NEW i \in 1 .. n + 4
         PROVE  e[i] = SymDiff(x[i], IF i \in 5 .. n + 4 THEN SAP_MAGIC_NUM ELSE {})
    <2>1. CASE i \in 1 .. 4
      BY <1>1, <1>4, <1>7, <1>13, <2>1, XorGroup
    <2>2. CASE i \in 5 .. n + 4
      <3>1. i - 4 \in 1 .. n /\ (i - 4) + 4 = i
        BY <1>1, <2>2
      <3>2. hm[i] = m[i - 4] /\ x[i] = s.data[i - 4]
        BY <1>5, <1>7, <3>1
      <3>3. e[i] = SymDiff(x[i], SAP_MAGIC_NUM)
        BY <1>3, <1>13, <3>1, <3>2
      <3> QED
        BY <2>2, <3>3
    <2> QED
      BY <1>1, <2>1, <2>2
  <1> QED
    BY <1>12, <1>14, <1>15 DEF n, a, b, e, x, Mask

LEMMA TwoOf ==
    ASSUME NEW f, NEW k \in Nat, NEW l \in Nat, l = k + 1
    PROVE  SubSeq(f, k, l) = <<f[k], f[l]>>
  <1>1. SubSeq(f, k, l) = [i \in 1 .. l - k + 1 |-> f[i + k - 1]]
    BY DEF SubSeq
  <1>2. l - k + 1 = 2 /\ 1 + k - 1 = k /\ 2 + k - 1 = l
    OBVIOUS
  <1> DEFINE g == [i \in 1 .. 2 |-> f[i + k - 1]]
  <1>3. g[1] = f[k] /\ g[2] = f[l]
    BY <1>2
  <1>4. g = [i \in 1 .. 2 |-> g[i]]
    OBVIOUS
  <1>5. SubSeq(f, k, l) = g
    BY <1>1, <1>2
  <1> HIDE DEF g
  <1>6. <<f[k], f[l]>> = [i \in 1 .. 2 |-> <<f[k], f[l]>>[i]]
    OBVIOUS
  <1>7. \A i \in 1 .. 2 : g[i] = <<f[k], f[l]>>[i]
    BY <1>3
  <1>8. g = <<f[k], f[l]>>
    BY <1>4, <1>6, <1>7
  <1> QED
    BY <1>5, <1>8

\* What is read from the file: the byte at each place without its mask.
LEMMA ReadIs ==
    ASSUME file \in [1 .. SAP_SECTSIZE + 6 -> Byte]
    PROVE  /\ HasBytes(do_read_sector)
           /\ \A i \in 1 .. SAP_SECTSIZE + 4 : Summed(do_read_sector)[i] = SymDiff(file[i], Mask(i))
           /\ do_read_sector.crc = <<file[SAP_SECTSIZE + 5], file[SAP_SECTSIZE + 6]>>
  <1> DEFINE n == SAP_SECTSIZE
             r == do_read_sector
             sub == SubSeq(file, 5, n + 4)
  <1>1. n \in Nat \ {0}
    BY SapSectorAssumption
  <1>2. file \in Seq(Byte) /\ Len(file) = n + 6
    BY <1>1
  <1>3. \A i \in 1 .. n + 6 : file[i] \in Byte
    OBVIOUS
  <1>4. SubSeq(file, 1, 2) = <<file[1], file[2]>> /\ SubSeq(file, 3, 4) = <<file[3], file[4]>>
    <2>1. \A k \in Nat : \A l \in Nat : l = k + 1 => SubSeq(file, k, l) = <<file[k], file[l]>>
      BY TwoOf
    <2>2. 1 \in Nat /\ 2 \in Nat /\ 3 \in Nat /\ 4 \in Nat /\ 2 = 1 + 1 /\ 4 = 3 + 1
      OBVIOUS
    <2> QED
      BY <2>1, <2>2, Zenon
  <1>5. SubSeq(file, n + 5, n + 6) = <<file[n + 5], file[n + 6]>>
    <2>1. n + 5 \in Nat /\ n + 6 \in Nat /\ n + 6 = (n + 5) + 1
      BY <1>1
    <2> QED
      BY <2>1, TwoOf
  <1>6. \A i \in 1 .. n : sub[i] = file[i + 4]
    <2>1. 5 \in Nat /\ n + 4 \in Nat /\ n + 4 <= n + 6
      BY <1>1
    <2>2. sub = [i \in 1 .. (n + 4) - 5 + 1 |-> file[i + 5 - 1]]
      BY <1>2, <2>1 DEF SubSeq
    <2>3. (n + 4) - 5 + 1 = n /\ \A i \in 1 .. n : i + 5 - 1 = i + 4
      BY <1>1
    <2> HIDE DEF sub
    <2> QED
      BY <2>2, <2>3
  <1> HIDE DEF sub
  <1>7. /\ r.head = <<file[1], file[2]>> /\ r.label = <<file[3], file[4]>>
        /\ r.data = [i \in 1 .. n |-> SymDiff(sub[i], SAP_MAGIC_NUM)]
        /\ r.crc = <<file[n + 5], file[n + 6]>>
    BY <1>1, <1>4, <1>5 DEF do_read_sector, Unmasked, Masked, SAP_EXTSECTSIZE, sub
  <1> HIDE DEF r
  <1>8. HasBytes(r)
    <2>1. 1 \in 1 .. n + 6 /\ 2 \in 1 .. n + 6 /\ 3 \in 1 .. n + 6 /\ 4 \in 1 .. n + 6
      BY <1>1
    <2>2. r.head \in Byte \X Byte /\ r.label \in Byte \X Byte
      BY <1>3, <1>7, <2>1
    <2>3. \A i \in 1 .. n : SymDiff(sub[i], SAP_MAGIC_NUM) \in Byte
      <3>1. \A i \in 1 .. n : sub[i] \in Byte
        BY <1>1, <1>3, <1>6
      <3>2. SAP_MAGIC_NUM \in Byte
        BY DEF SAP_MAGIC_NUM, Byte
      <3> QED
        BY <3>1, <3>2 DEF SymDiff, Byte
    <2>4. r.data \in [1 .. n -> Byte]
      BY <1>7, <2>3
    <2> QED
      BY <2>2, <2>4 DEF HasBytes
  <1>9. ASSUME NEW i \in 1 .. n + 4 PROVE Summed(r)[i] = SymDiff(file[i], Mask(i))
    <2>1. CASE i \in 1 .. 4
      <3>1. Mask(i) = {}
        BY <2>1 DEF Mask
      <3>2. Summed(r)[i] = file[i]
        <4>1. i = 1 \/ i = 2 \/ i = 3 \/ i = 4
          BY <2>1
        <4>2. /\ Summed(r)[1] = r.head[1] /\ Summed(r)[2] = r.head[2]
              /\ Summed(r)[3] = r.label[1] /\ Summed(r)[4] = r.label[2]
          BY <1>8, SummedIs
        <4> QED
          BY <1>7, <4>1, <4>2
      <3> QED
        BY <3>1, <3>2, XorGroup
    <2>2. CASE i \in 5 .. n + 4
      <3>1. i - 4 \in 1 .. n /\ (i - 4) + 4 = i
        BY <1>1, <2>2
      <3>2. Mask(i) = SAP_MAGIC_NUM
        BY <2>2 DEF Mask
      <3>3. Summed(r)[(i - 4) + 4] = r.data[i - 4]
        BY <1>8, <3>1, SummedIs
      <3>4. r.data[i - 4] = SymDiff(file[i], SAP_MAGIC_NUM)
        BY <1>6, <1>7, <3>1
      <3> QED
        BY <3>1, <3>2, <3>3, <3>4
    <2> QED
      BY <1>1, <2>1, <2>2
  <1> QED
    BY <1>7, <1>8, <1>9 DEF r

-----------------------------------------------------------------------------
(***************************************************************************)
(* The file holds the sector that was written, with one burst once it was  *)
(* damaged, and what was read is what the file holds.                      *)
(***************************************************************************)
WithBurst(e, k, b) == [e EXCEPT ![k] = SymDiff(@, b[1]), ![k + 1] = SymDiff(@, b[2])]

ResultOf(place) ==
    LET s == do_read_sector
    IN [place |-> place, head |-> s.head, label |-> s.label, data |-> s.data, crc |-> s.crc,
        flag |-> Flags(s, place)]

FileIsSector ==
    IF damaged
    THEN \E k \in 1 .. SAP_SECTSIZE + 5, b \in Bursts : file = WithBurst(Encoded(written), k, b)
    ELSE file = Encoded(written)

SectorInv ==
    /\ written \in Sector
    /\ damaged \in BOOLEAN
    /\ file \in [1 .. SAP_SECTSIZE + 6 -> Byte]
    /\ FileIsSector
    /\ read # NotRead => \E place \in Places : read = ResultOf(place)

LEMMA SectorHasBytes ==
    ASSUME NEW s \in Sector
    PROVE  HasBytes(s)
  <1>1. s.head \in Headers /\ s.label \in Places /\ s.data \in [1 .. SAP_SECTSIZE -> Bytes]
    BY DEF Sector
  <1> QED
    BY <1>1, SapSectorAssumption DEF HasBytes

LEMMA SectorInitInv == SectorInit => SectorInv
  <1> SUFFICES ASSUME SectorInit PROVE SectorInv
    OBVIOUS
  <1>1. HasBytes(written)
    BY SectorHasBytes DEF SectorInit
  <1> QED
    BY <1>1, EncodedIs DEF SectorInit, SectorInv, FileIsSector

LEMMA SectorNextInv == SectorInv /\ [SectorNext]_sectorvars => SectorInv'
  <1> SUFFICES ASSUME SectorInv, [SectorNext]_sectorvars PROVE SectorInv'
    OBVIOUS
  <1>1. CASE sap_WriteSector
    <2>1. PICK place \in Places : do_write_sector([written EXCEPT !.label = place])
      BY <1>1 DEF sap_WriteSector
    <2>2. written' = [written EXCEPT !.label = place] /\ file' = Encoded(written')
      BY <2>1 DEF do_write_sector
    <2>3. written' \in Sector
      BY <2>2 DEF SectorInv, Sector
    <2>4. file' \in [1 .. SAP_SECTSIZE + 6 -> Byte]
      BY <2>2, <2>3, SectorHasBytes, EncodedIs
    <2>5. damaged' = FALSE /\ read' = NotRead
      BY <1>1 DEF sap_WriteSector
    <2>6. FileIsSector'
      BY <2>2, <2>5 DEF FileIsSector
    <2>7. NotRead' = NotRead
      BY DEF NotRead
    <2> QED
      BY <2>3, <2>4, <2>5, <2>6, <2>7 DEF SectorInv
  <1>2. ASSUME NEW place \in Places, sap_ReadSector(place) PROVE SectorInv'
    <2>1. UNCHANGED <<file, written, damaged>> /\ read' = ResultOf(place)
      BY <1>2 DEF sap_ReadSector, ResultOf
    <2>2. do_read_sector' = do_read_sector
      BY <2>1 DEF do_read_sector
    <2>3. ResultOf(place)' = ResultOf(place)
      BY <2>1, <2>2 DEF ResultOf
    <2>4. FileIsSector'
      BY <2>1 DEF FileIsSector, SectorInv
    <2> QED
      BY <2>1, <2>3, <2>4 DEF SectorInv
  <1>3. CASE Damage
    <2>1. PICK k \in 1 .. SAP_EXTSECTSIZE - 1, b \in Bursts :
             file' = [file EXCEPT ![k] = SymDiff(@, b[1]), ![k + 1] = SymDiff(@, b[2])]
      BY <1>3 DEF Damage
    <2>2. ~damaged /\ damaged' = TRUE /\ read' = NotRead /\ written' = written
      BY <1>3 DEF Damage
    <2>3. file = Encoded(written)
      BY <2>2 DEF SectorInv, FileIsSector
    <2>4. k \in 1 .. SAP_SECTSIZE + 5
      BY SapSectorAssumption DEF SAP_EXTSECTSIZE
    <2>5. FileIsSector'
      BY <2>1, <2>2, <2>3, <2>4 DEF FileIsSector, WithBurst
    <2>6. b[1] \in Byte /\ b[2] \in Byte
      BY SapSectorAssumption
    <2>7. file' \in [1 .. SAP_SECTSIZE + 6 -> Byte]
      <3>1. \A c \in Byte, d \in Byte : SymDiff(c, d) \in Byte
        BY DEF SymDiff, Byte
      <3> QED
        BY <2>1, <2>6, <3>1 DEF SectorInv
    <2>8. NotRead' = NotRead
      BY DEF NotRead
    <2> QED
      BY <2>2, <2>5, <2>7, <2>8 DEF SectorInv
  <1>4. CASE UNCHANGED sectorvars
    <2>1. UNCHANGED <<file, written, damaged, read>>
      BY <1>4 DEF sectorvars
    <2>2. do_read_sector' = do_read_sector
      BY <2>1 DEF do_read_sector
    <2>3. \A place : ResultOf(place)' = ResultOf(place)
      BY <2>1, <2>2 DEF ResultOf
    <2>4. FileIsSector'
      BY <2>1 DEF FileIsSector, SectorInv
    <2> QED
      BY <2>1, <2>3, <2>4 DEF SectorInv
  <1> QED
    BY <1>1, <1>2, <1>3, <1>4 DEF SectorNext

LEMMA SectorAlways == SectorSpec => []SectorInv
  BY SectorInitInv, SectorNextInv, PTL DEF SectorSpec

\* The sector read as a whole, and its fields in what sap_ReadSector gives.
LEMMA ReadFields ==
    ASSUME SectorInv, read # NotRead
    PROVE  /\ read.head = do_read_sector.head /\ read.label = do_read_sector.label
           /\ read.data = do_read_sector.data /\ read.crc = do_read_sector.crc
           /\ read.flag = Flags(do_read_sector, read.place)
           /\ HasBytes(read) /\ Summed(read) = Summed(do_read_sector)
  <1>1. PICK place \in Places : read = ResultOf(place)
    BY DEF SectorInv
  <1>2. /\ read.head = do_read_sector.head /\ read.label = do_read_sector.label
        /\ read.data = do_read_sector.data /\ read.crc = do_read_sector.crc
        /\ read.flag = Flags(do_read_sector, read.place)
    BY <1>1 DEF ResultOf
  <1>3. HasBytes(do_read_sector)
    BY ReadIs DEF SectorInv
  <1> QED
    BY <1>2, <1>3 DEF HasBytes, Summed

\* Two sectors with the same bytes summed are the same.
LEMMA SameSector ==
    ASSUME NEW s, NEW t, HasBytes(s), HasBytes(t),
           \A i \in 1 .. SAP_SECTSIZE + 4 : Summed(s)[i] = Summed(t)[i]
    PROVE  s.head = t.head /\ s.label = t.label /\ s.data = t.data
  <1>1. SAP_SECTSIZE \in Nat \ {0}
    BY SapSectorAssumption
  <1>2. 1 \in 1 .. SAP_SECTSIZE + 4 /\ 2 \in 1 .. SAP_SECTSIZE + 4
        /\ 3 \in 1 .. SAP_SECTSIZE + 4 /\ 4 \in 1 .. SAP_SECTSIZE + 4
    BY <1>1
  <1>3. /\ s.head[1] = t.head[1] /\ s.head[2] = t.head[2]
        /\ s.label[1] = t.label[1] /\ s.label[2] = t.label[2]
    BY <1>2, SummedIs
  <1>4. s.head = t.head /\ s.label = t.label
    <2>1. s.head = <<s.head[1], s.head[2]>> /\ t.head = <<t.head[1], t.head[2]>>
          /\ s.label = <<s.label[1], s.label[2]>> /\ t.label = <<t.label[1], t.label[2]>>
      BY Pair DEF HasBytes
    <2> QED
      BY <1>3, <2>1, Zenon
  <1>5. s.data = t.data
    <2>1. ASSUME NEW i \in 1 .. SAP_SECTSIZE PROVE s.data[i] = t.data[i]
      <3>1. i + 4 \in 1 .. SAP_SECTSIZE + 4
        BY <1>1
      <3> QED
        BY <3>1, SummedIs
    <2>2. s.data \in [1 .. SAP_SECTSIZE -> Byte] /\ t.data \in [1 .. SAP_SECTSIZE -> Byte]
      BY DEF HasBytes
    <2>3. \A c, d \in [1 .. SAP_SECTSIZE -> Byte] : (\A i \in 1 .. SAP_SECTSIZE : c[i] = d[i]) => c = d
      <3> SUFFICES ASSUME NEW c \in [1 .. SAP_SECTSIZE -> Byte], NEW d \in [1 .. SAP_SECTSIZE -> Byte],
                          \A i \in 1 .. SAP_SECTSIZE : c[i] = d[i]
                   PROVE  c = d
        BY Zenon
      <3>1. c = [i \in 1 .. SAP_SECTSIZE |-> c[i]] /\ d = [i \in 1 .. SAP_SECTSIZE |-> d[i]]
        OBVIOUS
      <3>2. [i \in 1 .. SAP_SECTSIZE |-> c[i]] = [i \in 1 .. SAP_SECTSIZE |-> d[i]]
        BY Zenon
      <3> QED
        BY <3>1, <3>2, Zenon
    <2> QED
      BY <2>1, <2>2, <2>3, Zenon
  <1> QED
    BY <1>4, <1>5

\* A sector reads back as it was written, bit for bit, for every size of a sector,
\* every byte of its header and its data: the mask of do_read_sector takes that of
\* do_write_sector off, and the flags of the format, the protection and the label
\* are those of the sector (do_write_sector, do_read_sector, sap_ReadSector).
THEOREM SectorsReadBack == SectorSpec => []ReadsBack
  <1>1. SectorInv => ReadsBack
    <2> SUFFICES ASSUME SectorInv, read # NotRead, ~damaged
                 PROVE  /\ read.head = written.head /\ read.label = written.label
                        /\ read.data = written.data
                        /\ HasFlag(SAP_NO_STD_FMT) <=> written.head[1] # {}
                        /\ HasFlag(SAP_PROTECTED)  <=> written.head[2] # {}
                        /\ HasFlag(SAP_BAD_SECTOR) <=> written.label # read.place
      BY DEF ReadsBack
    <2> DEFINE r == do_read_sector
               w == written
    <2>1. HasBytes(w) /\ HasBytes(r) /\ file = Encoded(w)
      BY SectorHasBytes, ReadIs DEF SectorInv, FileIsSector
    <2>2. ASSUME NEW i \in 1 .. SAP_SECTSIZE + 4 PROVE Summed(r)[i] = Summed(w)[i]
      <3>1. Summed(r)[i] = SymDiff(SymDiff(Summed(w)[i], Mask(i)), Mask(i))
        BY <2>1, ReadIs, EncodedIs DEF SectorInv
      <3> QED
        BY <3>1, XorGroup
    <2>3. r.head = w.head /\ r.label = w.label /\ r.data = w.data
      BY <2>1, <2>2, SameSector
    <2>4. /\ read.head = r.head /\ read.label = r.label /\ read.data = r.data
          /\ read.flag = Flags(r, read.place)
      BY ReadFields
    <2> HIDE DEF r
    <2>5. /\ HasFlag(SAP_NO_STD_FMT) <=> r.head[1] # {}
          /\ HasFlag(SAP_PROTECTED)  <=> r.head[2] # {}
          /\ HasFlag(SAP_BAD_SECTOR) <=> LabelDiffers(r, read.place)
      BY <2>4 DEF HasFlag, Flags, SAP_NO_STD_FMT, SAP_PROTECTED, SAP_BAD_SECTOR, SAP_CRC_ERROR
    <2>6. LabelDiffers(r, read.place) <=> r.label # read.place
      <3>1. PICK place \in Places : read = ResultOf(place)
        BY DEF SectorInv
      <3>2. read.place \in Byte \X Byte
        BY <3>1, SapSectorAssumption DEF ResultOf
      <3>3. read.place = <<read.place[1], read.place[2]>>
        BY <3>2, Pair
      <3>4. r.label = <<r.label[1], r.label[2]>>
        BY <2>1, Pair DEF HasBytes
      <3> QED
        BY <3>3, <3>4 DEF LabelDiffers
    <2> QED
      BY <2>3, <2>4, <2>5, <2>6
  <1> QED
    BY <1>1, SectorAlways, PTL

\* The table of crc_pukall and its two steps per byte are the CRC-CCITT, one bit at
\* a time, of every string of bytes: the shift of a negative crcpuk_temp does no
\* harm (crc_pukall, do_crc).
THEOREM TableIsCcitt == SectorSpec => []CrcIsCcitt
  <1>1. SectorInv => CrcIsCcitt
    <2> SUFFICES ASSUME SectorInv PROVE do_crc(written) = Reference(written)
      BY DEF CrcIsCcitt
    <2>1. HasBytes(written)
      BY SectorHasBytes DEF SectorInv
    <2> QED
      BY <2>1, CrcOfBytes
  <1> QED
    BY <1>1, SectorAlways, PTL

\* One burst in the file: where it fell, and what the bytes read are.
LEMMA BurstRead ==
    ASSUME SectorInv, damaged, read # NotRead
    PROVE  \E k \in 1 .. SAP_SECTSIZE + 5, b1 \in Byte, b2 \in Byte :
              /\ b1 # {} \/ b2 # {}
              /\ \A i \in 1 .. SAP_SECTSIZE + 4 :
                    Summed(read)[i] = IF i = k THEN SymDiff(Summed(written)[i], b1)
                                      ELSE IF i = k + 1 THEN SymDiff(Summed(written)[i], b2)
                                      ELSE Summed(written)[i]
              /\ read.crc[1] = IF k = SAP_SECTSIZE + 5 THEN SymDiff(High(do_crc(written)), b1)
                               ELSE IF k = SAP_SECTSIZE + 4 THEN SymDiff(High(do_crc(written)), b2)
                               ELSE High(do_crc(written))
              /\ read.crc[2] = IF k = SAP_SECTSIZE + 5 THEN SymDiff(Low(do_crc(written)), b2)
                               ELSE Low(do_crc(written))
              /\ read.crc = <<read.crc[1], read.crc[2]>>
  <1> DEFINE n == SAP_SECTSIZE
             e == Encoded(written)
  <1>1. n \in Nat \ {0}
    BY SapSectorAssumption
  <1>2. PICK k \in 1 .. n + 5, b \in Bursts : file = WithBurst(e, k, b)
    BY DEF SectorInv, FileIsSector
  <1> DEFINE b1 == b[1]
             b2 == b[2]
  <1>3. b1 \in Byte /\ b2 \in Byte /\ (b1 # {} \/ b2 # {})
    <2>1. b \in Byte \X Byte /\ b # <<{}, {}>>
      BY SapSectorAssumption
    <2> QED
      BY <2>1, Pair
  <1>4. HasBytes(written)
    BY SectorHasBytes DEF SectorInv
  <1>5. e \in [1 .. n + 6 -> Byte]
    BY <1>4, EncodedIs
  <1>6. file = [e EXCEPT ![k] = SymDiff(@, b1), ![k + 1] = SymDiff(@, b2)]
    BY <1>2 DEF WithBurst
  <1> HIDE DEF e, b1, b2
  <1>7. \A i \in 1 .. n + 6 : file[i] = IF i = k THEN SymDiff(e[i], b1)
                                        ELSE IF i = k + 1 THEN SymDiff(e[i], b2) ELSE e[i]
    BY <1>1, <1>5, <1>6
  <1>8. ASSUME NEW i \in 1 .. n + 4
        PROVE  Summed(read)[i] = IF i = k THEN SymDiff(Summed(written)[i], b1)
                                 ELSE IF i = k + 1 THEN SymDiff(Summed(written)[i], b2)
                                 ELSE Summed(written)[i]
    <2> DEFINE x == Summed(written)[i]
               m == Mask(i)
    <2>1. Summed(read)[i] = SymDiff(file[i], m)
      BY ReadFields, ReadIs DEF SectorInv
    <2>2. e[i] = SymDiff(x, m)
      BY <1>4, EncodedIs DEF e
    <2>3. i \in 1 .. n + 6
      BY <1>1
    <2> HIDE DEF x, m
    <2>4. \A c : SymDiff(SymDiff(SymDiff(x, m), c), m) = SymDiff(x, c) /\ SymDiff(SymDiff(x, m), m) = x
      BY DEF SymDiff
    <2> QED
      BY <1>7, <2>1, <2>2, <2>3, <2>4 DEF x
  <1>9. read.crc = <<file[n + 5], file[n + 6]>>
    BY ReadFields, ReadIs DEF SectorInv
  <1>10. e[n + 5] = High(do_crc(written)) /\ e[n + 6] = Low(do_crc(written))
    BY <1>4, EncodedIs DEF e
  <1>11. file[n + 5] = IF k = n + 5 THEN SymDiff(High(do_crc(written)), b1)
                       ELSE IF k = n + 4 THEN SymDiff(High(do_crc(written)), b2)
                       ELSE High(do_crc(written))
    <2>1. n + 5 \in 1 .. n + 6 /\ (n + 5 = k + 1 <=> k = n + 4)
      BY <1>1
    <2> QED
      BY <1>7, <1>10, <2>1
  <1>12. file[n + 6] = IF k = n + 5 THEN SymDiff(Low(do_crc(written)), b2) ELSE Low(do_crc(written))
    <2>1. n + 6 \in 1 .. n + 6 /\ n + 6 # k /\ (n + 6 = k + 1 <=> k = n + 5)
      BY <1>1
    <2> QED
      BY <1>7, <1>10, <2>1
  <1> QED
    BY <1>3, <1>8, <1>9, <1>11, <1>12

\* The CRC computed over the bytes read is not the one stored, for every burst of
\* 16 bits at every place of a sector of any size, but for the one burst 0x91, 0x85
\* over the border of the data and the CRC, and that one always goes unseen (do_crc,
\* the order of the two bytes of the CRC in do_write_sector).
THEOREM OneBurstEscapes == SectorSpec => []BurstChangesCrc
  <1>1. SectorInv => BurstChangesCrc
    <2> SUFFICES ASSUME SectorInv, read # NotRead, damaged
                 PROVE  read.crc = <<High(do_crc(read)), Low(do_crc(read))>> <=> Unseen
      BY DEF BurstChangesCrc
    <2>1. PICK n \in Nat \ {0} : n = SAP_SECTSIZE + 4 /\ SAP_SECTSIZE \in Nat \ {0}
      BY SapSectorAssumption
    <2>x. PICK x : x = Summed(written)
      OBVIOUS
    <2>y. PICK y : y = Summed(read)
      OBVIOUS
    <2>2. HasBytes(written) /\ HasBytes(read)
      BY SectorHasBytes, ReadFields DEF SectorInv
    <2>3. /\ \A i \in 1 .. n : x[i] \in Byte
          /\ written.data[SAP_SECTSIZE] = x[n] /\ read.data[SAP_SECTSIZE] = y[n]
      BY <2>1, <2>2, <2>x, <2>y, SummedIs
    <2>4. PICK f : IsCrcOf(f, x, n) /\ (\A i \in 0 .. n : f[i] \in Register) /\ do_crc(written) = f[n]
      BY <2>1, <2>2, <2>x, CrcOfBytes
    <2>5. PICK g : IsCrcOf(g, y, n) /\ (\A i \in 0 .. n : g[i] \in Register) /\ do_crc(read) = g[n]
      BY <2>1, <2>2, <2>y, CrcOfBytes
    <2>6. PICK k \in 1 .. SAP_SECTSIZE + 5, b1 \in Byte, b2 \in Byte :
              /\ b1 # {} \/ b2 # {}
              /\ \A i \in 1 .. n : y[i] = IF i = k THEN SymDiff(x[i], b1)
                                          ELSE IF i = k + 1 THEN SymDiff(x[i], b2) ELSE x[i]
              /\ read.crc[1] = IF k = SAP_SECTSIZE + 5 THEN SymDiff(High(f[n]), b1)
                               ELSE IF k = SAP_SECTSIZE + 4 THEN SymDiff(High(f[n]), b2)
                               ELSE High(f[n])
              /\ read.crc[2] = IF k = SAP_SECTSIZE + 5 THEN SymDiff(Low(f[n]), b2) ELSE Low(f[n])
              /\ read.crc = <<read.crc[1], read.crc[2]>>
      BY <2>1, <2>4, <2>x, <2>y, BurstRead
    <2>7. Unseen <=> y[n] = SymDiff(x[n], {0, 4, 7}) /\ read.crc[1] = SymDiff(High(f[n]), {0, 2, 7})
      BY <2>3, <2>4 DEF Unseen
    <2> DEFINE crc1 == read.crc[1]
               crc2 == read.crc[2]
    <2>8. f[n] \in Register /\ g[n] \in Register
      BY <2>1, <2>4, <2>5
    <2>9. (read.crc = <<High(do_crc(read)), Low(do_crc(read))>>) <=> crc1 = High(g[n]) /\ crc2 = Low(g[n])
      BY <2>5, <2>6
    <2>10. n = SAP_SECTSIZE + 4 /\ SAP_SECTSIZE + 5 = n + 1
      BY <2>1
    <2> HIDE DEF crc1, crc2
    <2> SUFFICES crc1 = High(g[n]) /\ crc2 = Low(g[n]) <=>
                   y[n] = SymDiff(x[n], {0, 4, 7}) /\ crc1 = SymDiff(High(f[n]), {0, 2, 7})
      BY <2>7, <2>9 DEF crc1
    <2>11. k \in 1 .. n + 1
      BY <2>10
    <2>12. /\ crc1 = IF k = n + 1 THEN SymDiff(High(f[n]), b1)
                   ELSE IF k = n THEN SymDiff(High(f[n]), b2) ELSE High(f[n])
           /\ crc2 = IF k = n + 1 THEN SymDiff(Low(f[n]), b2) ELSE Low(f[n])
      BY <2>6, <2>10 DEF crc1, crc2
    <2>13. \A a, b : SymDiff(a, b) = a <=> b = {}
      BY DEF SymDiff
    <2>14. \A a, b, c : SymDiff(a, b) = SymDiff(a, c) <=> b = c
      BY DEF SymDiff
    <2>15. CASE k = n + 1
      <3>1. \A i \in 1 .. n : i <= n => x[i] = y[i]
        BY <2>1, <2>6, <2>15
      <3>2. n \in Nat /\ n \in 0 .. n
        BY <2>1
      <3>3. f[n] = g[n]
        BY <2>3, <2>4, <2>5, <3>1, <3>2, CrcsAgree
      <3>4. crc1 = SymDiff(High(f[n]), b1) /\ crc2 = SymDiff(Low(f[n]), b2)
        BY <2>12, <2>15
      <3>5. ~(crc1 = High(g[n]) /\ crc2 = Low(g[n]))
        BY <2>6, <2>13, <3>3, <3>4
      <3>6. y[n] # SymDiff(x[n], {0, 4, 7})
        <4>1. y[n] = x[n] /\ {0, 4, 7} # {}
          BY <2>1, <3>1
        <4> QED
          BY <2>13, <4>1
      <3> QED
        BY <3>5, <3>6
    <2>16. CASE k = n
      <3>1. y[n] = SymDiff(x[n], b1) /\ \A i \in 1 .. n : i # n => y[i] = x[i]
        BY <2>1, <2>6, <2>16
      <3>2. g[n] = SymDiff(f[n], EightBits(b1))
        <4>1. /\ n \in Nat \ {0} /\ IsCrcOf(f, x, n) /\ IsCrcOf(g, y, n)
              /\ y[n] = SymDiff(x[n], b1) /\ \A i \in 1 .. n : i # n => y[i] = x[i]
          BY <2>1, <2>3, <2>4, <2>5, <3>1
        <4> QED
          BY ONLY <4>1, BurstAtEnd
      <3>3. /\ High(g[n]) = SymDiff(High(f[n]), High(EightBits(b1)))
            /\ Low(g[n]) = SymDiff(Low(f[n]), Low(EightBits(b1)))
        <4>1. EightBits(b1) \in Register
          BY EightBitsLinear
        <4> QED
          BY <2>8, <3>2, <4>1, HighLow
      <3>4. crc1 = SymDiff(High(f[n]), b2) /\ crc2 = Low(f[n])
        BY <2>1, <2>12, <2>16
      <3>5. crc1 = High(g[n]) /\ crc2 = Low(g[n]) <=> b2 = High(EightBits(b1)) /\ Low(EightBits(b1)) = {}
        <4>1. crc1 = High(g[n]) <=> b2 = High(EightBits(b1))
          BY <2>14, <3>3, <3>4
        <4>2. crc2 = Low(g[n]) <=> Low(EightBits(b1)) = {}
          BY <2>13, <3>3, <3>4
        <4> QED
          BY <4>1, <4>2
      <3>6. /\ y[n] = SymDiff(x[n], {0, 4, 7}) <=> b1 = {0, 4, 7}
            /\ crc1 = SymDiff(High(f[n]), {0, 2, 7}) <=> b2 = {0, 2, 7}
        <4>1. y[n] = SymDiff(x[n], {0, 4, 7}) <=> b1 = {0, 4, 7}
          <5>1. SymDiff(x[n], b1) = SymDiff(x[n], {0, 4, 7}) <=> b1 = {0, 4, 7}
            BY ONLY <2>14
          <5> QED
            BY ONLY <3>1, <5>1
        <4>2. crc1 = SymDiff(High(f[n]), {0, 2, 7}) <=> b2 = {0, 2, 7}
          <5>1. SymDiff(High(f[n]), b2) = SymDiff(High(f[n]), {0, 2, 7}) <=> b2 = {0, 2, 7}
            BY ONLY <2>14
          <5> QED
            BY ONLY <3>4, <5>1
        <4> QED
          BY ONLY <4>1, <4>2
      <3>7. b2 = High(EightBits(b1)) /\ Low(EightBits(b1)) = {} <=> b1 = {0, 4, 7} /\ b2 = {0, 2, 7}
        <4>1. CASE b1 = {}
          <5>1. EightBits(b1) = {}
            BY <4>1, EightBitsNone DEF Register
          <5>2. High(EightBits(b1)) = {}
            BY <5>1 DEF High
          <5>3. b2 # {} /\ b1 # {0, 4, 7}
            BY <2>6, <4>1
          <5> QED
            BY <5>2, <5>3
        <4>2. CASE b1 # {}
          BY <4>2, EmptyLowByte
        <4> QED
          BY <4>1, <4>2
      <3> QED
        BY <3>5, <3>6, <3>7
    <2>17. CASE k < n
      <3>1. /\ n \in Nat /\ k \in 1 .. n - 1
            /\ y[k] = SymDiff(x[k], b1) /\ y[k + 1] = SymDiff(x[k + 1], b2)
            /\ \A i \in 1 .. n : i # k /\ i # k + 1 => y[i] = x[i]
        BY <2>1, <2>6, <2>11, <2>17
      <3>2. f[n] # g[n]
        <4>1. /\ n \in Nat /\ k \in 1 .. n - 1 /\ b1 \in Byte /\ b2 \in Byte /\ (b1 # {} \/ b2 # {})
              /\ (\A i \in 1 .. n : x[i] \in Byte)
              /\ IsCrcOf(f, x, n) /\ IsCrcOf(g, y, n) /\ (\A i \in 0 .. n : f[i] \in Register)
              /\ y[k] = SymDiff(x[k], b1) /\ y[k + 1] = SymDiff(x[k + 1], b2)
              /\ \A i \in 1 .. n : i # k /\ i # k + 1 => y[i] = x[i]
          BY <2>3, <2>4, <2>5, <2>6, <3>1
        <4> QED
          BY ONLY SMTT(30), <4>1, BurstInside
      <3>3. crc1 = High(f[n]) /\ crc2 = Low(f[n])
        BY <2>1, <2>11, <2>12, <2>17
      <3>4. ~(crc1 = High(g[n]) /\ crc2 = Low(g[n]))
        BY <2>8, <3>2, <3>3, HighLow
      <3>5. crc1 # SymDiff(High(f[n]), {0, 2, 7})
        <4>1. {0, 2, 7} # {}
          OBVIOUS
        <4> QED
          BY <2>13, <3>3, <4>1
      <3> QED
        BY <3>4, <3>5
    <2> QED
      BY <2>1, <2>11, <2>15, <2>16, <2>17
  <1> QED
    BY <1>1, SectorAlways, PTL
=============================================================================
