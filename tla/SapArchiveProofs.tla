-------------------------- MODULE SapArchiveProofs --------------------------
(***************************************************************************)
(* The table of archives for every number of entries, and the archives     *)
(* that programs fill one at a time, by whole tracks, for every number of  *)
(* tracks, of sectors and of archives: all of their sectors are in their   *)
(* places when they are full and when they are closed.                     *)
(***************************************************************************)
EXTENDS SapArchive, TLAPS

(***************************************************************************)
(* An entry of the table is empty, or holds a file and no more tracks than *)
(* its format has.                                                         *)
(***************************************************************************)
TableInv ==
    /\ \A id \in Ids :
          \/ archive[id] = Closed
          \/ /\ Open(id)
             /\ archive[id].format \in Formats /\ archive[id].path \in Paths
             /\ archive[id].ntracks =< SAP_NTRACKS[archive[id].format]
             /\ archive[id].state # "full" =>
                    archive[id].ntracks < SAP_NTRACKS[archive[id].format]

TypeInv == TypeOK /\ TableInv

-----------------------------------------------------------------------------
\* More tracks are more sectors.
LEMMA Sectors ==
    ASSUME NEW a \in Nat, NEW b \in Nat, a =< b
    PROVE  a * SAP_NSECTS \in Nat /\ b * SAP_NSECTS \in Nat /\ a * SAP_NSECTS =< b * SAP_NSECTS
<1> DEFINE n == SAP_NSECTS
<1>1. n \in Nat
  BY ArchiveAssumption
<1>2. PICK k \in Nat : b = a + k
  <2>1. b - a \in Nat /\ b = a + (b - a)
    OBVIOUS
  <2> QED
    BY <2>1
<1> HIDE DEF n
<1>3. b * n = a * n + k * n /\ a * n \in Nat /\ k * n \in Nat
  BY <1>1, <1>2
<1> QED
  BY <1>3 DEF n

LEMMA NSectorsNat == ASSUME NEW f \in Formats PROVE NSectors(f) \in Nat
<1>1. SAP_NTRACKS[f] \in Nat
  BY ArchiveAssumption
<1> QED
  BY <1>1, Sectors DEF NSectors

LEMMA EmptySectorsSeq ==
    ASSUME NEW from \in Nat, NEW to \in Nat, from =< to
    PROVE  /\ EmptySectors(from, to) \in Seq(Cell)
           /\ Len(EmptySectors(from, to)) = to - from
           /\ \A k \in 1 .. to - from : EmptySectors(from, to)[k].at = from + k - 1
<1> DEFINE e == EmptySectors(from, to)
<1>1. to - from \in Nat
  OBVIOUS
<1>2. \A k \in 1 .. to - from : [at |-> from + k - 1, data |-> Filler] \in Cell
  BY DEF Cell
<1>3. e = [k \in 1 .. to - from |-> [at |-> from + k - 1, data |-> Filler]]
  BY DEF EmptySectors
<1>4. e \in [1 .. to - from -> Cell]
  BY <1>2, <1>3
<1>5. e \in Seq(Cell) /\ Len(e) = to - from
  BY <1>1, <1>4
<1>6. ASSUME NEW k \in 1 .. to - from
      PROVE  e[k].at = from + k - 1
  <2>1. e[k] = [at |-> from + k - 1, data |-> Filler]
    BY <1>3
  <2> QED
    BY <2>1
<1> QED
  BY <1>5, <1>6

\* What a write makes of the sectors of a file: they stay sectors, and a write
\* where the file ends appends.
LEMMA OverwriteSeq ==
    ASSUME NEW s \in Seq(Cell), NEW k \in Nat, NEW new \in Seq(Cell)
    PROVE  Overwrite(s, k, new) \in Seq(Cell)
<1> DEFINE end == k + Len(new)
           n == IF Len(s) > end THEN Len(s) ELSE end
           at(i) == IF i > k /\ i <= end THEN new[i - k] ELSE IF i <= Len(s) THEN s[i] ELSE Hole
<1>1. n \in Nat
  OBVIOUS
<1>2. Hole \in Cell
  BY DEF Hole, Cell
<1>3. ASSUME NEW i \in 1 .. n
      PROVE  at(i) \in Cell
  BY <1>2
<1>4. Overwrite(s, k, new) = [i \in 1 .. n |-> at(i)]
  BY DEF Overwrite
<1> HIDE DEF n, at
<1>5. [i \in 1 .. n |-> at(i)] \in [1 .. n -> Cell]
  BY <1>3
<1> QED
  BY <1>1, <1>4, <1>5

LEMMA OverwriteAtEnd ==
    ASSUME NEW s \in Seq(Cell), NEW new \in Seq(Cell)
    PROVE  Overwrite(s, Len(s), new) = s \o new
<1> DEFINE n == Len(s) + Len(new)
<1>1. Overwrite(s, Len(s), new)
         = [i \in 1 .. n |-> IF i > Len(s) THEN new[i - Len(s)] ELSE s[i]]
  BY DEF Overwrite
<1>2. /\ s \o new \in Seq(Cell) /\ Len(s \o new) = n
      /\ \A i \in 1 .. n : (s \o new)[i] = IF i > Len(s) THEN new[i - Len(s)] ELSE s[i]
  OBVIOUS
<1>3. s \o new = [i \in 1 .. n |-> (s \o new)[i]]
  <2> DEFINE t == s \o new
  <2>1. t \in Seq(Cell) /\ Len(t) = n
    BY <1>2
  <2> HIDE DEF t, n
  <2>2. t = [i \in 1 .. n |-> t[i]]
    BY <2>1
  <2> QED
    BY <2>2 DEF t
<1> QED
  BY <1>1, <1>2, <1>3

LEMMA OverwriteAll ==
    ASSUME NEW s \in Seq(Cell), NEW new \in Seq(Cell), Len(s) =< Len(new)
    PROVE  Overwrite(s, 0, new) = new
<1>1. Overwrite(s, 0, new) = [i \in 1 .. Len(new) |-> new[i]]
  BY DEF Overwrite
<1> QED
  BY <1>1

LEMMA OverwriteOne ==
    ASSUME NEW s \in Seq(Cell), NEW k \in 1 .. Len(s), NEW c \in Cell
    PROVE  Overwrite(s, k - 1, <<c>>) = [s EXCEPT ![k] = c]
<1>1. Len(<<c>>) = 1 /\ <<c>>[1] = c
  OBVIOUS
<1>2. Overwrite(s, k - 1, <<c>>) = [i \in 1 .. Len(s) |-> IF i = k THEN c ELSE s[i]]
  <2>1. \A i \in 1 .. Len(s) : (i > k - 1 /\ i =< k - 1 + 1 <=> i = k) /\ i =< Len(s)
    OBVIOUS
  <2> QED
    BY <1>1, <2>1 DEF Overwrite
<1> QED
  BY <1>2

\* A write changes the sectors of one file, and these by Overwrite when the entry
\* has the format of the file.
LEMMA WriteCells ==
    ASSUME TypeOK, NEW id \in Ids, archive[id].path \in Paths, NEW k \in Nat,
           NEW new \in Seq(Cell), Write(id, k, new)
    PROVE  LET p == archive[id].path IN
           /\ host' \in [Paths -> HostFile]
           /\ host'[p].format = host[p].format /\ host'[p].text = host[p].text
           /\ SameFormat(id) => host'[p].cells = Overwrite(host[p].cells, k, new)
           /\ \A q \in Paths \ {p} : host'[q] = host[q]
<1> DEFINE p == archive[id].path
<1>1. host[p] \in HostFile /\ host[p].cells \in Seq(Cell)
  BY DEF TypeOK, HostFile
<1>2. PICK cells \in AfterWrite(id, k, new) : host' = [host EXCEPT ![p].cells = cells]
  BY DEF Write
<1>3. cells \in Seq(Cell) /\ (SameFormat(id) => cells = Overwrite(host[p].cells, k, new))
  BY <1>1, <1>2, OverwriteSeq DEF AfterWrite, FileOf
<1>4. [host[p] EXCEPT !.cells = cells] \in HostFile
  BY <1>1, <1>3 DEF HostFile
<1> HIDE DEF p
<1> QED
  BY <1>1, <1>2, <1>3, <1>4 DEF TypeOK, HostFile, p

-----------------------------------------------------------------------------
LEMMA TypeInit == Init => TypeInv
<1> SUFFICES ASSUME Init PROVE TypeInv
  OBVIOUS
<1>1. <<>> \in Seq(Cell)
  OBVIOUS
<1>2. Absent \in HostFile /\ \A b \in Formats \cup {Foreign} : Other(b) \in HostFile
  BY <1>1 DEF Absent, Other, HostFile
<1> QED
  BY <1>2, ArchiveAssumption DEF Init, TypeInv, TypeOK, TableInv, Closed, Ids, SAP_OK

\* What a step does to the entries that are taken.
KeepsItsArchive ==
    \A id \in Ids : Open(id) /\ last'[1] # "close" =>
        archive'[id].path = archive[id].path /\ archive'[id].format = archive[id].format

Results == Ids \cup {SAP_OK, SAP_ERROR}

LEMMA TypeFail ==
    ASSUME TypeInv, NEW fn, NEW r \in Results, NEW e, Fail(fn, r, e)
    PROVE  TypeInv' /\ KeepsItsArchive
BY DEF TypeInv, TypeOK, TableInv, Fail, KeepsItsArchive, Results, Open

\* An entry that was empty takes a file.
LEMMA TypeTaken ==
    ASSUME TypeInv, NEW id \in Ids, get_id(id), NEW p \in Paths, NEW f \in Formats,
           NEW s \in {"empty", "full"}, NEW n \in Nat, n =< SAP_NTRACKS[f],
           s = "empty" => n < SAP_NTRACKS[f],
           archive' = [archive EXCEPT ![id] =
                          [state |-> s, format |-> f, ntracks |-> n, path |-> p]]
    PROVE  /\ TableInv' /\ KeepsItsArchive
           /\ archive' \in [Ids -> [state : {"none", "empty", "filled", "full"},
                                    format : Formats \cup {NoFormat}, ntracks : Nat,
                                    path : Paths \cup {NoPath}]]
<1>1. /\ archive'[id] = [state |-> s, format |-> f, ntracks |-> n, path |-> p]
      /\ \A j \in Ids : j # id => archive'[j] = archive[j]
  BY DEF TypeInv, TypeOK
<1>2. TableInv'
  BY <1>1 DEF TypeInv, TableInv, Open
<1>3. KeepsItsArchive
  BY <1>1 DEF KeepsItsArchive, get_id
<1> QED
  BY <1>2, <1>3 DEF TypeInv, TypeOK

LEMMA TypeOpen ==
    ASSUME TypeInv, NEW p \in Paths, sap_OpenArchive(p)
    PROVE  TypeInv' /\ KeepsItsArchive
<1>1. CASE TooManyOpen("open")
  BY <1>1, TypeFail DEF TooManyOpen, Results
<1>2. CASE Fail("open", SAP_ERROR, "ENOENT") \/ Fail("open", SAP_ERROR, "EBADF")
  BY <1>2, TypeFail DEF Results
<1>3. ASSUME NEW id \in Ids, get_id(id), host[p].format \in Formats,
             archive' = [archive EXCEPT ![id] =
                            [state |-> "full", format |-> host[p].format,
                             ntracks |-> SAP_NTRACKS[host[p].format], path |-> p]],
             Succeed("open", id), UNCHANGED <<host, sect, given>>
      PROVE  TypeInv' /\ KeepsItsArchive
  <2>1. PICK f \in Formats : f = host[p].format
    BY <1>3
  <2>2. PICK m \in Nat : m = SAP_NTRACKS[f] /\ m =< SAP_NTRACKS[f]
    BY ArchiveAssumption
  <2>3. archive' = [archive EXCEPT ![id] =
                       [state |-> "full", format |-> f, ntracks |-> m, path |-> p]]
    BY <1>3, <2>1, <2>2
  <2>4. /\ TableInv' /\ KeepsItsArchive
        /\ archive' \in [Ids -> [state : {"none", "empty", "filled", "full"},
                                 format : Formats \cup {NoFormat}, ntracks : Nat,
                                 path : Paths \cup {NoPath}]]
    <3>1. "full" \in {"empty", "full"} /\ "full" # "empty"
      OBVIOUS
    <3> QED
      BY <1>3, <2>2, <2>3, <3>1, TypeTaken
  <2> QED
    BY <1>3, <2>4 DEF TypeInv, TypeOK, Succeed
<1> QED
  BY <1>1, <1>2, <1>3 DEF sap_OpenArchive

LEMMA TypeCreate ==
    ASSUME TypeInv, NEW p \in Paths, NEW f, sap_CreateArchive(p, f)
    PROVE  TypeInv' /\ KeepsItsArchive
<1>1. CASE TooManyOpen("create")
  BY <1>1, TypeFail DEF TooManyOpen, Results
<1>2. CASE Fail("create", SAP_ERROR, "EINVAL") \/ Fail("create", SAP_ERROR, "EPERM")
  BY <1>2, TypeFail DEF Results
<1>3. ASSUME NEW id \in Ids, get_id(id), f \in Formats,
             host' = [host EXCEPT ![p] = [format |-> f, text |-> TRUE, cells |-> <<>>]],
             archive' = [archive EXCEPT ![id] =
                            [state |-> "empty", format |-> f, ntracks |-> 0, path |-> p]],
             given' = [given EXCEPT ![id] = 0], Succeed("create", id), UNCHANGED sect
      PROVE  TypeInv' /\ KeepsItsArchive
  <2>1. 0 < SAP_NTRACKS[f] /\ 0 =< SAP_NTRACKS[f]
    BY <1>3, ArchiveAssumption
  <2>2. /\ TableInv' /\ KeepsItsArchive
        /\ archive' \in [Ids -> [state : {"none", "empty", "filled", "full"},
                                 format : Formats \cup {NoFormat}, ntracks : Nat,
                                 path : Paths \cup {NoPath}]]
    BY <1>3, <2>1, TypeTaken
  <2>3. [format |-> f, text |-> TRUE, cells |-> <<>>] \in HostFile
    BY <1>3 DEF HostFile
  <2> QED
    BY <1>3, <2>2, <2>3 DEF TypeInv, TypeOK, Succeed
<1> QED
  BY <1>1, <1>2, <1>3 DEF sap_CreateArchive

LEMMA TypeCells ==
    ASSUME TypeOK, NEW p \in Paths, NEW c \in Seq(Cell), host' = [host EXCEPT ![p].cells = c]
    PROVE  host' \in [Paths -> HostFile]
<1>1. host[p] \in HostFile
  BY DEF TypeOK
<1>2. [host[p] EXCEPT !.cells = c] \in HostFile
  BY <1>1 DEF HostFile
<1> QED
  BY <1>2 DEF TypeOK

LEMMA TypeClose ==
    ASSUME TypeInv, NEW id \in Ids, sap_CloseArchive(id)
    PROVE  TypeInv' /\ KeepsItsArchive
<1>1. CASE Fail("close", SAP_ERROR, "EINVAL")
  BY <1>1, TypeFail DEF Results
<1>2. ASSUME Open(id), archive' = [archive EXCEPT ![id] = Closed],
             given' = [given EXCEPT ![id] = 0], Succeed("close", SAP_OK), UNCHANGED sect,
             IF archive[id].state = "full" THEN UNCHANGED host
             ELSE Write(id, given[id],
                        EmptySectors(FirstMissing(id), NSectors(archive[id].format)))
      PROVE  TypeInv' /\ KeepsItsArchive
  <2> DEFINE p == archive[id].path
             e == EmptySectors(FirstMissing(id), NSectors(archive[id].format))
  <2>1. /\ p \in Paths /\ archive[id].format \in Formats /\ archive[id].ntracks \in Nat
        /\ archive[id].ntracks =< SAP_NTRACKS[archive[id].format]
        /\ SAP_NTRACKS[archive[id].format] \in Nat
    BY <1>2, ArchiveAssumption DEF TypeInv, TypeOK, TableInv, Open, Closed
  <2>2. e \in Seq(Cell)
    BY <2>1, Sectors, EmptySectorsSeq DEF FirstMissing, NSectors
  <2>3. given[id] \in Nat
    BY DEF TypeInv, TypeOK
  <2>4. host' \in [Paths -> HostFile]
    <3>1. UNCHANGED host \/ Write(id, given[id], e)
      BY <1>2
    <3> HIDE DEF e
    <3>2. CASE Write(id, given[id], e)
      BY <2>1, <2>2, <2>3, <3>2, WriteCells DEF TypeInv
    <3> QED
      BY <3>1, <3>2 DEF TypeInv, TypeOK
  <2>5. TableInv'
    BY <1>2 DEF TypeInv, TypeOK, TableInv, Open, Closed
  <2>6. Closed \in [state : {"none", "empty", "filled", "full"}, format : Formats \cup {NoFormat},
                    ntracks : Nat, path : Paths \cup {NoPath}]
    BY DEF Closed
  <2>7. last' = <<"close", SAP_OK, "none">>
    BY <1>2 DEF Succeed
  <2> HIDE DEF e, p
  <2> QED
    BY <1>2, <2>4, <2>5, <2>6, <2>7 DEF TypeInv, TypeOK, KeepsItsArchive
<1> QED
  BY <1>1, <1>2 DEF sap_CloseArchive

LEMMA TypeFill ==
    ASSUME TypeInv, NEW id \in Ids, Fill(id)
    PROVE  TypeInv' /\ KeepsItsArchive
<1>1. PICK d \in Payloads \cup {Filler} : sap_FillArchive(id, [at |-> given[id], data |-> d])
  BY DEF Fill
<1> DEFINE c == [at |-> given[id], data |-> d]
           a == archive[id]
           ended == TrackEnded(FillSect(id) + 1)
<1>2. CASE Fail("fill", SAP_ERROR, "EINVAL") \/ Fail("fill", SAP_ERROR, "ENOSPC")
  BY <1>2, TypeFail DEF Results
<1>3. ASSUME a.state \in {"empty", "filled"},
             Write(id, given[id], <<c>>),
             sect' = IF ended THEN 1 ELSE FillSect(id) + 1,
             archive' = [archive EXCEPT
                ![id].ntracks = IF ended THEN @ + 1 ELSE @,
                ![id].state = IF ended /\ a.ntracks + 1 = SAP_NTRACKS[a.format]
                                THEN "full" ELSE "filled"],
             given' = [given EXCEPT ![id] = @ + 1],
             Succeed("fill", SAP_OK)
      PROVE  TypeInv' /\ KeepsItsArchive
  <2>1. /\ a.path \in Paths /\ a.format \in Formats /\ a.ntracks \in Nat
        /\ a.ntracks < SAP_NTRACKS[a.format] /\ SAP_NTRACKS[a.format] \in Nat
    BY <1>3, ArchiveAssumption DEF TypeInv, TypeOK, TableInv, Open, Closed
  <2>2. <<c>> \in Seq(Cell) /\ given[id] \in Nat
    <3>1. c \in Cell /\ given[id] \in Nat
      BY DEF TypeInv, TypeOK, Cell
    <3> HIDE DEF c
    <3> QED
      BY <3>1
  <2>3. host' \in [Paths -> HostFile]
    <3> HIDE DEF c
    <3> QED
      BY <1>3, <2>1, <2>2, WriteCells DEF TypeInv
  <2> DEFINE m == IF ended THEN a.ntracks + 1 ELSE a.ntracks
             s == IF ended /\ a.ntracks + 1 = SAP_NTRACKS[a.format] THEN "full" ELSE "filled"
  <2>4. /\ m \in Nat /\ s \in {"filled", "full"}
        /\ m =< SAP_NTRACKS[a.format] /\ (s # "full" => m < SAP_NTRACKS[a.format])
    BY <2>1
  <2>5. archive' = [archive EXCEPT ![id].ntracks = m, ![id].state = s]
    BY <1>3 DEF TypeInv, TypeOK
  <2> HIDE DEF m, s
  <2>6. /\ archive'[id].state = s /\ archive'[id].ntracks = m
        /\ archive'[id].format = a.format /\ archive'[id].path = a.path
        /\ \A j \in Ids : j # id => archive'[j] = archive[j]
        /\ archive' \in [Ids -> [state : {"none", "empty", "filled", "full"},
                                 format : Formats \cup {NoFormat}, ntracks : Nat,
                                 path : Paths \cup {NoPath}]]
    BY <2>4, <2>5, ZenonT(40) DEF TypeInv, TypeOK
  <2>7. \A j \in Ids : archive'[j].path = archive[j].path /\ archive'[j].format = archive[j].format
    BY <2>6
  <2>8. TableInv'
    BY <2>1, <2>4, <2>6, <2>7 DEF TypeInv, TableInv, Open
  <2>9. sect' \in 0 .. SAP_NSECTS
    <3>1. FillSect(id) \in 0 .. SAP_NSECTS /\ SAP_NSECTS \in Nat \ {0}
      BY ArchiveAssumption DEF TypeInv, TypeOK, FillSect
    <3>2. sect' = IF FillSect(id) + 1 = SAP_NSECTS + 1 THEN 1 ELSE FillSect(id) + 1
      BY <1>3 DEF TrackEnded
    <3> QED
      BY <3>1, <3>2
  <2> QED
    <3>1. given' \in [Ids -> Nat]
      BY <1>3 DEF TypeInv, TypeOK
    <3>2. last' = <<"fill", SAP_OK, "none">>
      BY <1>3 DEF Succeed
    <3>3. TypeOK'
      BY <2>3, <2>6, <2>9, <3>1, <3>2 DEF TypeOK
    <3>4. KeepsItsArchive
      BY <2>7 DEF KeepsItsArchive
    <3> QED
      BY <2>8, <3>3, <3>4 DEF TypeInv
<1> QED
  BY <1>1, <1>2, <1>3 DEF sap_FillArchive

LEMMA TypeFormat ==
    ASSUME TypeInv, NEW id \in Ids, sap_FormatArchive(id)
    PROVE  TypeInv' /\ KeepsItsArchive
<1>1. CASE Fail("format", SAP_ERROR, "EINVAL") \/ Fail("format", SAP_ERROR, "EBUSY")
  BY <1>1, TypeFail DEF Results
<1> DEFINE a == archive[id]
           new == EmptySectors(0, NSectors(a.format))
<1>2. ASSUME a.state \in {"empty", "full"}, Write(id, 0, new),
             archive' = [archive EXCEPT ![id].state = "full",
                                        ![id].ntracks = SAP_NTRACKS[a.format]],
             Succeed("format", SAP_OK), UNCHANGED <<sect, given>>
      PROVE  TypeInv' /\ KeepsItsArchive
  <2>1. a.path \in Paths /\ a.format \in Formats /\ SAP_NTRACKS[a.format] \in Nat
    BY <1>2, ArchiveAssumption DEF TypeInv, TypeOK, TableInv, Open, Closed
  <2>2. new \in Seq(Cell)
    <3>1. PICK total \in Nat : total = NSectors(a.format) /\ 0 =< total
      BY <2>1, NSectorsNat
    <3> QED
      BY <3>1, EmptySectorsSeq
  <2>3. host' \in [Paths -> HostFile]
    <3> HIDE DEF new
    <3> QED
      BY <1>2, <2>1, <2>2, WriteCells DEF TypeInv
  <2>4. /\ archive'[id].state = "full" /\ archive'[id].ntracks = SAP_NTRACKS[a.format]
        /\ archive'[id].format = a.format /\ archive'[id].path = a.path
        /\ \A j \in Ids : j # id => archive'[j] = archive[j]
        /\ archive' \in [Ids -> [state : {"none", "empty", "filled", "full"},
                                 format : Formats \cup {NoFormat}, ntracks : Nat,
                                 path : Paths \cup {NoPath}]]
    <3> DEFINE m == SAP_NTRACKS[a.format]
    <3>1. m \in Nat /\ archive' = [archive EXCEPT ![id].state = "full", ![id].ntracks = m]
      BY <1>2, <2>1
    <3> HIDE DEF m
    <3>2. /\ archive'[id].state = "full" /\ archive'[id].ntracks = m
          /\ archive'[id].format = a.format /\ archive'[id].path = a.path
          /\ \A j \in Ids : j # id => archive'[j] = archive[j]
      BY <3>1 DEF TypeInv, TypeOK
    <3>3. archive' \in [Ids -> [state : {"none", "empty", "filled", "full"},
                               format : Formats \cup {NoFormat}, ntracks : Nat,
                               path : Paths \cup {NoPath}]]
      BY <3>1, ZenonT(40) DEF TypeInv, TypeOK
    <3> QED
      BY <3>2, <3>3 DEF m
  <2>5. \A j \in Ids : archive'[j].path = archive[j].path /\ archive'[j].format = archive[j].format
    BY <2>4
  <2>6. TableInv'
    BY <2>1, <2>4, <2>5 DEF TypeInv, TableInv, Open
  <2> HIDE DEF new
  <2> QED
    BY <1>2, <2>3, <2>4, <2>5, <2>6 DEF TypeInv, TypeOK, KeepsItsArchive, Succeed
<1> QED
  BY <1>1, <1>2 DEF sap_FormatArchive

LEMMA SectorsReadCells ==
    ASSUME TypeOK, NEW id \in Ids, archive[id].path \in Paths, NEW k \in Nat \ {0}
    PROVE  SectorsRead(id, k) \subseteq Cell
<1>1. FileOf(id).cells \in Seq(Cell)
  BY DEF TypeOK, HostFile, FileOf
<1>2. k =< Len(FileOf(id).cells) => FileOf(id).cells[k] \in Cell
  BY <1>1
<1> QED
  BY <1>2 DEF SectorsRead

LEMMA TypeCopy ==
    ASSUME TypeInv, NEW src \in Ids, NEW dst \in Ids, NEW j, NEW k, CopySector(src, dst, j, k)
    PROVE  TypeInv' /\ KeepsItsArchive
<1>1. archive[dst].path \in Paths /\ archive[src].path \in Paths /\ k - 1 \in Nat
  <2>1. archive[dst].format \in Formats
    BY DEF CopySector, TypeInv, TypeOK, TableInv, Closed
  <2>2. NSectors(archive[src].format) \in Nat
    BY <2>1, NSectorsNat DEF CopySector
  <2> QED
    BY <2>2 DEF CopySector, TypeInv, TypeOK, TableInv, Closed
<1>2. PICK c \in SectorsRead(src, j) :
         Write(dst, k - 1, <<IF j = k THEN c ELSE [c EXCEPT !.at = k - 1]>>)
  BY DEF CopySector
<1> DEFINE new == IF j = k THEN c ELSE [c EXCEPT !.at = k - 1]
<1>3. c \in Cell
  BY <1>1, <1>2, SectorsReadCells DEF TypeInv, CopySector
<1>4. new \in Cell
  BY <1>1, <1>3 DEF Cell
<1>5. <<new>> \in Seq(Cell)
  <2> HIDE DEF new
  <2> QED
    BY <1>4
<1>6. host' \in [Paths -> HostFile]
  <2> HIDE DEF new
  <2> QED
    BY <1>1, <1>2, <1>5, WriteCells DEF TypeInv, new
<1>7. UNCHANGED <<archive, sect, given>> /\ last' = <<"write", SAP_OK, "none">>
  BY DEF CopySector, Succeed
<1> QED
  BY <1>6, <1>7 DEF TypeInv, TypeOK, TableInv, Open, KeepsItsArchive

LEMMA TypeNext == TypeInv /\ [Next]_avars => TypeInv' /\ KeepsItsArchive
<1> SUFFICES ASSUME TypeInv, [Next]_avars PROVE TypeInv' /\ KeepsItsArchive
  OBVIOUS
<1>1. ASSUME NEW p \in Paths, sap_OpenArchive(p)
      PROVE  TypeInv' /\ KeepsItsArchive
  BY <1>1, TypeOpen
<1>2. ASSUME NEW p \in Paths, NEW f \in Formats \cup {NoFormat}, sap_CreateArchive(p, f)
      PROVE  TypeInv' /\ KeepsItsArchive
  BY <1>2, TypeCreate
<1>3. ASSUME NEW id \in Ids,
             sap_CloseArchive(id) \/ Fill(id) \/ sap_FormatArchive(id)
      PROVE  TypeInv' /\ KeepsItsArchive
  BY <1>3, TypeClose, TypeFill, TypeFormat
<1>4. ASSUME NEW id \in Ids, NeedsFull(id)
      PROVE  TypeInv' /\ KeepsItsArchive
  <2>1. PICK r \in Refusals : \E e : Fail(r[1], r[2], e)
    BY <1>4 DEF NeedsFull
  <2>2. r[2] \in Results
    BY DEF Refusals, Results, SAP_OK
  <2> QED
    BY <2>1, <2>2, TypeFail
<1>5. ASSUME NEW src \in Ids, NEW dst \in Ids, NEW j, NEW k, CopySector(src, dst, j, k)
      PROVE  TypeInv' /\ KeepsItsArchive
  BY <1>5, TypeCopy
<1>6. CASE UNCHANGED avars
  BY <1>6 DEF avars, TypeInv, TypeOK, TableInv, Open, KeepsItsArchive
<1> QED
  BY <1>1, <1>2, <1>3, <1>4, <1>5, <1>6 DEF Next

\* The table, the static counter, the host files and the results keep their
\* types under every sequence of calls on every number of archives.
THEOREM TypeCorrectness == Spec => []TypeOK
<1>1. Spec => []TypeInv
  BY TypeInit, TypeNext, PTL DEF Spec
<1> QED
  BY <1>1, PTL DEF TypeInv

\* Only sap_OpenArchive and sap_CreateArchive give entries out, as get_id finds them.
GivesFreeIds == last'[1] \in {"open", "create"} /\ last'[2] # SAP_ERROR => ~Open(last'[2])

LEMMA FreeIds == Next => GivesFreeIds
<1>1. ASSUME NEW p, sap_OpenArchive(p)
      PROVE  GivesFreeIds
  BY <1>1 DEF sap_OpenArchive, TooManyOpen, Fail, Succeed, get_id, GivesFreeIds
<1>2. ASSUME NEW p, NEW f, sap_CreateArchive(p, f)
      PROVE  GivesFreeIds
  BY <1>2 DEF sap_CreateArchive, TooManyOpen, Fail, Succeed, get_id, GivesFreeIds
<1>3. ASSUME NEW id, sap_CloseArchive(id) \/ Fill(id) \/ sap_FormatArchive(id)
      PROVE  GivesFreeIds
  <2>1. sap_CloseArchive(id) => last'[1] = "close"
    BY DEF sap_CloseArchive, Fail, Succeed
  <2>2. ASSUME NEW c, sap_FillArchive(id, c)
        PROVE  last'[1] = "fill"
    BY <2>2 DEF sap_FillArchive, Fail, Succeed
  <2>3. sap_FormatArchive(id) => last'[1] = "format"
    BY DEF sap_FormatArchive, Fail, Succeed
  <2> QED
    BY <1>3, <2>1, <2>2, <2>3 DEF Fill, GivesFreeIds
<1>4. ASSUME NEW id, NeedsFull(id)
      PROVE  GivesFreeIds
  <2>1. PICK r \in Refusals : \E e : Fail(r[1], r[2], e)
    BY <1>4 DEF NeedsFull
  <2> QED
    BY <2>1 DEF Refusals, Fail, GivesFreeIds
<1>5. ASSUME NEW src, NEW dst, NEW j, NEW k, CopySector(src, dst, j, k)
      PROVE  GivesFreeIds
  BY <1>5 DEF CopySector, Succeed, GivesFreeIds
<1> QED
  BY <1>1, <1>2, <1>3, <1>4, <1>5 DEF Next

\* get_id never gives an entry that is in use, and no call but sap_CloseArchive,
\* through this entry or another, takes its archive from it; two entries may hold
\* one file.
THEOREM EachHasItsArchive == Spec => IdKeepsArchive
<1>1. Spec => []TypeInv
  BY TypeInit, TypeNext, PTL DEF Spec
<1> DEFINE Kept ==
      /\ last'[1] \in {"open", "create"} /\ last'[2] # SAP_ERROR => ~Open(last'[2])
      /\ \A id \in Ids : Open(id) /\ last'[1] # "close" =>
            archive'[id].path = archive[id].path /\ archive'[id].format = archive[id].format
<1>2. TypeInv /\ [Next]_avars => [Kept]_avars
  BY TypeNext, FreeIds DEF GivesFreeIds, KeepsItsArchive
<1>3. Spec => [][Kept]_avars
  BY <1>1, <1>2, PTL DEF Spec
<1> QED
  BY <1>3 DEF IdKeepsArchive

-----------------------------------------------------------------------------
(***************************************************************************)
(* What is in the archives.                                                *)
(***************************************************************************)
Labelled(s) == \A k \in 1 .. Len(s) : s[k].at = k - 1

SectorsIn(id) == Len(FileOf(id).cells)

\* A closed archive has the sectors of its format, and only archives have one
\* of the format bytes.
FileInv(p) ==
    /\ host[p].text <=> host[p].format \in Formats
    /\ Labelled(host[p].cells)
    /\ host[p].text /\ ~IsOpen(p) => Len(host[p].cells) = NSectors(host[p].format)

(***************************************************************************)
(* The static counter and the tracks that are complete give the sectors    *)
(* written, but only to the archive that is being filled: that there is    *)
(* one at most is what the induction needs.                                *)
(***************************************************************************)
EntryInv(id) ==
    /\ Open(id) => FileOf(id).format = archive[id].format
    /\ archive[id].state = "full" => SectorsIn(id) = NSectors(archive[id].format)
    /\ archive[id].state = "empty" =>
          SectorsIn(id) = 0 /\ archive[id].ntracks = 0 /\ given[id] = 0
    /\ archive[id].state = "filled" =>
          /\ sect \in 1 .. SAP_NSECTS
          /\ SectorsIn(id) = given[id]
          /\ given[id] = archive[id].ntracks * SAP_NSECTS + (sect - 1)

OneFilled ==
    \A i, j \in Ids : archive[i].state = "filled" /\ archive[j].state = "filled" => i = j

SerialInv ==
    /\ \A p \in Paths : FileInv(p)
    /\ \A id \in Ids : EntryInv(id)
    /\ OneFilled
    /\ SharedIsFull

-----------------------------------------------------------------------------
\* Sectors laid after those of a file, with the labels that follow.
LEMMA LabelledConcat ==
    ASSUME NEW s \in Seq(Cell), Labelled(s), NEW t \in Seq(Cell),
           \A k \in 1 .. Len(t) : t[k].at = Len(s) + k - 1
    PROVE  s \o t \in Seq(Cell) /\ Len(s \o t) = Len(s) + Len(t) /\ Labelled(s \o t)
<1>1. s \o t \in Seq(Cell) /\ Len(s \o t) = Len(s) + Len(t)
  OBVIOUS
<1>2. ASSUME NEW k \in 1 .. Len(s) + Len(t)
      PROVE  (s \o t)[k].at = k - 1
  <2>1. CASE k =< Len(s)
    <3>1. (s \o t)[k] = s[k]
      BY <2>1
    <3> QED
      BY <2>1, <3>1 DEF Labelled
  <2>2. CASE k > Len(s)
    <3>1. (s \o t)[k] = t[k - Len(s)] /\ k - Len(s) \in 1 .. Len(t)
      BY <2>2
    <3> QED
      BY <2>2, <3>1
  <2> QED
    BY <2>1, <2>2
<1> QED
  BY <1>1, <1>2 DEF Labelled

LEMMA LabelledAppend ==
    ASSUME NEW s \in Seq(Cell), Labelled(s), NEW c \in Cell, c.at = Len(s)
    PROVE  Len(Append(s, c)) = Len(s) + 1 /\ Labelled(Append(s, c))
<1>1. Len(Append(s, c)) = Len(s) + 1
  OBVIOUS
<1>2. \A k \in 1 .. Len(s) + 1 :
         Append(s, c)[k] = IF k = Len(s) + 1 THEN c ELSE s[k]
  OBVIOUS
<1>3. ASSUME NEW k \in 1 .. Len(s) + 1
      PROVE  Append(s, c)[k].at = k - 1
  <2>1. CASE k = Len(s) + 1
    BY <1>2, <2>1
  <2>2. CASE k \in 1 .. Len(s)
    BY <1>2, <2>2 DEF Labelled
  <2> QED
    BY <2>1, <2>2
<1> QED
  BY <1>1, <1>3 DEF Labelled

\* A count of whole tracks is what the counter says when it is at the first
\* sector, and only then.
LEMMA WholeTracks ==
    ASSUME NEW t \in Nat, NEW r \in 0 .. SAP_NSECTS - 1, (t * SAP_NSECTS + r) % SAP_NSECTS = 0
    PROVE  r = 0
<1> DEFINE n == SAP_NSECTS
           m == t * n + r
           q == m \div n
<1>1. n \in Nat \ {0} /\ t * n \in Nat /\ m \in Nat /\ r \in Nat /\ r < n
  BY ArchiveAssumption
<1>2. q \in Nat /\ m = n * q
  <2> HIDE DEF m, n
  <2>1. \A d \in Nat \ {0} : \A x \in Nat : x % d = 0 => d * (x \div d) = x
    OBVIOUS
  <2>2. m % n = 0
    BY DEF m, n
  <2>3. m \div n \in Nat /\ n * (m \div n) = m
    BY <1>1, <2>1, <2>2
  <2> QED
    BY <2>3
<1> HIDE DEF n, q
<1>3. n * q = q * n /\ q * n = t * n + r
  BY <1>1, <1>2 DEF m
<1>4. CASE q =< t
  <2>1. q * n =< t * n
    BY <1>1, <1>2, <1>4, Sectors DEF n
  <2> QED
    BY <1>1, <1>3, <2>1
<1>5. CASE t < q
  <2>1. (t + 1) * n =< q * n /\ (t + 1) * n = t * n + n
    <3>1. (t + 1) * n =< q * n
      BY <1>1, <1>2, <1>5, Sectors DEF n
    <3> QED
      BY <1>1, <3>1
  <2> QED
    BY <1>1, <1>3, <2>1
<1> QED
  BY <1>1, <1>2, <1>4, <1>5

-----------------------------------------------------------------------------
(***************************************************************************)
(* A step is about one entry, id, and one file, p: the one that the entry  *)
(* holds, or that it takes.  If another entry holds p too, the sectors of  *)
(* p stay as many.                                                         *)
(***************************************************************************)
StepAbout(id, p) ==
    /\ archive[id].path = p \/ (~Open(id) /\ Open(id)' /\ archive'[id].path = p)
    /\ \A j \in Ids \ {id} : archive'[j] = archive[j] /\ given'[j] = given[j]
    /\ \A q \in Paths \ {p} : host'[q] = host[q]
    /\ \A j \in Ids \ {id} : Open(j) /\ archive[j].path = p =>
          /\ host'[p].format = host[p].format
          /\ Len(host'[p].cells) = Len(host[p].cells)

LEMMA OtherEntries ==
    ASSUME TypeInv, SerialInv, SharedIsFull', NEW id \in Ids, NEW p \in Paths,
           StepAbout(id, p),
           NEW j \in Ids, j # id, archive[j].state = "filled" => sect' = sect
    PROVE  EntryInv(j)'
<1>1. archive'[j] = archive[j] /\ given'[j] = given[j]
  BY DEF StepAbout
<1>2. CASE ~Open(j)
  BY <1>1, <1>2 DEF EntryInv, Open
<1>3. CASE Open(j) /\ archive[j].path # p
  <2>1. archive[j].path \in Paths
    BY <1>3 DEF TypeInv, TableInv, Open, Closed
  <2>2. host'[archive[j].path] = host[archive[j].path]
    BY <1>3, <2>1 DEF StepAbout
  <2> QED
    BY <1>1, <2>2 DEF SerialInv, EntryInv, Open, FileOf, SectorsIn
<1>4. CASE Open(j) /\ archive[j].path = p
  <2>1. archive[j].state = "full"
    <3>1. CASE archive[id].path = p
      BY <1>4, <3>1 DEF SerialInv, SharedIsFull
    <3>2. CASE archive'[id].path = p
      BY <1>1, <1>4, <3>2 DEF SharedIsFull, Open
    <3> QED
      BY <3>1, <3>2 DEF StepAbout
  <2>2. host'[p].format = host[p].format /\ Len(host'[p].cells) = Len(host[p].cells)
    BY <1>4 DEF StepAbout
  <2> QED
    BY <1>1, <1>4, <2>1, <2>2 DEF SerialInv, EntryInv, Open, FileOf, SectorsIn
<1> QED
  BY <1>2, <1>3, <1>4

\* An archive that is not FULL is held by one entry.
LEMMA HeldOnce ==
    ASSUME SharedIsFull, NEW id \in Ids, Open(id), archive[id].state # "full",
           NEW j \in Ids \ {id}
    PROVE  archive[j].path # archive[id].path
BY DEF SharedIsFull

LEMMA OtherFiles ==
    ASSUME TypeInv, SerialInv, NEW id \in Ids, NEW p \in Paths, StepAbout(id, p),
           NEW q \in Paths, q # p
    PROVE  FileInv(q)'
<1>1. host'[q] = host[q]
  BY DEF StepAbout
<1>2. IsOpen(q) => IsOpen(q)'
  <2> SUFFICES ASSUME NEW j \in Ids, archive[j].path = q
               PROVE  IsOpen(q)'
    BY DEF IsOpen
  <2>1. Open(j)
    BY ArchiveAssumption DEF TypeInv, TableInv, Closed
  <2>2. j # id
    BY <2>1 DEF StepAbout
  <2> QED
    BY <2>2 DEF StepAbout, IsOpen
<1> QED
  BY <1>1, <1>2 DEF SerialInv, FileInv

\* What remains to be shown of a step about id and p, which holds it afterwards.
LEMMA StepKeeps ==
    ASSUME TypeInv, SerialInv, SharedIsFull', NEW id \in Ids, NEW p \in Paths,
           StepAbout(id, p), FileInv(p)', EntryInv(id)',
           \A j \in Ids \ {id} : archive[j].state = "filled" =>
               sect' = sect /\ archive'[id].state # "filled"
    PROVE  SerialInv'
<1>1. \A q \in Paths : FileInv(q)'
  BY OtherFiles
<1>2. \A j \in Ids : EntryInv(j)'
  BY OtherEntries
<1>3. OneFilled'
  BY DEF OneFilled, StepAbout, SerialInv
<1> QED
  BY <1>1, <1>2, <1>3 DEF SerialInv

LEMMA SerialFail ==
    ASSUME SerialInv, UNCHANGED <<host, archive, sect, given>>
    PROVE  SerialInv'
BY DEF SerialInv, FileInv, EntryInv, OneFilled, SharedIsFull, Open, IsOpen, FileOf, SectorsIn

LEMMA SerialOpen ==
    ASSUME TypeInv, SerialInv, SharedIsFull', NEW p \in Paths, sap_OpenArchive(p)
    PROVE  SerialInv'
<1>1. CASE UNCHANGED <<host, archive, sect, given>>
  BY <1>1, SerialFail
<1>2. ASSUME NEW id \in Ids, get_id(id), host[p].format \in Formats,
             archive' = [archive EXCEPT ![id] =
                            [state |-> "full", format |-> host[p].format,
                             ntracks |-> SAP_NTRACKS[host[p].format], path |-> p]],
             UNCHANGED <<host, sect, given>>
      PROVE  SerialInv'
  <2>1. /\ archive'[id].state = "full" /\ archive'[id].path = p
        /\ archive'[id].format = host[p].format
        /\ \A j \in Ids \ {id} : archive'[j] = archive[j]
    BY <1>2 DEF TypeInv, TypeOK
  <2>2. StepAbout(id, p)
    BY <1>2, <2>1 DEF StepAbout, get_id, Open
  <2>3. FileInv(p) /\ Len(host[p].cells) = NSectors(host[p].format)
    <3>1. CASE ~IsOpen(p)
      BY <1>2, <3>1 DEF SerialInv, FileInv
    <3>2. CASE IsOpen(p)
      <4>1. PICK j \in Ids : archive[j].path = p
        BY <3>2 DEF IsOpen
      <4>2. Open(j) /\ j # id
        BY <1>2, <4>1, ArchiveAssumption DEF TypeInv, TableInv, Closed, get_id
      <4>3. archive'[j] = archive[j]
        BY <2>1, <4>2
      <4>4. archive[j].state = "full"
        BY <2>1, <4>1, <4>2, <4>3 DEF SharedIsFull, Open
      <4> QED
        BY <4>1, <4>2, <4>4 DEF SerialInv, EntryInv, FileOf, SectorsIn
    <3> QED
      BY <3>1, <3>2
  <2>4. IsOpen(p)' /\ host'[p] = host[p]
    BY <1>2, <2>1 DEF IsOpen
  <2>5. FileInv(p)'
    BY <2>3, <2>4 DEF FileInv
  <2>6. EntryInv(id)'
    BY <2>1, <2>3, <2>4 DEF EntryInv, FileOf, SectorsIn
  <2> QED
    BY <1>2, <2>1, <2>2, <2>5, <2>6, StepKeeps
<1> QED
  BY <1>1, <1>2 DEF sap_OpenArchive, TooManyOpen, Fail

LEMMA SerialCreate ==
    ASSUME TypeInv, SerialInv, SharedIsFull', NEW p \in Paths, NEW f, sap_CreateArchive(p, f)
    PROVE  SerialInv'
<1>1. CASE UNCHANGED <<host, archive, sect, given>>
  BY <1>1, SerialFail
<1>2. ASSUME NEW id \in Ids, get_id(id), f \in Formats,
             host' = [host EXCEPT ![p] = [format |-> f, text |-> TRUE, cells |-> <<>>]],
             archive' = [archive EXCEPT ![id] =
                            [state |-> "empty", format |-> f, ntracks |-> 0, path |-> p]],
             given' = [given EXCEPT ![id] = 0], UNCHANGED sect
      PROVE  SerialInv'
  <2>1. /\ archive'[id].state = "empty" /\ archive'[id].path = p
        /\ archive'[id].format = f /\ archive'[id].ntracks = 0 /\ given'[id] = 0
        /\ \A j \in Ids \ {id} : archive'[j] = archive[j] /\ given'[j] = given[j]
    BY <1>2 DEF TypeInv, TypeOK
  <2>2. /\ host'[p].format = f /\ host'[p].text = TRUE /\ host'[p].cells = <<>>
        /\ \A q \in Paths \ {p} : host'[q] = host[q]
    BY <1>2 DEF TypeInv, TypeOK
  <2>3. StepAbout(id, p)
    <3>1. \A j \in Ids \ {id} : archive[j].path # p
      BY <2>1 DEF SharedIsFull, Open
    <3> QED
      BY <1>2, <2>1, <2>2, <3>1 DEF StepAbout, get_id, Open
  <2>4. IsOpen(p)' /\ Len(<<>>) = 0
    BY <2>1 DEF IsOpen
  <2>5. FileInv(p)'
    BY <1>2, <2>2, <2>4 DEF FileInv, Labelled
  <2>6. EntryInv(id)'
    BY <2>1, <2>2, <2>4 DEF EntryInv, FileOf, SectorsIn
  <2> QED
    BY <1>2, <2>1, <2>3, <2>5, <2>6, StepKeeps
<1> QED
  BY <1>1, <1>2 DEF sap_CreateArchive, TooManyOpen, Fail

LEMMA SerialClose ==
    ASSUME TypeInv, SerialInv, SharedIsFull', NEW id \in Ids, sap_CloseArchive(id), Serial
    PROVE  SerialInv'
<1>1. CASE UNCHANGED <<host, archive, sect, given>>
  BY <1>1, SerialFail
<1>2. PICK p : p = archive[id].path
  OBVIOUS
<1> USE <1>2
<1> DEFINE f == archive[id].format
           e == EmptySectors(FirstMissing(id), NSectors(f))
<1>3. ASSUME Open(id), archive' = [archive EXCEPT ![id] = Closed],
             given' = [given EXCEPT ![id] = 0], UNCHANGED sect,
             IF archive[id].state = "full" THEN UNCHANGED host ELSE Write(id, given[id], e)
      PROVE  SerialInv'
  <2>1. /\ archive'[id].state = "none"
        /\ \A j \in Ids \ {id} : archive'[j] = archive[j] /\ given'[j] = given[j]
    BY <1>3 DEF TypeInv, TypeOK, Closed
  <2>2. /\ p \in Paths /\ f \in Formats
        /\ archive[id].ntracks \in Nat /\ archive[id].ntracks =< SAP_NTRACKS[f]
        /\ SAP_NTRACKS[f] \in Nat /\ archive[id].state \in {"empty", "filled", "full"}
    BY <1>3, ArchiveAssumption DEF TypeInv, TypeOK, TableInv, Open, Closed
  <2>3. FirstMissing(id) \in Nat /\ NSectors(f) \in Nat /\ FirstMissing(id) =< NSectors(f)
    BY <2>2, Sectors DEF FirstMissing, NSectors
  <2>4. host[p].cells \in Seq(Cell) /\ Labelled(host[p].cells) /\ host[p].format = f
    BY <1>3, <2>2 DEF TypeInv, TypeOK, HostFile, SerialInv, FileInv, EntryInv, FileOf
  <2>5. /\ host'[p].format = host[p].format /\ host'[p].text = host[p].text
        /\ host'[p].cells = IF archive[id].state = "full" THEN host[p].cells
                            ELSE host[p].cells \o e
        /\ \A q \in Paths \ {p} : host'[q] = host[q]
    <3>1. CASE archive[id].state = "full"
      BY <1>3, <3>1
    <3>2. CASE archive[id].state # "full"
      <4>1. Write(id, given[id], e) /\ e \in Seq(Cell) /\ given[id] \in Nat
        BY <1>3, <2>3, <3>2, EmptySectorsSeq DEF TypeInv, TypeOK
      <4>2. SameFormat(id) /\ Len(host[p].cells) = given[id]
        BY <1>3, <2>2, <3>2 DEF SerialInv, EntryInv, SectorsIn, FileOf, SameFormat
      <4> HIDE DEF e
      <4>3. /\ host'[p].format = host[p].format /\ host'[p].text = host[p].text
            /\ host'[p].cells = Overwrite(host[p].cells, given[id], e)
            /\ \A q \in Paths \ {p} : host'[q] = host[q]
        BY <2>2, <4>1, <4>2, WriteCells DEF TypeInv
      <4>4. Overwrite(host[p].cells, given[id], e) = host[p].cells \o e
        BY <2>4, <4>1, <4>2, OverwriteAtEnd
      <4> QED
        BY <3>2, <4>3, <4>4
    <3> QED
      BY <3>1, <3>2
  <2>6. StepAbout(id, p)
    <3>1. \A q \in Paths \ {p} : host'[q] = host[q]
      BY <2>5
    <3>2. \A j \in Ids \ {id} : archive'[j] = archive[j] /\ given'[j] = given[j]
      BY <2>1
    <3>3. CASE archive[id].state = "full"
      BY <1>3, <3>1, <3>2, <3>3 DEF StepAbout
    <3>4. CASE archive[id].state # "full"
      BY <1>3, <3>1, <3>2, <3>4, HeldOnce DEF StepAbout, SerialInv
    <3> QED
      BY <3>3, <3>4
  <2>7. archive[id].state # "full" => Len(host[p].cells) = FirstMissing(id)
    <3>1. CASE archive[id].state = "empty"
      <4>1. Len(host[p].cells) = 0 /\ archive[id].ntracks = 0
        BY <3>1 DEF SerialInv, EntryInv, SectorsIn, FileOf
      <4> QED
        BY <4>1, ArchiveAssumption DEF FirstMissing
    <3>2. CASE archive[id].state = "filled"
      <4>1. /\ sect \in 1 .. SAP_NSECTS /\ Len(host[p].cells) = given[id]
            /\ given[id] = archive[id].ntracks * SAP_NSECTS + (sect - 1)
        BY <3>2 DEF SerialInv, EntryInv, SectorsIn, FileOf
      <4>2. given[id] % SAP_NSECTS = 0
        BY <2>1, <3>2 DEF Serial, ClosedAtTracks
      <4>3. sect - 1 \in 0 .. SAP_NSECTS - 1
        BY <4>1, ArchiveAssumption
      <4>4. sect - 1 = 0
        BY <2>2, <4>1, <4>2, <4>3, WholeTracks
      <4> QED
        BY <2>3, <4>1, <4>4 DEF FirstMissing
    <3> QED
      BY <2>2, <3>1, <3>2
  <2>8. Labelled(host'[p].cells) /\ Len(host'[p].cells) = NSectors(f)
    <3>1. CASE archive[id].state = "full"
      BY <2>5, <2>4, <3>1 DEF SerialInv, EntryInv, SectorsIn, FileOf
    <3>2. CASE archive[id].state # "full"
      <4>1. /\ e \in Seq(Cell) /\ Len(e) = NSectors(f) - FirstMissing(id)
            /\ \A k \in 1 .. NSectors(f) - FirstMissing(id) : e[k].at = FirstMissing(id) + k - 1
        BY <2>3, EmptySectorsSeq
      <4>2. Len(host[p].cells) = FirstMissing(id)
        BY <2>7, <3>2
      <4>3. host'[p].cells = host[p].cells \o e
        BY <2>5, <3>2
      <4> HIDE DEF e, f
      <4>4. /\ Labelled(host[p].cells \o e)
            /\ Len(host[p].cells \o e) = Len(host[p].cells) + Len(e)
        <5>1. \A k \in 1 .. Len(e) : e[k].at = Len(host[p].cells) + k - 1
          BY <4>1, <4>2
        <5> QED
          BY <2>4, <4>1, <5>1, LabelledConcat
      <4> QED
        <5>1. Len(host[p].cells) + Len(e) = NSectors(f)
          BY ONLY <2>3, <4>1, <4>2
        <5> QED
          BY ONLY <4>3, <4>4, <5>1
    <3> QED
      BY <3>1, <3>2
  <2>9. FileInv(p)'
    <3>1. host[p].text <=> host[p].format \in Formats
      BY <2>2 DEF SerialInv, FileInv
    <3> HIDE DEF f
    <3> QED
      BY <2>5, <2>4, <2>8, <3>1 DEF FileInv, NSectors
  <2>10. EntryInv(id)'
    BY <2>1 DEF EntryInv, Open
  <2> QED
    BY <1>3, <2>1, <2>2, <2>6, <2>9, <2>10, StepKeeps
<1> QED
  BY <1>1, <1>3 DEF sap_CloseArchive, Fail

LEMMA SerialFill ==
    ASSUME TypeInv, SerialInv, SharedIsFull', NEW id \in Ids, Fill(id), Serial
    PROVE  SerialInv'
<1>1. CASE UNCHANGED <<host, archive, sect, given>>
  BY <1>1, SerialFail
<1>2. PICK d \in Payloads \cup {Filler} : sap_FillArchive(id, [at |-> given[id], data |-> d])
  BY DEF Fill
<1>3. PICK p : p = archive[id].path
  OBVIOUS
<1> USE <1>3
<1> DEFINE c == [at |-> given[id], data |-> d]
           f == archive[id].format
           t == archive[id].ntracks
           ended == TrackEnded(FillSect(id) + 1)
<1>4. ASSUME archive[id].state \in {"empty", "filled"},
             Write(id, given[id], <<c>>),
             sect' = IF ended THEN 1 ELSE FillSect(id) + 1,
             archive' = [archive EXCEPT
                ![id].ntracks = IF ended THEN @ + 1 ELSE @,
                ![id].state = IF ended /\ t + 1 = SAP_NTRACKS[f] THEN "full" ELSE "filled"],
             given' = [given EXCEPT ![id] = @ + 1]
      PROVE  SerialInv'
  <2>1. p \in Paths /\ f \in Formats /\ t \in Nat /\ Open(id) /\ given[id] \in Nat
    BY <1>4 DEF TypeInv, TypeOK, TableInv, Open, Closed
  <2>2. /\ archive'[id].ntracks = IF ended THEN t + 1 ELSE t
        /\ archive'[id].state = IF ended /\ t + 1 = SAP_NTRACKS[f] THEN "full" ELSE "filled"
        /\ archive'[id].path = p /\ archive'[id].format = f
        /\ given'[id] = given[id] + 1
        /\ \A j \in Ids \ {id} : archive'[j] = archive[j] /\ given'[j] = given[j]
    BY <1>4 DEF TypeInv, TypeOK
  <2>3. host[p].cells \in Seq(Cell) /\ Labelled(host[p].cells) /\ host[p].format = f
    BY <2>1 DEF TypeInv, TypeOK, HostFile, SerialInv, FileInv, EntryInv, FileOf
  <2>4. /\ FillSect(id) \in 1 .. SAP_NSECTS /\ Len(host[p].cells) = given[id]
        /\ given[id] = t * SAP_NSECTS + (FillSect(id) - 1)
    <3>1. CASE archive[id].state = "empty"
      <4>1. Len(host[p].cells) = 0 /\ t = 0 /\ given[id] = 0
        BY <3>1 DEF SerialInv, EntryInv, SectorsIn, FileOf
      <4> QED
        BY <3>1, <4>1, ArchiveAssumption DEF FillSect
    <3>2. CASE archive[id].state = "filled"
      BY <3>2 DEF SerialInv, EntryInv, SectorsIn, FileOf, FillSect
    <3> QED
      BY <1>4, <3>1, <3>2
  <2>5. /\ host'[p].format = host[p].format /\ host'[p].text = host[p].text
        /\ host'[p].cells = Append(host[p].cells, c)
        /\ \A q \in Paths \ {p} : host'[q] = host[q]
    <3>1. c \in Cell
      BY <2>1 DEF Cell
    <3> HIDE DEF c
    <3>2. <<c>> \in Seq(Cell) /\ host[p].cells \o <<c>> = Append(host[p].cells, c)
      BY <2>3, <3>1
    <3>3. SameFormat(id) /\ given[id] \in Nat
      BY <2>1, <2>3 DEF SameFormat, FileOf
    <3>4. /\ host'[p].format = host[p].format /\ host'[p].text = host[p].text
          /\ host'[p].cells = Overwrite(host[p].cells, given[id], <<c>>)
          /\ \A q \in Paths \ {p} : host'[q] = host[q]
      <4>1. Write(id, given[id], <<c>>)
        BY <1>4 DEF c
      <4> QED
        BY <2>1, <3>2, <3>3, <4>1, WriteCells DEF TypeInv
    <3>5. Overwrite(host[p].cells, given[id], <<c>>) = host[p].cells \o <<c>>
      BY <2>3, <2>4, <3>2, OverwriteAtEnd
    <3> QED
      BY <3>2, <3>4, <3>5
  <2>6. StepAbout(id, p)
    <3>1. \A q \in Paths \ {p} : host'[q] = host[q]
      BY <2>5
    <3>2. \A j \in Ids \ {id} : archive'[j] = archive[j] /\ given'[j] = given[j]
      BY <2>2
    <3>3. \A j \in Ids \ {id} : archive[j].path # p
      BY <1>4, <2>1, HeldOnce DEF SerialInv
    <3> QED
      BY <3>1, <3>2, <3>3 DEF StepAbout
  <2>7. /\ Labelled(host'[p].cells) /\ Len(host'[p].cells) = given'[id]
    <3>1. c \in Cell /\ c.at = given[id]
      BY <2>1 DEF Cell
    <3> HIDE DEF c
    <3> QED
      BY <2>2, <2>5, <2>3, <2>4, <3>1, LabelledAppend
  <2>8. IsOpen(p)'
    BY <2>2 DEF IsOpen
  <2>9. FileInv(p)'
    <3>1. host[p].text <=> host[p].format \in Formats
      BY <2>1 DEF SerialInv, FileInv
    <3> QED
      BY <2>5, <2>7, <2>8, <3>1 DEF FileInv
  <2>10. CASE ended
    <3>1. sect' = 1 /\ FillSect(id) = SAP_NSECTS /\ archive'[id].ntracks = t + 1
      BY <1>4, <2>2, <2>4, <2>10, ArchiveAssumption DEF TrackEnded
    <3>2. given'[id] = (t + 1) * SAP_NSECTS
      <4>1. t * SAP_NSECTS \in Nat /\ (t + 1) * SAP_NSECTS = t * SAP_NSECTS + SAP_NSECTS
        BY <2>1, ArchiveAssumption
      <4> HIDE DEF t
      <4> QED
        BY <2>2, <2>4, <3>1, <4>1, ArchiveAssumption
    <3>3. EntryInv(id)'
      <4>1. /\ archive'[id].path = p /\ archive'[id].format = f
            /\ archive'[id].ntracks = t + 1 /\ sect' = 1 /\ SAP_NSECTS \in Nat \ {0}
            /\ host'[p].format = f /\ Len(host'[p].cells) = given'[id]
            /\ given'[id] = (t + 1) * SAP_NSECTS
        BY <2>2, <2>5, <2>3, <2>7, <3>1, <3>2, ArchiveAssumption
      <4>2. archive'[id].state = IF t + 1 = SAP_NTRACKS[f] THEN "full" ELSE "filled"
        BY <2>2, <2>10
      <4> HIDE DEF t, f
      <4>3. archive'[id].state = "full" => SectorsIn(id)' = NSectors(archive[id].format)'
        BY <4>1, <4>2 DEF SectorsIn, FileOf, NSectors
      <4>4. /\ 1 \in 1 .. SAP_NSECTS
            /\ given'[id] \in Nat /\ given'[id] = (t + 1) * SAP_NSECTS + (1 - 1)
        BY <2>1, <2>2, <4>1
      <4>5. archive'[id].state = "filled" =>
               /\ sect' \in 1 .. SAP_NSECTS /\ SectorsIn(id)' = given'[id]
               /\ given'[id] = archive'[id].ntracks * SAP_NSECTS + (sect' - 1)
        BY <4>1, <4>4 DEF SectorsIn, FileOf
      <4>6. (FileOf(id).format = archive[id].format)'
        BY <4>1 DEF FileOf
      <4>7. archive'[id].state # "empty"
        BY <4>2
      <4> QED
        BY <4>3, <4>5, <4>6, <4>7 DEF EntryInv
    <3>4. \A j \in Ids \ {id} : archive[j].state = "filled" =>
              sect' = sect /\ archive'[id].state # "filled"
      <4> SUFFICES ASSUME NEW j \in Ids \ {id}, archive[j].state = "filled"
                   PROVE  sect' = sect /\ archive'[id].state # "filled"
        OBVIOUS
      <4>1. archive'[id].state # "filled"
        BY DEF Serial, OneAtATime
      <4>2. archive[id].state = "empty" /\ sect \in 1 .. SAP_NSECTS
        BY <1>4 DEF SerialInv, OneFilled, EntryInv
      <4>3. SAP_NSECTS = 1
        BY <3>1, <4>2 DEF FillSect
      <4> QED
        BY <3>1, <4>1, <4>2, <4>3
    <3> QED
      BY <2>1, <2>6, <2>9, <3>3, <3>4, StepKeeps
  <2>11. CASE ~ended
    <3>1. sect' = FillSect(id) + 1 /\ sect' \in 1 .. SAP_NSECTS /\ archive'[id].ntracks = t
      BY <1>4, <2>2, <2>4, <2>11, ArchiveAssumption DEF TrackEnded
    <3>2. given'[id] = t * SAP_NSECTS + (sect' - 1)
      <4>1. t * SAP_NSECTS \in Nat
        BY <2>1, ArchiveAssumption
      <4> HIDE DEF t
      <4> QED
        BY <2>2, <2>4, <3>1, <4>1, ArchiveAssumption
    <3>3. EntryInv(id)'
      BY <2>2, <2>5, <2>3, <2>7, <2>11, <3>1, <3>2 DEF EntryInv, SectorsIn, FileOf
    <3>4. \A j \in Ids \ {id} : archive[j].state # "filled"
      BY <2>2, <2>11 DEF Serial, OneAtATime
    <3> QED
      BY <2>1, <2>6, <2>9, <3>3, <3>4, StepKeeps
  <2> QED
    BY <2>10, <2>11
<1> QED
  BY <1>1, <1>2, <1>4 DEF sap_FillArchive, Fail

LEMMA SerialFormat ==
    ASSUME TypeInv, SerialInv, SharedIsFull', NEW id \in Ids, sap_FormatArchive(id)
    PROVE  SerialInv'
<1>1. CASE UNCHANGED <<host, archive, sect, given>>
  BY <1>1, SerialFail
<1>2. PICK p : p = archive[id].path
  OBVIOUS
<1> USE <1>2
<1> DEFINE f == archive[id].format
           e == EmptySectors(0, NSectors(f))
<1>3. ASSUME archive[id].state \in {"empty", "full"}, Write(id, 0, e),
             archive' = [archive EXCEPT ![id].state = "full",
                                        ![id].ntracks = SAP_NTRACKS[f]],
             UNCHANGED <<sect, given>>
      PROVE  SerialInv'
  <2>1. p \in Paths /\ f \in Formats /\ NSectors(f) \in Nat /\ Open(id)
    BY <1>3, NSectorsNat DEF TypeInv, TypeOK, TableInv, Open, Closed
  <2>2. /\ archive'[id].state = "full" /\ archive'[id].path = p /\ archive'[id].format = f
        /\ \A j \in Ids \ {id} : archive'[j] = archive[j] /\ given'[j] = given[j]
    BY <1>3 DEF TypeInv, TypeOK
  <2>3. /\ e \in Seq(Cell) /\ Len(e) = NSectors(f)
        /\ \A k \in 1 .. NSectors(f) : e[k].at = k - 1
    <3>1. PICK total \in Nat : total = NSectors(f) /\ 0 =< total
      BY <2>1
    <3>2. /\ EmptySectors(0, total) \in Seq(Cell) /\ Len(EmptySectors(0, total)) = total - 0
          /\ \A k \in 1 .. total - 0 : EmptySectors(0, total)[k].at = 0 + k - 1
      BY <3>1, EmptySectorsSeq
    <3> QED
      BY <3>1, <3>2
  <2>4. /\ host[p].cells \in Seq(Cell) /\ host[p].format = f
        /\ Len(host[p].cells) \in {0, NSectors(f)}
        /\ archive[id].state = "full" => Len(host[p].cells) = NSectors(f)
    BY <1>3, <2>1 DEF TypeInv, TypeOK, HostFile, SerialInv, EntryInv, FileOf, SectorsIn
  <2>5. /\ host'[p].format = f /\ host'[p].text = host[p].text /\ host'[p].cells = e
        /\ \A q \in Paths \ {p} : host'[q] = host[q]
    <3>1. SameFormat(id) /\ Len(host[p].cells) =< NSectors(f)
      BY <2>1, <2>4 DEF SameFormat, FileOf
    <3>2. Write(id, 0, e)
      BY <1>3
    <3> HIDE DEF e, f
    <3>3. /\ host'[p].format = host[p].format /\ host'[p].text = host[p].text
          /\ host'[p].cells = Overwrite(host[p].cells, 0, e)
          /\ \A q \in Paths \ {p} : host'[q] = host[q]
      BY <2>1, <2>3, <3>1, <3>2, WriteCells DEF TypeInv
    <3>4. Overwrite(host[p].cells, 0, e) = e
      BY <2>3, <2>4, <3>1, OverwriteAll
    <3> QED
      BY <2>4, <3>3, <3>4
  <2>6. StepAbout(id, p)
    <3>1. CASE archive[id].state = "full"
      BY <2>2, <2>3, <2>4, <2>5, <3>1 DEF StepAbout
    <3>2. CASE archive[id].state # "full"
      BY <2>1, <2>2, <2>5, <3>2, HeldOnce DEF StepAbout, SerialInv
    <3> QED
      BY <3>1, <3>2
  <2>7. Labelled(host'[p].cells) /\ Len(host'[p].cells) = NSectors(f)
    BY <2>3, <2>5 DEF Labelled
  <2>8. FileInv(p)'
    <3>1. host[p].text <=> host[p].format \in Formats
      BY <2>1 DEF SerialInv, FileInv
    <3> HIDE DEF f
    <3> QED
      BY <2>1, <2>4, <2>5, <2>7, <3>1 DEF FileInv, NSectors
  <2>9. EntryInv(id)'
    BY <2>2, <2>5, <2>7 DEF EntryInv, FileOf, SectorsIn, NSectors
  <2> QED
    BY <1>3, <2>1, <2>2, <2>6, <2>8, <2>9, StepKeeps
<1> QED
  BY <1>1, <1>3 DEF sap_FormatArchive, Fail

LEMMA SerialCopy ==
    ASSUME TypeInv, SerialInv, SharedIsFull', NEW src \in Ids, NEW dst \in Ids, NEW j, NEW k,
           CopySector(src, dst, j, k)
    PROVE  SerialInv'
<1>1. PICK p : p = archive[dst].path
  OBVIOUS
<1> USE <1>1
<1> DEFINE c == FileOf(src).cells[j]
           new == IF j = k THEN c ELSE [c EXCEPT !.at = k - 1]
<1>2. /\ p \in Paths /\ archive[src].path \in Paths
      /\ archive[dst].state = "full" /\ archive[src].state = "full"
      /\ archive[dst].format \in Formats /\ archive[src].format = archive[dst].format
  BY DEF CopySector, TypeInv, TypeOK, TableInv, Closed
<1>3. /\ FileOf(src).cells \in Seq(Cell) /\ host[p].cells \in Seq(Cell)
      /\ j \in 1 .. Len(FileOf(src).cells) /\ k \in 1 .. Len(host[p].cells)
      /\ SameFormat(src) /\ SameFormat(dst)
  <2>1. FileOf(src).cells \in Seq(Cell) /\ host[p].cells \in Seq(Cell)
    BY <1>2 DEF TypeInv, TypeOK, HostFile, FileOf
  <2>2. /\ Len(FileOf(src).cells) = NSectors(archive[src].format)
        /\ Len(host[p].cells) = NSectors(archive[src].format)
        /\ SameFormat(src) /\ SameFormat(dst)
    BY <1>2 DEF SerialInv, EntryInv, SectorsIn, SameFormat, FileOf, Open
  <2> QED
    BY <2>1, <2>2 DEF CopySector
<1>4. new \in Cell /\ new.at = k - 1
  <2>1. c \in Cell /\ c.at = j - 1
    BY <1>2, <1>3 DEF SerialInv, FileInv, Labelled, FileOf
  <2> HIDE DEF c
  <2> QED
    BY <1>3, <2>1 DEF Cell
<1>5. /\ host'[p].format = host[p].format /\ host'[p].text = host[p].text
      /\ host'[p].cells = [host[p].cells EXCEPT ![k] = new]
      /\ \A q \in Paths \ {p} : host'[q] = host[q]
  <2>1. Write(dst, k - 1, <<new>>)
    BY <1>3 DEF CopySector, SectorsRead
  <2> HIDE DEF new
  <2>2. <<new>> \in Seq(Cell) /\ k - 1 \in Nat
    BY <1>3, <1>4
  <2>3. /\ host'[p].format = host[p].format /\ host'[p].text = host[p].text
        /\ host'[p].cells = Overwrite(host[p].cells, k - 1, <<new>>)
        /\ \A q \in Paths \ {p} : host'[q] = host[q]
    BY <1>2, <1>3, <2>1, <2>2, WriteCells DEF TypeInv
  <2>4. Overwrite(host[p].cells, k - 1, <<new>>) = [host[p].cells EXCEPT ![k] = new]
    <3>1. PICK old \in Seq(Cell) : old = host[p].cells
      BY <1>3
    <3>2. k \in 1 .. Len(old) /\ new \in Cell
      BY <1>3, <1>4, <3>1
    <3>3. Overwrite(old, k - 1, <<new>>) = [old EXCEPT ![k] = new]
      BY ONLY <3>1, <3>2, OverwriteOne, Zenon
    <3> QED
      BY <3>1, <3>3
  <2> QED
    BY <2>3, <2>4
<1>6. /\ Len(host'[p].cells) = Len(host[p].cells)
      /\ Labelled(host'[p].cells)
  <2>1. Labelled(host[p].cells)
    BY <1>2 DEF SerialInv, FileInv
  <2> HIDE DEF new
  <2> QED
    <3>1. PICK old \in Seq(Cell) : old = host[p].cells
      BY <1>3
    <3>2. k \in 1 .. Len(old) /\ host'[p].cells = [old EXCEPT ![k] = new]
      BY <1>3, <1>5, <3>1
    <3>3. Len(host'[p].cells) = Len(old)
      BY ONLY <3>1, <3>2
    <3>4. \A i \in 1 .. Len(old) : host'[p].cells[i] = IF i = k THEN new ELSE old[i]
      BY ONLY <3>1, <3>2
    <3>5. \A i \in 1 .. Len(old) : old[i].at = i - 1
      BY <2>1, <3>1 DEF Labelled
    <3>6. \A i \in 1 .. Len(old) : host'[p].cells[i].at = i - 1
      BY ONLY <1>4, <3>4, <3>5
    <3> QED
      BY <3>1, <3>3, <3>6 DEF Labelled
<1>7. UNCHANGED <<archive, sect, given>>
  BY DEF CopySector
<1>8. StepAbout(dst, p)
  BY <1>5, <1>6, <1>7 DEF StepAbout
<1>9. FileInv(p)'
  BY <1>2, <1>5, <1>6, <1>7 DEF FileInv, SerialInv, IsOpen
<1>10. EntryInv(dst)'
  BY <1>2, <1>5, <1>6, <1>7 DEF EntryInv, SerialInv, Open, FileOf, SectorsIn
<1> QED
  BY <1>2, <1>7, <1>8, <1>9, <1>10, StepKeeps

LEMMA SerialInit == ArchivesInit => SerialInv
<1> SUFFICES ASSUME ArchivesInit PROVE SerialInv
  OBVIOUS
<1>1. \A p \in Paths : host[p].text = FALSE /\ host[p].cells = <<>>
  BY DEF ArchivesInit, Init, Absent, Other
<1>2. \A p \in Paths : FileInv(p)
  <2>1. Len(<<>>) = 0
    OBVIOUS
  <2> QED
    BY <1>1, <2>1 DEF ArchivesInit, NoLookalike, FileInv, Labelled
<1> QED
  BY <1>2 DEF ArchivesInit, Init, SerialInv, EntryInv, OneFilled, SharedIsFull, Open, Closed

LEMMA SerialNext == TypeInv /\ SerialInv /\ [Next /\ Serial]_avars => SerialInv'
<1> SUFFICES ASSUME TypeInv, SerialInv, [Next /\ Serial]_avars PROVE SerialInv'
  OBVIOUS
<1>1. ASSUME NEW p \in Paths, SharedIsFull', sap_OpenArchive(p)
      PROVE  SerialInv'
  BY <1>1, SerialOpen
<1>2. ASSUME NEW p \in Paths, NEW f, SharedIsFull', sap_CreateArchive(p, f)
      PROVE  SerialInv'
  BY <1>2, SerialCreate
<1>3. ASSUME NEW id \in Ids, SharedIsFull', Serial, sap_CloseArchive(id) \/ Fill(id)
      PROVE  SerialInv'
  BY <1>3, SerialClose, SerialFill
<1>4. ASSUME NEW id \in Ids, SharedIsFull', sap_FormatArchive(id)
      PROVE  SerialInv'
  BY <1>4, SerialFormat
<1>5. ASSUME NEW id \in Ids, NeedsFull(id)
      PROVE  SerialInv'
  BY <1>5, SerialFail DEF NeedsFull, Fail
<1>6. ASSUME NEW src \in Ids, NEW dst \in Ids, NEW j, NEW k,
             SharedIsFull', CopySector(src, dst, j, k)
      PROVE  SerialInv'
  BY <1>6, SerialCopy
<1>7. CASE UNCHANGED avars
  BY <1>7, SerialFail DEF avars
<1> QED
  BY <1>1, <1>2, <1>3, <1>4, <1>5, <1>6, <1>7 DEF Next, Serial

LEMMA SerialInvariant == SerialSpec => [](TypeInv /\ SerialInv)
<1>1. ArchivesInit => TypeInv /\ SerialInv
  BY TypeInit, SerialInit DEF ArchivesInit
<1>2. TypeInv /\ SerialInv /\ [Next /\ Serial]_avars => TypeInv' /\ SerialInv'
  BY TypeNext, SerialNext
<1> QED
  BY <1>1, <1>2, PTL DEF SerialSpec

\* As long as archives are filled one at a time, one that is FULL has every
\* sector of its format in its place, however it became so.
THEOREM FullArchivesAreComplete == SerialSpec => []FullIsComplete
<1>1. TypeInv /\ SerialInv => FullIsComplete
  <2> SUFFICES ASSUME TypeInv, SerialInv, NEW id \in Ids, archive[id].state = "full"
               PROVE  Complete(FileOf(id))
    BY DEF FullIsComplete
  <2>1. archive[id].path \in Paths /\ Open(id)
    BY DEF TypeInv, TableInv, Open, Closed
  <2> QED
    BY <2>1 DEF SerialInv, FileInv, EntryInv, FileOf, SectorsIn, Complete, Labelled
<1> QED
  BY <1>1, SerialInvariant, PTL

\* And so has one that was closed after any number of whole tracks.
THEOREM ClosedArchivesAreComplete == SerialSpec => []ClosedIsComplete
<1>1. TypeInv /\ SerialInv => ClosedIsComplete
  BY DEF ClosedIsComplete, SerialInv, FileInv, Complete, Labelled
<1> QED
  BY <1>1, SerialInvariant, PTL
=============================================================================
