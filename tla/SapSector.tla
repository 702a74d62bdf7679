----------------------------- MODULE SapSector ------------------------------
(***************************************************************************)
(* How src/sapfs/libsap.c stores one sector of an archive: four bytes of   *)
(* header, the data masked with SAP_MAGIC_NUM, and the two bytes of a CRC  *)
(* of the header and the data; and what sap_ReadSector makes of the bytes  *)
(* it finds, which something may have damaged since they were written.     *)
(*                                                                         *)
(* A byte or a word is the set of its bits that are one, the least         *)
(* significant being 0: 0x81 is {0, 7}, and ^ is the symmetric difference. *)
(***************************************************************************)
EXTENDS Integers, SequencesExt

Byte == SUBSET (0 .. 7)
Register == SUBSET (0 .. 15)

CONSTANTS
    SAP_SECTSIZE,       \* bytes of data in a sector
    Bytes,              \* the bytes that programs write as data
    Headers,            \* <<format, protection>> as programs write them
    Places,             \* <<track, sector>> of the sectors of an archive
    Bursts              \* damage: what two neighbouring bytes are xored with

ASSUME SapSectorAssumption ==
    /\ SAP_SECTSIZE \in Nat \ {0}
    /\ Bytes \subseteq Byte
    /\ Headers \subseteq Byte \X Byte /\ Places \subseteq Byte \X Byte
    /\ Bursts \subseteq Byte \X Byte /\ <<{}, {}>> \notin Bursts

SAP_MAGIC_NUM   == {0, 1, 4, 5, 7}
SAP_EXTSECTSIZE == SAP_SECTSIZE + 6

SAP_NO_STD_FMT == {0}
SAP_PROTECTED  == {1}
SAP_BAD_SECTOR == {2}
SAP_CRC_ERROR  == {3}

Sector == [head : Headers, label : Places, data : [1 .. SAP_SECTSIZE -> Bytes]]

VARIABLES
    file,       \* the bytes of the sector in the archive
    written,    \* the sector as a program wrote it
    damaged,    \* whether a byte of the file was changed since
    read        \* what sap_ReadSector gave last: the place asked for, the
                \* sector, the two bytes after its data, the flags

sectorvars == <<file, written, damaged, read>>

NotRead == [place |-> <<{}, {}>>, head |-> <<{}, {}>>, label |-> <<{}, {}>>, data |-> <<>>,
            crc |-> <<{}, {}>>, flag |-> {}]

-----------------------------------------------------------------------------
puktable ==
    <<{}, {0, 7, 12}, {1, 8, 13}, {0, 1, 7, 8, 12, 13}, {2, 9, 14},
      {0, 2, 7, 9, 12, 14}, {1, 2, 8, 9, 13, 14}, {0, 1, 2, 7, 8, 9, 12, 13, 14},
      {3, 10, 15}, {0, 3, 7, 10, 12, 15}, {1, 3, 8, 10, 13, 15},
      {0, 1, 3, 7, 8, 10, 12, 13, 15}, {2, 3, 9, 10, 14, 15},
      {0, 2, 3, 7, 9, 10, 12, 14, 15}, {1, 2, 3, 8, 9, 10, 13, 14, 15},
      {0, 1, 2, 3, 7, 8, 9, 10, 12, 13, 14, 15}>>

\* The four bits that index = ... & 0xf leaves, as a number.
Index(word) ==
      (IF 0 \in word THEN 1 ELSE 0) + (IF 1 \in word THEN 2 ELSE 0)
    + (IF 2 \in word THEN 4 ELSE 0) + (IF 3 \in word THEN 8 ELSE 0)

\* Mutant: the sign of crcpuk_temp comes down when it is shifted.
Shifted_Signed(temp) ==
    {i \in 0 .. 11 : i + 4 \in temp} \cup IF 15 \in temp THEN 12 .. 15 ELSE {}

\* (crcpuk_temp >> 4) & 0xfff of a signed short.
Shifted(temp) == {i \in 0 .. 11 : i + 4 \in temp}

HalfStep(temp, c) == SymDiff(Shifted(temp), puktable[Index(SymDiff(temp, c)) + 1])

crc_pukall(temp, c) == HalfStep(HalfStep(temp, c), Shifted(c))

\* Mutant: the number of the sector is left out.
Summed_NoSector(s) == s.head \o <<s.label[1]>> \o s.data

Summed(s) == s.head \o s.label \o s.data

\* crcpuk_temp after the first i bytes.
do_crc(s) ==
    LET temp[i \in 0 .. Len(Summed(s))] ==
            IF i = 0 THEN 0 .. 15 ELSE crc_pukall(temp[i - 1], Summed(s)[i])
    IN temp[Len(Summed(s))]

High(crc) == {i \in 0 .. 7 : i + 8 \in crc}

Low(crc) == crc \cap (0 .. 7)

Masked(data) == [i \in 1 .. SAP_SECTSIZE |-> SymDiff(data[i], SAP_MAGIC_NUM)]

\* Mutant: the loop that unmasks the data is one short.
Unmasked_Short(data) ==
    [i \in 1 .. SAP_SECTSIZE |->
        IF i = SAP_SECTSIZE THEN data[i] ELSE SymDiff(data[i], SAP_MAGIC_NUM)]

Unmasked(data) == Masked(data)

-----------------------------------------------------------------------------
Encoded(s) == s.head \o s.label \o Masked(s.data) \o <<High(do_crc(s)), Low(do_crc(s))>>

do_write_sector(s) ==
    /\ file' = Encoded(s)
    /\ written' = s

do_read_sector ==
    [head |-> SubSeq(file, 1, 2), label |-> SubSeq(file, 3, 4),
     data |-> Unmasked(SubSeq(file, 5, SAP_SECTSIZE + 4)),
     crc  |-> SubSeq(file, SAP_SECTSIZE + 5, SAP_EXTSECTSIZE)]

\* Both halves of the CRC are compared with the first of its two bytes.
CrcDiffers(s) == s.crc[1] # High(do_crc(s)) \/ s.crc[1] # Low(do_crc(s))

LabelDiffers(s, place) == s.label[1] # place[1] \/ s.label[2] # place[2]

Flags(s, place) ==
         (IF s.head[1] # {} THEN SAP_NO_STD_FMT ELSE {})
    \cup (IF s.head[2] # {} THEN SAP_PROTECTED ELSE {})
    \cup (IF LabelDiffers(s, place) THEN SAP_BAD_SECTOR ELSE {})
    \cup (IF CrcDiffers(s) THEN SAP_CRC_ERROR ELSE {})

SectorInit ==
    /\ written \in Sector
    /\ file = Encoded(written)
    /\ damaged = FALSE
    /\ read = NotRead

\* A program that moves a sector (sapfs -m) writes it under another label.
sap_WriteSector ==
    /\ \E place \in Places : do_write_sector([written EXCEPT !.label = place])
    /\ damaged' = FALSE
    /\ read' = NotRead

sap_ReadSector(place) ==
    LET s == do_read_sector
    IN /\ read = NotRead
       /\ read' = [place |-> place, head |-> s.head, label |-> s.label, data |-> s.data,
                   crc |-> s.crc, flag |-> Flags(s, place)]
       /\ UNCHANGED <<file, written, damaged>>

\* Two neighbouring bytes of the host file change.
Damage ==
    /\ ~damaged
    /\ \E k \in 1 .. SAP_EXTSECTSIZE - 1, b \in Bursts :
          file' = [file EXCEPT ![k] = SymDiff(@, b[1]), ![k + 1] = SymDiff(@, b[2])]
    /\ damaged' = TRUE
    /\ read' = NotRead
    /\ UNCHANGED written

SectorNext == sap_WriteSector \/ (\E place \in Places : sap_ReadSector(place)) \/ Damage

SectorSpec == SectorInit /\ [][SectorNext]_sectorvars

-----------------------------------------------------------------------------
HasFlag(flag) == read.flag \cap flag # {}

\* A sector reads back as it was written, bit for bit, and the flags but that of
\* the CRC tell a format, a protection and a label apart that are not those of an
\* ordinary sector at its place.
ReadsBack ==
    read # NotRead /\ ~damaged =>
        /\ read.head = written.head /\ read.label = written.label /\ read.data = written.data
        /\ HasFlag(SAP_NO_STD_FMT) <=> written.head[1] # {}
        /\ HasFlag(SAP_PROTECTED)  <=> written.head[2] # {}
        /\ HasFlag(SAP_BAD_SECTOR) <=> written.label # read.place

\* The one burst that the CRC does not see: 0x91 in the last byte of the data
\* changes the CRC computed by 0x8500, and 0x85 in the byte behind it, the high one
\* of the CRC, changes the CRC stored by as much.
Unseen ==
    /\ read.data[SAP_SECTSIZE] = SymDiff(written.data[SAP_SECTSIZE], {0, 4, 7})
    /\ read.crc[1] = SymDiff(High(do_crc(written)), {0, 2, 7})

\* A CRC computed again over what was read is not the one stored, whatever the
\* burst of 16 bits and wherever it fell, in the data, in the header, in the CRC
\* or over the border of two: but for the one burst that the order of the two
\* bytes of the CRC, the high one first, lets through.
BurstChangesCrc ==
    read # NotRead /\ damaged =>
        (read.crc = <<High(do_crc(read)), Low(do_crc(read))>> <=> Unseen)

(***************************************************************************)
(* The CRC of the table is the CRC-CCITT of polynomial 0x8408, a bit at a  *)
(* time, the least significant first.                                      *)
(***************************************************************************)
BitStep(temp) ==
    SymDiff({i \in 0 .. 14 : i + 1 \in temp}, IF 0 \in temp THEN {3, 10, 15} ELSE {})

FourBits(temp) == BitStep(BitStep(BitStep(BitStep(temp))))

EightBits(temp) == FourBits(FourBits(temp))

Reference(s) ==
    LET temp[i \in 0 .. Len(Summed(s))] ==
            IF i = 0 THEN 0 .. 15 ELSE EightBits(SymDiff(temp[i - 1], Summed(s)[i]))
    IN temp[Len(Summed(s))]

\* The table and its two steps per byte are that CRC, also where crcpuk_temp is
\* negative: the sign must not come down with the shift.
CrcIsCcitt == read = NotRead /\ ~damaged => do_crc(written) = Reference(written)

\* "SAP_CRC_ERROR : CRC error": the flag of a sector that nothing damaged.
CrcFlagMeansDamage == read # NotRead /\ HasFlag(SAP_CRC_ERROR) => damaged
=============================================================================
