------------------------------ MODULE SapNames -------------------------------
(***************************************************************************)
(* The names of src/sapfs/libsap.c: decode_filename makes the 8+3 bytes of *)
(* a directory entry from the path of a host file, get_filename makes the  *)
(* name that programs list, and take from users, from these bytes.  An     *)
(* entry is searched in two ways: sap_AddFile compares the bytes, all the  *)
(* other functions (seek_file) the listed names.  SapDos takes the two for *)
(* one; this module says for which names they are.                         *)
(***************************************************************************)
EXTENDS Integers, SequencesExt

CONSTANTS
    TO_NAME_LENGTH, TO_EXT_LENGTH,
    ShortMax,           \* characters that shortname[] can hold
    NSlots,             \* TO_NDIRENTRIES
    Typed,              \* paths of host files, as sequences of characters
    Tags,               \* the extensions of the table ext_type
    Upper               \* toupper

Blank == " "
Dot   == "."
Slash == "/"
FREE  == "0xFF"         \* TO_TAG_FREE
NUL   == "0x00"

Chars == DOMAIN Upper

ASSUME SapNamesAssumption ==
    /\ {TO_NAME_LENGTH, TO_EXT_LENGTH, ShortMax, NSlots} \subseteq Nat \ {0}
    /\ TO_NAME_LENGTH + 1 + TO_EXT_LENGTH <= ShortMax
    /\ \A c \in {Blank, Dot, Slash, FREE} : c \in Chars /\ Upper[c] = c
    /\ NUL \notin Chars
    /\ Typed \subseteq Seq(Chars)
    /\ Tags \subseteq [1 .. TO_EXT_LENGTH -> Chars \ {Blank}]  \* "BAS", "DAT", ...

VARIABLES
    slots,      \* the entries of the directory: name, extension, file type
    answer      \* what the last function returned: a slot, or 0 for none

nvars == <<slots, answer>>

NoType == "???"
Unused == [name |-> [k \in 1 .. TO_NAME_LENGTH |-> FREE],
           ext  |-> [k \in 1 .. TO_EXT_LENGTH |-> FREE], type |-> NoType]

-----------------------------------------------------------------------------
\* The n bytes of a field that was filled with blanks before s was copied to it.
Field(s, n) == [k \in 1 .. n |-> IF k <= Len(s) THEN s[k] ELSE Blank]

AfterSlash(f) == SubSeq(f, SelectLastInSeq(f, LAMBDA c : c = Slash) + 1, Len(f))
shortname(f)  == LET s == AfterSlash(f) IN IF Len(s) > ShortMax THEN SubSeq(s, 1, ShortMax) ELSE s

\* Mutant: the extension is sought from the left.
DotOf_First(s) == SelectInSeq(s, LAMBDA c : c = Dot)

\* The place of the last dot, 0 if there is none.
DotOf(s) == SelectLastInSeq(s, LAMBDA c : c = Dot)

ext_type(ext) ==
    LET up == [k \in 1 .. Len(ext) |-> Upper[ext[k]]]
    IN IF up \in Tags THEN up ELSE NoType

decode_filename(f) ==
    LET s    == shortname(f)
        name == IF DotOf(s) = 0 THEN s ELSE SubSeq(s, 1, DotOf(s) - 1)
        tail == IF DotOf(s) = 0 THEN <<>> ELSE SubSeq(s, DotOf(s) + 1, Len(s))
        ext  == IF Len(tail) > TO_EXT_LENGTH THEN SubSeq(tail, 1, TO_EXT_LENGTH) ELSE tail
    IN [name |-> Field(name, TO_NAME_LENGTH), ext |-> Field(ext, TO_EXT_LENGTH),
        type |-> ext_type(ext)]

\* Mutant: the loop stops one character early.
UpToBlank_Short(field) ==
    LET b == SelectInSeq(field, LAMBDA c : c = Blank)
    IN SubSeq(field, 1, IF b = 0 THEN Len(field) - 1 ELSE b - 1)

\* A field up to its first blank.
UpToBlank(field) ==
    LET b == SelectInSeq(field, LAMBDA c : c = Blank)
    IN IF b = 0 THEN field ELSE SubSeq(field, 1, b - 1)

IsFile(e) == e.name[1] \notin {NUL, FREE}

\* The listed name; a dot at its end is taken off, whichever it is.
get_filename(e) ==
    LET full == UpToBlank(e.name) \o <<Dot>> \o UpToBlank(e.ext)
    IN IF Last(full) = Dot THEN Front(full) ELSE full

Slots == 1 .. NSlots

seek_file(f) == SelectInSeq(slots, LAMBDA e : IsFile(e) /\ get_filename(e) = f)

-----------------------------------------------------------------------------
NamesInit ==
    /\ slots = [k \in Slots |-> Unused]
    /\ answer = 0

SameBytes(e, d) == IsFile(e) /\ e.name = d.name /\ e.ext = d.ext

\* Mutant: the search ends at the first free entry.
prev_n_Hasty(d) ==
    LET k == SelectInSeq(slots, LAMBDA e : ~IsFile(e) \/ SameBytes(e, d))
    IN IF k # 0 /\ IsFile(slots[k]) THEN k ELSE 0

\* The entry that holds a file of these bytes already, 0 if none does.
prev_n(d) == SelectInSeq(slots, LAMBDA e : SameBytes(e, d))

free_n == SelectInSeq(slots, LAMBDA e : ~IsFile(e))

\* The part of sap_AddFile that chooses and fills the entry.
AddName(f) ==
    LET d  == decode_filename(f)
        at == IF prev_n(d) # 0 THEN prev_n(d) ELSE free_n
    IN /\ answer' = at
       /\ slots' = IF at = 0 THEN slots ELSE [slots EXCEPT ![at] = d]

\* The part of sap_DeleteFile that finds and frees the entry.
DeleteName(f) ==
    /\ answer' = seek_file(f)
    /\ slots' = IF seek_file(f) = 0 THEN slots
                ELSE [slots EXCEPT ![seek_file(f)].name[1] = NUL]

\* Users delete what they typed, or what they saw in the listing.
NamesNext ==
    \/ \E f \in Typed : AddName(f) \/ DeleteName(f)
    \/ \E k \in Slots : IsFile(slots[k]) /\ DeleteName(get_filename(slots[k]))

NamesSpec == NamesInit /\ [][NamesNext]_nvars

-----------------------------------------------------------------------------
Files == {k \in Slots : IsFile(slots[k])}

\* A blank inside a field hides what follows it; a dot in a name that has no
\* extension is taken for the one before an extension.
InnerBlank(field) == \E j, k \in DOMAIN field : j < k /\ field[j] = Blank /\ field[k] # Blank
Irregular(e) ==
    \/ InnerBlank(e.name) \/ InnerBlank(e.ext)
    \/ e.ext[1] = Blank /\ Contains(e.name, Dot)

\* No two files have the same bytes for a name, whatever was deleted and added
\* again before: the search for the file to replace goes past the free entries.
OneEntryPerName ==
    \A j, k \in Files : SameBytes(slots[j], slots[k]) => j = k

\* Every regular file is reached by the name that the listing gives it: only a
\* file with an irregular name can stand before it under the same listed name.
ListedNameReaches ==
    \A k \in Files :
        LET found == seek_file(get_filename(slots[k]))
        IN found = k \/ Irregular(slots[k]) \/ Irregular(slots[found])

\* A regular file that is extracted and added again, under the name it was listed
\* with, replaces itself and keeps its type.
ReaddReplaces ==
    \A k \in Files :
        Irregular(slots[k]) \/ decode_filename(get_filename(slots[k])) = slots[k]
=============================================================================
