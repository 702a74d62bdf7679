---------------------------- MODULE SapDirectory ----------------------------
(***************************************************************************)
(* What the logical functions of libsap.h promise to a program, whatever   *)
(* the layout of the disk: an archive is a dictionary from names to the    *)
(* files last added under them, and a call does all of its work or refuses *)
(* and says why.  The capacity is exact: a file is refused for want of     *)
(* space only when its blocks and those of the files that stay exceed the  *)
(* disk, so that no sequence of calls wears the disk out.  The listing     *)
(* functions tell what is there: shown is what they answer after a call.   *)
(* A step is the effect of the call made last, whichever has been made     *)
(* before it: the result of a call depends on the dictionary alone.        *)
(***************************************************************************)
EXTENDS Integers, FiniteSets

CONSTANTS Names, HostFiles, Size, EntryName, Wildcards, NoFile,
          MaxFiles,             \* slots of the directory
          Capacity,             \* blocks for data
          BlockBytes,           \* bytes of a block
          BlockKb,              \* Kb that the listing counts for it
          Content(_)            \* what a host file reads as

VARIABLES files,                \* the file stored under each name, or NoFile
          shown,                \* what the listing functions answer
          got,                  \* what the last call wrote on the host
          ret, errno,
          call                  \* the call whose effect the next step is

vars == <<files, shown, got, ret, errno, call>>

Request(op, f, S, wild) == [op |-> op, file |-> f, pattern |-> S, wild |-> wild]

In(F)    == {nm \in Names : F[nm] # NoFile}
Stored   == In(files)
Need(f)  == (Size[f] + BlockBytes - 1) \div BlockBytes
Nothing  == [nm \in Names |-> <<>>]

\* The sum of count[x] for x in S: one pair for each thing counted.
Total(count, S) == Cardinality(UNION {{x} \X (1 .. count[x]) : x \in S})

\* What the files of a dictionary take on the disk, and how long they are.
BlocksOf(F) == [nm \in In(F) |-> Need(F[nm])]
BytesOf(F)  == [nm \in In(F) |-> Size[F[nm]]]

\* Blocks taken by the files stored under other names than nm.
TakenByOthers(nm) == Total(BlocksOf(files), Stored \ {nm})
Fits(f)           == TakenByOthers(EntryName[f]) + Need(f) =< Capacity
HasSlot(f)        == EntryName[f] \in Stored \/ Cardinality(Stored) < MaxFiles

\* Each file is listed with its blocks; the size told is that of whole blocks.
Listing(F) ==
    LET need == [nm \in Names |-> IF nm \in In(F) THEN BlocksOf(F)[nm] ELSE 0]
        free == Capacity - Total(need, In(F))
    IN [list |-> [lines   |-> 1 + Cardinality(In(F)),
                  dskf    |-> free * BlockKb,
                  entries |-> {<<nm, need[nm] * BlockKb>> : nm \in In(F)}],
        info |-> [nm \in Names |-> [nblocks |-> need[nm], distinct |-> need[nm],
                                    size |-> need[nm] * BlockBytes]]]

Init == /\ files = [nm \in Names |-> NoFile]
        /\ shown = Listing(files)
        /\ got = Nothing
        /\ ret = 0 /\ errno = "none"
        /\ call = Request("none", NoFile, {}, FALSE)

Refuse(e) == /\ errno' = e /\ ret' = 0 /\ got' = Nothing
             /\ UNCHANGED files

Add(f) ==
    \/ /\ Size[f] > 0
       /\ files' = [files EXCEPT ![EntryName[f]] = f]
       /\ ret' = Size[f] /\ got' = Nothing
       /\ UNCHANGED errno
       /\ HasSlot(f) /\ Fits(f)
    \/ Refuse("ENFILE") /\ Size[f] = 0
    \/ Refuse("ENOSPC") /\ Size[f] > 0 /\ ~HasSlot(f)
    \/ Refuse("EFBIG")  /\ Size[f] > 0 /\ HasSlot(f) /\ ~Fits(f)

\* The error a plain name without a file leaves; a wildcard leaves none.
NotFound(S, wild) == errno' = IF S \cap Stored = {} /\ ~wild THEN "ENOENT" ELSE errno

Delete(S, wild) ==
    /\ files' = [nm \in Names |-> IF nm \in S THEN NoFile ELSE files[nm]]
    /\ got' = Nothing
    /\ ret' > 0 <=> S \cap Stored # {}
    /\ NotFound(S, wild)

\* Some of the host files may not be writable; the others read as what was added.
Extract(S, wild) ==
    \E opened \in SUBSET (S \cap Stored) :
        /\ got' = [nm \in Names |-> IF nm \in opened THEN Content(files[nm]) ELSE <<>>]
        /\ ret' = Total(BytesOf(files), opened)
        /\ IF opened # S \cap Stored THEN errno' = "EPERM" ELSE NotFound(S, wild)
        /\ UNCHANGED files

Effect ==
    \/ call.op = "none"    /\ UNCHANGED <<files, got, ret, errno>>
    \/ call.op = "add"     /\ call.file = NoFile /\ Refuse("ENOENT")
    \/ call.op = "add"     /\ call.file # NoFile /\ Add(call.file)
    \/ call.op = "delete"  /\ Delete(call.pattern, call.wild)
    \/ call.op = "extract" /\ Extract(call.pattern, call.wild)

\* A host file, or none that can be read; the files of a plain name, or of a wildcard.
NextCall ==
    \/ \E f \in HostFiles \cup {NoFile} : call' = Request("add", f, {}, FALSE)
    \/ \E op \in {"delete", "extract"} :
          \/ \E nm \in Names    : call' = Request(op, NoFile, {nm}, FALSE)
          \/ \E S \in Wildcards : call' = Request(op, NoFile, S, TRUE)

Next == Effect /\ shown' = Listing(files') /\ NextCall

Spec == Init /\ [][Next]_vars
=============================================================================
