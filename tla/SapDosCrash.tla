----------------------------- MODULE SapDosCrash -----------------------------
(***************************************************************************)
(* SapDos when the process can be killed, or the machine stop, at any step *)
(* of a command.  Memory is lost; the archive keeps the sectors written so *)
(* far: the data of a new file may be there without its FAT, the FAT of    *)
(* sector 2 without the directory of the sectors after it.  Nothing in the *)
(* code repairs a disk, so what a crash costs depends on the calls that    *)
(* follow: any of them, or those of a careful user, who deletes the files  *)
(* the interrupted command was about before adding anything.               *)
(***************************************************************************)
EXTENDS SapDosRead

CONSTANT MaxCrashes     \* bound on the crashes of a careless user's disk

VARIABLES
    careful,    \* the user
    crashes,    \* how many there were (careless user only)
    kept,       \* the file each name stands for, after the calls that returned
    fresh,      \* the file that the last call has just stored, until the next call
    suspects    \* names that an interrupted command may have left half-changed

cvars == <<vars, careful, crashes, kept, fresh, suspects>>

\* The names that the running command changes.
Touched ==
    IF cmd.op = "add" THEN {EntryName[cmd.file]}
    ELSE IF cmd.op = "delete" THEN cmd.pattern
    ELSE {}

\* Sector 2 is the first of track 20 whose content changes; a replacement may
\* write over the blocks of the file it replaces well before.
Exposed ==
    IF pc = "save" /\ sect > 2 THEN Touched
    ELSE IF pc \in {"fill", "save"} /\ cmd.op = "add"
      THEN {nm \in Touched : kept[nm] # NoFile}
    ELSE {}

Crash ==
    /\ pc # "idle"
    /\ Return /\ i' = 0            \* in the process that comes next
    /\ mfat' = fat /\ mdir' = dir
    /\ suspects' = suspects \cup Exposed
    /\ extracted' = NothingExtracted
    /\ fresh' = NoFile
    /\ UNCHANGED <<archive, ret, errno, kept>>

\* The step that makes a command's changes complete.
Completes == pc = "save" /\ pc' = "idle"

Uninterrupted ==
    /\ Next
    /\ kept' = IF Completes
                 THEN [nm \in Names |-> IF nm \in Touched THEN cmd.file ELSE kept[nm]]
                 ELSE kept
    /\ fresh' = IF Completes THEN cmd.file ELSE NoFile
    /\ suspects' = IF Completes THEN suspects \ Touched ELSE suspects

DeletesFirst == suspects # {} /\ pc = "idle" => cmd'.op # "add"

CInit == /\ Init
         /\ careful \in BOOLEAN
         /\ crashes = 0 /\ suspects = {} /\ fresh = NoFile
         /\ kept = [nm \in Names |-> NoFile]

Goes == Uninterrupted /\ (careful => DeletesFirst) /\ UNCHANGED <<careful, crashes>>

Dies ==
    /\ Crash
    /\ crashes' = IF careful THEN crashes ELSE crashes + 1
    /\ crashes' <= MaxCrashes
    /\ UNCHANGED careful

CrashSpec == CInit /\ [][Goes \/ Dies]_cvars

-----------------------------------------------------------------------------
\* A crash harms no file but those of the interrupted command, whatever was
\* written of its data, FAT and directory, and however many crashes follow:
\* deleting those files is all it takes to go on.
CrashContained ==
    careful /\ pc = "idle" => \A nm \in Names \ suspects : FilesOnDisk[nm] = kept[nm]

\* Nor does it make sap_AddFile run out of blocks where its test of the free
\* size found enough: with half-changed files on the disk (only a careless user
\* adds then), the chain that is followed and freed may be one the test counted.
StillAllocates == careful => AllocationSucceeds

\* A file that sap_AddFile has just stored reads back byte for byte, whatever
\* a crash left on the disk before it: the blocks it takes are free, or freed
\* first, even when damaged files still claim them.
AddedFileReads ==
    fresh # NoFile => FilesOnDisk[EntryName[fresh]] = fresh
=============================================================================
