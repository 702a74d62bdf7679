---------------------------- MODULE SapDosRefines ----------------------------
(***************************************************************************)
(* SapDos implements SapDirectory.  The dictionary is read from the        *)
(* archive itself, by following the chain of every directory entry down to *)
(* its sectors.  The history variable seen is that reading, with the result *)
(* of the last call, taken as a call leaves "idle", and the request that    *)
(* starts: a completed call shows in seen when the next one starts, and     *)
(* must be the effect of the request that seen held until then.             *)
(***************************************************************************)
EXTENDS SapDosList

\* 255 bytes in double density and 127 in single: the bytes of the last sector do not
\* reach the high byte that sap_GetFileInfo adds.
ASSUME SectorAssumption == SectSize < 256

VARIABLE seen

\* What the archive holds and the last call gave, as the request c starts.
Snapshot(c) == [files |-> FilesOnDisk, shown |-> Listing,
                got |-> extracted, ret |-> ret, errno |-> errno, call |-> c]

Adding(f) == [NoCmd EXCEPT !.op = "add", !.file = f]

RInit == Init /\ seen = Snapshot(NoCmd)
RNext ==
    \/ AddNoFile /\ seen' = Snapshot(Adding(NoFile))
    \/ \E f \in HostFiles : /\ AddEmptyFile(f) \/ AddDirFull(f) \/ AddFile(f)
                            /\ seen' = Snapshot(Adding(f))
    \/ (DeleteFile \/ ExtractFile) /\ seen' = Snapshot(cmd')
    \/ Step /\ UNCHANGED seen
RSpec == RInit /\ [][RNext]_<<vars, seen>>

Dictionary ==
    INSTANCE SapDirectory WITH
        files <- seen.files, shown <- seen.shown, got <- seen.got, ret <- seen.ret, errno <- seen.errno,
        call <- seen.call,
        MaxFiles <- NEntries,
        Capacity <- NBlocks - Cardinality(Reserved),
        BlockBytes <- TO_BLOCKSIZE,
        BlockKb <- BlockKBytes

\* Every completed call of libsap has the effect and the result of the same call on
\* the dictionary, whatever calls were made before it: what was added reads back byte
\* for byte whatever was added, replaced and deleted since under other names, refusals
\* are exact, a wildcard finds all of its files although the index of its search is
\* static, and a listing made after the call names the files, their blocks and the
\* space left.
ImplementsDictionary == Dictionary!Spec
=============================================================================
