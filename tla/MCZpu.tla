------------------------------- MODULE MCZpu --------------------------------
(***************************************************************************)
(* The emulators of the ZPU, checked in one run; one part moves, the       *)
(* others keep a state of their own:                                       *)
(*                                                                         *)
(*   - Zpu: every sequence of MaxSteps instructions, of bytes of two bits, *)
(*     on three cells of stack and images of small and large longs;        *)
(*   - ZpuFetch: two blocks of two banks of four bytes, every program;     *)
(*   - ZpuWord: words of four bytes of two bits, with halves and bytes     *)
(*     that are zero, small, at the sign and full;                         *)
(*   - ZpuTimer: more interrupts than the counter has values.              *)
(***************************************************************************)
EXTENDS Zpu, ZpuFetch, ZpuWord, ZpuTimer

CONSTANT MaxSteps           \* bound on the instructions of a run of Zpu

VARIABLES part, steps

zpuvars == <<zvars, fvars, wordvars, timervars, part, steps>>

MCInstructions ==
    (Unnumbered \X {0}) \cup ({"IM"} \X (0 .. IMBASE - 1))
        \cup ({"ADDSP", "LOADSP", "STORESP"} \X (0 .. 2))

MCOperands == {0, 1, 2, 3, 4, 5, 6, 7, 15, 16, 17, 64, 85, 100, 127, 128, 129, 170,
               192, 240, 251, 254, 255}

EmulatorsInit ==
    /\ part \in {"reference", "fetch", "word", "timer"}
    /\ steps = 0
    /\ ZpuInit
    /\ part # "reference" => sp = WORD /\ memory = [c \in Cells |-> 0]
    /\ FetchInit
    /\ part # "fetch" => ~shared /\ sentinel = "ADD"
    /\ WordInit
    /\ part # "word" => op = "NOT" /\ tos0 = 0
    /\ TimerInit
    /\ part # "timer" => ~phi

Reference ==
    /\ part = "reference" /\ steps < MaxSteps
    /\ zpu_execute
    /\ steps' = steps + 1
    /\ UNCHANGED <<part, fvars, wordvars, timervars>>
Fetch == part = "fetch" /\ FetchNext /\ UNCHANGED <<part, steps, zvars, wordvars, timervars>>
Word  == part = "word"  /\ WordNext  /\ UNCHANGED <<part, steps, zvars, fvars, timervars>>
Timer == part = "timer" /\ TimerNext /\ UNCHANGED <<part, steps, zvars, fvars, wordvars>>

EmulatorsNext == Reference \/ Fetch \/ Word \/ Timer
EmulatorsSpec == EmulatorsInit /\ [][EmulatorsNext]_zpuvars
=============================================================================
