------------------------------ MODULE ZpuFlow -------------------------------
(***************************************************************************)
(* The instructions of a ZPU, one after the other: where each one is, which *)
(* IM continues the immediate of the one before it, and what the calls      *)
(* leave to return to.  Any instruction may be at any address.              *)
(***************************************************************************)
EXTENDS Integers, SequencesExt

CONSTANTS
    Space,          \* addresses
    Instruction     \* records: op, and the number n that it finds on the stack

VARIABLES
    pc,
    ran,            \* the last instructions, two or three when they are fused
    long,           \* the last IM continued an immediate
    ret,            \* the last address that a call left
    lost            \* the program is laid out as this emulator cannot run it

flowvars == <<pc, ran, long, ret, lost>>

Calls == {"CALL", "CALLPCREL"}
IsIM(i) == i.op = "IM"

Target(i, a) ==
    CASE i.op \in {"CALL", "POPPC"}       -> i.n
      [] i.op \in {"CALLPCREL", "BRANCH"} -> (a + i.n) % Space
      [] OTHER                            -> (a + 1) % Space

\* The instructions s, one after the other; only the last one may jump.
Runs(s) ==
    LET at == pc + Len(s) - 1
    IN /\ s \in Seq(Instruction) /\ Len(s) > 0
       /\ pc' = Target(Last(s), at)
       /\ long' = (IsIM(s[1]) /\ IsIM(Last(ran)))
       /\ ret' = IF Last(s).op \in Calls THEN (at + 1) % Space ELSE ret
       /\ UNCHANGED lost

FlowInit ==
    /\ pc = 0 /\ long = FALSE /\ ret = 0 /\ lost = FALSE
    /\ ran = <<[op |-> "POPPC", n |-> 0]>>

FlowNext == ~lost /\ (lost' \/ Runs(ran'))

FlowSpec == FlowInit /\ [][FlowNext]_flowvars
=============================================================================
