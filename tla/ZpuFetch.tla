------------------------------ MODULE ZpuFetch ------------------------------
(***************************************************************************)
(* src/2022/ZPU/zpu.ass, the emulator of the ZPU for the 6809: how it finds *)
(* the next instruction.  The memory of the ZPU is in banks of P bytes of   *)
(* which one is mapped at $A000-$DFFF.  Y points into that window, and      *)
(* PC_PG is the bank that the program is in.  To run past the end of a bank *)
(* the emulator reads the byte of the ROM behind the window (GOZPU puts a   *)
(* handler of its own, outOfPageChk, for the instruction of that value).    *)
(* On the older machines a data access changes the bank in the window; the  *)
(* newer ones have another window for data.                                 *)
(*                                                                          *)
(* The bytes of the program are chosen as they are fetched, so that any     *)
(* program is among the behaviours.  Instructions whose effect is on data   *)
(* only are "OTHER", LOAD any that reads or writes memory, BRANCH any       *)
(* that is taken.  A `next' instruction with the operand of a fused         *)
(* sequence may also run unfused here.                                      *)
(***************************************************************************)
EXTENDS Integers, SequencesExt

CONSTANTS
    P,              \* bytes of a bank ($4000)
    Short,          \* offsets of a short branch (256)
    PerBlock,       \* banks of 64K
    Blocks,         \* blocks of 64K
    Sentinels       \* the instructions that the byte at $E000 may be

VARIABLES
    Y,              \* where the next byte is fetched, from the start of the window
    PC_PG,
    page,           \* the bank in the window
    chain,          \* in opIM: an IM that follows continues the immediate
    shared,         \* the window serves for data as well
    sentinel,
    ran, long, ret, lost

fvars == <<Y, PC_PG, page, chain, shared, sentinel, ran, long, ret, lost>>

Banks == PerBlock * Blocks
Block == P * PerBlock
Space == Block * Blocks

Jumps == {"BRANCH", "POPPC", "CALL", "CALLPCREL"}
Ops   == {"IM", "LOAD", "LOADSP_0", "ADD", "NOT", "AND", "PUSHSPADD", "POPSP", "OTHER"}

Plain(op)   == [op |-> op, n |-> 0]
Instruction == [op : Jumps, n : 0 .. Space - 1] \cup {Plain(op) : op \in Ops}

Flow == INSTANCE ZpuFlow WITH pc <- (page * P + Y) % Space

ASSUME FetchAssumption ==
    /\ {P, Short, PerBlock, Blocks} \subseteq Nat \ {0} /\ P > 2 /\ Short < P
    /\ Sentinels \subseteq (Jumps \cup Ops) \ {"IM"}

-----------------------------------------------------------------------------
\* GOZPU: opPOPPC with the address 0 on the stack.
FetchInit ==
    /\ Y = 0 /\ PC_PG = 0 /\ page = 0
    /\ shared \in BOOLEAN /\ sentinel \in Sentinels
    /\ chain = FALSE /\ long = FALSE /\ ret = 0 /\ lost = FALSE
    /\ ran = <<[op |-> "POPPC", n |-> 0]>>

\* The instructions s ran, and left these for the next fetch.
Goes(s, y, bank, window) ==
    /\ Y' = y /\ PC_PG' = bank /\ page' = window
    /\ ran' = s
    /\ chain' = (Last(s).op = "IM")
    /\ long' = (chain /\ s[1].op = "IM")
    /\ UNCHANGED <<shared, sentinel, lost>>

GoesOn(s, window) == Goes(s, Y + Len(s), PC_PG, window) /\ UNCHANGED ret

\* updatePC_D
GoesTo(i, a) == Goes(<<i>>, a % P, a \div P, a \div P)

hi == PC_PG \div PerBlock
lo == (PC_PG % PerBlock) * P

\* The lower 16 bits are added first, the carry kept for the bank's upper byte.
Relative(n) ==
    LET low == lo + Y + (n % Block)
    IN ((hi + (n \div Block) + (low \div Block)) % Blocks) * Block + (low % Block)

\* A short branch that stays in the window moves Y alone.
Near(n) == \/ n < Short /\ Y + n < P
           \/ n >= Space - Short /\ Y + n >= Space

DO_BRANCH(i) ==
    /\ IF Near(i.n) THEN Goes(<<i>>, (Y + i.n) % Space, PC_PG, page)
       ELSE GoesTo(i, Relative(i.n))
    /\ UNCHANGED ret

opPOPPC(i) ==
    /\ IF i.n \div P = PC_PG THEN Goes(<<i>>, i.n % P, PC_PG, page) ELSE GoesTo(i, i.n)
    /\ UNCHANGED ret

\* The return address: its upper byte is that of the bank called from, which in
\* the same bank is on the stack already; the lower ones are added without carry.
CallTo(i, a) ==
    LET low == (lo + Y + 1) % Block
    IN IF a \div P = PC_PG
         THEN ret' = (a \div Block) * Block + low /\ Goes(<<i>>, a % P, PC_PG, page)
         ELSE ret' = hi * Block + low /\ GoesTo(i, a)

opCALL(i)      == CallTo(i, i.n)
opCALLPCREL(i) == CallTo(i, Relative(i.n))

\* Mutant: the older machines go on with the bank of the data.
AfterAccess_Stays(bank) == IF shared THEN bank ELSE page

\* getAddr maps the bank of the data, updatePC that of the program again.
AfterAccess(bank) == IF shared THEN PC_PG ELSE page

opLOAD(i) == \E bank \in 0 .. Banks - 1 : GoesOn(<<i>>, AfterAccess(bank))

Decode(i) ==
    \/ i.op = "BRANCH"    /\ DO_BRANCH(i)
    \/ i.op = "POPPC"     /\ opPOPPC(i)
    \/ i.op = "CALL"      /\ opCALL(i)
    \/ i.op = "CALLPCREL" /\ opCALLPCREL(i)
    \/ i.op = "LOAD"      /\ opLOAD(i)
    \/ i.op \in Ops \ {"LOAD"} /\ GoesOn(<<i>>, page)

\* Instructions that run as one, found by a look at the bytes that follow.
Fusions == {<<Plain("LOADSP_0"), Plain("IM"), Plain("ADD")>>,
            <<Plain("NOT"), Plain("IM"), Plain("AND")>>,
            <<Plain("PUSHSPADD"), Plain("POPSP")>>}

-----------------------------------------------------------------------------
(* What a program must not have at the end of a bank. *)

\* The instruction of the sentinel's value, which outOfPageChk skips there.
Skipped(i) == Y = P - 1 /\ i.op = sentinel

\* An immediate that goes on in the next bank: nextPage ends the chain.
Broken(i) == i.op = "IM" /\ ~chain /\ Last(ran).op = "IM"

\* A call in the last byte of 64K: the return address loses its carry.
NoReturn(i) == i.op \in {"CALL", "CALLPCREL"} /\ lo + Y + 1 = Block

\* The beginning of a fused sequence, completed by the byte of the ROM.
FusesSentinel(s) == Y + Len(s) = P + 1 /\ Last(s).op = sentinel

Lost == lost' = TRUE /\ UNCHANGED <<Y, PC_PG, page, chain, shared, sentinel, ran, long, ret>>

fetch ==
    /\ Y < P
    /\ \/ \E i \in Instruction :
             IF Skipped(i) \/ Broken(i) \/ NoReturn(i) THEN Lost ELSE Decode(i)
       \/ \E s \in Fusions :
             IF FusesSentinel(s) THEN Lost
             ELSE Y + Len(s) <= P /\ GoesOn(s, page)

\* outOfPageChk: the byte behind the window.
nextPage ==
    /\ Y = P
    /\ Y' = 0
    /\ PC_PG' = (PC_PG + 1) % Banks
    /\ page' = PC_PG'
    /\ chain' = FALSE
    /\ UNCHANGED <<shared, sentinel, ran, long, ret, lost>>

FetchNext == ~lost /\ (fetch \/ nextPage)
FetchSpec == FetchInit /\ [][FetchNext]_fvars

-----------------------------------------------------------------------------
\* The emulator reads each instruction at its address, whatever the program
\* does: the ends of banks and of 64K, the branches that stay in the window and
\* those that leave it, the accesses that take the window away, the fused
\* sequences.  Immediates continue and calls return where they should.  Only the
\* programs with one of four things at the end of a bank are run wrongly.
FollowsProgram == Flow!FlowSpec
=============================================================================
