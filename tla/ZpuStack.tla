------------------------------ MODULE ZpuStack -------------------------------
(***************************************************************************)
(* The ZPU, a processor without registers: what an emulator of it has to   *)
(* do for each instruction.  The whole stack is in memory, the stack       *)
(* pointer at its top element; a cell below the stack pointer, that of a   *)
(* value just popped included, holds anything.                             *)
(*                                                                         *)
(* The meaning of the instructions is that of zpu.c, with its names; the   *)
(* instructions come one after the other as some program has them.         *)
(***************************************************************************)
EXTENDS ZpuArith, Sequences

CONSTANTS
    MemSize,            \* bytes of memory, a power of two
    Vector,             \* where the code that emulates CONFIG begins
    ArgId, ArgLength,   \* the arguments of a system call, cells above the top
    SYS_WRITE,
    Instructions

VARIABLES
    pc, sp, mem,
    im,                 \* the last instruction was an IM
    instruction,        \* the last instruction
    running             \* FALSE once the emulator has exited

svars == <<pc, sp, mem, im, instruction, running>>

Cells == {WORD * k : k \in 0 .. (MemSize \div WORD) - 1}

\* Cell 0 is R0, where system calls put their result: the stack stays above it.
StackCells == Cells \ {0}

\* The cell that holds an address, and the n bytes at an address in the word there.
CellOf(a)            == (a % MemSize) - (a % WORD)
Scale(a, n)          == BYTE ** (WORD - (n + (a % WORD)))
PartOf(w, a, n)      == (w \div Scale(a, n)) % (BYTE ** n)
WithPart(w, a, n, v) == w + Scale(a, n) * ((v % (BYTE ** n)) - PartOf(w, a, n))

Aligned(a, n) == a % n = 0

-----------------------------------------------------------------------------
S(k) == mem[sp + WORD * k]

NoWrite == [c \in {} |-> 0]
Write(c, w) == [x \in {c} |-> w]

\* n elements are popped, those of `out' (at most one) pushed, cells written.
Becomes(n, out, writes, to) ==
    LET top == sp + WORD * (n - Len(out))
    IN /\ top \in StackCells
       /\ sp' = top
       /\ \A c \in Cells : c = 0 \/ c >= top =>
             mem'[c] = IF out # <<>> /\ c = top THEN out[1]
                       ELSE IF c \in DOMAIN writes THEN writes[c] ELSE mem[c]
       /\ pc' = to
       /\ UNCHANGED running

Next1 == Wrap(pc + 1)

\* What a program may find in a cell once the stack pointer is at p.
Found(c, p) == IF c = 0 \/ c >= p THEN {mem[c]} ELSE Words

Exit == running' = FALSE /\ UNCHANGED pc

IM(d) == IF im THEN Becomes(1, <<LongerIM(S(0), d)>>, NoWrite, Next1)
         ELSE Becomes(0, <<SignedIM(d)>>, NoWrite, Next1)

ADDSP(k)   == sp + WORD * k \in Cells /\ Becomes(1, <<Wrap(S(0) + S(k))>>, NoWrite, Next1)
LOADSP(k)  == sp + WORD * k \in Cells /\ Becomes(0, <<S(k)>>, NoWrite, Next1)
STORESP(k) == sp + WORD * k \in Cells /\ Becomes(1, <<>>, Write(sp + WORD * k, S(0)), Next1)

PUSHSP    == Becomes(0, <<sp>>, NoWrite, Next1)
PUSHSPADD == Becomes(1, <<Wrap(S(0) * WORD + sp)>>, NoWrite, Next1)
POPSP ==
    /\ S(0) \in StackCells
    /\ sp' = S(0)
    /\ \A c \in Cells : c = 0 \/ (c >= sp' /\ c > sp) => mem'[c] = mem[c]
    /\ pc' = Next1
    /\ UNCHANGED running

LOAD == \E w \in Found(CellOf(S(0)), sp + WORD) : Becomes(1, <<w>>, NoWrite, Next1)
LoadPart(n) ==
    IF Aligned(S(0), n)
      THEN \E w \in Found(CellOf(S(0)), sp + WORD) :
              Becomes(1, <<PartOf(w, S(0), n)>>, NoWrite, Next1)
      ELSE Exit

STORE == IF Aligned(S(0), WORD) THEN Becomes(2, <<>>, Write(CellOf(S(0)), S(1)), Next1) ELSE Exit
StorePart(n) ==
    LET c == CellOf(S(0))
    IN IF Aligned(S(0), n)
         THEN Becomes(2, <<>>, Write(c, WithPart(mem[c], S(0), n, S(1))), Next1)
         ELSE Exit

PUSHPC    == Becomes(0, <<pc>>, NoWrite, Next1)
POPPC     == Becomes(1, <<>>, NoWrite, S(0))
POPPCREL  == Becomes(1, <<>>, NoWrite, Wrap(pc + S(0)))
CALL      == Becomes(1, <<Next1>>, NoWrite, S(0))
CALLPCREL == Becomes(1, <<Next1>>, NoWrite, Wrap(pc + S(0)))
Branch(taken) == Becomes(2, <<>>, NoWrite, IF taken THEN Wrap(pc + S(0)) ELSE Next1)
CONFIG    == Becomes(0, <<Next1>>, NoWrite, Vector)

\* A system call leaves its arguments on the stack.
SYSCALL ==
    /\ {sp + WORD * ArgId, sp + WORD * ArgLength} \subseteq Cells
    /\ Becomes(0, <<>>, IF S(ArgId) = SYS_WRITE THEN Write(0, S(ArgLength)) ELSE NoWrite, Next1)

Divide(op) == IF Undivided(S(0), S(1)) THEN sp + WORD \in StackCells /\ Exit
              ELSE Becomes(2, <<Binary(op, S(0), S(1))>>, NoWrite, Next1)

-----------------------------------------------------------------------------
Meaning(op, n) ==
    CASE op = "IM"        -> IM(n)
      [] op = "ADDSP"     -> ADDSP(n)
      [] op = "LOADSP"    -> LOADSP(n)
      [] op = "STORESP"   -> STORESP(n)
      [] op = "PUSHSP"    -> PUSHSP
      [] op = "POPSP"     -> POPSP
      [] op = "PUSHSPADD" -> PUSHSPADD
      [] op = "LOAD"      -> LOAD
      [] op = "LOADH"     -> LoadPart(HALF)
      [] op = "LOADB"     -> LoadPart(1)
      [] op = "STORE"     -> sp + WORD \in Cells /\ STORE
      [] op = "STOREH"    -> sp + WORD \in Cells /\ StorePart(HALF)
      [] op = "STOREB"    -> sp + WORD \in Cells /\ StorePart(1)
      [] op = "PUSHPC"    -> PUSHPC
      [] op = "POPPC"     -> POPPC
      [] op = "POPPCREL"  -> POPPCREL
      [] op = "CALL"      -> CALL
      [] op = "CALLPCREL" -> CALLPCREL
      [] op = "EQBRANCH"  -> sp + WORD \in Cells /\ Branch(S(1) = 0)
      [] op = "NEQBRANCH" -> sp + WORD \in Cells /\ Branch(S(1) # 0)
      [] op = "CONFIG"    -> CONFIG
      [] op = "SYSCALL"   -> SYSCALL
      [] op = "NOP"       -> Becomes(0, <<>>, NoWrite, Next1)
      [] op = "BREAKPOINT" -> Exit
      [] op \in UnaryOps  -> Becomes(1, <<Unary(op, S(0))>>, NoWrite, Next1)
      [] op \in BinaryOps -> sp + WORD \in Cells /\ Becomes(2, <<Binary(op, S(0), S(1))>>, NoWrite, Next1)
      [] op \in Shifts    -> /\ sp + WORD \in Cells /\ Shiftable(S(0))
                             /\ Becomes(2, <<Binary(op, S(0), S(1))>>, NoWrite, Next1)
      [] op \in Divisions -> sp + WORD \in Cells /\ Divide(op)

StackInit ==
    /\ pc = 0 /\ im = FALSE /\ running = TRUE /\ instruction = <<"NOP", 0>>
    /\ sp \in StackCells
    /\ mem \in [Cells -> Words]

StackNext ==
    /\ running
    /\ \E i \in Instructions :
          /\ instruction' = i
          /\ im' = (i[1] = "IM")
          /\ Meaning(i[1], i[2])

StackSpec == StackInit /\ [][StackNext]_svars
=============================================================================
