--------------------------------- MODULE Zpu ---------------------------------
(***************************************************************************)
(* src/2022/ZPU/zpu_in_c_0_11/zpu.c, the ZPU emulator in C that serves as  *)
(* the reference of the one for the 6809.  It keeps the top of the stack   *)
(* in the variable `tos', "in order to minimize ZPU memory access": the    *)
(* cell at sp is written when something is pushed over it, and holds an    *)
(* older value until then.  Its source asks itself where that matters      *)
(* ("Need this?"); the refinement ImplementsStack answers.                 *)
(*                                                                         *)
(* The instructions are any that keep the stack in its cells: programs and *)
(* data are in the same memory, but no program writes over itself here.    *)
(* Breakpoints, illegal instructions and refused accesses exit.            *)
(***************************************************************************)
EXTENDS ZpuArith, Sequences

CONSTANTS
    MemSize, Vector, ArgId, ArgLength, SYS_WRITE, Instructions, \* those of ZpuStack
    Image           \* the longs of the programs that are loaded

VARIABLES
    pc, sp, tos,
    memory,             \* the longs at the addresses Cells
    decodeMask,
    instruction,
    running

zvars == <<pc, sp, tos, memory, decodeMask, instruction, running>>

Stack == INSTANCE ZpuStack WITH
             im <- decodeMask,
             mem <- [memory EXCEPT ![sp] = tos]

Cells      == Stack!Cells
StackCells == Stack!StackCells

ASSUME ZpuAssumption ==
    /\ MemSize \in Nat \ {0} /\ MemSize % WORD = 0 /\ Modulus % MemSize = 0
    /\ {Vector, SYS_WRITE} \cup Image \subseteq Words
    /\ {ArgId, ArgLength} \subseteq Nat
    /\ Instructions \subseteq Operations \X Nat

-----------------------------------------------------------------------------
(* zpu_memory.c *)
\* A long that is not aligned is read all the same, with a message.
memoryReadLong(a) == memory[Stack!CellOf(a)]
memoryReadPart(a, n) == Stack!PartOf(memory[Stack!CellOf(a)], a, n)

memoryWriteLong(a, v) == [memory EXCEPT ![Stack!CellOf(a)] = v]
memoryWritePart(a, n, v) == [memory EXCEPT ![Stack!CellOf(a)] = Stack!WithPart(@, a, n, v)]

InRange(a) == a \in Cells

-----------------------------------------------------------------------------
(* zpu_execute *)
ZpuInit ==
    /\ pc = 0 /\ decodeMask = FALSE /\ running = TRUE /\ instruction = <<"NOP", 0>>
    /\ sp \in StackCells
    /\ tos = 0
    /\ memory \in [Cells -> Image]

Advance == pc' = Wrap(pc + 1)

exit == running' = FALSE /\ UNCHANGED <<pc, sp, tos, memory>>

\* The value that the n-th pop of an instruction returns.
popped(n) == memoryReadLong(sp + WORD * n)

\* sp, tos and memory after n pops, with `top' for the top of the stack.
Pops(n, top, mem) ==
    /\ sp + WORD * n \in StackCells
    /\ sp' = sp + WORD * n
    /\ tos' = top
    /\ memory' = mem
    /\ UNCHANGED running

\* push(tos) and the new top.
Push(top) ==
    /\ sp - WORD \in StackCells
    /\ memory' = memoryWriteLong(sp, tos)
    /\ sp' = sp - WORD
    /\ tos' = top
    /\ UNCHANGED running

IM(d) ==
    /\ IF decodeMask THEN Pops(0, LongerIM(tos, d), memory)
       ELSE Push(SignedIM(d))
    /\ Advance

\* Mutant: the operand is always read from memory.
Addend_Memory(addr) == memoryReadLong(addr)

\* "Handle case were addr is sp. This DOES happen."
Addend(addr) == IF addr = sp THEN tos ELSE memoryReadLong(addr)

ADDSP(k) ==
    /\ InRange(sp + WORD * k)
    /\ Pops(0, Wrap(tos + Addend(sp + WORD * k)), memory)
    /\ Advance

\* The push comes first, so that LOADSP 0 finds the top in its cell.
LOADSP(k) ==
    /\ InRange(sp + WORD * k)
    /\ Push(memoryWriteLong(sp, tos)[sp + WORD * k])
    /\ Advance

STORESP(k) ==
    /\ InRange(sp + WORD * k) /\ InRange(sp + WORD)
    /\ LET stored == memoryWriteLong(sp + WORD * k, tos)
       IN Pops(1, stored[sp + WORD], stored)
    /\ Advance

PUSHSP    == Push(sp) /\ Advance
PUSHPC    == Push(pc) /\ Advance
PUSHSPADD == Pops(0, Wrap(tos * WORD + sp), memory) /\ Advance

POPSP ==
    /\ tos \in StackCells
    /\ sp' = tos
    /\ tos' = memoryReadLong(tos)
    /\ Advance
    /\ UNCHANGED <<memory, running>>

LOAD == Pops(0, memoryReadLong(tos), memory) /\ Advance

LoadPart(n) ==
    IF Stack!Aligned(tos, n) THEN Pops(0, memoryReadPart(tos, n), memory) /\ Advance
    ELSE exit

\* The top of the stack is read again after the store, which may have changed it.
StoreInto(mem) == Pops(2, mem[sp + 2 * WORD], mem) /\ Advance

STORE ==
    /\ InRange(sp + 2 * WORD)
    /\ IF Stack!Aligned(tos, WORD) THEN StoreInto(memoryWriteLong(tos, popped(1)))
       ELSE exit

StorePart(n) ==
    /\ InRange(sp + 2 * WORD)
    /\ IF Stack!Aligned(tos, n) THEN StoreInto(memoryWritePart(tos, n, popped(1)))
       ELSE exit

UnaryOp(op)  == Pops(0, Unary(op, tos), memory) /\ Advance
BinaryOp(op) == InRange(sp + WORD) /\ Pops(1, Binary(op, tos, popped(1)), memory) /\ Advance

Divide(op) ==
    /\ InRange(sp + WORD)
    /\ IF Undivided(tos, popped(1)) THEN exit ELSE BinaryOp(op)

POPPC     == InRange(sp + WORD) /\ Pops(1, popped(1), memory) /\ pc' = tos
POPPCREL  == InRange(sp + WORD) /\ Pops(1, popped(1), memory) /\ pc' = Wrap(pc + tos)
CALL      == Pops(0, Wrap(pc + 1), memory) /\ pc' = tos
CALLPCREL == Pops(0, Wrap(pc + 1), memory) /\ pc' = Wrap(pc + tos)

Branch(taken) ==
    /\ Pops(2, popped(2), memory)
    /\ IF taken THEN pc' = Wrap(pc + tos) ELSE Advance

EQBRANCH  == InRange(sp + 2 * WORD) /\ Branch(popped(1) = 0)
NEQBRANCH == InRange(sp + 2 * WORD) /\ Branch(popped(1) # 0)

\* CONFIG, as zpu.h has it: the code at its vector is called.
emulate == Push(Wrap(pc + 1)) /\ pc' = Vector

\* SYS_WRITE, or a call that does nothing.  SYS_READ returns like SYS_WRITE.
SYSCALL ==
    /\ InRange(sp + WORD * ArgId) /\ InRange(sp + WORD * ArgLength)
    /\ LET flushed == memoryWriteLong(sp, tos)
       IN Pops(0, tos, IF flushed[sp + WORD * ArgId] = SYS_WRITE
                         THEN [flushed EXCEPT ![0] = flushed[sp + WORD * ArgLength]]
                         ELSE flushed)
    /\ Advance

Execute(op, n) ==
    CASE op = "IM"        -> IM(n)
      [] op = "ADDSP"     -> ADDSP(n)
      [] op = "LOADSP"    -> LOADSP(n)
      [] op = "STORESP"   -> STORESP(n)
      [] op = "PUSHSP"    -> PUSHSP
      [] op = "POPSP"     -> POPSP
      [] op = "PUSHSPADD" -> PUSHSPADD
      [] op = "LOAD"      -> LOAD
      [] op = "LOADH"     -> LoadPart(HALF)
      [] op = "LOADB"     -> LoadPart(1)
      [] op = "STORE"     -> STORE
      [] op = "STOREH"    -> StorePart(HALF)
      [] op = "STOREB"    -> StorePart(1)
      [] op = "PUSHPC"    -> PUSHPC
      [] op = "POPPC"     -> POPPC
      [] op = "POPPCREL"  -> POPPCREL
      [] op = "CALL"      -> CALL
      [] op = "CALLPCREL" -> CALLPCREL
      [] op = "EQBRANCH"  -> EQBRANCH
      [] op = "NEQBRANCH" -> NEQBRANCH
      [] op = "CONFIG"    -> emulate
      [] op = "SYSCALL"   -> SYSCALL
      [] op = "NOP"       -> Pops(0, tos, memory) /\ Advance
      [] op = "BREAKPOINT" -> exit
      [] op \in UnaryOps  -> UnaryOp(op)
      [] op \in BinaryOps -> BinaryOp(op)
      [] op \in Shifts    -> Shiftable(tos) /\ BinaryOp(op)
      [] op \in Divisions -> Divide(op)

zpu_execute ==
    /\ running
    /\ \E i \in Instructions :
          /\ instruction' = i
          /\ decodeMask' = (i[1] = "IM")
          /\ Execute(i[1], i[2])

ZpuSpec == ZpuInit /\ [][zpu_execute]_zvars

-----------------------------------------------------------------------------
\* Whatever the instructions, the emulator with its cached top does what a stack
\* that is whole in memory does: no program can tell the value of the cell at sp
\* from the cached one, but by reading below its stack pointer.
ImplementsStack == Stack!StackSpec
=============================================================================
