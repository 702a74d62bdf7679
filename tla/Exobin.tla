------------------------------- MODULE Exobin -------------------------------
(***************************************************************************)
(* src/exobin/exobin.c makes a program of a demo that unpacks itself: it   *)
(* reads a binary file, has exomizer compress it (exomizer2/src), chooses  *)
(* an address for a decompressor with the compressed bytes behind it,      *)
(* patches the addresses in the decompressor's code and writes the lot.    *)
(* The machine loads it there and runs it.  The decompressor keeps three   *)
(* of its variables in the operands of its own instructions and reaches    *)
(* them through one page of memory; it reads the compressed bytes          *)
(* downwards, from behind the last of them, where its tables begin, and    *)
(* writes the file downwards from its end.                                 *)
(*                                                                         *)
(* Addresses, bytes, words and the decompressor's layout are the code's.   *)
(* Code is not kept in memory: writing over it, or anywhere that is        *)
(* neither the file's nor the decompressor's, makes the machine "wild";    *)
(* what is read there is 0.  A step of the machine is a few instructions   *)
(* and reads memory as it was before them.  What exomizer finds to copy,   *)
(* and the intervals in which it counts lengths and offsets, is any choice *)
(* that the format can express.  Files are whole and in the machine's RAM. *)
(***************************************************************************)
EXTENDS Integers, SequencesExt

CONSTANT Jobs   \* a machine, a file (hunks and exe), exomizer's intervals, a place

VARIABLES
    job,
    bin,        \* read_bin: the bytes from min to max - 1, and exe
    ctx,        \* output_ctx: the bytes written, the bits that wait in bitbuf
    at,         \* do_output: the next address of bin to write
    hexaddr,
    pc,         \* where convert is, then the decompressor
    m,          \* the machine: memory, registers x, y, u, whether it is wild
    regB        \* register B of the loop that makes the tables

exovars == <<job, bin, ctx, at, hexaddr, pc, m, regB>>

ADDR == 65536
HEXADDR_NONE == -1
HEXADDR_AUTO == -2

VIDEO == IF job.mo THEN 0 ELSE 16384
PAGE0 == IF job.mo THEN 8448 ELSE 24832
S_ROM == IF job.mo THEN 40960 ELSE 57344
VIDEO_END == VIDEO + 8000

-----------------------------------------------------------------------------
(* read_bin *)
HunkAt(h) == h.adr .. h.adr + Len(h.bytes) - 1
Covering(hunks, a) == {k \in DOMAIN hunks : a \in HunkAt(hunks[k])}
LoadedAt(hunks, a) == LET h == hunks[Max(Covering(hunks, a))] IN h.bytes[a - h.adr + 1]

\* The memory of the file begins as zeros: so are the gaps between its hunks.
read_bin(file) ==
    LET area == UNION {HunkAt(file.hunks[k]) : k \in DOMAIN file.hunks}
    IN [min |-> Min(area), max |-> Max(area) + 1, exe |-> file.exe,
        mem |-> [a \in Min(area) .. Max(area) |->
                    IF a \in area THEN LoadedAt(file.hunks, a) ELSE 0]]

-----------------------------------------------------------------------------
(* exomizer2: output.c, optimal.c and do_output of exo_helper.c *)
Number(bits) == MapThenSumSet(LAMBDA k : bits[k] * 2^(Len(bits) - k), DOMAIN bits)

\* Bytes go to the file at once, bits when there are eight.
output_bytes(c, bytes) == [c EXCEPT !.buf = @ \o bytes]

output_bits(c, bits) ==
    LET all  == c.bitbuf \o bits
        full == Len(all) \div 8
    IN [buf    |-> c.buf \o [k \in 1 .. full |-> Number(SubSeq(all, 8 * k - 7, 8 * k))],
        bitbuf |-> SubSeq(all, 8 * full + 1, Len(all))]

\* The lowest bit of a number first.
Bits(count, val) == [k \in 1 .. count |-> (val \div 2^(k - 1)) % 2]
Gamma(code)      == [k \in 1 .. code + 1 |-> IF k = 1 THEN 1 ELSE 0]

\* Intervals follow each other from 1, the k-th of 2^t[k] numbers.
First(t, k) == FoldLeft(LAMBDA n, b : n + 2^b, 1, SubSeq(t, 1, k - 1))
Interval(t, k) == First(t, k) .. First(t, k) + 2^t[k] - 1
IntervalOf(t, n) == {k \in DOMAIN t : n \in Interval(t, k)}

\* A short copy has its own intervals for the offset, fewer for a single byte.
OffsetTable(len) ==
    IF len = 1 THEN [t |-> job.enc.off1, prefix |-> 2]
    ELSE [t |-> IF len = 2 THEN job.enc.off2 ELSE job.enc.off3, prefix |-> 4]

Expressible(len, offset) ==
    IntervalOf(job.enc.len, len) # {} /\ IntervalOf(OffsetTable(len).t, offset) # {}

optimal_encode(len, offset) ==
    LET o  == OffsetTable(len)
        ko == Min(IntervalOf(o.t, offset))
        kl == Min(IntervalOf(job.enc.len, len))
    IN Bits(o.t[ko], offset - First(o.t, ko)) \o Bits(o.prefix, ko - 1)
         \o Bits(job.enc.len[kl], len - First(job.enc.len, kl)) \o Gamma(kl - 1)

\* Four bits for each interval, the last one first: it is read backwards.
interval_out(t, size) ==
    [n \in 1 .. 4 * size |->
        LET k == size - (n - 1) \div 4
        IN IF k \in DOMAIN t THEN (t[k] \div 2^((n - 1) % 4)) % 2 ELSE 0]

optimal_out ==
    interval_out(job.enc.off1, 4) \o interval_out(job.enc.off2, 16)
        \o interval_out(job.enc.off3, 16) \o interval_out(job.enc.len, 16)

Writing == pc = "crunch" /\ at < bin.max

OutputLiteral ==
    /\ Writing
    /\ ctx' = output_bits(output_bytes(ctx, <<bin.mem[at]>>), <<1>>)
    /\ at' = at + 1
    /\ UNCHANGED <<job, bin, hexaddr, pc, m, regB>>

OutputRun(len) ==
    /\ Writing /\ len > 1 /\ at + len <= bin.max
    /\ ctx' = output_bits(output_bytes(ctx, [n \in 1 .. len |-> bin.mem[at + n - 1]]),
                          Bits(16, len) \o Gamma(17) \o <<0>>)
    /\ at' = at + len
    /\ UNCHANGED <<job, bin, hexaddr, pc, m, regB>>

\* What is copied lies higher in the file.
OutputCopy(len, offset) ==
    /\ Writing /\ at + len + offset <= bin.max
    /\ \A a \in at .. at + len - 1 : bin.mem[a] = bin.mem[a + offset]
    /\ Expressible(len, offset)
    /\ ctx' = output_bits(ctx, optimal_encode(len, offset) \o <<0>>)
    /\ at' = at + len
    /\ UNCHANGED <<job, bin, hexaddr, pc, m, regB>>

\* The intervals come last, to be read first.
OutputHeader ==
    /\ pc = "crunch" /\ at = bin.max
    /\ ctx' = output_bits(ctx, optimal_out)
    /\ pc' = "flush"
    /\ UNCHANGED <<job, bin, at, hexaddr, m, regB>>

\* The bits that wait, below one that marks their end.
OutputFlush ==
    /\ pc = "flush"
    /\ ctx' = output_bytes(ctx, <<Number(<<1>> \o ctx.bitbuf)>>)
    /\ pc' = "convert"
    /\ UNCHANGED <<job, bin, at, hexaddr, m, regB>>

-----------------------------------------------------------------------------
(* convert *)
OFFSET == 6
BINARY == 180       \* sizeof(binary)
TABLES == 156

decomp_size == TABLES + BINARY + Len(ctx.buf)

\* Mutant: as it was before six bytes were put in front of the code (exobin.buggy.c).
SamePage_NoOffset(h) == (h + 68) \div 256 = (h + 137) \div 256

\* The decompressor's operands are in one page.
SamePage(h) == (h + 68 + OFFSET) \div 256 = (h + 137 + OFFSET) \div 256

InVideo(h) == VIDEO <= h /\ h + decomp_size <= VIDEO_END

\* Just below the file, or at the end of the video memory, and then down until
\* what the decompressor reaches by page is in one page.
Place ==
    IF job.at # HEXADDR_AUTO THEN job.at
    ELSE LET below == bin.min - decomp_size
             first == IF InVideo(below) \/ (PAGE0 + 512 <= below /\ below + decomp_size <= S_ROM)
                        THEN below ELSE VIDEO_END - decomp_size
             Good(h) == h < VIDEO \/ SamePage(h)
         IN CHOOSE h \in first - 256 .. first : Good(h) /\ \A k \in h + 1 .. first : ~Good(k)

\* What the program says OK to.
Valid(h) ==
    /\ SamePage(h)
    /\ h \notin bin.min .. bin.max - 1 /\ h + decomp_size - 1 \notin bin.min .. bin.max - 1
    /\ VIDEO <= h /\ h + decomp_size <= S_ROM
    /\ InVideo(h) \/ PAGE0 <= h

ChoosePlace ==
    /\ pc = "convert"
    /\ hexaddr' = IF job.at = HEXADDR_NONE THEN HEXADDR_NONE ELSE Place
    /\ pc' = IF job.at # HEXADDR_NONE /\ Valid(hexaddr') THEN "load" ELSE "plain"
    /\ UNCHANGED <<job, bin, ctx, at, m, regB>>

Word16(n) == n % ADDR
Own      == hexaddr .. hexaddr + decomp_size - 1
Code     == hexaddr .. hexaddr + BINARY - 1
bitbuf   == hexaddr + OFFSET + 137
idx      == hexaddr + OFFSET + 68
offs     == hexaddr + OFFSET + 120
Operands == {bitbuf, idx, offs, offs + 1}
biba     == hexaddr + BINARY + Len(ctx.buf)

\* LDS #$60CC; the deepest calls push eight bytes.
STACK     == 24780
StackArea == STACK - 8 .. STACK - 1
FileArea  == bin.min .. bin.max - 1

\* The machine loads what convert has written, and runs it.
Load ==
    /\ pc = "load"
    /\ m' = [mem |-> [a \in (FileArea \cup StackArea \cup Own) \ (Code \ Operands) |->
                        IF a \in hexaddr + BINARY .. biba - 1
                          THEN ctx.buf[a - hexaddr - BINARY + 1] ELSE 0],
             x |-> 0, y |-> biba, u |-> biba, wild |-> FALSE]
    /\ pc' = "main"
    /\ UNCHANGED <<job, bin, ctx, at, hexaddr, regB>>

-----------------------------------------------------------------------------
(* The decompressor: binary[] *)
Peek(a)     == IF Word16(a) \in DOMAIN m.mem THEN m.mem[Word16(a)] ELSE 0
PeekWord(a) == 256 * Peek(a) + Peek(a + 1)

Word(a, w) == Word16(a) :> (w \div 256) @@ Word16(a + 1) :> (w % 256)

\* What a step has written when it ends, a function from addresses to bytes.
Written(f) == [m EXCEPT !.mem = f @@ @, !.wild = ~(DOMAIN f \subseteq DOMAIN m.mem)]

\* An operand as DP reaches it: DP is the page of idx.
Direct(a) == 256 * (idx \div 256) + (a % 256)

\* A word on the stack, above which there are depth bytes.
Stack(depth) == STACK - depth - 2
Calls(depth, label) == Word(Stack(depth), Word16(hexaddr + OFFSET + label))

\* n bits.  The byte that is being shifted out has a mark above its bits; the first one
\* that is read has brought its own.
getbits(n) ==
    LET a0   == Peek(bitbuf)
        new  == n > 0 /\ a0 = 0
        y0   == IF new THEN m.y - 1 ELSE m.y
        a    == IF new THEN Peek(y0) ELSE a0
        have == Max({k \in 0 .. 7 : k = 0 \/ 2^k <= a})
        more == IF n > have THEN (n - have + 7) \div 8 ELSE 0
        Bit(k) == IF k <= have THEN (a \div 2^(k - 1)) % 2
                  ELSE LET b == k - have - 1
                       IN (Peek(y0 - 1 - b \div 8) \div 2^(b % 8)) % 2
    IN [val  |-> Word16(Number([k \in 1 .. n |-> Bit(k)])),
        y    |-> y0 - more,
        rest |-> IF more = 0 THEN a \div 2^n
                 ELSE (256 + Peek(y0 - more)) \div 2^(n - have - 8 * (more - 1))]

\* What getbits writes: what it returns, in the stack, and the bits that are left.
Got(r, depth) == Word(Stack(depth), r.val) @@ Direct(bitbuf) :> r.rest

Running(label) == pc = label /\ ~m.wild
Goes(label, s) == pc' = label /\ m' = s /\ UNCHANGED <<job, bin, ctx, at, hexaddr>>

Main ==
    /\ Running("main")
    /\ regB' = 0
    /\ Goes("nxt", Written(Direct(bitbuf) :> 0))

\* An entry of the tables: the bits of an interval and its first number, that of the
\* next one in X.
Nxt ==
    /\ Running("nxt")
    /\ LET r == getbits(4)
           x == IF regB % 16 = 0 THEN 1 ELSE m.x
           s == Written(m.u :> r.val @@ Word(m.u + 1, x)
                          @@ Word(Stack(0), 256 * ((2^r.val) % 256) + regB)
                          @@ Calls(2, 26) @@ Got(r, 4))
           last == regB = 51
       IN Goes(IF last THEN "mloop" ELSE "nxt",
               [s EXCEPT !.x = Word16(x + 2^r.val), !.y = r.y,
                         !.u = IF last THEN bin.max ELSE @ + 3])
    /\ regB' = regB + 1

\* A byte as it is, or the bits that tell how many bytes to copy.
Mloop ==
    /\ Running("mloop")
    /\ LET r == getbits(1)
           f == Calls(0, 55) @@ Got(r, 2)
       IN IF r.val = 1 THEN Goes("cpyl", [Written(f) EXCEPT !.y = r.y, !.x = 1])
          ELSE Goes("rbl", [Written(f @@ Direct(idx) :> 0) EXCEPT !.y = r.y])
    /\ UNCHANGED regB

\* One bit of a length; idx counts those before the first that is set.
Rbl ==
    /\ Running("rbl")
    /\ LET r == getbits(1)
           f == Calls(0, 65) @@ Got(r, 2)
       IN IF r.val = 1 THEN Goes("idx", [Written(f) EXCEPT !.y = r.y])
          ELSE Goes("rbl", [Written(f @@ Direct(idx) :> (Peek(Direct(idx)) + 1) % 256)
                               EXCEPT !.y = r.y])
    /\ UNCHANGED regB

\* The displacement of lbeq EXE goes round the memory: it reaches every address.
Exe == Running("idx") /\ Peek(idx) = 16 /\ Goes("exe", m) /\ UNCHANGED regB

Run ==
    /\ Running("idx") /\ Peek(idx) > 16
    /\ LET r == getbits(Peek(idx) - 1)
       IN Goes("cpyl", [Written(Calls(0, 80) @@ Got(r, 2)) EXCEPT !.y = r.y, !.x = r.val])
    /\ UNCHANGED regB

\* Entry n of the tables: cook adds its bits to its first number.
TableEntry(n) == biba + n + ((2 * n) % 256)
cook(n) == getbits(Peek(TableEntry(n)))
Cooked(n) == Word16(cook(n).val + PeekWord(TableEntry(n) + 1))

\* The length of a copy, kept on the stack.
Coffs ==
    /\ Running("idx") /\ Peek(idx) < 16
    /\ LET n == Peek(idx)
           r == cook(n)
       IN Goes("scof", [Written(Word(Stack(0), Cooked(n)) @@ Calls(2, 165) @@ Got(r, 4))
                           EXCEPT !.y = r.y, !.x = Cooked(n)])
    /\ UNCHANGED regB

\* tab1: where the intervals of the distance are, by the length in X.
tab1 == [bits |-> <<4, 2, 4>>, base |-> <<16, 48, 32>>]
tab1Of(len) == IF len >= 3 THEN 1 ELSE (len % 256) + 1

Scof ==
    /\ Running("scof")
    /\ LET k == tab1Of(m.x)
           r == getbits(tab1.bits[k])
       IN Goes("cook", [Written(Calls(2, 108) @@ Got(r, 4))
                           EXCEPT !.y = r.y, !.x = (r.val + tab1.base[k]) % 256])
    /\ UNCHANGED regB

\* The distance, into the operand of cpy2; the length back from the stack.
Cook ==
    /\ Running("cook")
    /\ LET r == cook(m.x)
       IN Goes("cpy2", [Written(Word(Direct(offs), Cooked(m.x)) @@ Calls(2, 112)
                                  @@ Calls(4, 165) @@ Got(r, 6))
                           EXCEPT !.y = r.y, !.x = PeekWord(Stack(0))])
    /\ UNCHANGED regB

Cpyl ==
    /\ Running("cpyl")
    /\ Goes(IF m.x = 1 THEN "mloop" ELSE "cpyl",
            [Written(Word16(m.u - 1) :> Peek(m.y - 1))
                EXCEPT !.x = Word16(@ - 1), !.y = @ - 1, !.u = @ - 1])
    /\ UNCHANGED regB

Cpy2 ==
    /\ Running("cpy2")
    /\ Goes(IF m.x = 1 THEN "mloop" ELSE "cpy2",
            [Written(Word16(m.u - 1) :> Peek(m.u - 1 + PeekWord(offs)))
                EXCEPT !.x = Word16(@ - 1), !.u = @ - 1])
    /\ UNCHANGED regB

Machine == Main \/ Nxt \/ Mloop \/ Rbl \/ Exe \/ Run \/ Coffs \/ Scof \/ Cook \/ Cpyl \/ Cpy2

ExobinInit ==
    /\ job \in Jobs
    /\ bin = read_bin(job.file)
    /\ ctx = output_bits([buf |-> <<>>, bitbuf |-> <<>>], Gamma(16) \o <<0>>)
    /\ at = bin.min
    /\ hexaddr = HEXADDR_NONE /\ pc = "crunch" /\ regB = 0
    /\ m = [mem |-> <<>>, x |-> 0, y |-> 0, u |-> 0, wild |-> FALSE]

ExobinNext ==
    \/ OutputLiteral
    \/ \E len \in 1 .. bin.max - at : OutputRun(len)
    \/ \E len, offset \in 1 .. bin.max - at : OutputCopy(len, offset)
    \/ OutputHeader \/ OutputFlush \/ ChoosePlace \/ Load
    \/ Machine

ExobinSpec == ExobinInit /\ [][ExobinNext]_exovars

-----------------------------------------------------------------------------
\* What Valid does not look at: a file that lies inside the decompressor, and the
\* stack, which is in the RAM of a MO.
Clear == FileArea \cap Own = {} /\ StackArea \cap (FileArea \cup Own) = {}

\* A program that exobin writes loads the file where it belongs, every byte of it, and
\* runs it, whatever exomizer found to copy and wherever the decompressor lies: its
\* self-modifying code and its tables, which read one stream of bits and bytes in turns,
\* do not meet.  Nothing else is written over.  And if the place is left to exobin
\* (exobin.c:284), it does find one.
ExtractsTheFile ==
    /\ (hexaddr # HEXADDR_NONE /\ Clear) =>
          /\ ~m.wild
          /\ pc = "exe" =>
                \A k \in DOMAIN job.file.hunks : \A a \in HunkAt(job.file.hunks[k]) :
                    m.mem[a] = LoadedAt(job.file.hunks, a)
    /\ job.at = HEXADDR_AUTO => pc # "plain"
=============================================================================
