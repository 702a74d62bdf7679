------------------------------- MODULE ZpuWord -------------------------------
(***************************************************************************)
(* The arithmetic of src/2022/ZPU/zpu.ass on a processor of bytes: words   *)
(* are taken by halves (the register D) and by bytes, with the carry in    *)
(* between, and compared with what zpu.c computes (ZpuArith).  README.md   *)
(* of zpu_in_c_0_11 calls zpu.c the reference for zpu.ass.                 *)
(***************************************************************************)
EXTENDS ZpuArith, Sequences

CONSTANT Operands       \* the words that the instructions are tried on

ASSUME WordAssumption == WORD = 4 /\ Operands \subseteq Words

VARIABLES
    op, tos0, nos0,     \* an instruction and its operands
    result, done,
    want,               \* what zpu.c makes of them
    N, R, C, count      \* UDIV32: dividend, remainder, carry, bits to go
                        \* (count: the length of the immediate, for IM)

wordvars == <<op, tos0, nos0, result, done, want, N, R, C, count>>

High(w)    == w \div HalfMod
Low(w)     == w % HalfMod
Pair(h, l) == (h % HalfMod) * HalfMod + (l % HalfMod)
Borrow(a, b) == Truth(a < b)
Negative(w)  == Signed(w) < 0

\* The bytes of a word, the first one the highest.
Byte(w, k)   == (w \div (BYTE ** (WORD - (k + 1)))) % BYTE
FromBytes(f) == f[0] * (BYTE ** 3) + f[1] * (BYTE ** 2) + f[2] * BYTE + f[3]
\* ASRA and RORA of byte k: the bit that enters is the sign, or the last of the byte before.
Asr(b)    == b \div 2 + (IF 2 * b >= BYTE THEN BYTE \div 2 ELSE 0)
Ror(a, b) == (a % 2) * (BYTE \div 2) + b \div 2

-----------------------------------------------------------------------------
opADD(t, n) ==
    LET low  == Low(t) + Low(n)
        high == IF High(t) = 0 THEN High(n) ELSE High(t) + High(n)
    IN Pair(high + low \div HalfMod, low)

opSUB(t, n) == Pair(High(n) - High(t) - Borrow(Low(n), Low(t)), Low(n) - Low(t))

neg_x(w) == Pair((IF Low(w) = 0 THEN 0 ELSE -1) - High(w), -Low(w))

\* A half of 0 is not combined.
opAND(t, n) == Pair(IF High(t) = 0 THEN 0 ELSE High(t) & High(n), Low(t) & Low(n))
opOR(t, n)  == Pair(IF High(t) = 0 THEN High(n) ELSE High(t) | High(n), Low(t) | Low(n))
opXOR(t, n) == Pair(High(t) ^^ High(n), Low(t) ^^ Low(n))

opNOT(t)  == FromBytes([k \in 0 .. 3 |-> BYTE - 1 - Byte(t, k)])
opSWAP(t) == Pair(Low(t), High(t))
flip2(b) == flip(b) \div (BYTE ** 3)
opFLIP(t) == FromBytes([k \in 0 .. 3 |-> flip2(Byte(t, 3 - k))])

SignedHalf(h) == IF 2 * h >= HalfMod THEN h - HalfMod ELSE h

\* The upper halves decide, signed or not; the lower ones if they are equal.
Below(t, n, orEqual) == Low(t) < Low(n) \/ (orEqual /\ Low(t) = Low(n))
opLESS(t, n, orEqual) ==
    \/ SignedHalf(High(t)) < SignedHalf(High(n))
    \/ High(t) = High(n) /\ Below(t, n, orEqual)
opULESS(t, n, orEqual) ==
    \/ High(t) < High(n)
    \/ High(t) = High(n) /\ Below(t, n, orEqual)
opEQ(t, n) == Low(t) = Low(n) /\ High(t) = High(n)

\* The products of bytes that reach into the word, the lowest first.
Products == <<<<3, 3>>, <<2, 3>>, <<3, 2>>, <<1, 3>>, <<2, 2>>, <<3, 1>>,
              <<0, 3>>, <<1, 2>>, <<2, 1>>, <<3, 0>>>>
Products16 == <<<<3, 3>>, <<2, 3>>, <<3, 2>>, <<2, 2>>>>
Term(p, t, n) == Byte(t, p[1]) * Byte(n, p[2]) * (BYTE ** (6 - p[1] - p[2]))
Sum(products, t, n) ==
    LET s[i \in 0 .. Len(products)] ==
            IF i = 0 THEN 0 ELSE Wrap(s[i - 1] + Term(products[i], t, n))
    IN s[Len(products)]

\* Five bits of the amount, one after the other.
opLSHIFTRIGHT(t, n) ==
    IF High(n) = 0 THEN Pair(0, Low(n) \div (2 ** (t % Bits)))
    ELSE n \div (2 ** (t % Bits))
opASHIFTRIGHT(t, n) == Wrap(Signed(n) \div (2 ** (t % Bits)))

\* With a lower half of 0 the first bit of the amount is not shifted out before
\* the carry is tested (it is 0, from the decoding): all bits count double.
opASHIFTLEFT_half(t, n) == Pair(High(n) * (2 ** (2 * (t % (Bits \div 2)))), 0)
opASHIFTLEFT(t, n) ==
    IF Low(n) = 0 THEN opASHIFTLEFT_half(t, n) ELSE Wrap(n * (2 ** (t % Bits)))

\* The fused LOADSP 0, IM t, ADD on the top n.
LOADSP_IM_ADD(t, n) ==
    LET im   == t % IMBASE
        neg  == 2 * im >= IMBASE
        a    == (IF neg THEN im + IMBASE ELSE im) + Byte(n, 3)
        b0   == IF neg THEN (Byte(n, 2) - 1) % BYTE ELSE Byte(n, 2)
        b    == (b0 + a \div BYTE) % BYTE
        x    == High(n) - Truth(neg) + Truth(a >= BYTE /\ b = 0)
    IN Pair(x, b * BYTE + (a % BYTE))

\* The fused NOT, IM 1, AND.
NOT_IM_AND(t) == (1 & Byte(t, 3)) ^^ 1

\* An IM that follows count others: the first three know how long the word is.
opIM(w, v) ==
    LET b == [k \in 0 .. 3 |-> Byte(w, k)]
        end == (b[3] % 2) * (BYTE \div 2) + v
    IN CASE count = 0 -> SignedIM(v)
         [] count = 1 -> FromBytes([b EXCEPT ![2] = Asr(b[3]), ![3] = end])
         [] count = 2 -> FromBytes([b EXCEPT ![1] = Asr(b[2]), ![2] = Ror(b[2], b[3]), ![3] = end])
         [] OTHER -> FromBytes([k \in 0 .. 3 |-> IF k = 3 THEN end ELSE Ror(b[k], b[k + 1])])

-----------------------------------------------------------------------------
Fused == {"LOADSP_IM_ADD", "NOT_IM_AND"}
Straight == UnaryOps \cup BinaryOps \cup Shifts \cup Fused

Compute(t, n) ==
    CASE op = "NOT"  -> opNOT(t)
      [] op = "NEG"  -> neg_x(t)
      [] op = "FLIP" -> opFLIP(t)
      [] op = "SWAP" -> opSWAP(t)
      [] op = "ADD"  -> opADD(t, n)
      [] op = "SUB"  -> opSUB(t, n)
      [] op = "AND"  -> opAND(t, n)
      [] op = "OR"   -> opOR(t, n)
      [] op = "XOR"  -> opXOR(t, n)
      [] op = "LESSTHAN"         -> Truth(opLESS(t, n, FALSE))
      [] op = "LESSTHANOREQUAL"  -> Truth(opLESS(t, n, TRUE))
      [] op = "ULESSTHAN"        -> Truth(opULESS(t, n, FALSE))
      [] op = "ULESSTHANOREQUAL" -> Truth(opULESS(t, n, TRUE))
      [] op = "EQ"   -> Truth(opEQ(t, n))
      [] op = "NEQ"  -> Truth(~opEQ(t, n))
      [] op = "MULT"      -> Sum(Products, t, n)
      [] op = "MULT16X16" -> Sum(Products16, t, n)
      [] op = "LSHIFTRIGHT" -> opLSHIFTRIGHT(t, n)
      [] op = "ASHIFTLEFT"  -> opASHIFTLEFT(t, n)
      [] op = "ASHIFTRIGHT" -> opASHIFTRIGHT(t, n)
      [] op = "LOADSP_IM_ADD" -> LOADSP_IM_ADD(t, n)
      [] op = "NOT_IM_AND"    -> NOT_IM_AND(t)

OfC(o, t, n) ==
    CASE o = "IM" -> 0
      [] o = "LOADSP_IM_ADD" -> Binary("ADD", SignedIM(t % IMBASE), n)
      [] o = "NOT_IM_AND"    -> Binary("AND", 1, Unary("NOT", t))
      [] o \in UnaryOps      -> Unary(o, t)
      [] OTHER               -> Binary(o, t, n)

WordInit ==
    /\ op \in Straight \cup Divisions \cup {"IM"}
    /\ tos0 \in Operands
    /\ nos0 \in IF op \in UnaryOps \cup {"IM"} THEN {0} ELSE Operands
    /\ op \in Shifts => Shiftable(tos0)
    /\ op \in Divisions => ~Undivided(tos0, nos0)
    /\ want = OfC(op, tos0, nos0)
    /\ result = 0 /\ done = FALSE
    /\ N = (IF Negative(tos0) THEN neg_x(tos0) ELSE tos0)
    /\ R = 0
    /\ C \in (IF op \in Divisions THEN {0, 1} ELSE {0})     \* that of what came before
    /\ count = (IF op \in Divisions THEN Bits ELSE 0)

Executes ==
    /\ op \in Straight /\ ~done
    /\ result' = Compute(tos0, nos0)
    /\ done' = TRUE
    /\ UNCHANGED <<op, tos0, nos0, want, N, R, C, count>>

\* One more IM, up to a full word and one over.
Continues(v) ==
    /\ op = "IM" /\ count < WORD + 2
    /\ result' = opIM(result, v)
    /\ want' = IF count = 0 THEN SignedIM(v) ELSE LongerIM(want, v)
    /\ done' = TRUE
    /\ count' = count + 1
    /\ UNCHANGED <<op, tos0, nos0, N, R, C>>

Divisor == IF Negative(nos0) THEN neg_x(nos0) ELSE nos0

\* Mutant: the remainder is compared before the next bit is in it.
Bring_Late(n) == (2 * R) % Modulus

\* The next bit of the dividend, brought down.
Bring(n) == (2 * R + (2 * n) \div Modulus) % Modulus

\* ROL puts the last comparison into the dividend, inverted bits of the quotient.
UDIV32 ==
    /\ op \in Divisions /\ count > 0
    /\ N' = Wrap(2 * N + C)
    /\ LET r == Bring(N) IN
         /\ C' = Borrow(r, Divisor)
         /\ R' = IF r < Divisor THEN r ELSE opSUB(Divisor, r)
    /\ count' = count - 1
    /\ UNCHANGED <<op, tos0, nos0, result, done, want>>

\* The signs: that of the dividend for a remainder.
opDIV4 ==
    /\ op \in Divisions /\ count = 0 /\ ~done
    /\ LET quotient == opNOT(Wrap(2 * N + C))
           value == IF op = "DIV" THEN quotient ELSE R
           minus == IF op = "DIV" THEN Negative(tos0) # Negative(nos0) ELSE Negative(tos0)
       IN result' = IF minus THEN neg_x(value) ELSE value
    /\ done' = TRUE
    /\ UNCHANGED <<op, tos0, nos0, want, N, R, C, count>>

WordNext == Executes \/ (\E v \in 0 .. IMBASE - 1 : Continues(v)) \/ UDIV32 \/ opDIV4
WordSpec == WordInit /\ [][WordNext]_wordvars

-----------------------------------------------------------------------------
\* Both emulators compute the same words, whatever the signs and the carries, the
\* loop of the division included: zpu.c "to serve as reference for ZPU.ass".
AgreesWithReference == done => result = want

\* They do, but for shifts to the left of a word whose lower half is 0, and the
\* fused addition of a negative number to a word whose third byte is not 0.
Deviates ==
    \/ op = "ASHIFTLEFT" /\ Low(nos0) = 0
    \/ op = "LOADSP_IM_ADD" /\ 2 * (tos0 % IMBASE) >= IMBASE /\ Byte(nos0, 2) # 0

ComputesLikeC == AgreesWithReference \/ Deviates
=============================================================================
