------------------------------ MODULE ZpuArith -------------------------------
(***************************************************************************)
(* The words of the ZPU and what zpu.c computes of them: words are its     *)
(* uint32_t, numbers below Modulus, the signed reading of one is that of   *)
(* int32_t.                                                                *)
(***************************************************************************)
EXTENDS Integers

CONSTANTS
    BITS,       \* bits of a byte
    WORD,       \* bytes of a long, and of a cell of the stack
    HALF        \* bytes of a half long

ASSUME ArithAssumption == {BITS, WORD, HALF} \subseteq Nat \ {0} /\ BITS > 1 /\ WORD = 2 * HALF

\* Powers, bits and the operators on them, by functions.
b ** n == LET p[k \in Nat] == IF k = 0 THEN 1 ELSE b * p[k - 1] IN p[n]

BYTE     == 2 ** BITS
Modulus  == BYTE ** WORD
HalfMod  == BYTE ** HALF
Words    == 0 .. Modulus - 1

Wrap(n)   == n % Modulus
Signed(w) == IF 2 * w >= Modulus THEN w - Modulus ELSE w
Truth(b)  == IF b THEN 1 ELSE 0

\* The operand of an IM, one bit shorter than a byte, read as a signed number.
IMBASE      == 2 ** (BITS - 1)
SignedIM(d) == Wrap(IF 2 * d >= IMBASE THEN d - IMBASE ELSE d)
\* The word that one more IM makes of it.
LongerIM(w, d) == Wrap(w * IMBASE + d)

\* Quotient and remainder are those of C, which cuts towards 0.
Abs(n) == IF n < 0 THEN -n ELSE n
Quotient(a, b) == LET q == Abs(a) \div Abs(b) IN IF (a < 0) = (b < 0) THEN q ELSE -q

Bits      == BITS * WORD
Bit(w, k) == (w \div (2 ** k)) % 2
\* The word with the bits d, those of weight 2 ** 0, 2 ** 1 and so on.
FromBits(d) ==
    LET f[k \in 0 .. Bits] == IF k = 0 THEN 0 ELSE 2 * f[k - 1] + d[Bits - k]
    IN f[Bits]

a & b   == FromBits([k \in 0 .. Bits - 1 |-> Bit(a, k) * Bit(b, k)])
a | b   == FromBits([k \in 0 .. Bits - 1 |-> Truth(Bit(a, k) + Bit(b, k) > 0)])
a ^^ b  == FromBits([k \in 0 .. Bits - 1 |-> (Bit(a, k) + Bit(b, k)) % 2])
flip(w) == FromBits([k \in 0 .. Bits - 1 |-> Bit(w, Bits - 1 - k)])

\* The amount of a shift: C does not say what one of a word's length or more does.
Amount(tos) == tos % (2 * Bits)

\* The instructions with one operand, and those with two: the top `tos', the next `nos'.
Unary(op, tos) ==
    CASE op = "NOT"  -> Modulus - 1 - tos
      [] op = "NEG"  -> Wrap(-tos)
      [] op = "FLIP" -> flip(tos)
      [] op = "SWAP" -> tos \div HalfMod + HalfMod * (tos % HalfMod)

Binary(op, tos, nos) ==
    CASE op = "ADD" -> Wrap(tos + nos)
      [] op = "SUB" -> Wrap(nos - tos)
      [] op = "AND" -> tos & nos
      [] op = "OR"  -> tos | nos
      [] op = "XOR" -> tos ^^ nos
      [] op = "LESSTHAN"          -> Truth(Signed(tos) < Signed(nos))
      [] op = "LESSTHANOREQUAL"   -> Truth(Signed(tos) <= Signed(nos))
      [] op = "ULESSTHAN"         -> Truth(tos < nos)
      [] op = "ULESSTHANOREQUAL"  -> Truth(tos <= nos)
      [] op = "EQ"  -> Truth(nos = tos)
      [] op = "NEQ" -> Truth(nos # tos)
      [] op = "MULT"      -> Wrap(Signed(tos) * Signed(nos))
      [] op = "MULT16X16" -> (nos % HalfMod) * (tos % HalfMod)
      [] op = "DIV" -> Wrap(Quotient(Signed(tos), Signed(nos)))
      [] op = "MOD" -> Wrap(Signed(tos) - Signed(nos) * Quotient(Signed(tos), Signed(nos)))
      [] op = "LSHIFTRIGHT" -> nos \div (2 ** Amount(tos))
      [] op = "ASHIFTLEFT"  -> Wrap(nos * (2 ** Amount(tos)))
      [] op = "ASHIFTRIGHT" -> Wrap(Signed(nos) \div (2 ** Amount(tos)))

UnaryOps  == {"NOT", "NEG", "FLIP", "SWAP"}
Divisions == {"DIV", "MOD"}
Shifts    == {"LSHIFTRIGHT", "ASHIFTLEFT", "ASHIFTRIGHT"}
BinaryOps == {"ADD", "SUB", "AND", "OR", "XOR", "LESSTHAN", "LESSTHANOREQUAL",
              "ULESSTHAN", "ULESSTHANOREQUAL", "EQ", "NEQ", "MULT", "MULT16X16"}

\* The instructions: those with an operand of their own first.
Numbered   == {"IM", "ADDSP", "LOADSP", "STORESP"}
Unnumbered ==
    {"PUSHSP", "POPSP", "PUSHSPADD", "LOAD", "LOADH", "LOADB", "STORE", "STOREH", "STOREB",
     "PUSHPC", "POPPC", "POPPCREL", "CALL", "CALLPCREL", "EQBRANCH", "NEQBRANCH",
     "CONFIG", "SYSCALL", "NOP", "BREAKPOINT"}
        \cup UnaryOps \cup BinaryOps \cup Shifts \cup Divisions
Operations == Numbered \cup Unnumbered

\* A division that the processor of the host refuses, or zpu.c itself.
Undivided(tos, nos) == nos = 0 \/ (2 * tos = Modulus /\ nos = Modulus - 1)

Shiftable(tos) == Amount(tos) < Bits
=============================================================================
