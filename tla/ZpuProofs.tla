----------------------------- MODULE ZpuProofs ------------------------------
(***************************************************************************)
(* Of the emulator for the 6809 (src/2022/ZPU/zpu.ass), for every size and *)
(* number of banks: it reads each instruction where the program has it;    *)
(* for every size of a digit and every increment: a latched time is one    *)
(* that the counter showed; and for every size of a byte: its words, made  *)
(* of halves and bytes, are those of the emulator in C.  Of the latter     *)
(* (zpu.c), for words and memories of every size: with the top of the      *)
(* stack in a variable it does what a stack in memory does.                *)
(***************************************************************************)
EXTENDS Zpu, ZpuFetch, ZpuWord, ZpuTimer, SequenceTheorems, WellFoundedInduction, TLAPS

(***************************************************************************)
(* Part 1.  Quotients and remainders.                                      *)
(***************************************************************************)
LEMMA Division ==
    ASSUME NEW a \in Int, NEW m \in Nat \ {0}
    PROVE  /\ a \div m \in Int /\ a % m \in 0 .. m - 1
           /\ a = m * (a \div m) + (a % m)
  OBVIOUS

LEMMA QuotientIs ==
    ASSUME NEW m \in Nat \ {0}, NEW q \in Int, NEW r \in 0 .. m - 1
    PROVE  (m * q + r) \div m = q /\ (m * q + r) % m = r
  BY Z3

\* A multiple of the modulus changes nothing.
LEMMA Multiple ==
    ASSUME NEW a \in Int, NEW m \in Nat \ {0}, NEW q \in Int
    PROVE  (a + m * q) % m = a % m
  <1> DEFINE d == a \div m
             r == a % m
  <1>1. d \in Int /\ r \in 0 .. m - 1 /\ a = m * d + r
    BY Division
  <1> HIDE DEF d, r
  <1>2. a + m * q = m * (d + q) + r /\ d + q \in Int
    BY <1>1
  <1>3. (m * (d + q) + r) % m = r
    BY <1>1, <1>2, QuotientIs
  <1> QED
    BY <1>2, <1>3 DEF r

LEMMA Small ==
    ASSUME NEW m \in Nat \ {0}, NEW a \in 0 .. m - 1
    PROVE  a % m = a /\ a \div m = 0
  BY Z3

LEMMA DivDiv ==
    ASSUME NEW a \in Int, NEW m \in Nat \ {0}, NEW n \in Nat \ {0}
    PROVE  (a \div m) \div n = a \div (m * n)
  OBVIOUS

\* A digit of weight b, below k, above a number below b.
LEMMA TwoDigits ==
    ASSUME NEW b \in Nat \ {0}, NEW k \in Nat \ {0},
           NEW r \in 0 .. k - 1, NEW l \in 0 .. b - 1
    PROVE  r * b + l \in 0 .. b * k - 1 /\ b * k \in Nat \ {0}
  <1>1. r * b =< (k - 1) * b /\ r * b \in Nat
    BY Z3
  <1>2. (k - 1) * b = b * k - b /\ b * k \in Nat
    BY Z3
  <1>3. b * k > 0
    BY Z3
  <1> DEFINE rb == r * b
             kb == (k - 1) * b
             bk == b * k
  <1> HIDE DEF rb, kb, bk
  <1>4. rb =< kb /\ rb \in Nat /\ kb = bk - b /\ bk \in Nat /\ bk > 0
    BY <1>1, <1>2, <1>3 DEF rb, kb, bk
  <1>5. rb + l \in 0 .. bk - 1 /\ bk \in Nat \ {0}
    BY <1>4
  <1> QED
    BY <1>5 DEF rb, bk

\* The lower digit is added first, its carry goes to the upper one ...
InTwoParts(b, k, h, l, n) ==
    LET low == l + (n % b)
    IN ((h + (n \div b) + (low \div b)) % k) * b + (low % b)

\* ... which is the addition modulo b * k.
LEMMA SumByDigits ==
    ASSUME NEW b \in Nat \ {0}, NEW k \in Nat \ {0},
           NEW h \in Int, NEW l \in Int, NEW n \in Int
    PROVE  /\ InTwoParts(b, k, h, l, n) \in 0 .. b * k - 1
           /\ InTwoParts(b, k, h, l, n) = (h * b + l + n) % (b * k)
  <1> DEFINE nd == n \div b
             nm == n % b
             low == l + nm
             ld == low \div b
             lm == low % b
             s == h + nd + ld
             d == s \div k
             r == s % k
  <1>1. nd \in Int /\ nm \in 0 .. b - 1 /\ n = b * nd + nm
    BY Division
  <1> HIDE DEF nd, nm
  <1>2. low \in Int
    BY <1>1
  <1>3. ld \in Int /\ lm \in 0 .. b - 1 /\ low = b * ld + lm
    BY <1>2, Division
  <1>4. h * b + l + n = h * b + b * nd + low
    BY <1>1
  <1> HIDE DEF low, ld, lm
  <1>5. s \in Int
    BY <1>1, <1>3
  <1>6. d \in Int /\ r \in 0 .. k - 1 /\ s = k * d + r
    BY <1>5, Division
  <1>7. h * b + l + n = b * s + lm
    BY <1>1, <1>3, <1>4
  <1> HIDE DEF s, d, r
  <1>8. h * b + l + n = b * (k * d + r) + lm
    BY <1>6, <1>7
  <1>9. b * (k * d + r) = (b * k) * d + r * b
    BY <1>6, Z3
  <1> DEFINE bk == b * k
             x == r * b + lm
  <1>10. x \in 0 .. bk - 1 /\ bk \in Nat \ {0}
    BY <1>3, <1>6, TwoDigits
  <1>11. h * b + l + n = bk * d + x
    BY <1>3, <1>6, <1>8, <1>9
  <1> HIDE DEF bk, x
  <1>12. (bk * d + x) % bk = x
    BY <1>6, <1>10, QuotientIs
  <1>13. x = (h * b + l + n) % bk
    BY <1>11, <1>12
  <1> QED
    BY <1>10, <1>13 DEF bk, x, r, s, nd, ld, low, lm, nm, InTwoParts

(***************************************************************************)
(* Part 2.  The fetch.                                                     *)
(***************************************************************************)
\* The window is where the program is, or will be with the next fetch; an
\* immediate goes on only after an immediate.
FetchInv ==
    /\ Y \in 0 .. P /\ PC_PG \in 0 .. Banks - 1 /\ page = PC_PG
    /\ ran \in Seq(Instruction) /\ ran # <<>>
    /\ chain \in BOOLEAN /\ (chain => Last(ran).op = "IM")

\* Where the next instruction is.
place == (page * P + Y) % Space

LEMMA Sizes ==
    /\ P \in Nat \ {0} /\ P > 2 /\ Short \in Nat \ {0} /\ Short < P
    /\ PerBlock \in Nat \ {0} /\ Blocks \in Nat \ {0}
    /\ Banks \in Nat \ {0} /\ Block \in Nat \ {0} /\ Space \in Nat \ {0}
    /\ Block = P * PerBlock /\ Space = P * Banks /\ Space = Block * Blocks
    /\ P =< Block /\ Block =< Space /\ P =< Space
  <1>1. /\ P \in Nat \ {0} /\ P > 2 /\ Short \in Nat \ {0} /\ Short < P
        /\ PerBlock \in Nat \ {0} /\ Blocks \in Nat \ {0}
    BY FetchAssumption
  <1>2. Banks \in Nat \ {0} /\ Block \in Nat \ {0}
    BY <1>1, TwoDigits DEF Banks, Block
  <1>3. Space \in Nat \ {0}
    BY <1>1, <1>2, TwoDigits DEF Space
  <1>4. Space = P * Banks
    BY <1>1, Z3 DEF Banks, Space, Block
  <1>5. \A x, y \in Nat \ {0} : x =< x * y
    BY Z3
  <1>6. P =< Block /\ Block =< Space /\ P =< Space
    BY <1>1, <1>2, <1>4, <1>5 DEF Block, Space
  <1> QED
    BY <1>1, <1>2, <1>3, <1>4, <1>6 DEF Block, Space

\* An address, in its bank.
LEMMA AddressInBank ==
    ASSUME NEW a \in 0 .. Space - 1
    PROVE  /\ a \div P \in 0 .. Banks - 1 /\ a % P \in 0 .. P - 1
           /\ ((a \div P) * P + (a % P)) % Space = a
  <1> DEFINE q == a \div P
             r == a % P
  <1>1. a \in Int /\ q \in Int /\ r \in 0 .. P - 1 /\ a = P * q + r
    BY Sizes, Division
  <1> HIDE DEF q, r
  <1>2. q >= 0
    <2>1. ~(q =< -1)
      <3> SUFFICES ASSUME q =< -1 PROVE FALSE
        OBVIOUS
      <3>1. P * q =< -P
        BY <1>1, Sizes, Z3
      <3> QED
        BY <1>1, <3>1, Sizes
    <2> QED
      BY <2>1, <1>1
  <1>3. q < Banks
    <2> SUFFICES ASSUME q >= Banks PROVE FALSE
      BY <1>1, Sizes
    <2>1. P * q >= P * Banks
      BY <1>1, Sizes, Z3
    <2> QED
      BY <1>1, <2>1, Sizes
  <1>4. q * P + r = a
    BY <1>1, Sizes
  <1>5. a % Space = a
    BY Small, Sizes
  <1> QED
    BY <1>1, <1>2, <1>3, <1>4, <1>5, Sizes DEF q, r

\* A bank, in its block of 64K.
LEMMA BankInBlock ==
    ASSUME NEW bank \in 0 .. Banks - 1
    PROVE  /\ bank \div PerBlock \in 0 .. Blocks - 1
           /\ (bank % PerBlock) * P \in 0 .. Block - P
           /\ bank * P = (bank \div PerBlock) * Block + (bank % PerBlock) * P
  <1> DEFINE h == bank \div PerBlock
             r == bank % PerBlock
  <1>1. bank \in Int /\ h \in Int /\ r \in 0 .. PerBlock - 1 /\ bank = PerBlock * h + r
    BY Sizes, Division
  <1> HIDE DEF h, r
  <1>2. h >= 0
    <2> SUFFICES ASSUME h =< -1 PROVE FALSE
      BY <1>1
    <2>1. PerBlock * h =< -PerBlock
      BY <1>1, Sizes, Z3
    <2> QED
      BY <1>1, <2>1, Sizes
  <1>3. h < Blocks
    <2> SUFFICES ASSUME h >= Blocks PROVE FALSE
      BY <1>1, Sizes
    <2>1. PerBlock * h >= PerBlock * Blocks
      BY <1>1, Sizes, Z3
    <2>2. Banks = PerBlock * Blocks
      BY DEF Banks
    <2> QED
      BY <1>1, <2>1, <2>2, Sizes
  <1>4. r * P \in 0 .. Block - P
    <2>1. r * P =< (PerBlock - 1) * P /\ r * P >= 0 /\ r * P \in Int
      BY <1>1, Sizes, Z3
    <2>2. (PerBlock - 1) * P = P * PerBlock - P
      BY Sizes, Z3
    <2> QED
      BY <2>1, <2>2, Sizes
  <1>5. bank * P = h * Block + r * P
    <2>1. (PerBlock * h + r) * P = h * (P * PerBlock) + r * P
      BY <1>1, Sizes, Z3
    <2> QED
      BY <2>1, <1>1, Sizes
  <1>6. h \in 0 .. Blocks - 1
    BY <1>1, <1>2, <1>3, Sizes
  <1> QED
    BY <1>4, <1>5, <1>6, Zenon DEF h, r

\* The addition in two parts is the addition.
LEMMA RelativeIsSum ==
    ASSUME FetchInv, NEW n \in Int
    PROVE  Relative(n) \in 0 .. Space - 1 /\ Relative(n) = (place + n) % Space
  <1>1. /\ hi \in 0 .. Blocks - 1 /\ lo \in 0 .. Block - P
        /\ PC_PG * P = hi * Block + lo /\ Y \in 0 .. P /\ page = PC_PG /\ PC_PG \in Int
    BY BankInBlock DEF FetchInv, hi, lo
  <1> DEFINE l == lo + Y
  <1>2. hi \in Int /\ l \in Int
    BY <1>1, Sizes
  <1> HIDE DEF l
  <1>3. /\ InTwoParts(Block, Blocks, hi, l, n) \in 0 .. Block * Blocks - 1
        /\ InTwoParts(Block, Blocks, hi, l, n) = (hi * Block + l + n) % (Block * Blocks)
    <2>1. Block \in Nat \ {0} /\ Blocks \in Nat \ {0} /\ n \in Int
      BY Sizes
    <2>2. \A b, k \in Nat \ {0}, x, y, z \in Int :
             /\ InTwoParts(b, k, x, y, z) \in 0 .. b * k - 1
             /\ InTwoParts(b, k, x, y, z) = (x * b + y + z) % (b * k)
      BY SumByDigits
    <2>3. \A x, y, z \in Int :
             /\ InTwoParts(Block, Blocks, x, y, z) \in 0 .. Block * Blocks - 1
             /\ InTwoParts(Block, Blocks, x, y, z) = (x * Block + y + z) % (Block * Blocks)
      BY <2>1, <2>2
    <2> QED
      BY <1>2, <2>1, <2>3
  <1>4. Relative(n) \in 0 .. Space - 1 /\ Relative(n) = (hi * Block + l + n) % Space
    <2>1. Relative(n) = InTwoParts(Block, Blocks, hi, l, n)
      BY DEF Relative, InTwoParts, l
    <2> QED
      BY <1>3, <2>1, Sizes
  <1> DEFINE a == page * P + Y
  <1>5. a \in Int /\ hi * Block + l + n = a + n
    BY <1>1, <1>2, Sizes DEF l
  <1> HIDE DEF a
  <1>6. (a + n) % Space = ((a % Space) + n) % Space
    <2> DEFINE d == a \div Space
               r == a % Space
    <2>1. d \in Int /\ r \in Int /\ a = Space * d + r
      <3>1. Space \in Nat \ {0} /\ a \in Int
        BY <1>5, Sizes
      <3>2. d \in Int /\ r \in 0 .. Space - 1 /\ a = Space * d + r
        BY <3>1, Division, Zenon
      <3> QED
        BY <3>1, <3>2
    <2> HIDE DEF d, r
    <2>2. a + n = (r + n) + Space * d /\ r + n \in Int
      BY <2>1, Sizes
    <2>3. ((r + n) + Space * d) % Space = (r + n) % Space
      BY <2>1, <2>2, Sizes, Multiple
    <2> QED
      BY <2>2, <2>3 DEF r
  <1> QED
    BY <1>4, <1>5, <1>6 DEF place, a

-----------------------------------------------------------------------------
LEMMA FetchInitInv == FetchInit => FetchInv /\ Flow!FlowInit
  <1> SUFFICES ASSUME FetchInit PROVE FetchInv /\ Flow!FlowInit
    OBVIOUS
  <1> DEFINE first == [op |-> "POPPC", n |-> 0]
  <1>1. first \in Instruction
    BY Sizes DEF Instruction, Jumps
  <1>2. FetchInv
    <2>1. <<first>> \in Seq(Instruction) /\ <<first>> # <<>>
      BY <1>1
    <2>2. ran = <<first>> /\ Y = 0 /\ PC_PG = 0 /\ page = 0 /\ chain = FALSE
      BY DEF FetchInit
    <2> HIDE DEF first
    <2>3. Y \in 0 .. P /\ PC_PG \in 0 .. Banks - 1 /\ page = PC_PG
      BY <2>2, Sizes
    <2>4. ran \in Seq(Instruction) /\ ran # <<>>
      BY <2>1, <2>2
    <2> QED
      BY <2>2, <2>3, <2>4, Zenon DEF FetchInv
  <1>3. (page * P + Y) % Space = 0
    BY Sizes, Small DEF FetchInit
  <1> QED
    BY <1>2, <1>3 DEF FetchInit, Flow!FlowInit

\* An instruction alone.
LEMMA Alone ==
    ASSUME NEW i
    PROVE  Len(<<i>>) = 1 /\ Last(<<i>>) = i /\ <<i>>[1] = i /\ <<i>> # <<>>
  BY DEF Last

\* After a step the window is the program's.
LEMMA GoesInv ==
    ASSUME FetchInv, NEW i \in Instruction, NEW y \in 0 .. P, NEW b \in 0 .. Banks - 1,
           Goes(<<i>>, y, b, b)
    PROVE  FetchInv'
  <1>1. Y' \in 0 .. P /\ PC_PG' \in 0 .. Banks - 1 /\ page' = PC_PG' /\ ran' = <<i>>
    BY DEF Goes
  <1>2. ran' \in Seq(Instruction) /\ ran' # <<>>
    BY <1>1
  <1>3. chain' \in BOOLEAN /\ (chain' => Last(ran').op = "IM")
    BY <1>1 DEF Goes
  <1> QED
    BY <1>1, <1>2, <1>3 DEF FetchInv

\* An instruction that goes where it should is one of the program.
LEMMA RunsAlone ==
    ASSUME FetchInv, NEW i \in Instruction, NEW y, NEW b, NEW w,
           ~Broken(i), Goes(<<i>>, y, b, w),
           (w * P + y) % Space = Flow!Target(i, place),
           ret' = IF i.op \in Flow!Calls THEN (place + 1) % Space ELSE ret
    PROVE  Flow!Runs(ran')
  <1>1. ran' = <<i>> /\ page' = w /\ Y' = y /\ lost' = lost
    BY DEF Goes
  <1>2. Len(ran') = 1 /\ Last(ran') = i /\ ran'[1] = i /\ ran' \in Seq(Instruction)
    BY <1>1, Alone
  <1>3. place \in Int
    BY Sizes, Division DEF place, FetchInv
  <1>4. place + Len(ran') - 1 = place
    BY <1>2, <1>3
  <1>5. place' = Flow!Target(Last(ran'), place)
    BY <1>1, <1>2 DEF place
  <1>6. long' = (Flow!IsIM(ran'[1]) /\ Flow!IsIM(Last(ran)))
    BY <1>1, <1>2 DEF Goes, Broken, FetchInv, Flow!IsIM
  <1>7. place' = Flow!Target(Last(ran'), place + Len(ran') - 1)
    BY <1>4, <1>5
  <1>8. ret' = IF Last(ran').op \in Flow!Calls THEN (place + Len(ran') - 1 + 1) % Space ELSE ret
    BY <1>2, <1>4
  <1>9. ran' \in Seq(Instruction) /\ Len(ran') > 0
    BY <1>2
  <1> DEFINE at == ((page * P + Y) % Space) + Len(ran') - 1
  <1>10. ((page * P + Y) % Space)' = Flow!Target(Last(ran'), at)
    BY <1>7 DEF place
  <1>11. ret' = IF Last(ran').op \in Flow!Calls THEN (at + 1) % Space ELSE ret
    BY <1>8 DEF place
  <1>12. UNCHANGED lost
    BY <1>1
  <1>13. \A s : Flow!Last(s) = Last(s)
    BY DEF Flow!Last, Last
  <1> QED
    BY <1>6, <1>9, <1>10, <1>11, <1>12, <1>13 DEF Flow!Runs


LEMMA Here ==
    ASSUME FetchInv, Y < P
    PROVE  /\ place = PC_PG * P + Y /\ place \in 0 .. Space - 1
           /\ PC_PG * P \in 0 .. Space - P
  <1>1. Y \in 0 .. P - 1 /\ PC_PG \in 0 .. Banks - 1 /\ page = PC_PG
    BY Sizes DEF FetchInv
  <1> DEFINE a == PC_PG * P
  <1>2. a + Y \in 0 .. P * Banks - 1
    BY <1>1, Sizes, TwoDigits
  <1>3. a + (P - 1) \in 0 .. P * Banks - 1
    BY <1>1, Sizes, TwoDigits
  <1>4. a \in Int /\ a >= 0
    BY <1>1, Sizes, Z3
  <1>5. place = (a + Y) % Space
    BY <1>1 DEF place
  <1> HIDE DEF a
  <1>6. a + Y \in 0 .. Space - 1 /\ a \in 0 .. Space - P
    BY <1>1, <1>2, <1>3, <1>4, Sizes
  <1>7. (a + Y) % Space = a + Y
    BY <1>6, Sizes, Small
  <1> QED
    BY <1>5, <1>6, <1>7 DEF a

\* The next instruction is behind this one.
LEMMA OnRuns ==
    ASSUME FetchInv, Y < P, NEW i \in Instruction, i.op \in Ops, ~Broken(i),
           GoesOn(<<i>>, page)
    PROVE  FetchInv' /\ Flow!Runs(ran')
  <1>1. /\ Goes(<<i>>, Y + 1, PC_PG, page) /\ ret' = ret
        /\ Y + 1 \in 0 .. P /\ PC_PG \in 0 .. Banks - 1 /\ page = PC_PG
    BY Alone, Sizes DEF GoesOn, FetchInv
  <1>2. FetchInv'
    BY <1>1, GoesInv
  <1>3. (page * P + (Y + 1)) % Space = (place + 1) % Space
    BY <1>1, Here, Sizes DEF FetchInv
  <1>4. Flow!Target(i, place) = (place + 1) % Space /\ i.op \notin Flow!Calls
    BY DEF Flow!Target, Flow!Calls, Ops
  <1>5. Flow!Runs(ran')
    BY <1>1, <1>3, <1>4, RunsAlone
  <1> QED
    BY <1>2, <1>5

\* The window takes the bank of the address ...
LEMMA ToRuns ==
    ASSUME FetchInv, NEW i \in Instruction, ~Broken(i), NEW a \in 0 .. Space - 1,
           GoesTo(i, a), Flow!Target(i, place) = a,
           ret' = IF i.op \in Flow!Calls THEN (place + 1) % Space ELSE ret
    PROVE  FetchInv' /\ Flow!Runs(ran')
  <1> DEFINE y == a % P
             b == a \div P
  <1>1. Goes(<<i>>, y, b, b)
    BY DEF GoesTo
  <1>2. b \in 0 .. Banks - 1 /\ y \in 0 .. P - 1 /\ (b * P + y) % Space = a
    BY AddressInBank
  <1> HIDE DEF y, b
  <1>3. y \in 0 .. P
    BY <1>2, Sizes
  <1>4. FetchInv'
    BY <1>1, <1>2, <1>3, GoesInv
  <1>5. Flow!Runs(ran')
    BY <1>1, <1>2, RunsAlone
  <1> QED
    BY <1>4, <1>5

\* ... or stays, when that is the bank of the program.
LEMMA InRuns ==
    ASSUME FetchInv, NEW i \in Instruction, ~Broken(i), NEW a \in 0 .. Space - 1,
           a \div P = PC_PG, Goes(<<i>>, a % P, PC_PG, page), Flow!Target(i, place) = a,
           ret' = IF i.op \in Flow!Calls THEN (place + 1) % Space ELSE ret
    PROVE  FetchInv' /\ Flow!Runs(ran')
  BY ToRuns DEF GoesTo, FetchInv

LEMMA BranchRuns ==
    ASSUME FetchInv, Y < P, NEW i \in Instruction, i.op = "BRANCH", ~Broken(i), DO_BRANCH(i)
    PROVE  FetchInv' /\ Flow!Runs(ran')
  <1> DEFINE n == i.n
  <1>1. n \in 0 .. Space - 1
    BY Sizes DEF Instruction, Plain
  <1>2. /\ Flow!Target(i, place) = (place + n) % Space
        /\ ret' = IF i.op \in Flow!Calls THEN (place + 1) % Space ELSE ret
    BY DEF Flow!Target, Flow!Calls, DO_BRANCH
  <1>3. /\ place = PC_PG * P + Y /\ PC_PG * P \in 0 .. Space - P
        /\ page = PC_PG /\ PC_PG \in 0 .. Banks - 1 /\ Y \in 0 .. P - 1
    BY Here, Sizes DEF FetchInv
  <1>4. ASSUME NEW y \in 0 .. P, Goes(<<i>>, y, PC_PG, page),
               (PC_PG * P + y) % Space = (place + n) % Space
        PROVE  FetchInv' /\ Flow!Runs(ran')
    <2>1. FetchInv'
      BY <1>3, <1>4, GoesInv
    <2>2. Flow!Runs(ran')
      BY <1>2, <1>3, <1>4, RunsAlone
    <2> QED
      BY <2>1, <2>2
  <1>5. CASE n < Short /\ Y + n < P
    <2> DEFINE y == Y + n
               a == PC_PG * P
    <2>1. y \in 0 .. P - 1 /\ y \in 0 .. Space - 1 /\ Space \in Nat \ {0} /\ a \in Int
      BY <1>1, <1>3, <1>5, Sizes
    <2>2. place + n = a + y
      BY <1>1, <1>3, <2>1
    <2>3. Goes(<<i>>, y % Space, PC_PG, page)
      BY <1>5 DEF DO_BRANCH, Near
    <2> HIDE DEF y, a
    <2>4. y % Space = y
      BY <2>1, Small
    <2>5. y \in 0 .. P
      BY <2>1, Sizes
    <2> QED
      BY <1>4, <2>2, <2>3, <2>4, <2>5 DEF a
  <1>6. CASE n >= Space - Short /\ Y + n >= Space
    <2> DEFINE y == Y + n - Space
               a == PC_PG * P
    <2>1. /\ y \in 0 .. P - 1 /\ y \in 0 .. Space - 1 /\ y \in Int /\ a \in Int
          /\ a + y \in Int /\ Space \in Nat \ {0} /\ 1 \in Int
      BY <1>1, <1>3, <1>6, Sizes
    <2>2. Y + n = y + Space * 1 /\ place + n = (a + y) + Space * 1
      BY <1>1, <1>3, <2>1, Sizes
    <2>3. Goes(<<i>>, (y + Space * 1) % Space, PC_PG, page)
      BY <1>6, <2>2 DEF DO_BRANCH, Near
    <2> HIDE DEF y, a
    <2>4. (y + Space * 1) % Space = y
      BY <2>1, Small, Multiple
    <2>5. ((a + y) + Space * 1) % Space = (a + y) % Space
      <3> DEFINE z == a + y
      <3>1. z \in Int
        BY <2>1
      <3> HIDE DEF z
      <3>2. (z + Space * 1) % Space = z % Space
        BY <2>1, <3>1, Multiple
      <3> QED
        BY <3>2 DEF z
    <2>6. y \in 0 .. P
      BY <2>1, Sizes
    <2> QED
      BY <1>4, <2>2, <2>3, <2>4, <2>5, <2>6 DEF a
  <1>7. CASE ~Near(n)
    BY <1>1, <1>2, <1>7, RelativeIsSum, ToRuns DEF DO_BRANCH
  <1> QED
    BY <1>5, <1>6, <1>7 DEF Near

LEMMA PopRuns ==
    ASSUME FetchInv, NEW i \in Instruction, i.op = "POPPC", ~Broken(i), opPOPPC(i)
    PROVE  FetchInv' /\ Flow!Runs(ran')
  <1>1. i.n \in 0 .. Space - 1
    BY DEF Instruction, Plain, Ops, Jumps
  <1>2. /\ Flow!Target(i, place) = i.n
        /\ ret' = IF i.op \in Flow!Calls THEN (place + 1) % Space ELSE ret
    BY DEF Flow!Target, Flow!Calls, opPOPPC
  <1> QED
    BY <1>1, <1>2, InRuns, ToRuns DEF opPOPPC

\* The return address, where its carry is not lost.
LEMMA Returns ==
    ASSUME FetchInv, Y < P, lo + Y + 1 # Block
    PROVE  hi * Block + ((lo + Y + 1) % Block) = (place + 1) % Space
  <1>1. /\ hi \in 0 .. Blocks - 1 /\ lo \in 0 .. Block - P
        /\ PC_PG * P = hi * Block + lo
    BY BankInBlock DEF FetchInv, hi, lo
  <1>2. place = PC_PG * P + Y /\ place \in 0 .. Space - 1 /\ Y \in 0 .. P - 1
    BY Here, Sizes DEF FetchInv
  <1> DEFINE low == lo + Y + 1
             h == hi * Block
             x == h + low
  <1>3. low \in 0 .. Block - 1 /\ Block \in Nat \ {0} /\ Blocks \in Nat \ {0}
    BY <1>1, <1>2, Sizes
  <1>4. h \in Int
    BY <1>1, Sizes
  <1> HIDE DEF low
  <1>5. x \in 0 .. Space - 1 /\ Space \in Nat \ {0}
    BY <1>1, <1>3, Sizes, TwoDigits
  <1> HIDE DEF h
  <1>6. place + 1 = x
    BY <1>1, <1>2, <1>4, Sizes DEF low, h
  <1> HIDE DEF x
  <1>7. x % Space = x
    BY <1>5, Small
  <1>8. low % Block = low
    BY <1>3, Small
  <1> QED
    BY <1>6, <1>7, <1>8 DEF x, h, low

LEMMA CallRuns ==
    ASSUME FetchInv, Y < P, NEW i \in Instruction, i.op \in {"CALL", "CALLPCREL"},
           NEW a \in 0 .. Space - 1, ~Broken(i), ~NoReturn(i),
           CallTo(i, a), Flow!Target(i, place) = a
    PROVE  FetchInv' /\ Flow!Runs(ran')
  <1> DEFINE low == (lo + Y + 1) % Block
  <1>1. hi * Block + low = (place + 1) % Space
    BY Returns DEF NoReturn
  <1>2. i.op \in Flow!Calls
    BY DEF Flow!Calls
  <1> HIDE DEF low
  <1>3. CASE a \div P = PC_PG
    <2>1. a \div Block = hi
      <3>1. a \in Int /\ P \in Nat \ {0} /\ PerBlock \in Nat \ {0} /\ Block = P * PerBlock
        BY Sizes
      <3>2. (a \div P) \div PerBlock = a \div (P * PerBlock)
        BY <3>1, DivDiv
      <3> QED
        BY <1>3, <3>1, <3>2 DEF hi
    <2>2. ret' = hi * Block + low /\ Goes(<<i>>, a % P, PC_PG, page)
      BY <1>3, <2>1 DEF CallTo, low
    <2> QED
      BY <1>1, <1>2, <1>3, <2>2, InRuns
  <1>4. CASE a \div P # PC_PG
    <2>1. ret' = hi * Block + low /\ GoesTo(i, a)
      BY <1>4 DEF CallTo, low
    <2> QED
      BY <1>1, <1>2, <2>1, ToRuns
  <1> QED
    BY <1>3, <1>4

LEMMA DecodeRuns ==
    ASSUME FetchInv, Y < P, NEW i \in Instruction, ~Broken(i), ~NoReturn(i), Decode(i)
    PROVE  FetchInv' /\ Flow!Runs(ran')
  <1>1. CASE i.op = "BRANCH" /\ DO_BRANCH(i)
    BY <1>1, BranchRuns
  <1>2. CASE i.op = "POPPC" /\ opPOPPC(i)
    BY <1>2, PopRuns
  <1>3. CASE i.op = "CALL" /\ opCALL(i)
    <2>1. i.n \in 0 .. Space - 1
      BY <1>3 DEF Instruction, Plain, Ops, Jumps
    <2>2. Flow!Target(i, place) = i.n
      BY <1>3 DEF Flow!Target
    <2> QED
      BY <1>3, <2>1, <2>2, CallRuns DEF opCALL
  <1>4. CASE i.op = "CALLPCREL" /\ opCALLPCREL(i)
    <2>1. i.n \in 0 .. Space - 1
      BY <1>4 DEF Instruction, Plain, Ops, Jumps
    <2>2. Relative(i.n) \in 0 .. Space - 1 /\ Relative(i.n) = (place + i.n) % Space
      BY <2>1, RelativeIsSum
    <2>3. Flow!Target(i, place) = Relative(i.n)
      BY <1>4, <2>2 DEF Flow!Target
    <2> QED
      BY <1>4, <2>2, <2>3, CallRuns DEF opCALLPCREL
  <1>5. CASE i.op = "LOAD" /\ opLOAD(i)
    <2>1. GoesOn(<<i>>, page)
      BY <1>5 DEF opLOAD, AfterAccess, FetchInv
    <2> QED
      BY <1>5, <2>1, OnRuns DEF Ops
  <1>6. CASE i.op \in Ops \ {"LOAD"} /\ GoesOn(<<i>>, page)
    BY <1>6, OnRuns
  <1> QED
    BY <1>1, <1>2, <1>3, <1>4, <1>5, <1>6 DEF Decode

-----------------------------------------------------------------------------
\* Instructions fused: none of them jumps, the first is no immediate.
LEMMA FusedRun ==
    ASSUME FetchInv, Y < P, NEW s \in Fusions, Y + Len(s) =< P, GoesOn(s, page)
    PROVE  FetchInv' /\ Flow!Runs(ran')
  <1>1. /\ s \in Seq(Instruction) /\ Len(s) \in {2, 3} /\ s # <<>>
        /\ Last(s) \in Instruction /\ Last(s).op \in Ops /\ Last(s).op \notin Flow!Calls
        /\ Last(s).op # "IM" /\ s[1].op # "IM"
    <2> DEFINE i(o) == Plain(o)
    <2>1. \A o \in Ops : Plain(o) \in Instruction /\ Plain(o).op = o
      BY DEF Instruction, Plain
    <2>2. \A a, b, c \in Instruction :
             /\ Len(<<a, b, c>>) = 3 /\ Last(<<a, b, c>>) = c /\ <<a, b, c>>[1] = a
             /\ <<a, b, c>> \in Seq(Instruction) /\ <<a, b, c>> # <<>>
      BY DEF Last
    <2>3. \A a, b \in Instruction :
             /\ Len(<<a, b>>) = 2 /\ Last(<<a, b>>) = b /\ <<a, b>>[1] = a
             /\ <<a, b>> \in Seq(Instruction) /\ <<a, b>> # <<>>
      BY DEF Last
    <2>4. CASE s = <<Plain("LOADSP_0"), Plain("IM"), Plain("ADD")>>
      BY <2>1, <2>2, <2>4 DEF Ops, Flow!Calls
    <2>5. CASE s = <<Plain("NOT"), Plain("IM"), Plain("AND")>>
      BY <2>1, <2>2, <2>5 DEF Ops, Flow!Calls
    <2>6. CASE s = <<Plain("PUSHSPADD"), Plain("POPSP")>>
      BY <2>1, <2>3, <2>6 DEF Ops, Flow!Calls
    <2> QED
      BY <2>4, <2>5, <2>6 DEF Fusions
  <1>2. /\ ran' = s /\ Y' = Y + Len(s) /\ PC_PG' = PC_PG /\ page' = page /\ ret' = ret
        /\ chain' = FALSE /\ long' = FALSE /\ lost' = lost
    BY <1>1 DEF GoesOn, Goes
  <1>3. Y' \in 0 .. P
    BY <1>1, <1>2, Sizes DEF FetchInv
  <1>4. FetchInv'
    BY <1>1, <1>2, <1>3 DEF FetchInv
  <1> DEFINE at == place + Len(s) - 1
  <1>5. at \in Int /\ (page' * P + Y') = at + 1
    BY <1>1, <1>2, Here, Sizes, SMTT(30) DEF FetchInv
  <1> HIDE DEF at
  <1>6. (place)' = Flow!Target(Last(s), at)
    BY <1>1, <1>2, <1>5 DEF place, Flow!Target, Ops
  <1>7. long' = (Flow!IsIM(s[1]) /\ Flow!IsIM(Last(ran)))
    BY <1>1, <1>2 DEF Flow!IsIM
  <1>8. ret' = IF Last(s).op \in Flow!Calls THEN (at + 1) % Space ELSE ret
    BY <1>1, <1>2
  <1>9. \A t : Flow!Last(t) = Last(t)
    BY DEF Flow!Last, Last
  <1>10. Len(s) > 0 /\ ran' = s /\ UNCHANGED lost
    BY <1>1, <1>2
  <1>11. Flow!Runs(s)
    BY <1>1, <1>6, <1>7, <1>8, <1>9, <1>10 DEF Flow!Runs, at, place
  <1> QED
    BY <1>4, <1>10, <1>11

LEMMA FetchRuns ==
    ASSUME FetchInv, ~lost, fetch
    PROVE  FetchInv' /\ Flow!FlowNext
  <1>1. Y < P
    BY DEF fetch
  <1>2. CASE Lost
    BY <1>2 DEF Lost, FetchInv, Flow!FlowNext
  <1>3. ASSUME NEW i \in Instruction, ~(Skipped(i) \/ Broken(i) \/ NoReturn(i)), Decode(i)
        PROVE  FetchInv' /\ Flow!FlowNext
    BY <1>1, <1>3, DecodeRuns DEF Flow!FlowNext
  <1>4. ASSUME NEW s \in Fusions, Y + Len(s) <= P, GoesOn(s, page)
        PROVE  FetchInv' /\ Flow!FlowNext
    BY <1>1, <1>4, FusedRun DEF Flow!FlowNext
  <1> QED
    BY <1>2, <1>3, <1>4 DEF fetch

\* The change of banks is not seen: the next instruction is where it was.
LEMMA NextPageStutters ==
    ASSUME FetchInv, nextPage
    PROVE  FetchInv' /\ UNCHANGED Flow!flowvars
  <1>1. /\ Y = P /\ Y' = 0 /\ PC_PG' = (PC_PG + 1) % Banks /\ page' = PC_PG'
        /\ page = PC_PG /\ PC_PG \in 0 .. Banks - 1
        /\ chain' = FALSE /\ UNCHANGED <<ran, long, ret, lost>>
    BY DEF nextPage, FetchInv
  <1> DEFINE next == PC_PG + 1
  <1>2. /\ Banks \in Nat \ {0} /\ P \in Nat \ {0} /\ Space \in Nat \ {0} /\ Space = P * Banks
        /\ next \in 1 .. Banks /\ PC_PG \in Int
    BY <1>1, Sizes
  <1>3. next % Banks \in 0 .. Banks - 1
    BY <1>2, Division
  <1>4. FetchInv'
    <2>1. Y' \in 0 .. P /\ PC_PG' \in 0 .. Banks - 1 /\ page' = PC_PG'
      BY <1>1, <1>2, <1>3
    <2>2. ran' \in Seq(Instruction) /\ ran' # <<>>
      BY <1>1 DEF FetchInv
    <2> QED
      BY <1>1, <2>1, <2>2 DEF FetchInv
  <1>5. (place)' = place
    <2>1. page * P + Y = next * P
      BY <1>1, <1>2
    <2>2. CASE next < Banks
      <3>1. next \in 0 .. Banks - 1
        BY <1>2, <2>2
      <3> HIDE DEF next
      <3>2. next % Banks = next
        BY <1>2, <3>1, Small
      <3>3. page' * P + Y' = next * P
        BY <1>1, <1>2, <3>1, <3>2 DEF next
      <3> QED
        BY <2>1, <3>3 DEF place
    <2>3. CASE next = Banks
      <3>1. Banks % Banks = 0
        BY <1>2, Z3
      <3>2. page' * P + Y' = 0
        BY <1>1, <1>2, <2>3, <3>1
      <3>3. page * P + Y = Space
        BY <1>2, <2>1, <2>3
      <3>4. Space % Space = 0 /\ 0 % Space = 0
        BY <1>2, Z3
      <3> QED
        BY <3>2, <3>3, <3>4 DEF place
    <2> QED
      BY <1>2, <2>2, <2>3
  <1> QED
    BY <1>1, <1>4, <1>5 DEF Flow!flowvars, place

LEMMA FetchNextInv ==
    FetchInv /\ [FetchNext]_fvars => FetchInv' /\ [Flow!FlowNext]_(Flow!flowvars)
  <1> SUFFICES ASSUME FetchInv, [FetchNext]_fvars
               PROVE  FetchInv' /\ [Flow!FlowNext]_(Flow!flowvars)
    OBVIOUS
  <1>1. CASE ~lost /\ fetch
    BY <1>1, FetchRuns
  <1>2. CASE ~lost /\ nextPage
    BY <1>2, NextPageStutters
  <1>3. CASE UNCHANGED fvars
    BY <1>3 DEF fvars, FetchInv, Flow!flowvars
  <1> QED
    BY <1>1, <1>2, <1>3 DEF FetchNext

\* The emulator reads each instruction at its address, whatever the program does
\* and however it lies in the banks: what fetch and nextPage run is a behaviour of
\* ZpuFlow, where an address is one number and no bank exists.
THEOREM FetchFollowsProgram == FetchSpec => FollowsProgram
  <1>1. FetchInit => FetchInv /\ Flow!FlowInit
    BY FetchInitInv
  <1>2. FetchInv /\ [FetchNext]_fvars => FetchInv' /\ [Flow!FlowNext]_(Flow!flowvars)
    BY FetchNextInv
  <1> QED
    BY <1>1, <1>2, PTL DEF FetchSpec, FollowsProgram, Flow!FlowSpec

(***************************************************************************)
(* Part 3.  The timer.                                                     *)
(***************************************************************************)
FourDigits == [1 .. 4 -> 0 .. DIGIT - 1]

\* The counter shows the time of the interrupts so far; while a latch copies it
\* no interrupt comes, and the half that is copied is the counter's.
TimerInv ==
    /\ TIMER_CTR \in FourDigits /\ sampledTMR \in FourDigits
    /\ phi \in BOOLEAN /\ masked \in BOOLEAN /\ ticks \in Nat /\ since \in 0 .. ticks
    /\ Value(TIMER_CTR) = (ticks * Tick) % Whole
    /\ copying \in {"high", "low"} => masked /\ since = ticks
    /\ copying = "low" => sampledTMR[1] = TIMER_CTR[1] /\ sampledTMR[2] = TIMER_CTR[2]
    /\ copying = "scale" => phi /\ Value(sampledTMR) = (since * Tick) % Whole

LEMMA TimerConstants ==
    /\ DIGIT \in Nat \ {0} /\ SCALE \in Nat \ {0}
    /\ TINC1 \in 0 .. DIGIT - 1 /\ TINC2 \in 0 .. DIGIT - 1
    /\ DIGIT * DIGIT \in Nat \ {0} /\ DIGIT * DIGIT * DIGIT \in Nat \ {0}
    /\ Whole \in Nat \ {0} /\ Tick \in Nat
  <1>1. /\ DIGIT \in Nat \ {0} /\ SCALE \in Nat \ {0}
        /\ TINC1 \in 0 .. DIGIT - 1 /\ TINC2 \in 0 .. DIGIT - 1
    BY TimerAssumption
  <1>2. \A x, y \in Nat \ {0} : x * y \in Nat \ {0}
    BY Z3
  <1>3. \A x, y \in Nat : x * y \in Nat
    BY Z3
  <1>4. Tick \in Nat
    BY <1>1, <1>3 DEF Tick
  <1> QED
    BY <1>1, <1>2, <1>4 DEF Whole

\* Four digits are a number below DIGIT ^ 4.
LEMMA ValueOfFour ==
    ASSUME NEW a \in 0 .. DIGIT - 1, NEW b \in 0 .. DIGIT - 1,
           NEW c \in 0 .. DIGIT - 1, NEW d \in 0 .. DIGIT - 1
    PROVE  ((a * DIGIT + b) * DIGIT + c) * DIGIT + d \in 0 .. Whole - 1
  <1> DEFINE D2 == DIGIT * DIGIT
             D3 == DIGIT * D2
             x == a * DIGIT + b
             y == x * DIGIT + c
             z == y * DIGIT + d
  <1>1. DIGIT \in Nat \ {0}
    BY TimerConstants
  <1>2. x \in 0 .. D2 - 1 /\ D2 \in Nat \ {0}
    BY <1>1, TwoDigits
  <1> HIDE DEF D2, x
  <1>3. y \in 0 .. D3 - 1 /\ D3 \in Nat \ {0}
    BY <1>1, <1>2, TwoDigits
  <1> HIDE DEF D3, y
  <1>4. z \in 0 .. DIGIT * D3 - 1
    BY <1>1, <1>3, TwoDigits
  <1>5. DIGIT * D3 = Whole
    BY <1>1, Z3 DEF D3, D2, Whole
  <1> QED
    BY <1>4, <1>5 DEF z, y, x

\* What is left of a number written in four digits.
LEMMA FourOf ==
    ASSUME NEW v \in Int, NEW q \in Int,
           NEW a \in 0 .. DIGIT - 1, NEW b \in 0 .. DIGIT - 1,
           NEW c \in 0 .. DIGIT - 1, NEW d \in 0 .. DIGIT - 1,
           v = (((DIGIT * q + a) * DIGIT + b) * DIGIT + c) * DIGIT + d
    PROVE  v % Whole = ((a * DIGIT + b) * DIGIT + c) * DIGIT + d
  <1> DEFINE x == ((a * DIGIT + b) * DIGIT + c) * DIGIT + d
  <1>1. x \in 0 .. Whole - 1 /\ DIGIT \in Nat \ {0} /\ Whole \in Nat \ {0}
    BY ValueOfFour, TimerConstants
  <1>2. v = Whole * q + x
    <2>1. Whole * q = DIGIT * q * DIGIT * DIGIT * DIGIT
      BY <1>1, Z3 DEF Whole
    <2>2. \A D, A, B, F, E, Q \in Int :
             (((D * Q + A) * D + B) * D + F) * D + E
               = D * Q * D * D * D + (((A * D + B) * D + F) * D + E)
      BY Z3
    <2> QED
      BY <1>1, <2>1, <2>2
  <1> HIDE DEF x
  <1>3. (Whole * q + x) % Whole = x
    BY <1>1, QuotientIs
  <1> QED
    BY <1>2, <1>3 DEF x

LEMMA DigitOf ==
    ASSUME NEW x \in Int
    PROVE  /\ x \div DIGIT \in Int /\ x % DIGIT \in 0 .. DIGIT - 1
           /\ x = DIGIT * (x \div DIGIT) + (x % DIGIT)
  BY TimerConstants, Division

LEMMA NextDigit ==
    ASSUME NEW x \in Int, NEW n \in Nat \ {0}
    PROVE  (x \div n) \div DIGIT = x \div (n * DIGIT)
  <1>1. DIGIT \in Nat \ {0}
    BY TimerConstants
  <1> QED
    BY <1>1, DivDiv

LEMMA DigitsOf ==
    ASSUME NEW v \in Nat
    PROVE  Digits(v) \in FourDigits /\ Value(Digits(v)) = v % Whole
  <1> DEFINE q1 == v \div DIGIT
             q2 == q1 \div DIGIT
             q3 == q2 \div DIGIT
             q4 == q3 \div DIGIT
             t == Digits(v)
  <1>1. q1 \in Int /\ v % DIGIT \in 0 .. DIGIT - 1 /\ v = DIGIT * q1 + (v % DIGIT)
    BY TimerConstants, Division
  <1>2. q2 = v \div (DIGIT * DIGIT)
    BY TimerConstants, NextDigit
  <1>3. q3 = v \div (DIGIT * DIGIT * DIGIT)
    <2>1. DIGIT * DIGIT \in Nat \ {0} /\ v \in Int
      BY TimerConstants
    <2>2. (v \div (DIGIT * DIGIT)) \div DIGIT = v \div ((DIGIT * DIGIT) * DIGIT)
      BY <2>1, NextDigit
    <2> QED
      BY <1>2, <2>2
  <1>4. v \div 1 = v
    OBVIOUS
  <1>5. /\ t[1] = q3 % DIGIT /\ t[2] = q2 % DIGIT
        /\ t[3] = q1 % DIGIT /\ t[4] = v % DIGIT
    BY <1>2, <1>3, <1>4 DEF Digits, Weight
  <1> HIDE DEF q1
  <1>6. q2 \in Int /\ t[3] \in 0 .. DIGIT - 1 /\ q1 = DIGIT * q2 + t[3]
    BY <1>1, <1>5, TimerConstants, Division
  <1> HIDE DEF q2
  <1>7. q3 \in Int /\ t[2] \in 0 .. DIGIT - 1 /\ q2 = DIGIT * q3 + t[2]
    BY <1>5, <1>6, TimerConstants, Division
  <1> HIDE DEF q3
  <1>8. q4 \in Int /\ t[1] \in 0 .. DIGIT - 1 /\ q3 = DIGIT * q4 + t[1]
    BY <1>5, <1>7, TimerConstants, Division
  <1> HIDE DEF q4, t
  <1>9. t[4] \in 0 .. DIGIT - 1 /\ v = DIGIT * q1 + t[4]
    BY <1>1, <1>5
  <1>10. v = (((DIGIT * q4 + t[1]) * DIGIT + t[2]) * DIGIT + t[3]) * DIGIT + t[4]
    BY <1>1, <1>6, <1>7, <1>8, <1>9, TimerConstants
  <1>11. v % Whole = Value(t)
    BY <1>6, <1>7, <1>8, <1>9, <1>10, FourOf DEF Value
  <1>12. t \in FourDigits
    <2>1. t = [i \in 1 .. 4 |-> t[i]]
      BY DEF t, Digits
    <2>2. \A i \in 1 .. 4 : t[i] \in 0 .. DIGIT - 1
      <3> SUFFICES ASSUME NEW i \in 1 .. 4 PROVE t[i] \in 0 .. DIGIT - 1
        OBVIOUS
      <3>1. i = 1 \/ i = 2 \/ i = 3 \/ i = 4
        OBVIOUS
      <3> QED
        BY <1>6, <1>7, <1>8, <1>9, <3>1, Zenon
    <2> QED
      BY <2>1, <2>2, Zenon DEF FourDigits
  <1> QED
    BY <1>11, <1>12 DEF t

LEMMA CarriedAdds ==
    ASSUME NEW t \in FourDigits
    PROVE  Carried(t) \in FourDigits /\ Value(Carried(t)) = (Value(t) + Tick) % Whole
  <1> DEFINE d4 == t[4] + TINC1
             c4 == d4 \div DIGIT
             d3 == t[3] + TINC2 + c4
             c3 == d3 \div DIGIT
             d2 == t[2] + c3
             c2 == d2 \div DIGIT
             d1 == t[1] + c2
             c1 == d1 \div DIGIT
             u == Carried(t)
  <1>1. \A i \in 1 .. 4 : t[i] \in 0 .. DIGIT - 1
    BY DEF FourDigits
  <1>2. u = <<d1 % DIGIT, d2 % DIGIT, d3 % DIGIT, d4 % DIGIT>>
    BY DEF Carried
  <1>3. /\ u[1] = d1 % DIGIT /\ u[2] = d2 % DIGIT
        /\ u[3] = d3 % DIGIT /\ u[4] = d4 % DIGIT
    BY <1>2
  <1> HIDE DEF u
  <1>4. c4 \in Int /\ u[4] \in 0 .. DIGIT - 1 /\ t[4] + TINC1 = DIGIT * c4 + u[4]
    <2>1. d4 \in Int
      BY <1>1, <1>3, TimerConstants
    <2> QED
      BY <1>3, <2>1, DigitOf
  <1> HIDE DEF d4, c4
  <1>5. c3 \in Int /\ u[3] \in 0 .. DIGIT - 1 /\ t[3] + TINC2 + c4 = DIGIT * c3 + u[3]
    <2>1. d3 \in Int
      BY <1>1, <1>3, <1>4, TimerConstants
    <2> QED
      BY <1>3, <2>1, DigitOf
  <1> HIDE DEF d3, c3
  <1>6. c2 \in Int /\ u[2] \in 0 .. DIGIT - 1 /\ t[2] + c3 = DIGIT * c2 + u[2]
    <2>1. d2 \in Int
      BY <1>1, <1>3, <1>5, TimerConstants
    <2> QED
      BY <1>3, <2>1, DigitOf
  <1> HIDE DEF d2, c2
  <1>7. c1 \in Int /\ u[1] \in 0 .. DIGIT - 1 /\ t[1] + c2 = DIGIT * c1 + u[1]
    <2>1. d1 \in Int
      BY <1>1, <1>3, <1>6, TimerConstants
    <2> QED
      BY <1>3, <2>1, DigitOf
  <1> HIDE DEF d1, c1
  <1> DEFINE s == Value(t) + Tick
  <1>8. s = (((DIGIT * c1 + u[1]) * DIGIT + u[2]) * DIGIT + u[3]) * DIGIT + u[4]
    <2>1. t[1] \in Int /\ t[2] \in Int /\ t[3] \in Int /\ t[4] \in Int
      BY <1>1, TimerConstants
    <2>2. s = ((t[1] * DIGIT + t[2]) * DIGIT + t[3] + TINC2) * DIGIT + (t[4] + TINC1)
      BY <2>1, TimerConstants DEF Value, Tick
    <2>3. @ = ((t[1] * DIGIT + t[2]) * DIGIT + (t[3] + TINC2 + c4)) * DIGIT + u[4]
      BY <1>4, <2>1, TimerConstants
    <2>4. @ = ((t[1] * DIGIT + (t[2] + c3)) * DIGIT + u[3]) * DIGIT + u[4]
      BY <1>4, <1>5, <2>1, TimerConstants
    <2>5. @ = (((t[1] + c2) * DIGIT + u[2]) * DIGIT + u[3]) * DIGIT + u[4]
      BY <1>4, <1>5, <1>6, <2>1, TimerConstants
    <2> QED
      BY <1>7, <2>2, <2>3, <2>4, <2>5
  <1>9. s \in Int
    <2>1. \A x, y \in Int : x * y \in Int /\ x + y \in Int
      OBVIOUS
    <2> QED
      BY <1>1, <2>1, TimerConstants DEF Value
  <1> HIDE DEF s
  <1>10. s % Whole = Value(u)
    BY <1>4, <1>5, <1>6, <1>7, <1>8, <1>9, FourOf DEF Value
  <1>11. u \in FourDigits
    BY <1>2, <1>3, <1>4, <1>5, <1>6, <1>7 DEF FourDigits
  <1> QED
    BY <1>10, <1>11 DEF u, s

LEMMA ScaledRemainder ==
    ASSUME NEW x \in Int, NEW k \in Int, NEW m \in Nat \ {0}
    PROVE  (k * (x % m)) % m = (k * x) % m
  <1> DEFINE q == x \div m
             r == x % m
  <1>1. q \in Int /\ r \in Int /\ x = m * q + r
    <2>1. q \in Int /\ r \in 0 .. m - 1 /\ x = m * q + r
      BY Division
    <2> QED
      BY <2>1
  <1> HIDE DEF q, r
  <1>2. k * x = k * r + m * (k * q)
    BY <1>1, Z3
  <1> DEFINE a == k * r
             b == k * q
  <1>3. a \in Int /\ b \in Int
    BY <1>1
  <1> HIDE DEF a, b
  <1>4. (a + m * b) % m = a % m
    BY <1>3, Multiple
  <1> QED
    BY <1>2, <1>4 DEF a, b, r

LEMMA TimerInitInv == TimerInit => TimerInv
  <1> SUFFICES ASSUME TimerInit PROVE TimerInv
    OBVIOUS
  <1>1. Digits(0) \in FourDigits /\ Value(Digits(0)) = 0 % Whole
    BY DigitsOf
  <1>2. 0 * Tick = 0
    BY TimerConstants
  <1>3. /\ TIMER_CTR = Digits(0) /\ sampledTMR = Digits(0) /\ phi \in BOOLEAN
        /\ masked = FALSE /\ copying = "no" /\ ticks = 0 /\ since = 0
    BY DEF TimerInit
  <1>4. Value(TIMER_CTR) = (ticks * Tick) % Whole
    BY <1>1, <1>2, <1>3
  <1>5. TIMER_CTR \in FourDigits /\ sampledTMR \in FourDigits
    BY <1>1, <1>3
  <1>6. ticks \in Nat /\ since \in 0 .. ticks /\ masked \in BOOLEAN /\ phi \in BOOLEAN
    <2>1. masked \in BOOLEAN /\ phi \in BOOLEAN
      BY <1>3, Zenon
    <2>2. ticks = 0 /\ since = 0
      BY <1>3
    <2> QED
      BY <2>1, <2>2
  <1>7. copying \notin {"high", "low"} /\ copying # "low" /\ copying # "scale"
    BY <1>3
  <1> QED
    BY <1>4, <1>5, <1>6, <1>7, Zenon DEF TimerInv

\* A step keeps the invariant, and a latch that ends shows a time of its own.
LatchEnds ==
    copying # "no" /\ copying' = "no" =>
        LET scale == IF phi THEN SCALE ELSE 1
        IN \E n \in since .. ticks : Value(sampledTMR') = (scale * n * Tick) % Whole

LEMMA InterruptStep == TimerInv /\ TIMERINTER => TimerInv' /\ LatchEnds
  <1> SUFFICES ASSUME TimerInv, TIMERINTER PROVE TimerInv' /\ LatchEnds
    OBVIOUS
  <1>1. /\ ~masked /\ TIMER_CTR' = Carried(TIMER_CTR) /\ ticks' = ticks + 1
        /\ UNCHANGED <<sampledTMR, phi, masked, copying, since>>
    BY DEF TIMERINTER
  <1>2. /\ TIMER_CTR' \in FourDigits
        /\ Value(TIMER_CTR') = (Value(TIMER_CTR) + Tick) % Whole
    BY <1>1, CarriedAdds DEF TimerInv
  <1> DEFINE x == ticks * Tick
             d == x \div Whole
             r == x % Whole
  <1>3. x \in Int /\ Tick \in Int /\ ticks' * Tick = x + Tick /\ Whole \in Nat \ {0}
    BY <1>1, TimerConstants DEF TimerInv
  <1>4. Value(TIMER_CTR) = r
    BY DEF TimerInv
  <1> HIDE DEF x
  <1>5. d \in Int /\ r \in 0 .. Whole - 1 /\ x = Whole * d + r
    BY <1>3, Division
  <1> HIDE DEF d, r
  <1> DEFINE y == r + Tick
  <1>6. y \in Int /\ x + Tick = y + Whole * d
    BY <1>3, <1>5
  <1> HIDE DEF y
  <1>7. (y + Whole * d) % Whole = y % Whole
    BY <1>3, <1>5, <1>6, Multiple
  <1>8. Value(TIMER_CTR') = (ticks' * Tick) % Whole
    BY <1>2, <1>3, <1>4, <1>6, <1>7 DEF y
  <1>9. TimerInv'
    BY <1>1, <1>2, <1>8 DEF TimerInv
  <1>10. LatchEnds
    BY <1>1 DEF LatchEnds
  <1> QED
    BY <1>9, <1>10

LEMMA LatchStep == TimerInv /\ timer_latch => TimerInv' /\ LatchEnds
  BY DEF TimerInv, timer_latch, LatchMask, LatchEnds

LEMMA CopyHighStep == TimerInv /\ CopyHigh => TimerInv' /\ LatchEnds
  <1> SUFFICES ASSUME TimerInv, CopyHigh PROVE TimerInv' /\ LatchEnds
    OBVIOUS
  <1>1. /\ sampledTMR' \in FourDigits
        /\ sampledTMR'[1] = TIMER_CTR[1] /\ sampledTMR'[2] = TIMER_CTR[2]
    BY DEF CopyHigh, TimerInv, FourDigits
  <1> QED
    BY <1>1 DEF CopyHigh, TimerInv, LatchEnds

LEMMA CopyLowStep == TimerInv /\ CopyLow => TimerInv' /\ LatchEnds
  <1> SUFFICES ASSUME TimerInv, CopyLow PROVE TimerInv' /\ LatchEnds
    OBVIOUS
  <1>1. /\ copying = "low" /\ since = ticks /\ since \in Nat /\ Tick \in Nat
        /\ sampledTMR' \in FourDigits
        /\ UNCHANGED <<TIMER_CTR, phi, ticks, since>>
    BY TimerConstants DEF CopyLow, TimerInv, FourDigits
  <1>2. /\ sampledTMR'[1] = TIMER_CTR[1] /\ sampledTMR'[2] = TIMER_CTR[2]
        /\ sampledTMR'[3] = TIMER_CTR[3] /\ sampledTMR'[4] = TIMER_CTR[4]
    BY DEF CopyLow, TimerInv, FourDigits
  <1>3. Value(sampledTMR') = (since * Tick) % Whole
    BY <1>1, <1>2 DEF Value, TimerInv
  <1>4. TimerInv'
    <2>1. /\ copying' \in {"scale", "no"} /\ (copying' = "scale" => phi)
          /\ masked' = FALSE
      BY DEF CopyLow
    <2>2. since' * Tick = since * Tick /\ Value(TIMER_CTR') = (ticks' * Tick) % Whole
      BY <1>1 DEF TimerInv
    <2> QED
      BY <1>1, <1>3, <2>1, <2>2 DEF TimerInv
  <1>5. LatchEnds
    <2>1. copying' = "no" => ~phi
      BY DEF CopyLow
    <2>2. 1 * since * Tick = since * Tick /\ since \in since .. ticks
      BY <1>1
    <2> QED
      BY <1>3, <2>1, <2>2 DEF LatchEnds
  <1> QED
    BY <1>4, <1>5

LEMMA ScaleStep == TimerInv /\ timer_latch_phi => TimerInv' /\ LatchEnds
  <1> SUFFICES ASSUME TimerInv, timer_latch_phi PROVE TimerInv' /\ LatchEnds
    OBVIOUS
  <1> DEFINE x == since * Tick
             v == SCALE * (x % Whole)
  <1>1. /\ copying = "scale" /\ phi /\ since \in 0 .. ticks /\ ticks \in Nat
        /\ Value(sampledTMR) = x % Whole
        /\ sampledTMR' = Digits(v) /\ copying' = "no"
        /\ UNCHANGED <<TIMER_CTR, phi, masked, ticks, since>>
    BY DEF timer_latch_phi, TimerInv
  <1>2. x \in Int /\ Whole \in Nat \ {0} /\ SCALE \in Int /\ SCALE \in Nat
    BY <1>1, TimerConstants
  <1>3. SCALE * since * Tick = SCALE * x
    BY <1>1, TimerConstants
  <1> HIDE DEF x
  <1>4. v \in Nat
    <2>1. x % Whole \in 0 .. Whole - 1
      BY <1>2, Division
    <2> QED
      BY <1>2, <2>1
  <1>5. v % Whole = (SCALE * x) % Whole
    BY <1>2, ScaledRemainder
  <1> HIDE DEF v
  <1>6. sampledTMR' \in FourDigits /\ Value(sampledTMR') = v % Whole
    BY <1>1, <1>4, DigitsOf
  <1>7. TimerInv'
    BY <1>1, <1>6 DEF TimerInv
  <1>8. since \in since .. ticks
    BY <1>1
  <1>9. Value(sampledTMR') = (SCALE * since * Tick) % Whole
    BY <1>3, <1>5, <1>6
  <1>10. LatchEnds
    BY <1>1, <1>8, <1>9 DEF LatchEnds
  <1> QED
    BY <1>7, <1>10

LEMMA TimerNextInv ==
    TimerInv /\ [TimerNext]_timervars => TimerInv' /\ [LatchEnds]_timervars
  <1>1. TimerInv /\ UNCHANGED timervars => TimerInv'
    BY DEF timervars, TimerInv
  <1> QED
    BY <1>1, InterruptStep, LatchStep, CopyHighStep, CopyLowStep, ScaleStep DEF TimerNext

\* Wherever the interrupts fall, a latched time is one that the counter had while
\* the program asked for it, for counters of digits of any size.
THEOREM LatchedTimeIsATime == TimerSpec => LatchIsATime
  <1>1. TimerInit => TimerInv
    BY TimerInitInv
  <1>2. TimerInv /\ [TimerNext]_timervars => TimerInv' /\ [LatchEnds]_timervars
    BY TimerNextInv
  <1> QED
    BY <1>1, <1>2, PTL DEF TimerSpec, LatchIsATime, LatchEnds
-----------------------------------------------------------------------------
(***************************************************************************)
(* Part 4.  Powers and words.                                              *)
(***************************************************************************)
\* Induction: a set of natural numbers with 0 and each one's successor has all.
LEMMA EveryNat ==
    ASSUME NEW S \in SUBSET Nat, 0 \in S, \A k \in S : k + 1 \in S
    PROVE  \A k \in Nat : k \in S
  <1> SUFFICES ASSUME Nat \ S # {} PROVE FALSE
    OBVIOUS
  <1>1. PICK x \in Nat \ S : \A y \in Nat \ S : ~ (<<y, x>> \in OpToRel(<, Nat))
    BY NatLessThanWellFounded, WFMin
  <1>2. x # 0 /\ x \in Nat
    OBVIOUS
  <1>3. x - 1 \in Nat /\ x - 1 < x /\ (x - 1) + 1 = x
    BY <1>2
  <1>4. x - 1 \in S
    BY <1>1, <1>2, <1>3 DEF OpToRel
  <1> QED
    BY <1>3, <1>4

\* The first values of a function that is defined by its next one.
Upto(g, n, S, x, step) ==
    /\ g \in [0 .. n -> S]
    /\ g[0] = x
    /\ \A i \in 0 .. n - 1 : g[i + 1] = step[i][g[i]]

LEMMA UptoAgree ==
    ASSUME NEW S, NEW x \in S, NEW step \in [Nat -> [S -> S]],
           NEW m \in Nat, NEW n \in Nat, NEW g, NEW h,
           Upto(g, m, S, x, step), Upto(h, n, S, x, step)
    PROVE  \A i \in Nat : i =< m /\ i =< n => g[i] = h[i]
  <1> DEFINE T == {i \in Nat : i =< m /\ i =< n => g[i] = h[i]}
  <1>1. 0 \in T
    BY DEF Upto
  <1>2. ASSUME NEW i \in T PROVE i + 1 \in T
    <2> SUFFICES ASSUME i + 1 =< m, i + 1 =< n PROVE g[i + 1] = h[i + 1]
      OBVIOUS
    <2>1. i \in 0 .. m - 1 /\ i \in 0 .. n - 1 /\ i =< m /\ i =< n
      OBVIOUS
    <2>2. g[i] = h[i]
      BY <2>1
    <2>3. g[i + 1] = step[i][g[i]] /\ h[i + 1] = step[i][h[i]]
      BY <2>1 DEF Upto
    <2> QED
      BY <2>2, <2>3
  <1>3. T \in SUBSET Nat
    OBVIOUS
  <1> HIDE DEF T
  <1>4. \A i \in Nat : i \in T
    BY <1>1, <1>2, <1>3, EveryNat
  <1> QED
    BY <1>4 DEF T

LEMMA UptoExists ==
    ASSUME NEW S, NEW x \in S, NEW step \in [Nat -> [S -> S]]
    PROVE  \A n \in Nat : \E g : Upto(g, n, S, x, step)
  <1> DEFINE T == {n \in Nat : \E g : Upto(g, n, S, x, step)}
  <1>1. 0 \in T
    <2> DEFINE g == [i \in 0 .. 0 |-> x]
    <2>1. g \in [0 .. 0 -> S] /\ g[0] = x /\ 0 .. 0 - 1 = {}
      OBVIOUS
    <2> HIDE DEF g
    <2> QED
      BY <2>1 DEF Upto
  <1>2. ASSUME NEW n \in T PROVE n + 1 \in T
    <2>1. PICK g : Upto(g, n, S, x, step)
      OBVIOUS
    <2> DEFINE y == step[n][g[n]]
               h == [i \in 0 .. n + 1 |-> IF i = n + 1 THEN y ELSE g[i]]
    <2>2. n \in Nat /\ g[n] \in S
      BY <2>1 DEF Upto
    <2>3. y \in S
      BY <2>2
    <2>4. \A i \in 0 .. n : g[i] \in S
      BY <2>1 DEF Upto
    <2>5. \A i \in 0 .. n + 1 : i # n + 1 => i \in 0 .. n
      BY <2>2
    <2>6. \A i \in 0 .. n + 1 : (IF i = n + 1 THEN y ELSE g[i]) \in S
      BY <2>3, <2>4, <2>5
    <2>7. h \in [0 .. n + 1 -> S]
      BY <2>6
    <2>8. h[n + 1] = y
      BY <2>2
    <2>9. \A i \in 0 .. n : h[i] = g[i]
      BY <2>2
    <2> HIDE DEF h
    <2>10. h[0] = x
      BY <2>1, <2>2, <2>9 DEF Upto
    <2>11. ASSUME NEW i \in 0 .. (n + 1) - 1 PROVE h[i + 1] = step[i][h[i]]
      <3>1. CASE i = n
        BY <2>2, <2>8, <2>9, <3>1
      <3>2. CASE i # n
        <4>1. i \in 0 .. n - 1 /\ i \in 0 .. n /\ i + 1 \in 0 .. n
          BY <2>2, <3>2
        <4> QED
          BY <2>1, <2>9, <4>1 DEF Upto
      <3> QED
        BY <3>1, <3>2
    <2>12. Upto(h, n + 1, S, x, step)
      BY <2>7, <2>10, <2>11 DEF Upto
    <2> QED
      BY <2>2, <2>12
  <1>3. T \in SUBSET Nat
    OBVIOUS
  <1> HIDE DEF T
  <1>4. \A i \in Nat : i \in T
    BY <1>1, <1>2, <1>3, EveryNat
  <1> QED
    BY <1>4 DEF T

\* A function that is defined by its first value and each one's next exists.
Recursive(f, S, x, step) ==
    /\ f \in [Nat -> S]
    /\ f[0] = x
    /\ \A n \in Nat : f[n + 1] = step[n][f[n]]

LEMMA Recursion ==
    ASSUME NEW S, NEW x \in S, NEW step \in [Nat -> [S -> S]]
    PROVE  \E f : Recursive(f, S, x, step)
  <1> DEFINE G(n) == CHOOSE g : Upto(g, n, S, x, step)
             f == [n \in Nat |-> G(n)[n]]
  <1>1. \A n \in Nat : Upto(G(n), n, S, x, step)
    BY UptoExists
  <1> HIDE DEF G
  <1>2. \A n \in Nat : G(n)[n] \in S
    BY <1>1 DEF Upto
  <1>3. f \in [Nat -> S] /\ \A n \in Nat : f[n] = G(n)[n]
    BY <1>2
  <1> HIDE DEF f
  <1>4. f[0] = x
    BY <1>1, <1>3 DEF Upto
  <1>5. ASSUME NEW n \in Nat PROVE f[n + 1] = step[n][f[n]]
    <2>1. n + 1 \in Nat /\ n \in 0 .. (n + 1) - 1 /\ n =< n /\ n =< n + 1
      OBVIOUS
    <2>2. Upto(G(n + 1), n + 1, S, x, step) /\ Upto(G(n), n, S, x, step)
      BY <1>1, <2>1
    <2>3. G(n + 1)[n + 1] = step[n][G(n + 1)[n]]
      BY <2>1, <2>2 DEF Upto
    <2>4. G(n + 1)[n] = G(n)[n]
      BY <2>1, <2>2, UptoAgree
    <2> QED
      BY <1>3, <2>1, <2>3, <2>4
  <1> QED
    BY <1>3, <1>4, <1>5 DEF Recursive

-----------------------------------------------------------------------------
IsPower(p, b) == p = [k \in Nat |-> IF k = 0 THEN 1 ELSE b * p[k - 1]]

LEMMA PowerExists ==
    ASSUME NEW b \in Nat
    PROVE  \E p : IsPower(p, b) /\ p \in [Nat -> Nat]
  <1> DEFINE step == [n \in Nat |-> [v \in Nat |-> b * v]]
  <1>1. step \in [Nat -> [Nat -> Nat]] /\ \A n, v \in Nat : step[n][v] = b * v
    OBVIOUS
  <1> HIDE DEF step
  <1>2. PICK p : Recursive(p, Nat, 1, step)
    BY <1>1, Recursion
  <1>3. ASSUME NEW k \in Nat PROVE p[k] = IF k = 0 THEN 1 ELSE b * p[k - 1]
    <2>1. CASE k = 0
      BY <1>2, <2>1 DEF Recursive
    <2>2. CASE k # 0
      <3>1. k - 1 \in Nat /\ (k - 1) + 1 = k
        BY <2>2
      <3>2. p[k] = step[k - 1][p[k - 1]] /\ p[k - 1] \in Nat
        BY <1>2, <3>1 DEF Recursive
      <3> QED
        BY <1>1, <2>2, <3>1, <3>2
    <2> QED
      BY <2>1, <2>2
  <1> QED
    BY <1>2, <1>3 DEF IsPower, Recursive

LEMMA PowerOf ==
    ASSUME NEW b \in Nat
    PROVE  \E p : /\ IsPower(p, b) /\ p \in [Nat -> Nat]
                  /\ \A n : b ** n = p[n]
  <1> DEFINE q == CHOOSE p : IsPower(p, b)
  <1>1. \A n : b ** n = q[n]
    BY DEF **, IsPower
  <1>2. PICK p : IsPower(p, b) /\ p \in [Nat -> Nat]
    BY PowerExists
  <1>3. IsPower(q, b)
    BY <1>2
  <1> HIDE DEF q
  <1> DEFINE T == {k \in Nat : q[k] = p[k]}
  <1>4. \A k \in Nat : q[k] = IF k = 0 THEN 1 ELSE b * q[k - 1]
    BY <1>3 DEF IsPower
  <1>5. \A k \in Nat : p[k] = IF k = 0 THEN 1 ELSE b * p[k - 1]
    BY <1>2 DEF IsPower
  <1>6. 0 \in T
    BY <1>4, <1>5
  <1>7. ASSUME NEW k \in T PROVE k + 1 \in T
    BY <1>4, <1>5
  <1>8. T \in SUBSET Nat
    OBVIOUS
  <1> HIDE DEF T
  <1>9. \A k \in Nat : k \in T
    BY <1>6, <1>7, <1>8, EveryNat
  <1>10. \A k \in Nat : q[k] \in Nat
    BY <1>2, <1>9 DEF T
  <1>11. q \in [Nat -> Nat]
    BY <1>3, <1>10 DEF IsPower
  <1> QED
    BY <1>1, <1>3, <1>11

LEMMA PowerStep ==
    ASSUME NEW b \in Nat, NEW n \in Nat
    PROVE  b ** n \in Nat /\ b ** (n + 1) = b * (b ** n)
  <1>1. PICK p : /\ IsPower(p, b) /\ p \in [Nat -> Nat]
                 /\ \A k : b ** k = p[k]
    BY PowerOf
  <1>2. \A k \in Nat : p[k] = IF k = 0 THEN 1 ELSE b * p[k - 1]
    BY <1>1 DEF IsPower
  <1> QED
    BY <1>1, <1>2

LEMMA PowerZero ==
    ASSUME NEW b \in Nat
    PROVE  b ** 0 = 1
  <1>1. PICK p : /\ IsPower(p, b) /\ p \in [Nat -> Nat]
                 /\ \A k : b ** k = p[k]
    BY PowerOf
  <1>2. \A k \in Nat : p[k] = IF k = 0 THEN 1 ELSE b * p[k - 1]
    BY <1>1 DEF IsPower
  <1> QED
    BY <1>1, <1>2

LEMMA PowerOne ==
    ASSUME NEW b \in Nat
    PROVE  b ** 1 = b
  <1>1. b ** (0 + 1) = b * (b ** 0)
    BY PowerStep
  <1> QED
    BY <1>1, PowerZero

LEMMA PowerPositive ==
    ASSUME NEW b \in Nat \ {0}
    PROVE  \A n \in Nat : b ** n \in Nat \ {0}
  <1> DEFINE T == {n \in Nat : b ** n # 0}
  <1>1. 0 \in T
    BY PowerZero
  <1>2. ASSUME NEW n \in T PROVE n + 1 \in T
    <2> DEFINE x == b ** n
    <2>1. b ** (n + 1) = b * x /\ x \in Nat \ {0}
      BY PowerStep
    <2> HIDE DEF x
    <2> QED
      BY <2>1, Z3
  <1>3. T \in SUBSET Nat
    OBVIOUS
  <1> HIDE DEF T
  <1>4. \A n \in Nat : n \in T
    BY <1>1, <1>2, <1>3, EveryNat
  <1> QED
    BY <1>4, PowerStep DEF T

LEMMA PowerPlus ==
    ASSUME NEW b \in Nat, NEW m \in Nat
    PROVE  \A n \in Nat : b ** (m + n) = (b ** m) * (b ** n)
  <1> DEFINE T == {n \in Nat : b ** (m + n) = (b ** m) * (b ** n)}
  <1>1. 0 \in T
    BY PowerZero, PowerStep
  <1>2. ASSUME NEW n \in T PROVE n + 1 \in T
    <2>1. m + n \in Nat /\ m + (n + 1) = (m + n) + 1
      OBVIOUS
    <2> DEFINE x == b ** m
               y == b ** n
    <2>2. b ** (m + (n + 1)) = b * (x * y) /\ x \in Nat /\ y \in Nat
      BY <2>1, PowerStep
    <2>3. b ** (n + 1) = b * y
      BY PowerStep
    <2> HIDE DEF x, y
    <2>4. b * (x * y) = x * (b * y)
      BY <2>2, Z3
    <2> QED
      BY <2>2, <2>3, <2>4 DEF x
  <1>3. T \in SUBSET Nat
    OBVIOUS
  <1> HIDE DEF T
  <1>4. \A n \in Nat : n \in T
    BY <1>1, <1>2, <1>3, EveryNat
  <1> QED
    BY <1>4 DEF T

LEMMA PowerPower ==
    ASSUME NEW b \in Nat, NEW m \in Nat
    PROVE  \A n \in Nat : (b ** m) ** n = b ** (m * n)
  <1> DEFINE T == {n \in Nat : (b ** m) ** n = b ** (m * n)}
  <1>1. 0 \in T
    <2>1. m * 0 = 0 /\ b ** m \in Nat
      BY PowerStep
    <2> QED
      BY <2>1, PowerZero
  <1>2. ASSUME NEW n \in T PROVE n + 1 \in T
    <2> DEFINE k == m * n
               x == b ** m
    <2>1. k \in Nat /\ m * (n + 1) = m + k /\ x \in Nat
      BY PowerStep
    <2>2. x ** (n + 1) = x * (x ** n)
      BY <2>1, PowerStep
    <2>3. x ** n = b ** k
      OBVIOUS
    <2> HIDE DEF k, x
    <2>4. b ** (m + k) = (b ** m) * (b ** k)
      BY <2>1, PowerPlus
    <2> QED
      BY <2>1, <2>2, <2>3, <2>4 DEF x
  <1>3. T \in SUBSET Nat
    OBVIOUS
  <1> HIDE DEF T
  <1>4. \A n \in Nat : n \in T
    BY <1>1, <1>2, <1>3, EveryNat
  <1> QED
    BY <1>4 DEF T


-----------------------------------------------------------------------------
LEMMA Product ==
    ASSUME NEW a \in Nat \ {0}, NEW b \in Nat \ {0}
    PROVE  a * b \in Nat \ {0} /\ a =< a * b /\ b =< a * b
  <1>1. a >= 1 /\ b >= 1 /\ a \in Int /\ b \in Int
    OBVIOUS
  <1> QED
    BY <1>1, Z3

LEMMA WordConstants ==
    /\ BITS \in Nat \ {0} /\ WORD \in Nat \ {0} /\ HALF \in Nat \ {0} /\ BITS > 1
    /\ WORD = 2 * HALF
    /\ Bits \in Nat \ {0} /\ Bits = BITS * WORD
    /\ BYTE \in Nat \ {0} /\ HalfMod \in Nat \ {0} /\ Modulus \in Nat \ {0}
    /\ IMBASE \in Nat \ {0}
    /\ Modulus = HalfMod * HalfMod /\ Modulus = 2 ** Bits
  <1>1. /\ BITS \in Nat \ {0} /\ WORD \in Nat \ {0} /\ HALF \in Nat \ {0} /\ BITS > 1
        /\ WORD = 2 * HALF /\ WORD = HALF + HALF /\ BITS - 1 \in Nat
    BY ArithAssumption
  <1>2. BYTE \in Nat \ {0} /\ IMBASE \in Nat \ {0}
    BY <1>1, PowerPositive DEF BYTE, IMBASE
  <1>3. HalfMod \in Nat \ {0} /\ Modulus \in Nat \ {0}
    BY <1>1, <1>2, PowerPositive DEF HalfMod, Modulus
  <1>4. Modulus = HalfMod * HalfMod
    BY <1>1, <1>2, PowerPlus DEF HalfMod, Modulus
  <1>5. Bits \in Nat \ {0}
    BY <1>1, Product DEF Bits
  <1>6. Modulus = 2 ** Bits
    BY <1>1, PowerPower DEF Modulus, BYTE, Bits
  <1> QED
    BY <1>1, <1>2, <1>3, <1>4, <1>5, <1>6 DEF Bits

-----------------------------------------------------------------------------
\* The word of a sequence of bits.
AreBits(d) == \A k \in 0 .. Bits - 1 : d[k] \in {0, 1}

IsHorner(f, d) == f = [k \in 0 .. Bits |-> IF k = 0 THEN 0 ELSE 2 * f[k - 1] + d[Bits - k]]

LEMMA HornerExists ==
    ASSUME NEW d, AreBits(d)
    PROVE  \E f : IsHorner(f, d)
  <1> DEFINE e(n) == IF n < Bits THEN d[Bits - (n + 1)] ELSE 0
             step == [n \in Nat |-> [v \in Nat |-> 2 * v + e(n)]]
  <1>1. Bits \in Nat
    BY WordConstants
  <1>2. ASSUME NEW n \in Nat PROVE e(n) \in {0, 1}
    <2>1. n < Bits => Bits - (n + 1) \in 0 .. Bits - 1
      BY <1>1
    <2> QED
      BY <2>1 DEF AreBits
  <1>3. \A n \in Nat : n < Bits => e(n) = d[Bits - (n + 1)]
    OBVIOUS
  <1> HIDE DEF e
  <1>4. step \in [Nat -> [Nat -> Nat]] /\ \A n, v \in Nat : step[n][v] = 2 * v + e(n)
    BY <1>2
  <1> HIDE DEF step
  <1>5. PICK g : Recursive(g, Nat, 0, step)
    BY <1>4, Recursion
  <1> DEFINE f == [k \in 0 .. Bits |-> g[k]]
  <1>6. ASSUME NEW k \in 0 .. Bits
        PROVE  g[k] = IF k = 0 THEN 0 ELSE 2 * f[k - 1] + d[Bits - k]
    <2>1. CASE k = 0
      BY <1>5, <2>1 DEF Recursive
    <2>2. CASE k # 0
      <3>1. k - 1 \in Nat /\ (k - 1) + 1 = k /\ k - 1 < Bits /\ k - 1 \in 0 .. Bits
        BY <1>1, <2>2
      <3>2. g[k] = step[k - 1][g[k - 1]] /\ g[k - 1] \in Nat
        BY <1>5, <3>1 DEF Recursive
      <3>3. e(k - 1) = d[Bits - k]
        BY <1>3, <3>1
      <3>4. f[k - 1] = g[k - 1]
        BY <3>1
      <3> QED
        BY <1>4, <2>2, <3>1, <3>2, <3>3, <3>4
    <2> QED
      BY <2>1, <2>2
  <1>7. IsHorner(f, d)
    BY <1>6 DEF IsHorner
  <1> QED
    BY <1>7

LEMMA FromBitsFunction ==
    ASSUME NEW d, AreBits(d)
    PROVE  \E f : IsHorner(f, d) /\ FromBits(d) = f[Bits]
  <1> DEFINE g == CHOOSE f : IsHorner(f, d)
  <1>1. FromBits(d) = g[Bits]
    BY DEF FromBits, IsHorner
  <1>2. IsHorner(g, d)
    BY HornerExists
  <1> QED
    BY <1>1, <1>2

LEMMA FromBitsWord ==
    ASSUME NEW d, AreBits(d)
    PROVE  FromBits(d) \in Words
  <1>1. Bits \in Nat
    BY WordConstants
  <1>2. PICK f : IsHorner(f, d) /\ FromBits(d) = f[Bits]
    BY FromBitsFunction
  <1>3. \A k \in 0 .. Bits : f[k] = IF k = 0 THEN 0 ELSE 2 * f[k - 1] + d[Bits - k]
    BY <1>2 DEF IsHorner
  <1> DEFINE T == {k \in Nat : k =< Bits => f[k] \in 0 .. (2 ** k) - 1}
  <1>4. 0 \in T
    <2>1. 2 ** 0 = 1
      BY PowerZero
    <2> QED
      BY <1>1, <1>3, <2>1
  <1>5. ASSUME NEW k \in T PROVE k + 1 \in T
    <2> SUFFICES ASSUME k + 1 =< Bits PROVE f[k + 1] \in 0 .. (2 ** (k + 1)) - 1
      OBVIOUS
    <2>1. k + 1 \in 0 .. Bits /\ k + 1 # 0 /\ (k + 1) - 1 = k /\ Bits - (k + 1) \in 0 .. Bits - 1
      BY <1>1
    <2>2. f[k + 1] = 2 * f[k] + d[Bits - (k + 1)]
      BY <1>3, <2>1
    <2>3. d[Bits - (k + 1)] \in {0, 1}
      BY <2>1 DEF AreBits
    <2>4. f[k] \in 0 .. (2 ** k) - 1
      BY <1>1
    <2>5. 2 ** (k + 1) = 2 * (2 ** k) /\ 2 ** k \in Nat
      BY PowerStep
    <2> QED
      BY <2>2, <2>3, <2>4, <2>5
  <1>6. T \in SUBSET Nat
    OBVIOUS
  <1> HIDE DEF T
  <1>7. \A k \in Nat : k \in T
    BY <1>4, <1>5, <1>6, EveryNat
  <1>8. f[Bits] \in 0 .. (2 ** Bits) - 1
    BY <1>1, <1>7 DEF T
  <1> QED
    BY <1>2, <1>8, WordConstants DEF Words

LEMMA BitIsBit ==
    ASSUME NEW w \in Int, NEW k \in Nat
    PROVE  Bit(w, k) \in {0, 1}
  <1>1. 2 ** k \in Nat \ {0}
    BY PowerPositive
  <1>2. w \div (2 ** k) \in Int
    BY <1>1, Division
  <1> QED
    BY <1>2 DEF Bit

LEMMA LogicWords ==
    ASSUME NEW a \in Int, NEW b \in Int
    PROVE  (a & b) \in Words /\ (a | b) \in Words /\ (a ^^ b) \in Words /\ flip(a) \in Words
  <1>1. \A k \in 0 .. Bits - 1 : k \in Nat /\ Bits - 1 - k \in Nat
    BY WordConstants
  <1>2. \A k \in 0 .. Bits - 1 : Bit(a, k) \in {0, 1} /\ Bit(b, k) \in {0, 1}
    BY <1>1, BitIsBit
  <1> DEFINE d == [k \in 0 .. Bits - 1 |-> Bit(a, k) * Bit(b, k)]
             e == [k \in 0 .. Bits - 1 |-> Truth(Bit(a, k) + Bit(b, k) > 0)]
             f == [k \in 0 .. Bits - 1 |-> (Bit(a, k) + Bit(b, k)) % 2]
             g == [k \in 0 .. Bits - 1 |-> Bit(a, Bits - 1 - k)]
  <1>3. AreBits(d)
    <2>1. ASSUME NEW k \in 0 .. Bits - 1 PROVE Bit(a, k) * Bit(b, k) \in {0, 1}
      <3>1. Bit(a, k) = 0 \/ Bit(a, k) = 1
        BY <1>2
      <3>2. Bit(b, k) = 0 \/ Bit(b, k) = 1
        BY <1>2
      <3> QED
        BY <3>1, <3>2
    <2> QED
      BY <2>1 DEF AreBits
  <1>4. AreBits(e)
    BY DEF AreBits, Truth
  <1>5. AreBits(f)
    <2>1. ASSUME NEW k \in 0 .. Bits - 1 PROVE (Bit(a, k) + Bit(b, k)) % 2 \in {0, 1}
      BY <1>2
    <2> QED
      BY <2>1 DEF AreBits
  <1>6. AreBits(g)
    <2>1. ASSUME NEW k \in 0 .. Bits - 1 PROVE Bit(a, Bits - 1 - k) \in {0, 1}
      BY <1>1, BitIsBit
    <2> QED
      BY <2>1 DEF AreBits
  <1>7. (a & b) = FromBits(d)
    BY DEF &
  <1>8. (a | b) = FromBits(e)
    BY DEF |
  <1>9. (a ^^ b) = FromBits(f)
    BY DEF ^^
  <1>10. flip(a) = FromBits(g)
    BY DEF flip
  <1> HIDE DEF d, e, f, g
  <1> QED
    BY <1>3, <1>4, <1>5, <1>6, <1>7, <1>8, <1>9, <1>10, FromBitsWord


-----------------------------------------------------------------------------
LEMMA WrapWord ==
    ASSUME NEW n \in Int
    PROVE  Wrap(n) \in Words
  BY WordConstants, Division DEF Wrap, Words

LEMMA SignedInt ==
    ASSUME NEW w \in Words
    PROVE  Signed(w) \in Int
  BY WordConstants DEF Signed, Words

LEMMA TruthWord ==
    ASSUME NEW b
    PROVE  Truth(b) \in Words
  <1>1. Modulus >= 2
    <2>1. Modulus = 2 ** ((Bits - 1) + 1) /\ Bits - 1 \in Nat
      BY WordConstants
    <2>2. Modulus = 2 * (2 ** (Bits - 1)) /\ 2 ** (Bits - 1) \in Nat
      BY <2>1, PowerStep
    <2> QED
      BY <2>2, WordConstants
  <1> QED
    BY <1>1, WordConstants DEF Truth, Words

LEMMA QuotientInt ==
    ASSUME NEW a \in Int, NEW b \in Int, b # 0
    PROVE  Quotient(a, b) \in Int
  <1>1. Abs(a) \in Nat /\ Abs(b) \in Nat \ {0}
    BY DEF Abs
  <1>2. Abs(a) \div Abs(b) \in Int
    BY <1>1, Division
  <1> QED
    BY <1>2 DEF Quotient

LEMMA UnaryWord ==
    ASSUME NEW o \in UnaryOps, NEW t \in Words
    PROVE  Unary(o, t) \in Words
  <1>1. t \in Int /\ Modulus \in Nat \ {0} /\ Words = 0 .. Modulus - 1
    BY WordConstants DEF Words
  <1>2. CASE o = "NOT"
    BY <1>1, <1>2 DEF Unary, Words
  <1>3. CASE o = "NEG"
    <2>1. Wrap(-t) \in Words
      BY <1>1, WrapWord
    <2> QED
      BY <1>3, <2>1 DEF Unary
  <1>4. CASE o = "FLIP"
    <2>1. flip(t) \in Words
      BY <1>1, LogicWords
    <2> QED
      BY <1>4, <2>1 DEF Unary
  <1>5. CASE o = "SWAP"
    <2> DEFINE h == t \div HalfMod
               l == t % HalfMod
    <2>1. h \in Int /\ l \in 0 .. HalfMod - 1 /\ t = HalfMod * h + l /\ HalfMod \in Nat \ {0}
      BY <1>1, WordConstants, Division
    <2>2. Unary(o, t) = h + HalfMod * l
      BY <1>5 DEF Unary
    <2> HIDE DEF h, l
    <2>3. h >= 0
      BY <1>1, <2>1, Z3
    <2>4. h < HalfMod
      <3>1. HalfMod * h < HalfMod * HalfMod
        BY <1>1, <2>1, WordConstants
      <3> QED
        BY <2>1, <3>1, Z3
    <2>5. l * HalfMod + h \in 0 .. HalfMod * HalfMod - 1
      BY <2>1, <2>3, <2>4, TwoDigits
    <2>6. l * HalfMod + h = h + HalfMod * l
      BY <2>1
    <2> QED
      BY <1>1, <2>2, <2>5, <2>6, WordConstants
  <1> QED
    BY <1>2, <1>3, <1>4, <1>5 DEF UnaryOps

LEMMA LessQuotient ==
    ASSUME NEW a \in Nat, NEW m \in Nat \ {0}
    PROVE  a \div m \in 0 .. a
  <1> DEFINE q == a \div m
             r == a % m
  <1>1. q \in Int /\ r \in 0 .. m - 1 /\ a = m * q + r
    BY Division
  <1> HIDE DEF q, r
  <1>2. q >= 0
    BY <1>1, Z3
  <1>3. q =< m * q
    BY <1>1, <1>2, Z3
  <1>4. m * q \in Int
    BY <1>1
  <1> QED
    BY <1>1, <1>2, <1>3, <1>4 DEF q

LEMMA ShiftWord ==
    ASSUME NEW o \in Shifts, NEW t \in Words, NEW n \in Words
    PROVE  Binary(o, t, n) \in Words
  <1>1. t \in Nat /\ n \in Nat /\ n < Modulus /\ Modulus \in Nat \ {0}
    BY WordConstants DEF Words
  <1> DEFINE a == 2 ** Amount(t)
  <1>2. a \in Nat \ {0}
    <2> DEFINE m == 2 * Bits
    <2>1. m \in Nat \ {0} /\ Amount(t) = t % m
      BY WordConstants DEF Amount
    <2> HIDE DEF m
    <2>2. Amount(t) \in Nat
      BY <1>1, <2>1, Division
    <2> QED
      BY <2>2, PowerPositive
  <1>3. CASE o = "LSHIFTRIGHT"
    <2>1. Binary(o, t, n) = n \div a
      BY <1>3 DEF Binary
    <2> HIDE DEF a
    <2>2. n \div a \in 0 .. n
      BY <1>1, <1>2, LessQuotient
    <2> QED
      BY <1>1, <2>1, <2>2 DEF Words
  <1>4. CASE o = "ASHIFTLEFT"
    <2>1. Binary(o, t, n) = Wrap(n * a)
      BY <1>4 DEF Binary
    <2> HIDE DEF a
    <2> QED
      BY <1>1, <1>2, <2>1, WrapWord
  <1>5. CASE o = "ASHIFTRIGHT"
    <2>1. Binary(o, t, n) = Wrap(Signed(n) \div a)
      BY <1>5 DEF Binary
    <2> HIDE DEF a
    <2>2. Signed(n) \div a \in Int
      BY <1>2, SignedInt, Division
    <2> QED
      BY <2>1, <2>2, WrapWord
  <1> QED
    BY <1>3, <1>4, <1>5 DEF Shifts

LEMMA DivisionWord ==
    ASSUME NEW o \in Divisions, NEW t \in Words, NEW n \in Words, ~Undivided(t, n)
    PROVE  Binary(o, t, n) \in Words
  <1> DEFINE a == Signed(t)
             b == Signed(n)
             q == Quotient(a, b)
  <1>1. a \in Int /\ b \in Int
    BY SignedInt
  <1>2. b # 0
    <2>1. n \in Nat /\ n < Modulus /\ Modulus \in Nat \ {0} /\ n # 0
      BY WordConstants DEF Words, Undivided
    <2> QED
      BY <2>1 DEF Signed
  <1>3. q \in Int
    BY <1>1, <1>2, QuotientInt
  <1>4. Binary("DIV", t, n) = Wrap(q) /\ Binary("MOD", t, n) = Wrap(a - b * q)
    BY DEF Binary
  <1> HIDE DEF a, b, q
  <1>5. b * q \in Int
    BY <1>1, <1>3
  <1>6. Wrap(q) \in Words /\ Wrap(a - b * q) \in Words
    BY <1>1, <1>3, <1>5, WrapWord
  <1> QED
    BY <1>4, <1>6 DEF Divisions

LEMMA Logic ==
    ASSUME NEW t, NEW n
    PROVE  /\ Binary("AND", t, n) = t & n
           /\ Binary("OR", t, n) = t | n
           /\ Binary("XOR", t, n) = t ^^ n
  BY DEF Binary

LEMMA Sums ==
    ASSUME NEW t, NEW n
    PROVE  /\ Binary("ADD", t, n) = Wrap(t + n)
           /\ Binary("SUB", t, n) = Wrap(n - t)
           /\ Binary("MULT", t, n) = Wrap(Signed(t) * Signed(n))
           /\ Binary("MULT16X16", t, n) = (n % HalfMod) * (t % HalfMod)
  BY DEF Binary

Comparisons == {"LESSTHAN", "LESSTHANOREQUAL", "ULESSTHAN", "ULESSTHANOREQUAL", "EQ", "NEQ"}

LEMMA Compared ==
    ASSUME NEW o \in Comparisons, NEW t, NEW n
    PROVE  \E b : Binary(o, t, n) = Truth(b)
  <1>1. CASE o = "LESSTHAN"
    BY <1>1 DEF Binary
  <1>2. CASE o = "LESSTHANOREQUAL"
    BY <1>2 DEF Binary
  <1>3. CASE o = "ULESSTHAN"
    BY <1>3 DEF Binary
  <1>4. CASE o = "ULESSTHANOREQUAL"
    BY <1>4 DEF Binary
  <1>5. CASE o = "EQ"
    BY <1>5 DEF Binary
  <1>6. CASE o = "NEQ"
    BY <1>6 DEF Binary
  <1> QED
    BY <1>1, <1>2, <1>3, <1>4, <1>5, <1>6 DEF Comparisons

LEMMA BinaryWord ==
    ASSUME NEW o \in BinaryOps, NEW t \in Words, NEW n \in Words
    PROVE  Binary(o, t, n) \in Words
  <1>1. t \in Int /\ n \in Int
    BY WordConstants DEF Words
  <1>2. CASE o \in {"AND", "OR", "XOR"}
    <2>1. (t & n) \in Words /\ (t | n) \in Words /\ (t ^^ n) \in Words
      BY <1>1, LogicWords
    <2> QED
      BY <1>2, <2>1, Logic
  <1>3. CASE o \in {"ADD", "SUB", "MULT"}
    <2>1. Wrap(t + n) \in Words /\ Wrap(n - t) \in Words
      BY <1>1, WrapWord
    <2>2. Signed(t) \in Int /\ Signed(n) \in Int
      BY SignedInt
    <2>3. Signed(t) * Signed(n) \in Int
      BY <2>2
    <2>4. Wrap(Signed(t) * Signed(n)) \in Words
      BY <2>3, WrapWord
    <2> QED
      BY <1>3, <2>1, <2>4, Sums
  <1>4. CASE o = "MULT16X16"
    <2> DEFINE a == n % HalfMod
               b == t % HalfMod
    <2>1. a \in 0 .. HalfMod - 1 /\ b \in 0 .. HalfMod - 1 /\ HalfMod \in Nat \ {0}
      BY <1>1, WordConstants, Division
    <2>2. Binary("MULT16X16", t, n) = a * b
      BY Sums
    <2> HIDE DEF a, b
    <2>3. a * HalfMod + b \in 0 .. HalfMod * HalfMod - 1
      BY <2>1, TwoDigits
    <2>4. a * b \in Nat /\ a * b =< a * HalfMod /\ a * HalfMod \in Nat
      BY <2>1, Z3
    <2>5. a * b \in 0 .. HalfMod * HalfMod - 1
      BY <2>1, <2>3, <2>4
    <2> QED
      BY <1>4, <2>2, <2>5, WordConstants DEF Words
  <1>5. CASE o \in Comparisons
    BY <1>5, Compared, TruthWord
  <1> QED
    BY <1>2, <1>3, <1>4, <1>5 DEF BinaryOps, Comparisons


-----------------------------------------------------------------------------
(***************************************************************************)
(* Part 5.  The cached top of the stack.                                   *)
(***************************************************************************)
LEMMA CellForm ==
    ASSUME NEW c
    PROVE  c \in Cells <=> \E k \in 0 .. (MemSize \div WORD) - 1 : c = WORD * k
  BY DEF Cells, Stack!Cells

LEMMA MemoryConstants ==
    /\ WORD \in Nat \ {0} /\ MemSize \in Nat \ {0}
    /\ (MemSize \div WORD) \in Nat \ {0} /\ MemSize = WORD * (MemSize \div WORD)
    /\ MemSize =< Modulus
  <1> DEFINE m == MemSize \div WORD
             n == Modulus \div MemSize
  <1>1. WORD \in Nat \ {0} /\ MemSize \in Nat \ {0} /\ MemSize % WORD = 0 /\ Modulus % MemSize = 0
        /\ Modulus \in Nat \ {0}
    BY ZpuAssumption, WordConstants
  <1>2. m \in Int /\ MemSize = WORD * m
    BY <1>1, Division
  <1>3. n \in Int /\ Modulus = MemSize * n
    BY <1>1, Division
  <1> HIDE DEF m, n
  <1>4. m > 0
    BY <1>1, <1>2, Z3
  <1>5. n > 0
    BY <1>1, <1>3, Z3
  <1>6. MemSize =< MemSize * n
    BY <1>1, <1>3, <1>5, Product
  <1> QED
    BY <1>1, <1>2, <1>3, <1>4, <1>6 DEF m

LEMMA CellIsWord ==
    ASSUME NEW c \in Cells
    PROVE  c \in Nat /\ c < MemSize /\ c \in Words
  <1> DEFINE m == MemSize \div WORD
  <1>1. PICK k \in 0 .. m - 1 : c = WORD * k
    BY CellForm
  <1>2. WORD \in Nat \ {0} /\ m \in Nat \ {0} /\ MemSize = WORD * m /\ MemSize =< Modulus
    BY MemoryConstants
  <1> HIDE DEF m
  <1>3. c \in Nat /\ c < MemSize
    BY <1>1, <1>2, Z3
  <1>4. MemSize \in Nat /\ Modulus \in Nat
    BY MemoryConstants, WordConstants
  <1> QED
    BY <1>2, <1>3, <1>4 DEF Words

LEMMA CellOfCell ==
    ASSUME NEW c \in Cells
    PROVE  Stack!CellOf(c) = c
  <1>1. c \in 0 .. MemSize - 1 /\ MemSize \in Nat \ {0} /\ WORD \in Nat \ {0}
    BY CellIsWord, MemoryConstants
  <1>2. PICK k \in Nat : c = WORD * k
    BY CellForm
  <1>3. c % MemSize = c
    BY <1>1, Small
  <1>4. (WORD * k + 0) % WORD = 0
    BY <1>1, QuotientIs
  <1>5. c % WORD = 0
    BY <1>1, <1>2, <1>4
  <1> QED
    BY <1>1, <1>3, <1>5 DEF Stack!CellOf

LEMMA CellOfIsCell ==
    ASSUME NEW a \in Nat
    PROVE  Stack!CellOf(a) \in Cells
  <1> DEFINE m == MemSize \div WORD
             q == a \div MemSize
             r == a % MemSize
             k == r \div WORD
             s == r % WORD
  <1>1. WORD \in Nat \ {0} /\ m \in Nat \ {0} /\ MemSize = WORD * m /\ MemSize \in Nat \ {0}
    BY MemoryConstants
  <1>2. q \in Int /\ r \in 0 .. MemSize - 1 /\ a = MemSize * q + r
    BY <1>1, Division
  <1>3. Stack!CellOf(a) = r - (a % WORD)
    BY DEF Stack!CellOf
  <1> HIDE DEF q, r
  <1>4. k \in Int /\ s \in 0 .. WORD - 1 /\ r = WORD * k + s
    BY <1>1, <1>2, Division
  <1> HIDE DEF k, s, m
  <1>5. a = WORD * (m * q + k) + s /\ m * q + k \in Int
    <2>1. MemSize * q = WORD * (m * q) /\ m * q \in Int
      BY <1>1, <1>2, Z3
    <2> DEFINE mq == m * q
    <2> HIDE DEF mq
    <2>2. WORD * (mq + k) = WORD * mq + WORD * k
      BY <1>1, <1>2, <1>4, <2>1 DEF mq
    <2>3. MemSize * q = WORD * mq /\ mq \in Int
      BY <2>1 DEF mq
    <2> DEFINE x == WORD * mq
               y == WORD * k
    <2>4. x \in Int /\ y \in Int /\ WORD * (mq + k) = x + y /\ mq + k \in Int
      BY <1>1, <1>4, <2>2, <2>3
    <2>5. MemSize * q = x /\ r = y + s /\ s \in Int
      BY <1>4, <2>3
    <2> HIDE DEF x, y
    <2>6. a = WORD * (mq + k) + s
      BY <1>2, <2>4, <2>5
    <2> QED
      BY <2>4, <2>6 DEF mq
  <1>6. a % WORD = s
    BY <1>1, <1>4, <1>5, QuotientIs
  <1>7. r - s = WORD * k
    BY <1>1, <1>2, <1>4
  <1>8. k \in 0 .. m - 1
    <2>1. WORD * k < WORD * m /\ WORD * k > -WORD
      BY <1>1, <1>2, <1>4
    <2>2. k < m
      BY <1>1, <1>4, <2>1, Z3
    <2>3. k > -1
      BY <1>1, <1>4, <2>1, Z3
    <2> QED
      BY <1>1, <1>4, <2>2, <2>3
  <1> QED
    BY <1>3, <1>6, <1>7, <1>8, CellForm DEF m

\* There is a cell between two cells.
LEMMA CellBetween ==
    ASSUME NEW c \in Cells, c + 2 * WORD \in Cells
    PROVE  c + WORD \in Cells
  <1> DEFINE m == MemSize \div WORD
  <1>1. WORD \in Nat \ {0} /\ m \in Nat \ {0}
    BY MemoryConstants
  <1>2. PICK i \in 0 .. m - 1 : c = WORD * i
    BY CellForm
  <1>3. PICK j \in 0 .. m - 1 : c + 2 * WORD = WORD * j
    BY CellForm
  <1> HIDE DEF m
  <1>4. WORD * i < WORD * j
    BY <1>1, <1>2, <1>3
  <1>5. i < j
    BY <1>1, <1>4, Z3
  <1>6. WORD * (i + 1) = c + WORD /\ WORD * (i + 1) < WORD * j
    BY <1>1, <1>2, <1>3
  <1>7. i + 1 \in 0 .. m - 1
    BY <1>1, <1>5
  <1> QED
    BY <1>6, <1>7, CellForm DEF m

-----------------------------------------------------------------------------
\* The bytes and halves of a word.
\* The abstract machine has the arithmetic of the emulator.
LEMMA StackArith ==
    ASSUME NEW b, NEW n
    PROVE  /\ Stack!**(b, n) = b ** n
           /\ Stack!BYTE = BYTE /\ Stack!Modulus = Modulus /\ Stack!HalfMod = HalfMod
           /\ Stack!Words = Words /\ Stack!Wrap(n) = Wrap(n) /\ Stack!Signed(n) = Signed(n)
  BY DEF Stack!**, **, Stack!BYTE, BYTE, Stack!Modulus, Modulus, Stack!HalfMod, HalfMod,
         Stack!Words, Words, Stack!Wrap, Wrap, Stack!Signed, Signed

LEMMA ScaleParts ==
    ASSUME NEW a \in Nat, NEW n \in {1, HALF}, Stack!Aligned(a, n)
    PROVE  \E t \in Nat \ {0} :
              /\ Stack!Scale(a, n) \in Nat \ {0} /\ BYTE ** n \in Nat \ {0}
              /\ Modulus = Stack!Scale(a, n) * ((BYTE ** n) * t)
  <1> DEFINE s == a % WORD
             e == WORD - (n + s)
  <1>0. WORD = 2 * HALF
    BY WordConstants
  <1>1. WORD \in Nat \ {0} /\ HALF \in Nat \ {0} /\ BYTE \in Nat \ {0} /\ a \in Int
    BY WordConstants
  <1>2. s \in 0 .. WORD - 1 /\ n \in Nat \ {0}
    BY <1>1, Division
  <1>3. n + s =< WORD
    <2>1. CASE n = 1
      BY <1>1, <1>2, <2>1
    <2>2. CASE n = HALF
      <3> DEFINE q == a \div WORD
                 h == a \div HALF
      <3>1. q \in Int /\ a = WORD * q + s
        BY <1>1, Division
      <3>2. h \in Int /\ a = HALF * h + (a % HALF)
        BY <1>1, Division
      <3>3. a % HALF = 0
        BY <2>2 DEF Stack!Aligned
      <3> HIDE DEF q, s, h
      <3>4. s = HALF * (h - 2 * q)
        BY <1>0, <1>1, <1>2, <3>1, <3>2, <3>3
      <3>5. HALF * (h - 2 * q) < HALF * 2
        BY <1>0, <1>1, <1>2, <3>4
      <3>6. h - 2 * q < 2
        <4> DEFINE d == h - 2 * q
        <4>1. d \in Int /\ HALF * d < HALF * 2
          BY <3>1, <3>2, <3>5
        <4> HIDE DEF d
        <4>2. d < 2
          BY <1>1, <4>1, Z3
        <4> QED
          BY <4>2 DEF d
      <3>7. h - 2 * q =< 1 /\ h - 2 * q \in Int
        BY <3>1, <3>2, <3>6
      <3>8. HALF * (h - 2 * q) =< HALF
        BY <1>1, <3>7, Z3
      <3> QED
        BY <1>0, <1>1, <1>2, <2>2, <3>4, <3>8
    <2> QED
      BY <2>1, <2>2
  <1>4. e \in Nat /\ Stack!Scale(a, n) = BYTE ** e
    <2>1. e \in Nat
      BY <1>1, <1>2, <1>3
    <2> QED
      BY <2>1, StackArith DEF Stack!Scale
  <1> HIDE DEF e
  <1>5. WORD = e + (n + s) /\ n + s \in Nat
    BY <1>1, <1>2 DEF e
  <1> HIDE DEF s
  <1>6. Modulus = (BYTE ** e) * (BYTE ** (n + s))
    <2> DEFINE k == n + s
    <2>1. k \in Nat /\ Modulus = BYTE ** (e + k) /\ BYTE \in Nat
      BY <1>1, <1>5 DEF Modulus
    <2> HIDE DEF k
    <2>2. BYTE ** (e + k) = (BYTE ** e) * (BYTE ** k)
      BY <1>4, <2>1, PowerPlus
    <2> QED
      BY <2>1, <2>2 DEF k
  <1>7. BYTE ** (n + s) = (BYTE ** n) * (BYTE ** s)
    BY <1>1, <1>2, PowerPlus
  <1>8. BYTE ** e \in Nat \ {0} /\ BYTE ** n \in Nat \ {0} /\ BYTE ** s \in Nat \ {0}
    BY <1>1, <1>2, <1>4, PowerPositive
  <1> QED
    BY <1>4, <1>6, <1>7, <1>8

LEMMA PartWord ==
    ASSUME NEW a \in Nat, NEW n \in {1, HALF}, Stack!Aligned(a, n), NEW w \in Words
    PROVE  Stack!PartOf(w, a, n) \in Words
  <1> DEFINE x == Stack!Scale(a, n)
             y == BYTE ** n
             d == w \div x
  <1>1. x \in Nat \ {0} /\ y \in Nat \ {0}
    BY ScaleParts
  <1>2. w \in Nat /\ w < Modulus /\ Modulus \in Nat
    BY WordConstants DEF Words
  <1>3. Stack!PartOf(w, a, n) = d % y
    BY StackArith DEF Stack!PartOf
  <1> HIDE DEF x, y
  <1>4. d \in 0 .. w
    BY <1>1, <1>2, LessQuotient
  <1> HIDE DEF d
  <1>5. d \in Nat
    BY <1>2, <1>4
  <1>6. d % y \in 0 .. d
    <2>1. d \div y \in 0 .. d
      BY <1>1, <1>5, LessQuotient
    <2>2. d % y \in 0 .. y - 1 /\ d = y * (d \div y) + (d % y)
      BY <1>1, <1>5, Division
    <2> DEFINE q == d \div y
               r == d % y
    <2> HIDE DEF q, r
    <2>3. q \in Nat /\ r \in Nat /\ d = y * q + r
      BY <1>1, <1>5, <2>1, <2>2 DEF q, r
    <2>4. y * q \in Nat
      BY <1>1, <2>3
    <2>5. r \in 0 .. d
      BY <1>5, <2>3, <2>4
    <2> QED
      BY <2>5 DEF r
  <1> QED
    BY <1>2, <1>3, <1>4, <1>5, <1>6 DEF Words

LEMMA WithPartWord ==
    ASSUME NEW a \in Nat, NEW n \in {1, HALF}, Stack!Aligned(a, n),
           NEW w \in Words, NEW v \in Words
    PROVE  Stack!WithPart(w, a, n, v) \in Words
  <1> DEFINE x == Stack!Scale(a, n)
             y == BYTE ** n
             d == w \div x
             r == w % x
             p == d % y
             q == d \div y
             u == v % y
  <1>1. PICK t \in Nat \ {0} : x \in Nat \ {0} /\ y \in Nat \ {0} /\ Modulus = x * (y * t)
    BY ScaleParts
  <1>2. w \in Nat /\ w < Modulus /\ Modulus \in Nat /\ v \in Int
    BY WordConstants DEF Words
  <1>3. Stack!WithPart(w, a, n, v) = w + x * (u - p)
    BY StackArith DEF Stack!WithPart, Stack!PartOf
  <1> HIDE DEF x, y
  <1>4. d \in Int /\ r \in 0 .. x - 1 /\ w = x * d + r
    BY <1>1, <1>2, Division
  <1>5. u \in 0 .. y - 1
    BY <1>1, <1>2, Division
  <1> HIDE DEF d, r, u
  <1>6. q \in Int /\ p \in 0 .. y - 1 /\ d = y * q + p
    BY <1>1, <1>4, Division
  <1> HIDE DEF q, p
  <1>7. d >= 0
    BY <1>1, <1>2, <1>4, Z3
  <1>8. q >= 0
    BY <1>1, <1>6, <1>7, Z3
  <1> DEFINE yt == y * t
  <1>9. yt \in Nat /\ Modulus = x * yt
    BY <1>1
  <1> HIDE DEF yt
  <1>10. d < yt
    <2>1. x * d < x * yt
      <3>1. x * d \in Int /\ x * d =< w
        BY <1>1, <1>4
      <3> QED
        BY <1>2, <1>9, <3>1
    <2> QED
      BY <1>1, <1>4, <1>9, <2>1, Z3
  <1>11. q < t
    <2>1. y * q \in Int /\ y * q =< d
      BY <1>1, <1>6
    <2>2. y * q < y * t
      BY <1>4, <1>9, <1>10, <2>1 DEF yt
    <2> QED
      BY <1>1, <1>6, <2>2, Z3
  <1> DEFINE k == q * y + u
  <1>12. k \in 0 .. yt - 1
    BY <1>1, <1>5, <1>6, <1>8, <1>11, TwoDigits DEF yt
  <1>13. k = d + (u - p)
    BY <1>1, <1>4, <1>5, <1>6
  <1> HIDE DEF k
  <1>14. x * d + x * (u - p) = x * k
    BY <1>1, <1>4, <1>5, <1>6, <1>13
  <1>15. w + x * (u - p) = k * x + r
    <2>1. x * k = k * x /\ x * d \in Int /\ x * (u - p) \in Int
      BY <1>1, <1>4, <1>5, <1>6, <1>9, <1>12
    <2> QED
      BY <1>4, <1>14, <2>1
  <1>16. yt \in Nat \ {0}
    BY <1>9, <1>12
  <1>17. k * x + r \in 0 .. x * yt - 1
    BY <1>1, <1>4, <1>12, <1>16, TwoDigits
  <1> QED
    BY <1>3, <1>9, <1>15, <1>17 DEF Words


-----------------------------------------------------------------------------
(***************************************************************************)
(* The instructions.                                                       *)
(***************************************************************************)
ZpuTyped ==
    /\ sp \in StackCells
    /\ tos \in Words /\ pc \in Words
    /\ memory \in [Cells -> Words]

\* The memory with the top in its cell: that of the abstract machine.
WithTop == [memory EXCEPT ![sp] = tos]

LEMMA WithTopCells ==
    ASSUME ZpuTyped
    PROVE  /\ WithTop[sp] = tos
           /\ \A c \in Cells : c # sp => WithTop[c] = memory[c]
           /\ sp \in Cells /\ sp # 0 /\ sp \in Nat /\ WORD \in Nat \ {0} /\ 0 \in Cells
  <1>1. sp \in Cells /\ sp # 0
    BY DEF ZpuTyped, StackCells, Stack!StackCells, Cells
  <1>2. 0 \in Cells
    <2>1. 0 \in 0 .. (MemSize \div WORD) - 1 /\ WORD * 0 = 0
      BY MemoryConstants
    <2> QED
      BY <2>1, CellForm
  <1> QED
    BY <1>1, <1>2, CellIsWord, MemoryConstants DEF ZpuTyped, WithTop

LEMMA WithTopCellsNext ==
    ASSUME ZpuTyped'
    PROVE  /\ WithTop'[sp'] = tos'
           /\ \A c \in Cells : c # sp' => WithTop'[c] = memory'[c]
           /\ sp' \in Cells /\ sp' # 0 /\ sp' \in Nat
  <1>1. sp' \in Cells /\ sp' # 0
    BY DEF ZpuTyped, StackCells, Stack!StackCells, Cells
  <1> QED
    BY <1>1, CellIsWord DEF ZpuTyped, WithTop

\* One element is left in the place of those popped ...
LEMMA BecomesTop ==
    ASSUME ZpuTyped, ZpuTyped', NEW n, NEW x, NEW writes, NEW to,
           sp' = sp + WORD * (n - 1), tos' = x, pc' = to, running' = running,
           \A c \in Cells : (c = 0 \/ c >= sp') /\ c # sp' =>
               memory'[c] = IF c \in DOMAIN writes THEN writes[c] ELSE WithTop[c]
    PROVE  Stack!Becomes(n, <<x>>, writes, to)
  <1>1. Len(<<x>>) = 1 /\ <<x>>[1] = x /\ <<x>> # <<>>
    OBVIOUS
  <1>2. sp' \in Stack!StackCells
    BY DEF ZpuTyped, StackCells
  <1>3. ASSUME NEW c \in Cells, c = 0 \/ c >= sp'
        PROVE  WithTop'[c] = IF <<x>> # <<>> /\ c = sp' THEN <<x>>[1]
                           ELSE IF c \in DOMAIN writes THEN writes[c] ELSE WithTop[c]
    BY <1>1, <1>3, WithTopCellsNext
  <1> QED
    BY <1>1, <1>2, <1>3 DEF Stack!Becomes, WithTop, Cells

\* ... or none.
LEMMA BecomesNone ==
    ASSUME ZpuTyped, ZpuTyped', NEW n \in Nat, NEW writes, NEW to,
           sp' = sp + WORD * n, pc' = to, running' = running,
           \A c \in Cells : (c = 0 \/ c >= sp') =>
               WithTop'[c] = IF c \in DOMAIN writes THEN writes[c] ELSE WithTop[c]
    PROVE  Stack!Becomes(n, <<>>, writes, to)
  <1>1. Len(<<>>) = 0 /\ n - 0 = n
    OBVIOUS
  <1>2. sp' \in Stack!StackCells
    BY DEF ZpuTyped, StackCells
  <1>3. ASSUME NEW c \in Cells, c = 0 \/ c >= sp'
        PROVE  WithTop'[c] = IF <<>> # <<>> /\ c = sp' THEN <<>>[1]
                           ELSE IF c \in DOMAIN writes THEN writes[c] ELSE WithTop[c]
    BY <1>3
  <1> QED
    BY <1>1, <1>2, <1>3 DEF Stack!Becomes, WithTop, Cells


LEMMA NothingWritten == DOMAIN Stack!NoWrite = {}
  BY DEF Stack!NoWrite

LEMMA OneWritten ==
    ASSUME NEW c, NEW w
    PROVE  /\ DOMAIN Stack!Write(c, w) = {c} /\ Stack!Write(c, w)[c] = w
  BY DEF Stack!Write

LEMMA CellAbove ==
    ASSUME ZpuTyped, NEW k \in Nat, sp + WORD * k \in Cells
    PROVE  /\ popped(k) = memory[sp + WORD * k] /\ popped(k) \in Words
           /\ k # 0 => WithTop[sp + WORD * k] = memory[sp + WORD * k] /\ sp + WORD * k > sp
           /\ WithTop[sp + WORD * k] \in Words
  <1> DEFINE c == sp + WORD * k
  <1>1. c \in Cells /\ Stack!CellOf(c) = c
    BY CellOfCell
  <1>2. popped(k) = memory[c]
    BY <1>1 DEF popped, memoryReadLong
  <1>3. k # 0 => c > sp
    <2>1. k # 0 => WORD * k \in Nat \ {0}
      BY WithTopCells, Product
    <2> QED
      BY <2>1, WithTopCells
  <1> HIDE DEF c
  <1>4. memory[c] \in Words /\ tos \in Words
    BY <1>1 DEF ZpuTyped
  <1>5. k # 0 => c # sp
    BY <1>1, <1>3, WithTopCells, CellIsWord
  <1>6. k # 0 => WithTop[c] = memory[c]
    BY <1>1, <1>5, WithTopCells
  <1>7. WithTop[c] \in Words
    BY <1>1, <1>4, WithTopCells
  <1> QED
    BY <1>2, <1>3, <1>4, <1>6, <1>7 DEF c

\* The elements of the abstract stack.
LEMMA Elements ==
    ASSUME ZpuTyped
    PROVE  /\ Stack!S(0) = tos
           /\ \A k : Stack!S(k) = WithTop[sp + WORD * k]
           /\ (sp + WORD \in Cells => Stack!S(1) = popped(1) /\ popped(1) \in Words)
  <1>1. sp + WORD * 0 = sp /\ sp + WORD * 1 = sp + WORD
    BY WithTopCells
  <1>2. \A k : Stack!S(k) = WithTop[sp + WORD * k]
    BY DEF Stack!S, WithTop
  <1>3. Stack!S(0) = tos
    BY <1>1, <1>2, WithTopCells
  <1>4. ASSUME sp + WORD \in Cells PROVE Stack!S(1) = popped(1) /\ popped(1) \in Words
    <2>1. sp + WORD * 1 \in Cells /\ 1 \in Nat /\ 1 # 0
      BY <1>1, <1>4
    <2>2. popped(1) = memory[sp + WORD * 1] /\ WithTop[sp + WORD * 1] = memory[sp + WORD * 1] /\ popped(1) \in Words
      BY <2>1, CellAbove
    <2> QED
      BY <1>2, <2>2
  <1> QED
    BY <1>2, <1>3, <1>4

LEMMA PopsStep ==
    ASSUME ZpuTyped, NEW n \in Nat, NEW top \in Words, NEW mem \in [Cells -> Words],
           Pops(n, top, mem), pc' \in Words
    PROVE  ZpuTyped' /\ sp' = sp + WORD * n /\ tos' = top /\ memory' = mem /\ running' = running
  BY DEF ZpuTyped, Pops

LEMMA PushStep ==
    ASSUME ZpuTyped, NEW top \in Words, NEW to \in Words, Push(top), pc' = to
    PROVE  ZpuTyped' /\ Stack!Becomes(0, <<top>>, Stack!NoWrite, to)
  <1>1. Stack!CellOf(sp) = sp
    BY WithTopCells, CellOfCell
  <1>2. memory' = WithTop
    BY <1>1 DEF Push, memoryWriteLong, WithTop
  <1>3. WithTop \in [Cells -> Words]
    BY DEF WithTop, ZpuTyped
  <1>4. ZpuTyped'
    BY <1>2, <1>3 DEF ZpuTyped, Push
  <1>5. sp' = sp + WORD * (0 - 1)
    BY WithTopCells DEF Push
  <1> QED
    BY <1>2, <1>4, <1>5, BecomesTop, NothingWritten DEF Push

LEMMA ReplaceStep ==
    ASSUME ZpuTyped, NEW top \in Words, NEW to \in Words, Pops(0, top, memory), pc' = to
    PROVE  ZpuTyped' /\ Stack!Becomes(1, <<top>>, Stack!NoWrite, to)
  <1>1. ZpuTyped' /\ sp' = sp + WORD * 0 /\ tos' = top /\ memory' = memory /\ running' = running
    BY PopsStep DEF ZpuTyped
  <1>2. sp' = sp /\ sp' = sp + WORD * (1 - 1)
    BY <1>1, WithTopCells
  <1>3. \A c \in Cells : c # sp' => memory'[c] = WithTop[c]
    BY <1>1, <1>2, WithTopCells
  <1> QED
    BY <1>1, <1>2, <1>3, BecomesTop, NothingWritten

LEMMA CombineStep ==
    ASSUME ZpuTyped, NEW top \in Words, NEW to \in Words, Pops(1, top, memory), pc' = to
    PROVE  ZpuTyped' /\ Stack!Becomes(2, <<top>>, Stack!NoWrite, to)
  <1>1. ZpuTyped' /\ sp' = sp + WORD * 1 /\ tos' = top /\ memory' = memory /\ running' = running
    BY PopsStep DEF ZpuTyped
  <1>2. sp' > sp /\ sp' = sp + WORD * (2 - 1)
    BY <1>1, WithTopCells
  <1>3. \A c \in Cells : c = 0 \/ c >= sp' => c # sp
    BY <1>2, WithTopCells, WithTopCellsNext, <1>1, CellIsWord
  <1>4. \A c \in Cells : (c = 0 \/ c >= sp') => memory'[c] = WithTop[c]
    BY <1>1, <1>3, WithTopCells
  <1> QED
    BY <1>1, <1>2, <1>4, BecomesTop, NothingWritten

\* Elements are popped, and the cell at their end is the new top.
LEMMA DropStep ==
    ASSUME ZpuTyped, NEW n \in Nat \ {0}, NEW to \in Words, sp + WORD * n \in Cells,
           NEW mem \in [Cells -> Words], NEW writes,
           Pops(n, mem[sp + WORD * n], mem), pc' = to,
           \A c \in Cells : (c = 0 \/ c > sp) =>
               mem[c] = IF c \in DOMAIN writes THEN writes[c] ELSE WithTop[c]
    PROVE  ZpuTyped' /\ Stack!Becomes(n, <<>>, writes, to)
  <1>1. mem[sp + WORD * n] \in Words
    OBVIOUS
  <1>2. ZpuTyped' /\ sp' = sp + WORD * n /\ tos' = mem[sp'] /\ memory' = mem /\ running' = running
    BY <1>1, PopsStep
  <1>3. \A c \in Cells : WithTop'[c] = mem[c]
    BY <1>2, WithTopCellsNext
  <1>4. sp' > sp
    BY <1>2, CellAbove
  <1>5. \A c \in Cells : (c = 0 \/ c >= sp') => (c = 0 \/ c > sp)
    BY <1>2, <1>4, WithTopCells, WithTopCellsNext, CellIsWord
  <1>6. n \in Nat
    OBVIOUS
  <1> QED
    BY <1>2, <1>3, <1>5, <1>6, BecomesNone


\* A cell is written: that of the old top may get anything.
LEMMA WriteStep ==
    ASSUME ZpuTyped, NEW n \in Nat \ {0}, NEW to \in Words, sp + WORD * n \in Cells,
           NEW c \in Cells, NEW v \in Words, NEW w, c # sp => v = w, NEW mem,
           mem = [memory EXCEPT ![c] = v], Pops(n, mem[sp + WORD * n], mem), pc' = to
    PROVE  ZpuTyped' /\ Stack!Becomes(n, <<>>, Stack!Write(c, w), to)
  <1>1. mem \in [Cells -> Words] /\ mem[c] = v /\ \A x \in Cells : x # c => mem[x] = memory[x]
    BY DEF ZpuTyped
  <1>2. ASSUME NEW x \in Cells, x = 0 \/ x > sp
        PROVE  mem[x] = IF x \in DOMAIN Stack!Write(c, w) THEN Stack!Write(c, w)[x] ELSE WithTop[x]
    <2>1. x # sp
      BY <1>2, WithTopCells
    <2>2. DOMAIN Stack!Write(c, w) = {c} /\ Stack!Write(c, w)[c] = w
      BY OneWritten
    <2>3. CASE x = c
      BY <1>1, <2>1, <2>2, <2>3
    <2>4. CASE x # c
      BY <1>1, <2>1, <2>2, <2>4, WithTopCells
    <2> QED
      BY <2>3, <2>4
  <1> QED
    BY <1>1, <1>2, DropStep

LEMMA PopStep ==
    ASSUME ZpuTyped, NEW n \in Nat \ {0}, NEW to \in Words, sp + WORD * n \in Cells,
           Pops(n, popped(n), memory), pc' = to
    PROVE  ZpuTyped' /\ Stack!Becomes(n, <<>>, Stack!NoWrite, to)
  <1>1. popped(n) = memory[sp + WORD * n]
    BY CellAbove
  <1>2. memory \in [Cells -> Words]
    BY DEF ZpuTyped
  <1>3. \A x \in Cells : x = 0 \/ x > sp => memory[x] = WithTop[x]
    BY WithTopCells
  <1> QED
    BY <1>1, <1>2, <1>3, DropStep, NothingWritten

LEMMA ExitStep ==
    ASSUME ZpuTyped, exit
    PROVE  ZpuTyped' /\ Stack!Exit
  BY DEF ZpuTyped, exit, Stack!Exit

LEMMA StackArith2 ==
    ASSUME NEW o, NEW t, NEW n
    PROVE  /\ Stack!SignedIM(n) = SignedIM(n) /\ Stack!LongerIM(t, n) = LongerIM(t, n)
           /\ Stack!Undivided(t, n) = Undivided(t, n) /\ Stack!Shiftable(t) = Shiftable(t)
           /\ Stack!UnaryOps = UnaryOps /\ Stack!BinaryOps = BinaryOps
           /\ Stack!Shifts = Shifts /\ Stack!Divisions = Divisions
  BY DEF Stack!SignedIM, SignedIM, Stack!LongerIM, LongerIM, Stack!Undivided, Undivided,
         Stack!Shiftable, Shiftable, Stack!Amount, Amount, Stack!Bits, Bits, Stack!IMBASE, IMBASE,
         Stack!**, **, Stack!BYTE, BYTE, Stack!Modulus, Modulus, Stack!Wrap, Wrap,
         Stack!UnaryOps, UnaryOps, Stack!BinaryOps, BinaryOps, Stack!Shifts, Shifts,
         Stack!Divisions, Divisions

LEMMA StackUnary ==
    ASSUME NEW o, NEW t
    PROVE  Stack!Unary(o, t) = Unary(o, t)
  <1>1. Stack!flip(t) = flip(t)
    BY DEF Stack!flip, flip, Stack!FromBits, FromBits, Stack!Bits, Bits, Stack!Bit, Bit, Stack!**, **
  <1> QED
    BY <1>1, StackArith DEF Stack!Unary, Unary

LEMMA StackBinary ==
    ASSUME NEW o, NEW t, NEW n
    PROVE  Stack!Binary(o, t, n) = Binary(o, t, n)
  <1>1. Stack!&(t, n) = t & n
    BY DEF Stack!&, &, Stack!FromBits, FromBits, Stack!Bits, Bits, Stack!Bit, Bit, Stack!**, **
  <1>2. Stack!|(t, n) = t | n
    BY DEF Stack!|, |, Stack!FromBits, FromBits, Stack!Bits, Bits, Stack!Bit, Bit, Stack!**, **,
           Stack!Truth, Truth
  <1>3. Stack!^^(t, n) = t ^^ n
    BY DEF Stack!^^, ^^, Stack!FromBits, FromBits, Stack!Bits, Bits, Stack!Bit, Bit, Stack!**, **
  <1> QED
    BY <1>1, <1>2, <1>3 DEF Stack!Binary, Binary, Stack!Wrap, Wrap, Stack!Signed, Signed, Stack!Truth, Truth,
       Stack!Modulus, Modulus, Stack!HalfMod, HalfMod, Stack!BYTE, BYTE, Stack!**, **, Stack!Quotient, Quotient,
       Stack!Abs, Abs, Stack!Amount, Amount, Stack!Bits, Bits

LEMMA Onward ==
    ASSUME ZpuTyped
    PROVE  Stack!Next1 = Wrap(pc + 1) /\ Wrap(pc + 1) \in Words /\ Wrap(pc + tos) \in Words
  <1>1. pc \in Int /\ tos \in Int
    BY WordConstants DEF ZpuTyped, Words
  <1>2. Wrap(pc + 1) \in Words /\ Wrap(pc + tos) \in Words
    BY <1>1, WrapWord
  <1> QED
    BY <1>2, StackArith DEF Stack!Next1

LEMMA IMStep ==
    ASSUME ZpuTyped, NEW d \in Nat, IM(d)
    PROVE  ZpuTyped' /\ Stack!IM(d)
  <1>1. LongerIM(tos, d) \in Words /\ SignedIM(d) \in Words
    <2>1. tos \in Int /\ IMBASE \in Int
      BY WordConstants DEF ZpuTyped, Words
    <2>2. tos * IMBASE + d \in Int
      BY <2>1
    <2>3. (IF 2 * d >= IMBASE THEN d - IMBASE ELSE d) \in Int
      BY <2>1
    <2> QED
      BY <2>2, <2>3, WrapWord DEF LongerIM, SignedIM
  <1>2. pc' = Stack!Next1 /\ Stack!Next1 \in Words
    BY Onward DEF IM, Advance
  <1>3. CASE decodeMask
    <2>1. Pops(0, LongerIM(tos, d), memory)
      BY <1>3 DEF IM
    <2> QED
      BY <1>1, <1>2, <1>3, <2>1, ReplaceStep, Elements, StackArith2 DEF Stack!IM
  <1>4. CASE ~decodeMask
    <2>1. Push(SignedIM(d))
      BY <1>4 DEF IM
    <2> QED
      BY <1>1, <1>2, <1>4, <2>1, PushStep, StackArith2 DEF Stack!IM
  <1> QED
    BY <1>3, <1>4

LEMMA AddressStep ==
    ASSUME ZpuTyped, NEW k \in Nat
    PROVE  /\ ADDSP(k) => ZpuTyped' /\ Stack!ADDSP(k)
           /\ LOADSP(k) => ZpuTyped' /\ Stack!LOADSP(k)
           /\ STORESP(k) => ZpuTyped' /\ Stack!STORESP(k)
  <1> DEFINE c == sp + WORD * k
  <1>1. ASSUME c \in Cells
        PROVE  Addend(c) = WithTop[c] /\ WithTop[c] \in Words /\ Stack!S(k) = WithTop[c]
    <2>1. Stack!CellOf(c) = c
      BY <1>1, CellOfCell
    <2>2. WithTop[c] \in Words
      BY <1>1, CellAbove
    <2>3. Addend(c) = WithTop[c]
      BY <1>1, <2>1, WithTopCells DEF Addend, memoryReadLong
    <2> QED
      BY <2>2, <2>3, Elements
  <1>2. Stack!Next1 = Wrap(pc + 1) /\ Stack!Next1 \in Words /\ Stack!S(0) = tos
    BY Onward, Elements
  <1>3. ASSUME ADDSP(k) PROVE ZpuTyped' /\ Stack!ADDSP(k)
    <2> DEFINE s == Wrap(tos + WithTop[c])
    <2>1. c \in Cells /\ pc' = Stack!Next1
      BY <1>2, <1>3 DEF ADDSP, InRange, Advance
    <2>2. s \in Words
      <3>1. tos \in Int /\ WithTop[c] \in Int
        BY <1>1, <2>1, WordConstants DEF ZpuTyped, Words
      <3> QED
        BY <3>1, WrapWord
    <2>3. Pops(0, s, memory)
      BY <1>1, <1>3, <2>1 DEF ADDSP
    <2>4. Stack!Wrap(Stack!S(0) + Stack!S(k)) = s
      BY <1>1, <1>2, <2>1, StackArith
    <2> HIDE DEF s
    <2>5. ZpuTyped' /\ Stack!Becomes(1, <<s>>, Stack!NoWrite, Stack!Next1)
      BY <1>2, <2>1, <2>2, <2>3, ReplaceStep
    <2> QED
      BY <2>1, <2>4, <2>5 DEF Stack!ADDSP, Cells
  <1>4. ASSUME LOADSP(k) PROVE ZpuTyped' /\ Stack!LOADSP(k)
    <2>1. c \in Cells /\ pc' = Stack!Next1
      BY <1>2, <1>4 DEF LOADSP, InRange, Advance
    <2>2. memoryWriteLong(sp, tos) = WithTop
      BY WithTopCells, CellOfCell DEF memoryWriteLong, WithTop
    <2>3. Push(WithTop[c])
      BY <1>4, <2>2 DEF LOADSP
    <2>4. ZpuTyped' /\ Stack!Becomes(0, <<WithTop[c]>>, Stack!NoWrite, Stack!Next1)
      BY <1>1, <1>2, <2>1, <2>3, PushStep
    <2> QED
      BY <1>1, <2>1, <2>4 DEF Stack!LOADSP, Cells
  <1>5. ASSUME STORESP(k) PROVE ZpuTyped' /\ Stack!STORESP(k)
    <2>1. c \in Cells /\ sp + WORD \in Cells /\ pc' = Stack!Next1
      BY <1>2, <1>5 DEF STORESP, InRange, Advance
    <2> DEFINE mem == [memory EXCEPT ![c] = tos]
    <2>2. memoryWriteLong(c, tos) = mem
      BY <2>1, CellOfCell DEF memoryWriteLong
    <2>3. Pops(1, mem[sp + WORD * 1], mem)
      <3>1. sp + WORD * 1 = sp + WORD
        BY WithTopCells
      <3> QED
        BY <1>5, <2>2, <3>1 DEF STORESP
    <2>4. sp + WORD * 1 \in Cells /\ tos \in Words /\ 1 \in Nat \ {0}
      BY <2>1, WithTopCells DEF ZpuTyped
    <2>5. ZpuTyped' /\ Stack!Becomes(1, <<>>, Stack!Write(c, tos), Stack!Next1)
      BY <1>2, <2>1, <2>3, <2>4, WriteStep
    <2> QED
      BY <1>2, <2>1, <2>5 DEF Stack!STORESP, Cells
  <1> QED
    BY <1>3, <1>4, <1>5


LEMMA PushStackStep ==
    ASSUME ZpuTyped
    PROVE  /\ PUSHSP => ZpuTyped' /\ Stack!PUSHSP
           /\ PUSHPC => ZpuTyped' /\ Stack!PUSHPC
           /\ emulate => ZpuTyped' /\ Stack!CONFIG
           /\ PUSHSPADD => ZpuTyped' /\ Stack!PUSHSPADD
  <1>1. Stack!Next1 = Wrap(pc + 1) /\ Stack!Next1 \in Words /\ Stack!S(0) = tos
    BY Onward, Elements
  <1>2. sp \in Words /\ pc \in Words /\ Vector \in Words
    BY WithTopCells, CellIsWord, ZpuAssumption DEF ZpuTyped
  <1>3. ASSUME PUSHSP PROVE ZpuTyped' /\ Stack!PUSHSP
    BY <1>1, <1>2, <1>3, PushStep DEF PUSHSP, Advance, Stack!PUSHSP
  <1>4. ASSUME PUSHPC PROVE ZpuTyped' /\ Stack!PUSHPC
    BY <1>1, <1>2, <1>4, PushStep DEF PUSHPC, Advance, Stack!PUSHPC
  <1>5. ASSUME emulate PROVE ZpuTyped' /\ Stack!CONFIG
    BY <1>1, <1>2, <1>5, PushStep DEF emulate, Stack!CONFIG
  <1>6. ASSUME PUSHSPADD PROVE ZpuTyped' /\ Stack!PUSHSPADD
    <2> DEFINE s == Wrap(tos * WORD + sp)
    <2>1. s \in Words
      <3>1. tos \in Int /\ WORD \in Int /\ sp \in Int
        BY WithTopCells, WordConstants DEF ZpuTyped, Words
      <3>2. tos * WORD + sp \in Int
        BY <3>1
      <3> QED
        BY <3>2, WrapWord
    <2>2. Pops(0, s, memory) /\ pc' = Stack!Next1
      BY <1>1, <1>6 DEF PUSHSPADD, Advance
    <2>3. Stack!Wrap(Stack!S(0) * WORD + sp) = s
      BY <1>1, StackArith
    <2> HIDE DEF s
    <2> QED
      BY <1>1, <2>1, <2>2, <2>3, ReplaceStep DEF Stack!PUSHSPADD
  <1> QED
    BY <1>3, <1>4, <1>5, <1>6

LEMMA POPSPStep ==
    ASSUME ZpuTyped, POPSP
    PROVE  ZpuTyped' /\ Stack!POPSP
  <1>1. Stack!Next1 = Wrap(pc + 1) /\ Stack!Next1 \in Words /\ Stack!S(0) = tos
    BY Onward, Elements
  <1>2. tos \in StackCells /\ tos \in Cells
    BY DEF POPSP, StackCells, Stack!StackCells, Cells
  <1>3. sp' = tos /\ tos' = memory[tos] /\ memory' = memory /\ pc' = Stack!Next1 /\ running' = running
    BY <1>1, <1>2, CellOfCell DEF POPSP, memoryReadLong, Advance
  <1>4. ZpuTyped'
    BY <1>1, <1>2, <1>3 DEF ZpuTyped
  <1>5. \A c \in Cells : WithTop'[c] = memory[c]
    BY <1>3, <1>4, WithTopCellsNext
  <1>6. ASSUME NEW c \in Cells, c = 0 \/ (c >= sp' /\ c > sp) PROVE WithTop'[c] = WithTop[c]
    <2>1. c # sp
      BY <1>6, WithTopCells
    <2> QED
      BY <1>5, <2>1, WithTopCells
  <1> QED
    BY <1>1, <1>2, <1>3, <1>4, <1>6 DEF Stack!POPSP, WithTop, StackCells, Cells

\* A read of a cell below the new top finds anything, another the cell's word.
LEMMA ReadFound ==
    ASSUME ZpuTyped, NEW c \in Cells
    PROVE  memory[c] \in Stack!Found(c, sp + WORD) /\ memory[c] \in Words
  <1>1. memory[c] \in Words
    BY DEF ZpuTyped
  <1>2. ASSUME c = 0 \/ c >= sp + WORD PROVE memory[c] = WithTop[c]
    <2>1. c # sp
      BY <1>2, WithTopCells
    <2> QED
      BY <2>1, WithTopCells
  <1> QED
    BY <1>1, <1>2, StackArith DEF Stack!Found, WithTop

LEMMA LoadStep ==
    ASSUME ZpuTyped
    PROVE  /\ LOAD => ZpuTyped' /\ Stack!LOAD
           /\ \A n \in {1, HALF} : LoadPart(n) => ZpuTyped' /\ Stack!LoadPart(n)
  <1> DEFINE c == Stack!CellOf(tos)
             w == memory[c]
  <1>1. Stack!Next1 = Wrap(pc + 1) /\ Stack!Next1 \in Words /\ Stack!S(0) = tos
    BY Onward, Elements
  <1>2. tos \in Nat /\ tos \in Words
    BY WordConstants DEF ZpuTyped, Words
  <1>3. w \in Stack!Found(c, sp + WORD) /\ w \in Words
    BY <1>2, CellOfIsCell, ReadFound
  <1>4. ASSUME LOAD PROVE ZpuTyped' /\ Stack!LOAD
    <2>1. Pops(0, w, memory) /\ pc' = Stack!Next1
      BY <1>1, <1>4 DEF LOAD, Advance, memoryReadLong
    <2> HIDE DEF w
    <2>2. ZpuTyped' /\ Stack!Becomes(1, <<w>>, Stack!NoWrite, Stack!Next1)
      BY <1>1, <1>3, <2>1, ReplaceStep
    <2> QED
      BY <1>1, <1>3, <2>2 DEF Stack!LOAD
  <1>5. ASSUME NEW n \in {1, HALF}, LoadPart(n) PROVE ZpuTyped' /\ Stack!LoadPart(n)
    <2>1. CASE Stack!Aligned(tos, n)
      <3> DEFINE p == Stack!PartOf(w, tos, n)
      <3>1. p \in Words
        BY <1>2, <1>3, <2>1, PartWord
      <3>2. Pops(0, p, memory) /\ pc' = Stack!Next1
        BY <1>1, <1>5, <2>1 DEF LoadPart, Advance, memoryReadPart
      <3>3. ZpuTyped' /\ Stack!Becomes(1, <<p>>, Stack!NoWrite, Stack!Next1)
        BY <1>1, <3>1, <3>2, ReplaceStep
      <3> HIDE DEF w
      <3> QED
        BY <1>1, <1>3, <2>1, <3>3 DEF Stack!LoadPart
    <2>2. CASE ~Stack!Aligned(tos, n)
      BY <1>1, <1>5, <2>2, ExitStep DEF LoadPart, Stack!LoadPart
    <2> QED
      BY <2>1, <2>2
  <1> QED
    BY <1>4, <1>5

LEMMA StoreStep ==
    ASSUME ZpuTyped
    PROVE  /\ STORE => ZpuTyped' /\ sp + WORD \in Cells /\ Stack!STORE
           /\ \A n \in {1, HALF} : StorePart(n) => ZpuTyped' /\ sp + WORD \in Cells /\ Stack!StorePart(n)
  <1> DEFINE c == Stack!CellOf(tos)
  <1>1. Stack!Next1 = Wrap(pc + 1) /\ Stack!Next1 \in Words /\ Stack!S(0) = tos
    BY Onward, Elements
  <1>2. tos \in Nat /\ c \in Cells /\ 2 \in Nat \ {0} /\ sp + WORD * 2 = sp + 2 * WORD
    <2>1. tos \in Nat
      BY WordConstants DEF ZpuTyped, Words
    <2> QED
      BY <2>1, CellOfIsCell, WithTopCells
  <1>3. ASSUME sp + 2 * WORD \in Cells
        PROVE  sp + WORD \in Cells /\ Stack!S(1) = popped(1) /\ popped(1) \in Words
    BY <1>3, WithTopCells, CellBetween, Elements
  <1>4. ASSUME STORE PROVE ZpuTyped' /\ sp + WORD \in Cells /\ Stack!STORE
    <2>1. sp + 2 * WORD \in Cells
      BY <1>4 DEF STORE, InRange
    <2>2. CASE Stack!Aligned(tos, WORD)
      <3> DEFINE v == popped(1)
                 mem == [memory EXCEPT ![c] = v]
      <3>1. Pops(2, mem[sp + WORD * 2], mem) /\ pc' = Stack!Next1
        BY <1>1, <1>2, <1>4, <2>2 DEF STORE, StoreInto, memoryWriteLong, Advance
      <3>2. v \in Words /\ Stack!S(1) = v /\ sp + WORD \in Cells
        BY <1>3, <2>1
      <3> HIDE DEF v, c
      <3>3. ZpuTyped' /\ Stack!Becomes(2, <<>>, Stack!Write(c, v), Stack!Next1)
        BY <1>1, <1>2, <2>1, <3>1, <3>2, WriteStep
      <3> QED
        BY <1>1, <2>2, <3>2, <3>3 DEF Stack!STORE, c
    <2>3. CASE ~Stack!Aligned(tos, WORD)
      BY <1>1, <1>3, <1>4, <2>1, <2>3, ExitStep DEF STORE, Stack!STORE
    <2> QED
      BY <2>2, <2>3
  <1>5. ASSUME NEW n \in {1, HALF}, StorePart(n)
        PROVE  ZpuTyped' /\ sp + WORD \in Cells /\ Stack!StorePart(n)
    <2>1. sp + 2 * WORD \in Cells
      BY <1>5 DEF StorePart, InRange
    <2>2. CASE Stack!Aligned(tos, n)
      <3> DEFINE u == popped(1)
                 v == Stack!WithPart(memory[c], tos, n, u)
                 w == Stack!WithPart(WithTop[c], tos, n, u)
                 mem == [memory EXCEPT ![c] = v]
      <3>1. Pops(2, mem[sp + WORD * 2], mem) /\ pc' = Stack!Next1
        BY <1>1, <1>2, <1>5, <2>2 DEF StorePart, StoreInto, memoryWritePart, Advance
      <3>2. u \in Words /\ Stack!S(1) = u /\ sp + WORD \in Cells
        BY <1>3, <2>1
      <3>3. v \in Words
        <4>1. memory[c] \in Words
          BY <1>2 DEF ZpuTyped
        <4> QED
          BY <1>2, <2>2, <3>2, <4>1, WithPartWord
      <3>4. c # sp => v = w
        BY <1>2, WithTopCells
      <3>5. Stack!WithPart(WithTop[c], tos, n, Stack!S(1)) = w
        BY <3>2
      <3> HIDE DEF v, w, c
      <3>6. ZpuTyped' /\ Stack!Becomes(2, <<>>, Stack!Write(c, w), Stack!Next1)
        BY <1>1, <1>2, <2>1, <3>1, <3>3, <3>4, WriteStep
      <3> QED
        BY <1>1, <2>2, <3>2, <3>5, <3>6 DEF Stack!StorePart, WithTop, c
    <2>3. CASE ~Stack!Aligned(tos, n)
      BY <1>1, <1>3, <1>5, <2>1, <2>3, ExitStep DEF StorePart, Stack!StorePart
    <2> QED
      BY <2>2, <2>3
  <1> QED
    BY <1>4, <1>5


LEMMA ComputeStep ==
    ASSUME ZpuTyped, NEW o
    PROVE  /\ o \in UnaryOps /\ UnaryOp(o) =>
                  ZpuTyped' /\ Stack!Becomes(1, <<Unary(o, Stack!S(0))>>, Stack!NoWrite, Stack!Next1)
           /\ (o \in BinaryOps \cup Shifts \/ (o \in Divisions /\ ~Undivided(tos, popped(1))))
                 /\ BinaryOp(o) =>
                  /\ ZpuTyped' /\ sp + WORD \in Cells
                  /\ Stack!Becomes(2, <<Binary(o, Stack!S(0), Stack!S(1))>>, Stack!NoWrite, Stack!Next1)
  <1>1. Stack!Next1 = Wrap(pc + 1) /\ Stack!Next1 \in Words /\ Stack!S(0) = tos /\ tos \in Words
    BY Onward, Elements DEF ZpuTyped
  <1>2. ASSUME o \in UnaryOps, UnaryOp(o)
        PROVE  ZpuTyped' /\ Stack!Becomes(1, <<Unary(o, Stack!S(0))>>, Stack!NoWrite, Stack!Next1)
    <2> DEFINE x == Unary(o, tos)
    <2>1. x \in Words
      BY <1>1, <1>2, UnaryWord
    <2>2. Pops(0, x, memory) /\ pc' = Stack!Next1
      BY <1>1, <1>2 DEF UnaryOp, Advance
    <2>3. Unary(o, Stack!S(0)) = x
      BY <1>1
    <2> HIDE DEF x
    <2> QED
      BY <1>1, <2>1, <2>2, <2>3, ReplaceStep
  <1>3. ASSUME o \in BinaryOps \cup Shifts \/ (o \in Divisions /\ ~Undivided(tos, popped(1))),
               BinaryOp(o)
        PROVE  /\ ZpuTyped' /\ sp + WORD \in Cells
               /\ Stack!Becomes(2, <<Binary(o, Stack!S(0), Stack!S(1))>>, Stack!NoWrite, Stack!Next1)
    <2> DEFINE y == popped(1)
               x == Binary(o, tos, y)
    <2>1. sp + WORD \in Cells
      BY <1>3 DEF BinaryOp, InRange
    <2>2. y \in Words /\ Stack!S(1) = y
      BY <2>1, Elements
    <2>3. Pops(1, x, memory) /\ pc' = Stack!Next1
      BY <1>1, <1>3 DEF BinaryOp, Advance
    <2>4. o \in BinaryOps \cup Shifts \/ (o \in Divisions /\ ~Undivided(tos, y))
      BY <1>3
    <2> HIDE DEF y
    <2>5. x \in Words
      BY <1>1, <2>2, <2>4, BinaryWord, ShiftWord, DivisionWord
    <2>6. Binary(o, Stack!S(0), Stack!S(1)) = x
      BY <1>1, <2>2
    <2> HIDE DEF x
    <2> QED
      BY <1>1, <2>1, <2>3, <2>5, <2>6, CombineStep
  <1> QED
    BY <1>2, <1>3

LEMMA DivideStep ==
    ASSUME ZpuTyped, NEW o \in Divisions, Divide(o)
    PROVE  ZpuTyped' /\ sp + WORD \in Cells /\ Stack!Divide(o)
  <1>1. sp + WORD \in Cells
    BY DEF Divide, InRange
  <1>2. Stack!S(0) = tos /\ Stack!S(1) = popped(1)
    BY <1>1, Elements
  <1>3. sp + WORD \in Stack!StackCells
    BY <1>1, WithTopCells DEF Stack!StackCells, Cells
  <1>4. CASE Undivided(tos, popped(1))
    <2>1. exit
      BY <1>4 DEF Divide
    <2>2. Stack!Undivided(Stack!S(0), Stack!S(1))
      BY <1>2, <1>4, StackArith2
    <2> QED
      BY <1>1, <1>3, <2>1, <2>2, ExitStep DEF Stack!Divide
  <1>5. CASE ~Undivided(tos, popped(1))
    <2>1. BinaryOp(o)
      BY <1>5 DEF Divide
    <2>2. ~Stack!Undivided(Stack!S(0), Stack!S(1))
      BY <1>2, <1>5, StackArith2
    <2>3. /\ ZpuTyped'
          /\ Stack!Becomes(2, <<Binary(o, Stack!S(0), Stack!S(1))>>, Stack!NoWrite, Stack!Next1)
      BY <1>5, <2>1, ComputeStep
    <2>4. Stack!Binary(o, Stack!S(0), Stack!S(1)) = Binary(o, Stack!S(0), Stack!S(1))
      BY StackBinary
    <2> QED
      BY <1>1, <2>2, <2>3, <2>4 DEF Stack!Divide
  <1> QED
    BY <1>4, <1>5

LEMMA JumpStep ==
    ASSUME ZpuTyped
    PROVE  /\ POPPC => ZpuTyped' /\ Stack!POPPC
           /\ POPPCREL => ZpuTyped' /\ Stack!POPPCREL
           /\ CALL => ZpuTyped' /\ Stack!CALL
           /\ CALLPCREL => ZpuTyped' /\ Stack!CALLPCREL
  <1>1. /\ Stack!Next1 = Wrap(pc + 1) /\ Wrap(pc + 1) \in Words /\ Wrap(pc + tos) \in Words
        /\ Stack!S(0) = tos /\ tos \in Words /\ Stack!Wrap(pc + tos) = Wrap(pc + tos)
    BY Onward, Elements, StackArith DEF ZpuTyped
  <1>2. 1 \in Nat \ {0} /\ sp + WORD * 1 = sp + WORD
    BY WithTopCells
  <1>3. ASSUME POPPC PROVE ZpuTyped' /\ Stack!POPPC
    <2>1. sp + WORD * 1 \in Cells
      BY <1>2, <1>3 DEF POPPC, InRange
    <2> QED
      BY <1>1, <1>2, <1>3, <2>1, PopStep DEF POPPC, Stack!POPPC
  <1>4. ASSUME POPPCREL PROVE ZpuTyped' /\ Stack!POPPCREL
    <2>1. sp + WORD * 1 \in Cells
      BY <1>2, <1>4 DEF POPPCREL, InRange
    <2> QED
      BY <1>1, <1>2, <1>4, <2>1, PopStep DEF POPPCREL, Stack!POPPCREL
  <1>5. ASSUME CALL PROVE ZpuTyped' /\ Stack!CALL
    BY <1>1, <1>5, ReplaceStep DEF CALL, Stack!CALL
  <1>6. ASSUME CALLPCREL PROVE ZpuTyped' /\ Stack!CALLPCREL
    BY <1>1, <1>6, ReplaceStep DEF CALLPCREL, Stack!CALLPCREL
  <1> QED
    BY <1>3, <1>4, <1>5, <1>6

LEMMA BranchStep ==
    ASSUME ZpuTyped, NEW taken \in BOOLEAN, sp + 2 * WORD \in Cells, Branch(taken)
    PROVE  ZpuTyped' /\ Stack!Branch(taken)
  <1>1. /\ Stack!Next1 = Wrap(pc + 1) /\ Wrap(pc + 1) \in Words /\ Wrap(pc + tos) \in Words
        /\ Stack!S(0) = tos /\ Stack!Wrap(pc + tos) = Wrap(pc + tos)
    BY Onward, Elements, StackArith
  <1>2. 2 \in Nat \ {0} /\ sp + WORD * 2 \in Cells
    <2>1. sp + WORD * 2 = sp + 2 * WORD
      BY WithTopCells
    <2> QED
      BY <2>1
  <1> DEFINE to == IF taken THEN Wrap(pc + tos) ELSE Wrap(pc + 1)
  <1>3. pc' = to /\ to \in Words /\ Pops(2, popped(2), memory)
    BY <1>1 DEF Branch, Advance
  <1>4. (IF taken THEN Stack!Wrap(pc + Stack!S(0)) ELSE Stack!Next1) = to
    BY <1>1
  <1> HIDE DEF to
  <1>5. ZpuTyped' /\ Stack!Becomes(2, <<>>, Stack!NoWrite, to)
    BY <1>2, <1>3, PopStep
  <1> QED
    BY <1>4, <1>5 DEF Stack!Branch

LEMMA BranchesStep ==
    ASSUME ZpuTyped
    PROVE  /\ EQBRANCH => ZpuTyped' /\ sp + WORD \in Cells /\ Stack!Branch(Stack!S(1) = 0)
           /\ NEQBRANCH => ZpuTyped' /\ sp + WORD \in Cells /\ Stack!Branch(Stack!S(1) # 0)
  <1>1. ASSUME sp + 2 * WORD \in Cells PROVE sp + WORD \in Cells /\ Stack!S(1) = popped(1)
    BY <1>1, WithTopCells, CellBetween, Elements
  <1>2. ASSUME EQBRANCH PROVE ZpuTyped' /\ sp + WORD \in Cells /\ Stack!Branch(Stack!S(1) = 0)
    <2> DEFINE b == (popped(1) = 0)
    <2>1. sp + 2 * WORD \in Cells /\ Branch(b) /\ b \in BOOLEAN
      BY <1>2 DEF EQBRANCH, InRange
    <2>2. (Stack!S(1) = 0) = b
      BY <1>1, <2>1
    <2> HIDE DEF b
    <2>3. ZpuTyped' /\ Stack!Branch(b)
      BY <2>1, BranchStep
    <2> QED
      BY <1>1, <2>1, <2>2, <2>3
  <1>3. ASSUME NEQBRANCH PROVE ZpuTyped' /\ sp + WORD \in Cells /\ Stack!Branch(Stack!S(1) # 0)
    <2> DEFINE b == (popped(1) # 0)
    <2>1. sp + 2 * WORD \in Cells /\ Branch(b) /\ b \in BOOLEAN
      BY <1>3 DEF NEQBRANCH, InRange
    <2>2. (Stack!S(1) # 0) = b
      BY <1>1, <2>1
    <2> HIDE DEF b
    <2>3. ZpuTyped' /\ Stack!Branch(b)
      BY <2>1, BranchStep
    <2> QED
      BY <1>1, <2>1, <2>2, <2>3
  <1> QED
    BY <1>2, <1>3

\* A step that leaves the stack and may write other cells.
LEMMA KeepStep ==
    ASSUME ZpuTyped, NEW to \in Words, NEW mem \in [Cells -> Words], NEW writes,
           Pops(0, tos, mem), pc' = to,
           \A c \in Cells : (c = 0 \/ c >= sp) /\ c # sp =>
               mem[c] = IF c \in DOMAIN writes THEN writes[c] ELSE WithTop[c],
           sp \notin DOMAIN writes
    PROVE  ZpuTyped' /\ Stack!Becomes(0, <<>>, writes, to)
  <1>1. ZpuTyped' /\ sp' = sp + WORD * 0 /\ tos' = tos /\ memory' = mem /\ running' = running
    BY PopsStep DEF ZpuTyped
  <1>2. sp' = sp
    BY <1>1, WithTopCells
  <1>3. ASSUME NEW c \in Cells, c = 0 \/ c >= sp'
        PROVE  WithTop'[c] = IF c \in DOMAIN writes THEN writes[c] ELSE WithTop[c]
    <2>1. CASE c = sp
      BY <1>1, <1>2, <2>1, WithTopCells, WithTopCellsNext
    <2>2. CASE c # sp
      <3>1. WithTop'[c] = mem[c]
        BY <1>1, <1>2, <2>2, WithTopCellsNext
      <3> QED
        BY <1>2, <1>3, <2>2, <3>1
    <2> QED
      BY <2>1, <2>2
  <1> QED
    BY <1>1, <1>3, BecomesNone

LEMMA NOPStep ==
    ASSUME ZpuTyped, Pops(0, tos, memory), Advance
    PROVE  ZpuTyped' /\ Stack!Becomes(0, <<>>, Stack!NoWrite, Stack!Next1)
  <1>1. Stack!Next1 = Wrap(pc + 1) /\ Stack!Next1 \in Words /\ pc' = Stack!Next1
    BY Onward DEF Advance
  <1>2. memory \in [Cells -> Words]
    BY DEF ZpuTyped
  <1>3. \A c \in Cells : c # sp => memory[c] = WithTop[c]
    BY WithTopCells
  <1> QED
    BY <1>1, <1>2, <1>3, NothingWritten, KeepStep

LEMMA SYSCALLStep ==
    ASSUME ZpuTyped, SYSCALL
    PROVE  ZpuTyped' /\ Stack!SYSCALL
  <1> DEFINE i == sp + WORD * ArgId
             l == sp + WORD * ArgLength
             r == [WithTop EXCEPT ![0] = WithTop[l]]
  <1>1. Stack!Next1 = Wrap(pc + 1) /\ Stack!Next1 \in Words /\ pc' = Stack!Next1
    BY Onward DEF Advance, SYSCALL
  <1>2. i \in Cells /\ l \in Cells
    BY DEF SYSCALL, InRange
  <1>3. memoryWriteLong(sp, tos) = WithTop
    BY WithTopCells, CellOfCell DEF memoryWriteLong, WithTop
  <1>4. Stack!S(ArgId) = WithTop[i] /\ Stack!S(ArgLength) = WithTop[l]
    BY Elements
  <1>5. WithTop \in [Cells -> Words] /\ WithTop[l] \in Words
    BY <1>2 DEF WithTop, ZpuTyped
  <1>6. r \in [Cells -> Words] /\ r[0] = WithTop[l] /\ \A c \in Cells : c # 0 => r[c] = WithTop[c]
    BY <1>5, WithTopCells
  <1>7. Pops(0, tos, IF WithTop[i] = SYS_WRITE THEN r ELSE WithTop)
    BY <1>3 DEF SYSCALL
  <1>8. /\ {i, l} \subseteq Stack!Cells
        /\ Stack!Becomes(0, <<>>, IF WithTop[i] = SYS_WRITE THEN Stack!Write(0, WithTop[l]) ELSE Stack!NoWrite,
                         Stack!Next1)
           => Stack!SYSCALL
    BY <1>2, <1>4 DEF Stack!SYSCALL, Cells
  <1> HIDE DEF r, i
  <1>9. CASE WithTop[i] = SYS_WRITE
    <2> DEFINE x == WithTop[l]
    <2>1. Pops(0, tos, r)
      BY <1>7, <1>9
    <2>2. DOMAIN Stack!Write(0, x) = {0} /\ Stack!Write(0, x)[0] = x
      BY OneWritten
    <2>3. sp \notin DOMAIN Stack!Write(0, x)
      BY <2>2, WithTopCells
    <2>4. ASSUME NEW c \in Cells
          PROVE  r[c] = IF c \in DOMAIN Stack!Write(0, x) THEN Stack!Write(0, x)[c] ELSE WithTop[c]
      <3>1. CASE c = 0
        BY <1>6, <2>2, <3>1
      <3>2. CASE c # 0
        BY <1>6, <2>2, <3>2
      <3> QED
        BY <3>1, <3>2
    <2> HIDE DEF x
    <2>5. ZpuTyped' /\ Stack!Becomes(0, <<>>, Stack!Write(0, x), Stack!Next1)
      BY <1>1, <1>6, <2>1, <2>3, <2>4, KeepStep
    <2> QED
      BY <1>2, <1>8, <1>9, <2>5 DEF x, Cells
  <1>10. CASE WithTop[i] # SYS_WRITE
    <2>1. Pops(0, tos, WithTop)
      BY <1>7, <1>10
    <2>2. ZpuTyped' /\ Stack!Becomes(0, <<>>, Stack!NoWrite, Stack!Next1)
      BY <1>1, <1>5, <2>1, NothingWritten, KeepStep
    <2> QED
      BY <1>2, <1>8, <1>10, <2>2 DEF Cells
  <1> QED
    BY <1>9, <1>10


-----------------------------------------------------------------------------
LEMMA NumberedStep ==
    ASSUME ZpuTyped, NEW o \in Numbered, NEW n \in Nat, Execute(o, n)
    PROVE  ZpuTyped' /\ Stack!Meaning(o, n)
  <1>1. CASE o = "IM"
    BY <1>1, IMStep, StackArith2 DEF Execute, Stack!Meaning, UnaryOps, BinaryOps, Shifts, Divisions
  <1>2. CASE o = "ADDSP"
    BY <1>2, AddressStep, StackArith2 DEF Execute, Stack!Meaning, UnaryOps, BinaryOps, Shifts, Divisions
  <1>3. CASE o = "LOADSP"
    BY <1>3, AddressStep, StackArith2 DEF Execute, Stack!Meaning, UnaryOps, BinaryOps, Shifts, Divisions
  <1>4. CASE o = "STORESP"
    BY <1>4, AddressStep, StackArith2 DEF Execute, Stack!Meaning, UnaryOps, BinaryOps, Shifts, Divisions
  <1> QED
    BY <1>1, <1>2, <1>3, <1>4 DEF Numbered

StackOps == {"PUSHSP", "POPSP", "PUSHSPADD", "PUSHPC", "CONFIG", "SYSCALL", "NOP", "BREAKPOINT"}
MemoryOps == {"LOAD", "LOADH", "LOADB", "STORE", "STOREH", "STOREB"}
JumpOps == {"POPPC", "POPPCREL", "CALL", "CALLPCREL", "EQBRANCH", "NEQBRANCH"}

LEMMA StackOpsStep ==
    ASSUME ZpuTyped, NEW o \in StackOps, NEW n, Execute(o, n)
    PROVE  ZpuTyped' /\ Stack!Meaning(o, n)
  <1>1. CASE o = "PUSHSP"
    BY <1>1, PushStackStep, StackArith2 DEF Execute, Stack!Meaning, UnaryOps, BinaryOps, Shifts, Divisions
  <1>2. CASE o = "POPSP"
    BY <1>2, POPSPStep, StackArith2 DEF Execute, Stack!Meaning, UnaryOps, BinaryOps, Shifts, Divisions
  <1>3. CASE o = "PUSHSPADD"
    BY <1>3, PushStackStep, StackArith2 DEF Execute, Stack!Meaning, UnaryOps, BinaryOps, Shifts, Divisions
  <1>4. CASE o = "PUSHPC"
    BY <1>4, PushStackStep, StackArith2 DEF Execute, Stack!Meaning, UnaryOps, BinaryOps, Shifts, Divisions
  <1>5. CASE o = "CONFIG"
    BY <1>5, PushStackStep, StackArith2 DEF Execute, Stack!Meaning, UnaryOps, BinaryOps, Shifts, Divisions
  <1>6. CASE o = "SYSCALL"
    BY <1>6, SYSCALLStep, StackArith2 DEF Execute, Stack!Meaning, UnaryOps, BinaryOps, Shifts, Divisions
  <1>7. CASE o = "NOP"
    BY <1>7, NOPStep, StackArith2 DEF Execute, Stack!Meaning, UnaryOps, BinaryOps, Shifts, Divisions
  <1>8. CASE o = "BREAKPOINT"
    BY <1>8, ExitStep, StackArith2 DEF Execute, Stack!Meaning, UnaryOps, BinaryOps, Shifts, Divisions
  <1> QED
    BY <1>1, <1>2, <1>3, <1>4, <1>5, <1>6, <1>7, <1>8 DEF StackOps

LEMMA MemoryOpsStep ==
    ASSUME ZpuTyped, NEW o \in MemoryOps, NEW n, Execute(o, n)
    PROVE  ZpuTyped' /\ Stack!Meaning(o, n)
  <1>1. CASE o = "LOAD"
    BY <1>1, LoadStep, StackArith2 DEF Execute, Stack!Meaning, UnaryOps, BinaryOps, Shifts, Divisions
  <1>2. CASE o = "LOADH"
    BY <1>2, LoadStep, StackArith2 DEF Execute, Stack!Meaning, UnaryOps, BinaryOps, Shifts, Divisions
  <1>3. CASE o = "LOADB"
    BY <1>3, LoadStep, StackArith2 DEF Execute, Stack!Meaning, UnaryOps, BinaryOps, Shifts, Divisions
  <1>4. CASE o = "STORE"
    BY <1>4, StoreStep, StackArith2 DEF Execute, Stack!Meaning, UnaryOps, BinaryOps, Shifts, Divisions, Cells
  <1>5. CASE o = "STOREH"
    BY <1>5, StoreStep, StackArith2 DEF Execute, Stack!Meaning, UnaryOps, BinaryOps, Shifts, Divisions, Cells
  <1>6. CASE o = "STOREB"
    BY <1>6, StoreStep, StackArith2 DEF Execute, Stack!Meaning, UnaryOps, BinaryOps, Shifts, Divisions, Cells
  <1> QED
    BY <1>1, <1>2, <1>3, <1>4, <1>5, <1>6 DEF MemoryOps

LEMMA JumpOpsStep ==
    ASSUME ZpuTyped, NEW o \in JumpOps, NEW n, Execute(o, n)
    PROVE  ZpuTyped' /\ Stack!Meaning(o, n)
  <1>1. CASE o = "POPPC"
    BY <1>1, JumpStep, StackArith2 DEF Execute, Stack!Meaning, UnaryOps, BinaryOps, Shifts, Divisions
  <1>2. CASE o = "POPPCREL"
    BY <1>2, JumpStep, StackArith2 DEF Execute, Stack!Meaning, UnaryOps, BinaryOps, Shifts, Divisions
  <1>3. CASE o = "CALL"
    BY <1>3, JumpStep, StackArith2 DEF Execute, Stack!Meaning, UnaryOps, BinaryOps, Shifts, Divisions
  <1>4. CASE o = "CALLPCREL"
    BY <1>4, JumpStep, StackArith2 DEF Execute, Stack!Meaning, UnaryOps, BinaryOps, Shifts, Divisions
  <1>5. CASE o = "EQBRANCH"
    BY <1>5, BranchesStep, StackArith2 DEF Execute, Stack!Meaning, UnaryOps, BinaryOps, Shifts, Divisions, Cells
  <1>6. CASE o = "NEQBRANCH"
    BY <1>6, BranchesStep, StackArith2 DEF Execute, Stack!Meaning, UnaryOps, BinaryOps, Shifts, Divisions, Cells
  <1> QED
    BY <1>1, <1>2, <1>3, <1>4, <1>5, <1>6 DEF JumpOps

\* The instructions that compute are none of the others.
LEMMA Computing ==
    ASSUME NEW o, NEW n
    PROVE  /\ o \in UnaryOps => /\ Execute(o, n) = UnaryOp(o)
                                 /\ Stack!Meaning(o, n) = Stack!Becomes(1, <<Stack!Unary(o, Stack!S(0))>>, Stack!NoWrite, Stack!Next1)
           /\ o \in BinaryOps => /\ Execute(o, n) = BinaryOp(o)
                                  /\ Stack!Meaning(o, n) =
                                       (/\ sp + WORD \in Stack!Cells
                                        /\ Stack!Becomes(2, <<Stack!Binary(o, Stack!S(0), Stack!S(1))>>, Stack!NoWrite, Stack!Next1))
           /\ o \in Shifts => /\ Execute(o, n) = (Shiftable(tos) /\ BinaryOp(o))
                               /\ Stack!Meaning(o, n) =
                                       (/\ sp + WORD \in Stack!Cells /\ Stack!Shiftable(Stack!S(0))
                                        /\ Stack!Becomes(2, <<Stack!Binary(o, Stack!S(0), Stack!S(1))>>, Stack!NoWrite, Stack!Next1))
           /\ o \in Divisions => /\ Execute(o, n) = Divide(o)
                                  /\ Stack!Meaning(o, n) = (sp + WORD \in Stack!Cells /\ Stack!Divide(o))
  <1>1. ASSUME o \in UnaryOps
        PROVE  /\ Execute(o, n) = UnaryOp(o)
               /\ Stack!Meaning(o, n) = Stack!Becomes(1, <<Stack!Unary(o, Stack!S(0))>>, Stack!NoWrite, Stack!Next1)
    BY <1>1, StackArith2 DEF Execute, Stack!Meaning, UnaryOps, BinaryOps, Shifts, Divisions
  <1>2. ASSUME o \in BinaryOps
        PROVE  /\ Execute(o, n) = BinaryOp(o)
               /\ Stack!Meaning(o, n) =
                   (/\ sp + WORD \in Stack!Cells
                    /\ Stack!Becomes(2, <<Stack!Binary(o, Stack!S(0), Stack!S(1))>>, Stack!NoWrite, Stack!Next1))
    BY <1>2, StackArith2 DEF Execute, Stack!Meaning, UnaryOps, BinaryOps, Shifts, Divisions
  <1>3. ASSUME o \in Shifts
        PROVE  /\ Execute(o, n) = (Shiftable(tos) /\ BinaryOp(o))
               /\ Stack!Meaning(o, n) =
                   (/\ sp + WORD \in Stack!Cells /\ Stack!Shiftable(Stack!S(0))
                    /\ Stack!Becomes(2, <<Stack!Binary(o, Stack!S(0), Stack!S(1))>>, Stack!NoWrite, Stack!Next1))
    BY <1>3, StackArith2 DEF Execute, Stack!Meaning, UnaryOps, BinaryOps, Shifts, Divisions
  <1>4. ASSUME o \in Divisions
        PROVE  /\ Execute(o, n) = Divide(o)
               /\ Stack!Meaning(o, n) = (sp + WORD \in Stack!Cells /\ Stack!Divide(o))
    BY <1>4, StackArith2 DEF Execute, Stack!Meaning, UnaryOps, BinaryOps, Shifts, Divisions
  <1> QED
    BY <1>1, <1>2, <1>3, <1>4


LEMMA ExecuteStep ==
    ASSUME ZpuTyped, NEW o \in Operations, NEW n \in Nat, Execute(o, n)
    PROVE  ZpuTyped' /\ Stack!Meaning(o, n)
  <1>1. CASE o \in Numbered
    BY <1>1, NumberedStep
  <1>2. CASE o \in StackOps
    BY <1>2, StackOpsStep
  <1>3. CASE o \in MemoryOps
    BY <1>3, MemoryOpsStep
  <1>4. CASE o \in JumpOps
    BY <1>4, JumpOpsStep
  <1>5. CASE o \in UnaryOps
    <2>1. UnaryOp(o)
      BY <1>5, Computing
    <2>2. ZpuTyped' /\ Stack!Becomes(1, <<Unary(o, Stack!S(0))>>, Stack!NoWrite, Stack!Next1)
      BY <1>5, <2>1, ComputeStep
    <2>3. Stack!Unary(o, Stack!S(0)) = Unary(o, Stack!S(0))
      BY StackUnary
    <2> QED
      BY <1>5, <2>2, <2>3, Computing
  <1>6. CASE o \in BinaryOps \cup Shifts
    <2> DEFINE b == Binary(o, Stack!S(0), Stack!S(1))
    <2>1. BinaryOp(o) /\ (o \in Shifts => Shiftable(tos))
      BY <1>6, Computing
    <2>2. ZpuTyped' /\ sp + WORD \in Stack!Cells /\ Stack!Becomes(2, <<b>>, Stack!NoWrite, Stack!Next1)
      BY <1>6, <2>1, ComputeStep DEF Cells
    <2>3. Stack!Binary(o, Stack!S(0), Stack!S(1)) = b
      BY StackBinary
    <2>4. o \in Shifts => Stack!Shiftable(Stack!S(0))
      BY <2>1, StackArith2, Elements
    <2> HIDE DEF b
    <2>5. CASE o \in BinaryOps
      BY <2>2, <2>3, <2>5, Computing
    <2>6. CASE o \in Shifts
      BY <2>2, <2>3, <2>4, <2>6, Computing
    <2> QED
      BY <1>6, <2>2, <2>5, <2>6
  <1>7. CASE o \in Divisions
    <2>1. Divide(o)
      BY <1>7, Computing
    <2>2. ZpuTyped' /\ sp + WORD \in Stack!Cells /\ Stack!Divide(o)
      BY <1>7, <2>1, DivideStep DEF Cells
    <2> QED
      BY <1>7, <2>2, Computing
  <1> QED
    BY <1>1, <1>2, <1>3, <1>4, <1>5, <1>6, <1>7
       DEF Operations, Unnumbered, StackOps, MemoryOps, JumpOps

LEMMA ZpuInitTyped == ZpuInit => ZpuTyped /\ Stack!StackInit
  <1> SUFFICES ASSUME ZpuInit PROVE ZpuTyped /\ Stack!StackInit
    OBVIOUS
  <1>1. 0 \in Words
    BY WordConstants DEF Words
  <1>2. memory \in [Cells -> Words] /\ tos \in Words /\ pc \in Words /\ sp \in StackCells
    BY <1>1, ZpuAssumption DEF ZpuInit
  <1>3. WithTop \in [Cells -> Words]
    BY <1>2 DEF WithTop
  <1> QED
    BY <1>2, <1>3, StackArith DEF ZpuInit, ZpuTyped, Stack!StackInit, WithTop, Cells, StackCells

LEMMA ZpuNextStep ==
    ZpuTyped /\ [zpu_execute]_zvars => ZpuTyped' /\ [Stack!StackNext]_(Stack!svars)
  <1> SUFFICES ASSUME ZpuTyped, [zpu_execute]_zvars
               PROVE  ZpuTyped' /\ [Stack!StackNext]_(Stack!svars)
    OBVIOUS
  <1>1. CASE zpu_execute
    <2>1. PICK i \in Instructions :
             running /\ instruction' = i /\ decodeMask' = (i[1] = "IM") /\ Execute(i[1], i[2])
      BY <1>1 DEF zpu_execute
    <2>2. i[1] \in Operations /\ i[2] \in Nat
      BY <2>1, ZpuAssumption
    <2>3. ZpuTyped' /\ Stack!Meaning(i[1], i[2])
      BY <2>1, <2>2, ExecuteStep
    <2>4. Stack!StackNext
      BY <2>1, <2>3 DEF Stack!StackNext
    <2> QED
      BY <2>3, <2>4
  <1>2. CASE UNCHANGED zvars
    BY <1>2 DEF zvars, ZpuTyped, Stack!svars
  <1> QED
    BY <1>1, <1>2

\* Whatever the instructions, the sizes and the images, zpu.c with the top of the
\* stack in `tos' does what a stack that is whole in memory does.
THEOREM CachedTopImplementsStack == ZpuSpec => ImplementsStack
  <1>1. ZpuInit => ZpuTyped /\ Stack!StackInit
    BY ZpuInitTyped
  <1>2. ZpuTyped /\ [zpu_execute]_zvars => ZpuTyped' /\ [Stack!StackNext]_(Stack!svars)
    BY ZpuNextStep
  <1> QED
    BY <1>1, <1>2, PTL DEF ZpuSpec, ImplementsStack, Stack!StackSpec

(***************************************************************************)
(* Part 6.  Words by halves and by bytes.                                  *)
(***************************************************************************)
\* The sizes of the 6809's words: four bytes, whose number is even.
LEMMA WordSizes ==
    /\ WORD = 4 /\ HALF = 2 /\ Bits = 4 * BITS
    /\ BYTE \in Nat \ {0} /\ HalfMod \in Nat \ {0} /\ Modulus \in Nat \ {0}
    /\ IMBASE \in Nat \ {0} /\ IMBASE > 1 /\ BYTE = 2 * IMBASE
    /\ BYTE ** 0 = 1 /\ BYTE ** 1 = BYTE /\ BYTE ** 2 = BYTE * BYTE /\ BYTE ** 3 = BYTE * BYTE * BYTE
    /\ HalfMod = BYTE * BYTE /\ Modulus = HalfMod * HalfMod
  <1>1. /\ WORD = 4 /\ BITS \in Nat \ {0} /\ BITS > 1 /\ HALF \in Nat \ {0}
        /\ BYTE \in Nat \ {0} /\ HalfMod \in Nat \ {0} /\ Modulus \in Nat \ {0}
        /\ IMBASE \in Nat \ {0} /\ Modulus = HalfMod * HalfMod
    BY WordConstants, WordAssumption
  <1>2. HALF = 2
    BY <1>1, WordConstants
  <1>3. BYTE ** 0 = 1 /\ BYTE ** 1 = BYTE
    BY <1>1, PowerZero, PowerOne
  <1>4. BYTE ** 2 = BYTE * BYTE
    <2>1. BYTE ** (1 + 1) = BYTE * (BYTE ** 1)
      BY <1>1, PowerStep
    <2> QED
      BY <1>3, <2>1
  <1>5. BYTE ** 3 = BYTE * BYTE * BYTE
    <2>1. BYTE ** (2 + 1) = BYTE * (BYTE ** 2)
      BY <1>1, PowerStep
    <2>2. \A b \in Nat : b * (b * b) = b * b * b
      BY Z3
    <2> QED
      BY <1>1, <1>4, <2>1, <2>2
  <1>6. HalfMod = BYTE * BYTE
    BY <1>2, <1>4 DEF HalfMod
  <1>7. BYTE = 2 * IMBASE
    <2>1. BITS - 1 \in Nat /\ (BITS - 1) + 1 = BITS
      BY <1>1
    <2>2. 2 ** ((BITS - 1) + 1) = 2 * (2 ** (BITS - 1))
      BY <2>1, PowerStep
    <2> QED
      BY <2>1, <2>2 DEF BYTE, IMBASE
  <1>8. IMBASE > 1
    <2>1. BITS - 2 \in Nat /\ (BITS - 2) + 1 = BITS - 1
      BY <1>1
    <2>2. 2 ** ((BITS - 2) + 1) = 2 * (2 ** (BITS - 2)) /\ 2 ** (BITS - 2) \in Nat \ {0}
      BY <2>1, PowerStep, PowerPositive
    <2>3. IMBASE = 2 * (2 ** (BITS - 2))
      BY <2>1, <2>2 DEF IMBASE
    <2> QED
      BY <2>2, <2>3
  <1>9. Bits = 4 * BITS
    BY <1>1, WordConstants
  <1> QED
    BY <1>1, <1>2, <1>3, <1>4, <1>5, <1>6, <1>7, <1>8, <1>9

LEMMA Halves ==
    ASSUME NEW w \in Words
    PROVE  /\ High(w) \in 0 .. HalfMod - 1 /\ Low(w) \in 0 .. HalfMod - 1
           /\ w = High(w) * HalfMod + Low(w) /\ w \in Nat
  <1> DEFINE h == w \div HalfMod
             l == w % HalfMod
  <1>1. HalfMod \in Nat \ {0} /\ Modulus = HalfMod * HalfMod /\ w \in 0 .. Modulus - 1
    BY WordSizes DEF Words
  <1>2. h \in Int /\ l \in 0 .. HalfMod - 1 /\ w = HalfMod * h + l
    BY <1>1, Division
  <1> HIDE DEF h, l
  <1>3. h \in 0 .. HalfMod - 1
    BY <1>1, <1>2, Z3
  <1>4. HalfMod * h = h * HalfMod
    BY <1>1, <1>2
  <1> QED
    BY <1>1, <1>2, <1>3, <1>4 DEF h, l, High, Low

LEMMA HalvesOf ==
    ASSUME NEW h \in 0 .. HalfMod - 1, NEW l \in 0 .. HalfMod - 1
    PROVE  /\ h * HalfMod + l \in Words
           /\ High(h * HalfMod + l) = h /\ Low(h * HalfMod + l) = l
  <1>1. HalfMod \in Nat \ {0} /\ Modulus = HalfMod * HalfMod
    BY WordSizes
  <1>2. h * HalfMod = HalfMod * h
    BY <1>1
  <1>3. h * HalfMod + l \in 0 .. HalfMod * HalfMod - 1
    BY <1>1, TwoDigits
  <1>4. (HalfMod * h + l) \div HalfMod = h /\ (HalfMod * h + l) % HalfMod = l
    BY <1>1, QuotientIs
  <1> QED
    BY <1>1, <1>2, <1>3, <1>4 DEF High, Low, Words

\* The carry of the lower half, added to the upper one, makes the sum of the word.
LEMMA PairCarries ==
    ASSUME NEW h \in Int, NEW l \in Int
    PROVE  Pair(h + l \div HalfMod, l) = Wrap(h * HalfMod + l)
  <1> DEFINE c == l \div HalfMod
             d == l % HalfMod
             m == h + c
             q == m \div HalfMod
             r == m % HalfMod
  <1>1. HalfMod \in Nat \ {0} /\ Modulus \in Nat \ {0} /\ Modulus = HalfMod * HalfMod
    BY WordSizes
  <1>2. c \in Int /\ d \in 0 .. HalfMod - 1 /\ l = HalfMod * c + d
    BY <1>1, Division
  <1> HIDE DEF c, d
  <1>3. m \in Int
    BY <1>2
  <1>4. q \in Int /\ r \in 0 .. HalfMod - 1 /\ m = HalfMod * q + r
    BY <1>1, <1>3, Division
  <1>5. Pair(m, l) = r * HalfMod + d
    BY DEF Pair, d
  <1>6. m = h + c
    OBVIOUS
  <1> HIDE DEF m, q, r
  <1>7. r * HalfMod + d \in 0 .. Modulus - 1
    BY <1>1, <1>2, <1>4, TwoDigits
  <1>8. h * HalfMod + l = Modulus * q + (r * HalfMod + d)
    <2>1. \A x, a, b, e, f, g \in Int :
             b = x * e + f /\ g = a + e => a * x + b = g * x + f
      BY Z3
    <2>2. \A x, a, b \in Int : (x * a + b) * x = (x * x) * a + b * x
      BY Z3
    <2>3. h * HalfMod + l = m * HalfMod + d
      BY <1>1, <1>2, <1>3, <1>6, <2>1
    <2>4. m * HalfMod = Modulus * q + r * HalfMod
      BY <1>1, <1>4, <2>2
    <2> QED
      BY <1>1, <1>2, <1>4, <2>3, <2>4
  <1>9. (Modulus * q + (r * HalfMod + d)) % Modulus = r * HalfMod + d
    BY <1>1, <1>4, <1>7, QuotientIs
  <1> QED
    BY <1>5, <1>8, <1>9 DEF Wrap, m, c

LEMMA PairIs ==
    ASSUME NEW h \in 0 .. HalfMod - 1, NEW l \in 0 .. HalfMod - 1
    PROVE  Pair(h, l) = h * HalfMod + l /\ Pair(h, l) \in Words
  <1>1. HalfMod \in Nat \ {0}
    BY WordSizes
  <1>2. h % HalfMod = h /\ l % HalfMod = l
    BY <1>1, Small
  <1> QED
    BY <1>2, HalvesOf DEF Pair

LEMMA PairWord ==
    ASSUME NEW h \in Int, NEW l \in Int
    PROVE  Pair(h, l) \in Words
  <1>1. HalfMod \in Nat \ {0}
    BY WordSizes
  <1>2. h % HalfMod \in 0 .. HalfMod - 1 /\ l % HalfMod \in 0 .. HalfMod - 1
    BY <1>1, Division
  <1> QED
    BY <1>2, HalvesOf DEF Pair

-----------------------------------------------------------------------------
LEMMA AddsLikeC ==
    ASSUME NEW t \in Words, NEW n \in Words
    PROVE  opADD(t, n) = Wrap(t + n)
  <1> DEFINE a == High(t)
             b == Low(t)
             c == High(n)
             d == Low(n)
  <1>1. /\ a \in Nat /\ b \in Nat /\ c \in Nat /\ d \in Nat /\ HalfMod \in Nat
        /\ t = a * HalfMod + b /\ n = c * HalfMod + d
    BY Halves, WordSizes
  <1>2. opADD(t, n) = Pair((a + c) + (b + d) \div HalfMod, b + d)
    BY <1>1 DEF opADD
  <1> HIDE DEF a, b, c, d
  <1> DEFINE h == a + c
             l == b + d
  <1>7. Pair(h + l \div HalfMod, l) = Wrap(h * HalfMod + l)
    <2>1. h \in Int /\ l \in Int
      BY <1>1
    <2> HIDE DEF h, l
    <2> QED
      BY <2>1, PairCarries
  <1>3. opADD(t, n) = Wrap((a + c) * HalfMod + (b + d))
    BY <1>2, <1>7
  <1>4. \A x, e, f, g, i \in Int : (e + g) * x + (f + i) = (e * x + f) + (g * x + i)
    BY Z3
  <1>5. (a + c) * HalfMod + (b + d) = t + n
    BY <1>1, <1>4
  <1> QED
    BY <1>3, <1>5

LEMMA SubtractsLikeC ==
    ASSUME NEW t \in Words, NEW n \in Words
    PROVE  opSUB(t, n) = Wrap(n - t)
  <1> DEFINE a == High(t)
             b == Low(t)
             c == High(n)
             d == Low(n)
  <1>1. /\ a \in Nat /\ b \in 0 .. HalfMod - 1 /\ c \in Nat /\ d \in 0 .. HalfMod - 1
        /\ HalfMod \in Nat \ {0}
        /\ t = a * HalfMod + b /\ n = c * HalfMod + d
    BY Halves, WordSizes
  <1>2. opSUB(t, n) = Pair(c - a - Borrow(d, b), d - b)
    BY DEF opSUB
  <1> HIDE DEF a, b, c, d
  <1>3. (d - b) \div HalfMod = -Borrow(d, b) /\ Borrow(d, b) \in {0, 1}
    <2>1. CASE d < b
      <3>1. (HalfMod * (-1) + (HalfMod + d - b)) \div HalfMod = -1
        BY <1>1, <2>1, QuotientIs
      <3> QED
        BY <1>1, <2>1, <3>1 DEF Borrow, Truth
    <2>2. CASE ~(d < b)
      <3>1. (d - b) \div HalfMod = 0
        BY <1>1, <2>2, Small
      <3> QED
        BY <1>1, <2>2, <3>1 DEF Borrow, Truth
    <2> QED
      BY <2>1, <2>2
  <1>4. opSUB(t, n) = Pair((c - a) + (d - b) \div HalfMod, d - b)
    BY <1>1, <1>2, <1>3
  <1> DEFINE h == c - a
             l == d - b
  <1>8. Pair(h + l \div HalfMod, l) = Wrap(h * HalfMod + l)
    <2>1. h \in Int /\ l \in Int
      BY <1>1
    <2> HIDE DEF h, l
    <2> QED
      BY <2>1, PairCarries
  <1>5. opSUB(t, n) = Wrap((c - a) * HalfMod + (d - b))
    BY <1>4, <1>8
  <1>6. \A x, e, f, g, i \in Int : (g - e) * x + (i - f) = (g * x + i) - (e * x + f)
    BY Z3
  <1>7. (c - a) * HalfMod + (d - b) = n - t
    BY <1>1, <1>6
  <1> QED
    BY <1>5, <1>7

LEMMA NegatesLikeC ==
    ASSUME NEW t \in Words
    PROVE  neg_x(t) = Wrap(-t)
  <1> DEFINE a == High(t)
             b == Low(t)
  <1>1. /\ a \in Nat /\ b \in 0 .. HalfMod - 1 /\ HalfMod \in Nat \ {0} /\ t = a * HalfMod + b
    BY Halves, WordSizes
  <1>2. neg_x(t) = Pair((IF b = 0 THEN 0 ELSE -1) - a, -b)
    BY DEF neg_x
  <1> HIDE DEF a, b
  <1>3. (-b) \div HalfMod = IF b = 0 THEN 0 ELSE -1
    <2>1. CASE b # 0
      <3>1. (HalfMod * (-1) + (HalfMod - b)) \div HalfMod = -1
        BY <1>1, <2>1, QuotientIs
      <3> QED
        BY <1>1, <2>1, <3>1
    <2>2. CASE b = 0
      <3>1. 0 \div HalfMod = 0
        BY <1>1, Small
      <3> QED
        BY <2>2, <3>1
    <2> QED
      BY <2>1, <2>2
  <1>4. neg_x(t) = Pair((-a) + (-b) \div HalfMod, -b)
    BY <1>1, <1>2, <1>3
  <1> DEFINE h == -a
             l == -b
  <1>8. Pair(h + l \div HalfMod, l) = Wrap(h * HalfMod + l)
    <2>1. h \in Int /\ l \in Int
      BY <1>1
    <2> HIDE DEF h, l
    <2> QED
      BY <2>1, PairCarries
  <1>5. neg_x(t) = Wrap((-a) * HalfMod + (-b))
    BY <1>4, <1>8
  <1>6. \A x, e, f \in Int : (-e) * x + (-f) = -(e * x + f)
    BY Z3
  <1>7. (-a) * HalfMod + (-b) = -t
    BY <1>1, <1>6
  <1> QED
    BY <1>5, <1>7

LEMMA SwapsLikeC ==
    ASSUME NEW t \in Words
    PROVE  opSWAP(t) = Unary("SWAP", t)
  <1> DEFINE a == High(t)
             b == Low(t)
  <1>1. /\ a \in 0 .. HalfMod - 1 /\ b \in 0 .. HalfMod - 1 /\ HalfMod \in Nat \ {0}
    BY Halves, WordSizes
  <1>2. Unary("SWAP", t) = a + HalfMod * b
    BY DEF Unary, High, Low
  <1> HIDE DEF a, b
  <1>3. Pair(b, a) = b * HalfMod + a
    BY <1>1, PairIs
  <1>4. a + HalfMod * b = b * HalfMod + a
    BY <1>1
  <1> QED
    BY <1>2, <1>3, <1>4 DEF opSWAP, a, b


-----------------------------------------------------------------------------
\* Comparisons: the lower halves count when the upper ones, signed or not, are equal.
LEMMA LessByHalves ==
    ASSUME NEW x \in Int, NEW y \in Int,
           NEW l \in 0 .. HalfMod - 1, NEW m \in 0 .. HalfMod - 1
    PROVE  /\ x * HalfMod + l < y * HalfMod + m <=> (x < y \/ (x = y /\ l < m))
           /\ x * HalfMod + l = y * HalfMod + m <=> (x = y /\ l = m)
  <1>1. HalfMod \in Nat \ {0}
    BY WordSizes
  <1>2. CASE x < y
    <2>1. (x + 1) * HalfMod =< y * HalfMod /\ (x + 1) * HalfMod = x * HalfMod + HalfMod
      BY <1>1, <1>2, Z3
    <2> QED
      BY <1>1, <1>2, <2>1
  <1>3. CASE x = y
    BY <1>1, <1>3
  <1>4. CASE y < x
    <2>1. (y + 1) * HalfMod =< x * HalfMod /\ (y + 1) * HalfMod = y * HalfMod + HalfMod
      BY <1>1, <1>4, Z3
    <2> QED
      BY <1>1, <1>4, <2>1
  <1> QED
    BY <1>2, <1>3, <1>4

LEMMA SignedByHalves ==
    ASSUME NEW w \in Words
    PROVE  /\ SignedHalf(High(w)) \in Int
           /\ Signed(w) = SignedHalf(High(w)) * HalfMod + Low(w)
  <1> DEFINE h == High(w)
             l == Low(w)
             k == IMBASE * BYTE
  <1>1. /\ h \in 0 .. HalfMod - 1 /\ l \in 0 .. HalfMod - 1 /\ w = h * HalfMod + l
        /\ HalfMod \in Nat \ {0} /\ Modulus = HalfMod * HalfMod
    BY Halves, WordSizes
  <1>2. k \in Nat /\ HalfMod = 2 * k
    <2>1. \A a \in Nat : a * (2 * a) \in Nat /\ (2 * a) * (2 * a) = 2 * (a * (2 * a))
      BY Z3
    <2> QED
      BY <2>1, WordSizes
  <1> HIDE DEF h, l, k
  <1>3. 2 * w >= Modulus <=> 2 * h >= HalfMod
    <2>1. ~(h * HalfMod + l < k * HalfMod + 0) <=> ~(h < k \/ (h = k /\ l < 0))
      BY <1>1, <1>2, LessByHalves
    <2>2. Modulus = 2 * (k * HalfMod)
      BY <1>1, <1>2, Z3
    <2>3. k * HalfMod \in Nat
      BY <1>1, <1>2
    <2> QED
      BY <1>1, <1>2, <2>1, <2>2, <2>3
  <1>4. (h - HalfMod) * HalfMod + l = (h * HalfMod + l) - HalfMod * HalfMod
    BY <1>1, Z3
  <1> QED
    BY <1>1, <1>3, <1>4 DEF Signed, SignedHalf, h, l

LEMMA ComparesLikeC ==
    ASSUME NEW t \in Words, NEW n \in Words
    PROVE  /\ opLESS(t, n, FALSE) <=> Signed(t) < Signed(n)
           /\ opLESS(t, n, TRUE) <=> Signed(t) =< Signed(n)
           /\ opULESS(t, n, FALSE) <=> t < n
           /\ opULESS(t, n, TRUE) <=> t =< n
           /\ opEQ(t, n) <=> n = t
  <1> DEFINE a == High(t)
             b == Low(t)
             c == High(n)
             d == Low(n)
             x == SignedHalf(a)
             y == SignedHalf(c)
  <1>1. /\ a \in 0 .. HalfMod - 1 /\ b \in 0 .. HalfMod - 1 /\ c \in 0 .. HalfMod - 1
        /\ d \in 0 .. HalfMod - 1 /\ HalfMod \in Nat \ {0}
        /\ t = a * HalfMod + b /\ n = c * HalfMod + d
    BY Halves, WordSizes
  <1>2. x \in Int /\ y \in Int /\ Signed(t) = x * HalfMod + b /\ Signed(n) = y * HalfMod + d
    BY SignedByHalves
  <1>3. x = y <=> a = c
    BY <1>1 DEF SignedHalf
  <1>4. /\ opLESS(t, n, FALSE) <=> (x < y \/ (a = c /\ b < d))
        /\ opLESS(t, n, TRUE) <=> (x < y \/ (a = c /\ (b < d \/ b = d)))
        /\ opULESS(t, n, FALSE) <=> (a < c \/ (a = c /\ b < d))
        /\ opULESS(t, n, TRUE) <=> (a < c \/ (a = c /\ (b < d \/ b = d)))
        /\ opEQ(t, n) <=> (b = d /\ a = c)
    BY DEF opLESS, opULESS, opEQ, Below
  <1> HIDE DEF a, b, c, d, x, y
  <1>5. /\ x * HalfMod + b < y * HalfMod + d <=> (x < y \/ (x = y /\ b < d))
        /\ x * HalfMod + b = y * HalfMod + d <=> (x = y /\ b = d)
    BY <1>1, <1>2, LessByHalves
  <1>6. /\ a * HalfMod + b < c * HalfMod + d <=> (a < c \/ (a = c /\ b < d))
        /\ a * HalfMod + b = c * HalfMod + d <=> (a = c /\ b = d)
    BY <1>1, LessByHalves
  <1>7. t \in Int /\ n \in Int /\ Signed(t) \in Int /\ Signed(n) \in Int
    BY SignedInt DEF Words
  <1>8. /\ opLESS(t, n, FALSE) <=> Signed(t) < Signed(n)
        /\ opLESS(t, n, TRUE) <=> (Signed(t) < Signed(n) \/ Signed(t) = Signed(n))
    BY <1>2, <1>3, <1>4, <1>5
  <1>9. /\ opULESS(t, n, FALSE) <=> t < n
        /\ opULESS(t, n, TRUE) <=> (t < n \/ t = n)
        /\ opEQ(t, n) <=> n = t
    BY <1>1, <1>4, <1>6
  <1>10. (Signed(t) < Signed(n) \/ Signed(t) = Signed(n)) <=> Signed(t) =< Signed(n)
    BY <1>7
  <1>11. (t < n \/ t = n) <=> t =< n
    BY <1>7
  <1> QED
    BY <1>8, <1>9, <1>10, <1>11

-----------------------------------------------------------------------------
LEMMA DivShift ==
    ASSUME NEW m \in Nat \ {0}, NEW q \in Int, NEW a \in Int
    PROVE  (m * q + a) \div m = q + a \div m
  <1> DEFINE d == a \div m
             r == a % m
  <1>1. d \in Int /\ r \in 0 .. m - 1 /\ a = m * d + r
    BY Division
  <1> HIDE DEF d, r
  <1>2. m * q + a = m * (q + d) + r
    BY <1>1, Z3
  <1>3. (m * (q + d) + r) \div m = q + d
    BY <1>1, QuotientIs
  <1> QED
    BY <1>2, <1>3 DEF d

\* The two bytes of a half.
LEMMA BytesOfHalf ==
    ASSUME NEW h \in 0 .. HalfMod - 1
    PROVE  /\ h \div BYTE \in 0 .. BYTE - 1 /\ h % BYTE \in 0 .. BYTE - 1
           /\ h = (h \div BYTE) * BYTE + (h % BYTE)
  <1> DEFINE a == h \div BYTE
             b == h % BYTE
  <1>1. BYTE \in Nat \ {0} /\ HalfMod = BYTE * BYTE
    BY WordSizes
  <1>2. a \in Int /\ b \in 0 .. BYTE - 1 /\ h = BYTE * a + b
    BY <1>1, Division
  <1> HIDE DEF a, b
  <1>3. a \in 0 .. BYTE - 1
    BY <1>1, <1>2, Z3
  <1> QED
    BY <1>1, <1>2, <1>3 DEF a, b

LEMMA HalfOfBytes ==
    ASSUME NEW a \in 0 .. BYTE - 1, NEW b \in 0 .. BYTE - 1
    PROVE  /\ a * BYTE + b \in 0 .. HalfMod - 1
           /\ (a * BYTE + b) \div BYTE = a /\ (a * BYTE + b) % BYTE = b
  <1>1. BYTE \in Nat \ {0} /\ HalfMod = BYTE * BYTE
    BY WordSizes
  <1>2. a * BYTE = BYTE * a
    BY <1>1
  <1>3. a * BYTE + b \in 0 .. BYTE * BYTE - 1
    BY <1>1, TwoDigits
  <1>4. (BYTE * a + b) \div BYTE = a /\ (BYTE * a + b) % BYTE = b
    BY <1>1, QuotientIs
  <1> QED
    BY <1>1, <1>2, <1>3, <1>4

LEMMA ByteOfHalves ==
    ASSUME NEW w \in Words
    PROVE  /\ Byte(w, 0) = High(w) \div BYTE /\ Byte(w, 1) = High(w) % BYTE
           /\ Byte(w, 2) = Low(w) \div BYTE /\ Byte(w, 3) = Low(w) % BYTE
  <1> DEFINE h == High(w)
             l == Low(w)
  <1>1. /\ h \in 0 .. HalfMod - 1 /\ l \in 0 .. HalfMod - 1 /\ w = h * HalfMod + l /\ w \in Nat
        /\ BYTE \in Nat \ {0} /\ HalfMod \in Nat \ {0} /\ HalfMod = BYTE * BYTE
    BY Halves, WordSizes
  <1>2. /\ WORD - (0 + 1) = 3 /\ WORD - (1 + 1) = 2 /\ WORD - (2 + 1) = 1 /\ WORD - (3 + 1) = 0
    BY WordSizes
  <1>3. /\ Byte(w, 0) = (w \div (BYTE ** 3)) % BYTE /\ Byte(w, 1) = (w \div (BYTE ** 2)) % BYTE
        /\ Byte(w, 2) = (w \div (BYTE ** 1)) % BYTE /\ Byte(w, 3) = (w \div (BYTE ** 0)) % BYTE
    BY <1>2 DEF Byte
  <1>4. /\ BYTE ** 3 = HalfMod * BYTE /\ BYTE ** 2 = HalfMod /\ BYTE ** 1 = BYTE /\ BYTE ** 0 = 1
    BY WordSizes
  <1>5. w \div HalfMod = h
    BY DEF h, High
  <1> HIDE DEF h, l
  <1>6. h \div BYTE \in 0 .. BYTE - 1 /\ l \div BYTE \in 0 .. BYTE - 1
    BY <1>1, BytesOfHalf
  <1>7. Byte(w, 0) = h \div BYTE
    <2>1. w \div (HalfMod * BYTE) = (w \div HalfMod) \div BYTE
      <3>1. w \in Int /\ HalfMod \in Nat \ {0} /\ BYTE \in Nat \ {0}
        BY <1>1
      <3> QED
        BY ONLY <3>1, DivDiv
    <2>2. (h \div BYTE) % BYTE = h \div BYTE
      BY <1>1, <1>6, Small
    <2> QED
      BY <1>3, <1>4, <1>5, <2>1, <2>2
  <1>8. Byte(w, 1) = h % BYTE
    BY <1>3, <1>4, <1>5
  <1>9. w = BYTE * (h * BYTE) + l /\ h * BYTE \in Int /\ h * BYTE = BYTE * h
    BY <1>1, Z3
  <1>10. Byte(w, 2) = l \div BYTE
    <2>1. (BYTE * (h * BYTE) + l) \div BYTE = h * BYTE + l \div BYTE
      BY <1>1, <1>9, DivShift
    <2> DEFINE x == l \div BYTE
    <2>2. x \in 0 .. BYTE - 1
      BY <1>6
    <2>3. w \div BYTE = h * BYTE + x
      BY <1>9, <2>1
    <2> HIDE DEF x
    <2>4. (BYTE * h + x) % BYTE = x
      BY <1>1, <2>2, QuotientIs
    <2> QED
      BY <1>3, <1>4, <1>9, <2>3, <2>4 DEF x
  <1>11. Byte(w, 3) = l % BYTE
    <2>1. (l + BYTE * (h * BYTE)) % BYTE = l % BYTE
      <3> DEFINE q == h * BYTE
      <3>1. l \in Int /\ BYTE \in Nat \ {0} /\ q \in Int
        BY <1>1, <1>9
      <3> HIDE DEF q
      <3>2. (l + BYTE * q) % BYTE = l % BYTE
        BY ONLY <3>1, Multiple
      <3> QED
        BY <3>2 DEF q
    <2>2. l + BYTE * (h * BYTE) = w
      BY <1>1, <1>9
    <2>3. w \div 1 = w
      BY <1>1
    <2> QED
      BY <1>3, <1>4, <2>1, <2>2, <2>3
  <1> QED
    BY <1>7, <1>8, <1>10, <1>11 DEF h, l


LEMMA WordBytes ==
    ASSUME NEW w \in Words
    PROVE  /\ \A k \in 0 .. 3 : Byte(w, k) \in 0 .. BYTE - 1
           /\ High(w) = Byte(w, 0) * BYTE + Byte(w, 1)
           /\ Low(w) = Byte(w, 2) * BYTE + Byte(w, 3)
  <1>1. High(w) \in 0 .. HalfMod - 1 /\ Low(w) \in 0 .. HalfMod - 1
    BY Halves
  <1>2. /\ Byte(w, 0) \in 0 .. BYTE - 1 /\ Byte(w, 1) \in 0 .. BYTE - 1
        /\ High(w) = Byte(w, 0) * BYTE + Byte(w, 1)
    BY <1>1, BytesOfHalf, ByteOfHalves
  <1>3. /\ Byte(w, 2) \in 0 .. BYTE - 1 /\ Byte(w, 3) \in 0 .. BYTE - 1
        /\ Low(w) = Byte(w, 2) * BYTE + Byte(w, 3)
    BY <1>1, BytesOfHalf, ByteOfHalves
  <1>4. \A k \in 0 .. 3 : k = 0 \/ k = 1 \/ k = 2 \/ k = 3
    OBVIOUS
  <1> QED
    BY <1>2, <1>3, <1>4

LEMMA BytesWord ==
    ASSUME NEW f, \A k \in 0 .. 3 : f[k] \in 0 .. BYTE - 1
    PROVE  /\ FromBytes(f) \in Words
           /\ High(FromBytes(f)) = f[0] * BYTE + f[1]
           /\ Low(FromBytes(f)) = f[2] * BYTE + f[3]
           /\ \A k \in 0 .. 3 : Byte(FromBytes(f), k) = f[k]
  <1> DEFINE a == f[0]
             b == f[1]
             c == f[2]
             d == f[3]
             w == FromBytes(f)
             h == a * BYTE + b
             l == c * BYTE + d
  <1>1. a \in 0 .. BYTE - 1 /\ b \in 0 .. BYTE - 1 /\ c \in 0 .. BYTE - 1 /\ d \in 0 .. BYTE - 1
    OBVIOUS
  <1>2. w = a * (BYTE ** 3) + b * (BYTE ** 2) + c * BYTE + d
    BY DEF FromBytes
  <1>3. \A k \in 0 .. 3 : k = 0 \/ k = 1 \/ k = 2 \/ k = 3
    OBVIOUS
  <1> HIDE DEF a, b, c, d, w
  <1>4. w = h * HalfMod + l
    <2>1. \A x, i, j, k, m \in Int :
             i * (x * x * x) + j * (x * x) + k * x + m = (i * x + j) * (x * x) + (k * x + m)
      BY Z3
    <2> QED
      BY <1>1, <1>2, <2>1, WordSizes
  <1>5. /\ h \in 0 .. HalfMod - 1 /\ h \div BYTE = a /\ h % BYTE = b
        /\ l \in 0 .. HalfMod - 1 /\ l \div BYTE = c /\ l % BYTE = d
    BY <1>1, HalfOfBytes
  <1> HIDE DEF h, l
  <1>6. w \in Words /\ High(w) = h /\ Low(w) = l
    BY <1>4, <1>5, HalvesOf
  <1>7. Byte(w, 0) = a /\ Byte(w, 1) = b /\ Byte(w, 2) = c /\ Byte(w, 3) = d
    BY <1>5, <1>6, ByteOfHalves
  <1>8. \A k \in 0 .. 3 : Byte(w, k) = f[k]
    BY <1>3, <1>7 DEF a, b, c, d
  <1> QED
    BY <1>6, <1>8 DEF a, b, c, d, w, h, l

LEMMA InvertsLikeC ==
    ASSUME NEW t \in Words
    PROVE  opNOT(t) = Modulus - 1 - t
  <1> DEFINE f == [k \in 0 .. 3 |-> BYTE - 1 - Byte(t, k)]
  <1>1. \A k \in 0 .. 3 : f[k] \in 0 .. BYTE - 1 /\ f[k] = BYTE - 1 - Byte(t, k)
    BY WordBytes, WordSizes
  <1>2. opNOT(t) = FromBytes(f)
    BY DEF opNOT
  <1> HIDE DEF f
  <1> DEFINE a == Byte(t, 0)
             b == Byte(t, 1)
             c == Byte(t, 2)
             d == Byte(t, 3)
             w == opNOT(t)
  <1>3. f[0] = BYTE - 1 - a /\ f[1] = BYTE - 1 - b /\ f[2] = BYTE - 1 - c /\ f[3] = BYTE - 1 - d
    BY <1>1
  <1>4. /\ a \in 0 .. BYTE - 1 /\ b \in 0 .. BYTE - 1 /\ c \in 0 .. BYTE - 1 /\ d \in 0 .. BYTE - 1
        /\ High(t) = a * BYTE + b /\ Low(t) = c * BYTE + d
    BY WordBytes
  <1>5. w \in Words /\ High(w) = f[0] * BYTE + f[1] /\ Low(w) = f[2] * BYTE + f[3]
    BY <1>1, <1>2, BytesWord
  <1> HIDE DEF a, b, c, d, w
  <1>6. BYTE \in Nat \ {0} /\ HalfMod = BYTE * BYTE /\ Modulus = HalfMod * HalfMod
        /\ HalfMod \in Nat \ {0}
    BY WordSizes
  <1>7. \A x, i, j \in Int : (x - 1 - i) * x + (x - 1 - j) = x * x - 1 - (i * x + j)
    BY Z3
  <1>8. High(w) = HalfMod - 1 - High(t) /\ Low(w) = HalfMod - 1 - Low(t)
    BY <1>3, <1>4, <1>5, <1>6, <1>7
  <1>9. /\ w = High(w) * HalfMod + Low(w) /\ t = High(t) * HalfMod + Low(t)
        /\ High(t) \in Int /\ Low(t) \in Int
    BY <1>5, Halves
  <1>10. w = HalfMod * HalfMod - 1 - (High(t) * HalfMod + Low(t))
    <2>1. HalfMod \in Int /\ High(t) \in Int /\ Low(t) \in Int
      BY <1>6, <1>9
    <2>2. (HalfMod - 1 - High(t)) * HalfMod + (HalfMod - 1 - Low(t))
            = HalfMod * HalfMod - 1 - (High(t) * HalfMod + Low(t))
      BY ONLY <1>7, <2>1
    <2> QED
      BY <1>8, <1>9, <2>2
  <1> QED
    BY <1>6, <1>9, <1>10 DEF w

-----------------------------------------------------------------------------
\* Sums that are wrapped before the end.
LEMMA WrapWrap ==
    ASSUME NEW a \in Int, NEW b \in Int
    PROVE  Wrap(Wrap(a) + b) = Wrap(a + b)
  <1> DEFINE d == a \div Modulus
             r == a % Modulus
  <1>1. Modulus \in Nat \ {0}
    BY WordSizes
  <1>2. d \in Int /\ r \in 0 .. Modulus - 1 /\ a = Modulus * d + r
    BY <1>1, Division
  <1>3. Wrap(a) = r
    BY DEF Wrap
  <1> HIDE DEF d, r
  <1>4. ((r + b) + Modulus * d) % Modulus = (r + b) % Modulus
    <2>1. r + b \in Int
      BY <1>2
    <2> QED
      BY <1>1, <1>2, <2>1, Multiple
  <1>5. (r + b) + Modulus * d = a + b
    BY <1>1, <1>2
  <1> QED
    BY <1>3, <1>4, <1>5 DEF Wrap

LEMMA PairOfLow ==
    ASSUME NEW h \in Int, NEW l \in Int
    PROVE  Pair(h, l % HalfMod) = Pair(h, l)
  <1>1. HalfMod \in Nat \ {0}
    BY WordSizes
  <1>2. l % HalfMod \in 0 .. HalfMod - 1
    BY <1>1, Division
  <1>3. (l % HalfMod) % HalfMod = l % HalfMod
    BY <1>1, <1>2, Small
  <1> QED
    BY <1>3 DEF Pair


LEMMA FusedAddsPositive ==
    ASSUME NEW t \in Words, NEW n \in Words, ~(2 * (t % IMBASE) >= IMBASE)
    PROVE  LOADSP_IM_ADD(t, n) = Wrap(SignedIM(t % IMBASE) + n)
  <1> DEFINE im == t % IMBASE
             d == Byte(n, 3)
             e == Byte(n, 2)
             a == im + d
             c == a \div BYTE
             r == a % BYTE
             b == (e + c) % BYTE
             k == Truth(a >= BYTE /\ b = 0)
             h == High(n)
             l == e * BYTE + a
  <1>1. /\ BYTE \in Nat \ {0} /\ IMBASE \in Nat \ {0} /\ BYTE = 2 * IMBASE
        /\ HalfMod \in Nat \ {0} /\ HalfMod = BYTE * BYTE
    BY WordSizes
  <1>2. /\ d \in 0 .. BYTE - 1 /\ e \in 0 .. BYTE - 1 /\ Low(n) = e * BYTE + d
        /\ h \in Int /\ n = h * HalfMod + Low(n)
    BY WordBytes, Halves
  <1>3. im \in 0 .. IMBASE - 1
    BY <1>1, Division DEF Words
  <1>4. SignedIM(im) = Wrap(im)
    BY DEF SignedIM
  <1>5. ~(2 * im >= IMBASE)
    OBVIOUS
  <1>6. LOADSP_IM_ADD(t, n) = Pair(h - 0 + k, b * BYTE + r)
    BY <1>5 DEF LOADSP_IM_ADD, Truth
  <1>7. k = IF a >= BYTE /\ b = 0 THEN 1 ELSE 0
    BY DEF Truth
  <1> HIDE DEF im, d, e, k, h
  <1>8. a \in Nat /\ a < 2 * BYTE
    BY <1>1, <1>2, <1>3
  <1>9. c \in {0, 1} /\ r \in 0 .. BYTE - 1 /\ a = BYTE * c + r /\ (c = 1 <=> a >= BYTE)
    <2> HIDE DEF a
    <2>1. c \in Int /\ r \in 0 .. BYTE - 1 /\ a = BYTE * c + r
      <3>1. a \in Int /\ BYTE \in Nat \ {0}
        BY <1>1, <1>8
      <3> QED
        BY ONLY <3>1, Division
    <2> HIDE DEF c, r
    <2>2. c = 0 \/ c = 1
      BY <1>1, <1>8, <2>1, Z3
    <2> QED
      BY <1>1, <1>8, <2>1, <2>2
  <1> HIDE DEF a, c, r
  <1>10. /\ b \in 0 .. BYTE - 1 /\ e + c = BYTE * k + b /\ k \in {0, 1}
    <2>1. CASE c = 1 /\ e = BYTE - 1
      <3>1. BYTE % BYTE = 0 /\ e + c = BYTE
        BY <1>1, <1>2, <2>1
      <3>2. b = 0
        BY <3>1
      <3> QED
        BY <1>1, <1>7, <1>9, <2>1, <3>1, <3>2
    <2>2. CASE ~(c = 1 /\ e = BYTE - 1)
      <3>1. e + c \in 0 .. BYTE - 1 /\ (c = 1 => e + c # 0)
        BY <1>1, <1>2, <1>9, <2>2
      <3>2. b = e + c
        BY <1>1, <3>1, Small
      <3> QED
        BY <1>1, <1>7, <1>9, <3>1, <3>2
    <2> QED
      BY <2>1, <2>2
  <1> HIDE DEF b
  <1>11. l = HalfMod * k + (b * BYTE + r) /\ l \in Int /\ n + im = h * HalfMod + l
    <2>1. \A x, u, v, p, q, s \in Int : u + v = x * p + q => u * x + (x * v + s) = (x * x) * p + (q * x + s)
      BY Z3
    <2>2. e * BYTE + (BYTE * c + r) = (BYTE * BYTE) * k + (b * BYTE + r)
      BY <1>1, <1>2, <1>9, <1>10, <2>1
    <2>3. e * BYTE \in Int
      BY <1>1, <1>2
    <2>4. a = im + d
      BY DEF a
    <2>5. n + im = h * HalfMod + l
      <3>1. h * HalfMod \in Int /\ d \in Int /\ im \in Int
        BY <1>1, <1>2, <1>3
      <3> QED
        BY <1>2, <2>3, <2>4, <3>1
    <2> QED
      BY <1>1, <1>8, <1>9, <2>2, <2>3, <2>5
  <1>12. b * BYTE + r \in 0 .. HalfMod - 1
    BY <1>9, <1>10, HalfOfBytes
  <1> DEFINE m == b * BYTE + r
  <1> HIDE DEF l, m
  <1>13. l = HalfMod * k + m /\ m \in 0 .. HalfMod - 1 /\ m = b * BYTE + r
    BY <1>11, <1>12 DEF m
  <1>14. l \div HalfMod = k /\ l % HalfMod = m
    <2>1. HalfMod \in Nat \ {0} /\ k \in Int
      BY <1>1, <1>10
    <2>2. (HalfMod * k + m) \div HalfMod = k /\ (HalfMod * k + m) % HalfMod = m
      BY ONLY <1>13, <2>1, QuotientIs
    <2> QED
      BY <1>13, <2>2
  <1>15. Pair(h + l \div HalfMod, l) = Wrap(h * HalfMod + l)
    BY <1>2, <1>11, PairCarries
  <1>16. Pair(h + k, m) = Pair(h + k, l)
    <2>1. h + k \in Int
      BY <1>2, <1>10
    <2> QED
      BY <1>11, <1>14, <2>1, PairOfLow
  <1>17. h - 0 + k = h + k
    BY <1>2, <1>10
  <1>18. LOADSP_IM_ADD(t, n) = Wrap(n + im)
    BY <1>6, <1>11, <1>13, <1>14, <1>15, <1>16, <1>17
  <1>19. Wrap(Wrap(im) + n) = Wrap(im + n) /\ im + n = n + im
    <2>1. im \in Int /\ n \in Int
      BY <1>3 DEF Words
    <2> QED
      BY <2>1, WrapWrap
  <1> QED
    BY <1>4, <1>18, <1>19 DEF im


LEMMA FusedAddsNegative ==
    ASSUME NEW t \in Words, NEW n \in Words, 2 * (t % IMBASE) >= IMBASE, Byte(n, 2) = 0
    PROVE  LOADSP_IM_ADD(t, n) = Wrap(SignedIM(t % IMBASE) + n)
  <1> DEFINE im == t % IMBASE
             d == Byte(n, 3)
             a == im + IMBASE + d
             c == a \div BYTE
             r == a % BYTE
             b == (((0 - 1) % BYTE) + c) % BYTE
             k == Truth(a >= BYTE /\ b = 0)
             h == High(n)
             l == a - BYTE
  <1>1. /\ BYTE \in Nat \ {0} /\ IMBASE \in Nat \ {0} /\ BYTE = 2 * IMBASE
        /\ HalfMod \in Nat \ {0} /\ HalfMod = BYTE * BYTE
    BY WordSizes
  <1>2. /\ d \in 0 .. BYTE - 1 /\ Low(n) = 0 * BYTE + d
        /\ h \in Int /\ n = h * HalfMod + Low(n)
    BY WordBytes, Halves
  <1>3. im \in 0 .. IMBASE - 1
    BY <1>1, Division DEF Words
  <1>4. SignedIM(im) = Wrap(im - IMBASE)
    BY DEF SignedIM
  <1>5. 2 * im >= IMBASE
    OBVIOUS
  <1>6. LOADSP_IM_ADD(t, n) = Pair(h - 1 + k, b * BYTE + r)
    BY <1>5 DEF LOADSP_IM_ADD, Truth
  <1>7. k = IF a >= BYTE /\ b = 0 THEN 1 ELSE 0
    BY DEF Truth
  <1> HIDE DEF im, d, k, h
  <1>8. a \in Nat /\ a < 2 * BYTE
    BY <1>1, <1>2, <1>3
  <1>9. c \in {0, 1} /\ r \in 0 .. BYTE - 1 /\ a = BYTE * c + r /\ (c = 1 <=> a >= BYTE)
    <2> HIDE DEF a
    <2>1. c \in Int /\ r \in 0 .. BYTE - 1 /\ a = BYTE * c + r
      <3>1. a \in Int /\ BYTE \in Nat \ {0}
        BY <1>1, <1>8
      <3> QED
        BY ONLY <3>1, Division
    <2> HIDE DEF c, r
    <2>2. c = 0 \/ c = 1
      BY <1>1, <1>8, <2>1, Z3
    <2> QED
      BY <1>1, <1>8, <2>1, <2>2
  <1> HIDE DEF a, c, r
  <1>10. b = (IF c = 1 THEN 0 ELSE BYTE - 1) /\ k = c
    <2>1. (0 - 1) % BYTE = BYTE - 1
      <3> DEFINE q == 0 - 1
                 s == BYTE - 1
      <3>1. s \in 0 .. BYTE - 1 /\ BYTE * q + s = q /\ q \in Int
        BY <1>1
      <3> HIDE DEF q, s
      <3>2. (BYTE * q + s) % BYTE = s
        BY <1>1, <3>1, QuotientIs
      <3> QED
        BY <3>1, <3>2 DEF q, s
    <2>2. b = (BYTE - 1 + c) % BYTE
      BY <2>1
    <2> HIDE DEF b
    <2>3. CASE c = 1
      <3>1. BYTE % BYTE = 0 /\ BYTE - 1 + c = BYTE
        BY <1>1, <2>3
      <3> QED
        BY <1>7, <1>9, <2>2, <2>3, <3>1
    <2>4. CASE c = 0
      <3>1. BYTE - 1 + c \in 0 .. BYTE - 1 /\ BYTE - 1 + c = BYTE - 1
        BY <1>1, <2>4
      <3>2. b = BYTE - 1
        BY <1>1, <2>2, <3>1, Small
      <3> QED
        BY <1>7, <1>9, <2>4, <3>2
    <2> QED
      BY <1>9, <2>3, <2>4
  <1> HIDE DEF b
  <1> DEFINE m == b * BYTE + r
  <1>11. l = HalfMod * (c - 1) + m /\ m \in 0 .. HalfMod - 1 /\ l \in Int
    <2>1. b \in 0 .. BYTE - 1
      BY <1>1, <1>9, <1>10
    <2>2. m \in 0 .. HalfMod - 1
      BY <1>9, <2>1, HalfOfBytes
    <2>3. \A x, s \in Int : (x - 1) * x + s = x * x - x + s
      BY Z3
    <2>4. CASE c = 1
      BY <1>1, <1>8, <1>9, <1>10, <2>2, <2>4
    <2>5. CASE c = 0
      <3>1. (BYTE - 1) * BYTE + r = BYTE * BYTE - BYTE + r
        BY <1>1, <1>9, <2>3
      <3>2. m = HalfMod - BYTE + r
        BY <1>1, <1>10, <2>5, <3>1
      <3>3. l = r - BYTE
        BY <1>1, <1>9, <2>5
      <3> QED
        BY <1>1, <1>9, <2>2, <2>5, <3>2, <3>3
    <2> QED
      BY <1>9, <2>4, <2>5
  <1>12. n + (im - IMBASE) = h * HalfMod + l
    <2>1. h * HalfMod \in Int /\ d \in Int /\ im \in Int /\ a = im + IMBASE + d
      BY <1>1, <1>2, <1>3 DEF a
    <2> QED
      BY <1>1, <1>2, <2>1
  <1> HIDE DEF l, m
  <1>13. l \div HalfMod = c - 1 /\ l % HalfMod = m
    <2>1. HalfMod \in Nat \ {0} /\ c - 1 \in Int
      BY <1>1, <1>9
    <2>2. (HalfMod * (c - 1) + m) \div HalfMod = c - 1 /\ (HalfMod * (c - 1) + m) % HalfMod = m
      BY ONLY <1>11, <2>1, QuotientIs
    <2> QED
      BY <1>11, <2>2
  <1>14. Pair(h + l \div HalfMod, l) = Wrap(h * HalfMod + l)
    BY <1>2, <1>11, PairCarries
  <1>15. Pair(h + (c - 1), m) = Pair(h + (c - 1), l)
    <2>1. h + (c - 1) \in Int
      BY <1>2, <1>9
    <2> QED
      BY <1>11, <1>13, <2>1, PairOfLow
  <1>16. h - 1 + k = h + (c - 1)
    BY <1>2, <1>9, <1>10
  <1>17. LOADSP_IM_ADD(t, n) = Wrap(n + (im - IMBASE))
    BY <1>6, <1>12, <1>13, <1>14, <1>15, <1>16 DEF m
  <1>18. Wrap(Wrap(im - IMBASE) + n) = Wrap((im - IMBASE) + n) /\ (im - IMBASE) + n = n + (im - IMBASE)
    <2> DEFINE z == im - IMBASE
    <2>1. z \in Int /\ n \in Int
      BY <1>1, <1>3 DEF Words
    <2> HIDE DEF z
    <2>2. Wrap(Wrap(z) + n) = Wrap(z + n) /\ z + n = n + z
      BY <2>1, WrapWrap
    <2> QED
      BY <2>2 DEF z
  <1> QED
    BY <1>4, <1>17, <1>18 DEF im


-----------------------------------------------------------------------------
\* Words by bits.  What is left of a word after k bits, and the next one.
LEMMA NextBit ==
    ASSUME NEW w \in Int, NEW k \in Nat
    PROVE  /\ 2 ** k \in Nat \ {0} /\ w \div (2 ** k) \in Int
           /\ w \div (2 ** (k + 1)) = (w \div (2 ** k)) \div 2
           /\ w \div (2 ** k) = 2 * (w \div (2 ** (k + 1))) + Bit(w, k)
  <1> DEFINE p == 2 ** k
             x == w \div p
  <1>1. p \in Nat \ {0} /\ 2 ** (k + 1) = 2 * p
    BY PowerPositive, PowerStep
  <1>2. 2 * p = p * 2
    BY <1>1
  <1> HIDE DEF p
  <1>3. x \in Int
    BY <1>1, Division
  <1>4. (w \div p) \div 2 = w \div (p * 2)
    <2>1. w \in Int /\ p \in Nat \ {0} /\ 2 \in Nat \ {0}
      BY <1>1
    <2> QED
      BY ONLY <2>1, DivDiv
  <1>5. x = 2 * (x \div 2) + (x % 2)
    <2> HIDE DEF x
    <2> QED
      BY <1>3, Division
  <1> QED
    BY <1>1, <1>2, <1>3, <1>4, <1>5 DEF p, Bit

LEMMA SameBits ==
    ASSUME NEW u \in Words, NEW v \in Words, \A k \in 0 .. Bits - 1 : Bit(u, k) = Bit(v, k)
    PROVE  u = v
  <1>1. Bits \in Nat \ {0} /\ Modulus = 2 ** Bits /\ Modulus \in Nat \ {0} /\ u \in Int /\ v \in Int
    BY WordConstants DEF Words
  <1> DEFINE T == {k \in Nat : k =< Bits => u \div (2 ** (Bits - k)) = v \div (2 ** (Bits - k))}
  <1>2. 0 \in T
    <2>1. Bits - 0 = Bits
      BY <1>1
    <2>2. u \div Modulus = 0 /\ v \div Modulus = 0
      BY <1>1, Small DEF Words
    <2> QED
      BY <1>1, <2>1, <2>2
  <1>3. ASSUME NEW k \in T PROVE k + 1 \in T
    <2> SUFFICES ASSUME k + 1 =< Bits
                 PROVE  u \div (2 ** (Bits - (k + 1))) = v \div (2 ** (Bits - (k + 1)))
      OBVIOUS
    <2> DEFINE i == Bits - (k + 1)
    <2>1. i \in Nat /\ i + 1 = Bits - k /\ i \in 0 .. Bits - 1
      BY <1>1
    <2>2. u \div (2 ** (i + 1)) = v \div (2 ** (i + 1))
      BY <1>1, <2>1
    <2>3. Bit(u, i) = Bit(v, i)
      BY <2>1
    <2> HIDE DEF i
    <2>4. /\ u \div (2 ** i) = 2 * (u \div (2 ** (i + 1))) + Bit(u, i)
          /\ v \div (2 ** i) = 2 * (v \div (2 ** (i + 1))) + Bit(v, i)
      BY <1>1, <2>1, NextBit
    <2>5. u \div (2 ** i) = v \div (2 ** i)
      BY <2>2, <2>3, <2>4
    <2> QED
      BY <2>5 DEF i
  <1>4. T \in SUBSET Nat
    OBVIOUS
  <1> HIDE DEF T
  <1>5. Bits \in T
    BY <1>1, <1>2, <1>3, <1>4, EveryNat
  <1>6. u \div (2 ** 0) = v \div (2 ** 0)
    <2>1. Bits - Bits = 0 /\ Bits =< Bits
      BY <1>1
    <2> QED
      BY <1>5, <2>1 DEF T
  <1>7. 2 ** 0 = 1 /\ u \div 1 = u /\ v \div 1 = v
    BY <1>1, PowerZero
  <1> QED
    BY <1>6, <1>7

LEMMA BitOfFromBits ==
    ASSUME NEW d, AreBits(d), NEW k \in 0 .. Bits - 1
    PROVE  Bit(FromBits(d), k) = d[k]
  <1>1. Bits \in Nat \ {0}
    BY WordConstants
  <1>2. PICK f : IsHorner(f, d) /\ FromBits(d) = f[Bits]
    BY FromBitsFunction
  <1>3. \A i \in 0 .. Bits : f[i] = IF i = 0 THEN 0 ELSE 2 * f[i - 1] + d[Bits - i]
    BY <1>2 DEF IsHorner
  <1>4. \A i \in Nat : i =< Bits => f[i] \in Nat
    <2> DEFINE T == {i \in Nat : i =< Bits => f[i] \in Nat}
    <2>1. 0 \in T
      BY <1>1, <1>3
    <2>2. ASSUME NEW i \in T PROVE i + 1 \in T
      <3> SUFFICES ASSUME i + 1 =< Bits PROVE f[i + 1] \in Nat
        OBVIOUS
      <3>1. i + 1 \in 0 .. Bits /\ i + 1 # 0 /\ (i + 1) - 1 = i /\ Bits - (i + 1) \in 0 .. Bits - 1
        BY <1>1
      <3>2. f[i + 1] = 2 * f[i] + d[Bits - (i + 1)] /\ f[i] \in Nat
        BY <1>1, <1>3, <3>1
      <3>3. d[Bits - (i + 1)] \in {0, 1}
        BY <3>1 DEF AreBits
      <3> QED
        BY <3>2, <3>3
    <2>3. T \in SUBSET Nat
      OBVIOUS
    <2> HIDE DEF T
    <2>4. \A i \in Nat : i \in T
      BY <2>1, <2>2, <2>3, EveryNat
    <2> QED
      BY <2>4 DEF T
  <1>5. ASSUME NEW i \in Nat, i < Bits
        PROVE  /\ f[Bits - i] = 2 * f[Bits - (i + 1)] + d[i] /\ f[Bits - (i + 1)] \in Nat
               /\ d[i] \in {0, 1}
    <2>1. Bits - i \in 0 .. Bits /\ Bits - i # 0 /\ (Bits - i) - 1 = Bits - (i + 1) /\ Bits - (Bits - i) = i
      BY <1>1, <1>5
    <2>2. Bits - (i + 1) \in Nat /\ Bits - (i + 1) =< Bits /\ i \in 0 .. Bits - 1
      BY <1>1, <1>5
    <2> QED
      BY <1>3, <1>4, <2>1, <2>2 DEF AreBits
  <1> DEFINE w == f[Bits]
             T == {i \in Nat : i =< Bits => f[Bits - i] = w \div (2 ** i)}
  <1>6. w \in Nat
    BY <1>1, <1>4
  <1> HIDE DEF w
  <1>7. 0 \in T
    <2>1. 2 ** 0 = 1 /\ w \div 1 = w /\ Bits - 0 = Bits
      BY <1>1, <1>6, PowerZero
    <2> QED
      BY <2>1 DEF w
  <1>8. ASSUME NEW i \in T PROVE i + 1 \in T
    <2> SUFFICES ASSUME i + 1 =< Bits PROVE f[Bits - (i + 1)] = w \div (2 ** (i + 1))
      OBVIOUS
    <2>1. i \in Nat /\ i < Bits /\ i =< Bits
      BY <1>1
    <2> DEFINE x == f[Bits - (i + 1)]
    <2>2. f[Bits - i] = 2 * x + d[i] /\ x \in Nat /\ d[i] \in {0, 1}
      BY <1>5, <2>1
    <2>3. f[Bits - i] = w \div (2 ** i)
      BY <2>1
    <2> HIDE DEF x
    <2>4. (2 * x + d[i]) \div 2 = x
      BY <2>2
    <2>5. w \div (2 ** (i + 1)) = (w \div (2 ** i)) \div 2
      BY <1>6, <2>1, NextBit
    <2> QED
      BY <2>2, <2>3, <2>4, <2>5 DEF x
  <1>9. T \in SUBSET Nat
    OBVIOUS
  <1> HIDE DEF T
  <1>10. k \in T /\ k \in Nat /\ k < Bits /\ k =< Bits
    <2>1. k \in Nat /\ k < Bits /\ k =< Bits
      BY <1>1
    <2>2. k \in T
      BY <1>7, <1>8, <1>9, <2>1, EveryNat
    <2> QED
      BY <2>1, <2>2
  <1>11. f[Bits - k] = w \div (2 ** k)
    BY <1>10 DEF T
  <1> DEFINE x == f[Bits - (k + 1)]
  <1>12. f[Bits - k] = 2 * x + d[k] /\ x \in Nat /\ d[k] \in {0, 1}
    BY <1>5, <1>10
  <1> HIDE DEF x
  <1>13. (2 * x + d[k]) % 2 = d[k]
    BY <1>12
  <1> QED
    BY <1>2, <1>11, <1>12, <1>13 DEF Bit, w

\* The bits of what a word is cut to, or shifted to.
LEMMA BitOfLower ==
    ASSUME NEW a \in Int, NEW m \in Nat, NEW j \in 0 .. m - 1
    PROVE  Bit(a % (2 ** m), j) = Bit(a, j)
  <1> DEFINE p == 2 ** j
             s == 2 ** (m - (j + 1))
             q == a \div (2 ** m)
             r == a % (2 ** m)
  <1>1. j \in Nat /\ m - (j + 1) \in Nat /\ (j + 1) + (m - (j + 1)) = m
    OBVIOUS
  <1>2. p \in Nat \ {0} /\ s \in Nat \ {0} /\ 2 ** m \in Nat \ {0}
    BY <1>1, PowerPositive
  <1>3. 2 ** m = (2 * p) * s
    <2> DEFINE i == m - (j + 1)
    <2>1. i \in Nat /\ (j + 1) + i = m
      BY <1>1
    <2> HIDE DEF i
    <2>2. 2 ** ((j + 1) + i) = (2 ** (j + 1)) * (2 ** i)
      BY <1>1, <2>1, PowerPlus
    <2>3. 2 ** (j + 1) = 2 * p
      BY <1>1, PowerStep
    <2> QED
      BY <2>1, <2>2, <2>3 DEF i
  <1>4. q \in Int /\ r \in Int /\ a = (2 ** m) * q + r
    <2> DEFINE n == 2 ** m
    <2>1. a \in Int /\ n \in Nat \ {0}
      BY <1>2
    <2> HIDE DEF n
    <2>2. a \div n \in Int /\ a % n \in 0 .. n - 1 /\ a = n * (a \div n) + (a % n)
      BY ONLY <2>1, Division
    <2>3. a % n \in Int
      BY <2>1, <2>2
    <2> QED
      BY <2>2, <2>3 DEF n
  <1>5. Bit(r, j) = (r \div p) % 2 /\ Bit(a, j) = (a \div p) % 2
    BY DEF Bit
  <1> HIDE DEF p, s, q, r
  <1>6. a = p * (2 * (s * q)) + r /\ s * q \in Int /\ 2 * (s * q) \in Int
    <2>1. \A x, y, z \in Int : ((2 * x) * y) * z = x * (2 * (y * z))
      BY Z3
    <2> QED
      BY <1>2, <1>3, <1>4, <2>1
  <1> DEFINE z == s * q
             y == 2 * z
  <1>7. a = p * y + r /\ y = 2 * z /\ z \in Int /\ y \in Int
    BY <1>6
  <1> HIDE DEF z, y
  <1>8. (p * y + r) \div p = y + r \div p /\ r \div p \in Int
    BY <1>2, <1>4, <1>7, DivShift, Division
  <1>9. (r \div p + 2 * z) % 2 = (r \div p) % 2
    BY <1>7, <1>8
  <1>10. y + r \div p = r \div p + 2 * z
    BY <1>7, <1>8
  <1> QED
    BY <1>5, <1>7, <1>8, <1>9, <1>10 DEF r

LEMMA BitOfUpper ==
    ASSUME NEW a \in Int, NEW m \in Nat, NEW j \in Nat
    PROVE  Bit(a \div (2 ** m), j) = Bit(a, m + j)
  <1> DEFINE p == 2 ** m
             q == 2 ** j
  <1>1. p \in Nat \ {0} /\ q \in Nat \ {0} /\ 2 ** (m + j) = p * q
    BY PowerPositive, PowerPlus
  <1> HIDE DEF p, q
  <1>2. (a \div p) \div q = a \div (p * q)
    BY <1>1, DivDiv
  <1> QED
    BY <1>1, <1>2 DEF Bit, p, q


LEMMA BitsOfHalf ==
    /\ BITS \in Nat \ {0} /\ Bits = 2 * (2 * BITS) /\ HalfMod = 2 ** (2 * BITS)
    /\ 2 * BITS \in Nat \ {0}
  <1>1. BITS \in Nat \ {0} /\ HALF = 2 /\ Bits = 4 * BITS
    BY WordConstants, WordSizes
  <1>2. (2 ** BITS) ** 2 = 2 ** (BITS * 2)
    BY <1>1, PowerPower
  <1>3. BITS * 2 = 2 * BITS
    BY <1>1
  <1> QED
    BY <1>1, <1>2, <1>3 DEF HalfMod, BYTE

\* A bit of a word is one of a half of it.
LEMMA BitOfHalves ==
    ASSUME NEW w \in Int, NEW k \in 0 .. Bits - 1
    PROVE  /\ k < 2 * BITS => Bit(w, k) = Bit(w % HalfMod, k)
           /\ ~(k < 2 * BITS) => k - 2 * BITS \in Nat /\ Bit(w, k) = Bit(w \div HalfMod, k - 2 * BITS)
  <1> DEFINE m == 2 * BITS
  <1>1. m \in Nat /\ HalfMod = 2 ** m /\ Bits \in Nat
    BY BitsOfHalf, WordConstants
  <1> HIDE DEF m
  <1>2. ASSUME k < m PROVE Bit(w, k) = Bit(w % HalfMod, k)
    <2>1. k \in 0 .. m - 1
      BY <1>1, <1>2
    <2> QED
      BY <1>1, <2>1, BitOfLower
  <1>3. ASSUME ~(k < m) PROVE k - m \in Nat /\ Bit(w, k) = Bit(w \div HalfMod, k - m)
    <2> DEFINE j == k - m
    <2>1. j \in Nat /\ m + j = k
      BY <1>1, <1>3
    <2> HIDE DEF j
    <2>2. Bit(w \div (2 ** m), j) = Bit(w, m + j)
      BY <1>1, <2>1, BitOfUpper
    <2> QED
      BY <1>1, <2>1, <2>2 DEF j
  <1> QED
    BY <1>2, <1>3 DEF m

LEMMA BitOfPair ==
    ASSUME NEW h \in Int, NEW l \in Int, NEW k \in 0 .. Bits - 1
    PROVE  /\ k < 2 * BITS => Bit(Pair(h, l), k) = Bit(l, k)
           /\ ~(k < 2 * BITS) => k - 2 * BITS \in 0 .. 2 * BITS - 1 /\ Bit(Pair(h, l), k) = Bit(h, k - 2 * BITS)
  <1> DEFINE m == 2 * BITS
             w == Pair(h, l)
  <1>1. m \in Nat /\ HalfMod = 2 ** m /\ Bits = 2 * m /\ HalfMod \in Nat \ {0}
    BY BitsOfHalf, WordSizes
  <1>2. h % HalfMod \in 0 .. HalfMod - 1 /\ l % HalfMod \in 0 .. HalfMod - 1
    BY <1>1, Division
  <1>3. w = (h % HalfMod) * HalfMod + (l % HalfMod)
    BY DEF Pair
  <1>4. w \div HalfMod = h % HalfMod /\ w % HalfMod = l % HalfMod /\ w \in Int
    BY <1>2, <1>3, HalvesOf DEF High, Low, Words
  <1> HIDE DEF w
  <1>5. /\ k < m => Bit(w, k) = Bit(w % HalfMod, k)
        /\ ~(k < m) => k - m \in Nat /\ Bit(w, k) = Bit(w \div HalfMod, k - m)
    BY <1>4, BitOfHalves
  <1> HIDE DEF m
  <1>6. ASSUME k < m PROVE Bit(w, k) = Bit(l, k)
    <2>1. k \in 0 .. m - 1
      BY <1>1, <1>6
    <2>2. Bit(l % (2 ** m), k) = Bit(l, k)
      BY <1>1, <2>1, BitOfLower
    <2> QED
      BY <1>1, <1>4, <1>5, <1>6, <2>2
  <1>7. ASSUME ~(k < m) PROVE k - m \in 0 .. m - 1 /\ Bit(w, k) = Bit(h, k - m)
    <2> DEFINE j == k - m
    <2>1. j \in 0 .. m - 1
      BY <1>1, <1>7
    <2>2. Bit(w, k) = Bit(w \div HalfMod, j)
      BY <1>5, <1>7
    <2> HIDE DEF j
    <2>3. Bit(h % (2 ** m), j) = Bit(h, j)
      BY <1>1, <2>1, BitOfLower
    <2> QED
      BY <1>1, <1>4, <2>1, <2>2, <2>3 DEF j
  <1> QED
    BY <1>6, <1>7 DEF m, w

LEMMA BitsOfLogic ==
    ASSUME NEW a \in Int, NEW b \in Int, NEW k \in 0 .. Bits - 1
    PROVE  /\ Bit(a & b, k) = Bit(a, k) * Bit(b, k)
           /\ Bit(a | b, k) = Truth(Bit(a, k) + Bit(b, k) > 0)
           /\ Bit(a ^^ b, k) = (Bit(a, k) + Bit(b, k)) % 2
           /\ Bit(flip(a), k) = Bit(a, Bits - 1 - k)
  <1>1. \A i \in 0 .. Bits - 1 : i \in Nat /\ Bits - 1 - i \in Nat
    BY WordConstants
  <1>2. \A i \in 0 .. Bits - 1 : Bit(a, i) \in {0, 1} /\ Bit(b, i) \in {0, 1}
    BY <1>1, BitIsBit
  <1> DEFINE d == [i \in 0 .. Bits - 1 |-> Bit(a, i) * Bit(b, i)]
             e == [i \in 0 .. Bits - 1 |-> Truth(Bit(a, i) + Bit(b, i) > 0)]
             f == [i \in 0 .. Bits - 1 |-> (Bit(a, i) + Bit(b, i)) % 2]
             g == [i \in 0 .. Bits - 1 |-> Bit(a, Bits - 1 - i)]
  <1>3. AreBits(d)
    <2>1. ASSUME NEW i \in 0 .. Bits - 1 PROVE Bit(a, i) * Bit(b, i) \in {0, 1}
      <3>1. Bit(a, i) = 0 \/ Bit(a, i) = 1
        BY <1>2
      <3>2. Bit(b, i) = 0 \/ Bit(b, i) = 1
        BY <1>2
      <3> QED
        BY <3>1, <3>2
    <2> QED
      BY <2>1 DEF AreBits
  <1>4. AreBits(e)
    BY DEF AreBits, Truth
  <1>5. AreBits(f)
    <2>1. ASSUME NEW i \in 0 .. Bits - 1 PROVE (Bit(a, i) + Bit(b, i)) % 2 \in {0, 1}
      BY <1>2
    <2> QED
      BY <2>1 DEF AreBits
  <1>6. AreBits(g)
    <2>1. ASSUME NEW i \in 0 .. Bits - 1 PROVE Bit(a, Bits - 1 - i) \in {0, 1}
      BY <1>1, BitIsBit
    <2> QED
      BY <2>1 DEF AreBits
  <1>7. (a & b) = FromBits(d)
    BY DEF &
  <1>8. (a | b) = FromBits(e)
    BY DEF |
  <1>9. (a ^^ b) = FromBits(f)
    BY DEF ^^
  <1>10. flip(a) = FromBits(g)
    BY DEF flip
  <1>11. /\ d[k] = Bit(a, k) * Bit(b, k) /\ e[k] = Truth(Bit(a, k) + Bit(b, k) > 0)
         /\ f[k] = (Bit(a, k) + Bit(b, k)) % 2 /\ g[k] = Bit(a, Bits - 1 - k)
    OBVIOUS
  <1> HIDE DEF d, e, f, g
  <1>12. Bit(FromBits(d), k) = d[k] /\ Bit(FromBits(e), k) = e[k]
    BY <1>3, <1>4, BitOfFromBits
  <1>13. Bit(FromBits(f), k) = f[k] /\ Bit(FromBits(g), k) = g[k]
    BY <1>5, <1>6, BitOfFromBits
  <1> QED
    BY <1>7, <1>8, <1>9, <1>10, <1>11, <1>12, <1>13

LEMMA BitOfZero ==
    ASSUME NEW k \in Nat
    PROVE  Bit(0, k) = 0
  <1>1. 2 ** k \in Nat \ {0}
    BY PowerPositive
  <1>2. 0 \div (2 ** k) = 0
    BY <1>1, Small
  <1> QED
    BY <1>2 DEF Bit


\* An operation bit by bit, f of two bits.
Combines(w, t, n, f) == \A k \in 0 .. Bits - 1 : Bit(w, k) = f[Bit(t, k)][Bit(n, k)]

LEMMA CombinedByHalves ==
    ASSUME NEW t \in Words, NEW n \in Words, NEW w \in Words, NEW x \in Int, NEW y \in Int, NEW f,
           Combines(x, High(t), High(n), f), Combines(y, Low(t), Low(n), f), Combines(w, t, n, f)
    PROVE  Pair(x, y) = w
  <1>1. Bits \in Nat /\ 2 * BITS \in Nat /\ Bits = 2 * (2 * BITS) /\ t \in Int /\ n \in Int
    BY BitsOfHalf, WordConstants DEF Words
  <1>2. Pair(x, y) \in Words
    BY PairWord
  <1>3. ASSUME NEW k \in 0 .. Bits - 1 PROVE Bit(Pair(x, y), k) = Bit(w, k)
    <2>1. Bit(w, k) = f[Bit(t, k)][Bit(n, k)]
      BY DEF Combines
    <2>2. CASE k < 2 * BITS
      <3>1. Bit(Pair(x, y), k) = Bit(y, k)
        BY <2>2, BitOfPair
      <3>2. Bit(t, k) = Bit(Low(t), k) /\ Bit(n, k) = Bit(Low(n), k)
        BY <1>1, <2>2, BitOfHalves DEF Low
      <3>3. Bit(y, k) = f[Bit(Low(t), k)][Bit(Low(n), k)]
        BY DEF Combines
      <3> QED
        BY <2>1, <3>1, <3>2, <3>3
    <2>3. CASE ~(k < 2 * BITS)
      <3> DEFINE j == k - 2 * BITS
      <3>1. j \in 0 .. 2 * BITS - 1 /\ Bit(Pair(x, y), k) = Bit(x, j)
        BY <2>3, BitOfPair
      <3>2. Bit(t, k) = Bit(High(t), j) /\ Bit(n, k) = Bit(High(n), j)
        BY <1>1, <2>3, BitOfHalves DEF High
      <3> HIDE DEF j
      <3>3. j \in 0 .. Bits - 1
        BY <1>1, <3>1
      <3>4. Bit(x, j) = f[Bit(High(t), j)][Bit(High(n), j)]
        BY <3>3 DEF Combines
      <3> QED
        BY <2>1, <3>1, <3>2, <3>4
    <2> QED
      BY <2>2, <2>3
  <1> QED
    BY <1>2, <1>3, SameBits

AndBits == [i \in {0, 1} |-> [j \in {0, 1} |-> i * j]]
OrBits  == [i \in {0, 1} |-> [j \in {0, 1} |-> Truth(i + j > 0)]]
XorBits == [i \in {0, 1} |-> [j \in {0, 1} |-> (i + j) % 2]]

LEMMA LogicCombines ==
    ASSUME NEW a \in Int, NEW b \in Int
    PROVE  /\ Combines(a & b, a, b, AndBits)
           /\ Combines(a | b, a, b, OrBits)
           /\ Combines(a ^^ b, a, b, XorBits)
  <1>1. ASSUME NEW k \in 0 .. Bits - 1
        PROVE  /\ Bit(a & b, k) = AndBits[Bit(a, k)][Bit(b, k)]
               /\ Bit(a | b, k) = OrBits[Bit(a, k)][Bit(b, k)]
               /\ Bit(a ^^ b, k) = XorBits[Bit(a, k)][Bit(b, k)]
    <2> DEFINE i == Bit(a, k)
               j == Bit(b, k)
    <2>1. i \in {0, 1} /\ j \in {0, 1}
      BY WordConstants, BitIsBit
    <2>2. Bit(a & b, k) = i * j /\ Bit(a | b, k) = Truth(i + j > 0) /\ Bit(a ^^ b, k) = (i + j) % 2
      BY BitsOfLogic
    <2> HIDE DEF i, j
    <2>3. AndBits[i][j] = i * j /\ OrBits[i][j] = Truth(i + j > 0) /\ XorBits[i][j] = (i + j) % 2
      BY <2>1 DEF AndBits, OrBits, XorBits
    <2> QED
      BY <2>2, <2>3 DEF i, j
  <1> QED
    BY <1>1 DEF Combines

LEMMA AndsLikeC ==
    ASSUME NEW t \in Words, NEW n \in Words
    PROVE  opAND(t, n) = (t & n)
  <1> DEFINE a == High(t)
             b == Low(t)
             c == High(n)
             d == Low(n)
             x == IF a = 0 THEN 0 ELSE a & c
  <1>1. a \in Int /\ b \in Int /\ c \in Int /\ d \in Int /\ t \in Int /\ n \in Int
    BY Halves
  <1>2. opAND(t, n) = Pair(x, b & d)
    BY DEF opAND
  <1>3. (t & n) \in Words /\ (a & c) \in Int /\ (b & d) \in Int
    BY <1>1, LogicWords DEF Words
  <1>4. Combines(t & n, t, n, AndBits) /\ Combines(a & c, a, c, AndBits) /\ Combines(b & d, b, d, AndBits)
    BY <1>1, LogicCombines
  <1>5. Combines(x, a, c, AndBits)
    <2>1. CASE a = 0
      <3>1. ASSUME NEW k \in 0 .. Bits - 1 PROVE Bit(0, k) = AndBits[Bit(0, k)][Bit(c, k)]
        <4>1. Bit(0, k) = 0 /\ Bit(c, k) \in {0, 1}
          BY <1>1, WordConstants, BitIsBit, BitOfZero
        <4>2. AndBits[0][Bit(c, k)] = 0 * Bit(c, k)
          BY <4>1 DEF AndBits
        <4> QED
          BY <4>1, <4>2
      <3> QED
        BY <2>1, <3>1 DEF Combines
    <2>2. CASE a # 0
      BY <1>4, <2>2
    <2> QED
      BY <2>1, <2>2
  <1>6. x \in Int
    BY <1>3
  <1> QED
    BY <1>2, <1>3, <1>4, <1>5, <1>6, CombinedByHalves

LEMMA OrsLikeC ==
    ASSUME NEW t \in Words, NEW n \in Words
    PROVE  opOR(t, n) = (t | n)
  <1> DEFINE a == High(t)
             b == Low(t)
             c == High(n)
             d == Low(n)
             x == IF a = 0 THEN c ELSE a | c
  <1>1. a \in Int /\ b \in Int /\ c \in Int /\ d \in Int /\ t \in Int /\ n \in Int
    BY Halves
  <1>2. opOR(t, n) = Pair(x, b | d)
    BY DEF opOR
  <1>3. (t | n) \in Words /\ (a | c) \in Int /\ (b | d) \in Int
    BY <1>1, LogicWords DEF Words
  <1>4. Combines(t | n, t, n, OrBits) /\ Combines(a | c, a, c, OrBits) /\ Combines(b | d, b, d, OrBits)
    BY <1>1, LogicCombines
  <1>5. Combines(x, a, c, OrBits)
    <2>1. CASE a = 0
      <3>1. ASSUME NEW k \in 0 .. Bits - 1 PROVE Bit(c, k) = OrBits[Bit(0, k)][Bit(c, k)]
        <4> DEFINE j == Bit(c, k)
        <4>1. Bit(0, k) = 0 /\ j \in {0, 1}
          BY <1>1, WordConstants, BitIsBit, BitOfZero
        <4> HIDE DEF j
        <4>2. OrBits[0][j] = Truth(0 + j > 0)
          BY <4>1 DEF OrBits
        <4>3. Truth(0 + j > 0) = j
          BY <4>1 DEF Truth
        <4> QED
          BY <4>1, <4>2, <4>3 DEF j
      <3> QED
        BY <2>1, <3>1 DEF Combines
    <2>2. CASE a # 0
      BY <1>4, <2>2
    <2> QED
      BY <2>1, <2>2
  <1>6. x \in Int
    BY <1>1, <1>3
  <1> QED
    BY <1>2, <1>3, <1>4, <1>5, <1>6, CombinedByHalves

LEMMA XorsLikeC ==
    ASSUME NEW t \in Words, NEW n \in Words
    PROVE  opXOR(t, n) = (t ^^ n)
  <1> DEFINE a == High(t)
             b == Low(t)
             c == High(n)
             d == Low(n)
  <1>1. a \in Int /\ b \in Int /\ c \in Int /\ d \in Int /\ t \in Int /\ n \in Int
    BY Halves
  <1>2. opXOR(t, n) = Pair(a ^^ c, b ^^ d)
    BY DEF opXOR
  <1>3. (t ^^ n) \in Words /\ (a ^^ c) \in Int /\ (b ^^ d) \in Int
    BY <1>1, LogicWords DEF Words
  <1>4. Combines(t ^^ n, t, n, XorBits) /\ Combines(a ^^ c, a, c, XorBits) /\ Combines(b ^^ d, b, d, XorBits)
    BY <1>1, LogicCombines
  <1> QED
    BY <1>2, <1>3, <1>4, CombinedByHalves

-----------------------------------------------------------------------------
\* A bit of a word is one of its bytes.
LEMMA BitOfByte ==
    ASSUME NEW w \in Words, NEW k \in 0 .. 3, NEW j \in 0 .. BITS - 1
    PROVE  (3 - k) * BITS + j \in Nat /\ Bit(Byte(w, k), j) = Bit(w, (3 - k) * BITS + j)
  <1> DEFINE i == WORD - (k + 1)
             m == BITS * i
             v == w \div (2 ** m)
  <1>1. WORD = 4 /\ i = 3 - k /\ i \in Nat /\ BITS \in Nat /\ w \in Int /\ j \in Nat
    BY WordSizes, WordConstants DEF Words
  <1>2. m = (3 - k) * BITS /\ m \in Nat
    <2>1. i \in Nat /\ BITS \in Nat
      BY <1>1
    <2>2. BITS * i \in Nat /\ BITS * i = i * BITS
      BY <2>1
    <2> QED
      BY <1>1, <2>2
  <1>3. BYTE ** i = 2 ** m
    BY <1>1, PowerPower DEF BYTE
  <1>4. Byte(w, k) = v % (2 ** BITS)
    BY <1>3 DEF Byte, BYTE
  <1>5. v \in Int
    BY <1>1, <1>2, NextBit
  <1> HIDE DEF v
  <1>6. Bit(v % (2 ** BITS), j) = Bit(v, j)
    BY <1>1, <1>5, BitOfLower
  <1> HIDE DEF m
  <1>7. Bit(w \div (2 ** m), j) = Bit(w, m + j)
    BY <1>1, <1>2, BitOfUpper
  <1> QED
    BY <1>1, <1>2, <1>4, <1>6, <1>7 DEF v

LEMMA ByteBounds ==
    ASSUME NEW b \in 0 .. BYTE - 1
    PROVE  b \in Words
  <1>1. BYTE \in Nat \ {0} /\ HalfMod \in Nat \ {0} /\ HalfMod = BYTE * BYTE /\ Modulus = HalfMod * HalfMod
    BY WordSizes
  <1>2. BYTE =< HalfMod /\ HalfMod =< Modulus
    BY <1>1, Product
  <1> QED
    BY <1>1, <1>2 DEF Words

\* The last byte of a flipped one: a byte, with the bits of the other end.
LEMMA FlippedByte ==
    ASSUME NEW b \in 0 .. BYTE - 1
    PROVE  /\ flip2(b) \in 0 .. BYTE - 1
           /\ \A j \in 0 .. BITS - 1 : Bit(flip2(b), j) = Bit(b, BITS - 1 - j)
  <1> DEFINE w == flip(b)
             m == BITS * 3
  <1>1. /\ BITS \in Nat \ {0} /\ BYTE \in Nat \ {0} /\ Bits = 4 * BITS /\ b \in Int
        /\ HalfMod \in Nat \ {0} /\ BYTE ** 3 = HalfMod * BYTE
    BY WordSizes, WordConstants
  <1>2. w \in Words
    BY <1>1, LogicWords
  <1>3. flip2(b) = w \div (BYTE ** 3)
    BY DEF flip2
  <1>4. flip2(b) \in 0 .. BYTE - 1
    <2> HIDE DEF w
    <2>1. w \in Int
      BY <1>2 DEF Words
    <2>2. w \div (HalfMod * BYTE) = (w \div HalfMod) \div BYTE
      BY ONLY <1>1, <2>1, DivDiv
    <2>3. High(w) \in 0 .. HalfMod - 1
      BY <1>2, Halves
    <2>4. High(w) \div BYTE \in 0 .. BYTE - 1
      BY <2>3, BytesOfHalf
    <2> QED
      BY <1>1, <1>3, <2>2, <2>4 DEF High
  <1>5. BYTE ** 3 = 2 ** m /\ m \in Nat /\ m = 3 * BITS
    BY <1>1, PowerPower DEF BYTE
  <1>6. ASSUME NEW j \in 0 .. BITS - 1 PROVE Bit(flip2(b), j) = Bit(b, BITS - 1 - j)
    <2> DEFINE i == m + j
    <2>1. i \in 0 .. Bits - 1 /\ Bits - 1 - i = BITS - 1 - j /\ j \in Nat
      BY <1>1, <1>5
    <2>2. Bit(flip(b), i) = Bit(b, Bits - 1 - i)
      BY <1>1, <2>1, BitsOfLogic
    <2> HIDE DEF w, m
    <2>3. Bit(w \div (2 ** m), j) = Bit(w, m + j)
      <3>1. w \in Int
        BY <1>2 DEF Words
      <3> QED
        BY <1>5, <2>1, <3>1, BitOfUpper
    <2> QED
      BY <1>3, <1>5, <2>1, <2>2, <2>3 DEF w
  <1> QED
    BY <1>4, <1>6


LEMMA FlipsLikeC ==
    ASSUME NEW t \in Words
    PROVE  opFLIP(t) = flip(t)
  <1> DEFINE f == [k \in 0 .. 3 |-> flip2(Byte(t, 3 - k))]
             w == opFLIP(t)
  <1>1. /\ BITS \in Nat \ {0} /\ Bits = 4 * BITS /\ t \in Int
    BY WordSizes, WordConstants DEF Words
  <1>2. \A k \in 0 .. 3 : 3 - k \in 0 .. 3 /\ Byte(t, 3 - k) \in 0 .. BYTE - 1
    <2>1. \A k \in 0 .. 3 : 3 - k \in 0 .. 3
      OBVIOUS
    <2> QED
      BY <2>1, WordBytes
  <1>3. \A k \in 0 .. 3 : f[k] = flip2(Byte(t, 3 - k)) /\ f[k] \in 0 .. BYTE - 1
    BY <1>2, FlippedByte
  <1>4. w = FromBytes(f)
    BY DEF opFLIP
  <1> HIDE DEF f, w
  <1>5. w \in Words /\ \A k \in 0 .. 3 : Byte(w, k) = f[k]
    BY <1>3, <1>4, BytesWord
  <1>6. ASSUME NEW p \in 0 .. Bits - 1 PROVE Bit(w, p) = Bit(flip(t), p)
    <2> DEFINE q == p \div BITS
               j == p % BITS
               k == 3 - q
    <2>1. q \in Int /\ j \in 0 .. BITS - 1 /\ p = BITS * q + j
      BY <1>1, Division
    <2> HIDE DEF q, j
    <2>2. q \in 0 .. 3
      BY <1>1, <2>1, Z3
    <2>3. k \in 0 .. 3 /\ 3 - k = q /\ 3 - q = k /\ q * BITS = BITS * q /\ BITS - 1 - j \in 0 .. BITS - 1
      BY <1>1, <2>1, <2>2
    <2> HIDE DEF k
    <2>4. Bit(Byte(w, k), j) = Bit(w, q * BITS + j)
      BY <1>5, <2>1, <2>3, BitOfByte
    <2>5. Byte(w, k) = flip2(Byte(t, q)) /\ Byte(t, q) \in 0 .. BYTE - 1
      BY <1>2, <1>3, <1>5, <2>3
    <2>6. Bit(flip2(Byte(t, q)), j) = Bit(Byte(t, q), BITS - 1 - j)
      BY <2>1, <2>5, FlippedByte
    <2>7. Bit(Byte(t, q), BITS - 1 - j) = Bit(t, k * BITS + (BITS - 1 - j))
      <3> DEFINE i == BITS - 1 - j
      <3>1. i \in 0 .. BITS - 1
        BY <2>3
      <3> HIDE DEF i
      <3>2. Bit(Byte(t, q), i) = Bit(t, (3 - q) * BITS + i)
        BY <2>2, <3>1, BitOfByte
      <3> QED
        BY <2>3, <3>2 DEF i
    <2>8. k * BITS + (BITS - 1 - j) = Bits - 1 - p
      <3>1. k * BITS = 3 * BITS - BITS * q
        BY <1>1, <2>2, Z3 DEF k
      <3>2. BITS * q \in Int
        BY <1>1, <2>1
      <3> QED
        BY <1>1, <2>1, <3>1, <3>2
    <2>9. Bit(flip(t), p) = Bit(t, Bits - 1 - p)
      BY <1>1, BitsOfLogic
    <2>10. q * BITS + j = p
      BY <2>1, <2>3
    <2> QED
      BY <2>4, <2>5, <2>6, <2>7, <2>8, <2>9, <2>10
  <1>7. flip(t) \in Words
    BY <1>1, LogicWords
  <1> QED
    BY <1>5, <1>6, <1>7, SameBits DEF w

\* The last bit of a word.
LEMMA BitOfOne ==
    ASSUME NEW k \in Nat
    PROVE  Bit(1, k) = IF k = 0 THEN 1 ELSE 0
  <1>1. CASE k = 0
    <2>1. 2 ** 0 = 1
      BY PowerZero
    <2> QED
      BY <1>1, <2>1 DEF Bit
  <1>2. CASE k # 0
    <2>1. k - 1 \in Nat /\ (k - 1) + 1 = k
      BY <1>2
    <2>2. 2 ** k = 2 * (2 ** (k - 1)) /\ 2 ** (k - 1) \in Nat \ {0}
      BY <2>1, PowerStep, PowerPositive
    <2>3. 2 ** k \in Nat \ {0} /\ 1 \in 0 .. (2 ** k) - 1
      BY <2>2
    <2>4. 1 \div (2 ** k) = 0
      BY <2>3, Small
    <2> QED
      BY <1>2, <2>4 DEF Bit
  <1> QED
    BY <1>1, <1>2

LEMMA LastBit ==
    ASSUME NEW w \in Int
    PROVE  Bit(w, 0) = w % 2
  <1>1. 2 ** 0 = 1 /\ w \div 1 = w
    BY PowerZero
  <1> QED
    BY <1>1 DEF Bit

LEMMA ZeroAndOne == 0 \in Words /\ 1 \in Words
  <1>1. 0 \in 0 .. BYTE - 1 /\ 1 \in 0 .. BYTE - 1
    BY WordSizes
  <1> QED
    BY <1>1, ByteBounds

LEMMA OnlyLastBit ==
    ASSUME NEW w \in Words
    PROVE  (1 & w) = w % 2 /\ (w \in {0, 1} => (w ^^ 1) = 1 - w)
  <1>1. w \in Int /\ 0 \in Words /\ 1 \in Words /\ Bits \in Nat \ {0}
    BY ZeroAndOne, WordConstants DEF Words
  <1>2. (1 & w) \in Words /\ (w ^^ 1) \in Words
    BY <1>1, LogicWords
  <1>3. w % 2 \in {0, 1}
    BY <1>1
  <1>4. ASSUME NEW k \in 0 .. Bits - 1 PROVE Bit(1 & w, k) = Bit(w % 2, k)
    <2>1. Bit(1 & w, k) = Bit(1, k) * Bit(w, k) /\ k \in Nat
      BY <1>1, BitsOfLogic
    <2>2. Bit(1, k) = (IF k = 0 THEN 1 ELSE 0) /\ Bit(w, k) \in {0, 1}
      BY <1>1, <2>1, BitOfOne, BitIsBit
    <2>3. Bit(w, 0) = w % 2
      BY <1>1, LastBit
    <2>4. CASE w % 2 = 0
      BY <2>1, <2>2, <2>3, <2>4, BitOfZero
    <2>5. CASE w % 2 = 1
      BY <2>1, <2>2, <2>3, <2>5, BitOfOne
    <2> QED
      BY <1>3, <2>4, <2>5
  <1>5. (1 & w) = w % 2
    BY <1>1, <1>2, <1>3, <1>4, SameBits
  <1>6. ASSUME w \in {0, 1} PROVE (w ^^ 1) = 1 - w
    <2>1. ASSUME NEW k \in 0 .. Bits - 1 PROVE Bit(w ^^ 1, k) = Bit(1 - w, k)
      <3>1. Bit(w ^^ 1, k) = (Bit(w, k) + Bit(1, k)) % 2 /\ k \in Nat
        BY <1>1, BitsOfLogic
      <3>2. Bit(1, k) = (IF k = 0 THEN 1 ELSE 0) /\ Bit(0, k) = 0
        BY <3>1, BitOfOne, BitOfZero
      <3>3. CASE w = 0
        BY <3>1, <3>2, <3>3
      <3>4. CASE w = 1
        BY <3>1, <3>2, <3>4
      <3> QED
        BY <1>6, <3>3, <3>4
    <2>2. 1 - w \in Words
      BY <1>1, <1>6
    <2> QED
      BY <1>2, <2>1, <2>2, SameBits
  <1> QED
    BY <1>5, <1>6

LEMMA FusedTestsLikeC ==
    ASSUME NEW t \in Words
    PROVE  NOT_IM_AND(t) = (1 & (Modulus - 1 - t))
  <1> DEFINE b == Byte(t, 3)
             v == Modulus - 1 - t
             h == High(t)
             e == Byte(t, 2)
  <1>1. /\ b \in 0 .. BYTE - 1 /\ e \in 0 .. BYTE - 1 /\ Low(t) = e * BYTE + b
        /\ h \in Nat /\ t = h * HalfMod + Low(t)
    BY WordBytes, Halves
  <1>2. /\ BYTE = 2 * IMBASE /\ HalfMod = BYTE * BYTE /\ Modulus = HalfMod * HalfMod
        /\ IMBASE \in Nat \ {0} /\ Modulus \in Nat \ {0}
    BY WordSizes
  <1>3. NOT_IM_AND(t) = ((1 & b) ^^ 1)
    BY DEF NOT_IM_AND
  <1>4. b \in Words
    BY <1>1, ByteBounds
  <1> HIDE DEF b, h, e
  <1>5. (1 & b) = b % 2 /\ b % 2 \in {0, 1}
    BY <1>1, <1>4, OnlyLastBit
  <1>6. b % 2 \in Words /\ (1 & b) \in Words
    BY <1>5, ZeroAndOne
  <1>7. NOT_IM_AND(t) = 1 - (b % 2)
    BY <1>3, <1>5, <1>6, OnlyLastBit
  <1>8. v \in Words
    BY <1>2 DEF Words
  <1>9. (1 & v) = v % 2
    BY <1>8, OnlyLastBit
  <1>10. \E i \in Int : t = 2 * i + b
    <2>1. \A x, y, z \in Int : y * ((2 * x) * (2 * x)) + (z * (2 * x) + b) = 2 * (y * (x * (2 * x)) + z * x) + b
      BY <1>1, Z3
    <2>2. t = 2 * (h * (IMBASE * (2 * IMBASE)) + e * IMBASE) + b
      BY <1>1, <1>2, <2>1
    <2>3. \A x, y, z \in Int : y * (x * (2 * x)) + z * x \in Int
      BY Z3
    <2>4. h * (IMBASE * (2 * IMBASE)) + e * IMBASE \in Int
      BY <1>1, <1>2, <2>3
    <2> QED
      BY <2>2, <2>4
  <1>11. \E i \in Int : Modulus = 2 * i
    <2>1. \A x \in Int : ((2 * x) * (2 * x)) * ((2 * x) * (2 * x)) = 2 * (8 * x * x * x * x)
      BY Z3
    <2>2. 8 * IMBASE * IMBASE * IMBASE * IMBASE \in Int
      BY <1>2, Z3
    <2> QED
      BY <1>2, <2>1, <2>2
  <1>12. v % 2 = 1 - (b % 2)
    <2>1. PICK i \in Int : t = 2 * i + b
      BY <1>10
    <2>2. PICK j \in Int : Modulus = 2 * j
      BY <1>11
    <2> QED
      BY <1>1, <2>1, <2>2
  <1> QED
    BY <1>7, <1>9, <1>12

-----------------------------------------------------------------------------
LEMMA ShiftsLikeC ==
    ASSUME NEW t \in Words, NEW n \in Words, Shiftable(t)
    PROVE  /\ opLSHIFTRIGHT(t, n) = Binary("LSHIFTRIGHT", t, n)
           /\ opASHIFTRIGHT(t, n) = Binary("ASHIFTRIGHT", t, n)
           /\ Low(n) # 0 => opASHIFTLEFT(t, n) = Binary("ASHIFTLEFT", t, n)
  <1> DEFINE s == t % Bits
             p == 2 ** s
  <1>1. s = Amount(t) /\ s \in Nat
    <2> DEFINE m == 2 * Bits
               q == t \div m
               r == t % m
    <2>1. Bits \in Nat \ {0} /\ m \in Nat \ {0} /\ t \in Int
      BY WordConstants DEF Words
    <2>2. q \in Int /\ r \in 0 .. m - 1 /\ t = m * q + r
      <3> HIDE DEF m
      <3> QED
        BY ONLY <2>1, Division DEF q, r
    <2>3. r < Bits /\ Amount(t) = r
      BY DEF Shiftable, Amount
    <2> HIDE DEF q, r
    <2>4. t = r + Bits * (2 * q) /\ 2 * q \in Int /\ r \in 0 .. Bits - 1
      BY <2>1, <2>2, <2>3, Z3
    <2> DEFINE z == 2 * q
    <2>5. z \in Int /\ t = r + Bits * z
      BY <2>4
    <2> HIDE DEF z
    <2>6. (r + Bits * z) % Bits = r % Bits
      <3>1. r \in Int /\ Bits \in Nat \ {0}
        BY <2>1, <2>2
      <3> QED
        BY ONLY <2>5, <3>1, Multiple
    <2>7. r % Bits = r
      BY <2>1, <2>4, Small
    <2> QED
      BY <2>2, <2>3, <2>5, <2>6, <2>7
  <1>2. p \in Nat \ {0}
    BY <1>1, PowerPositive
  <1>3. /\ Binary("LSHIFTRIGHT", t, n) = n \div p
        /\ Binary("ASHIFTRIGHT", t, n) = Wrap(Signed(n) \div p)
        /\ Binary("ASHIFTLEFT", t, n) = Wrap(n * p)
    BY <1>1 DEF Binary
  <1>4. opASHIFTRIGHT(t, n) = Wrap(Signed(n) \div p)
    BY DEF opASHIFTRIGHT
  <1>5. Low(n) # 0 => opASHIFTLEFT(t, n) = Wrap(n * p)
    BY DEF opASHIFTLEFT
  <1>6. opLSHIFTRIGHT(t, n) = IF High(n) = 0 THEN Pair(0, Low(n) \div p) ELSE n \div p
    BY DEF opLSHIFTRIGHT
  <1> HIDE DEF p
  <1>7. ASSUME High(n) = 0 PROVE Pair(0, Low(n) \div p) = n \div p
    <2> DEFINE l == Low(n)
    <2>1. l \in 0 .. HalfMod - 1 /\ n = 0 * HalfMod + l /\ HalfMod \in Nat \ {0}
      BY <1>7, Halves, WordSizes
    <2>2. n = l
      BY <2>1
    <2> HIDE DEF l
    <2>3. l \div p \in 0 .. l
      BY <1>2, <2>1, LessQuotient
    <2> DEFINE x == l \div p
    <2>4. x \in 0 .. HalfMod - 1 /\ 0 \in 0 .. HalfMod - 1
      BY <2>1, <2>3
    <2> HIDE DEF x
    <2>5. Pair(0, x) = 0 * HalfMod + x
      BY <2>4, PairIs
    <2>6. Pair(0, x) = x
      BY <2>1, <2>4, <2>5
    <2> QED
      BY <2>2, <2>6 DEF x, l
  <1> QED
    BY <1>3, <1>4, <1>5, <1>6, <1>7


-----------------------------------------------------------------------------
\* The sums of products of bytes.
IsSum(s, products, t, n) ==
    s = [i \in 0 .. Len(products) |-> IF i = 0 THEN 0 ELSE Wrap(s[i - 1] + Term(products[i], t, n))]

Factors == (0 .. 3) \X (0 .. 3)

LEMMA TermInt ==
    ASSUME NEW p \in Factors, p[1] + p[2] >= 3, NEW t \in Words, NEW n \in Words
    PROVE  Term(p, t, n) \in Int
  <1>1. p[1] \in 0 .. 3 /\ p[2] \in 0 .. 3
    BY DEF Factors
  <1>2. Byte(t, p[1]) \in Int /\ Byte(n, p[2]) \in Int
    BY <1>1, WordBytes
  <1>3. 6 - p[1] - p[2] \in Nat
    BY <1>1
  <1>4. BYTE ** (6 - p[1] - p[2]) \in Nat
    BY <1>3, WordSizes, PowerStep
  <1> QED
    BY <1>2, <1>4 DEF Term

LEMMA SumSteps ==
    ASSUME NEW products \in Seq(Factors), \A i \in 1 .. Len(products) : products[i][1] + products[i][2] >= 3,
           NEW t \in Words, NEW n \in Words
    PROVE  \E s : IsSum(s, products, t, n) /\ Sum(products, t, n) = s[Len(products)]
  <1> DEFINE e(i) == IF i < Len(products) THEN Term(products[i + 1], t, n) ELSE 0
             step == [i \in Nat |-> [v \in Words |-> Wrap(v + e(i))]]
             g == CHOOSE s : IsSum(s, products, t, n)
  <1>1. Len(products) \in Nat
    OBVIOUS
  <1>2. ASSUME NEW i \in Nat PROVE e(i) \in Int
    <2>1. i < Len(products) => i + 1 \in 1 .. Len(products) /\ products[i + 1] \in Factors
      BY <1>1
    <2> QED
      BY <2>1, TermInt
  <1>3. \A i \in Nat : i < Len(products) => e(i) = Term(products[i + 1], t, n)
    OBVIOUS
  <1> HIDE DEF e
  <1>4. step \in [Nat -> [Words -> Words]] /\ \A i \in Nat, v \in Words : step[i][v] = Wrap(v + e(i))
    <2>1. ASSUME NEW i \in Nat, NEW v \in Words PROVE Wrap(v + e(i)) \in Words
      <3>1. v + e(i) \in Int
        BY <1>2 DEF Words
      <3> QED
        BY <3>1, WrapWord
    <2> QED
      BY <2>1
  <1> HIDE DEF step
  <1>5. PICK f : Recursive(f, Words, 0, step)
    BY <1>4, ZeroAndOne, Recursion
  <1> DEFINE s == [i \in 0 .. Len(products) |-> f[i]]
  <1>6. ASSUME NEW i \in 0 .. Len(products)
        PROVE  f[i] = IF i = 0 THEN 0 ELSE Wrap(s[i - 1] + Term(products[i], t, n))
    <2>1. CASE i = 0
      BY <1>5, <2>1 DEF Recursive
    <2>2. CASE i # 0
      <3>1. i - 1 \in Nat /\ (i - 1) + 1 = i /\ i - 1 < Len(products) /\ i - 1 \in 0 .. Len(products)
        BY <1>1, <2>2
      <3>2. f[i] = step[i - 1][f[i - 1]] /\ f[i - 1] \in Words
        BY <1>5, <3>1 DEF Recursive
      <3>3. e(i - 1) = Term(products[i], t, n)
        BY <1>3, <3>1
      <3>4. s[i - 1] = f[i - 1]
        BY <3>1
      <3> QED
        BY <1>4, <2>2, <3>1, <3>2, <3>3, <3>4
    <2> QED
      BY <2>1, <2>2
  <1>7. IsSum(s, products, t, n)
    BY <1>6 DEF IsSum
  <1> HIDE DEF s
  <1>8. IsSum(g, products, t, n)
    BY <1>7
  <1>9. Sum(products, t, n) = g[Len(products)]
    BY DEF Sum, IsSum
  <1> QED
    BY <1>8, <1>9

LEMMA SignedMultiple ==
    ASSUME NEW w \in Words
    PROVE  \E e \in Int : Signed(w) = w + Modulus * e
  <1>1. Modulus \in Nat \ {0} /\ w \in Int
    BY WordConstants DEF Words
  <1>2. CASE 2 * w >= Modulus
    <2>1. Signed(w) = w + Modulus * (-1)
      BY <1>1, <1>2 DEF Signed
    <2> QED
      BY <2>1
  <1>3. CASE ~(2 * w >= Modulus)
    <2>1. Signed(w) = w + Modulus * 0
      BY <1>1, <1>3 DEF Signed
    <2> QED
      BY <2>1
  <1> QED
    BY <1>2, <1>3

LEMMA Polynomial ==
    ASSUME NEW x \in Int, NEW a \in Int, NEW b \in Int, NEW c \in Int, NEW d \in Int,
           NEW e \in Int, NEW f \in Int, NEW g \in Int, NEW h \in Int
    PROVE  ((a * x + b) * (x * x) + (c * x + d)) * ((e * x + f) * (x * x) + (g * x + h))
             = d * h + c * h * x + d * g * x + b * h * (x * x) + c * g * (x * x) + d * f * (x * x)
                 + a * h * (x * x * x) + b * g * (x * x * x) + c * f * (x * x * x) + d * e * (x * x * x)
                 + (x * x) * (x * x) * (a * e * (x * x) + (a * f + b * e) * x + (a * g + b * f + c * e))
  BY Z3


LEMMA TermIs ==
    ASSUME NEW t, NEW n, NEW i \in 0 .. 3, NEW j \in 0 .. 3, NEW k \in Nat, 6 - i - j = k
    PROVE  Term(<<i, j>>, t, n) = Byte(t, i) * Byte(n, j) * (BYTE ** k)
  <1>1. <<i, j>>[1] = i /\ <<i, j>>[2] = j
    OBVIOUS
  <1> QED
    BY <1>1 DEF Term

\* A product that counts for each place of the bytes of the factors.
LEMMA TermsByPlace ==
    ASSUME NEW t \in Words, NEW n \in Words, NEW i \in 0 .. 3, NEW j \in 0 .. 3
    PROVE  /\ Byte(t, i) * Byte(n, j) \in Int
           /\ i + j = 6 => Term(<<i, j>>, t, n) = Byte(t, i) * Byte(n, j)
           /\ i + j = 5 => Term(<<i, j>>, t, n) = Byte(t, i) * Byte(n, j) * BYTE
           /\ i + j = 4 => Term(<<i, j>>, t, n) = Byte(t, i) * Byte(n, j) * (BYTE * BYTE)
           /\ i + j = 3 => Term(<<i, j>>, t, n) = Byte(t, i) * Byte(n, j) * (BYTE * BYTE * BYTE)
  <1>1. Byte(t, i) \in Int /\ Byte(n, j) \in Int
    BY WordBytes
  <1>2. Byte(t, i) * Byte(n, j) \in Int
    BY <1>1
  <1> DEFINE p == Byte(t, i) * Byte(n, j)
  <1>3. p * 1 = p
    BY <1>2
  <1>4. ASSUME i + j = 6 PROVE Term(<<i, j>>, t, n) = p * (BYTE ** 0)
    BY <1>4, TermIs
  <1>5. ASSUME i + j = 5 PROVE Term(<<i, j>>, t, n) = p * (BYTE ** 1)
    BY <1>5, TermIs
  <1>6. ASSUME i + j = 4 PROVE Term(<<i, j>>, t, n) = p * (BYTE ** 2)
    BY <1>6, TermIs
  <1>7. ASSUME i + j = 3 PROVE Term(<<i, j>>, t, n) = p * (BYTE ** 3)
    BY <1>7, TermIs
  <1> QED
    BY <1>2, <1>3, <1>4, <1>5, <1>6, <1>7, WordSizes

\* All of them that reach into the word: a product of words.
LEMMA SumOfProducts ==
    ASSUME NEW t \in Words, NEW n \in Words
    PROVE  Sum(Products, t, n) = Wrap(t * n)
  <1> DEFINE a == Byte(t, 0)
             b == Byte(t, 1)
             c == Byte(t, 2)
             d == Byte(t, 3)
             e == Byte(n, 0)
             f == Byte(n, 1)
             g == Byte(n, 2)
             h == Byte(n, 3)
             x == BYTE
             T1 == d * h
             T2 == c * h * x
             T3 == d * g * x
             T4 == b * h * (x * x)
             T5 == c * g * (x * x)
             T6 == d * f * (x * x)
             T7 == a * h * (x * x * x)
             T8 == b * g * (x * x * x)
             T9 == c * f * (x * x * x)
             T10 == d * e * (x * x * x)
  <1>1. /\ a \in Int /\ b \in Int /\ c \in Int /\ d \in Int
        /\ e \in Int /\ f \in Int /\ g \in Int /\ h \in Int /\ x \in Int
    BY WordBytes, WordSizes
  <1>2. Len(Products) = 10 /\ Products \in Seq(Factors)
        /\ \A i \in 1 .. Len(Products) : Products[i][1] + Products[i][2] >= 3
    BY DEF Products, Factors
  <1>3. /\ Products[1] = <<3, 3>>
        /\ Products[2] = <<2, 3>>
        /\ Products[3] = <<3, 2>>
        /\ Products[4] = <<1, 3>>
        /\ Products[5] = <<2, 2>>
        /\ Products[6] = <<3, 1>>
        /\ Products[7] = <<0, 3>>
        /\ Products[8] = <<1, 2>>
        /\ Products[9] = <<2, 1>>
        /\ Products[10] = <<3, 0>>
    BY DEF Products
  <1>4. Term(Products[1], t, n) = T1 /\ T1 \in Int
    <2>1. Term(<<3, 3>>, t, n) = T1
      BY TermsByPlace
    <2>2. T1 \in Int
      BY <1>1, Z3
    <2> QED
      BY <1>3, <2>1, <2>2
  <1>5. Term(Products[2], t, n) = T2 /\ T2 \in Int
    <2>1. Term(<<2, 3>>, t, n) = T2
      BY TermsByPlace
    <2>2. T2 \in Int
      BY <1>1, Z3
    <2> QED
      BY <1>3, <2>1, <2>2
  <1>6. Term(Products[3], t, n) = T3 /\ T3 \in Int
    <2>1. Term(<<3, 2>>, t, n) = T3
      BY TermsByPlace
    <2>2. T3 \in Int
      BY <1>1, Z3
    <2> QED
      BY <1>3, <2>1, <2>2
  <1>7. Term(Products[4], t, n) = T4 /\ T4 \in Int
    <2>1. Term(<<1, 3>>, t, n) = T4
      BY TermsByPlace
    <2>2. T4 \in Int
      BY <1>1, Z3
    <2> QED
      BY <1>3, <2>1, <2>2
  <1>8. Term(Products[5], t, n) = T5 /\ T5 \in Int
    <2>1. Term(<<2, 2>>, t, n) = T5
      BY TermsByPlace
    <2>2. T5 \in Int
      BY <1>1, Z3
    <2> QED
      BY <1>3, <2>1, <2>2
  <1>9. Term(Products[6], t, n) = T6 /\ T6 \in Int
    <2>1. Term(<<3, 1>>, t, n) = T6
      BY TermsByPlace
    <2>2. T6 \in Int
      BY <1>1, Z3
    <2> QED
      BY <1>3, <2>1, <2>2
  <1>10. Term(Products[7], t, n) = T7 /\ T7 \in Int
    <2>1. Term(<<0, 3>>, t, n) = T7
      BY TermsByPlace
    <2>2. T7 \in Int
      BY <1>1, Z3
    <2> QED
      BY <1>3, <2>1, <2>2
  <1>11. Term(Products[8], t, n) = T8 /\ T8 \in Int
    <2>1. Term(<<1, 2>>, t, n) = T8
      BY TermsByPlace
    <2>2. T8 \in Int
      BY <1>1, Z3
    <2> QED
      BY <1>3, <2>1, <2>2
  <1>12. Term(Products[9], t, n) = T9 /\ T9 \in Int
    <2>1. Term(<<2, 1>>, t, n) = T9
      BY TermsByPlace
    <2>2. T9 \in Int
      BY <1>1, Z3
    <2> QED
      BY <1>3, <2>1, <2>2
  <1>13. Term(Products[10], t, n) = T10 /\ T10 \in Int
    <2>1. Term(<<3, 0>>, t, n) = T10
      BY TermsByPlace
    <2>2. T10 \in Int
      BY <1>1, Z3
    <2> QED
      BY <1>3, <2>1, <2>2
  <1>14. PICK s : IsSum(s, Products, t, n) /\ Sum(Products, t, n) = s[Len(Products)]
    BY <1>2, SumSteps
  <1> HIDE DEF T1, T2, T3, T4, T5, T6, T7, T8, T9, T10
  <1>15. \A i \in 1 .. 10 : s[i] = Wrap(s[i - 1] + Term(Products[i], t, n))
    BY <1>2, <1>14 DEF IsSum
  <1>16. s[0] = Wrap(0)
    <2>1. s[0] = 0
      BY <1>2, <1>14 DEF IsSum
    <2>2. Wrap(0) = 0
      BY WordSizes DEF Wrap
    <2> QED
      BY <2>1, <2>2
  <1>17. s[1] = Wrap(T1)
    <2> DEFINE v == 0
    <2>1. v \in Int /\ s[0] = Wrap(v) /\ v + T1 = T1
      BY <1>4, <1>16
    <2>2. s[1] = Wrap(s[0] + T1)
      BY <1>4, <1>15
    <2> HIDE DEF v
    <2>3. Wrap(Wrap(v) + T1) = Wrap(v + T1)
      BY <1>4, <2>1, WrapWrap
    <2> QED
      BY <2>1, <2>2, <2>3
  <1>18. s[2] = Wrap(T1 + T2)
    <2> DEFINE v == T1
    <2>1. v \in Int /\ s[1] = Wrap(v) /\ v + T2 = T1 + T2
      BY <1>4, <1>5, <1>17
    <2>2. s[2] = Wrap(s[1] + T2)
      BY <1>5, <1>15
    <2> HIDE DEF v
    <2>3. Wrap(Wrap(v) + T2) = Wrap(v + T2)
      BY <1>5, <2>1, WrapWrap
    <2> QED
      BY <2>1, <2>2, <2>3
  <1>19. s[3] = Wrap(T1 + T2 + T3)
    <2> DEFINE v == T1 + T2
    <2>1. v \in Int /\ s[2] = Wrap(v) /\ v + T3 = T1 + T2 + T3
      BY <1>4, <1>5, <1>6, <1>18
    <2>2. s[3] = Wrap(s[2] + T3)
      BY <1>6, <1>15
    <2> HIDE DEF v
    <2>3. Wrap(Wrap(v) + T3) = Wrap(v + T3)
      BY <1>6, <2>1, WrapWrap
    <2> QED
      BY <2>1, <2>2, <2>3
  <1>20. s[4] = Wrap(T1 + T2 + T3 + T4)
    <2> DEFINE v == T1 + T2 + T3
    <2>1. v \in Int /\ s[3] = Wrap(v) /\ v + T4 = T1 + T2 + T3 + T4
      BY <1>4, <1>5, <1>6, <1>7, <1>19
    <2>2. s[4] = Wrap(s[3] + T4)
      BY <1>7, <1>15
    <2> HIDE DEF v
    <2>3. Wrap(Wrap(v) + T4) = Wrap(v + T4)
      BY <1>7, <2>1, WrapWrap
    <2> QED
      BY <2>1, <2>2, <2>3
  <1>21. s[5] = Wrap(T1 + T2 + T3 + T4 + T5)
    <2> DEFINE v == T1 + T2 + T3 + T4
    <2>1. v \in Int /\ s[4] = Wrap(v) /\ v + T5 = T1 + T2 + T3 + T4 + T5
      BY <1>4, <1>5, <1>6, <1>7, <1>8, <1>20
    <2>2. s[5] = Wrap(s[4] + T5)
      BY <1>8, <1>15
    <2> HIDE DEF v
    <2>3. Wrap(Wrap(v) + T5) = Wrap(v + T5)
      BY <1>8, <2>1, WrapWrap
    <2> QED
      BY <2>1, <2>2, <2>3
  <1>22. s[6] = Wrap(T1 + T2 + T3 + T4 + T5 + T6)
    <2> DEFINE v == T1 + T2 + T3 + T4 + T5
    <2>1. v \in Int /\ s[5] = Wrap(v) /\ v + T6 = T1 + T2 + T3 + T4 + T5 + T6
      BY <1>4, <1>5, <1>6, <1>7, <1>8, <1>9, <1>21
    <2>2. s[6] = Wrap(s[5] + T6)
      BY <1>9, <1>15
    <2> HIDE DEF v
    <2>3. Wrap(Wrap(v) + T6) = Wrap(v + T6)
      BY <1>9, <2>1, WrapWrap
    <2> QED
      BY <2>1, <2>2, <2>3
  <1>23. s[7] = Wrap(T1 + T2 + T3 + T4 + T5 + T6 + T7)
    <2> DEFINE v == T1 + T2 + T3 + T4 + T5 + T6
    <2>1. v \in Int /\ s[6] = Wrap(v) /\ v + T7 = T1 + T2 + T3 + T4 + T5 + T6 + T7
      BY <1>4, <1>5, <1>6, <1>7, <1>8, <1>9, <1>10, <1>22
    <2>2. s[7] = Wrap(s[6] + T7)
      BY <1>10, <1>15
    <2> HIDE DEF v
    <2>3. Wrap(Wrap(v) + T7) = Wrap(v + T7)
      BY <1>10, <2>1, WrapWrap
    <2> QED
      BY <2>1, <2>2, <2>3
  <1>24. s[8] = Wrap(T1 + T2 + T3 + T4 + T5 + T6 + T7 + T8)
    <2> DEFINE v == T1 + T2 + T3 + T4 + T5 + T6 + T7
    <2>1. v \in Int /\ s[7] = Wrap(v) /\ v + T8 = T1 + T2 + T3 + T4 + T5 + T6 + T7 + T8
      BY <1>4, <1>5, <1>6, <1>7, <1>8, <1>9, <1>10, <1>11, <1>23
    <2>2. s[8] = Wrap(s[7] + T8)
      BY <1>11, <1>15
    <2> HIDE DEF v
    <2>3. Wrap(Wrap(v) + T8) = Wrap(v + T8)
      BY <1>11, <2>1, WrapWrap
    <2> QED
      BY <2>1, <2>2, <2>3
  <1>25. s[9] = Wrap(T1 + T2 + T3 + T4 + T5 + T6 + T7 + T8 + T9)
    <2> DEFINE v == T1 + T2 + T3 + T4 + T5 + T6 + T7 + T8
    <2>1. v \in Int /\ s[8] = Wrap(v) /\ v + T9 = T1 + T2 + T3 + T4 + T5 + T6 + T7 + T8 + T9
      BY <1>4, <1>5, <1>6, <1>7, <1>8, <1>9, <1>10, <1>11, <1>12, <1>24
    <2>2. s[9] = Wrap(s[8] + T9)
      BY <1>12, <1>15
    <2> HIDE DEF v
    <2>3. Wrap(Wrap(v) + T9) = Wrap(v + T9)
      BY <1>12, <2>1, WrapWrap
    <2> QED
      BY <2>1, <2>2, <2>3
  <1>26. s[10] = Wrap(T1 + T2 + T3 + T4 + T5 + T6 + T7 + T8 + T9 + T10)
    <2> DEFINE v == T1 + T2 + T3 + T4 + T5 + T6 + T7 + T8 + T9
    <2>1. v \in Int /\ s[9] = Wrap(v) /\ v + T10 = T1 + T2 + T3 + T4 + T5 + T6 + T7 + T8 + T9 + T10
      BY <1>4, <1>5, <1>6, <1>7, <1>8, <1>9, <1>10, <1>11, <1>12, <1>13, <1>25
    <2>2. s[10] = Wrap(s[9] + T10)
      BY <1>13, <1>15
    <2> HIDE DEF v
    <2>3. Wrap(Wrap(v) + T10) = Wrap(v + T10)
      BY <1>13, <2>1, WrapWrap
    <2> QED
      BY <2>1, <2>2, <2>3
  <1>27. Sum(Products, t, n) = Wrap(T1 + T2 + T3 + T4 + T5 + T6 + T7 + T8 + T9 + T10)
    BY <1>2, <1>14, <1>26
  <1> DEFINE v == T1 + T2 + T3 + T4 + T5 + T6 + T7 + T8 + T9 + T10
             z == a * e * (x * x) + (a * f + b * e) * x + (a * g + b * f + c * e)
  <1>28. v \in Int
    BY <1>4, <1>5, <1>6, <1>7, <1>8, <1>9, <1>10, <1>11, <1>12, <1>13
  <1>29. z \in Int
    BY <1>1, Z3
  <1>30. t = (a * x + b) * (x * x) + (c * x + d) /\ n = (e * x + f) * (x * x) + (g * x + h)
        /\ Modulus = (x * x) * (x * x)
    BY WordBytes, Halves, WordSizes
  <1>31. t * n = v + Modulus * z
    <2> HIDE DEF a, b, c, d, e, f, g, h, x
    <2>1. ((a * x + b) * (x * x) + (c * x + d)) * ((e * x + f) * (x * x) + (g * x + h))
            = d * h + c * h * x + d * g * x + b * h * (x * x) + c * g * (x * x) + d * f * (x * x) + a * h * (x * x * x) + b * g * (x * x * x) + c * f * (x * x * x) + d * e * (x * x * x)
                + (x * x) * (x * x) * z
      BY <1>1, Polynomial
    <2> QED
      BY <1>30, <2>1 DEF T1, T2, T3, T4, T5, T6, T7, T8, T9, T10
  <1> HIDE DEF v, z
  <1>32. (v + Modulus * z) % Modulus = v % Modulus
    <2>1. Modulus \in Nat \ {0}
      BY WordSizes
    <2> QED
      BY ONLY <1>28, <1>29, <2>1, Multiple
  <1> QED
    BY <1>27, <1>31, <1>32 DEF Wrap, v

\* Those of the lower halves: the product of these.
LEMMA SumOfLowProducts ==
    ASSUME NEW t \in Words, NEW n \in Words
    PROVE  Sum(Products16, t, n) = (n % HalfMod) * (t % HalfMod)
  <1> DEFINE a == Byte(t, 0)
             b == Byte(t, 1)
             c == Byte(t, 2)
             d == Byte(t, 3)
             e == Byte(n, 0)
             f == Byte(n, 1)
             g == Byte(n, 2)
             h == Byte(n, 3)
             x == BYTE
             T1 == d * h
             T2 == c * h * x
             T3 == d * g * x
             T4 == c * g * (x * x)
  <1>1. /\ a \in Int /\ b \in Int /\ c \in Int /\ d \in Int
        /\ e \in Int /\ f \in Int /\ g \in Int /\ h \in Int /\ x \in Int
    BY WordBytes, WordSizes
  <1>2. Len(Products16) = 4 /\ Products16 \in Seq(Factors)
        /\ \A i \in 1 .. Len(Products16) : Products16[i][1] + Products16[i][2] >= 3
    BY DEF Products16, Factors
  <1>3. /\ Products16[1] = <<3, 3>>
        /\ Products16[2] = <<2, 3>>
        /\ Products16[3] = <<3, 2>>
        /\ Products16[4] = <<2, 2>>
    BY DEF Products16
  <1>4. Term(Products16[1], t, n) = T1 /\ T1 \in Int
    <2>1. Term(<<3, 3>>, t, n) = T1
      BY TermsByPlace
    <2>2. T1 \in Int
      BY <1>1, Z3
    <2> QED
      BY <1>3, <2>1, <2>2
  <1>5. Term(Products16[2], t, n) = T2 /\ T2 \in Int
    <2>1. Term(<<2, 3>>, t, n) = T2
      BY TermsByPlace
    <2>2. T2 \in Int
      BY <1>1, Z3
    <2> QED
      BY <1>3, <2>1, <2>2
  <1>6. Term(Products16[3], t, n) = T3 /\ T3 \in Int
    <2>1. Term(<<3, 2>>, t, n) = T3
      BY TermsByPlace
    <2>2. T3 \in Int
      BY <1>1, Z3
    <2> QED
      BY <1>3, <2>1, <2>2
  <1>7. Term(Products16[4], t, n) = T4 /\ T4 \in Int
    <2>1. Term(<<2, 2>>, t, n) = T4
      BY TermsByPlace
    <2>2. T4 \in Int
      BY <1>1, Z3
    <2> QED
      BY <1>3, <2>1, <2>2
  <1>8. PICK s : IsSum(s, Products16, t, n) /\ Sum(Products16, t, n) = s[Len(Products16)]
    BY <1>2, SumSteps
  <1> HIDE DEF T1, T2, T3, T4
  <1>9. \A i \in 1 .. 4 : s[i] = Wrap(s[i - 1] + Term(Products16[i], t, n))
    BY <1>2, <1>8 DEF IsSum
  <1>10. s[0] = Wrap(0)
    <2>1. s[0] = 0
      BY <1>2, <1>8 DEF IsSum
    <2>2. Wrap(0) = 0
      BY WordSizes DEF Wrap
    <2> QED
      BY <2>1, <2>2
  <1>11. s[1] = Wrap(T1)
    <2> DEFINE v == 0
    <2>1. v \in Int /\ s[0] = Wrap(v) /\ v + T1 = T1
      BY <1>4, <1>10
    <2>2. s[1] = Wrap(s[0] + T1)
      BY <1>4, <1>9
    <2> HIDE DEF v
    <2>3. Wrap(Wrap(v) + T1) = Wrap(v + T1)
      BY <1>4, <2>1, WrapWrap
    <2> QED
      BY <2>1, <2>2, <2>3
  <1>12. s[2] = Wrap(T1 + T2)
    <2> DEFINE v == T1
    <2>1. v \in Int /\ s[1] = Wrap(v) /\ v + T2 = T1 + T2
      BY <1>4, <1>5, <1>11
    <2>2. s[2] = Wrap(s[1] + T2)
      BY <1>5, <1>9
    <2> HIDE DEF v
    <2>3. Wrap(Wrap(v) + T2) = Wrap(v + T2)
      BY <1>5, <2>1, WrapWrap
    <2> QED
      BY <2>1, <2>2, <2>3
  <1>13. s[3] = Wrap(T1 + T2 + T3)
    <2> DEFINE v == T1 + T2
    <2>1. v \in Int /\ s[2] = Wrap(v) /\ v + T3 = T1 + T2 + T3
      BY <1>4, <1>5, <1>6, <1>12
    <2>2. s[3] = Wrap(s[2] + T3)
      BY <1>6, <1>9
    <2> HIDE DEF v
    <2>3. Wrap(Wrap(v) + T3) = Wrap(v + T3)
      BY <1>6, <2>1, WrapWrap
    <2> QED
      BY <2>1, <2>2, <2>3
  <1>14. s[4] = Wrap(T1 + T2 + T3 + T4)
    <2> DEFINE v == T1 + T2 + T3
    <2>1. v \in Int /\ s[3] = Wrap(v) /\ v + T4 = T1 + T2 + T3 + T4
      BY <1>4, <1>5, <1>6, <1>7, <1>13
    <2>2. s[4] = Wrap(s[3] + T4)
      BY <1>7, <1>9
    <2> HIDE DEF v
    <2>3. Wrap(Wrap(v) + T4) = Wrap(v + T4)
      BY <1>7, <2>1, WrapWrap
    <2> QED
      BY <2>1, <2>2, <2>3
  <1>15. Sum(Products16, t, n) = Wrap(T1 + T2 + T3 + T4)
    BY <1>2, <1>8, <1>14
  <1> DEFINE l == c * x + d
             k == g * x + h
             v == T1 + T2 + T3 + T4
  <1>16. l = t % HalfMod /\ k = n % HalfMod /\ l \in 0 .. HalfMod - 1 /\ k \in 0 .. HalfMod - 1
    BY WordBytes, Halves DEF Low
  <1>17. v = l * k
    <2> HIDE DEF c, d, g, h, x
    <2>1. \A y, p, q, r, u \in Int : q * u + p * u * y + q * r * y + p * r * (y * y) = (p * y + q) * (r * y + u)
      BY Z3
    <2>2. d * h + c * h * x + d * g * x + c * g * (x * x) = (c * x + d) * (g * x + h)
      BY <1>1, <2>1
    <2> QED
      BY <2>2 DEF T1, T2, T3, T4
  <1> HIDE DEF l, k, v
  <1>18. l * k \in 0 .. Modulus - 1
    <2>1. HalfMod \in Nat \ {0} /\ Modulus = HalfMod * HalfMod
      BY WordSizes
    <2>2. l * k \in Nat /\ l * k =< (HalfMod - 1) * (HalfMod - 1)
      BY <1>16, <2>1, Z3
    <2>3. (HalfMod - 1) * (HalfMod - 1) < HalfMod * HalfMod
      BY <2>1, Z3
    <2> QED
      BY <2>1, <2>2, <2>3
  <1>19. Wrap(v) = l * k
    BY <1>17, <1>18, WordSizes, Small DEF Wrap
  <1>20. l * k = k * l
    BY <1>16
  <1> QED
    BY <1>15, <1>16, <1>19, <1>20 DEF v

LEMMA MultipliesLikeC ==
    ASSUME NEW t \in Words, NEW n \in Words
    PROVE  Wrap(Signed(t) * Signed(n)) = Wrap(t * n)
  <1>1. PICK e \in Int : Signed(t) = t + Modulus * e
    BY SignedMultiple
  <1>2. PICK f \in Int : Signed(n) = n + Modulus * f
    BY SignedMultiple
  <1>3. Modulus \in Nat \ {0} /\ t \in Int /\ n \in Int
    BY WordConstants DEF Words
  <1> DEFINE z == e * n + f * t + Modulus * (e * f)
             v == t * n
  <1>4. z \in Int /\ v \in Int
    BY <1>1, <1>2, <1>3, Z3
  <1>5. \A m, x, y, p, q \in Int :
           (x + m * p) * (y + m * q) = x * y + m * (p * y + q * x + m * (p * q))
    BY Z3
  <1>6. Signed(t) * Signed(n) = v + Modulus * z
    BY <1>1, <1>2, <1>3, <1>5
  <1> HIDE DEF v, z
  <1>7. (v + Modulus * z) % Modulus = v % Modulus
    BY <1>3, <1>4, Multiple
  <1> QED
    BY <1>6, <1>7 DEF Wrap, v


-----------------------------------------------------------------------------
\* One instruction: all but the divisions and the immediates.
LEMMA StraightLikeC ==
    ASSUME op \in Straight, tos0 \in Words, nos0 \in Words,
           op \in Shifts => Shiftable(tos0), ~Deviates
    PROVE  Compute(tos0, nos0) = OfC(op, tos0, nos0)
  <1>1. CASE op = "NOT"
    <2>1. Compute(tos0, nos0) = opNOT(tos0)
      BY <1>1 DEF Compute
    <2>2. OfC(op, tos0, nos0) = Modulus - 1 - tos0
      BY <1>1 DEF OfC, UnaryOps, BinaryOps, Shifts, Unary
    <2> QED
      BY <2>1, <2>2, InvertsLikeC
  <1>2. CASE op = "NEG"
    <2>1. Compute(tos0, nos0) = neg_x(tos0)
      BY <1>2 DEF Compute
    <2>2. OfC(op, tos0, nos0) = Wrap(-tos0)
      BY <1>2 DEF OfC, UnaryOps, BinaryOps, Shifts, Unary
    <2> QED
      BY <2>1, <2>2, NegatesLikeC
  <1>3. CASE op = "FLIP"
    <2>1. Compute(tos0, nos0) = opFLIP(tos0)
      BY <1>3 DEF Compute
    <2>2. OfC(op, tos0, nos0) = flip(tos0)
      BY <1>3 DEF OfC, UnaryOps, BinaryOps, Shifts, Unary
    <2> QED
      BY <2>1, <2>2, FlipsLikeC
  <1>4. CASE op = "SWAP"
    <2>1. Compute(tos0, nos0) = opSWAP(tos0)
      BY <1>4 DEF Compute
    <2>2. OfC(op, tos0, nos0) = Unary("SWAP", tos0)
      BY <1>4 DEF OfC, UnaryOps, BinaryOps, Shifts, Unary
    <2> QED
      BY <2>1, <2>2, SwapsLikeC
  <1>5. CASE op = "ADD"
    <2>1. Compute(tos0, nos0) = opADD(tos0, nos0)
      BY <1>5 DEF Compute
    <2>2. OfC(op, tos0, nos0) = Wrap(tos0 + nos0)
      BY <1>5 DEF OfC, UnaryOps, BinaryOps, Shifts, Binary
    <2> QED
      BY <2>1, <2>2, AddsLikeC
  <1>6. CASE op = "SUB"
    <2>1. Compute(tos0, nos0) = opSUB(tos0, nos0)
      BY <1>6 DEF Compute
    <2>2. OfC(op, tos0, nos0) = Wrap(nos0 - tos0)
      BY <1>6 DEF OfC, UnaryOps, BinaryOps, Shifts, Binary
    <2> QED
      BY <2>1, <2>2, SubtractsLikeC
  <1>7. CASE op = "AND"
    <2>1. Compute(tos0, nos0) = opAND(tos0, nos0)
      BY <1>7 DEF Compute
    <2>2. OfC(op, tos0, nos0) = (tos0 & nos0)
      BY <1>7 DEF OfC, UnaryOps, BinaryOps, Shifts, Binary
    <2> QED
      BY <2>1, <2>2, AndsLikeC
  <1>8. CASE op = "OR"
    <2>1. Compute(tos0, nos0) = opOR(tos0, nos0)
      BY <1>8 DEF Compute
    <2>2. OfC(op, tos0, nos0) = (tos0 | nos0)
      BY <1>8 DEF OfC, UnaryOps, BinaryOps, Shifts, Binary
    <2> QED
      BY <2>1, <2>2, OrsLikeC
  <1>9. CASE op = "XOR"
    <2>1. Compute(tos0, nos0) = opXOR(tos0, nos0)
      BY <1>9 DEF Compute
    <2>2. OfC(op, tos0, nos0) = (tos0 ^^ nos0)
      BY <1>9 DEF OfC, UnaryOps, BinaryOps, Shifts, Binary
    <2> QED
      BY <2>1, <2>2, XorsLikeC
  <1>10. CASE op = "LESSTHAN"
    <2>1. Compute(tos0, nos0) = Truth(opLESS(tos0, nos0, FALSE))
      BY <1>10 DEF Compute
    <2>2. OfC(op, tos0, nos0) = Truth(Signed(tos0) < Signed(nos0))
      BY <1>10 DEF OfC, UnaryOps, BinaryOps, Shifts, Binary
    <2>3. opLESS(tos0, nos0, FALSE) <=> Signed(tos0) < Signed(nos0)
      BY ComparesLikeC
    <2>4. Truth(opLESS(tos0, nos0, FALSE)) = IF Signed(tos0) < Signed(nos0) THEN 1 ELSE 0
      BY <2>3 DEF Truth
    <2>5. Truth(Signed(tos0) < Signed(nos0)) = IF Signed(tos0) < Signed(nos0) THEN 1 ELSE 0
      BY DEF Truth
    <2> QED
      BY <2>1, <2>2, <2>4, <2>5
  <1>11. CASE op = "LESSTHANOREQUAL"
    <2>1. Compute(tos0, nos0) = Truth(opLESS(tos0, nos0, TRUE))
      BY <1>11 DEF Compute
    <2>2. OfC(op, tos0, nos0) = Truth(Signed(tos0) <= Signed(nos0))
      BY <1>11 DEF OfC, UnaryOps, BinaryOps, Shifts, Binary
    <2>3. opLESS(tos0, nos0, TRUE) <=> Signed(tos0) <= Signed(nos0)
      BY ComparesLikeC
    <2>4. Truth(opLESS(tos0, nos0, TRUE)) = IF Signed(tos0) <= Signed(nos0) THEN 1 ELSE 0
      BY <2>3 DEF Truth
    <2>5. Truth(Signed(tos0) <= Signed(nos0)) = IF Signed(tos0) <= Signed(nos0) THEN 1 ELSE 0
      BY DEF Truth
    <2> QED
      BY <2>1, <2>2, <2>4, <2>5
  <1>12. CASE op = "ULESSTHAN"
    <2>1. Compute(tos0, nos0) = Truth(opULESS(tos0, nos0, FALSE))
      BY <1>12 DEF Compute
    <2>2. OfC(op, tos0, nos0) = Truth(tos0 < nos0)
      BY <1>12 DEF OfC, UnaryOps, BinaryOps, Shifts, Binary
    <2>3. opULESS(tos0, nos0, FALSE) <=> tos0 < nos0
      BY ComparesLikeC
    <2>4. Truth(opULESS(tos0, nos0, FALSE)) = IF tos0 < nos0 THEN 1 ELSE 0
      BY <2>3 DEF Truth
    <2>5. Truth(tos0 < nos0) = IF tos0 < nos0 THEN 1 ELSE 0
      BY DEF Truth
    <2> QED
      BY <2>1, <2>2, <2>4, <2>5
  <1>13. CASE op = "ULESSTHANOREQUAL"
    <2>1. Compute(tos0, nos0) = Truth(opULESS(tos0, nos0, TRUE))
      BY <1>13 DEF Compute
    <2>2. OfC(op, tos0, nos0) = Truth(tos0 <= nos0)
      BY <1>13 DEF OfC, UnaryOps, BinaryOps, Shifts, Binary
    <2>3. opULESS(tos0, nos0, TRUE) <=> tos0 <= nos0
      BY ComparesLikeC
    <2>4. Truth(opULESS(tos0, nos0, TRUE)) = IF tos0 <= nos0 THEN 1 ELSE 0
      BY <2>3 DEF Truth
    <2>5. Truth(tos0 <= nos0) = IF tos0 <= nos0 THEN 1 ELSE 0
      BY DEF Truth
    <2> QED
      BY <2>1, <2>2, <2>4, <2>5
  <1>14. CASE op = "EQ"
    <2>1. Compute(tos0, nos0) = Truth(opEQ(tos0, nos0))
      BY <1>14 DEF Compute
    <2>2. OfC(op, tos0, nos0) = Truth(nos0 = tos0)
      BY <1>14 DEF OfC, UnaryOps, BinaryOps, Shifts, Binary
    <2>3. opEQ(tos0, nos0) <=> nos0 = tos0
      BY ComparesLikeC
    <2>4. Truth(opEQ(tos0, nos0)) = IF nos0 = tos0 THEN 1 ELSE 0
      BY <2>3 DEF Truth
    <2>5. Truth(nos0 = tos0) = IF nos0 = tos0 THEN 1 ELSE 0
      BY DEF Truth
    <2> QED
      BY <2>1, <2>2, <2>4, <2>5
  <1>15. CASE op = "NEQ"
    <2>1. Compute(tos0, nos0) = Truth(~opEQ(tos0, nos0))
      BY <1>15 DEF Compute
    <2>2. OfC(op, tos0, nos0) = Truth(nos0 # tos0)
      BY <1>15 DEF OfC, UnaryOps, BinaryOps, Shifts, Binary
    <2>3. ~opEQ(tos0, nos0) <=> nos0 # tos0
      BY ComparesLikeC
    <2>4. Truth(~opEQ(tos0, nos0)) = IF nos0 # tos0 THEN 1 ELSE 0
      BY <2>3 DEF Truth
    <2>5. Truth(nos0 # tos0) = IF nos0 # tos0 THEN 1 ELSE 0
      BY DEF Truth
    <2> QED
      BY <2>1, <2>2, <2>4, <2>5
  <1>16. CASE op = "MULT"
    <2>1. Compute(tos0, nos0) = Sum(Products, tos0, nos0)
      BY <1>16 DEF Compute
    <2>2. OfC(op, tos0, nos0) = Wrap(Signed(tos0) * Signed(nos0))
      BY <1>16 DEF OfC, UnaryOps, BinaryOps, Shifts, Binary
    <2> QED
      BY <2>1, <2>2, SumOfProducts, MultipliesLikeC
  <1>17. CASE op = "MULT16X16"
    <2>1. Compute(tos0, nos0) = Sum(Products16, tos0, nos0)
      BY <1>17 DEF Compute
    <2>2. OfC(op, tos0, nos0) = (nos0 % HalfMod) * (tos0 % HalfMod)
      BY <1>17 DEF OfC, UnaryOps, BinaryOps, Shifts, Binary
    <2> QED
      BY <2>1, <2>2, SumOfLowProducts
  <1>18. CASE op = "LSHIFTRIGHT"
    <2>1. Compute(tos0, nos0) = opLSHIFTRIGHT(tos0, nos0)
      BY <1>18 DEF Compute
    <2>2. OfC(op, tos0, nos0) = Binary("LSHIFTRIGHT", tos0, nos0)
      BY <1>18 DEF OfC, UnaryOps, BinaryOps, Shifts, Divisions
    <2>3. Shiftable(tos0)
      BY <1>18 DEF Shifts
    <2> QED
      BY <2>1, <2>2, <2>3, ShiftsLikeC
  <1>19. CASE op = "ASHIFTRIGHT"
    <2>1. Compute(tos0, nos0) = opASHIFTRIGHT(tos0, nos0)
      BY <1>19 DEF Compute
    <2>2. OfC(op, tos0, nos0) = Binary("ASHIFTRIGHT", tos0, nos0)
      BY <1>19 DEF OfC, UnaryOps, BinaryOps, Shifts, Divisions
    <2>3. Shiftable(tos0)
      BY <1>19 DEF Shifts
    <2> QED
      BY <2>1, <2>2, <2>3, ShiftsLikeC
  <1>20. CASE op = "ASHIFTLEFT"
    <2>1. Compute(tos0, nos0) = opASHIFTLEFT(tos0, nos0)
      BY <1>20 DEF Compute
    <2>2. OfC(op, tos0, nos0) = Binary("ASHIFTLEFT", tos0, nos0)
      BY <1>20 DEF OfC, UnaryOps, BinaryOps, Shifts, Divisions
    <2>3. Shiftable(tos0) /\ Low(nos0) # 0
      BY <1>20 DEF Shifts, Deviates
    <2> QED
      BY <2>1, <2>2, <2>3, ShiftsLikeC
  <1>21. CASE op = "LOADSP_IM_ADD"
    <2>1. Compute(tos0, nos0) = LOADSP_IM_ADD(tos0, nos0)
      BY <1>21 DEF Compute
    <2>2. OfC(op, tos0, nos0) = Wrap(SignedIM(tos0 % IMBASE) + nos0)
      BY <1>21 DEF OfC, UnaryOps, BinaryOps, Shifts, Binary
    <2>3. ~(2 * (tos0 % IMBASE) >= IMBASE) \/ Byte(nos0, 2) = 0
      BY <1>21 DEF Deviates
    <2> QED
      BY <2>1, <2>2, <2>3, FusedAddsPositive, FusedAddsNegative
  <1>22. CASE op = "NOT_IM_AND"
    <2>1. Compute(tos0, nos0) = NOT_IM_AND(tos0)
      BY <1>22 DEF Compute
    <2>2. OfC(op, tos0, nos0) = (1 & (Modulus - 1 - tos0))
      BY <1>22 DEF OfC, UnaryOps, BinaryOps, Shifts, Binary, Unary
    <2> QED
      BY <2>1, <2>2, FusedTestsLikeC
  <1> QED
    BY <1>1, <1>2, <1>3, <1>4, <1>5, <1>6, <1>7, <1>8, <1>9, <1>10, <1>11, <1>12, <1>13, <1>14,
       <1>15, <1>16, <1>17, <1>18, <1>19, <1>20, <1>21, <1>22
    DEF Straight, UnaryOps, BinaryOps, Shifts, Fused


-----------------------------------------------------------------------------
\* Immediates.  A word turned by one byte less one bit is what C makes of it.
Turned(w, v) ==
    [k \in 0 .. 3 |-> IF k = 3 THEN (Byte(w, 3) % 2) * IMBASE + v
                      ELSE (Byte(w, k) % 2) * IMBASE + Byte(w, k + 1) \div 2]

LEMMA HalfByte ==
    ASSUME NEW a \in Int, NEW b \in 0 .. BYTE - 1
    PROVE  /\ b \div 2 \in 0 .. IMBASE - 1 /\ b % 2 \in {0, 1} /\ b = 2 * (b \div 2) + (b % 2)
           /\ \A v \in 0 .. IMBASE - 1 : (a % 2) * IMBASE + v \in 0 .. BYTE - 1
  <1>1. BYTE = 2 * IMBASE /\ IMBASE \in Nat \ {0}
    BY WordSizes
  <1>2. a % 2 \in {0, 1}
    OBVIOUS
  <1>3. ASSUME NEW v \in 0 .. IMBASE - 1 PROVE (a % 2) * IMBASE + v \in 0 .. BYTE - 1
    <2>1. CASE a % 2 = 0
      BY <1>1, <2>1
    <2>2. CASE a % 2 = 1
      BY <1>1, <2>2
    <2> QED
      BY <1>2, <2>1, <2>2
  <1> QED
    BY <1>1, <1>3

LEMMA TurnedByte ==
    ASSUME NEW w \in Words, NEW v \in 0 .. IMBASE - 1
    PROVE  \A k \in 0 .. 3 : Turned(w, v)[k] \in 0 .. BYTE - 1
  <1> SUFFICES ASSUME NEW k \in 0 .. 3 PROVE Turned(w, v)[k] \in 0 .. BYTE - 1
    OBVIOUS
  <1>1. CASE k = 3
    <2>1. Turned(w, v)[k] = (Byte(w, 3) % 2) * IMBASE + v
      BY <1>1 DEF Turned
    <2>2. Byte(w, 3) \in 0 .. BYTE - 1 /\ Byte(w, 3) \in Int
      BY WordBytes
    <2> QED
      BY <2>1, <2>2, HalfByte
  <1>2. CASE k # 3
    <2> DEFINE u == Byte(w, k + 1) \div 2
    <2>1. Turned(w, v)[k] = (Byte(w, k) % 2) * IMBASE + u
      BY <1>2 DEF Turned
    <2>2. k + 1 \in 0 .. 3
      BY <1>2
    <2>3. Byte(w, k) \in 0 .. BYTE - 1 /\ Byte(w, k) \in Int /\ Byte(w, k + 1) \in 0 .. BYTE - 1
      BY <2>2, WordBytes
    <2>4. u \in 0 .. IMBASE - 1
      BY <2>3, HalfByte
    <2> HIDE DEF u
    <2> QED
      BY <2>1, <2>3, <2>4, HalfByte
  <1> QED
    BY <1>1, <1>2

LEMMA TurnedLikeC ==
    ASSUME NEW w \in Words, NEW v \in 0 .. IMBASE - 1
    PROVE  FromBytes(Turned(w, v)) = LongerIM(w, v)
  <1> DEFINE x == IMBASE
             y == BYTE
             a == Byte(w, 0) \div 2
             b == Byte(w, 1) \div 2
             c == Byte(w, 2) \div 2
             d == Byte(w, 3) \div 2
             e == Byte(w, 0) % 2
             f == Byte(w, 1) % 2
             g == Byte(w, 2) % 2
             h == Byte(w, 3) % 2
             r == FromBytes(Turned(w, v))
  <1>1. /\ x \in Int /\ y \in Int /\ y = 2 * x
        /\ BYTE ** 3 = y * y * y /\ BYTE ** 2 = y * y
        /\ Modulus = (y * y) * (y * y) /\ HalfMod = y * y /\ Modulus \in Nat \ {0}
    BY WordSizes
  <1>2. /\ a \in Int /\ b \in Int /\ c \in Int /\ d \in Int
        /\ e \in Int /\ f \in Int /\ g \in Int /\ h \in Int
        /\ Byte(w, 0) = 2 * a + e /\ Byte(w, 1) = 2 * b + f
        /\ Byte(w, 2) = 2 * c + g /\ Byte(w, 3) = 2 * d + h
    BY WordBytes, HalfByte
  <1>3. /\ Turned(w, v)[0] = e * x + b /\ Turned(w, v)[1] = f * x + c
        /\ Turned(w, v)[2] = g * x + d /\ Turned(w, v)[3] = h * x + v
    BY DEF Turned
  <1>4. r = (e * x + b) * (y * y * y) + (f * x + c) * (y * y) + (g * x + d) * y + (h * x + v)
    BY <1>1, <1>3 DEF FromBytes
  <1>5. w = ((2 * a + e) * y + (2 * b + f)) * (y * y) + ((2 * c + g) * y + (2 * d + h))
    BY <1>1, <1>2, WordBytes, Halves
  <1>6. r \in Words
    BY TurnedByte, BytesWord
  <1> HIDE DEF x, y, a, b, c, d, e, f, g, h, r
  <1>7. w * x + v = Modulus * a + r
    <2>1. \A x0, a0, b0, c0, d0, e0, f0, g0, h0, v0 \in Int :
            (((2 * a0 + e0) * (2 * x0) + (2 * b0 + f0)) * ((2 * x0) * (2 * x0))
               + ((2 * c0 + g0) * (2 * x0) + (2 * d0 + h0))) * x0 + v0
              = (((2 * x0) * (2 * x0)) * ((2 * x0) * (2 * x0))) * a0
                  + ((e0 * x0 + b0) * ((2 * x0) * (2 * x0) * (2 * x0)) + (f0 * x0 + c0) * ((2 * x0) * (2 * x0))
                       + (g0 * x0 + d0) * (2 * x0) + (h0 * x0 + v0))
      BY Z3
    <2>2. v \in Int
      BY <1>1
    <2> QED
      BY <1>1, <1>2, <1>4, <1>5, <2>1, <2>2
  <1>8. (Modulus * a + r) % Modulus = r
    <2>1. a \in Int /\ Modulus \in Nat \ {0} /\ r \in 0 .. Modulus - 1
      BY <1>1, <1>2, <1>6 DEF Words
    <2> QED
      BY ONLY <2>1, QuotientIs
  <1> QED
    BY <1>7, <1>8 DEF LongerIM, Wrap, x, r

\* A word that the sign fills down to its byte k.
Extends(w, k) ==
    \/ (\A i \in 0 .. k - 1 : Byte(w, i) = 0) /\ 2 * Byte(w, k) < BYTE
    \/ (\A i \in 0 .. k - 1 : Byte(w, i) = BYTE - 1) /\ 2 * Byte(w, k) >= BYTE

\* The last of the bytes that are no sign, the sign kept, and those of the sign.
LEMMA TurnedSign ==
    ASSUME NEW w \in Words, NEW v \in 0 .. IMBASE - 1, NEW k \in 2 .. 3, Extends(w, k)
    PROVE  /\ Asr(Byte(w, k)) = Turned(w, v)[k - 1]
           /\ \A i \in 0 .. k - 2 : Byte(w, i) = Turned(w, v)[i]
           /\ \/ (\A i \in 0 .. k - 2 : Byte(w, i) = 0) /\ 2 * Turned(w, v)[k - 1] < BYTE
              \/ (\A i \in 0 .. k - 2 : Byte(w, i) = BYTE - 1) /\ 2 * Turned(w, v)[k - 1] >= BYTE
  <1> DEFINE b == Byte(w, k)
             m == b \div 2
  <1>1. BYTE = 2 * IMBASE /\ IMBASE \in Nat \ {0} /\ BYTE \div 2 = IMBASE
    BY WordSizes
  <1>2. k \in 0 .. 3 /\ k - 1 \in 0 .. 3 /\ k - 1 # 3 /\ (k - 1) + 1 = k
        /\ \A i \in 0 .. k - 2 : i \in 0 .. 3 /\ i # 3 /\ i + 1 \in 0 .. k - 1 /\ i \in 0 .. k - 1
    OBVIOUS
  <1>3. b \in 0 .. BYTE - 1
    BY <1>2, WordBytes
  <1>4. m \in 0 .. IMBASE - 1 /\ 2 * m =< b
    BY <1>3, HalfByte
  <1>5. Turned(w, v)[k - 1] = (Byte(w, k - 1) % 2) * IMBASE + m
    BY <1>2 DEF Turned
  <1>6. \A i \in 0 .. k - 2 : Turned(w, v)[i] = (Byte(w, i) % 2) * IMBASE + Byte(w, i + 1) \div 2
    BY <1>2 DEF Turned
  <1>7. Asr(b) = m + (IF 2 * b >= BYTE THEN IMBASE ELSE 0)
    BY <1>1 DEF Asr
  <1>8. k - 1 \in 0 .. k - 1
    OBVIOUS
  <1> HIDE DEF m
  <1>9. CASE (\A i \in 0 .. k - 1 : Byte(w, i) = 0) /\ 2 * b < BYTE
    <2>1. Turned(w, v)[k - 1] = 0 * IMBASE + m
      BY <1>5, <1>8, <1>9
    <2>2. \A i \in 0 .. k - 2 : Byte(w, i) = 0 /\ Turned(w, v)[i] = 0 * IMBASE + 0
      BY <1>2, <1>6, <1>9
    <2>3. Turned(w, v)[k - 1] = m /\ Asr(b) = m
      BY <1>1, <1>3, <1>4, <1>7, <1>9, <2>1
    <2>4. 2 * Turned(w, v)[k - 1] < BYTE
      BY <1>1, <1>3, <1>4, <1>9, <2>3
    <2>5. \A i \in 0 .. k - 2 : Byte(w, i) = 0 /\ Turned(w, v)[i] = 0
      BY <1>1, <2>2
    <2>6. \A i \in 0 .. k - 2 : Byte(w, i) = Turned(w, v)[i]
      BY <2>5
    <2>7. \A i \in 0 .. k - 2 : Byte(w, i) = 0
      BY <2>5
    <2> QED
      BY ONLY <2>3, <2>4, <2>6, <2>7
  <1>10. CASE (\A i \in 0 .. k - 1 : Byte(w, i) = BYTE - 1) /\ 2 * b >= BYTE
    <2>1. (BYTE - 1) % 2 = 1 /\ (BYTE - 1) \div 2 = IMBASE - 1
      BY <1>1
    <2>2. Turned(w, v)[k - 1] = 1 * IMBASE + m
      BY <1>5, <1>8, <1>10, <2>1
    <2>3. \A i \in 0 .. k - 2 : Byte(w, i) = BYTE - 1 /\ Turned(w, v)[i] = 1 * IMBASE + (IMBASE - 1)
      BY <1>2, <1>6, <1>10, <2>1
    <2> QED
      BY <1>1, <1>3, <1>4, <1>7, <1>10, <2>2, <2>3
  <1> QED
    BY <1>9, <1>10 DEF Extends


LEMMA FirstImmediate ==
    ASSUME NEW v \in 0 .. IMBASE - 1
    PROVE  SignedIM(v) \in Words /\ Extends(SignedIM(v), 3)
  <1>1. /\ BYTE \in Nat \ {0} /\ IMBASE \in Nat \ {0} /\ BYTE = 2 * IMBASE /\ Modulus \in Nat \ {0}
        /\ BYTE ** 3 = BYTE * BYTE * BYTE /\ BYTE ** 2 = BYTE * BYTE
        /\ HalfMod = BYTE * BYTE /\ Modulus = HalfMod * HalfMod
    BY WordSizes
  <1>2. CASE ~(2 * v >= IMBASE)
    <2> DEFINE f == [k \in 0 .. 3 |-> IF k = 3 THEN v ELSE 0]
    <2>1. \A k \in 0 .. 3 : f[k] \in 0 .. BYTE - 1
      BY <1>1
    <2>2. f[0] = 0 /\ f[1] = 0 /\ f[2] = 0 /\ f[3] = v
      OBVIOUS
    <2> HIDE DEF f
    <2>3. FromBytes(f) \in Words /\ \A k \in 0 .. 3 : Byte(FromBytes(f), k) = f[k]
      BY <2>1, BytesWord
    <2>4. FromBytes(f) = v
      <3>1. BYTE ** 3 \in Int /\ BYTE ** 2 \in Int
        BY <1>1, PowerStep
      <3> QED
        BY <1>1, <2>2, <3>1 DEF FromBytes
    <2>5. SignedIM(v) = v
      <3>1. v \in 0 .. Modulus - 1
        BY <2>3, <2>4 DEF Words
      <3> QED
        BY <1>1, <1>2, <3>1, Small DEF SignedIM, Wrap
    <2>6. (\A i \in 0 .. 3 - 1 : Byte(v, i) = 0) /\ 2 * Byte(v, 3) < BYTE
      <3>1. \A i \in 0 .. 3 - 1 : i \in 0 .. 3 /\ (i = 0 \/ i = 1 \/ i = 2)
        OBVIOUS
      <3>2. \A i \in 0 .. 3 - 1 : Byte(v, i) = 0
        BY <2>2, <2>3, <2>4, <3>1
      <3>3. Byte(v, 3) = v
        BY <2>2, <2>3, <2>4
      <3> QED
        BY <1>1, <1>2, <3>2, <3>3
    <2> QED
      BY <2>3, <2>4, <2>5, <2>6 DEF Extends
  <1>3. CASE 2 * v >= IMBASE
    <2> DEFINE u == BYTE + v - IMBASE
               f == [k \in 0 .. 3 |-> IF k = 3 THEN u ELSE BYTE - 1]
               w == FromBytes(f)
    <2>1. u \in 0 .. BYTE - 1 /\ 2 * u >= BYTE
      BY <1>1
    <2>2. f[0] = BYTE - 1 /\ f[1] = BYTE - 1 /\ f[2] = BYTE - 1 /\ f[3] = u
      OBVIOUS
    <2>3. \A k \in 0 .. 3 : f[k] \in 0 .. BYTE - 1
      BY <1>1, <2>1
    <2> HIDE DEF f
    <2>4. w \in Words /\ \A k \in 0 .. 3 : Byte(w, k) = f[k]
      BY <2>3, BytesWord
    <2>5. w = (BYTE - 1) * (BYTE * BYTE * BYTE) + (BYTE - 1) * (BYTE * BYTE) + (BYTE - 1) * BYTE + u
      BY <1>1, <2>2 DEF FromBytes
    <2> HIDE DEF w
    <2>6. w = Modulus + (v - IMBASE)
      <3>1. \A x \in Int : (x - 1) * (x * x * x) + (x - 1) * (x * x) + (x - 1) * x = (x * x) * (x * x) - x
        BY Z3
      <3>2. (BYTE - 1) * (BYTE * BYTE * BYTE) + (BYTE - 1) * (BYTE * BYTE) + (BYTE - 1) * BYTE = Modulus - BYTE
        BY <1>1, <3>1
      <3> QED
        BY <1>1, <2>5, <3>2
    <2>7. SignedIM(v) = w
      <3>1. SignedIM(v) = (v - IMBASE) % Modulus
        BY <1>3 DEF SignedIM, Wrap
      <3> DEFINE q == -1
      <3>2. /\ Modulus * q + w = v - IMBASE /\ w \in 0 .. Modulus - 1 /\ q \in Int
            /\ Modulus \in Nat \ {0}
        BY <1>1, <2>4, <2>6 DEF Words
      <3> HIDE DEF q
      <3>3. (Modulus * q + w) % Modulus = w
        BY ONLY <3>2, QuotientIs
      <3> QED
        BY <3>1, <3>2, <3>3
    <2>8. (\A i \in 0 .. 3 - 1 : Byte(w, i) = BYTE - 1) /\ 2 * Byte(w, 3) >= BYTE
      <3>1. \A i \in 0 .. 3 - 1 : i \in 0 .. 3 /\ (i = 0 \/ i = 1 \/ i = 2)
        OBVIOUS
      <3>2. \A i \in 0 .. 3 - 1 : Byte(w, i) = BYTE - 1
        BY <2>2, <2>4, <3>1
      <3>3. Byte(w, 3) = u
        BY <2>2, <2>4
      <3> QED
        BY <2>1, <3>2, <3>3
    <2> QED
      BY <2>4, <2>7, <2>8 DEF Extends
  <1> QED
    BY <1>2, <1>3

LEMMA SameBytes ==
    ASSUME NEW f, NEW g, f[0] = g[0], f[1] = g[1], f[2] = g[2], f[3] = g[3]
    PROVE  FromBytes(f) = FromBytes(g)
  BY DEF FromBytes

\* What an IM makes of a word that the sign still fills, and of one that it does not.
LEMMA NextImmediate ==
    ASSUME NEW w \in Words, NEW v \in 0 .. IMBASE - 1, count \in Nat \ {0},
           count \in {1, 2} => Extends(w, 4 - count)
    PROVE  /\ opIM(w, v) = LongerIM(w, v) /\ opIM(w, v) \in Words
           /\ count = 1 => Extends(opIM(w, v), 2)
  <1> DEFINE b == [k \in 0 .. 3 |-> Byte(w, k)]
             end == (b[3] % 2) * (BYTE \div 2) + v
             f == Turned(w, v)
  <1>1. BYTE \div 2 = IMBASE
    BY WordSizes
  <1>2. /\ b[0] = Byte(w, 0) /\ b[1] = Byte(w, 1) /\ b[2] = Byte(w, 2) /\ b[3] = Byte(w, 3)
        /\ DOMAIN b = 0 .. 3
    OBVIOUS
  <1>3. f[3] = end
    BY <1>1, <1>2 DEF Turned
  <1>4. /\ f[0] = Ror(b[0], b[1]) /\ f[1] = Ror(b[1], b[2]) /\ f[2] = Ror(b[2], b[3])
    BY <1>1, <1>2 DEF Turned, Ror
  <1>5. FromBytes(f) = LongerIM(w, v) /\ FromBytes(f) \in Words
        /\ \A k \in 0 .. 3 : Byte(FromBytes(f), k) = f[k]
    BY TurnedLikeC, TurnedByte, BytesWord
  <1>6. CASE count = 1
    <2> DEFINE g == [b EXCEPT ![2] = Asr(b[3]), ![3] = end]
    <2>1. opIM(w, v) = FromBytes(g)
      BY <1>6 DEF opIM
    <2>2. g[0] = b[0] /\ g[1] = b[1] /\ g[2] = Asr(b[3]) /\ g[3] = end
      <3> HIDE DEF b, end
      <3> QED
        BY <1>2
    <2>3. Extends(w, 3) /\ 3 \in 2 .. 3 /\ 3 - 1 = 2 /\ 3 - 2 = 1
      BY <1>6
    <2>4. /\ Asr(Byte(w, 3)) = f[2]
          /\ \A i \in 0 .. 1 : Byte(w, i) = f[i]
          /\ \/ (\A i \in 0 .. 1 : Byte(w, i) = 0) /\ 2 * f[2] < BYTE
             \/ (\A i \in 0 .. 1 : Byte(w, i) = BYTE - 1) /\ 2 * f[2] >= BYTE
      BY <2>3, TurnedSign
    <2>5. Byte(w, 0) = f[0] /\ Byte(w, 1) = f[1]
      BY <2>4
    <2>6. FromBytes(g) = FromBytes(f)
      <3> HIDE DEF f, g, b, end
      <3>1. f[0] = g[0] /\ f[1] = g[1] /\ f[2] = g[2] /\ f[3] = g[3]
        BY <1>2, <1>3, <2>2, <2>4, <2>5
      <3> QED
        BY <3>1, SameBytes
    <2> DEFINE r == FromBytes(f)
    <2>7. Byte(r, 2) = f[2] /\ \A i \in 0 .. 1 : Byte(r, i) = Byte(w, i)
      BY <1>5, <2>4
    <2> HIDE DEF r, f
    <2>8. Extends(r, 2)
      <3>1. 2 - 1 = 1
        OBVIOUS
      <3> QED
        BY <2>4, <2>7, <3>1 DEF Extends
    <2> QED
      BY <1>5, <2>1, <2>6, <2>8 DEF r
  <1>7. CASE count = 2
    <2> DEFINE g == [b EXCEPT ![1] = Asr(b[2]), ![2] = Ror(b[2], b[3]), ![3] = end]
    <2>1. opIM(w, v) = FromBytes(g)
      BY <1>7 DEF opIM
    <2>2. g[0] = b[0] /\ g[1] = Asr(b[2]) /\ g[2] = Ror(b[2], b[3]) /\ g[3] = end
      <3> HIDE DEF b, end
      <3> QED
        BY <1>2
    <2>3. Extends(w, 2) /\ 2 \in 2 .. 3 /\ 2 - 1 = 1 /\ 2 - 2 = 0
      BY <1>7
    <2>4. Asr(Byte(w, 2)) = f[1] /\ \A i \in 0 .. 0 : Byte(w, i) = f[i]
      BY <2>3, TurnedSign
    <2>5. FromBytes(g) = FromBytes(f)
      <3>0. Byte(w, 0) = f[0]
        BY <2>4
      <3> HIDE DEF f, g, b, end
      <3>1. f[0] = g[0] /\ f[1] = g[1] /\ f[2] = g[2] /\ f[3] = g[3]
        BY <1>2, <1>3, <1>4, <2>2, <2>4, <3>0
      <3> QED
        BY <3>1, SameBytes
    <2> QED
      BY <1>5, <1>7, <2>1, <2>5
  <1>8. CASE count # 1 /\ count # 2
    <2> DEFINE g == [k \in 0 .. 3 |-> IF k = 3 THEN end ELSE Ror(b[k], b[k + 1])]
    <2>1. opIM(w, v) = FromBytes(g)
      BY <1>8 DEF opIM
    <2>2. g[0] = Ror(b[0], b[1]) /\ g[1] = Ror(b[1], b[2]) /\ g[2] = Ror(b[2], b[3]) /\ g[3] = end
      OBVIOUS
    <2>3. FromBytes(g) = FromBytes(f)
      <3> HIDE DEF f, g, b, end
      <3>1. f[0] = g[0] /\ f[1] = g[1] /\ f[2] = g[2] /\ f[3] = g[3]
        BY <1>3, <1>4, <2>2
      <3> QED
        BY <3>1, SameBytes
    <2> QED
      BY <1>5, <1>8, <2>1, <2>3
  <1> QED
    BY <1>6, <1>7, <1>8


-----------------------------------------------------------------------------
\* Divisions.  What a word is without its sign.
Magnitude(w) == IF Negative(w) THEN neg_x(w) ELSE w

LEMMA MagnitudeOf ==
    ASSUME NEW w \in Words
    PROVE  /\ Magnitude(w) \in Words /\ 2 * Magnitude(w) =< Modulus
           /\ Magnitude(w) = Abs(Signed(w)) /\ (w # 0 => Magnitude(w) # 0)
           /\ Signed(w) = IF Negative(w) THEN -Magnitude(w) ELSE Magnitude(w)
  <1>1. Modulus \in Nat \ {0} /\ w \in 0 .. Modulus - 1
    BY WordConstants DEF Words
  <1>2. CASE 2 * w >= Modulus
    <2> DEFINE q == -1
               m == Modulus - w
    <2>1. Signed(w) = w - Modulus /\ Negative(w)
      BY <1>1, <1>2 DEF Signed, Negative
    <2>2. m \in 0 .. Modulus - 1 /\ Modulus * q + m = -w /\ q \in Int /\ Modulus \in Nat \ {0}
      BY <1>1, <1>2
    <2>3. (Modulus * q + m) % Modulus = m
      <3> HIDE DEF q, m
      <3> QED
        BY ONLY <2>2, QuotientIs
    <2>4. Magnitude(w) = m
      BY <2>1, <2>2, <2>3, NegatesLikeC DEF Magnitude, Wrap
    <2> QED
      BY <1>1, <1>2, <2>1, <2>4 DEF Abs, Words
  <1>3. CASE ~(2 * w >= Modulus)
    <2>1. Signed(w) = w /\ ~Negative(w)
      BY <1>1, <1>3 DEF Signed, Negative
    <2>2. Magnitude(w) = w
      BY <2>1 DEF Magnitude
    <2> QED
      BY <1>1, <1>3, <2>1, <2>2 DEF Abs, Words
  <1> QED
    BY <1>2, <1>3

\* With count bits to go: n1 are the bits of the dividend that the loop has seen, n0 the
\* others, p and q their weights; N holds n0 above what was shifted in, of which the
\* last bits are those of the quotient x, inverted; R is the remainder of n1.
Halfway(p, q, n1, n0, k, x, u) ==
    /\ p = 2 ** count /\ p * q = Modulus
    /\ Magnitude(tos0) = p * n1 + n0
    /\ N = n0 * q + k
    /\ n1 = Divisor * x + R
    /\ 2 * k + C = q * u + (q - 1 - x)

Ranges(p, q, n1, n0, k, x, u) ==
    /\ p \in Nat \ {0} /\ q \in Nat \ {0} /\ n1 \in Nat /\ u \in Int
    /\ n0 \in 0 .. p - 1 /\ k \in 0 .. q - 1 /\ x \in 0 .. q - 1

Dividing ==
    /\ count \in Nat /\ C \in {0, 1} /\ R \in 0 .. Divisor - 1
    /\ Divisor \in Nat \ {0} /\ 2 * Divisor =< Modulus
    /\ \E p, q, n1, n0, k, x, u :
          Ranges(p, q, n1, n0, k, x, u) /\ Halfway(p, q, n1, n0, k, x, u)

LEMMA BeginsDividing ==
    ASSUME tos0 \in Words, nos0 \in Words, nos0 # 0, N = Magnitude(tos0), R = 0, C \in {0, 1}, count = Bits
    PROVE  Dividing
  <1>1. Divisor = Magnitude(nos0)
    BY DEF Divisor, Magnitude
  <1>2. Divisor \in Nat \ {0} /\ 2 * Divisor =< Modulus
    BY <1>1, MagnitudeOf DEF Words
  <1>3. N \in 0 .. Modulus - 1 /\ Modulus \in Nat \ {0} /\ Bits \in Nat /\ Modulus = 2 ** Bits
    BY MagnitudeOf, WordConstants DEF Words
  <1>4. Ranges(Modulus, 1, 0, N, 0, 0, C)
    BY <1>3 DEF Ranges
  <1>5. Halfway(Modulus, 1, 0, N, 0, 0, C)
    BY <1>2, <1>3 DEF Halfway
  <1> QED
    BY <1>2, <1>3, <1>4, <1>5 DEF Dividing

LEMMA DividesABit ==
    ASSUME Dividing, UDIV32
    PROVE  Dividing'
  <1>1. PICK p, q, n1, n0, k, x, u :
            Ranges(p, q, n1, n0, k, x, u) /\ Halfway(p, q, n1, n0, k, x, u)
    BY DEF Dividing
  <1>2. /\ count \in Nat /\ C \in {0, 1} /\ R \in 0 .. Divisor - 1
        /\ Divisor \in Nat \ {0} /\ 2 * Divisor =< Modulus
    BY DEF Dividing
  <1>3. /\ count > 0 /\ count' = count - 1 /\ tos0' = tos0 /\ nos0' = nos0
        /\ N' = Wrap(2 * N + C)
        /\ C' = Borrow(Bring(N), Divisor)
        /\ R' = IF Bring(N) < Divisor THEN Bring(N) ELSE opSUB(Divisor, Bring(N))
    BY DEF UDIV32
  <1>4. Modulus \in Nat \ {0}
    BY WordConstants
  <1> DEFINE h == 2 ** (count - 1)
             t == n0 \div h
             m == n0 % h
             v == m * q + k
             r == 2 * R + t
             y == 2 * x + 1 - C'
  <1>5. h \in Nat \ {0} /\ p = 2 * h
    <2>1. count - 1 \in Nat /\ (count - 1) + 1 = count
      BY <1>2, <1>3
    <2> QED
      BY <1>1, <2>1, PowerStep, PowerPositive DEF Halfway
  <1> HIDE DEF h
  <1>6. /\ p \in Nat \ {0} /\ q \in Nat \ {0} /\ n1 \in Nat /\ u \in Int
        /\ n0 \in 0 .. p - 1 /\ k \in 0 .. q - 1 /\ x \in 0 .. q - 1
    BY <1>1 DEF Ranges
  <1>7. /\ p * q = Modulus /\ Magnitude(tos0) = p * n1 + n0 /\ N = n0 * q + k
        /\ n1 = Divisor * x + R /\ 2 * k + C = q * u + (q - 1 - x)
    BY <1>1 DEF Halfway
  <1>8. t \in {0, 1} /\ m \in 0 .. h - 1 /\ n0 = h * t + m
    <2>1. n0 \in Int
      BY <1>6
    <2>2. t \in Int /\ m \in 0 .. h - 1 /\ n0 = h * t + m
      BY ONLY <1>5, <2>1, Division
    <2> HIDE DEF t, m
    <2>3. t = 0 \/ t = 1
      BY <1>5, <1>6, <2>2, Z3
    <2> QED
      BY <2>2, <2>3
  <1> HIDE DEF t, m
  <1>9. v \in 0 .. q * h - 1 /\ Modulus = 2 * (q * h) /\ q * h \in Nat
    <2>1. v \in 0 .. q * h - 1 /\ q * h \in Nat
      BY <1>5, <1>6, <1>8, TwoDigits
    <2>2. \A a, b \in Int : (2 * a) * b = 2 * (b * a)
      BY Z3
    <2> QED
      BY <1>5, <1>6, <1>7, <2>1, <2>2
  <1>10. N = t * (q * h) + v
    <2>1. \A a, b, c, d, e \in Int : (a * b + c) * d + e = b * (d * a) + (c * d + e)
      BY Z3
    <2> QED
      BY <1>5, <1>6, <1>7, <1>8, <2>1
  <1>11. 2 * v + C = m * (2 * q) + (2 * k + C)
    <2>1. \A a, b, c, d \in Int : 2 * (a * b + c) + d = a * (2 * b) + (2 * c + d)
      BY Z3
    <2> QED
      BY <1>2, <1>6, <1>8, <2>1
  <1> HIDE DEF v
  <1> DEFINE z == q * h
  <1> HIDE DEF z
  <1>12. v \in 0 .. z - 1 /\ Modulus = 2 * z /\ z \in Nat /\ N = t * z + v
    BY <1>9, <1>10 DEF z
  <1>13. 2 * N = Modulus * t + 2 * v /\ 2 * v + C \in 0 .. Modulus - 1 /\ 2 * v \in 0 .. Modulus - 1
    <2>1. CASE t = 0
      BY <1>2, <1>12, <2>1
    <2>2. CASE t = 1
      BY <1>2, <1>12, <2>2
    <2> QED
      BY <1>8, <2>1, <2>2
  <1>14. (2 * N) \div Modulus = t /\ Wrap(2 * N + C) = 2 * v + C
    <2> DEFINE a == 2 * v
               b == 2 * v + C
    <2>1. a \in 0 .. Modulus - 1 /\ b \in 0 .. Modulus - 1 /\ t \in Int
          /\ 2 * N = Modulus * t + a /\ 2 * N + C = Modulus * t + b
      <3>1. Modulus * t \in Int /\ t \in Int
        BY <1>4, <1>8
      <3> QED
        BY <1>2, <1>12, <1>13, <3>1
    <2> HIDE DEF a, b
    <2>2. (Modulus * t + a) \div Modulus = t
      BY ONLY <1>4, <2>1, QuotientIs
    <2>3. (Modulus * t + b) % Modulus = b
      BY ONLY <1>4, <2>1, QuotientIs
    <2> QED
      BY <2>1, <2>2, <2>3 DEF Wrap, b
  <1>15. r \in 0 .. Modulus - 1 /\ r < 2 * Divisor
    BY <1>2, <1>4, <1>8
  <1>16. Bring(N) = r
    BY <1>4, <1>14, <1>15, Small DEF Bring
  <1> HIDE DEF r
  <1>17. C' = (IF r < Divisor THEN 1 ELSE 0) /\ C' \in {0, 1}
    BY <1>3, <1>16 DEF Borrow, Truth
  <1>18. R' = IF r < Divisor THEN r ELSE r - Divisor
    <2>1. CASE r < Divisor
      BY <1>3, <1>16, <2>1
    <2>2. CASE ~(r < Divisor)
      <3> DEFINE d == r - Divisor
      <3>1. R' = opSUB(Divisor, r) /\ Divisor \in Words /\ r \in Words
        BY <1>2, <1>3, <1>4, <1>15, <1>16, <2>2 DEF Words
      <3>2. R' = Wrap(d)
        BY <3>1, SubtractsLikeC
      <3>3. d \in 0 .. Modulus - 1
        BY <1>2, <1>4, <1>15, <2>2
      <3> HIDE DEF d
      <3>4. Wrap(d) = d
        BY <1>4, <3>3, Small DEF Wrap
      <3> QED
        BY <2>2, <3>2, <3>4 DEF d
    <2> QED
      BY <2>1, <2>2
  <1>19. R' \in 0 .. Divisor - 1
    BY <1>2, <1>15, <1>18
  <1>20. 2 * n1 + t = Divisor * y + R' /\ y \in 0 .. 2 * q - 1
    <2>1. 2 * n1 + t = Divisor * (2 * x) + r
      <3>1. \A a, b, c, d \in Int : 2 * (a * b + c) + d = a * (2 * b) + (2 * c + d)
        BY Z3
      <3> QED
        BY <1>2, <1>6, <1>7, <1>8, <3>1 DEF r
    <2>2. CASE r < Divisor
      BY <1>2, <1>6, <1>17, <1>18, <2>1, <2>2
    <2>3. CASE ~(r < Divisor)
      <3>1. \A a, b, c \in Int : a * (b + 1) + (c - a) = a * b + c
        BY Z3
      <3>2. y = 2 * x + 1 /\ R' = r - Divisor
        BY <1>6, <1>17, <1>18, <2>3
      <3>3. Divisor * (2 * x + 1) + (r - Divisor) = Divisor * (2 * x) + r
        BY <1>2, <1>6, <1>15, <3>1
      <3> QED
        BY <1>6, <2>1, <3>2, <3>3
    <2> QED
      BY <2>2, <2>3
  <1>21. 2 * (2 * k + C) + C' = (2 * q) * u + (2 * q - 1 - y)
    <2>1. \A a, b, c, d \in Int : 2 * (a * b + (a - 1 - c)) + d = (2 * a) * b + (2 * a - 1 - (2 * c + 1 - d))
      BY Z3
    <2>2. C' \in Int /\ 2 * k + C \in Int
      BY <1>2, <1>6, <1>17
    <2>3. 2 * (q * u + (q - 1 - x)) + C' = (2 * q) * u + (2 * q - 1 - y)
      BY <1>6, <2>1, <2>2
    <2> QED
      BY <1>7, <2>3
  <1>22. Magnitude(tos0) = h * (2 * n1 + t) + m
    <2>1. \A a, b, c, d \in Int : (2 * a) * b + (a * c + d) = a * (2 * b + c) + d
      BY Z3
    <2> QED
      BY <1>5, <1>6, <1>7, <1>8, <2>1
  <1>23. h * (2 * q) = Modulus
    <2>1. \A a, b \in Int : a * (2 * b) = (2 * a) * b
      BY Z3
    <2> QED
      BY <1>5, <1>6, <1>7, <2>1
  <1> HIDE DEF y
  <1>24. Ranges(h, 2 * q, 2 * n1 + t, m, 2 * k + C, y, u)
    BY <1>2, <1>5, <1>6, <1>8, <1>20 DEF Ranges
  <1>25. Divisor' = Divisor /\ Magnitude(tos0)' = Magnitude(tos0)
    BY <1>3 DEF Divisor, Magnitude
  <1>26. h = 2 ** count'
    BY <1>3 DEF h
  <1>27. PICK q1, n2, k1, x1, p1 : q1 = 2 * q /\ n2 = 2 * n1 + t /\ k1 = 2 * k + C /\ x1 = y /\ p1 = h
    OBVIOUS
  <1>28. Ranges(p1, q1, n2, m, k1, x1, u)
    BY <1>24, <1>27
  <1>29. PICK m1 : m1 = m
    OBVIOUS
  <1>30. Halfway(p1, q1, n2, m1, k1, x1, u)'
    BY <1>3, <1>11, <1>14, <1>20, <1>21, <1>22, <1>23, <1>25, <1>26, <1>27, <1>29 DEF Halfway
  <1> QED
    BY <1>2, <1>3, <1>17, <1>19, <1>25, <1>28, <1>29, <1>30 DEF Dividing, Ranges


\* When no bit is to go, x is the quotient; it is inverted once more, and the signs are set.
LEMMA DividedLikeC ==
    ASSUME Dividing, op \in Divisions, tos0 \in Words, nos0 \in Words, opDIV4
    PROVE  result' = Binary(op, tos0, nos0)
  <1> DEFINE a == Signed(tos0)
             b == Signed(nos0)
             m == Magnitude(tos0)
             s == Negative(tos0)
             z == Negative(nos0)
  <1>1. PICK p, q, n1, n0, k, x, u :
            Ranges(p, q, n1, n0, k, x, u) /\ Halfway(p, q, n1, n0, k, x, u)
    BY DEF Dividing
  <1>2. count = 0 /\ R \in 0 .. Divisor - 1 /\ Divisor \in Nat \ {0} /\ 2 * Divisor =< Modulus
        /\ C \in {0, 1}
    BY DEF Dividing, opDIV4
  <1>3. Modulus \in Nat \ {0} /\ Divisor = Magnitude(nos0)
    BY WordConstants DEF Divisor, Magnitude
  <1>4. p = 1
    BY <1>1, <1>2, PowerZero DEF Halfway
  <1>5. /\ q \in Nat \ {0} /\ n1 \in Nat /\ u \in Int /\ n0 = 0
        /\ k \in 0 .. q - 1 /\ x \in 0 .. q - 1
    BY <1>1, <1>4 DEF Ranges
  <1>6. q = Modulus
    BY <1>1, <1>4, <1>5 DEF Halfway
  <1>7. m = n1 /\ N = k
    BY <1>1, <1>4, <1>5 DEF Halfway
  <1>8. m = Divisor * x + R
    BY <1>1, <1>7 DEF Halfway
  <1>9. 2 * N + C = Modulus * u + (Modulus - 1 - x)
    BY <1>1, <1>6, <1>7 DEF Halfway
  <1>10. opNOT(Wrap(2 * N + C)) = x
    <2> DEFINE v == Modulus - 1 - x
    <2>1. v \in 0 .. Modulus - 1 /\ Modulus - 1 - v = x
      BY <1>3, <1>5, <1>6
    <2>2. 2 * N + C = Modulus * u + v
      BY <1>9
    <2> HIDE DEF v
    <2>3. (Modulus * u + v) % Modulus = v
      BY ONLY <1>3, <1>5, <2>1, QuotientIs
    <2>4. Wrap(2 * N + C) = v /\ v \in Words
      BY <2>1, <2>2, <2>3 DEF Wrap, Words
    <2> QED
      BY <2>1, <2>4, InvertsLikeC
  <1>11. /\ a = (IF s THEN -m ELSE m) /\ b = (IF z THEN -Divisor ELSE Divisor)
         /\ Abs(a) = m /\ Abs(b) = Divisor /\ m \in Words /\ 2 * m =< Modulus
    BY <1>3, MagnitudeOf
  <1>12. (a < 0) = s /\ (b < 0) = z
    BY DEF Negative
  <1>13. m \div Divisor = x
    <2>1. (Divisor * x + R) \div Divisor = x
      <3>1. x \in Int
        BY <1>5
      <3> QED
        BY ONLY <1>2, <3>1, QuotientIs
    <2> QED
      BY <1>8, <2>1
  <1>14. Quotient(a, b) = IF s = z THEN x ELSE -x
    BY <1>11, <1>12, <1>13 DEF Quotient
  <1>15. x \in Words /\ R \in Words /\ x \in Int /\ R \in Int /\ m \in Int
    BY <1>2, <1>3, <1>5, <1>6, <1>11 DEF Words
  <1>16. Wrap(x) = x /\ Wrap(R) = R
    BY <1>3, <1>15, Small DEF Wrap, Words
  <1>17. neg_x(x) = Wrap(-x) /\ neg_x(R) = Wrap(-R)
    BY <1>15, NegatesLikeC
  <1> HIDE DEF a, b, m, s, z
  <1>18. s \in BOOLEAN /\ z \in BOOLEAN
    BY DEF s, z, Negative
  <1>19. CASE op = "DIV"
    <2>1. result' = IF s # z THEN neg_x(x) ELSE x
      BY <1>10, <1>19 DEF opDIV4, s, z
    <2>2. Binary(op, tos0, nos0) = Wrap(Quotient(a, b))
      BY <1>19 DEF Binary, a, b
    <2> QED
      BY <1>14, <1>16, <1>17, <1>18, <2>1, <2>2
  <1>20. CASE op = "MOD"
    <2>1. result' = IF s THEN neg_x(R) ELSE R
      BY <1>20 DEF opDIV4, s
    <2>2. Binary(op, tos0, nos0) = Wrap(a - b * Quotient(a, b))
      BY <1>20 DEF Binary, a, b
    <2>3. a - b * Quotient(a, b) = IF s THEN -R ELSE R
      <3>1. /\ (-Divisor) * (-x) = Divisor * x /\ Divisor * (-x) = -(Divisor * x)
            /\ (-Divisor) * x = -(Divisor * x) /\ Divisor * x \in Int
        BY <1>2, <1>15, Z3
      <3> DEFINE d == Divisor * x
      <3>2. m = d + R /\ d \in Int
        BY <1>8, <3>1
      <3>3. b * Quotient(a, b) = IF s THEN -d ELSE d
        <4>1. CASE s /\ z
          BY <1>11, <1>14, <3>1, <4>1
        <4>2. CASE s /\ ~z
          BY <1>11, <1>14, <3>1, <4>2
        <4>3. CASE ~s /\ z
          BY <1>11, <1>14, <3>1, <4>3
        <4>4. CASE ~s /\ ~z
          <5>1. Quotient(a, b) = x
            BY <1>14, <1>18, <4>4
          <5>2. b = Divisor
            BY <1>11, <4>4
          <5> QED
            BY <4>4, <5>1, <5>2
        <4> QED
          BY <1>18, <4>1, <4>2, <4>3, <4>4
      <3> HIDE DEF d
      <3>4. CASE s
        BY <1>11, <1>15, <3>2, <3>3, <3>4
      <3>5. CASE ~s
        BY <1>11, <1>15, <3>2, <3>3, <3>5
      <3> QED
        BY <1>18, <3>4, <3>5
    <2>4. CASE s
      BY <1>16, <1>17, <2>1, <2>2, <2>3, <2>4
    <2>5. CASE ~s
      BY <1>16, <1>17, <2>1, <2>2, <2>3, <2>5
    <2> QED
      BY <1>18, <2>4, <2>5
  <1> QED
    BY <1>19, <1>20 DEF Divisions

-----------------------------------------------------------------------------
\* The immediates so far are one word, that of C; the sign fills the first two.
Immediate ==
    /\ count \in Nat /\ result \in Words
    /\ count > 0 \/ done => result = want
    /\ count \in {1, 2} => Extends(result, 4 - count)

WordInv ==
    /\ op \in Straight \cup Divisions \cup {"IM"}
    /\ tos0 \in Words /\ nos0 \in Words
    /\ op \in Shifts => Shiftable(tos0)
    /\ op = "IM" => Immediate
    /\ op \in Divisions => Dividing
    /\ op # "IM" => want = OfC(op, tos0, nos0) /\ (done => result = want \/ Deviates)

LEMMA OpsApart ==
    /\ "IM" \notin Straight /\ "IM" \notin Divisions /\ "IM" \notin Shifts
    /\ Straight \cap Divisions = {} /\ Shifts \cap Divisions = {}
    /\ UnaryOps \cap Divisions = {}
  BY DEF Straight, UnaryOps, BinaryOps, Shifts, Fused, Divisions

LEMMA WordInitInv == WordInit => WordInv
  <1> SUFFICES ASSUME WordInit PROVE WordInv
    OBVIOUS
  <1>1. Operands \subseteq Words /\ 0 \in Words
    BY WordAssumption, ZeroAndOne
  <1>2. tos0 \in Words /\ nos0 \in Words
    BY <1>1 DEF WordInit
  <1>3. ASSUME op = "IM" PROVE Immediate
    BY <1>1, <1>3, OpsApart DEF WordInit, Immediate
  <1>4. ASSUME op \in Divisions PROVE Dividing
    <2>1. nos0 # 0
      BY <1>4 DEF WordInit, Undivided
    <2>2. N = Magnitude(tos0) /\ R = 0 /\ C \in {0, 1} /\ count = Bits
      BY <1>4 DEF WordInit, Magnitude
    <2> QED
      BY <1>2, <2>1, <2>2, BeginsDividing
  <1> QED
    BY <1>2, <1>3, <1>4 DEF WordInit, WordInv

LEMMA ExecutesStep == WordInv /\ Executes => WordInv'
  <1> SUFFICES ASSUME WordInv, Executes PROVE WordInv'
    OBVIOUS
  <1>1. /\ op \in Straight /\ op' = op /\ tos0' = tos0 /\ nos0' = nos0 /\ want' = want
        /\ result' = Compute(tos0, nos0)
    BY DEF Executes
  <1>2. op # "IM" /\ op \notin Divisions
    BY <1>1, OpsApart
  <1>3. want = OfC(op, tos0, nos0)
    BY <1>2 DEF WordInv
  <1>4. Deviates \/ result' = want
    BY <1>1, <1>3, StraightLikeC DEF WordInv
  <1>5. Deviates' = Deviates /\ OfC(op, tos0, nos0)' = OfC(op, tos0, nos0)
    BY <1>1 DEF Deviates
  <1> QED
    BY <1>1, <1>2, <1>3, <1>4, <1>5 DEF WordInv

LEMMA ContinuesStep ==
    ASSUME WordInv, NEW v \in 0 .. IMBASE - 1, Continues(v)
    PROVE  WordInv'
  <1>1. /\ op = "IM" /\ op' = op /\ tos0' = tos0 /\ nos0' = nos0 /\ count' = count + 1
        /\ result' = opIM(result, v)
        /\ want' = IF count = 0 THEN SignedIM(v) ELSE LongerIM(want, v)
    BY DEF Continues
  <1>2. /\ count \in Nat /\ result \in Words /\ (count > 0 => result = want)
        /\ (count \in {1, 2} => Extends(result, 4 - count))
    BY <1>1 DEF WordInv, Immediate
  <1>3. result' = want' /\ result' \in Words /\ (count' \in {1, 2} => Extends(result', 4 - count'))
    <2>1. CASE count = 0
      <3>1. opIM(result, v) = SignedIM(v)
        BY <2>1 DEF opIM
      <3>2. 4 - count' = 3
        BY <1>1, <2>1
      <3> QED
        BY <1>1, <2>1, <3>1, <3>2, FirstImmediate
    <2>2. CASE count # 0
      <3>1. /\ opIM(result, v) = LongerIM(result, v) /\ opIM(result, v) \in Words
            /\ count = 1 => Extends(opIM(result, v), 2)
        BY <1>2, <2>2, NextImmediate
      <3>2. count' \in {1, 2} => count = 1 /\ 4 - count' = 2
        BY <1>1, <1>2, <2>2
      <3> QED
        BY <1>1, <1>2, <2>2, <3>1, <3>2
    <2> QED
      BY <2>1, <2>2
  <1>4. Immediate'
    BY <1>1, <1>2, <1>3 DEF Immediate
  <1> QED
    BY <1>1, <1>4, OpsApart DEF WordInv

LEMMA DivisionSteps == WordInv /\ (UDIV32 \/ opDIV4) => WordInv'
  <1> SUFFICES ASSUME WordInv, UDIV32 \/ opDIV4 PROVE WordInv'
    OBVIOUS
  <1>1. op \in Divisions /\ op' = op /\ tos0' = tos0 /\ nos0' = nos0 /\ want' = want
    BY DEF UDIV32, opDIV4
  <1>2. op # "IM" /\ Dividing /\ want = OfC(op, tos0, nos0) /\ tos0 \in Words /\ nos0 \in Words
    BY <1>1, OpsApart DEF WordInv
  <1>3. Deviates' = Deviates /\ OfC(op, tos0, nos0)' = OfC(op, tos0, nos0)
    BY <1>1 DEF Deviates
  <1>4. CASE UDIV32
    <2>1. Dividing'
      BY <1>2, <1>4, DividesABit
    <2>2. done' = done /\ result' = result
      BY <1>4 DEF UDIV32
    <2> QED
      BY <1>1, <1>2, <1>3, <2>1, <2>2 DEF WordInv
  <1>5. CASE opDIV4
    <2>1. OfC(op, tos0, nos0) = Binary(op, tos0, nos0)
      BY <1>1 DEF OfC, Divisions, UnaryOps
    <2>2. result' = want'
      BY <1>1, <1>2, <1>5, <2>1, DividedLikeC
    <2>3. Dividing'
      <3>1. UNCHANGED <<count, N, R, C>>
        BY <1>5 DEF opDIV4
      <3>2. \A p, q, n1, n0, k, x, u : Halfway(p, q, n1, n0, k, x, u) => Halfway(p, q, n1, n0, k, x, u)'
        BY <1>1, <3>1 DEF Halfway, Divisor, Magnitude
      <3>3. Divisor' = Divisor
        BY <1>1 DEF Divisor
      <3> QED
        BY <1>2, <3>1, <3>2, <3>3 DEF Dividing, Ranges
    <2> QED
      BY <1>1, <1>2, <1>3, <2>2, <2>3 DEF WordInv
  <1> QED
    BY <1>4, <1>5

LEMMA WordStutters == WordInv /\ UNCHANGED wordvars => WordInv'
  <1> SUFFICES ASSUME WordInv, UNCHANGED wordvars PROVE WordInv'
    OBVIOUS
  <1>1. UNCHANGED <<op, tos0, nos0, result, done, want, N, R, C, count>>
    BY DEF wordvars
  <1>2. Immediate => Immediate'
    BY <1>1 DEF Immediate
  <1>3. Dividing => Dividing'
    <2>1. \A p, q, n1, n0, k, x, u : Halfway(p, q, n1, n0, k, x, u) => Halfway(p, q, n1, n0, k, x, u)'
      BY <1>1 DEF Halfway, Divisor, Magnitude
    <2>2. Divisor' = Divisor
      BY <1>1 DEF Divisor
    <2> QED
      BY <1>1, <2>1, <2>2 DEF Dividing, Ranges
  <1>4. Deviates' = Deviates /\ OfC(op, tos0, nos0)' = OfC(op, tos0, nos0)
    BY <1>1 DEF Deviates
  <1> QED
    BY <1>1, <1>2, <1>3, <1>4 DEF WordInv

LEMMA WordNextInv == WordInv /\ [WordNext]_wordvars => WordInv'
  BY ExecutesStep, ContinuesStep, DivisionSteps, WordStutters DEF WordNext

LEMMA WordInvAgrees == WordInv => ComputesLikeC
  <1> SUFFICES ASSUME WordInv, done, ~Deviates PROVE result = want
    BY DEF ComputesLikeC, AgreesWithReference
  <1>1. CASE op = "IM"
    BY <1>1 DEF WordInv, Immediate
  <1>2. CASE op # "IM"
    BY <1>2 DEF WordInv
  <1> QED
    BY <1>1, <1>2

\* Whatever its bytes and halves do on the way, zpu.ass computes the words that zpu.c does:
\* but for the two deviations that ComputesLikeC names, for bytes of every size.
THEOREM WordsAreThoseOfC == WordSpec => []ComputesLikeC
  <1>1. WordInit => WordInv
    BY WordInitInv
  <1>2. WordInv /\ [WordNext]_wordvars => WordInv'
    BY WordNextInv
  <1>3. WordInv => ComputesLikeC
    BY WordInvAgrees
  <1> QED
    BY <1>1, <1>2, <1>3, PTL DEF WordSpec
=============================================================================
