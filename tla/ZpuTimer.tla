------------------------------ MODULE ZpuTimer -------------------------------
(***************************************************************************)
(* The timer of src/2022/ZPU/zpu.ass: an interrupt adds to a counter of    *)
(* four digits (of 16 bits), the program latches it, in two halves because *)
(* two is what the registers hold, and reads the latched copy at leisure.  *)
(* The latch is copied with the interrupts masked; those that come         *)
(* meanwhile are served afterwards.                                        *)
(***************************************************************************)
EXTENDS Integers

CONSTANTS
    DIGIT,          \* values of a digit
    TINC1, TINC2,   \* what an interrupt adds to the last digit, to the one before
    SCALE,          \* the ticks of the Phi board in one of ours
    MaxTicks        \* bound on the interrupts

ASSUME TimerAssumption ==
    /\ {DIGIT, SCALE} \subseteq Nat \ {0} /\ MaxTicks \in Nat
    /\ {TINC1, TINC2} \subseteq 0 .. DIGIT - 1

VARIABLES
    TIMER_CTR, sampledTMR,  \* the highest digit first
    phi,                    \* the program uses the address of the Phi board
    masked,
    copying,                \* what timer_latch does next
    ticks, since            \* the interrupts so far, and at the last latch

timervars == <<TIMER_CTR, sampledTMR, phi, masked, copying, ticks, since>>

Value(t) == ((t[1] * DIGIT + t[2]) * DIGIT + t[3]) * DIGIT + t[4]
Weight == <<DIGIT * DIGIT * DIGIT, DIGIT * DIGIT, DIGIT, 1>>
Whole  == DIGIT * DIGIT * DIGIT * DIGIT
Digits(v) == [i \in 1 .. 4 |-> (v \div Weight[i]) % DIGIT]

TimerInit ==
    /\ TIMER_CTR = Digits(0) /\ sampledTMR = Digits(0)
    /\ phi \in BOOLEAN
    /\ masked = FALSE /\ copying = "no" /\ ticks = 0 /\ since = 0

\* The carry goes on from digit to digit, and stops at the first that takes it.
Carried(t) ==
    LET d4 == t[4] + TINC1
        d3 == t[3] + TINC2 + (d4 \div DIGIT)
        d2 == t[2] + (d3 \div DIGIT)
        d1 == t[1] + (d2 \div DIGIT)
    IN <<d1 % DIGIT, d2 % DIGIT, d3 % DIGIT, d4 % DIGIT>>

TIMERINTER ==
    /\ ~masked /\ ticks < MaxTicks
    /\ TIMER_CTR' = Carried(TIMER_CTR)
    /\ ticks' = ticks + 1
    /\ UNCHANGED <<sampledTMR, phi, masked, copying, since>>

\* Mutant: timer_latch leaves the interrupts on.
LatchMask_Off == FALSE

\* ORCC #$50
LatchMask == TRUE

timer_latch ==
    /\ copying = "no"
    /\ masked' = LatchMask
    /\ copying' = "high"
    /\ since' = ticks
    /\ UNCHANGED <<TIMER_CTR, sampledTMR, phi, ticks>>

CopyHigh ==
    /\ copying = "high"
    /\ sampledTMR' = [sampledTMR EXCEPT ![1] = TIMER_CTR[1], ![2] = TIMER_CTR[2]]
    /\ copying' = "low"
    /\ UNCHANGED <<TIMER_CTR, phi, masked, ticks, since>>

\* And PULS CC, which allows interrupts again.
CopyLow ==
    /\ copying = "low"
    /\ sampledTMR' = [sampledTMR EXCEPT ![3] = TIMER_CTR[3], ![4] = TIMER_CTR[4]]
    /\ copying' = IF phi THEN "scale" ELSE "no"
    /\ masked' = FALSE
    /\ UNCHANGED <<TIMER_CTR, phi, ticks, since>>

timer_latch_phi ==
    /\ copying = "scale"
    /\ sampledTMR' = Digits(SCALE * Value(sampledTMR))
    /\ copying' = "no"
    /\ UNCHANGED <<TIMER_CTR, phi, masked, ticks, since>>

TimerNext == TIMERINTER \/ timer_latch \/ CopyHigh \/ CopyLow \/ timer_latch_phi
TimerSpec == TimerInit /\ [][TimerNext]_timervars

-----------------------------------------------------------------------------
\* A latched time is one that the counter showed during the latch, wherever the
\* interrupts fall: no half of it is older than the other, so that a program that
\* measures a duration never sees time go back.  (The time of the Phi board is cut
\* to four digits, as it is multiplied.)
Tick == TINC2 * DIGIT + TINC1
LatchIsATime ==
    [][copying # "no" /\ copying' = "no" =>
          LET scale == IF phi THEN SCALE ELSE 1
          IN \E n \in since .. ticks : Value(sampledTMR') = (scale * n * Tick) % Whole]_timervars
=============================================================================
