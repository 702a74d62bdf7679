------------------------------ MODULE Wildcard -------------------------------
(***************************************************************************)
(* wcdcmp of src/sapfs/libsap.c, which compares a listed name with a       *)
(* pattern by backtracking over a stack of its own, without recursion.     *)
(* The stack is allocated for the length of the pattern and kept from one  *)
(* call to the next, across the names of a directory and, when a search    *)
(* was not brought to its end, across patterns.                            *)
(*                                                                         *)
(* Strings are sequences; a pointer into one is the number of characters   *)
(* before it.  One action is one turn of the loop.                         *)
(***************************************************************************)
EXTENDS Integers, SequencesExt

CONSTANTS Subjects, Patterns     \* the names and the patterns that are compared

Star == "*"
Quest == "?"
EndOfString   == "0x00"

VARIABLES
    s1, s2,             \* the arguments of the call
    capacity,           \* `size' of the working area, 0 when it is freed
    stack,              \* data[0 .. index], the top last
    tail,               \* s1 of data[index + 1], which MATCH_ANY goes on from
    match               \* 0: match, 1: no match, -1: the call is not over

wvars == <<s1, s2, capacity, stack, tail, match>>

\* What a C string is: its end is not one of its characters.
CString == {s \in Seq(STRING) : \A k \in 1 .. Len(s) : s[k] # EndOfString}

ASSUME WildcardAssumption == Patterns \subseteq CString /\ Subjects \subseteq CString

Frame(type, p1, p2) == [type |-> type, s1 |-> p1, s2 |-> p2]
Top == Last(stack)

\* The characters under the two pointers of the frame on top.
CharAt(s, p) == IF p = Len(s) THEN EndOfString ELSE s[p + 1]
c1 == CharAt(s1, Top.s1)
c2 == CharAt(s2, Top.s2)

WildInit ==
    /\ s1 = <<>> /\ s2 = <<>>
    /\ capacity = 0
    /\ stack = <<>> /\ tail = 0
    /\ match = 0

\* Mutant: the area of the first call is kept whatever the pattern.
Area_First(p) == IF capacity = 0 THEN Len(p) ELSE capacity

\* The area is replaced by one of the size of the pattern when it is too small.
Area(p) == IF capacity < Len(p) THEN Len(p) ELSE capacity

\* wcdcmp(s, p) as seek_wildcard calls it.
Call(s, p) ==
    /\ match # -1
    /\ s1' = s /\ s2' = p
    /\ capacity' = Area(p)
    /\ stack' = <<Frame("try", 0, 0)>>
    /\ match' = -1
    /\ tail' = 0

\* wcdcmp(NULL, NULL)
Reset ==
    /\ match # -1 /\ capacity # 0
    /\ capacity' = 0
    /\ UNCHANGED <<s1, s2, stack, tail, match>>

Answer(r) == match' = r /\ UNCHANGED <<s1, s2, capacity, stack, tail>>

\* index--: the frame leaves its s1 behind; without a frame there is no match.
Pop ==
    /\ stack' = Front(stack)
    /\ tail' = Top.s1
    /\ match' = IF Len(stack) = 1 THEN 1 ELSE -1
    /\ UNCHANGED <<s1, s2, capacity>>

\* The frame on top waits as `type' for what is tried above it.
Push(type, p1) ==
    /\ stack' = Append([stack EXCEPT ![Len(stack)].type = type],
                       Frame("try", p1, Top.s2 + 1))
    /\ UNCHANGED <<s1, s2, capacity, tail, match>>

OnlyStars(p2) == \A k \in p2 + 1 .. Len(s2) : s2[k] = Star

Trying == match = -1 /\ Top.type = "try"

PatternExhausted ==
    /\ Trying /\ c2 = EndOfString
    /\ IF c1 = EndOfString THEN Answer(0) ELSE Pop

StringExhausted ==
    /\ Trying /\ c2 # EndOfString /\ c1 = EndOfString
    /\ IF OnlyStars(Top.s2) THEN Answer(0) ELSE Pop

\* A star: the rest of the pattern is tried at the end of the string first.
TryStar ==
    /\ Trying /\ c1 # EndOfString /\ c2 = Star
    /\ Push("any", Len(s1))

TryOne ==
    /\ Trying /\ c1 # EndOfString /\ c2 \notin {EndOfString, Star}
    /\ IF c2 = Quest \/ c1 = c2 THEN Push("one", Top.s1 + 1) ELSE Pop

Back ==
    /\ match = -1 /\ Top.type = "one"
    /\ Pop

\* Mutant: a star stands for one character at least.
Shortest_One(p1) == p1 + 1

\* The star may stand for nothing, and the rest begin where the star did.
Shortest(p1) == p1

\* Mutant: the rest of the pattern is tried where it was.
Earlier_Same(p1) == p1

Earlier(p1) == p1 - 1

LongerStar ==
    /\ match = -1 /\ Top.type = "any"
    /\ IF Earlier(tail) >= Shortest(Top.s1)
         THEN /\ stack' = Append(stack, Frame("try", Earlier(tail), Top.s2 + 1))
              /\ UNCHANGED <<s1, s2, capacity, tail, match>>
         ELSE Pop

Turn == PatternExhausted \/ StringExhausted \/ TryStar \/ TryOne \/ Back \/ LongerStar

WildNext ==
    \/ Turn \/ Reset
    \/ \E s \in Subjects, p \in Patterns : Call(s, p)

WildSpec == WildInit /\ [][WildNext]_wvars /\ WF_wvars(Turn)

-----------------------------------------------------------------------------
\* What the comment on wcdcmp says of '*' and '?', from the ends of the strings.
Matches(s, p) ==
    LET m[at \in (0 .. Len(s)) \X (0 .. Len(p))] ==
          LET i == at[1]
              j == at[2]
          IN IF j = Len(p) THEN i = Len(s)
             ELSE IF p[j + 1] = Star
               THEN m[<<i, j + 1>>] \/ (i < Len(s) /\ m[<<i + 1, j>>])
             ELSE i < Len(s) /\ p[j + 1] \in {Quest, s[i + 1]} /\ m[<<i + 1, j + 1>>]
    IN m[<<0, 0>>]

\* Whatever was backtracked, the answer is the one of the definition.
AnswerIsMatch == match # -1 => (match = 0 <=> Matches(s1, s2))

\* The stack stays in its area of twice the capacity, for patterns that are not
\* empty, also when the area is that of an earlier and shorter pattern.
StackFits == match = -1 /\ s2 # <<>> => Len(stack) <= 2 * capacity

\* The backtracking ends: each turn tries something that was not tried before.
SearchEnds == match = -1 ~> match # -1
=============================================================================
