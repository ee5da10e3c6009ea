---------------------------------- MODULE Bytes ----------------------------------
(* Characters as the bytes they are, and the classes of ctype.h.           *)
EXTENDS Integers, Sequences

NUL == 0
BEL == 7
BS == 8
TAB == 9
LF == 10
CR == 13
SPACE == 32
QUOTE == 34
PERCENT == 37
APOS == 39
PLUS == 43
MINUS == 45
BACKSLASH == 92
LowerX == 120

IsSpace(c) == c \in 9 .. 13 \cup {SPACE}
IsDigit(c) == c \in 48 .. 57
IsPrint(c) == c \in 32 .. 126
IsAlpha(c) == c \in 65 .. 90 \cup 97 .. 122

HexLower(n) == IF n < 10 THEN 48 + n ELSE 87 + n
HexUpper(n) == IF n < 10 THEN 48 + n ELSE 55 + n

\* The byte at position p of a C string s; behind the end is the terminator.
At(s, p) == IF p <= Len(s) THEN s[p] ELSE NUL

\* What strlen() and "%s" see of s.
CString(s) ==
    LET n == CHOOSE n \in 0 .. Len(s) : /\ At(s, n + 1) = NUL
                                        /\ \A i \in 1 .. n : s[i] # NUL
    IN  SubSeq(s, 1, n)
=============================================================================
