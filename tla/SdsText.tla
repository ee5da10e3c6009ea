--------------------------------- MODULE SdsText ---------------------------------
(***************************************************************************)
(* The functions of util/sds.cpp that make and take apart text: formatted  *)
(* output, splitting at a separator, and the quoting that configuration    *)
(* lines use.  Allocation does not fail.                                   *)
(***************************************************************************)
EXTENDS Bytes

-----------------------------------------------------------------------------
(* sdscatvprintf(): vsnprintf() into a buffer that is doubled until the    *)
(* output has fitted, which the last but one byte tells.                   *)

\* The buffer of n bytes after vsnprintf() of `out'; a byte it has not written
\* is 0 at the place the loop looks at, and of no interest elsewhere.
Vsnprintf(n, out) ==
    [i \in 1 .. n |-> IF i <= Len(out) /\ i < n THEN out[i] ELSE NUL]

Fitted(n, out) == Vsnprintf(n, out)[n - 1] = NUL

\* buflen after it has been doubled as often as it must.
BufLen(out) ==
    LET k == CHOOSE k \in 0 .. Len(out) : /\ Fitted(16 * 2 ^ k, out)
                                          /\ \A j \in 0 .. k - 1 : ~Fitted(16 * 2 ^ j, out)
    IN  16 * 2 ^ k

SdsCatVPrintf(s, out) == s \o CString(Vsnprintf(BufLen(out), out))

-----------------------------------------------------------------------------
(* sdssplitlen().  Positions are from 0, as in the code.                   *)

\* One turn of the loop, until j is too near to the end for a separator.
SplitStep(s, sep, l) ==
    LET room == IF l.slots < Len(l.tokens) + 2 THEN 2 * l.slots ELSE l.slots
        next == l.j + Len(sep)
    IN  IF l.j >= Len(s) - (Len(sep) - 1) THEN l
        ELSE IF SubSeq(s, l.j + 1, next) = sep
        THEN [j |-> next, start |-> next, slots |-> room,
              tokens |-> Append(l.tokens, SubSeq(s, l.start + 1, l.j))]
        ELSE [l EXCEPT !.j = @ + 1, !.slots = room]

SdsSplitLen(s, sep) ==
    LET loop[i \in 0 .. Len(s)] ==
            IF i = 0 THEN [j |-> 0, start |-> 0, slots |-> 5, tokens |-> <<>>]
            ELSE SplitStep(s, sep, loop[i - 1])
        end == loop[Len(s)]
    IN  IF Len(s) = 0 THEN [tokens |-> <<>>, fits |-> TRUE]
        ELSE [tokens |-> Append(end.tokens, SubSeq(s, end.start + 1, Len(s))),
              fits   |-> Len(end.tokens) < end.slots]

-----------------------------------------------------------------------------
(* Quoting.                                                                *)

IsHexDigit(c) == c \in 48 .. 57 \cup 97 .. 102 \cup 65 .. 70

HexDigitToInt(c) ==
    CASE c \in 48 .. 57  -> c - 48
      [] c \in 97 .. 102 -> c - 87
      [] c \in 65 .. 70  -> c - 55
      [] OTHER           -> 0

\* The letters of \n, \r, \t, \b and \a.
Letter == [c \in {LF, CR, TAB, BS, BEL} |->
              CASE c = LF -> 110 [] c = CR -> 114 [] c = TAB -> 116
                [] c = BS -> 98 [] c = BEL -> 97]

\* Mutant: backslashes are not quoted.
ReprWithoutBackslash(c) ==
    CASE c = QUOTE -> <<BACKSLASH, c>>
      [] c \in DOMAIN Letter -> <<BACKSLASH, Letter[c]>>
      [] IsPrint(c) /\ c # QUOTE -> <<c>>
      [] OTHER -> <<BACKSLASH, LowerX, HexLower(c \div 16), HexLower(c % 16)>>

Repr(c) ==
    CASE c \in {QUOTE, BACKSLASH} -> <<BACKSLASH, c>>
      [] c \in DOMAIN Letter -> <<BACKSLASH, Letter[c]>>
      [] IsPrint(c) /\ c \notin {QUOTE, BACKSLASH} -> <<c>>
      [] OTHER -> <<BACKSLASH, LowerX, HexLower(c \div 16), HexLower(c % 16)>>

SdsCatRepr(s, p) ==
    LET quoted[n \in 0 .. Len(p)] ==
            IF n = 0 THEN s \o <<QUOTE>> ELSE quoted[n - 1] \o Repr(p[n])
    IN  quoted[Len(p)] \o <<QUOTE>>

Unescaped(c) ==
    IF \E b \in DOMAIN Letter : Letter[b] = c
    THEN CHOOSE b \in DOMAIN Letter : Letter[b] = c ELSE c

\* One more byte in front of the rest of a token.
Byte(c, rest) == [rest EXCEPT !.text = <<c>> \o @]

\* The token of sdssplitargs() from a position of the line on: from[p, quote] is
\* the rest of it at position p, where `quote' is inq or insq.
Token(line, start) ==
    LET from[p \in 1 .. Len(line) + 1, quote \in {NUL, QUOTE, APOS}] ==
            LET c == At(line, p)
                d == At(line, p + 1)
                byte == quote = QUOTE /\ c = BACKSLASH /\ d = LowerX
                        /\ IsHexDigit(At(line, p + 2)) /\ IsHexDigit(At(line, p + 3))
                escape == quote = QUOTE /\ c = BACKSLASH /\ d # NUL /\ ~byte
                apostrophe == quote = APOS /\ c = BACKSLASH /\ d = APOS
                closes == quote # NUL /\ c = quote
                opens == quote = NUL /\ c \in {QUOTE, APOS}
                ends == c = NUL \/ (quote = NUL /\ c \in {SPACE, LF, CR, TAB})
            IN  CASE byte -> Byte(16 * HexDigitToInt(At(line, p + 2))
                                     + HexDigitToInt(At(line, p + 3)), from[p + 4, quote])
                  [] escape -> Byte(Unescaped(d), from[p + 2, quote])
                  [] apostrophe -> Byte(APOS, from[p + 2, quote])
                  [] closes -> [ok |-> d = NUL \/ IsSpace(d), next |-> p + 1,
                                text |-> <<>>]
                  [] opens -> from[p + 1, c]
                  [] ends -> [ok |-> quote = NUL, next |-> IF c = NUL THEN p ELSE p + 1,
                              text |-> <<>>]
                  [] OTHER -> Byte(c, from[p + 1, quote])
    IN  from[start, NUL]

SkipBlanks(line, p) ==
    CHOOSE q \in p .. Len(line) + 1 :
        /\ \A i \in p .. q - 1 : IsSpace(line[i])
        /\ ~IsSpace(At(line, q))

\* The loop of sdssplitargs(): args[p] is what it makes of the line from position
\* p on, and nothing when it fails.
SdsSplitArgs(line) ==
    LET args[p \in 1 .. Len(line) + 1] ==
            LET q == SkipBlanks(line, p)
                t == Token(line, q)
                rest == args[t.next]
            IN  IF At(line, q) = NUL THEN [ok |-> TRUE, argv |-> <<>>]
                ELSE IF t.ok /\ rest.ok THEN [ok |-> TRUE, argv |-> <<t.text>> \o rest.argv]
                ELSE [ok |-> FALSE, argv |-> <<>>]
    IN  args[1]
=============================================================================
