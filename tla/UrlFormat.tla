-------------------------------- MODULE UrlFormat --------------------------------
(***************************************************************************)
(* url_vsnprintf() (util/url_snprintf.cpp): printf() whose output is       *)
(* percent-encoded and cut at the size of the buffer.  A format is a       *)
(* sequence of bytes, an argument an integer or a C string.  Floating      *)
(* point conversions are left out, and so are the types the lengths choose *)
(* for an integer (with j, t and L there is no output).  A format ends     *)
(* every conversion it begins.                                             *)
(*                                                                         *)
(* The output is a record: the bytes, how much room is left, and the       *)
(* arguments that are still to be read.                                    *)
(***************************************************************************)
EXTENDS Bytes, SequencesExt

Unreserved(c) == IsAlpha(c) \/ IsDigit(c) \/ c \in {MINUS, 46, 95, 126}

Escape(c) == <<PERCENT, HexUpper((c \div 16) % 16), HexUpper(c % 16)>>

\* Mutant: _put() keeps no room for the digits of an escape.
PutOverrun(o, c) ==
    IF o.size = 0 THEN o
    ELSE IF Unreserved(c)
    THEN [o EXCEPT !.out = Append(@, c), !.size = @ - 1]
    ELSE [o EXCEPT !.out = @ \o Escape(c), !.size = IF @ < 3 THEN 0 ELSE @ - 3]

\* _put().  An escape that has room for two bytes only has the first digit as
\* '0' + value.
Put(o, c) ==
    IF o.size = 0 THEN o
    ELSE IF Unreserved(c)
    THEN [o EXCEPT !.out = Append(@, c), !.size = @ - 1]
    ELSE CASE o.size = 1 -> [o EXCEPT !.out = Append(@, PERCENT), !.size = 0]
           [] o.size = 2 -> [o EXCEPT !.out = @ \o <<PERCENT, 48 + ((c \div 16) % 16)>>,
                                      !.size = 0]
           [] OTHER      -> [o EXCEPT !.out = @ \o Escape(c), !.size = @ - 3]

PutAll(o, s) == FoldLeft(Put, o, s)
Times(n, c) == [i \in 1 .. n |-> c]

-----------------------------------------------------------------------------
(* One conversion: d has the flags, the width and the precision.           *)

Plain == [alternate |-> FALSE, minus |-> FALSE, plus |-> FALSE, space |-> FALSE,
          zero |-> FALSE, width |-> 0, precision |-> 0, length |-> 0, state |-> 0]
FLAGS == 0
WIDTH == 1
PRECISION == 2
LENGTH == 3

\* The digits of val, the last one first.
RECURSIVE Reversed(_, _, _)
Reversed(val, base, upper) ==
    LET n == val % base
        c == IF upper THEN HexUpper(n) ELSE HexLower(n)
    IN  IF val < base THEN <<c>> ELSE <<c>> \o Reversed(val \div base, base, upper)

\* What stands in front of the digits: the sign, or 0, 0x and 0X.
Sign(d, val, hasneg) ==
    CASE val < 0 -> <<MINUS>>
      [] val >= 0 /\ hasneg /\ d.plus -> <<43>>
      [] val >= 0 /\ hasneg /\ ~d.plus /\ d.space -> <<SPACE>>
      [] OTHER -> <<>>

\* _out_int_alt().  With the flag 0 and a width the sign and the prefix are put
\* in front of the zeros; else they are part of the number.  The loop behind the
\* number pads with spaces once more, whether or not there was padding in front.
OutInt(o, d, base, hasneg, prefix, upper) ==
    LET val == Head(o.args)
        alt == IF d.alternate THEN prefix ELSE <<>>
        sign == Sign(d, val, hasneg)
        early == IF ~d.zero \/ d.width = 0 THEN <<>>
                 ELSE IF d.width > Len(sign) THEN sign \o alt ELSE sign
        width == IF Len(early) > d.width THEN 0 ELSE d.width - Len(early)
        late == SubSeq(sign \o alt, Len(early) + 1, Len(sign \o alt))
        number == late \o Reverse(Reversed(IF val < 0 THEN -val ELSE val, base, upper))
        pad == IF width > Len(number) THEN width - Len(number) ELSE 0
    IN  PutAll([o EXCEPT !.args = Tail(@)],
               early \o (IF d.minus THEN <<>>
                         ELSE Times(pad, IF d.zero THEN 48 ELSE SPACE))
                     \o number \o Times(pad, SPACE))

\* The conversion s.
OutString(o, d) ==
    LET val == CString(Head(o.args))
        shown == IF d.precision > 0 /\ Len(val) > d.precision
                 THEN SubSeq(val, 1, d.precision) ELSE val
        pad == IF d.width > Len(shown) THEN Times(d.width - Len(shown), SPACE)
               ELSE <<>>
    IN  PutAll([o EXCEPT !.args = Tail(@)],
               IF d.minus THEN shown \o pad ELSE pad \o shown)

-----------------------------------------------------------------------------
(* The format.                                                             *)

\* A character of a conversion that does not end it: flags, width, precision
\* and length.  '*' reads an argument, and falls through to 'h'.
Modified(d, c, arg) ==
    LET number(n) == 10 * n + (c - 48)
    IN  CASE c \in {35, MINUS, 43, SPACE} /\ d.state = FLAGS ->
                 [d EXCEPT !.alternate = @ \/ c = 35, !.minus = @ \/ c = MINUS,
                           !.plus = @ \/ c = 43, !.space = @ \/ c = SPACE]
          [] c = 48 /\ d.state = FLAGS -> [d EXCEPT !.zero = TRUE]
          [] IsDigit(c) /\ d.state <= WIDTH /\ ~(c = 48 /\ d.state = FLAGS) ->
                 [d EXCEPT !.width = number(@), !.state = WIDTH]
          [] IsDigit(c) /\ d.state = PRECISION -> [d EXCEPT !.precision = number(@)]
          [] c = 46 /\ d.state <= PRECISION -> [d EXCEPT !.state = PRECISION]
          [] c = 42 -> [d EXCEPT !.width = IF d.state <= WIDTH THEN arg ELSE @,
                                 !.precision = IF d.state = PRECISION THEN arg ELSE @,
                                 !.length = 104, !.state = LENGTH]
          [] c \in {104, 108, 106, 122, 116, 76} ->
                 [d EXCEPT !.length = c, !.state = LENGTH]
          [] OTHER -> d

\* c ends the conversion d.
Ends(c) == c \in {99, 100, 105, 111, 112, 115, 117, LowerX, 88, 110, PERCENT}
Converted(o, d, c) ==
    CASE c \in {110, PERCENT} -> Put(o, PERCENT)
      [] c = 99  -> Put([o EXCEPT !.args = Tail(@)], Head(o.args))
      [] c = 115 -> OutString(o, d)
      [] c = 112 -> OutInt(o, d, 16, FALSE, <<48, LowerX>>, FALSE)
      [] OTHER   -> IF d.length \in {106, 116, 76} THEN o
                    ELSE CASE c \in {100, 105} -> OutInt(o, d, 10, TRUE, <<>>, FALSE)
                           [] c = 117 -> OutInt(o, d, 10, FALSE, <<>>, FALSE)
                           [] c = 111 -> OutInt(o, d, 8, FALSE, <<48>>, FALSE)
                           [] c = LowerX -> OutInt(o, d, 16, FALSE, <<48, LowerX>>, FALSE)
                           [] c = 88  -> OutInt(o, d, 16, FALSE, <<48, 88>>, TRUE)

RECURSIVE Conversion(_, _, _, _)
Conversion(o, fmt, p, d) ==
    LET c == fmt[p]
        reads == c = 42 /\ d.state <= PRECISION
    IN  IF Ends(c) THEN [o |-> Converted(o, d, c), next |-> p + 1]
        ELSE Conversion(IF reads THEN [o EXCEPT !.args = Tail(@)] ELSE o, fmt, p + 1,
                        Modified(d, c, IF reads THEN Head(o.args) ELSE 0))

RECURSIVE FormatFrom(_, _, _)
FormatFrom(o, fmt, p) ==
    IF p > Len(fmt) \/ o.size = 0 THEN o.out
    ELSE IF fmt[p] # PERCENT THEN FormatFrom(Put(o, fmt[p]), fmt, p + 1)
    ELSE LET e == Conversion(o, fmt, p + 1, Plain) IN FormatFrom(e.o, fmt, e.next)

\* The bytes in front of the terminator.
UrlVsnprintf(size, fmt, args) ==
    FormatFrom([out |-> <<>>, size |-> size, args |-> args], fmt, 1)

\* What a reader of the output makes of it.
RECURSIVE Decoded(_)
Decoded(s) ==
    LET value(c) == IF IsDigit(c) THEN c - 48 ELSE c - 55
    IN  IF s = <<>> THEN <<>>
        ELSE IF s[1] = PERCENT
        THEN <<16 * value(s[2]) + value(s[3])>> \o Decoded(SubSeq(s, 4, Len(s)))
        ELSE <<s[1]>> \o Decoded(Tail(s))
=============================================================================
