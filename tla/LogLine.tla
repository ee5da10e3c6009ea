--------------------------------- MODULE LogLine ---------------------------------
(***************************************************************************)
(* How log_printf() makes a line in its buffer of LOG_BUF_LEN_MAX bytes,   *)
(* and log_data_push_*() an item in one of LOG_ITEM_LEN_MAX (util/log.cpp).*)
(* Of a piece of text only its length is kept.  A cursor has the position  *)
(* `buf', the room `size' behind it, the place of the last terminator, and *)
(* the end of what has been written.                                       *)
(***************************************************************************)
EXTENDS Integers, Sequences, SequencesExt

CONSTANTS
    LineMax,    \* LOG_BUF_LEN_MAX
    ItemMax     \* LOG_ITEM_LEN_MAX

Cursor(n) == [buf |-> 0, size |-> n, nul |-> -1, top |-> 0]

Least(a, b) == IF a < b THEN a ELSE b
Greatest(a, b) == IF a > b THEN a ELSE b

\* n bytes of text and a terminator behind the cursor, which stays where it is.
Written(cur, n) ==
    [cur EXCEPT !.nul = cur.buf + n, !.top = Greatest(@, cur.buf + n + 1)]

\* _ADJUST_LOG_BUF_CURSOR().  Without room (size is 0) it goes one byte back.
Adjust(cur, ret) ==
    LET n == IF ret >= cur.size THEN cur.size - 1 ELSE ret
    IN  [cur EXCEPT !.buf = @ + n, !.size = @ - n]

\* snprintf() of n bytes, then _ADJUST_LOG_BUF_CURSOR().
Printed(cur, n) ==
    Adjust(IF cur.size = 0 THEN cur ELSE Written(cur, Least(n, cur.size - 1)), n)

\* _ADD_BLANK_SPACE(): with room for one byte the terminator has none.
AddBlankSpace(cur) ==
    IF cur.size = 0 THEN cur
    ELSE [Written(cur, 1) EXCEPT !.buf = @ + 1, !.size = @ - 1]

\* _PUSH(): the length of the item of a key and a value.
Push(key, value) ==
    Printed(Printed(Printed(Cursor(ItemMax), key), 1), value).buf

\* The loop over the items, which are the data of the thread or the request.
CopyItem(cur, len) ==
    LET n == IF cur.size > len THEN len ELSE Greatest(cur.size - 1, 0)
    IN  AddBlankSpace([Written(cur, n) EXCEPT !.buf = @ + n, !.size = @ - n])

\* A pointer to text that is NULL.
Null == -1

\* The part a monitor line does not have: prefix, "file=", " function=" and the
\* items.
Preamble(line) ==
    LET prefix == Printed(Cursor(LineMax), line.prefix)
        file   == IF line.file = Null THEN prefix
                  ELSE Printed(Printed(prefix, 5), line.file)
        func   == IF line.function = Null THEN file
                  ELSE AddBlankSpace(Printed(Printed(file, 10), line.function))
    IN  Printed(FoldLeft(CopyItem, func, line.items), 4)

\* The message, and "]\033[0m\n".
Line(line) ==
    Printed(Printed(IF line.monitor THEN Cursor(LineMax) ELSE Preamble(line),
                    line.msg), 6)
=============================================================================
