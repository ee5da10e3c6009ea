--------------------------------- MODULE Numbers ---------------------------------
(***************************************************************************)
(* Numbers in text (util/utils.cpp, and sdsfromlonglong() of util/sds.cpp).*)
(* The widths of long long and long are parameters: string2ll() is about   *)
(* their limits.  The multipliers of times and sizes are those of the      *)
(* build, where int has 32 bits.                                           *)
(***************************************************************************)
EXTENDS Bytes

CONSTANTS
    MaxLL,      \* LLONG_MAX
    MaxLong,    \* LONG_MAX
    UnitBuf     \* sizeof(buf) of timetoll() and memtoll()

MinLL == -MaxLL - 1
MaxULL == 2 * MaxLL + 1     \* ULLONG_MAX

Failed == [ok |-> FALSE, value |-> 0]
Parsed(v) == [ok |-> TRUE, value |-> v]

\* The do loop of ll2string() and sdsfromlonglong().
Digits[v \in Nat] ==
    IF v < 10 THEN <<48 + v>> ELSE Append(Digits[v \div 10], 48 + (v % 10))

SdsFromLongLong(value) ==
    IF value < 0 THEN <<MINUS>> \o Digits[-value] ELSE Digits[value]

\* ll2string() into a buffer of len bytes, the terminator among them.
Ll2String(len, value) ==
    LET all == SdsFromLongLong(value)
    IN  IF Len(all) + 1 > len THEN SubSeq(all, 1, len - 1) ELSE all

\* The loop of string2ll() over the digits from position `first' on: upto[p] is
\* what they make as far as position p.
DigitsFrom(s, first) ==
    LET upto[p \in first .. Len(s)] ==
            LET v == upto[p - 1].value
            IN  IF p = first THEN Parsed(s[p] - 48)
                ELSE IF ~upto[p - 1].ok \/ ~IsDigit(s[p]) \/ v > MaxULL \div 10
                        \/ 10 * v > MaxULL - (s[p] - 48) THEN Failed
                ELSE Parsed(10 * v + (s[p] - 48))
    IN  upto[Len(s)]

\* The end of string2ll().
Signed(negative, v) ==
    CASE negative /\ v <= MaxLL + 1 -> Parsed(-v)
      [] ~negative /\ v <= MaxLL    -> Parsed(v)
      [] OTHER                      -> Failed

String2ll(s) ==
    LET negative == At(s, 1) = MINUS
        first == IF negative THEN 2 ELSE 1
        rest == DigitsFrom(s, first)
    IN  IF s = <<48>> THEN Parsed(0)
        ELSE IF At(s, first) \notin 49 .. 57 \/ ~rest.ok THEN Failed
        ELSE Signed(negative, rest.value)

String2l(s) ==
    LET ll == String2ll(s)
    IN  IF ll.ok /\ (ll.value < -MaxLong - 1 \/ ll.value > MaxLong) THEN Failed
        ELSE ll

-----------------------------------------------------------------------------
(* timetoll() and memtoll(): digits and a unit, in upper or lower case.    *)

\* The names of the units.
UnitText == [us |-> <<117, 115>>, ms |-> <<109, 115>>, s |-> <<115>>, m |-> <<109>>,
             h |-> <<104>>, b |-> <<98>>, k |-> <<107>>, kb |-> <<107, 98>>,
             mb |-> <<109, 98>>, g |-> <<103>>, gb |-> <<103, 98>>]

\* The int product 60 * 60 * 1000 * 1000 wraps around.
WrappedHour == (1800000000 - 2147483647 - 1) + (1800000000 - 2147483647 - 1)

TimeUnits == [us |-> 1, ms |-> 1000, s |-> 1000 * 1000, m |-> 60 * 1000 * 1000,
              h |-> WrappedHour]

MemUnits == [b |-> 1, k |-> 1000, kb |-> 1024, m |-> 1000 * 1000,
             mb |-> 1024 * 1024, g |-> 1000 * 1000 * 1000,
             gb |-> 1024 * 1024 * 1024]

Lower(c) == IF c \in 65 .. 90 THEN c + 32 ELSE c

\* strtoll() of a short text of digits, with a sign or not.
Strtoll(s) ==
    LET v[i \in 0 .. Len(s)] ==
            IF i = 0 \/ s[i] = MINUS THEN 0 ELSE 10 * v[i - 1] + (s[i] - 48)
    IN  IF At(s, 1) = MINUS THEN -v[Len(s)] ELSE v[Len(s)]

\* The text from position p on is digits and a unit; none is the unit 1, and one
\* that is not known is an error and counts as 1.
ToLL(units, text, p) ==
    LET u == CHOOSE u \in p .. Len(text) + 1 :
                 ~IsDigit(At(text, u)) /\ \A i \in p .. u - 1 : IsDigit(text[i])
        unit == [i \in 1 .. Len(text) - u + 1 |-> Lower(text[u - 1 + i])]
        known == {k \in DOMAIN units : UnitText[k] = unit}
        mul == IF known = {} THEN 1 ELSE units[CHOOSE k \in known : TRUE]
    IN  IF u - 1 >= UnitBuf THEN [err |-> TRUE, value |-> MaxLL]
        ELSE [err |-> known = {} /\ unit # <<>>,
              value |-> Strtoll(SubSeq(text, 1, u - 1)) * mul]

Timetoll(text) == ToLL(TimeUnits, text, 1)
Memtoll(text) == ToLL(MemUnits, text, IF At(text, 1) = MINUS THEN 2 ELSE 1)
=============================================================================
