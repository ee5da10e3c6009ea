--------------------------------- MODULE MCUtil ---------------------------------
(***************************************************************************)
(* The utility libraries for TLC.  `lib' is the one a behaviour exercises: *)
(* the ones with state (module Util) run, and a library of pure functions  *)
(* gets one of its inputs.                                                 *)
(***************************************************************************)
EXTENDS Util, SequencesExt, TLC

CONSTANTS
    t1, t2, t3, t4, p1, p2, p3,
    MaxLL, MaxLong, UnitBuf, LineMax, ItemMax

VARIABLE input

-----------------------------------------------------------------------------
(* Instances.  With four threads the vector of Stat moves three times and  *)
(* uses spare capacity once while a query may be walking it.               *)

FourThreads == {t1, t2, t3, t4}
FourSymmetry == Permutations(FourThreads)
LeastInt == -100
MCValues == {-1, 1}

MCPaths == {<<"/", "a", "/", "b">>, <<"a", "/", "b", "/">>,
            <<"/", "a", "/", "c", "/", "d">>, <<"/", "a", "/", "/", "b">>,
            <<"/", "f">>, <<".", "/", "f", "/", "b">>}
MCFiles == {<<<<"f">>>>}
MCHash == [x |-> 5, y |-> 9, z |-> 6]

TEXT  == INSTANCE SdsText
NUM   == INSTANCE Numbers
URL   == INSTANCE UrlFormat
LINE  == INSTANCE LogLine

ASSUME PureConstants ==
    /\ MaxLL \in Nat /\ MaxLong \in 0 .. MaxLL
    /\ UnitBuf \in Nat /\ LineMax \in Nat \ {0} /\ ItemMax \in Nat \ {0}

-----------------------------------------------------------------------------
(* Inputs of the pure functions.                                           *)

Texts(chars, n) == UNION {[1 .. k -> chars] : k \in 0 .. n}

\* Arguments to quote (with bytes that are quoted in every way), lines to split
\* into arguments, texts to split at separators, and lengths of formatted output.
TextInputs ==
    [kind : {"args"}, args : Texts(Texts({0, 7, 34, 39, 92, 97, 255}, 2), 2)]
    \cup [kind : {"line"}, line : Texts({32, 34, 39, 48, 92, 97, 120}, 5)]
    \cup [kind : {"split"}, s : Texts({1, 2}, 8), sep : {<<1>>, <<1, 1>>, <<1, 2>>}]
    \cup [kind : {"printf"}, n : 0 .. 70]

\* Texts that are numbers or nearly, the numbers of the width of long long, and
\* amounts with a unit.
NumberInputs ==
    [kind : {"text"}, s : Texts({45, 48, 49, 50, 53, 55, 56, 97}, 4)]
    \cup [kind : {"value"}, v : NUM!MinLL .. MaxLL, len : 1 .. 6]
    \cup [kind : {"time"}, n : 0 .. 2, units : {<<"us", 1000, "ms">>, <<"ms", 1000, "s">>,
                                                <<"s", 60, "m">>}]
    \cup [kind : {"size"}, n : -1 .. 1, units : {<<"b", 1000, "k">>, <<"k", 1000, "m">>,
              <<"m", 1000, "g">>, <<"b", 1024, "kb">>, <<"kb", 1024, "mb">>, <<"mb", 1024, "gb">>}]

\* "%s", "%4s", "%-4s", "%.1s", "%-4.1sx", "a b%%%c", "%d", "%05d", "%+d|", "%-4d",
\* "%#x", "%04X", "%#o", "%hd", "%*d".
StringFormats == {<<37, 115>>, <<37, 52, 115>>, <<37, 45, 52, 115>>, <<37, 46, 49, 115>>,
                  <<37, 45, 52, 46, 49, 115, 120>>}
NumberFormats == {<<97, 32, 98, 37, 37, 37, 99>>, <<37, 100>>, <<37, 48, 53, 100>>,
                  <<37, 43, 100, 124>>, <<37, 45, 52, 100>>, <<37, 35, 120>>,
                  <<37, 48, 52, 88>>, <<37, 35, 111>>, <<37, 104, 100>>}
UrlInputs ==
    [fmt : StringFormats, args : [1 .. 1 -> Texts({37, 97, 188}, 3)], size : 0 .. 10]
    \cup [fmt : NumberFormats, args : {<<0>>, <<7>>, <<45>>, <<171>>}, size : 0 .. 10]
    \cup [fmt : {<<37, 42, 100>>}, args : {<<0, 7>>, <<3, 7>>}, size : 0 .. 5]

\* Lengths of the pieces of a log line, and of an item.
LineInputs ==
    [kind : {"line"}, monitor : BOOLEAN, prefix : {0, 8, 38, 39, 60},
     file : {-1, 0, 5, 24}, function : {-1, 0, 9}, items : Texts({0, 2, 15}, 3),
     msg : {0, 1, 12, 90}]
    \cup [kind : {"item"}, key : 0 .. ItemMax + 1, value : 0 .. ItemMax + 1]

-----------------------------------------------------------------------------
Libraries == [text |-> TextInputs, number |-> NumberInputs, url |-> UrlInputs,
              line |-> LineInputs, stat |-> {None}, string |-> {None},
              path |-> {None}, name |-> Texts({"/", "a", "b"}, 6), lock |-> {None},
              memory |-> {None}]

MCLibs == DOMAIN Libraries

MCInit == UtilInit /\ input \in Libraries[lib]

MCNext == UtilNext /\ UNCHANGED input

MCSpec == MCInit /\ [][MCNext]_<<utilVars, input>>

Given(l, kind) == lib = l /\ input.kind = kind

-----------------------------------------------------------------------------
(* Properties.                                                             *)

Joined(words, sep) ==
    FoldLeft(LAMBDA s, w : IF s = <<>> THEN w ELSE s \o sep \o w, <<>>, words)
Quoted(args) == Joined([i \in DOMAIN args |-> TEXT!SdsCatRepr(<<>>, args[i])], <<32>>)

Tokens ==
    /\ Given("text", "args") =>
          TEXT!SdsSplitArgs(Quoted(input.args)) = [ok |-> TRUE, argv |-> input.args]
    /\ Given("text", "line") =>
          \E r \in {TEXT!SdsSplitArgs(input.line)} :
              r.ok => TEXT!SdsSplitArgs(Quoted(r.argv)) = r
    /\ Given("text", "split") =>
          \E r \in {TEXT!SdsSplitLen(input.s, input.sep)} :
              /\ r.fits
              /\ \A i \in DOMAIN r.tokens :
                     \A k \in 0 .. Len(r.tokens[i]) - Len(input.sep) :
                         SubSeq(r.tokens[i], k + 1, k + Len(input.sep)) # input.sep
              /\ FlattenSeq([i \in DOMAIN r.tokens |->
                     IF i = 1 THEN r.tokens[i] ELSE input.sep \o r.tokens[i]]) = input.s
    /\ Given("text", "printf") =>
          \E out \in {[i \in 1 .. input.n |-> 97]} :
              TEXT!SdsCatVPrintf(<<98>>, out) = <<98>> \o out

Numeral == [v \in NUM!MinLL .. MaxLL |-> NUM!SdsFromLongLong(v)]

\* The text of n times a unit.
Amount(n, unit) == NUM!SdsFromLongLong(n) \o NUM!UnitText[unit]
Upper(s) == [i \in DOMAIN s |-> IF s[i] \in 97 .. 122 THEN s[i] - 32 ELSE s[i]]

\* f reads n of a unit as so many of the smaller one, and in upper case the same.
SameAmount(f(_), n, units) ==
    \E r \in {f(Amount(n, units[3]))} :
        /\ ~r.err /\ (r.value < 0 <=> n < 0) /\ (r.value = 0 <=> n = 0)
        /\ f(Amount(n * units[2], units[1])) = r
        /\ f(Upper(Amount(n, units[3]))) = r

NumbersRead ==
    /\ Given("number", "text") =>
          /\ \E r \in {NUM!String2ll(input.s)} :
                 IF r.ok THEN r.value \in DOMAIN Numeral /\ Numeral[r.value] = input.s
                 ELSE \A v \in DOMAIN Numeral : Numeral[v] # input.s
          /\ NUM!String2l(input.s).ok <=>
                 \E v \in -MaxLong - 1 .. MaxLong : Numeral[v] = input.s
    /\ Given("number", "value") =>
          \E t \in {NUM!Ll2String(input.len, input.v)} :
              /\ Len(t) < input.len /\ IsPrefix(t, Numeral[input.v])
              /\ Len(Numeral[input.v]) < input.len =>
                     NUM!String2ll(t) = [ok |-> TRUE, value |-> input.v]
    /\ Given("number", "time") =>
          SameAmount(NUM!Timetoll, input.n, input.units)
    /\ Given("number", "size") =>
          /\ SameAmount(NUM!Memtoll, input.n, input.units)
          /\ NUM!Memtoll(Amount(input.n, input.units[3]) \o <<120>>).err

\* What the text functions write, they read back.  sdssplitargs() reads what
\* sdscatrepr() quotes (sds.cpp:416), for every byte; and the arguments that any
\* line has, quoted again, are the same ones.  sdssplitlen() (sds.cpp:345) loses
\* nothing: the tokens put together are the text, none has the separator in it,
\* and the array has a slot for each.  sdscatvprintf() (sds.cpp:225) cuts no
\* output.  string2ll() (utils.cpp:123) accepts the numerals of the numbers of its
\* type and nothing else, the smallest one included, and returns the number;
\* string2l() does so for the range of long.  ll2string() writes the numeral that
\* string2ll() reads back, cut when the buffer is short of it.  A time of up to
\* minutes or a size with a unit (utils.cpp:13, 55) is as much as the amount of the
\* next smaller unit that it stands for, with the sign of its number, in upper case
\* too, and a size that goes on behind its unit is an error.
TextExact == Tokens /\ NumbersRead

UrlPrefix ==
    lib = "url" =>
        \E out \in {URL!UrlVsnprintf(input.size, input.fmt, input.args)},
           full \in {URL!UrlVsnprintf(100, input.fmt, input.args)} :
            /\ Len(out) = IF input.size < Len(full) THEN input.size ELSE Len(full)
            /\ \A i \in 1 .. Len(out) :
                  out[i] = full[i] \/ (i = input.size /\ full[i - 1] = 37)
            /\ input.fmt = <<37, 115>> => URL!Decoded(full) = input.args[1]
            /\ input.fmt = <<37, 100>> =>
                  URL!Decoded(full) = NUM!SdsFromLongLong(input.args[1])

LineTerminated ==
    /\ Given("line", "line") =>
          \E l \in {LINE!Line(input)} :
              /\ l.buf \in 1 .. LineMax - 1 /\ l.nul = l.buf
              /\ l.buf + l.size = LineMax
              /\ l.top <= LineMax + 1
    /\ Given("line", "item") => LINE!Push(input.key, input.value) \in 1 .. ItemMax - 1

\* Functions with a buffer of a fixed size stay inside it and leave what the next
\* one needs.  url_vsnprintf() (url_snprintf.cpp:28) never writes more than `size'
\* bytes in front of the terminator, and what it writes into a short buffer is the
\* beginning of the whole output, but for an escape that has lost its last digit;
\* the whole output of "%s" and "%d" decodes to the text of the argument.  A line
\* of log_printf() (log.cpp:159), however long its pieces are, ends with the
\* terminator inside the buffer and has room for the newline in front of it, the
\* cursor and the room always add up to the buffer, and at most the one byte
\* behind the buffer is touched while it is made.  An item is never empty (its node
\* would be taken to be unused) and is shorter than its buffer.
BuffersKept == UrlPrefix /\ LineTerminated

\* create_dir() (file.cpp:137) returns 0 only when all of the path exists, and of
\* processes that race for the same directories one succeeds; dirname() and
\* basename() take any path apart without loss (module Paths).
PathsCreated ==
    /\ lib = "path" => DIR!DirsCreated
    /\ lib = "name" => DIR!PathParts(input)
=============================================================================
