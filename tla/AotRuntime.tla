------------------------------ MODULE AotRuntime ------------------------------
(***************************************************************************)
(* The C runtime of a compiled program (codegen/backend_base.py): what its *)
(* functions on strings and arrays compute.  Their names are the code's.   *)
(*                                                                         *)
(* A machine word is tagged: a number, a boolean, a constant string <<"lit",*)
(* letters>>, a buffer of tsuchi_str_concat_owned <<"p", address>>, an      *)
(* array <<"a", address>>, a closure pair <<"f", function, environment>>, or *)
(* a null pointer.  A string is a sequence of letters, an array a cell of   *)
(* the heap: its elements and its capacity, both positions counted from 0   *)
(* as in C.                                                                 *)
(***************************************************************************)
EXTENDS Integers, Sequences, SequencesExt, TLC

\* ---- words.  Numbers are integers; a NaN, an infinity and the bits of a
\* pointer read as a number are integers no program computes.
Num(v) == <<"n", v>>
Truth(v) == <<"b", v>>
Lit(s) == <<"lit", s>>
Null == <<"null">>
NaN == Num(1000000)
Infinity == Num(1500000)
Bits(w) == Num(2000000 + (IF w[1] = "p" THEN w[2] ELSE 0))
WildPointer == <<"wild">>

F64(w) ==
  CASE w[1] = "b" -> Num(IF w[2] THEN 1 ELSE 0)
    [] w[1] \in {"lit", "p", "wild"} -> Bits(w)
    [] w[1] = "null" -> Num(0)
    [] OTHER -> w
\* (int)d: of a double no int holds, whatever the machine's conversion gives.
IntMin == -2147483647 - 1
IntMax == 2147483647
ToInt(w) ==
  CASE w = Infinity -> {IntMin, IntMax}
    [] w = NaN -> {IntMin, 0}
    [] OTHER -> {w[2]}

\* ---- letters
Lower == <<"a", "b", "c", "d", "e", "f", "g", "h", "i", "j", "k", "l", "m", "n", "o", "p", "q", "r", "s", "t",
           "u", "v", "w", "x", "y", "z">>
Upper == <<"A", "B", "C", "D", "E", "F", "G", "H", "I", "J", "K", "L", "M", "N", "O", "P", "Q", "R", "S", "T",
           "U", "V", "W", "X", "Y", "Z">>
Place(c, cs) == SelectInSeq(cs, LAMBDA x : x = c)
toupper(c) == IF Place(c, Lower) # 0 THEN Upper[Place(c, Lower)] ELSE c
tolower(c) == IF Place(c, Upper) # 0 THEN Lower[Place(c, Upper)] ELSE c
isspace(c) == c = " "
CharCode(c) ==
  CASE Place(c, Lower) # 0 -> 96 + Place(c, Lower)
    [] Place(c, Upper) # 0 -> 64 + Place(c, Upper)
    [] OTHER -> 32
Digit == <<"0", "1", "2", "3", "4", "5", "6", "7", "8", "9">>

\* Where search is in s, counted from 0, or -1: the first place, or the last.
Places(s, search) == {j \in 0..(Len(s) - Len(search)) : SubSeq(s, j + 1, j + Len(search)) = search}
strstr(s, search) ==
  LET js == Places(s, search) IN IF js = {} THEN -1 ELSE CHOOSE j \in js : \A k \in js : j <= k
\* The letters of s from position a up to b.
Copied(s, a, b) == SubSeq(s, a + 1, b)
Least(a, b) == IF a < b THEN a ELSE b
Most(a, b) == IF a > b THEN a ELSE b

\* ---- numbers and booleans to strings
RECURSIVE Digits(_), Split(_, _)
Digits(n) == IF n < 10 THEN <<Digit[n + 1]>> ELSE Append(Digits(n \div 10), Digit[(n % 10) + 1])
tsuchi_num_to_str(w) ==
  CASE w = NaN -> <<"n", "a", "n">>
    [] w = Infinity -> <<"i", "n", "f">>
    [] OTHER -> IF w[2] < 0 THEN <<"-">> \o Digits(-w[2]) ELSE Digits(w[2])
tsuchi_bool_to_str(tf) == IF tf THEN <<"t", "r", "u", "e">> ELSE <<"f", "a", "l", "s", "e">>
tsuchi_num_toString(w) == tsuchi_num_to_str(w)
tsuchi_num_toFixed(w, digits) ==
  tsuchi_num_to_str(w) \o
    IF digits <= 0 \/ w = NaN THEN <<>> ELSE <<".">> \o [j \in 1..Least(digits, 100) |-> "0"]

\* ---- strings
tsuchi_str_indexOf(s, search) == strstr(s, search)
tsuchi_str_lastIndexOf(s, search) ==
  LET js == Places(s, search) IN IF js = {} THEN -1 ELSE CHOOSE j \in js : \A k \in js : j >= k
tsuchi_str_includes(s, search) == strstr(s, search) # -1
tsuchi_str_slice(s, start, end) ==
  LET a == Most(0, IF start < 0 THEN Len(s) + start ELSE start)
      b == Least(Len(s), IF end < 0 THEN Len(s) + end ELSE end)
  IN IF a >= b THEN <<>> ELSE Copied(s, a, b)
tsuchi_str_charAt(s, index) == IF index \in 0..(Len(s) - 1) THEN <<s[index + 1]>> ELSE <<>>
tsuchi_str_at(s, index) == tsuchi_str_charAt(s, IF index < 0 THEN Len(s) + index ELSE index)
tsuchi_str_toUpperCase(s) == [j \in DOMAIN s |-> toupper(s[j])]
tsuchi_str_toLowerCase(s) == [j \in DOMAIN s |-> tolower(s[j])]
\* Where the letters that are no space begin, and where they end.
Begin(s) == LET j == SelectInSeq(s, LAMBDA c : ~isspace(c)) IN IF j = 0 THEN Len(s) ELSE j - 1
Stop(s) == SelectLastInSeq(s, LAMBDA c : ~isspace(c))
tsuchi_str_trim(s) == Copied(s, Begin(s), Most(Begin(s), Stop(s)))
tsuchi_str_trimStart(s) == Copied(s, Begin(s), Len(s))
tsuchi_str_trimEnd(s) == Copied(s, 0, Stop(s))
tsuchi_str_startsWith(s, prefix) == 0 \in Places(s, prefix)
tsuchi_str_endsWith(s, suffix) == Len(s) - Len(suffix) \in Places(s, suffix)
tsuchi_str_replace(s, search, replacement) ==
  LET p == strstr(s, search)
  IN IF p = -1 THEN s ELSE Copied(s, 0, p) \o replacement \o Copied(s, p + Len(search), Len(s))
tsuchi_str_repeat(s, count) == FlattenSeq([j \in 1..Most(0, count) |-> s])
tsuchi_str_substring(s, start, end) ==
  LET a == Least(Len(s), Most(0, start))
      b == Least(Len(s), Most(0, end))
  IN Copied(s, Least(a, b), Most(a, b))
\* A pad without letters pads with its terminator, where the string then ends.
Padding(s, target, pad) == [j \in 1..(target - Len(s)) |-> pad[((j - 1) % Len(pad)) + 1]]
tsuchi_str_padStart(s, target, pad) ==
  CASE Len(s) >= target -> s
    [] Len(s) < target /\ pad = <<>> -> <<>>
    [] OTHER -> Padding(s, target, pad) \o s
tsuchi_str_padEnd(s, target, pad) ==
  IF Len(s) >= target \/ pad = <<>> THEN s ELSE s \o Padding(s, target, pad)
\* char r[2] = {code, 0}: the low byte, and no letter if it is zero.  A byte that
\* is no letter is written by its number.
OfCode(c) ==
  CASE c \in 97..122 -> Lower[c - 96] [] c \in 65..90 -> Upper[c - 64] [] c = 32 -> " "
    [] OTHER -> "#" \o ToString(c)
tsuchi_fromCharCode(code) == IF code % 256 = 0 THEN <<>> ELSE <<OfCode(code % 256)>>
tsuchi_str_charCodeAt(s, index) == IF index \in 0..(Len(s) - 1) THEN Num(CharCode(s[index + 1])) ELSE NaN

Joined(parts, sep) ==
  FoldLeftDomain(LAMBDA r, j : r \o (IF j = 1 THEN <<>> ELSE sep) \o parts[j], <<>>, parts)
\* The parts of s between the places of sep, found from left to right.
Split(s, sep) ==
  LET f == strstr(s, sep)
  IN IF f = -1 THEN <<s>> ELSE <<Copied(s, 0, f)>> \o Split(Copied(s, f + Len(sep), Len(s)), sep)
tsuchi_str_replaceAll(s, search, replacement) ==
  IF search = <<>> THEN s ELSE Joined(Split(s, search), replacement)
tsuchi_str_to_char_array(s) == [j \in DOMAIN s |-> <<s[j]>>]
tsuchi_str_split(s, sep) == IF sep = <<>> THEN tsuchi_str_to_char_array(s) ELSE Split(s, sep)

\* ---- text to numbers: spaces, a sign, digits; what follows is left
Signed(s) == s # <<>> /\ Head(s) \in {"-", "+"}
Unsigned(s) == LET t == Copied(s, Begin(s), Len(s)) IN IF Signed(t) THEN Tail(t) ELSE t
Negative(s) == LET t == Copied(s, Begin(s), Len(s)) IN Signed(t) /\ Head(t) = "-"
Numerals == {Digit[j] : j \in DOMAIN Digit}
Leading(t) == LET j == SelectInSeq(t, LAMBDA c : c \notin Numerals) IN IF j = 0 THEN t ELSE Copied(t, 0, j - 1)
InBase(ds, base) == FoldLeft(LAMBDA v, d : v * base + Place(d, Digit) - 1, 0, ds)
Parsed(s, ds, base) ==
  IF ds = <<>> THEN NaN ELSE Num(IF Negative(s) THEN -InBase(ds, base) ELSE InBase(ds, base))
tsuchi_parseInt(s) == Parsed(s, Leading(Unsigned(s)), 10)
\* strtod also reads hexadecimal digits, here those below ten, and "inf".
tsuchi_parseFloat(s) ==
  LET t == Unsigned(s)
      hex == Leading(Copied(t, 2, Len(t)))
  IN CASE Copied(t, 0, Least(3, Len(t))) \in {"i", "I"} \X {"n", "N"} \X {"f", "F"} -> Infinity
       [] Copied(t, 0, Least(2, Len(t))) \in {"0"} \X {"x", "X"} /\ hex # <<>> -> Parsed(s, hex, 16)
       [] OTHER -> Parsed(s, Leading(t), 10)

\* ---- mathematics, on integers
fabs(a) == IF a # NaN /\ a[2] < 0 THEN Num(-a[2]) ELSE a
\* fmin and fmax pass over a NaN.
fmin(a, b) == IF b = NaN \/ (a # NaN /\ a[2] < b[2]) THEN a ELSE b
fmax(a, b) == IF b = NaN \/ (a # NaN /\ a[2] > b[2]) THEN a ELSE b
Sign(a) == Num(CASE a = NaN \/ a[2] = 0 -> 0 [] a # NaN /\ a[2] > 0 -> 1 [] OTHER -> -1)
\* Of exponents that are not negative; of squares.
pow(a, b) ==
  CASE b = Num(0) \/ a = Num(1) -> Num(1)
    [] b # Num(0) /\ a # Num(1) /\ NaN \in {a, b} -> NaN
    [] OTHER -> Num(FoldLeft(LAMBDA v, j : v * a[2], 1, [j \in 1..b[2] |-> j]))
sqrt(a) ==
  CASE a = NaN \/ a[2] < 0 -> NaN
    [] a = Infinity -> a
    [] OTHER -> Num(CHOOSE r \in 0..a[2] : r * r = a[2])
RECURSIVE Width(_)
Width(v) == IF v = 0 THEN 0 ELSE 1 + Width(v \div 2)
tsuchi_math_clz32(x) == Num(IF x < 0 THEN 0 ELSE 32 - Width(x))
isInteger(a) == a \notin {NaN, Infinity}
isFinite(a) == a \notin {NaN, Infinity}

\* ---- JSON of one word
Quote == "\""
Escape == "\\"
Escaped == ("\"" :> "\"") @@ ("\\" :> "\\") @@ ("\n" :> "n") @@ ("\t" :> "t") @@ ("\r" :> "r")
tsuchi_json_stringify(w) == IF isFinite(w) THEN tsuchi_num_to_str(w) ELSE <<"n", "u", "l", "l">>
tsuchi_json_stringify_str(s) ==
  LET Letter(c) == IF c \in DOMAIN Escaped THEN <<Escape, Escaped[c]>> ELSE <<c>>
  IN <<Quote>> \o FlattenSeq([j \in DOMAIN s |-> Letter(s[j])]) \o <<Quote>>
tsuchi_json_stringify_bool(tf) == tsuchi_bool_to_str(tf)
RECURSIVE Unescaped(_)
Unescaped(s) ==
  LET Meant(c) == CASE c = "n" -> "\n" [] c = "t" -> "\t" [] c = "r" -> "\r" [] OTHER -> c
  IN CASE s = <<>> \/ Head(s) = Quote -> <<>>
       [] s # <<>> /\ Head(s) = Escape /\ Len(s) > 1 -> <<Meant(s[2])>> \o Unescaped(SubSeq(s, 3, Len(s)))
       [] OTHER -> <<Head(s)>> \o Unescaped(Tail(s))
\* A text that is no string is taken as it is.
tsuchi_json_parse_str(s) ==
  LET t == Copied(s, Begin(s), Len(s)) IN IF t # <<>> /\ Head(t) = Quote THEN Unescaped(Tail(t)) ELSE t

\* ---- arrays.  A cell is [data, length]: as many slots as its capacity, what is
\* in the first length of them its elements.  A slot new from realloc holds
\* anything.
Junk == Num(1700000)
Elements(arr) == SubSeq(arr.data, 1, arr.length)
Slots(n) == [j \in 1..n |-> Num(0)]
ArrayWith(es, capacity) == [data |-> es \o Slots(Most(capacity, 4) - Len(es)), length |-> Len(es)]
\* Parts of a text are pushed into eight places, doubled until there is room.
RECURSIVE Room(_, _)
Room(capacity, n) == IF n <= capacity THEN capacity ELSE Room(2 * capacity, n)
tsuchi_array_new(capacity) == ArrayWith(<<>>, capacity)
tsuchi_array_set(arr, index, value) ==
  IF index \notin 0..(Len(arr.data) - 1) THEN arr
  ELSE [arr EXCEPT !.data[index + 1] = value, !.length = Most(@, index + 1)]
tsuchi_array_get(arr, index) == IF index \in 0..(arr.length - 1) THEN arr.data[index + 1] ELSE Num(0)
\* The slot of a string array read as a pointer; a slot nobody wrote is none.
Pointer(w) == CASE w = Num(0) -> Null [] w[1] = "n" /\ w # Num(0) -> WildPointer [] OTHER -> w
tsuchi_sarray_get(arr, index) ==
  IF index \in 0..(arr.length - 1) THEN Pointer(arr.data[index + 1]) ELSE Lit(<<>>)
Roomy(arr) ==
  IF arr.length < Len(arr.data) THEN arr ELSE [arr EXCEPT !.data = @ \o [j \in DOMAIN @ |-> Junk]]
tsuchi_array_push(arr, value) == [Roomy(arr) EXCEPT !.data[arr.length + 1] = value, !.length = @ + 1]

\* A NaN equals nothing.
Hits(arr, value) == {j \in 0..(arr.length - 1) : F64(arr.data[j + 1]) = value /\ value # NaN}
tsuchi_array_indexOf(arr, value) ==
  LET js == Hits(arr, value) IN IF js = {} THEN -1 ELSE CHOOSE j \in js : \A k \in js : j <= k
tsuchi_array_lastIndexOf(arr, value) ==
  LET js == Hits(arr, value) IN IF js = {} THEN -1 ELSE CHOOSE j \in js : \A k \in js : j >= k
tsuchi_array_includes(arr, value) == Hits(arr, value) # {}
tsuchi_array_slice(arr, start, end) ==
  LET a == Most(0, IF start < 0 THEN arr.length + start ELSE start)
      b == Least(arr.length, IF end < 0 THEN arr.length + end ELSE end)
  IN IF a >= b THEN tsuchi_array_new(4) ELSE ArrayWith(Copied(arr.data, a, b), b - a)
tsuchi_array_concat(a, b) == ArrayWith(Elements(a) \o Elements(b), a.length + b.length)
Slack(arr) == Copied(arr.data, arr.length, Len(arr.data))
tsuchi_array_reverse(arr) == [arr EXCEPT !.data = Reverse(Elements(arr)) \o Slack(arr)]
tsuchi_array_fill(arr, value) == [arr EXCEPT !.data = [j \in 1..arr.length |-> value] \o Slack(arr)]
tsuchi_array_pop(arr) == IF arr.length = 0 THEN arr ELSE [arr EXCEPT !.length = @ - 1]
\* The last element stays behind in its slot.
tsuchi_array_shift(arr) ==
  IF arr.length = 0 THEN arr
  ELSE [data |-> Tail(Elements(arr)) \o <<arr.data[arr.length]>> \o Slack(arr), length |-> arr.length - 1]
tsuchi_array_unshift(arr, value) ==
  LET room == Roomy(arr)
  IN [data |-> <<value>> \o Elements(arr) \o Tail(Slack(room)), length |-> arr.length + 1]
\* splice takes elements a to b away and gives them back as an array.
SpliceFrom(arr, start) == Least(arr.length, Most(0, IF start < 0 THEN arr.length + start ELSE start))
SpliceTo(arr, start, deleteCount) ==
  Least(arr.length, SpliceFrom(arr, start) + Most(0, deleteCount))
tsuchi_array_splice(arr, start, deleteCount) ==
  LET a == SpliceFrom(arr, start)
      b == SpliceTo(arr, start, deleteCount)
      kept == Copied(arr.data, 0, a) \o Copied(arr.data, b, arr.length)
  IN [arr |-> [data |-> kept \o Copied(arr.data, Len(kept), Len(arr.data)), length |-> Len(kept)],
      removed |-> ArrayWith(Copied(arr.data, a, b), b - a)]
tsuchi_array_at(arr, index) ==
  LET j == IF index < 0 THEN arr.length + index ELSE index
  IN IF j \in 0..(arr.length - 1) THEN arr.data[j + 1] ELSE NaN

\* Of strings, a null pointer adds nothing.
tsuchi_sarray_join(arr, texts, sep) ==
  Joined([j \in 1..arr.length |-> IF Pointer(arr.data[j]) = Null THEN <<>> ELSE texts[j]], sep)
tsuchi_array_join(arr, sep) == Joined([j \in 1..arr.length |-> tsuchi_num_to_str(F64(arr.data[j]))], sep)
=============================================================================
