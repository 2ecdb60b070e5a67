------------------------------ MODULE AotSource ------------------------------
(***************************************************************************)
(* What a program of AotSyntax means in JavaScript: the reference the      *)
(* compiled program is held against.  It models no code of the repository. *)
(*                                                                         *)
(* A variable is a cell of the heap, shared by the closures that mention   *)
(* it; a scope maps names to cells.  Evaluation takes the state s and      *)
(* returns the next one: val is the value just computed, how says how it   *)
(* ended ("go", or which way it leaves) and lab to which label; met is what *)
(* it came across that a compiled program has no like of: undefined out of *)
(* an array or a string, a NaN made a string, a store behind the end of an *)
(* array.  What only the engine has gives undefined.                       *)
(***************************************************************************)
EXTENDS AotSyntax, SequencesExt

\* ---- values: numbers, strings, booleans, undefined, arrays and functions
N(v) == <<"n", v>>
S(v) == <<"s", v>>
B(v) == <<"b", v>>
U == <<"u">>
NaN == N(1000000)
Infinity == N(1500000)
Uncommon == {NaN, Infinity}
RECURSIVE Decimal(_)
Decimal(n) ==
  CASE n < 0 -> <<"-">> \o Decimal(-n)
    [] n \in 0..9 -> <<ToString(n)>>
    [] OTHER -> Append(Decimal(n \div 10), ToString(n % 10))
Letters(v) ==
  CASE v[1] = "s" -> v[2]
    [] v = NaN -> <<"N", "a", "N">>
    [] v = Infinity -> <<"I", "n", "f", "i", "n", "i", "t", "y">>
    [] v[1] = "n" /\ v \notin Uncommon -> Decimal(v[2])
    [] v[1] = "b" -> IF v[2] THEN <<"t", "r", "u", "e">> ELSE <<"f", "a", "l", "s", "e">>
    [] OTHER -> <<"undefined">>
Holds(v) ==
  CASE v[1] = "b" -> v[2]
    [] v[1] = "n" -> v # N(0) /\ v # NaN
    [] v[1] = "s" -> v[2] # <<>>
    [] OTHER -> v[1] # "u"
ToNum(v) == CASE v[1] = "n" -> v [] v[1] = "b" -> N(IF v[2] THEN 1 ELSE 0) [] OTHER -> NaN
Num(v) == ToNum(v)[2]
Odd(a, b) == NaN \in {ToNum(a), ToNum(b)}
Remainder(a, b) == LET m == (IF a < 0 THEN -a ELSE a) % (IF b < 0 THEN -b ELSE b)
                   IN IF a < 0 THEN -m ELSE m

BinaryValue(op, a, b) ==
  CASE op = "+" /\ "s" \in {a[1], b[1]} -> S(Letters(a) \o Letters(b))
    [] ~(op = "+" /\ "s" \in {a[1], b[1]}) /\ (Odd(a, b) \/ (op = "%" /\ Num(b) = 0)) -> NaN
    [] op = "+" /\ "s" \notin {a[1], b[1]} -> N(Num(a) + Num(b))
    [] op = "-" -> N(Num(a) - Num(b))
    [] op = "*" -> N(Num(a) * Num(b))
    [] op = "%" -> N(Remainder(Num(a), Num(b)))
Same(a, b) == a[1] = b[1] /\ a = b /\ a # NaN
CompareValue(op, a, b) ==
  B(CASE op = "===" -> Same(a, b) [] op = "!==" -> ~Same(a, b)
      [] op \notin {"===", "!=="} /\ Odd(a, b) -> FALSE
      [] op = "<" -> Num(a) < Num(b) [] op = ">" -> Num(a) > Num(b)
      [] op = "<=" -> Num(a) <= Num(b) [] op = ">=" -> Num(a) >= Num(b))

\* ---- the state
Gives(s, v) == [s EXCEPT !.val = v]
New(s, v) == [s EXCEPT !.heap = Append(@, v)]
Declare(s, n, v) == [New(s, v) EXCEPT !.env = n :> (Len(s.heap) + 1) @@ @]
Put(s, n, v) == [s EXCEPT !.heap[s.env[n]] = v, !.val = v]
Then(s, Op(_)) == IF s.how = "go" THEN Op(s) ELSE s
Scope(s, env) == [s EXCEPT !.env = env]
\* The element a lookup finds, or undefined.
Meets(s, what, p) == [s EXCEPT !.met = IF p THEN @ \cup {what} ELSE @]
Found(s, es, j) == Meets(Gives(s, IF j \in DOMAIN es THEN es[j] ELSE U), "undefined", j \notin DOMAIN es)

RECURSIVE Eval(_, _), Exec(_, _), ExecBlock(_, _), Loop(_, _, _, _, _)

Evals(s, es) ==
  FoldLeft(LAMBDA a, e : IF a.s.how # "go" THEN a
                         ELSE LET r == Eval(a.s, e) IN [s |-> r, vs |-> Append(a.vs, r.val)],
           [s |-> s, vs |-> <<>>], es)

\* A call runs the body in the function's own scope and gives what it returns.
Apply(s, f, vs) ==
  LET in == FoldLeft(LAMBDA a, j : Declare(a, f[2][j], IF j <= Len(vs) THEN vs[j] ELSE U),
                     Scope(s, f[4]), [j \in DOMAIN f[2] |-> j])
      out == ExecBlock(in, f[3])
  IN [out EXCEPT !.env = s.env, !.how = IF @ = "return" THEN "go" ELSE @,
                 !.val = IF out.how \in {"return", "throw"} THEN @ ELSE U]

\* ---- methods.  Positions count from 0, and a negative one from the end.
Between(lo, n, hi) == IF n < lo THEN lo ELSE IF n > hi THEN hi ELSE n
Relative(es, v) == LET n == Len(es) IN IF Num(v) < 0 THEN Between(0, n + Num(v), n) ELSE Between(0, Num(v), n)
Given(vs, j, v) == IF j \in DOMAIN vs THEN vs[j] ELSE v
Slice(es, vs) ==
  LET from == Relative(es, Given(vs, 1, N(0)))
      to == Relative(es, Given(vs, 2, N(Len(es))))
  IN SubSeq(es, from + 1, to)
Nth(es, v) == IF Num(v) < 0 THEN Len(es) + Num(v) + 1 ELSE Num(v) + 1
Substring(es, vs) ==
  LET a == Between(0, Num(vs[1]), Len(es))
      b == Between(0, Num(Given(vs, 2, N(Len(es)))), Len(es))
  IN IF a <= b THEN SubSeq(es, a + 1, b) ELSE SubSeq(es, b + 1, a)
RECURSIVE Parts(_, _)
IsAt(s, sep, j) == j + Len(sep) - 1 <= Len(s) /\ SubSeq(s, j, j + Len(sep) - 1) = sep
Occurs(s, sep) == {j \in 1..(Len(s) + 1) : IsAt(s, sep, j)}
First(js) == IF js = {} THEN 0 ELSE CHOOSE j \in js : \A k \in js : j <= k
Final(js) == IF js = {} THEN 0 ELSE CHOOSE j \in js : \A k \in js : j >= k
Parts(s, sep) ==
  LET j == First(Occurs(s, sep))
  IN CASE sep = <<>> -> [k \in DOMAIN s |-> <<s[k]>>]
       [] sep # <<>> /\ j = 0 -> <<s>>
       [] OTHER -> <<SubSeq(s, 1, j - 1)>> \o Parts(SubSeq(s, j + Len(sep), Len(s)), sep)
RECURSIVE Glue(_, _)
Glue(ps, sep) ==
  IF Len(ps) < 2 THEN FlattenSeq(ps) ELSE Head(ps) \o sep \o Glue(Tail(ps), sep)
Trimmed(s, front, back) ==
  LET js == {j \in DOMAIN s : s[j] # " "}
  IN IF js = {} THEN <<>>
     ELSE SubSeq(s, IF front THEN First(js) ELSE 1, IF back THEN Final(js) ELSE Len(s))
Pad(s, vs) == LET pad == Given(vs, 2, S(<<" ">>))[2]
              IN IF pad = <<>> THEN <<>> ELSE [j \in 1..(Num(vs[1]) - Len(s)) |-> pad[((j - 1) % Len(pad)) + 1]]
Small == <<"a", "b", "c", "d", "e", "f", "g", "h", "i", "j", "k", "l", "m", "n", "o", "p", "q", "r", "s", "t",
           "u", "v", "w", "x", "y", "z">>
Big == <<"A", "B", "C", "D", "E", "F", "G", "H", "I", "J", "K", "L", "M", "N", "O", "P", "Q", "R", "S", "T",
         "U", "V", "W", "X", "Y", "Z">>
Swap(from, to, s) == [j \in DOMAIN s |-> LET n == SelectInSeq(from, LAMBDA c : c = s[j])
                                         IN IF n = 0 THEN s[j] ELSE to[n]]
Code(c) ==
  LET small == SelectInSeq(Small, LAMBDA x : x = c)
      big == SelectInSeq(Big, LAMBDA x : x = c)
  IN IF small # 0 THEN 96 + small ELSE IF big # 0 THEN 64 + big ELSE 32

\* The array of values vs, new on the heap.
NewArray(s, vs) == [New(s, vs) EXCEPT !.val = <<"arr", Len(s.heap) + 1>>]
TextMethod(s, m, t, vs) ==
  LET Is(v) == Gives(s, v)
      one == IF vs = <<>> THEN 0 ELSE vs[1][2]
      hit == First(Occurs(t, one))
  IN CASE m = "indexOf" -> Is(N(hit - 1))
       [] m = "lastIndexOf" -> Is(N(Final(Occurs(t, one)) - 1))
       [] m = "includes" -> Is(B(hit # 0))
       [] m = "startsWith" -> Is(B(IsAt(t, one, 1)))
       [] m = "endsWith" -> Is(B(Len(one) <= Len(t) /\ IsAt(t, one, Len(t) - Len(one) + 1)))
       [] m = "slice" -> Is(S(Slice(t, vs)))
       [] m = "substring" -> Is(S(Substring(t, vs)))
       [] m = "charAt" -> Is(S(IF one + 1 \in DOMAIN t THEN <<t[one + 1]>> ELSE <<>>))
       [] m = "at" -> Found(s, [j \in DOMAIN t |-> S(<<t[j]>>)], Nth(t, vs[1]))
       [] m = "charCodeAt" -> Is(IF one + 1 \in DOMAIN t THEN N(Code(t[one + 1])) ELSE NaN)
       [] m = "toUpperCase" -> Is(S(Swap(Small, Big, t)))
       [] m = "toLowerCase" -> Is(S(Swap(Big, Small, t)))
       [] m = "trim" -> Is(S(Trimmed(t, TRUE, TRUE)))
       [] m = "trimStart" -> Is(S(Trimmed(t, TRUE, FALSE)))
       [] m = "trimEnd" -> Is(S(Trimmed(t, FALSE, TRUE)))
       [] m = "replace" ->
            Is(S(IF hit = 0 THEN t ELSE SubSeq(t, 1, hit - 1) \o vs[2][2] \o SubSeq(t, hit + Len(one), Len(t))))
       [] m = "replaceAll" -> Is(S(Glue(Parts(t, one), vs[2][2])))
       [] m = "repeat" -> Is(S(FlattenSeq([j \in 1..one |-> t])))
       [] m = "padStart" -> Is(S(Pad(t, vs) \o t))
       [] m = "padEnd" -> Is(S(t \o Pad(t, vs)))
       [] m = "split" -> LET ps == Parts(t, one) IN NewArray(s, [j \in DOMAIN ps |-> S(ps[j])])
NumberMethod(s, m, v, vs) ==
  LET digits == IF m = "toString" THEN 0 ELSE Num(Given(vs, 1, N(0)))
  IN Meets(Gives(s, S(Letters(v) \o IF digits = 0 THEN <<>> ELSE <<".">> \o [j \in 1..digits |-> "0"])),
           "nan", v \in Uncommon)

Elems(s, a) == s.heap[a[2]]
Each(s, a, f, Next(_, _, _)) ==
  FoldLeft(LAMBDA r, j : IF r.s.how # "go" \/ r.done THEN r
                         ELSE LET c == Apply(r.s, f, <<Elems(r.s, a)[j], N(j - 1)>>)
                              IN IF c.how # "go" THEN [r EXCEPT !.s = c] ELSE Next(r, c, j),
           [s |-> s, acc |-> <<>>, done |-> FALSE, at |-> 0], [j \in 1..Len(Elems(s, a)) |-> j])
\* sort: every value goes behind those the comparison does not put after it.
Sorted(s, f, es) ==
  LET Insert(r, v) ==
        FoldLeft(LAMBDA t, w : IF t.s.how # "go" THEN t
                               ELSE LET c == Apply(t.s, f, <<w, v>>)
                                    IN [s |-> c, n |-> IF Num(c.val) > 0 THEN t.n ELSE t.n + 1],
                 [s |-> r.s, n |-> 1], r.vs)
  IN FoldLeft(LAMBDA r, v : LET t == Insert(r, v) IN [s |-> t.s, vs |-> InsertAt(r.vs, t.n, v)],
              [s |-> s, vs |-> <<>>], es)
MethodValue(s, m, a, vs) ==
  LET Keep(r, c, j) == [r EXCEPT !.s = c, !.acc = Append(@, c.val)]
      Filter(r, c, j) == [r EXCEPT !.s = c, !.acc = IF Holds(c.val) THEN Append(@, Elems(c, a)[j]) ELSE @]
      Until(r, c, j) == [r EXCEPT !.s = c, !.done = Holds(c.val), !.at = IF Holds(c.val) THEN j ELSE @]
      Fails(r, c, j) == [r EXCEPT !.s = c, !.done = ~Holds(c.val)]
      all == Each(s, a, vs[1], Keep)
      some == Each(s, a, vs[1], Filter)
      first == Each(s, a, vs[1], Until)
      every == Each(s, a, vs[1], Fails)
      sorted == Sorted(s, vs[1], Elems(s, a))
      Reduce(r, v) == IF r.how # "go" THEN r ELSE Apply(r, vs[1], <<r.val, v>>)
      es == Elems(s, a)
      Becomes(t, new) == [t EXCEPT !.heap[a[2]] = new]
      from == Relative(es, vs[1])
      to == Between(from, from + Num(vs[2]), Len(es))
  IN CASE m = "push" -> Gives(Becomes(s, Append(es, vs[1])), N(Len(es) + 1))
       [] m = "pop" -> Becomes(Found(s, es, Len(es)), IF es = <<>> THEN es ELSE Front(es))
       [] m = "shift" -> Becomes(Found(s, es, 1), IF es = <<>> THEN es ELSE Tail(es))
       [] m = "unshift" -> Gives(Becomes(s, <<vs[1]>> \o es), N(Len(es) + 1))
       [] m = "indexOf" -> Gives(s, N(SelectInSeq(es, LAMBDA v : Same(v, vs[1])) - 1))
       [] m = "lastIndexOf" -> Gives(s, N(SelectLastInSeq(es, LAMBDA v : Same(v, vs[1])) - 1))
       [] m = "includes" -> Gives(s, B(SelectInSeq(es, LAMBDA v : Same(v, vs[1])) # 0))
       [] m = "at" -> Found(s, es, Nth(es, vs[1]))
       [] m = "slice" -> NewArray(s, Slice(es, vs))
       [] m = "concat" -> NewArray(s, es \o Elems(s, vs[1]))
       [] m = "splice" -> NewArray(Becomes(s, SubSeq(es, 1, from) \o SubSeq(es, to + 1, Len(es))),
                                   SubSeq(es, from + 1, to))
       [] m = "join" -> Gives(s, S(Glue([j \in DOMAIN es |-> Letters(es[j])], vs[1][2])))
       [] m = "reverse" -> Gives(Becomes(s, Reverse(es)), a)
       [] m = "fill" -> Gives(Becomes(s, [j \in DOMAIN es |-> vs[1]]), a)
       [] m = "sort" -> Then(sorted.s, LAMBDA t : Gives(Becomes(t, sorted.vs), a))
       [] m = "forEach" -> Then(all.s, LAMBDA t : Gives(t, U))
       [] m = "map" -> Then(all.s, LAMBDA t : NewArray(t, all.acc))
       [] m = "filter" -> Then(some.s, LAMBDA t : NewArray(t, some.acc))
       [] m = "find" -> Then(first.s, LAMBDA t : Found(t, es, first.at))
       [] m = "findIndex" -> Then(first.s, LAMBDA t : Gives(t, N(first.at - 1)))
       [] m = "some" -> Then(first.s, LAMBDA t : Gives(t, B(first.done)))
       [] m = "every" -> Then(every.s, LAMBDA t : Gives(t, B(~every.done)))
       [] m = "reduce" -> FoldLeft(Reduce, Gives(s, vs[2]), es)
       [] m = "reduceRight" -> FoldLeft(Reduce, Gives(s, vs[2]), Reverse(es))
AnyMethod(s, m, o, vs) ==
  CASE o[1] = "s" -> TextMethod(s, m, o[2], vs)
    [] o[1] = "n" -> NumberMethod(s, m, o, vs)
    [] OTHER -> MethodValue(s, m, o, vs)

\* ---- the functions of JavaScript's own objects
Constant(n) == IF n = "Infinity" THEN Infinity ELSE NaN
\* Text is read from behind its spaces and its sign.
Figures == <<"0", "1", "2", "3", "4", "5", "6", "7", "8", "9">>
Figure(c) == SelectInSeq(Figures, LAMBDA f : f = c) - 1
Bare(t) == LET u == Trimmed(t, TRUE, TRUE) IN IF u # <<>> /\ Head(u) \in {"-", "+"} THEN Tail(u) ELSE u
Run(t) == LET j == SelectInSeq(t, LAMBDA c : Figure(c) < 0) IN IF j = 0 THEN t ELSE SubSeq(t, 1, j - 1)
InBase(t, ds, base) ==
  LET v == FoldLeft(LAMBDA a, c : a * base + Figure(c), 0, ds)
      u == Trimmed(t, TRUE, TRUE)
  IN IF ds = <<>> THEN NaN ELSE N(IF Head(u) = "-" THEN -v ELSE v)
Hexadecimal(t) == IsAt(Bare(t), <<"0", "x">>, 1)
ReadInt(t) == IF Hexadecimal(t) THEN InBase(t, Run(SubSeq(Bare(t), 3, Len(Bare(t)))), 16) ELSE InBase(t, Run(Bare(t)), 10)
ReadFloat(t) == InBase(t, Run(Bare(t)), 10)
Whole(t) == Run(Bare(t)) = Bare(t)
ReadNumber(t) ==
  CASE Trimmed(t, TRUE, TRUE) = <<>> -> N(0)
    [] Hexadecimal(t) -> ReadInt(t)
    [] OTHER -> IF Whole(t) THEN ReadFloat(t) ELSE NaN
\* What strtod reads otherwise.
Inf(t) == IsAt(Swap(Big, Small, Bare(t)), <<"i", "n", "f">>, 1)
ToNumber(v) == IF v[1] = "s" THEN ReadNumber(v[2]) ELSE ToNum(v)
ReadText(s, f, t) ==
  CASE f = "parseInt" -> Meets(Gives(s, ReadInt(t)), "numeral", Hexadecimal(t))
    [] f = "parseFloat" -> Meets(Gives(s, ReadFloat(t)), "numeral", Hexadecimal(t) \/ Inf(t))
    [] f = "Number" -> Meets(Gives(s, ReadNumber(t)), "numeral", Inf(t) \/ (~Whole(t) /\ Run(Bare(t)) # <<>>) \/ Bare(t) = <<>>)
GlobalValue(s, f, vs) ==
  CASE f \in {"parseInt", "parseFloat"} -> ReadText(s, f, Letters(vs[1]))
    [] f = "Number" -> IF vs[1][1] = "s" THEN ReadText(s, f, vs[1][2]) ELSE Gives(s, ToNum(vs[1]))
    [] f = "String" -> Meets(Gives(s, S(Letters(vs[1]))), "nan", vs[1] \in Uncommon)
    [] f = "Boolean" -> Meets(Gives(s, B(Holds(vs[1]))), "empty", vs[1] = S(<<>>))
    [] f = "isNaN" -> Gives(s, B(ToNumber(vs[1]) = NaN))
    [] OTHER -> Gives(s, U)

Abs(n) == IF n < 0 THEN -n ELSE n
RECURSIVE Bits(_)
Bits(n) == IF n = 0 THEN 0 ELSE 1 + Bits(n \div 2)
MathValue(m, vs) ==
  LET n == Num(vs[1])
      more == {n} \cup {Num(v) : v \in ToSet(vs)}
      odd == NaN \in {ToNum(v) : v \in ToSet(vs)}
  IN CASE m = "clz32" -> N(CASE vs[1] \in Uncommon -> 32 [] n < 0 -> 0 [] OTHER -> 32 - Bits(n))
       [] m = "pow" /\ vs[2] = N(0) -> N(1)
       [] m # "clz32" /\ odd /\ ~(m = "pow" /\ vs[2] = N(0)) -> NaN
       [] ~odd /\ m \in {"floor", "ceil", "round", "trunc"} -> N(n)
       [] ~odd /\ m = "abs" -> N(Abs(n))
       [] ~odd /\ m = "sign" -> N(CASE n = 0 -> 0 [] n > 0 -> 1 [] OTHER -> -1)
       [] ~odd /\ m = "sqrt" -> IF n < 0 THEN NaN ELSE IF vs[1] = Infinity THEN Infinity ELSE N(CHOOSE r \in 0..n : r * r = n)
       [] ~odd /\ m = "min" -> N(CHOOSE a \in more : \A b \in more : a <= b)
       [] ~odd /\ m = "max" -> N(CHOOSE a \in more : \A b \in more : a >= b)
       [] ~odd /\ m = "pow" /\ vs[2] # N(0) -> N(FoldLeft(LAMBDA a, j : a * n, 1, [j \in 1..Num(vs[2]) |-> j]))
OddMath(m, vs) ==
  \/ m = "clz32" /\ vs[1] \in Uncommon
  \/ m \in {"min", "max", "sign"} /\ NaN \in ToSet(vs)
  \/ m = "pow" /\ vs[1] = N(1) /\ vs[2] = NaN
NumberValue(s, m, v) ==
  CASE m \in {"parseInt", "parseFloat"} -> GlobalValue(s, m, <<v>>)
    [] m = "isNaN" -> Gives(s, B(v = NaN))
    [] OTHER -> Gives(s, B(v[1] = "n" /\ v \notin Uncommon))
Letter(c) ==
  CASE c \in 97..122 -> Small[c - 96] [] c \in 65..90 -> Big[c - 64] [] c = 32 -> " " [] OTHER -> "#" \o ToString(c)

JsonNames == ("\"" :> "\"") @@ ("\\" :> "\\") @@ ("\n" :> "n") @@ ("\t" :> "t") @@ ("\r" :> "r")
JsonText(t) ==
  <<"\"">> \o FlattenSeq([j \in DOMAIN t |-> IF t[j] \in DOMAIN JsonNames THEN <<"\\", JsonNames[t[j]]>> ELSE <<t[j]>>])
  \o <<"\"">>
RECURSIVE Json(_, _), JsonRead(_)
Json(s, v) ==
  CASE v[1] = "s" -> JsonText(v[2])
    [] v[1] = "arr" -> <<"[">> \o Glue([j \in DOMAIN Elems(s, v) |-> Json(s, Elems(s, v)[j])], <<",">>) \o <<"]">>
    [] v \in Uncommon -> <<"n", "u", "l", "l">>
    [] OTHER -> Letters(v)
JsonRead(t) ==
  CASE t = <<>> \/ Head(t) = "\"" -> <<>>
    [] t # <<>> /\ Head(t) = "\\" -> <<CHOOSE c \in DOMAIN JsonNames : JsonNames[c] = t[2]>> \o JsonRead(SubSeq(t, 3, Len(t)))
    [] OTHER -> <<Head(t)>> \o JsonRead(Tail(t))
JsonValue(s, m, v) ==
  CASE m = "stringify" -> Gives(s, S(Json(s, v)))
    [] m = "parse" -> LET t == Trimmed(v[2], TRUE, TRUE)
                          quoted == Len(t) > 1 /\ "\"" = t[1] /\ "\"" = t[Len(t)]
                      IN Meets(Gives(s, S(IF quoted THEN JsonRead(Tail(t)) ELSE t)), "json", ~quoted)
StaticValue(s, ns, m, vs) ==
  CASE ns = "Math" -> Meets(Gives(s, MathValue(m, vs)), "math", OddMath(m, vs))
    [] ns = "Number" -> NumberValue(s, m, vs[1])
    [] ns = "JSON" -> JsonValue(s, m, vs[1])
    [] m = "fromCharCode" -> Meets(Gives(s, S(<<Letter(Num(vs[1]))>>)), "code", Num(vs[1]) \notin 1..127)
    [] m = "isArray" -> Gives(s, B(vs[1][1] = "arr"))
    [] m = "of" -> NewArray(s, vs)
    [] m = "from" -> IF vs[1][1] = "s" THEN NewArray(s, [j \in DOMAIN vs[1][2] |-> S(<<vs[1][2][j]>>)])
                     ELSE Meets(NewArray(s, Elems(s, vs[1])), "copy", TRUE)

\* ---- expressions
Target(s, e, v) ==
  IF e.k = "id" THEN Put(s, e.n, v)
  ELSE LET o == Evals(s, <<e.o, e.i>>)
           j == o.vs[2][2] + 1
           Set(es) == [k \in 1..(IF j > Len(es) THEN j ELSE Len(es)) |->
                         IF k = j THEN v ELSE IF k <= Len(es) THEN es[k] ELSE U]
           behind == j - Len(Elems(o.s, o.vs[1]))
           Mark(t) == Meets(Meets(t, "undefined", behind > 1), "far", behind > 0 /\ j > 4)
       IN Then(o.s, LAMBDA t : Mark([t EXCEPT !.heap[o.vs[1][2]] = Set(@), !.val = v]))
OpOf(op) == CASE op = "+=" -> "+" [] op = "-=" -> "-" [] op = "*=" -> "*"
Assign(s, e) ==
  LET r == Evals(s, <<e.l, e.r>>)
      l == Eval(s, e.l)
      stop == IF e.op = "&&=" THEN ~Holds(l.val) ELSE Holds(l.val)
      v == Eval(s, e.r)
  IN CASE e.op = "=" -> Then(v, LAMBDA t : Target(t, e.l, t.val))
       [] e.op \in {"&&=", "||="} ->
            Then(l, LAMBDA t : IF stop THEN t
                               ELSE LET w == Eval(t, e.r) IN Then(w, LAMBDA x : Target(x, e.l, x.val)))
       [] OTHER -> Then(r.s, LAMBDA t : Target(t, e.l, BinaryValue(OpOf(e.op), r.vs[1], r.vs[2])))

Update(s, e) ==
  LET old == s.heap[s.env[e.n]]
      new == N(IF e.op = "++" THEN old[2] + 1 ELSE old[2] - 1)
  IN Gives(Put(s, e.n, new), IF e.tf THEN new ELSE old)

Access(s, e) ==
  LET o == Eval(s, e.o)
      i == Evals(s, <<e.o, e.i>>)
  IN IF e.k = "len"
     THEN Then(o, LAMBDA t : Gives(t, N(Len(IF t.val[1] = "s" THEN t.val[2] ELSE Elems(t, t.val)))))
     ELSE Then(i.s, LAMBDA t : Found(t, Elems(t, i.vs[1]), i.vs[2][2] + 1))

Eval(s, e) ==
  LET two == Evals(s, <<e.l, e.r>>)
      l == Eval(s, e.l)
      c == Eval(s, e.c)
      one == Eval(s, e.e)
      args == Evals(s, e.args)
      call == Evals(s, <<e.o>> \o e.args)
      es == Evals(s, e.es)
  IN CASE e.k = "num" -> Gives(s, N(e.num))
       [] e.k = "bool" -> Gives(s, B(e.tf))
       [] e.k = "str" -> Gives(s, S(e.s))
       [] e.k = "id" -> Gives(s, IF e.n \in DOMAIN s.env THEN s.heap[s.env[e.n]] ELSE Constant(e.n))
       [] e.k = "member" -> Gives(s, Constant("Infinity"))
       [] e.k = "bin" ->
            Then(two.s, LAMBDA t : Meets(Gives(t, BinaryValue(e.op, two.vs[1], two.vs[2])), "nan",
                                         "s" \in {two.vs[1][1], two.vs[2][1]} /\ Uncommon \cap ToSet(two.vs) # {}))
       [] e.k = "cmp" -> Then(two.s, LAMBDA t : Gives(t, CompareValue(e.op, two.vs[1], two.vs[2])))
       [] e.k = "log" -> Then(l, LAMBDA t : IF Holds(t.val) = (e.op = "&&") THEN Eval(t, e.r) ELSE t)
       [] e.k = "tern" -> Then(c, LAMBDA t : Eval(t, IF Holds(t.val) THEN e.yes ELSE e.no))
       [] e.k = "un" -> Then(one, LAMBDA t : Gives(t, IF e.op = "!" THEN B(~Holds(t.val)) ELSE N(-Num(t.val))))
       [] e.k = "asg" -> Assign(s, e)
       [] e.k = "upd" -> Update(s, e)
       [] e.k \in {"idx", "len"} -> Access(s, e)
       [] e.k = "arr" -> Then(es.s, LAMBDA t : NewArray(t, es.vs))
       [] e.k = "arrow" -> Gives(s, <<"fn", e.params, e.body, s.env>>)
       [] e.k = "call" ->
            Then(args.s, LAMBDA t : IF e.f \in DOMAIN t.env THEN Apply(t, t.heap[t.env[e.f]], args.vs)
                                    ELSE GlobalValue(t, e.f, args.vs))
       [] e.k = "static" -> Then(args.s, LAMBDA t : StaticValue(t, e.ns, e.n, args.vs))
       [] e.k = "method" -> Then(call.s, LAMBDA t : AnyMethod(t, e.n, call.vs[1], Tail(call.vs)))

\* ---- statements
Leaving(s, how, lab) == [s EXCEPT !.how = how, !.lab = lab]
Arrived(s, how, labs) == s.how = how /\ s.lab \in labs
\* A loop from its test on; every turn has a scope and a copy of the variable
\* of its own.  labs are the names the loop goes by.
Loop(s, labs, test, update, body) ==
  LET c == IF test.k = "none" THEN Gives(s, B(TRUE)) ELSE Eval(s, test)
      b == ExecBlock(c, body)
      next == IF Arrived(b, "continue", labs) THEN Leaving(b, "go", "") ELSE b
      fresh == FoldLeft(LAMBDA a, n : Declare(a, n, a.heap[a.env[n]]), Scope(next, s.env),
                        SetToSeq(update.fresh))
      u == IF update.e.k = "none" THEN fresh ELSE Eval(fresh, update.e)
  IN CASE c.how # "go" -> c
       [] c.how = "go" /\ ~Holds(c.val) -> c
       [] Arrived(b, "break", labs) -> [Leaving(b, "go", "") EXCEPT !.env = s.env]
       [] OTHER -> IF next.how # "go" THEN [next EXCEPT !.env = s.env]
                   ELSE Then(u, LAMBDA t : Loop(t, labs, test, update, body))

NoUpdate == [e |-> Nothing, fresh |-> {}]
ExecFor(s, labs, st) ==
  LET i == IF st.i.k = "none" THEN s ELSE Exec(s, st.i)
      fresh == IF st.i.k = "var" THEN {st.i.n} ELSE {}
  IN Then(i, LAMBDA t : [Loop(t, labs, st.c, [e |-> st.u, fresh |-> fresh], st.body) EXCEPT !.env = s.env])

ExecForOf(s, labs, st) ==
  LET o == Eval(s, st.e)
      vs == IF o.val[1] = "s" THEN [j \in DOMAIN o.val[2] |-> S(<<o.val[2][j]>>)] ELSE Elems(o, o.val)
      Turn(a, v) ==
        IF a.how # "go" THEN a
        ELSE LET b == ExecBlock(Declare(a, st.n, v), st.body)
             IN [IF Arrived(b, "continue", labs) THEN Leaving(b, "go", "") ELSE b EXCEPT !.env = s.env]
      end == FoldLeft(Turn, o, vs)
  IN Then(o, LAMBDA t : IF Arrived(end, "break", labs) THEN Leaving(end, "go", "") ELSE end)

ExecSwitch(s, st) ==
  LET d == Eval(s, st.d)
      Hit(j) == st.cases[j].d.k # "none" /\ Same(Eval(d, st.cases[j].d).val, d.val)
      hits == {j \in DOMAIN st.cases : Hit(j)}
      dflt == {j \in DOMAIN st.cases : st.cases[j].d.k = "none"}
      from == IF hits # {} THEN CHOOSE j \in hits : \A k \in hits : j <= k
              ELSE IF dflt # {} THEN CHOOSE j \in dflt : TRUE ELSE Len(st.cases) + 1
      bodies == FlattenSeq([j \in 1..(Len(st.cases) + 1 - from) |-> st.cases[from + j - 1].body])
      end == [FoldLeft(LAMBDA a, x : IF a.how # "go" THEN a ELSE Exec(a, x), d, bodies) EXCEPT !.env = s.env]
  IN Then(d, LAMBDA t : IF Arrived(end, "break", {""}) THEN Leaving(end, "go", "") ELSE end)

\* An exception's value is its message.
ExecTry(s, st) ==
  LET b == ExecBlock(s, st.body)
      in == Leaving(IF st.n = "" THEN b ELSE Declare(b, st.n, b.val), "go", "")
      c == IF b.how = "throw" /\ st.handler # <<>> THEN [ExecBlock(in, st.handler) EXCEPT !.env = s.env] ELSE b
      f == ExecBlock(Leaving(c, "go", ""), st.final)
  IN IF f.how # "go" THEN f ELSE [f EXCEPT !.how = c.how, !.lab = c.lab, !.val = c.val]

ExecLabeled(s, labs, st) ==
  CASE st.k = "while" -> Loop(s, labs, st.c, NoUpdate, st.body)
    [] st.k = "for" -> ExecFor(s, labs, st)
    [] st.k = "forof" -> ExecForOf(s, labs, st)
    [] st.k = "do" ->
         LET b == ExecBlock(s, st.body)
             next == IF Arrived(b, "continue", labs) THEN Leaving(b, "go", "") ELSE b
         IN CASE Arrived(b, "break", labs) -> Leaving(b, "go", "")
              [] OTHER -> Then(next, LAMBDA t : Loop(t, labs, st.c, NoUpdate, st.body))

Exec(s, st) ==
  LET e == IF st.e.k = "none" THEN Gives(s, U) ELSE Eval(s, st.e)
      c == Eval(s, st.c)
  IN CASE st.k = "var" -> Then(e, LAMBDA t : Declare(t, st.n, t.val))
       [] st.k = "expr" -> e
       [] st.k = "ret" -> Then(e, LAMBDA t : Leaving(t, "return", ""))
       [] st.k = "throw" -> Then(e, LAMBDA t : Leaving(t, "throw", ""))
       [] st.k = "if" -> Then(c, LAMBDA t : ExecBlock(t, IF Holds(t.val) THEN st.then ELSE st.else))
       [] st.k \in {"while", "do", "for", "forof"} -> ExecLabeled(s, {""}, st)
       [] st.k = "label" -> ExecLabeled(s, {"", st.n}, st.st)
       [] st.k = "switch" -> ExecSwitch(s, st)
       [] st.k = "break" -> Leaving(s, "break", st.n)
       [] st.k = "continue" -> Leaving(s, "continue", st.n)
       [] st.k = "try" -> ExecTry(s, st)

ExecBlock(s, b) ==
  [FoldLeft(LAMBDA a, st : IF a.how # "go" THEN a ELSE Exec(a, st), s, b) EXCEPT !.env = s.env]

\* ---- programs: the values of the entry's calls
RECURSIVE Plain(_, _)
Plain(s, v) ==
  IF v[1] = "arr" THEN <<"arr", [j \in DOMAIN Elems(s, v) |-> Plain(s, Elems(s, v)[j])]>> ELSE v

\* An uncaught exception gives its message and ends the program.  The last state
\* holds what was printed, out, and met.
Evaluate(p) ==
  LET start == [heap |-> <<>>, env |-> <<>>, val |-> U, how |-> "go", lab |-> "", met |-> {}, out |-> <<>>]
      Fn(a, f) == Declare(a, f.n, U)
      named == FoldLeft(Fn, start, p.funcs)
      globals == FoldLeft(Exec, named, p.globals)
      funcs == FoldLeft(LAMBDA a, f : Put(a, f.n, <<"fn", f.params, f.body, globals.env>>), globals, p.funcs)
      Entry(a, c) ==
        IF a.how = "throw" THEN a
        ELSE LET r == Eval(a, c)
             IN [r EXCEPT !.env = globals.env,
                   !.out = Append(@, IF r.how = "throw" THEN <<"throw", r.val>> ELSE Plain(r, r.val))]
  IN FoldLeft(Entry, funcs, p.entry)

\* ---- programs of several files: every name a file declares or imports is
\* written as the file and the name it has where it is declared
Modules == INSTANCE AotModules
RECURSIVE Text(_), Origin(_, _, _), Renaming(_, _), Loading(_, _, _)
Text(names) == IF names = <<>> THEN "" ELSE Head(names) \o "/" \o Text(Tail(names))
FullName(path, n) == Text(path.dir) \o path.stem \o ":" \o n
Declares(module) == {d.st.n : d \in {x \in ToSet(Modules!Declared(module)) : x.st.k # "expr"}}
ImportsWith(module, n) ==
  UNION {{<<st.source, sp[1]>> : sp \in {y \in ToSet(st.specs) : y[2] = n}} : st \in {x \in ToSet(module) : x.k = "import"}}
\* The name a file knows n by, whether it declares or imports it.
Origin(files, path, n) ==
  LET from == ImportsWith(files[path], n)
      i == CHOOSE x \in from : TRUE
      source == Modules!resolve_path(files, i[1], path)
      exports == Modules!collect_exports(files[source])
  IN CASE n \in Declares(files[path]) -> FullName(path, n)
       [] n \notin Declares(files[path]) /\ from # {} ->
            IF source = Modules!NotFound THEN n
            ELSE Origin(files, source, IF i[2] \in DOMAIN exports THEN exports[i[2]] ELSE i[2])
       [] OTHER -> n
NamesIn(files, path) ==
  [n \in Declares(files[path])
         \cup {sp[2] : sp \in UNION {ToSet(st.specs) : st \in {x \in ToSet(files[path]) : x.k = "import"}}} |->
     Origin(files, path, n)]
Renaming(x, names) ==
  LET To(n) == IF n \in DOMAIN names THEN names[n] ELSE n
      Below(v) == [j \in DOMAIN v |-> Renaming(v[j], names)]
  IN [a \in DOMAIN x |->
        CASE a \in {"e", "l", "r", "c", "yes", "no", "i", "u", "d", "o", "st"} -> Renaming(x[a], names)
          [] a \in {"args", "body", "es", "then", "else", "cases", "handler", "final"} -> Below(x[a])
          [] a = "params" -> [j \in DOMAIN x.params |-> To(x.params[j])]
          [] (a = "n" /\ x.k \in {"id", "upd", "var", "forof", "try", "func"}) \/ a = "f" -> To(x[a])
          [] OTHER -> x[a]]
\* Files are evaluated after those they import.
Loading(files, path, seen) ==
  IF path \in ToSet(seen.begun) THEN seen
  ELSE LET deps == Modules!DependenciesOf(files, path)
           in == [seen EXCEPT !.begun = Append(@, path)]
           below == FoldLeft(LAMBDA a, p : Loading(files, p, a), in, deps)
       IN [below EXCEPT !.done = Append(@, path)]
Link(project) ==
  LET order == Loading(project.files, project.entry, [begun |-> <<>>, done |-> <<>>]).done
      Of(path) ==
        LET ds == Modules!Declared(project.files[path])
        IN [j \in DOMAIN ds |-> Renaming(ds[j].st, NamesIn(project.files, path))]
      all == FlattenSeq([j \in DOMAIN order |-> Of(order[j])])
      Only(k) == SelectSeq(all, LAMBDA st : st.k = k)
      calls == Only("expr")
  IN Program(Only("func"), Only("var"), [j \in DOMAIN calls |-> calls[j].e])
=============================================================================
