-------------------------------- MODULE MCAot --------------------------------
(***************************************************************************)
(* The programs the compiler is checked on: some written by hand, each for *)
(* a feature or a corner of it, and families that combine the parts of a   *)
(* loop, a try, a switch, two assignments to strings, two changes to an    *)
(* array, the methods of the library, the tests of a branch, the ways to   *)
(* hand on a function, and the uses of an array of booleans.               *)
(***************************************************************************)
EXTENDS AotChecks, AotModules

g == Id("g")
h == Id("h")
i == Id("i")
j == Id("j")
k == Id("k")
n == Id("n")
r == Id("r")
s == Id("s")
t == Id("t")
x == Id("x")
xs == Id("xs")
ys == Id("ys")
Nil == NumE(0)
One == NumE(1)
Two == NumE(2)
Three == NumE(3)
Set(v, e) == Ex(Asg("=", Id(v), e))
Add(v, e) == Ex(Asg("+=", Id(v), e))
Letter(c) == StrE(<<c>>)
Lambda(e) == Arrow("a1", <<"x">>, <<Ret(e)>>)
Thrice(v, body) == For(Var(v, Nil), Cmp("<", Id(v), Three), Upd("++", v, FALSE), body)
Nums == Arr(<<One, Two, Three>>)
\* One function of a number, called twice; of a string; of an array.
OfNumber(body) == Program(<<Func("f", <<"n">>, body)>>, <<>>, <<Call("f", <<Nil>>), Call("f", <<Two>>)>>)
OfString(body) == Program(<<Func("f", <<"s">>, body)>>, <<>>, <<Call("f", <<Letter("a")>>)>>)
OfArray(body) == Program(<<Func("f", <<"xs">>, body)>>, <<>>, <<Call("f", <<Nums>>)>>)
Counted(body) == OfNumber(<<Var("r", Nil), Thrice("i", body), Ret(r)>>)

G == Func("g", <<"n">>, <<If(Cmp(">", n, One), <<Throw(Letter("g"))>>, <<>>), Ret(n)>>)

Hand ==
  [whileloop |-> OfNumber(<<Var("r", Nil), While(Cmp("<", r, n), <<Add("r", One)>>), Ret(r)>>),
   forcontinue |-> Counted(<<If(Cmp("===", i, n), <<Continue("")>>, <<>>), Add("r", i)>>),
   forbreak |-> Counted(<<If(Cmp("===", i, One), <<Break("")>>, <<Add("r", n)>>)>>),
   dowhile |-> OfNumber(<<Var("r", Nil), DoWhile(<<Add("r", One), If(Cmp(">", r, Three),
      <<Break("")>>, <<>>)>>, Cmp("<", r, n)), Ret(r)>>),
   forof |-> OfArray(<<Var("r", Nil), ForOf("v", xs, <<If(Cmp("===", Id("v"), Two),
      <<Continue("")>>, <<>>), Add("r", Id("v"))>>), Ret(r)>>),
   switch |-> OfNumber(<<Var("r", NumE(5)), Switch(n, <<Case(Nil, <<Add("r", One)>>), Case(One,
      <<Add("r", One), Break("")>>), Case(Nothing, <<Set("r", Two)>>)>>), Ret(r)>>),
   shadow |-> OfNumber(<<Var("r", One), If(Cmp(">", n, One), <<Var("r", Two), Set("n", r)>>, <<>>),
      Ret(Bin("+", r, n))>>),
   trycatch |-> OfNumber(<<Var("r", Letter("k")), Try(<<If(Cmp(">", n, One), <<Throw(Letter("e"))>>,
      <<>>)>>, "e", <<Set("r", Id("e"))>>, <<>>), Ret(r)>>),
   finally |-> OfNumber(<<Var("r", One), Try(<<Add("r", One)>>, "", <<>>, <<Add("r", One)>>),
      Ret(r)>>),
   uncaught |-> OfNumber(<<If(Cmp(">", n, One), <<Throw(Letter("e"))>>, <<>>), Ret(n)>>),
   thrown |-> Program(<<Func("g", <<"n">>, <<If(Cmp(">", n, One), <<Throw(Letter("e"))>>, <<>>),
      Ret(n)>>), Func("f", <<"n">>, <<Try(<<Ex(Call("g", <<n>>))>>, "e", <<Ret(Id("e"))>>, <<>>),
      Ret(Letter("k"))>>)>>, <<>>, <<Call("f", <<One>>), Call("f", <<Two>>), Call("f", <<One>>)>>),
   map |-> OfArray(<<Var("k", Two), Ret(Method("map", xs, <<Lambda(Bin("*", x, k))>>))>>),
   filter |-> OfArray(<<Ret(Method("filter", xs, <<Lambda(Cmp(">", x, One))>>))>>),
   reduce |-> OfArray(<<Ret(Method("reduce", xs, <<Arrow("a1", <<"a", "x">>, <<Ret(Bin("+", x,
      Id("a")))>>), Nil>>))>>),
   find |-> OfArray(<<Ret(Method("find", xs, <<Lambda(Cmp(">", x, One))>>))>>),
   findmiss |-> OfArray(<<Ret(Method("find", xs, <<Lambda(Cmp(">", x, NumE(5)))>>))>>),
   some |-> OfArray(<<Ret(Tern(Method("some", xs, <<Lambda(Cmp(">", x, Two))>>), One, Two))>>),
   foreach |-> OfArray(<<Var("r", Nil), Ex(Method("forEach", xs, <<Arrow("a1", <<"x">>, <<Add("r",
      x)>>)>>)), Ret(r)>>),
   push |-> OfArray(<<Ex(Method("push", xs, <<NumE(4)>>)), Ex(Method("push", xs, <<NumE(5)>>)),
      Ret(Bin("+", Length(xs), Method("pop", xs, <<>>)))>>),
   set |-> OfArray(<<Ex(Asg("=", Idx(xs, NumE(1)), NumE(7))), Ret(Bin("+", Idx(xs, One),
      Method("indexOf", xs, <<Three>>)))>>),
   build |-> OfString(<<Var("r", Letter("x")), Thrice("i", <<Add("r", s)>>), Ret(r)>>),
   alias |-> OfString(<<Var("r", Letter("x")), Var("t", Letter("")), For(Var("i", Nil), Cmp("<", i,
      NumE(4)), Upd("++", "i", FALSE), <<Set("t", r), Add("r", s)>>), Ret(Bin("+", t, r))>>),
   freed |-> OfString(<<Var("r", Letter("x")), Var("t", Letter("")), For(Var("i", Nil), Cmp("<", i,
      NumE(5)), Upd("++", "i", FALSE), <<Set("t", r), Add("r", s)>>), Ret(t)>>),
   counter |-> Program(<<Func("f", <<>>, <<Ex(Asg("+=", g, One)), Ret(g)>>)>>, <<Var("g",
      NumE(5))>>, <<Call("f", <<>>), Call("f", <<>>)>>),
   callback |-> Program(<<Func("g", <<"x">>, <<Ret(Bin("+", x, One))>>), Func("f", <<"xs">>,
      <<Ret(Method("map", xs, <<g>>))>>)>>, <<>>, <<Call("f", <<Nums>>)>>),
   local |-> Program(<<Func("f", <<"n">>, <<Var("g", Lambda(Bin("+", x, n))), Ret(Call("g",
      <<One>>))>>)>>, <<>>, <<Call("f", <<Two>>)>>),
   engine |-> Program(<<Func("g", <<"x">>, <<Var("y", Call("Symbol", <<>>)), Ret(Bin("+", x,
      One))>>), Func("f", <<"n">>, <<Ret(Bin("*", Call("g", <<n>>), Two))>>)>>, <<>>, <<Call("f",
      <<Two>>)>>),
   incglobal |-> Program(<<Func("f", <<>>, <<Ex(Upd("++", "g", FALSE)), Ret(g)>>)>>, <<Var("g",
      NumE(5))>>, <<Call("f", <<>>), Call("f", <<>>)>>),
   logglobal |-> Program(<<Func("f", <<>>, <<Ex(Asg("||=", g, Three)), Ret(g)>>)>>, <<Var("g",
      Nil)>>, <<Call("f", <<>>), Call("f", <<>>)>>),
   strglobal |-> Program(<<Func("f", <<>>, <<Ex(Asg("+=", g, Letter("a"))), Ret(g)>>)>>, <<Var("g",
      Letter("x"))>>, <<Call("f", <<>>), Call("f", <<>>)>>),
   nestfor |-> Counted(<<For(Var("j", Nil), Cmp("<", j, i), Upd("++", "j", FALSE), <<If(Cmp("===",
      j, One), <<Continue("")>>, <<>>), Add("r", n)>>)>>),
   labcont |-> OfNumber(<<Var("r", Nil), Labeled("l", Thrice("i", <<Thrice("j", <<If(Cmp("===", j,
      One), <<Continue("l")>>, <<>>), Add("r", One)>>), Add("r", n)>>)), Ret(r)>>),
   labbreak |-> OfNumber(<<Var("r", Nil), Labeled("l", Thrice("i", <<Thrice("j", <<If(Cmp("===", j,
      n), <<Break("l")>>, <<>>), Add("r", One)>>), Add("r", NumE(10))>>)), Ret(r)>>),
   leavestry |-> Program(<<G, Func("f", <<"n">>, <<Try(<<If(Cmp("<", n, One), <<Ret(NumE(7))>>,
      <<>>), Ex(Call("g", <<n>>))>>, "e", <<Ret(NumE(8))>>, <<>>), Ret(NumE(9))>>), Func("k",
      <<"n">>, <<Ex(Call("f", <<Nil>>)), Ret(Call("g", <<n>>))>>)>>, <<>>, <<Call("f", <<Nil>>),
      Call("f", <<Two>>), Call("k", <<Two>>)>>),
   foreachret |-> OfArray(<<Ex(Method("forEach", xs, <<Arrow("a1", <<"x">>, <<If(Cmp(">", x, One),
      <<Ret(Nil)>>, <<>>)>>)>>)), Ret(NumE(5))>>),
   numthrow |-> OfNumber(<<Var("r", Letter("k")), Try(<<Throw(n)>>, "e", <<Set("r", Id("e"))>>,
      <<>>), Ret(r)>>),
   tryval |-> Program(<<G, Func("f", <<"n">>, <<Var("r", One), Try(<<Set("r", Two), Ex(Call("g",
      <<n>>)), Set("r", Three)>>, "e", <<Add("r", NumE(10))>>, <<>>), Ret(r)>>)>>, <<>>, <<Call("f",
      <<One>>), Call("f", <<Two>>)>>),
   throwon |-> OfNumber(<<Var("r", One), Try(<<Throw(Letter("e")), Add("r", Two)>>, "e", <<Add("r",
      n)>>, <<>>), Ret(r)>>),
   nesttry |-> Program(<<G, Func("f", <<"n">>, <<Var("r", One), Try(<<Try(<<Ex(Call("g", <<n>>))>>,
      "e", <<Throw(Letter("y"))>>, <<>>)>>, "e", <<Ret(Id("e"))>>, <<>>), Ret(Letter("k"))>>)>>,
      <<>>, <<Call("f", <<One>>), Call("f", <<Two>>)>>),
   trydeep |-> Program(<<G, Func("f", <<"n">>, <<Try(<<Try(<<Try(<<Ex(Call("g", <<n>>))>>, "e",
      <<Ret(Letter("1"))>>, <<>>)>>, "e", <<Ret(Letter("2"))>>, <<>>)>>, "e", <<Ret(Letter("3"))>>,
      <<>>), Ret(Letter("k"))>>)>>, <<>>, <<Call("f", <<One>>), Call("f", <<Two>>)>>),
   andwhile |-> OfNumber(<<Var("r", Nil), While(Log("&&", Cmp("<", r, NumE(5)), Cmp("<", r, n)),
      <<Add("r", One)>>), Ret(r)>>),
   andfor |-> OfNumber(<<Var("r", Nil), For(Var("i", Nil), Log("&&", Cmp("<", i, NumE(5)), Cmp("<",
      i, n)), Upd("++", "i", FALSE), <<Add("r", One)>>), Ret(r)>>),
   anddo |-> OfNumber(<<Var("r", Nil), DoWhile(<<Add("r", One)>>, Log("&&", Cmp("<", r, NumE(5)),
      Cmp("<", r, n))), Ret(r)>>),
   andif |-> OfNumber(<<Var("r", Nil), If(Log("||", Cmp("<", n, One), Cmp("<", One, n)), <<Add("r",
      One)>>, <<Add("r", Two)>>), Ret(r)>>),
   logassign |-> OfNumber(<<Var("r", Nil), Ex(Log("&&", Cmp(">", n, One), Asg("=", r, Two))),
      Ret(r)>>),
   ternassign |-> OfNumber(<<Var("r", Nil), Ex(Tern(Cmp(">", n, One), Asg("=", r, Two), One)),
      Ret(r)>>),
   tern |-> OfNumber(<<Ret(Tern(Cmp(">", n, One), Bin("+", n, One), Bin("*", n, Two)))>>),
   closelate |-> OfNumber(<<Var("k", One), Var("h", Lambda(Bin("+", x, k))), Set("k", Two),
      Ret(Call("h", <<n>>))>>),
   closewrite |-> OfNumber(<<Var("k", One), Var("h", Arrow("a1", <<"x">>, <<Ex(Asg("+=", k, x)),
      Ret(k)>>)), Var("w", Call("h", <<n>>)), Var("z", Call("h", <<n>>)), Ret(Bin("+", Id("w"),
      Id("z")))>>),
   closewriteout |-> OfNumber(<<Var("k", One), Var("h", Arrow("a1", <<"x">>, <<Ex(Asg("+=", k, x)),
      Ret(k)>>)), Var("w", Call("h", <<n>>)), Ret(k)>>),
   mapsum |-> OfArray(<<Var("k", Nil), Ex(Method("map", xs, <<Arrow("a1", <<"x">>, <<Ex(Asg("+=", k,
      x)), Ret(k)>>)>>)), Ret(k)>>),
   setfar |-> OfArray(<<Ex(Asg("=", Idx(xs, NumE(5)), NumE(7))), Ret(Length(xs))>>),
   setnext |-> OfArray(<<Ex(Asg("=", Idx(xs, Three), NumE(7))), Ret(Length(xs))>>),
   popempty |-> OfArray(<<Var("ys", Arr(<<One>>)), Ex(Method("pop", ys, <<>>)), Ex(Method("pop", ys,
      <<>>)), Ex(Method("push", ys, <<Two>>)), Ret(ys)>>),
   strarr |-> OfString(<<Var("ys", Arr(<<Letter("p"), Letter("q")>>)), Ret(Idx(ys, One))>>),
   reasarr |-> Counted(<<Var("ys", Arr(<<One>>)), Ex(Method("push", ys, <<n>>)), Add("r",
      Length(ys))>>),
   growarr |-> OfNumber(<<Var("ys", Arr(<<One>>)), Thrice("i", <<Ex(Method("push", ys, <<n>>)),
      If(Cmp("===", i, One), <<Set("ys", Arr(<<Two>>))>>, <<>>)>>), Ret(Length(ys))>>),
   param |-> Program(<<Func("g", <<"s">>, <<Ret(Bin("+", s, Letter("x")))>>), Func("f", <<"s">>,
      <<Var("r", Bin("+", s, Letter("k"))), Var("u", Call("g", <<r>>)), Ret(Bin("+", r,
      Id("u")))>>)>>, <<>>, <<Call("f", <<Letter("a")>>)>>),
   paramloop |-> Program(<<Func("g", <<"s">>, <<Ret(Bin("+", s, Letter("x")))>>), Func("f", <<"s">>,
      <<Var("r", Letter("y")), Thrice("i", <<Set("r", Bin("+", r, Letter("k")))>>), Var("u",
      Call("g", <<r>>)), Ret(Bin("+", r, Id("u")))>>)>>, <<>>, <<Call("f", <<Letter("a")>>)>>),
   retmix |-> OfNumber(<<If(Cmp(">", n, One), <<Ret(Cmp(">", n, One))>>, <<>>), Ret(n)>>),
   noret |-> OfNumber(<<If(Cmp(">", n, One), <<Ret(n)>>, <<>>)>>),
   recur |-> Program(<<Func("f", <<"n">>, <<If(Cmp("<", n, One), <<Ret(Nil)>>, <<>>), Ret(Bin("+",
      n, Call("f", <<Bin("-", n, One)>>)))>>)>>, <<>>, <<Call("f", <<Two>>)>>),
   mutual |-> Program(<<Func("f", <<"n">>, <<If(Cmp("<", n, One), <<Ret(Nil)>>, <<>>), Ret(Call("h",
      <<Bin("-", n, One)>>))>>), Func("h", <<"n">>, <<If(Cmp("<", n, One), <<Ret(NumE(1))>>, <<>>),
      Ret(Call("f", <<Bin("-", n, One)>>))>>)>>, <<>>, <<Call("f", <<Two>>), Call("f", <<One>>)>>),
   poly |-> Program(<<Func("g", <<"x">>, <<Ret(x)>>), Func("f", <<"n">>, <<Var("q", Call("g",
      <<Letter("a")>>)), Ret(Call("g", <<n>>))>>)>>, <<>>, <<Call("f", <<Two>>)>>),
   polyplus |-> Program(<<Func("g", <<"x", "y">>, <<Ret(Bin("+", x, Id("y")))>>), Func("f", <<"n">>,
      <<Var("q", Call("g", <<Letter("a"), Letter("b")>>)), Ret(Call("g", <<n, One>>))>>)>>, <<>>,
      <<Call("f", <<Two>>)>>),
   hof2 |-> Program(<<Func("ap", <<"h", "x">>, <<Ret(Call("h", <<Call("h", <<x>>)>>))>>), Func("f",
      <<"n">>, <<Ret(Call("ap", <<Lambda(Bin("+", x, n)), Two>>))>>)>>, <<>>, <<Call("f", <<Two>>),
      Call("ap", <<Id("f"), One>>)>>),
   shadowloop |-> Counted(<<Var("r2", i), Add("r", Id("r2"))>>),
   shadowfor |-> OfNumber(<<Var("i", NumE(9)), Var("r", Nil), Thrice("i", <<Add("r", One)>>),
      Ret(i)>>),
   shadowblock |-> Counted(<<Var("n", One), Add("r", n)>>),
   bool |-> OfNumber(<<Var("b", Cmp(">", n, One)), Thrice("i", <<Set("b", Un("!", Id("b")))>>),
      Ret(Id("b"))>>),
   upval |-> OfNumber(<<Var("r", n), Var("q", Upd("++", "r", FALSE)), Var("z", Upd("++", "r",
      TRUE)), Ret(Bin("+", Bin("*", Id("q"), NumE(10)), Id("z")))>>),
   bridgestr |-> Program(<<Func("g", <<"x">>, <<Var("y", Call("Symbol", <<>>)), Ret(Letter("w"))>>),
      Func("f", <<"n">>, <<Ret(Bin("+", Call("g", <<n>>), Letter("z")))>>)>>, <<>>, <<Call("f",
      <<Two>>)>>),
   splitjoin |-> OfString(<<Var("ys", Method("split", Bin("+", s, StrE(<<",", "b", ",">>)), <<Letter(",")>>)),
      Ret(Method("join", ys, <<Letter("-")>>))>>),
   splitletters |-> OfString(<<Var("ys", Method("split", StrE(<<"p", "q">>), <<StrE(<<>>)>>)),
      Ret(Bin("+", Idx(ys, One), s))>>),
   splitmap |-> OfString(<<Var("ys", Method("map", Method("split", StrE(<<"p", " ", "q">>), <<Letter(" ")>>),
      <<Lambda(Bin("+", x, Letter("!")))>>)), Ret(Method("join", ys, <<s>>))>>),
   splitsort |-> OfString(<<Var("ys", Method("split", s, <<Letter(" ")>>)), Ret(Method("indexOf", ys, <<s>>))>>),
   splitout |-> OfString(<<Ret(Method("split", s, <<Letter(" ")>>))>>),
   strconcat |-> OfString(<<Var("ys", Arr(<<s>>)), Var("zs", Method("concat", ys, <<ys>>)),
      Ret(Method("join", Method("reverse", Id("zs"), <<>>), <<Letter("+")>>))>>),
   strslice |-> OfString(<<Var("ys", Arr(<<s, Letter("q")>>)), Var("zs", Method("slice", ys, <<One>>)),
      Ret(Idx(Id("zs"), Nil))>>),
   strsplice |-> OfString(<<Var("ys", Arr(<<s, Letter("q"), s>>)), Var("zs", Method("splice", ys, <<Nil, Two>>)),
      Ret(Bin("+", Idx(ys, Nil), Idx(Id("zs"), One)))>>),
   strshift |-> OfString(<<Var("ys", Arr(<<s, Letter("q")>>)), Ex(Method("shift", ys, <<>>)), Ret(Idx(ys, Nil))>>),
   tostring |-> OfNumber(<<Ret(Bin("+", Method("toString", Bin("-", n, One), <<>>), Method("toFixed", n, <<Two>>)))>>),
   nanstring |-> OfNumber(<<Ret(Bin("+", Letter("x"), Bin("%", n, Nil)))>>),
   nannumber |-> OfNumber(<<Ret(Bin("%", n, n))>>),
   tens |-> OfNumber(<<Ret(Bin("+", Letter("x"), Bin("-", Bin("*", n, NumE(21)), NumE(5))))>>),
   sortwords |-> OfArray(<<Var("r", Nil), Ex(Method("sort", xs, <<Arrow("a1", <<"x", "y">>, <<Ex(Asg("+=", r, One)),
      Ret(Bin("-", Id("y"), x))>>)>>)), Ret(xs)>>),
   sortpush |-> OfArray(<<Var("ys", Method("map", xs, <<Lambda(Bin("*", x, x))>>)), Ex(Method("push", ys, <<NumE(5)>>)),
      Ex(Method("sort", ys, <<Arrow("a2", <<"x", "y">>, <<Ret(Bin("-", Id("y"), x))>>)>>)), Ret(ys)>>),
   json |-> OfString(<<Var("r", Static("JSON", "stringify", <<Bin("+", s, StrE(<<"\"", "\\">>))>>)),
      Var("t", Static("JSON", "parse", <<r>>)), If(Cmp("===", t, r), <<Ret(Letter("="))>>, <<>>),
      Ret(Bin("+", r, t))>>),
   jsonplus |-> OfString(<<Ret(Bin("+", s, Static("JSON", "parse", <<s>>)))>>),
   jsontypes |-> OfString(<<Var("r", Static("JSON", "stringify", <<s>>)), Ret(Bin("+", r, Static("JSON", "stringify", <<One>>)))>>),
   jsonnum |-> OfNumber(<<Ret(Bin("+", Static("JSON", "parse", <<Static("JSON", "stringify", <<n>>)>>), One))>>),
   fromarray |-> OfArray(<<Var("ys", Static("Array", "from", <<xs>>)), Ex(Method("push", ys, <<NumE(4)>>)), Ret(Length(xs))>>),
   fromarraykept |-> OfArray(<<Var("ys", Static("Array", "from", <<xs>>)), Ret(Bin("+", Length(xs), Idx(ys, One)))>>),
   arrayof |-> OfNumber(<<Var("ys", Static("Array", "of", <<n, One>>)), Ex(Method("push", ys, <<n>>)), Ret(ys)>>),
   isarray |-> OfArray(<<Ret(Static("Array", "isArray", <<xs>>))>>),
   notarray |-> OfNumber(<<Ret(Static("Array", "isArray", <<n>>))>>),
   arraytypes |-> OfArray(<<Var("y", Static("Array", "isArray", <<One>>)), Ret(Static("Array", "isArray", <<xs>>))>>),
   arraytext |-> OfArray(<<Ret(Call("String", <<xs>>))>>),
   infarrow |-> OfArray(<<Ret(Method("filter", xs, <<Lambda(Cmp("<", x, Id("Infinity")))>>))>>),
   infforeach |-> OfArray(<<Var("r", Nil), Ex(Method("forEach", xs, <<Arrow("a1", <<"x">>,
      <<If(Cmp("<", x, Id("Infinity")), <<Add("r", x)>>, <<>>)>>)>>)), Ret(r)>>),
   strarrow |-> OfArray(<<Ret(Method("map", xs, <<Lambda(Call("String", <<x>>))>>))>>),
   matharrow |-> OfArray(<<Ret(Method("map", xs, <<Lambda(Static("Math", "max", <<x, Two, Nil>>))>>))>>),
   least |-> OfArray(<<Var("r", Id("Infinity")), ForOf("v", xs, <<Set("r", Static("Math", "min", <<r, Id("v")>>))>>), Ret(r)>>),
   least3 |-> OfNumber(<<Ret(Static("Math", "min", <<n, Three, One>>))>>),
   root |-> OfNumber(<<Ret(Static("Math", "sqrt", <<Bin("*", n, n)>>))>>),
   mathtext |-> OfString(<<Ret(Static("Math", "abs", <<s>>))>>),
   copyappend |-> OfString(<<Var("r", Bin("+", s, s)), Var("t", Call("String", <<r>>)), Thrice("i", <<Add("t", Letter("k"))>>), Ret(Bin("+", r, t))>>),
   bridgethrow |-> Program(<<Func("g", <<"x">>, <<Var("y", Call("Symbol", <<>>)),
      Throw(Letter("w")), Ret(x)>>), Func("f", <<"n">>, <<Ret(Bin("+", Call("g", <<n>>), One))>>)>>,
      <<>>, <<Call("f", <<Two>>)>>)]

\* ---- families
Cond == Cmp("===", i, One)
Acts == {<<>>, <<Break("")>>, <<Continue("")>>, <<Ret(r)>>, <<Add("r", i)>>, <<Set("r", n), Break("")>>}
LoopOf(kind, body) ==
  CASE kind = "while" -> <<Var("i", Nil), While(Cmp("<", i, Three), <<Add("i", One)>> \o body)>>
    [] kind = "do" -> <<Var("i", Nil), DoWhile(<<Add("i", One)>> \o body, Cmp("<", i, Three))>>
    [] kind = "for" -> <<Thrice("i", body)>>
    [] kind = "forof" -> <<Var("ys", Nums), ForOf("i", ys, body)>>
\* Every loop with an if in it that leaves, goes on or assigns on either side.
LoopPrograms ==
  [q \in Loops \X Acts \X Acts |->
     OfNumber(<<Var("r", Nil)>> \o LoopOf(q[1], <<If(Cond, q[2], q[3]), Add("r", Two)>>) \o <<Ret(r)>>)]

\* Every body with every handler, in a loop, called after one another.
Bodies ==
  [add |-> <<Add("r", One)>>, throw |-> <<Throw(Letter("e"))>>,
   may |-> <<If(Cmp(">", n, One), <<Throw(Letter("e"))>>, <<>>), Add("r", Two)>>,
   ret |-> <<Add("r", One), Ret(r)>>, break |-> <<Break("")>>,
   continue |-> <<If(Cmp(">", n, One), <<Continue("")>>, <<>>)>>,
   set |-> <<Set("r", Call("g", <<n>>))>>, late |-> <<Add("r", One), Ex(Call("g", <<n>>))>>,
   call |-> <<Ex(Call("g", <<n>>))>>]
Handlers == [none |-> <<>>, add |-> <<Add("r", NumE(5))>>, ret |-> <<Ret(NumE(9))>>, throw |-> <<Throw(Letter("x"))>>]
Finals == [none |-> <<>>, add |-> <<Add("r", NumE(7))>>, ret |-> <<Ret(NumE(8))>>]
TryPrograms ==
  [q \in {y \in (DOMAIN Bodies) \X (DOMAIN Handlers) \X (DOMAIN Finals) : y[2] # "none" \/ y[3] # "none"} |->
     Program(<<G, Func("f", <<"n">>,
                       <<Var("r", Nil), Thrice("i", <<Try(Bodies[q[1]], "e", Handlers[q[2]], Finals[q[3]])>>), Ret(r)>>)>>,
             <<>>, [c \in 1..3 |-> Call("f", <<NumE((c % 2) * 2)>>)])]

\* Every two assignments to strings, in a loop.
Assigns ==
  [none |-> <<>>, app |-> <<Add("r", s)>>, copy |-> <<Set("t", r)>>, appt |-> <<Add("t", r)>>,
   pre |-> <<Set("r", Bin("+", Letter("k"), r))>>, suf |-> <<Set("r", Bin("+", r, Letter("k")))>>, double |-> <<Add("r", r)>>,
   param |-> <<Add("s", Letter("k"))>>, back |-> <<Set("s", r)>>, other |-> <<Set("t", Bin("+", r, Letter("k")))>>,
   if |-> <<If(Cond, <<Set("t", r)>>, <<Add("r", Letter("k"))>>)>>, swap |-> <<If(Cond, <<Add("t", r)>>, <<Set("r", t)>>)>>]
StringPrograms ==
  [q \in (DOMAIN Assigns) \X (DOMAIN Assigns) |->
     OfString(<<Var("r", Letter("x")), Var("t", Letter("y")), Thrice("i", Assigns[q[1]] \o Assigns[q[2]]),
                Ret(Bin("+", r, t))>>)]

\* Two cases and a default among them, in a loop or alone.
CaseBodies ==
  [none |-> <<>>, break |-> <<Add("r", One), Break("")>>, add |-> <<Add("r", One)>>,
   if |-> <<If(Cmp(">", r, Two), <<Break("")>>, <<>>), Add("r", Two)>>]
CasesOf(q) ==
  LET cs == <<Case(Nil, CaseBodies[q[1]]), Case(One, CaseBodies[q[2]])>>
      d == Case(Nothing, CaseBodies[q[3]])
  IN CASE q[4] = "first" -> <<d>> \o cs [] q[4] = "middle" -> <<cs[1], d, cs[2]>>
SwitchPrograms ==
  [q \in (DOMAIN CaseBodies) \X (DOMAIN CaseBodies) \X (DOMAIN CaseBodies)
          \X {"first", "middle"} \X {"loop", "alone"} |->
     LET st == Switch(n, CasesOf(q))
     IN Program(<<Func("f", <<"n">>, <<Var("r", Nil), IF q[5] = "loop" THEN Thrice("i", <<st, Add("r", NumE(10))>>) ELSE st,
                                       Ret(r)>>)>>,
                <<>>, [c \in 1..3 |-> Call("f", <<NumE(c - 1)>>)])]

\* Every method of a string or a number, at the edges of its arguments.
Ab == StrE(<<"a", "b">>)
TextCalls ==
  {<<m, <<a>>>> : m \in {"indexOf", "lastIndexOf", "includes", "startsWith", "endsWith"},
                a \in {Letter("a"), Ab, StrE(<<>>)}}
  \cup {<<m, <<NumE(v)>>>> : m \in {"charAt", "at", "charCodeAt"}, v \in {-1, 0, 3, 4}}
  \cup {<<m, <<NumE(v[1]), NumE(v[2])>>>> : m \in {"slice", "substring"},
                v \in {<<1, 3>>, <<-2, 9>>, <<3, 1>>, <<0, -1>>, <<9, 9>>}}
  \cup {<<m, <<One>>>> : m \in {"slice", "substring"}}
  \cup {<<m, <<>>>> : m \in {"toUpperCase", "toLowerCase", "trim", "trimStart", "trimEnd", "charAt"}}
  \cup {<<m, <<a, StrE(<<"x", "a">>)>>>> : m \in {"replace", "replaceAll"}, a \in {Letter("a"), Letter("z"), Ab}}
  \cup {<<m, <<NumE(v), a>>>> : m \in {"padStart", "padEnd"}, v \in {2, 7}, a \in {Ab, StrE(<<>>)}}
  \cup {<<"padStart", <<NumE(v)>>>> : v \in {2, 7}}
  \cup {<<"repeat", <<NumE(v)>>>> : v \in {0, 2}}
TextPrograms ==
  [q \in TextCalls |->
     Program(<<Func("f", <<"s">>, <<Ret(Method(q[1], s, q[2]))>>)>>, <<>>,
             <<Call("f", <<StrE(<<" ", "A", "b", "a">>)>>), Call("f", <<StrE(<<"a", "b", "a", " ">>)>>)>>)]

\* JavaScript's own functions, of numbers that are none among them, and of
\* texts that are no numbers.
Odds == [pos |-> n, neg |-> Bin("-", n, Three), nan |-> Bin("%", n, Nil), inf |-> Id("Infinity"), one |-> Bin("-", Three, n)]
Maths == {<<m>> : m \in {"floor", "abs", "sign", "clz32", "sqrt"}} \cup ({"min", "max", "pow"} \X {"pos", "neg", "nan", "one"})
Words ==
  {<<>>, <<"1", "2">>, <<" ", "7", " ">>, <<"1", "a">>, <<"-", "3">>, <<"a">>, <<"0", "x", "1">>, <<"i", "n", "f">>,
   <<"\"", "b">>, <<"\\", "n">>}
TextFuncs ==
  [number |-> Call("Number", <<s>>), parseint |-> Call("parseInt", <<s>>), float |-> Static("Number", "parseFloat", <<s>>),
   boolean |-> Call("Boolean", <<s>>), string |-> Call("String", <<s>>), json |-> Static("JSON", "stringify", <<s>>),
   back |-> Cmp("===", Static("JSON", "parse", <<Static("JSON", "stringify", <<s>>)>>), s),
   parse |-> Cmp("===", Static("JSON", "parse", <<s>>), s),
   from |-> Method("join", Static("Array", "from", <<s>>), <<Letter(",")>>), isnan |-> Call("isNaN", <<s>>)]
NumberFuncs(e) ==
  [string |-> Call("String", <<e>>), number |-> Call("Number", <<e>>), boolean |-> Call("Boolean", <<e>>),
   isnan |-> Call("isNaN", <<e>>), json |-> Static("JSON", "stringify", <<e>>), integer |-> Static("Number", "isInteger", <<e>>),
   finite |-> Static("Number", "isFinite", <<e>>), none |-> Static("Number", "isNaN", <<e>>),
   code |-> Static("String", "fromCharCode", <<Bin("+", e, NumE(97))>>), low |-> Static("String", "fromCharCode", <<e>>),
   parse |-> Call("parseInt", <<e>>)]
Builtin(q) ==
  CASE q[1] = "math" ->
         OfNumber(<<Ret(Static("Math", q[2][1], IF Len(q[2]) = 1 THEN <<Odds[q[3]]>> ELSE <<Odds[q[3]], Odds[q[2][2]]>>))>>)
    [] q[1] = "text" ->
         Program(<<Func("f", <<"s">>, <<Ret(TextFuncs[q[2]])>>)>>, <<>>, <<Call("f", <<StrE(q[3])>>)>>)
    [] q[1] = "number" -> OfNumber(<<Ret(NumberFuncs(Odds[q[3]])[q[2]])>>)
BuiltinPrograms ==
  [q \in {y \in {"math"} \X Maths \X (DOMAIN Odds) :
             /\ y[2][1] = "sqrt" => y[3] \notin {"pos", "one"}
             /\ y[2][1] = "pow" => y[2][2] # "neg" /\ y[3] # "inf"}
          \cup ({"text"} \X (DOMAIN TextFuncs) \X Words)
          \cup {y \in {"number"} \X (DOMAIN NumberFuncs(Nil)) \X (DOMAIN Odds) : y[2] = "code" => y[3] \notin {"nan", "inf"}} |->
     Builtin(q)]

\* Every method of an array: what it gives, and what it leaves.
Sum == Arrow("a1", <<"a", "x">>, <<Ret(Bin("-", x, Id("a")))>>)
Order == Arrow("a1", <<"x", "y">>, <<Ret(Bin("-", x, Id("y")))>>)
ArrayCallsMade ==
  {<<m, <<NumE(v)>>>> : m \in {"indexOf", "lastIndexOf", "includes", "at"}, v \in {-1, 1, 4}}
  \cup {<<m, <<NumE(v[1]), NumE(v[2])>>>> : m \in {"slice", "splice"},
                v \in {<<1, 2>>, <<-2, 9>>, <<2, 0>>, <<-9, 1>>, <<9, 1>>}}
  \cup {<<"slice", <<One>>>>, <<"slice", <<>>>>, <<"concat", <<xs>>>>, <<"join", <<Ab>>>>, <<"fill", <<NumE(7)>>>>,
        <<"unshift", <<NumE(7)>>>>, <<"push", <<NumE(7)>>>>, <<"reduceRight", <<Sum, Nil>>>>, <<"sort", <<Order>>>>,
        <<"reduce", <<Sum, Nil>>>>}
  \cup {<<m, <<>>>> : m \in {"reverse", "pop", "shift"}}
  \cup {<<m, <<Lambda(Cmp("<", x, NumE(v)))>>>> : m \in {"every", "some", "findIndex", "filter"}, v \in {1, 2, 5}}
ArrayPrograms ==
  [q \in ArrayCallsMade |->
     Program(<<Func("f", <<"xs">>, <<Ret(Method(q[1], xs, q[2]))>>),
               Func("h", <<"xs">>, <<Ex(Method(q[1], xs, q[2])), Ret(xs)>>)>>, <<>>,
             <<Call("f", <<Arr(<<Two, One, NumE(4), One>>)>>), Call("h", <<Arr(<<Two, One, NumE(4), One>>)>>)>>)]

\* Every two changes to an array, three times over: past its capacity and down
\* to nothing.
Changed ==
  [push |-> Method("push", xs, <<i>>), unshift |-> Method("unshift", xs, <<i>>), pop |-> Method("pop", xs, <<>>),
   shift |-> Method("shift", xs, <<>>), cut |-> Method("splice", xs, <<One, Two>>),
   reverse |-> Method("reverse", xs, <<>>), fill |-> Method("fill", xs, <<i>>),
   set |-> Asg("=", Idx(xs, i), NumE(9)), far |-> Asg("=", Idx(xs, Bin("+", i, Two)), NumE(8))]
ChangePrograms ==
  [q \in (DOMAIN Changed) \X (DOMAIN Changed) |->
     OfArray(<<Thrice("i", <<Ex(Changed[q[1]]), Ex(Changed[q[2]])>>), Ret(xs)>>)]

\* Every test the optimizer may decide, in every place of a test.
Fixed ==
  [yes |-> BoolE(TRUE), no |-> BoolE(FALSE), not |-> Un("!", BoolE(TRUE)), less |-> Cmp("<", One, Two),
   text |-> Cmp("===", Letter("a"), Letter("b")), and |-> Log("&&", Cmp(">", n, One), BoolE(FALSE)),
   or |-> Log("||", BoolE(FALSE), Cmp(">", n, One)), num |-> Bin("-", One, One), empty |-> StrE(<<>>)]
Enough == If(Cmp(">", r, Two), <<Break("")>>, <<>>)
Tested(c) ==
  [if |-> <<If(c, <<Add("r", One)>>, <<>>)>>, else |-> <<If(c, <<Add("r", One)>>, <<Set("r", n)>>)>>,
   while |-> <<While(c, <<Add("r", One), Enough>>)>>, do |-> <<DoWhile(<<Add("r", One), Enough>>, c)>>,
   for |-> <<For(Var("i", Nil), c, Upd("++", "i", FALSE), <<Add("r", i), Enough>>)>>,
   tern |-> <<Set("r", Tern(c, n, Two))>>, leave |-> <<If(c, <<Ret(n)>>, <<Add("r", Two)>>)>>,
   nest |-> <<If(Cmp(">", n, One), <<If(c, <<Set("r", One)>>, <<Set("r", Two)>>)>>, <<Add("r", n)>>)>>]
FixedPrograms ==
  [q \in (DOMAIN Fixed) \X (DOMAIN Tested(Nil)) |->
     OfNumber(<<Var("r", Nil)>> \o Tested(Fixed[q[1]])[q[2]] \o <<Ret(r)>>)]

\* Every way an entry may import and use what a file declares, with every way
\* the file may declare it.
InSrc(stem, ext) == Path(<<"src">>, stem, ext)
Main == InSrc("main", ".js")
Adds(e) == Fn("add", <<"x">>, <<Ret(e)>>)
Plus == Bin("+", x, One)
Shapes ==
  [plain |-> [as |-> "a", to |-> InSrc("lib", ".js"), from |-> Path(<<>>, "lib", ""), name |-> "add",
              body |-> <<Export(Adds(Plus), FALSE)>>],
   default |-> [as |-> "a", to |-> InSrc("lib", ".ts"), from |-> Path(<<>>, "lib", ".js"), name |-> "default",
                body |-> <<Export(Adds(Plus), TRUE)>>],
   listed |-> [as |-> "a", to |-> InSrc("lib", ".jsx"), from |-> Path(<<>>, "lib", ""), name |-> "sum",
               body |-> <<Adds(Plus), ExportNames(<<<<"add", "sum">>>>)>>],
   index |-> [as |-> "a", to |-> Path(<<"lib">>, "index", ".js"), from |-> Path(<<"..">>, "lib", ""), name |-> "add",
              body |-> <<Fn("h", <<"x">>, <<Ret(x)>>), Export(Adds(Bin("*", x, Two)), FALSE)>>],
   own |-> [as |-> "a", to |-> InSrc("lib", ".tsx"), from |-> Path(<<>>, "lib", ""), name |-> "add",
            body |-> <<Fn("h", <<"x">>, <<Ret(Bin("+", x, Three))>>), Export(Adds(Call("h", <<x>>)), FALSE)>>],
   runs |-> [as |-> "add", to |-> InSrc("lib", ".js"), from |-> Path(<<>>, "lib", ".js"), name |-> "add",
             body |-> <<Export(Adds(Plus), FALSE), Ex(Call("add", <<Three>>))>>],
   text |-> [as |-> "add", to |-> InSrc("lib", ".js"), from |-> Path(<<>>, "lib", ".js"), name |-> "add",
             body |-> <<Ex(Call("add", <<Three>>)), Export(Adds(Plus), FALSE)>>],
   cycle |-> [as |-> "a", to |-> InSrc("lib", ".js"), from |-> Path(<<>>, "lib", ""), name |-> "add",
              body |-> <<Import(Path(<<>>, "main", ""), <<<<"f", "m">>>>, ""), Export(Adds(Plus), FALSE)>>]]
\* The entry knows the function as a.
Usages(a) ==
  [top |-> <<Fn("f", <<"n">>, <<Ret(n)>>), Ex(Call(a, <<Two>>)), Ex(Call("f", <<Two>>))>>,
   var |-> <<Fn("f", <<"n">>, <<Var("y", Call(a, <<n>>)), Ret(Id("y"))>>), Ex(Call("f", <<Two>>))>>,
   twice |-> <<Fn("f", <<"n">>, <<Var("y", Call(a, <<Call(a, <<n>>)>>)), Ret(Id("y"))>>), Ex(Call("f", <<Two>>))>>,
   elem |-> <<Fn("f", <<"n">>, <<Var("ys", Nums), Var("zs", Method("map", ys, <<Id(a)>>)), Var("y", Idx(ys, Call(a, <<Nil>>))),
                                Ret(Bin("+", Id("y"), Idx(Id("zs"), Nil)))>>), Ex(Call("f", <<Two>>))>>,
   return |-> <<Fn("f", <<"n">>, <<Ret(Call(a, <<n>>))>>), Ex(Call("f", <<Two>>))>>,
   hide |-> <<Fn("f", <<a>>, <<Var("y", Call("h", <<Id(a)>>)), Ret(Id("y"))>>),
              Fn("h", <<"x">>, <<Ret(Bin("-", x, One))>>), Ex(Call("f", <<Two>>))>>,
   helper |-> <<Fn("h", <<"x">>, <<Ret(Bin("-", x, One))>>), Var("k", Three), Export(Fn("f", <<"n">>,
                  <<Var("y", Call(a, <<n>>)), Var("z", Call("h", <<k>>)), Ret(Bin("+", Id("y"), Id("z")))>>), FALSE),
                ExportNames(<<<<"k", "k">>>>), Ex(Call("f", <<Two>>))>>]
\* What else the entry imports: a second time the same, another file of the same
\* name or of another, nothing there is.
Also ==
  [none |-> [at |-> Main, imports |-> <<>>, body |-> <<>>],
   again |-> [at |-> Main, imports |-> <<Import(Path(<<>>, "lib", ""), <<>>, "ns")>>, body |-> <<>>],
   same |-> [at |-> Path(<<"src", "sub">>, "lib", ".js"), imports |-> <<Import(Path(<<"sub">>, "lib", ""), <<<<"add", "b">>>>, "")>>,
             body |-> <<Export(Fn("add", <<"x">>, <<Ret(Bin("*", x, x))>>), FALSE)>>],
   other |-> [at |-> InSrc("more", ".js"), imports |-> <<Import(Path(<<>>, "more", ""), <<<<"v", "b">>, <<"w", "c">>>>, "")>>,
              body |-> <<Export(Var("v", Three), FALSE), Export(Fn("w", <<>>, <<Ret(Letter("w"))>>), FALSE)>>],
   missing |-> [at |-> Main, imports |-> <<Import(Path(<<"gone">>, "lib", ""), <<<<"q", "b">>>>, "")>>, body |-> <<>>]]
ProjectPrograms ==
  [q \in {y \in (DOMAIN Shapes) \X (DOMAIN Usages("a")) \X (DOMAIN Also) \X BOOLEAN :
             y[4] \/ y[3] \in {"same", "other"}} |->
     LET lib == Shapes[q[1]]
         also == Also[q[3]]
         main == <<Import(lib.from, <<<<lib.name, lib.as>>>>, "")>> \o also.imports \o Usages(lib.as)[q[2]]
         files == Main :> main @@ lib.to :> lib.body @@ also.at :> also.body
         paths == SetToSeq(DOMAIN files)
     IN Project(Main, files, IF q[4] THEN paths ELSE Reverse(paths))]

\* Every way to a function of a text, of an array, of a number or of a text and
\* a number: called, called by an arrow, in a variable, handed to a function,
\* handed to map.
Bang == Letter("!")
Given ==
  [text |-> Func("g", <<"s">>, <<Ret(Bin("+", s, Bang))>>),
   upper |-> Func("g", <<"s">>, <<Ret(Method("toUpperCase", s, <<>>))>>),
   quiet |-> Func("g", <<"s">>, <<Ret(Cmp("===", Method("toUpperCase", Bang, <<>>), Bang))>>),
   length |-> Func("g", <<"s">>, <<Ret(Length(Method("trim", s, <<>>)))>>),
   array |-> Func("g", <<"xs">>, <<Ret(Bin("+", Length(xs), Idx(xs, One)))>>),
   number |-> Func("g", <<"x">>, <<Ret(Bin("*", x, Two))>>),
   label |-> Func("g", <<"s", "i">>, <<Ret(Bin("+", Method("repeat", s, <<Bin("+", i, One)>>), Bang))>>),
   padded |-> Func("g", <<"i", "s">>, <<Ret(Bin("+", Method("repeat", s, <<Bin("+", i, One)>>), Bang))>>)]
GivenArgs(fn) ==
  CASE fn = "label" -> <<Letter("a"), One>> [] fn = "padded" -> <<One, Letter("a")>> [] fn = "number" -> <<Two>>
    [] fn = "array" -> <<Nums>> [] OTHER -> <<Letter("a")>>
Ways(fn) ==
  LET args == GivenArgs(fn)
      params == SubSeq(<<"x", "y">>, 1, Len(args))
      Passed == [p \in DOMAIN args |-> Id(params[p])]
      Mapped(e) == <<Var("ys", Method("map", Arr(<<args[1], args[1]>>), <<e>>)), Ret(Idx(ys, One))>>
  IN [call |-> <<Ret(Call("g", args))>>,
      arrow |-> Mapped(Arrow("a1", params, <<Ret(Call("g", Passed))>>)),
      var |-> <<Var("h", g), Ret(Call("h", args))>>,
      hand |-> <<Ret(Call("apply", <<g>> \o args))>>,
      map |-> Mapped(g)]
Apply(fn) == LET params == SubSeq(<<"x", "y">>, 1, Len(GivenArgs(fn)))
             IN Func("apply", <<"h">> \o params, <<Ret(Call("h", [p \in DOMAIN params |-> Id(params[p])]))>>)
GivenPrograms ==
  [q \in {y \in (DOMAIN Given) \X (DOMAIN Ways("text")) :
             (y[2] \in {"arrow", "map"} => y[1] \notin {"array", "padded"})} |->
     Program((IF q[2] = "hand" THEN <<Apply(q[1])>> ELSE <<>>)
               \o <<Given[q[1]], Func("f", <<"n">>, Ways(q[1])[q[2]])>>,
             <<>>, <<Call("f", <<Two>>)>>)]

\* An array of booleans, and every use of it or of an element.
FlagsOf == Var("ys", Method("map", Nums, <<Arrow("a2", <<"x">>, <<Ret(Cmp(">", x, One))>>)>>))
FlagPrograms ==
  [read |-> OfNumber(<<FlagsOf, Ret(Idx(ys, n))>>),
   test |-> OfNumber(<<FlagsOf, If(Idx(ys, n), <<Ret(One)>>, <<>>), Ret(Two)>>),
   write |-> OfNumber(<<FlagsOf, Ret(Bin("+", Letter("x"), Idx(ys, n)))>>),
   out |-> OfNumber(<<FlagsOf, Ret(ys)>>),
   set |-> OfNumber(<<FlagsOf, Ex(Asg("=", Idx(ys, n), BoolE(TRUE))), Ret(Idx(ys, Nil))>>),
   not |-> OfNumber(<<FlagsOf, Ret(Un("!", Idx(ys, n)))>>),
   var |-> OfNumber(<<FlagsOf, Var("r", Idx(ys, n)), If(Cmp(">", n, One), <<Set("r", BoolE(FALSE))>>, <<>>), Ret(r)>>),
   is |-> OfNumber(<<FlagsOf, Ret(Cmp("===", Idx(ys, n), BoolE(TRUE)))>>),
   join |-> OfNumber(<<FlagsOf, Ret(Method("join", ys, <<Letter("-")>>))>>),
   of |-> OfNumber(<<FlagsOf, Var("r", Nil), ForOf("v", ys, <<If(Id("v"), <<Add("r", One)>>, <<>>)>>), Ret(r)>>),
   lit |-> OfNumber(<<Var("ys", Arr(<<BoolE(TRUE), Cmp(">", n, One)>>)), Ex(Method("push", ys, <<BoolE(FALSE)>>)), Ret(Idx(ys, One))>>),
   filter |-> OfNumber(<<FlagsOf, Ret(Length(Method("filter", ys, <<Lambda(x)>>)))>>),
   map |-> OfNumber(<<FlagsOf, Var("zs", Method("map", ys, <<Lambda(Tern(x, One, Two))>>)), Ret(Idx(Id("zs"), n))>>),
   given |-> Program(<<Func("g", <<"b">>, <<Ret(Tern(Id("b"), One, Two))>>),
                       Func("f", <<"n">>, <<FlagsOf, Ret(Call("g", <<Idx(ys, n)>>))>>)>>,
                     <<>>, <<Call("f", <<Nil>>), Call("f", <<Two>>)>>),
   json |-> OfNumber(<<FlagsOf, Ret(Call("String", <<Idx(ys, n)>>))>>),
   and |-> OfNumber(<<FlagsOf, Ret(Log("&&", Idx(ys, n), Cmp("<", n, One)))>>),
   tern |-> OfNumber(<<FlagsOf, Ret(Tern(Cmp("<", n, One), Idx(ys, n), BoolE(TRUE)))>>),
   num |-> OfNumber(<<FlagsOf, Ret(Bin("+", Idx(ys, n), One))>>),
   has |-> OfNumber(<<FlagsOf, Ret(Method("includes", ys, <<BoolE(FALSE)>>))>>),
   pop |-> OfNumber(<<FlagsOf, Ret(Method("pop", ys, <<>>))>>),
   passed |-> Program(<<Func("g", <<"zs">>, <<If(Idx(Id("zs"), Two), <<Ret(One)>>, <<>>), Ret(Two)>>),
                        Func("f", <<"n">>, <<FlagsOf, Ret(Call("g", <<ys>>))>>)>>,
                      <<>>, <<Call("f", <<Nil>>)>>)]

Families == [loop |-> LoopPrograms, try |-> TryPrograms, string |-> StringPrograms, switch |-> SwitchPrograms,
             text |-> TextPrograms, array |-> ArrayPrograms, change |-> ChangePrograms, fixed |-> FixedPrograms,
             builtin |-> BuiltinPrograms, project |-> ProjectPrograms,
             given |-> GivenPrograms, flag |-> FlagPrograms]
MCPrograms ==
  LET all == [q \in ({"hand"} \X (DOMAIN Hand)) \cup UNION {{f} \X (DOMAIN Families[f]) : f \in DOMAIN Families} |->
                IF q[1] = "hand" THEN Hand[q[2]] ELSE Families[q[1]][q[2]]]
  IN all
MCJsBuiltins == {"Symbol"}
LinkedProgram(p) == LET whole == IF IsProject(p) THEN Source!Link(p) ELSE p IN whole
SourceMeaning(p) == LET run == Source!Evaluate(p) IN run
==============================================================================
