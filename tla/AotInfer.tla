------------------------------ MODULE AotInfer ------------------------------
(***************************************************************************)
(* Type inference (type_checker/): Hindley-Milner unification run over the *)
(* module up to three times, then once more over every function to record  *)
(* the type of each of its expressions.                                    *)
(*                                                                         *)
(* Every operator takes the inferrer's state i and returns the next one,   *)
(* with the type of the expression just read in i.t:                       *)
(*   env    type of each visible name       sub   the substitution         *)
(*   fns    signature of each function      ntv   the next type variable   *)
(*   decls  the functions, clones at the end                               *)
(*   ret    return type of the body being read, fn its function            *)
(*   types  type of each expression read    lifted  the arrows met         *)
(*   mono   the clones of each function     rewrites  calls sent to clones *)
(*   js     functions that need the JavaScript engine                      *)
(*   errs   an error was reported           typed  the finished functions  *)
(***************************************************************************)
EXTENDS AotSyntax, SequencesExt

CONSTANT JsBuiltins   \* names only the JavaScript engine knows

\* ---- substitutions and unification (unification.py, types.py)
RECURSIVE Apply(_, _), TypeVars(_), Unify(_, _)
Apply(sub, t) ==
  CASE t[1] = "var" -> IF t[2] \in DOMAIN sub THEN Apply(sub, sub[t[2]]) ELSE t
    [] t[1] = "fn" -> FnType([j \in DOMAIN t[2] |-> Apply(sub, t[2][j])], Apply(sub, t[3]))
    [] t[1] \in {"array", "promise"} -> <<t[1], Apply(sub, t[2])>>
    [] OTHER -> t

\* What occurs_check looks into: not the type inside a promise.
TypeVars(t) ==
  CASE t[1] = "var" -> {t[2]}
    [] t[1] = "fn" -> UNION {TypeVars(t[2][j]) : j \in DOMAIN t[2]} \cup TypeVars(t[3])
    [] t[1] = "array" -> TypeVars(t[2])
    [] OTHER -> {}

Compose(sub, other) == sub @@ [v \in DOMAIN other |-> Apply(sub, other[v])]

Clash == [ok |-> FALSE]
Solved(sub) == [ok |-> TRUE, sub |-> sub]
Unify(a, b) ==
  CASE IsTV(a) /\ IsTV(b) /\ a = b -> Solved(<<>>)
    [] IsTV(a) -> IF a[2] \in TypeVars(b) THEN Clash ELSE Solved(a[2] :> b)
    [] IsTV(b) -> IF b[2] \in TypeVars(a) THEN Clash ELSE Solved(b[2] :> a)
    [] a[1] = b[1] /\ a[1] \in {"number", "boolean", "string", "void"} -> Solved(<<>>)
    [] a[1] = "array" /\ b[1] = "array" -> Unify(a[2], b[2])
    [] a[1] = "fn" /\ b[1] = "fn" /\ Len(a[2]) = Len(b[2]) ->
         LET both == Zip(Append(a[2], a[3]), Append(b[2], b[3]))
             Next(u, pair) ==
               IF ~u.ok THEN u
               ELSE LET v == Unify(Apply(u.sub, pair[1]), Apply(u.sub, pair[2]))
                    IN IF v.ok THEN Solved(Compose(v.sub, u.sub)) ELSE Clash
         IN FoldLeft(Next, Solved(<<>>), both)
    [] OTHER -> Clash

\* ---- operator types (builtins.py)
NoType == <<"none">>
Arith == {"+", "-", "*", "/", "%"}
Prim == {"number", "boolean", "string"}
BinaryOpType(op, l, r) ==
  LET tags == {l[1], r[1]}
  IN CASE tags = {"number"} /\ op \in Arith \cup {"&", "|"} -> NUMBER
       [] tags = {"boolean"} /\ op \in Arith \cup {"&", "|"} -> NUMBER
       [] tags = {"boolean", "number"} /\ op \in Arith -> NUMBER
       [] "string" \in tags /\ tags \subseteq Prim /\ op = "+" -> STR
       [] OTHER -> NoType
CompareOpType(l, r) ==
  IF (l[1] = r[1] /\ l[1] \in Prim) \/ "void" \in {l[1], r[1]} THEN BOOL ELSE NoType
UnaryOpType(op, t) ==
  CASE op = "-" /\ t = NUMBER -> NUMBER
    [] op = "!" -> BOOL
    [] OTHER -> NoType

\* ---- what every module knows: its names, and the functions of its objects.
\* JSON.stringify and Array.isArray have one type each, with a variable all
\* their calls share.
Builtins ==
  [Infinity |-> NUMBER, NaN |-> NUMBER, Math |-> OBJECT, Number |-> OBJECT, String |-> OBJECT,
   Array |-> OBJECT, Object |-> OBJECT, JSON |-> OBJECT]
StringifyArg == TV(0)
IsArrayArg == TV(1)
MathType(m) == FnType(IF m \in {"min", "max", "pow", "hypot"} THEN <<NUMBER, NUMBER>> ELSE <<NUMBER>>, NUMBER)
NumberType(m) ==
  IF m \in {"parseInt", "parseFloat"} THEN FnType(<<STR>>, NUMBER) ELSE FnType(<<NUMBER>>, BOOL)
StaticType(ns, m) ==
  CASE ns = "Math" -> MathType(m)
    [] ns = "Number" -> NumberType(m)
    [] ns = "String" -> FnType(<<NUMBER>>, STR)
    [] ns = "Array" -> FnType(<<IsArrayArg>>, BOOL)
    [] ns = "JSON" -> FnType(<<StringifyArg>>, STR)
\* What the functions without an object give, whatever they are called with.
GlobalTypes ==
  [parseInt |-> NUMBER, parseFloat |-> NUMBER, Number |-> NUMBER, String |-> STR, Boolean |-> BOOL, isNaN |-> BOOL]

\* ---- the state
With(i, t) == [i EXCEPT !.t = t]
Fresh(i) == [i EXCEPT !.t = TV(i.ntv), !.ntv = @ + 1]
Error(i) == [i EXCEPT !.errs = TRUE]
Now(i, t) == Apply(i.sub, t)
Bind(i, n, t) == [i EXCEPT !.env = n :> t @@ @]
\* unify and compose, the failure of which most callers ignore
Try2(i, u) == IF u.ok THEN [i EXCEPT !.sub = Compose(u.sub, @)] ELSE i
Join(i, a, b) == Try2(i, Unify(a, b))
Visible(i) == DOMAIN i.env \cup DOMAIN Builtins
TypeHere(i, n) == IF n \in DOMAIN i.env THEN i.env[n] ELSE Builtins[n]
FreshList(i, n) == [s |-> [i EXCEPT !.ntv = @ + n], ts |-> [j \in 1..n |-> TV(i.ntv + j - 1)]]

\* The identifiers a body mentions outside its own arrows.
Mentioned(body) ==
  {x.n : x \in {y \in Nodes(body) : y.k \in {"id", "upd"}}}
    \cup {x.f : x \in {y \in Nodes(body) : y.k = "call"}}
    \cup {x.ns : x \in {y \in Nodes(body) : y.k \in {"static", "member"}}}

\* The type of a method of an array of t; v is a fresh type variable.
Callback(params, ret) == FnType(params, ret)
ArrayMethodType(m, t, v) ==
  CASE m = "push" -> FnType(<<t>>, NUMBER)
    [] m \in {"pop", "shift"} -> FnType(<<>>, t)
    [] m = "at" -> FnType(<<NUMBER>>, t)
    [] m = "forEach" -> FnType(<<Callback(<<t, NUMBER>>, VOID)>>, VOID)
    [] m = "map" -> FnType(<<Callback(<<t, NUMBER>>, v)>>, ArrayOf(v))
    [] m = "filter" -> FnType(<<Callback(<<t, NUMBER>>, BOOL)>>, ArrayOf(t))
    [] m = "find" -> FnType(<<Callback(<<t, NUMBER>>, BOOL)>>, t)
    [] m = "findIndex" -> FnType(<<Callback(<<t, NUMBER>>, BOOL)>>, NUMBER)
    [] m \in {"some", "every"} -> FnType(<<Callback(<<t, NUMBER>>, BOOL)>>, BOOL)
    [] m \in {"reduce", "reduceRight"} -> FnType(<<Callback(<<v, t>>, v), v>>, v)
    [] m = "sort" -> FnType(<<Callback(<<t, t>>, NUMBER)>>, ArrayOf(t))
    [] m \in {"indexOf", "lastIndexOf", "unshift"} -> FnType(<<t>>, NUMBER)
    [] m = "includes" -> FnType(<<t>>, BOOL)
    [] m \in {"slice", "splice"} -> FnType(<<NUMBER, NUMBER>>, ArrayOf(t))
    [] m = "concat" -> FnType(<<ArrayOf(t)>>, ArrayOf(t))
    [] m = "reverse" -> FnType(<<>>, ArrayOf(t))
    [] m = "fill" -> FnType(<<t>>, ArrayOf(t))
    [] m = "join" -> FnType(<<STR>>, STR)

\* The type of a method of a string, and of a number.
StringMethodType(m) ==
  CASE m \in {"at", "charAt", "repeat"} -> FnType(<<NUMBER>>, STR)
    [] m = "charCodeAt" -> FnType(<<NUMBER>>, NUMBER)
    [] m \in {"indexOf", "lastIndexOf"} -> FnType(<<STR>>, NUMBER)
    [] m \in {"includes", "startsWith", "endsWith"} -> FnType(<<STR>>, BOOL)
    [] m \in {"slice", "substring"} -> FnType(<<NUMBER, NUMBER>>, STR)
    [] m \in {"toUpperCase", "toLowerCase", "trim", "trimStart", "trimEnd"} -> FnType(<<>>, STR)
    [] m \in {"replace", "replaceAll"} -> FnType(<<STR, STR>>, STR)
    [] m \in {"padStart", "padEnd"} -> FnType(<<NUMBER, STR>>, STR)
    [] m = "split" -> FnType(<<STR>>, ArrayOf(STR))
NumberMethodType(m) == IF m = "toString" THEN FnType(<<>>, STR) ELSE FnType(<<NUMBER>>, STR)

RECURSIVE Infer(_, _), Read(_, _), CheckBlock(_, _), Check(_, _), CheckBody(_, _)
RECURSIVE InferAll(_, _)

\* _infer_expr: the type is recorded under the node.
Infer(i, e) == LET r == Read(i, e) IN [r EXCEPT !.types = e :> r.t @@ @]

\* The types of a list, from left to right.
InferAll(i, es) ==
  FoldLeft(LAMBDA a, e : LET r == Infer(a.s, e) IN [s |-> r, ts |-> Append(a.ts, r.t)],
           [s |-> i, ts |-> <<>>], es)

InferId(i, n) ==
  CASE n \in Visible(i) -> With(i, Now(i, TypeHere(i, n)))
    [] n \in JsBuiltins -> Fresh([i EXCEPT !.js = @ \cup {i.fn}])
    [] OTHER -> Fresh(Error(i))

InferBinary(i, e) ==
  LET l == Infer(i, e.l)
      s == Infer(l, e.r)
      lt == Now(s, l.t)
      rt == Now(s, s.t)
      direct == BinaryOpType(e.op, lt, rt)
      u == Unify(l.t, s.t)
      j == Try2(s, u)
      joined == BinaryOpType(e.op, Now(j, l.t), Now(j, l.t))
  IN CASE direct # NoType -> With(s, direct)
       [] e.op = "+" /\ {lt[1], rt[1]} = {"string", "var"} -> With(s, STR)
       [] u.ok /\ joined # NoType -> With(j, joined)
       [] OTHER -> Fresh(IF IsTV(Now(j, l.t)) \/ IsTV(Now(j, s.t)) THEN j ELSE Error(j))

InferCompare(i, e) ==
  LET l == Infer(i, e.l)
      s == Infer(l, e.r)
  IN With(IF CompareOpType(Now(s, l.t), Now(s, s.t)) # NoType THEN s ELSE Join(s, l.t, s.t), BOOL)

InferLogical(i, e) ==
  LET l == Infer(i, e.l)
      s == Infer(l, e.r)
      j == Join(s, l.t, s.t)
  IN With(j, Now(j, l.t))

InferTernary(i, e) ==
  LET y == Infer(Infer(i, e.c), e.yes)
      s == Infer(y, e.no)
      j == Join(s, y.t, s.t)
  IN With(j, Now(j, y.t))

BaseOp(op) == CASE op = "+=" -> "+" [] op = "-=" -> "-" [] op = "*=" -> "*"

InferAssign(i, e) ==
  LET r == Infer(i, e.r)
      l == Infer(r, e.l)
      lt == Now(l, l.t)
      op == BinaryOpType(BaseOp(e.op), lt, Now(l, r.t))
      res == IF op = NoType THEN lt ELSE op
  IN CASE e.op = "=" /\ e.l.k = "id" /\ e.l.n \in DOMAIN r.env ->
            With(Join(r, r.env[e.l.n], r.t), r.t)
       [] e.op = "=" /\ e.l.k = "id" -> Bind(r, e.l.n, r.t)
       [] e.op = "=" /\ e.l.k = "idx" ->
            LET j == Join(l, l.t, r.t) IN With(Infer(j, e.l.o), r.t)
       [] e.op \in {"&&=", "||="} -> With(Join(l, lt, Now(l, r.t)), lt)
       [] OTHER -> With(IF e.l.k = "id" THEN Bind(l, e.l.n, res) ELSE l, res)

InferArray(i, e) ==
  LET a == InferAll(i, e.es)
      j == FoldLeft(LAMBDA s, t : Join(s, a.ts[1], t), a.s, Tail(a.ts))
  IN IF e.es = <<>> THEN LET f == Fresh(i) IN With(f, ArrayOf(f.t))
     ELSE With(j, ArrayOf(Now(j, a.ts[1])))

\* _try_monomorphize: a clone of the function for these argument types, an
\* earlier one if its parameters have their classes.
Compatible(i, n, ts) ==
  LET ft == i.fns[n]
  IN /\ Len(ft[2]) = Len(ts)
     /\ \A j \in DOMAIN ts : Now(i, ft[2][j])[1] \in {Now(i, ts[j])[1], "var"}
CloneName(f, n) == f \o "__mono" \o ToString(n)
Monomorphize(i, e, ts) ==
  LET have == SelectSeq(IF e.f \in DOMAIN i.mono THEN i.mono[e.f] ELSE <<>>,
                        LAMBDA n : Compatible(i, n, ts))
      n == CloneName(e.f, i.nmono)
      fresh == FreshList(i, Len(Named(i.decls, e.f).params) + 1)
      ft == FnType(Front(fresh.ts), Last(fresh.ts))
      made == [fresh.s EXCEPT
                 !.fns = n :> ft @@ @, !.env = n :> ft @@ @, !.nmono = @ + 1,
                 !.decls = Append(@, [Named(@, e.f) EXCEPT !.n = n]),
                 !.mono = (e.f :> Append(IF e.f \in DOMAIN @ THEN @[e.f] ELSE <<>>, n)) @@ @,
                 !.rewrites = <<i.fn, e>> :> n @@ @]
      Args(s, f) == FoldLeftDomain(LAMBDA x, j : Join(x, Now(x, s.fns[f][2][j]), Now(x, ts[j])),
                                   s, IF Len(ts) < Len(s.fns[f][2]) THEN ts ELSE s.fns[f][2])
  IN IF have # <<>>
     THEN LET s == Args([i EXCEPT !.rewrites = <<i.fn, e>> :> have[1] @@ @], have[1])
          IN With(s, Now(s, s.fns[have[1]][3]))
     ELSE LET s == CheckBody(Args(made, n), Last(made.decls)) IN With(s, Now(s, ft[3]))

\* The arguments of a call against the parameters: a callback may take fewer
\* parameters than it is given; the first clash asks for a clone.
PadCallback(i, a, p) ==
  IF a[1] = "fn" /\ p[1] = "fn" /\ Len(a[2]) < Len(p[2])
  THEN LET f == FreshList(i, Len(p[2]) - Len(a[2]))
       IN [s |-> f.s, t |-> FnType(a[2] \o f.ts, a[3])]
  ELSE [s |-> i, t |-> a]
UnifyArgs(i, params, ts) ==
  LET n == IF Len(ts) < Len(params) THEN Len(ts) ELSE Len(params)
      Step(a, j) ==
        IF ~a.ok THEN a
        ELSE LET pad == PadCallback(a.s, Now(a.s, ts[j]), Now(a.s, params[j]))
                 u == Unify(Now(pad.s, params[j]), Now(pad.s, pad.t))
             IN [s |-> Try2(pad.s, u), ok |-> u.ok]
  IN FoldLeft(Step, [s |-> i, ok |-> TRUE], [j \in 1..n |-> j])

InferCall(i, e) ==
  LET c == Infer(i, Id(e.f))
      a == InferAll(c, e.args)
      ft == Now(a.s, c.t)
      u == UnifyArgs(a.s, ft[2], a.ts)
  IN CASE ft[1] # "fn" -> Fresh(a.s)
       [] ft[1] = "fn" /\ u.ok -> With(u.s, Now(u.s, ft[3]))
       [] ft[1] = "fn" /\ ~u.ok /\ \E j \in DOMAIN i.decls : i.decls[j].n = e.f ->
            Monomorphize(u.s, e, a.ts)
       [] OTHER -> Error(With(u.s, Now(u.s, ft[3])))

\* JSON.parse gives a new type every time.
InferParse(i, e) == Fresh(InferAll(i, e.args).s)
\* Array.of and Array.from give an array of the type of their first argument.
InferArrayStatic(i, e) ==
  LET a == InferAll(i, e.args)
      first == Now(a.s, a.ts[1])
      f == Fresh(a.s)
  IN CASE e.n = "of" -> With(a.s, ArrayOf(IF e.args = <<>> THEN NUMBER ELSE first))
       [] e.n = "from" -> IF first = STR THEN With(a.s, ArrayOf(STR))
                          ELSE IF first[1] = "array" THEN With(a.s, first) ELSE With(f, ArrayOf(f.t))
InferStatic(i, e) ==
  LET a == InferAll(i, e.args)
      ft == StaticType(e.ns, e.n)
      u == UnifyArgs(a.s, ft[2], a.ts)
  IN CASE e.n = "parse" -> InferParse(i, e)
       [] e.n \in {"of", "from"} -> InferArrayStatic(i, e)
       [] OTHER -> With(IF u.ok THEN u.s ELSE Error(u.s), ft[3])

InferMethod(i, e) ==
  LET o == Infer(i, e.o)
      v == Fresh(o)
      ot == Now(o, o.t)
      ft == CASE ot[1] = "array" -> ArrayMethodType(e.n, ot[2], v.t)
              [] ot = STR -> StringMethodType(e.n)
              [] OTHER -> NumberMethodType(e.n)
      a == InferAll(v, e.args)
      u == UnifyArgs(a.s, ft[2], a.ts)
  IN IF ot[1] \notin {"array", "string", "number"} THEN Fresh(InferAll(v, e.args).s)
     ELSE With(IF u.ok THEN u.s ELSE Error(u.s), Now(u.s, ft[3]))

\* An arrow is read with its parameters in scope.  Met for the first time it
\* gets its type and the captures its lifted function is made with: names of
\* the enclosing scope, functions excepted.
InferArrow(i, e) ==
  LET known == \E j \in DOMAIN i.lifted : i.lifted[j].n = e.n
      fresh == FreshList(i, Len(e.params) + 1)
      ft == IF known THEN Named(i.lifted, e.n).ft ELSE FnType(Front(fresh.ts), Last(fresh.ts))
      in == IF known THEN i ELSE fresh.s
      scope == [j \in DOMAIN e.params |-> e.params[j]]
      env == [n \in ToSet(scope) |-> ft[2][CHOOSE j \in DOMAIN scope : scope[j] = n]]
      body == CheckBlock([in EXCEPT !.env = env @@ @, !.ret = ft[3]], e.body)
      out == [body EXCEPT !.env = i.env, !.ret = i.ret, !.t = ft]
      caps == (Mentioned(e.body) \cap Visible(i)) \ (ToSet(e.params) \cup DOMAIN i.fns \cup {"Math"})
  IN IF known THEN out
     ELSE [out EXCEPT !.lifted = Append(@, [n |-> e.n, node |-> e, ft |-> ft,
                                            caps |-> [c \in caps |-> TypeHere(i, c)]])]

Read(i, e) ==
  CASE e.k = "num" -> With(i, NUMBER)
    [] e.k = "bool" -> With(i, BOOL)
    [] e.k = "str" -> With(i, STR)
    [] e.k = "id" -> InferId(i, e.n)
    [] e.k = "bin" -> InferBinary(i, e)
    [] e.k = "cmp" -> InferCompare(i, e)
    [] e.k = "log" -> InferLogical(i, e)
    [] e.k = "un" -> LET s == Infer(i, e.e)
                         t == UnaryOpType(e.op, Now(s, s.t))
                     IN IF t = NoType THEN Fresh(s) ELSE With(s, t)
    [] e.k = "upd" -> With(Infer(i, Id(e.n)), NUMBER)
    [] e.k = "tern" -> InferTernary(i, e)
    [] e.k = "asg" -> InferAssign(i, e)
    [] e.k = "call" -> IF e.f \in DOMAIN GlobalTypes THEN With(InferAll(i, e.args).s, GlobalTypes[e.f])
                       ELSE InferCall(i, e)
    [] e.k = "static" -> InferStatic(i, e)
    [] e.k = "member" -> With(i, NUMBER)
    [] e.k = "method" -> InferMethod(i, e)
    [] e.k = "len" -> With(Infer(i, e.o), NUMBER)
    [] e.k = "idx" -> LET o == Infer(i, e.o)
                          t == Now(o, o.t)
                      IN IF t[1] = "array" THEN With(Infer(o, e.i), t[2]) ELSE Fresh(o)
    [] e.k = "arr" -> InferArray(i, e)
    [] e.k = "arrow" -> InferArrow(i, e)
    [] e.k = "await" -> LET s == Infer(i, e.e)
                            t == Now(s, s.t)
                        IN With(s, IF t[1] = "promise" THEN t[2] ELSE s.t)

\* ---- statements
\* A return is unified with the type as it was declared, not as it is known
\* by now: a variable an earlier return gave a type takes the new one.
CheckReturn(i, e) ==
  LET s == Infer(i, e)
      u == Unify(s.ret, s.t)
  IN IF u.ok THEN Try2(s, u) ELSE Error(s)

CheckForOf(i, st) ==
  LET s == Infer(i, st.e)
      t == Now(s, s.t)
      f == Fresh(s)
  IN CheckBlock(CASE t[1] = "array" -> Bind(s, st.n, t[2])
                  [] t[1] = "string" -> Bind(s, st.n, STR)
                  [] OTHER -> Bind(f, st.n, f.t), st.body)

Optional(i, e) == IF e.k = "none" THEN i ELSE Infer(i, e)

Check(i, st) ==
  CASE st.k = "var" -> LET s == IF st.e.k = "none" THEN Fresh(i) ELSE Infer(i, st.e)
                       IN Bind(s, st.n, s.t)
    [] st.k = "ret" -> IF st.e.k = "none" THEN i ELSE CheckReturn(i, st.e)
    [] st.k = "if" -> CheckBlock(CheckBlock(Infer(i, st.c), st.then), st.else)
    [] st.k = "while" -> CheckBlock(Infer(i, st.c), st.body)
    [] st.k = "do" -> Infer(CheckBlock(i, st.body), st.c)
    [] st.k = "for" ->
         LET s == CASE st.i.k = "none" -> i
                    [] st.i.k \in {"var", "expr"} -> Check(i, st.i)
         IN CheckBlock(Optional(Optional(s, st.c), st.u), st.body)
    [] st.k = "forof" -> CheckForOf(i, st)
    [] st.k = "switch" ->
         FoldLeft(LAMBDA s, c : CheckBlock(Optional(s, c.d), c.body), Infer(i, st.d), st.cases)
    [] st.k \in {"expr", "throw"} -> Infer(i, st.e)
    [] st.k = "try" ->
         LET s == CheckBlock(i, st.body)
         IN CheckBlock(CheckBlock(IF st.n = "" THEN s ELSE Bind(s, st.n, STR), st.handler), st.final)
    [] st.k = "label" -> Check(i, st.st)
    [] st.k \in {"break", "continue"} -> i

CheckBlock(i, b) == FoldLeft(Check, i, b)

\* ---- functions and modules
Scoped(i, f) ==
  LET env == [n \in ToSet(f.params) |->
                i.fns[f.n][2][CHOOSE j \in DOMAIN f.params : f.params[j] = n]]
  IN [i EXCEPT !.env = env @@ @, !.ret = i.fns[f.n][3], !.fn = f.n]

\* _check_function_body: afterwards the names are what they were, the
\* functions' signatures included.
CheckBody(i, f) ==
  LET s == CheckBlock(Scoped(i, f), f.body)
  IN [s EXCEPT !.env = s.fns @@ i.env, !.ret = i.ret, !.fn = i.fn]

RegisterSignature(i, f) ==
  LET l == FreshList(i, Len(f.params) + 1)
      ft == FnType(Front(l.ts), Last(l.ts))
  IN [l.s EXCEPT !.fns = f.n :> ft @@ @, !.env = f.n :> ft @@ @]

\* The declarations from the j-th on, those added on the way included.
RECURSIVE CheckBodies(_, _), FinalizeFrom(_, _), Passes(_, _, _)
CheckBodies(i, j) == IF j > Len(i.decls) THEN i ELSE CheckBodies(CheckBody(i, i.decls[j]), j + 1)

Passes(i, p, n) ==
  LET s == FoldLeft(Infer, CheckBodies(CheckBlock(i, p.globals), 1), p.entry)
  IN IF n = 1 \/ Cardinality(DOMAIN s.sub) = Cardinality(DOMAIN i.sub) THEN s
     ELSE Passes(s, p, n - 1)

TypedFn(i, f, params, ret, comp, caps) ==
  [n |-> f.n, params |-> f.params, ptypes |-> params, ret |-> ret, body |-> f.body,
   async |-> f.async, compilable |-> comp, caps |-> caps,
   types |-> [e \in DOMAIN i.types |-> Now(i, i.types[e])]]

\* _finalize_function: read once more for the types of its expressions; what
\* is left unresolved, needs the engine or was cloned is not compiled.
Finalize(i, f) ==
  LET s == CheckBlock(Scoped([i EXCEPT !.types = <<>>], f), f.body)
      ft == s.fns[f.n]
      known == Now(s, ft[3])
      ret == IF IsTV(known) THEN VOID ELSE known
      aret == IF f.async /\ ret[1] # "promise" THEN PromiseOf(ret) ELSE ret
      params == [j \in DOMAIN f.params |-> Now(s, ft[2][j])]
      comp == /\ \A j \in DOMAIN params : ~IsTV(params[j])
              /\ f.n \notin s.js
              /\ f.n \notin DOMAIN s.mono
  IN [s EXCEPT !.env = s.fns @@ i.env, !.ret = i.ret,
               !.typed = Append(@, TypedFn(s, f, params, aret, comp, <<>>))]

\* A lifted arrow becomes a function of its own, read again with its captures.
FinalizeArrow(i, a) ==
  LET ft == Now(i, a.ft)
      caps == [c \in DOMAIN a.caps |-> Now(i, a.caps[c])]
      f == Func(a.n, a.node.params, a.node.body)
      env == [n \in ToSet(f.params) |-> ft[2][CHOOSE j \in DOMAIN f.params : f.params[j] = n]]
      s == CheckBlock([i EXCEPT !.types = <<>>, !.env = env @@ caps @@ @, !.ret = ft[3]], f.body)
      comp == \A t \in ToSet(ft[2]) \cup {ft[3]} : ~IsTV(t)
  IN [s EXCEPT !.env = i.env, !.ret = i.ret,
               !.typed = Append(@, TypedFn(s, f, ft[2], ft[3], comp, caps))]

FinalizeFrom(i, j) == IF j > Len(i.decls) THEN i ELSE FinalizeFrom(Finalize(i, i.decls[j]), j + 1)

InferInit(p) ==
  [env |-> <<>>, sub |-> <<>>, fns |-> <<>>, ntv |-> 2, decls |-> p.funcs, ret |-> VOID, fn |-> "",
   types |-> <<>>, lifted |-> <<>>, mono |-> <<>>, nmono |-> 1, rewrites |-> <<>>, js |-> {},
   errs |-> FALSE, typed |-> <<>>, t |-> VOID]

CheckModule(p) ==
  LET read == Passes(FoldLeft(RegisterSignature, InferInit(p), p.funcs), p, 3)
      funcs == FinalizeFrom(read, 1)
  IN FoldLeft(FinalizeArrow, funcs, funcs.lifted)
=============================================================================
