------------------------------ MODULE AotLower ------------------------------
(***************************************************************************)
(* The HIR builder (hir/builder.py): a typed function becomes a list of    *)
(* basic blocks in SSA form.                                               *)
(*                                                                         *)
(* Every operator takes the builder's state b and returns the next one,    *)
(* with the SSA name of the expression just built in b.val:                *)
(*   blocks  the blocks by label: instructions and a terminator            *)
(*   order   the labels in the order the generator will visit them         *)
(*   cur     the current block              nssa  the last SSA name        *)
(*   vars, vtypes  SSA name and type of each source variable               *)
(*   redecl  variables declared again in this scope, with what they hid    *)
(*   lexit, lcont  targets of break and continue, lexits those of labels   *)
(*   pend    the label the next loop takes                                 *)
(*   csnap, bsnap  the variables at each continue and break so far         *)
(*   caps    what the function captures     types  type of each expression *)
(*   m       the typed module               phis   the last loop's phis    *)
(* An instruction is [k, x, r, t, args]: class, name or operator, result   *)
(* (0 if none), type and operands; a constant has a value v, a phi the     *)
(* labels from its operands come from.                                     *)
(***************************************************************************)
EXTENDS AotSyntax, SequencesExt, Functions

\* ---- blocks and instructions
NoTerm == <<"none">>
Jump(l) == <<"jump", l>>
Branch(c, y, n) == <<"branch", c, y, n>>
Return(v, t) == <<"return", v, t>>
Instr(k, x, r, t, args) == [k |-> k, x |-> x, r |-> r, t |-> t, args |-> args]

Put(b, instr) == [b EXCEPT !.blocks[b.cur].ins = Append(@, instr)]
EmitWith(b, k, x, t, args, more) ==
  Put([b EXCEPT !.nssa = @ + 1, !.val = b.nssa + 1], Instr(k, x, b.nssa + 1, t, args) @@ more)
Emit(b, k, x, t, args) == EmitWith(b, k, x, t, args, <<>>)
EmitConst(b, v, t) == EmitWith(b, "const", "", t, <<>>, [v |-> v])
EmitPhi(b, t, incoming) ==
  EmitWith(b, "phi", "", t, [j \in DOMAIN incoming |-> incoming[j][1]],
           [from |-> [j \in DOMAIN incoming |-> incoming[j][2]]])
DefaultOf(t) == CASE t = STR -> <<>> [] t = BOOL -> FALSE [] OTHER -> 0

FreshBlocks(b, n) ==
  [b EXCEPT !.blocks = @ \o [j \in 1..n |-> [ins |-> <<>>, term |-> NoTerm]],
            !.order = @ \o [j \in 1..n |-> Len(b.blocks) + j]]
At(b, l) == [b EXCEPT !.cur = l]
End(b, term) == [b EXCEPT !.blocks[b.cur].term = term]
Open(b) == b.blocks[b.cur].term = NoTerm
EndIfOpen(b, term) == IF Open(b) THEN End(b, term) ELSE b
\* Moves blocks behind all the others.
ToEnd(b, ls) == [b EXCEPT !.order = SelectSeq(@, LAMBDA l : l \notin ToSet(ls)) \o ls]

GetType(b, e) == IF e \in DOMAIN b.types /\ ~IsTV(b.types[e]) THEN b.types[e] ELSE NUMBER
TypeOfVar(b, n) == IF n \in DOMAIN b.vtypes THEN b.vtypes[n] ELSE NUMBER
\* Variables of these types are taken for loop-invariant and get no phi.
NoPhi(t) == t[1] \in {"array", "fn"}
SetVar(b, n, v) == [b EXCEPT !.vars = n :> v @@ @]
Only(vars, ns) == Restrict(vars, DOMAIN vars \cap ns)

\* ---- joining variables over control-flow edges.  inc lists the edges, each
\* a label and the variables on it; a variable missing on an edge is taken
\* from fb.  loops keeps the first value of an array or a function.
MergeName(a, n, inc, fb, loops) ==
  LET On(e) == IF n \in DOMAIN e[2] THEN e[2][n] ELSE IF n \in DOMAIN fb THEN fb[n] ELSE 0
      vals == SelectSeq([j \in DOMAIN inc |-> <<On(inc[j]), inc[j][1]>>], LAMBDA v : v[1] # 0)
      t == TypeOfVar(a.b, n)
      p == EmitPhi(a.b, t, vals)
  IN CASE vals = <<>> -> a
       [] vals # <<>> /\ (\A j \in DOMAIN vals : vals[j][1] = vals[1][1]) ->
            [a EXCEPT !.vars = n :> vals[1][1] @@ @]
       [] OTHER -> IF loops /\ NoPhi(t) THEN [a EXCEPT !.vars = n :> vals[1][1] @@ @]
                   ELSE [b |-> p, vars |-> n :> p.val @@ a.vars]
Merge(b, inc, fb, loops) ==
  FoldLeft(LAMBDA a, n : MergeName(a, n, inc, fb, loops), [b |-> b, vars |-> <<>>],
           SetToSeq(UNION {DOMAIN inc[j][2] : j \in DOMAIN inc}))

Jumps(b, l, target) == b.blocks[l].term = Jump(target)

RECURSIVE BuildExpr(_, _), BuildStmt(_, _), BuildBlock(_, _)

\* Arguments from left to right.
BuildArgs(b, es) ==
  FoldLeft(LAMBDA a, e : LET c == BuildExpr(a.b, e) IN [b |-> c, vs |-> Append(a.vs, c.val)],
           [b |-> b, vs |-> <<>>], es)

\* ---- expressions
StoreCapture(b, n, v) ==
  IF n \in DOMAIN b.caps THEN Put(b, Instr("storecap", n, 0, b.caps[n], <<v>>)) ELSE b
Store(b, n, v) == StoreCapture([SetVar(b, n, v) EXCEPT !.val = v], n, v)

\* Numbers no literal of a program has.
GlobalConstants == [Infinity |-> 1500000, NaN |-> 1000000]
BuildId(b, n) ==
  CASE n \in DOMAIN b.vars -> [b EXCEPT !.val = b.vars[n]]
    [] n \notin DOMAIN b.vars /\ n \in DOMAIN b.m.globals ->
         Emit(b, "loadglobal", n, b.m.globals[n], <<>>)
    [] n \notin DOMAIN b.vars \cup DOMAIN b.m.globals /\ n \in DOMAIN b.m.sigs ->
         Emit(b, "funcref", n, b.m.sigs[n], <<>>)
    [] OTHER -> IF n \in DOMAIN GlobalConstants THEN EmitConst(b, GlobalConstants[n], NUMBER)
                ELSE EmitConst(b, <<n>>, STR)

ToStr(b, v, t) ==
  CASE t = NUMBER -> Emit(b, "call", "__tsuchi_num_to_str", STR, <<v>>)
    [] t = BOOL -> Emit(b, "call", "__tsuchi_bool_to_str", STR, <<v>>)
    [] OTHER -> [b EXCEPT !.val = v]

\* A string concatenation converts its number and boolean operands.
BuildBinary(b, e) ==
  LET a == BuildArgs(b, <<e.l, e.r>>)
      t == GetType(b, e)
      l == ToStr(a.b, a.vs[1], GetType(b, e.l))
      r == ToStr(l, a.vs[2], GetType(b, e.r))
  IN IF e.op = "+" /\ t = STR THEN Emit(r, "bin", "+", t, <<l.val, r.val>>)
     ELSE Emit(a.b, "bin", e.op, t, a.vs)

BuildCompare(b, e) ==
  LET a == BuildArgs(b, <<e.l, e.r>>) IN Emit(a.b, "cmp", e.op, GetType(b, e.l), a.vs)

\* && and ||: the right side in a block of its own, a phi of both.  What the
\* right side assigned stays visible afterwards.
BuildLogical(b, op, l, r, t) ==
  LET left == BuildExpr(b, l)
      right == Len(left.blocks) + 1
      merge == right + 1
      s == End(FreshBlocks(left, 2), IF op = "&&" THEN Branch(left.val, right, merge)
                                     ELSE Branch(left.val, merge, right))
      x == BuildExpr(At(s, right), r)
  IN EmitPhi(At(EndIfOpen(x, Jump(merge)), merge), t, <<<<left.val, left.cur>>, <<x.val, x.cur>>>>)

BuildTernary(b, e) ==
  LET c == BuildExpr(b, e.c)
      then == Len(c.blocks) + 1
      merge == then + 2
      s == End(FreshBlocks(c, 3), Branch(c.val, then, then + 1))
      y == BuildExpr(At(s, then), e.yes)
      n == BuildExpr(At(EndIfOpen(y, Jump(merge)), then + 1), e.no)
  IN EmitPhi(At(EndIfOpen(n, Jump(merge)), merge), GetType(b, e),
             <<<<y.val, y.cur>>, <<n.val, n.cur>>>>)

\* x++ looks among the local variables only.
BuildUpdate(b, e) ==
  LET old == IF e.n \in DOMAIN b.vars THEN [b EXCEPT !.val = b.vars[e.n]] ELSE EmitConst(b, 0, NUMBER)
      one == EmitConst(old, 1, NUMBER)
      new == Emit(one, "bin", IF e.op = "++" THEN "+" ELSE "-", NUMBER, <<old.val, one.val>>)
      s == Store(new, e.n, new.val)
  IN IF e.tf THEN s ELSE [s EXCEPT !.val = old.val]

BaseOf(op) == CASE op = "+=" -> "+" [] op = "-=" -> "-" [] op = "*=" -> "*"
                [] op = "&&=" -> "&&" [] op = "||=" -> "||"
StoreGlobal(b, n, v) == [Put(b, Instr("storeglobal", n, 0, b.m.globals[n], <<v>>)) EXCEPT !.val = v]

BuildAssign(b, e) ==
  LET isId == e.l.k = "id"
      global == isId /\ e.l.n \in DOMAIN b.m.globals
      rhs == BuildExpr(b, e.r)
      elem == BuildArgs(b, <<e.l.o, e.r, e.l.i>>)
      logical == BuildLogical(b, BaseOf(e.op), e.l, e.r, GetType(b, e))
      ops == BuildArgs(b, <<e.l, e.r>>)
      aug == Emit(ops.b, "bin", BaseOf(e.op), GetType(b, e), ops.vs)
  IN CASE e.op = "=" /\ ~isId ->
            [Put(elem.b, Instr("arrset", "", 0, GetType(b, e.l.o)[2],
                               <<elem.vs[1], elem.vs[3], elem.vs[2]>>)) EXCEPT !.val = elem.vs[2]]
       [] e.op = "=" /\ global -> StoreGlobal(rhs, e.l.n, rhs.val)
       [] e.op = "=" /\ isId /\ ~global -> Store(rhs, e.l.n, rhs.val)
       [] e.op \in {"&&=", "||="} ->
            IF isId THEN Store(logical, e.l.n, logical.val) ELSE logical
       [] OTHER -> IF global THEN StoreGlobal(aug, e.l.n, aug.val)
                   ELSE IF isId THEN [Store(aug, e.l.n, aug.val)
                                        EXCEPT !.vtypes = e.l.n :> GetType(b, e) @@ @]
                   ELSE aug

\* A call through a variable that holds a function, or of a function by name:
\* missing arguments become 0, a call of a cloned function goes to its clone,
\* an async function gives a promise.
BuildCall(b, e) ==
  LET a == BuildArgs(b, e.args)
      ft == GetType(b, Id(e.f))
      sig == b.m.sigs[e.f]
      pad == FoldLeft(LAMBDA s, j : LET c == EmitConst(s.b, 0, NUMBER)
                                    IN [b |-> c, vs |-> Append(s.vs, c.val)],
                      a, [j \in 1..(Len(sig[2]) - Len(a.vs)) |-> j])
      here == <<b.fn, e>>
      f == IF here \in DOMAIN b.m.rewrites THEN b.m.rewrites[here] ELSE e.f
      t == GetType(b, e)
      promise == e.f \in b.m.async /\ t[1] # "promise"
  IN IF ft[1] = "fn" /\ e.f \in DOMAIN b.vars /\ e.f \notin DOMAIN b.m.sigs
     THEN EmitWith(a.b, "icall", "", t, <<b.vars[e.f]>> \o a.vs, [ct |-> ft])
     ELSE Emit(pad.b, "call", f, IF promise THEN sig[3] ELSE t, pad.vs)

\* ---- the functions of JavaScript the runtime has
BuiltinGlobals ==
  [parseInt |-> NUMBER, parseFloat |-> NUMBER, Number |-> NUMBER, String |-> STR, Boolean |-> BOOL, isNaN |-> BOOL]
BuildBuiltin(b, e) ==
  LET a == BuildArgs(b, e.args) IN Emit(a.b, "call", "__tsuchi_" \o e.f, BuiltinGlobals[e.f], a.vs)

\* Array.from of an array is the array itself, Array.isArray a constant.
BuildArrayStatic(b, e) ==
  LET a == BuildArgs(b, e.args)
      of == GetType(b, e.args[1])
      t == GetType(b, e)
  IN CASE e.n = "isArray" -> EmitConst(a.b, of[1] = "array", BOOL)
       [] e.n = "of" -> Emit(a.b, "alloc", "", ArrayOf(IF t[1] = "array" THEN t[2] ELSE NUMBER), a.vs)
       [] e.n = "from" ->
            IF of = STR THEN Emit(a.b, "call", "tsuchi_str_to_char_array", ArrayOf(STR), a.vs)
            ELSE [a.b EXCEPT !.val = a.vs[1]]
\* JSON.parse is taken to find a string.
BuildJson(b, e) ==
  LET a == BuildArgs(b, e.args)
  IN Emit(a.b, "call", IF e.n = "parse" THEN "__tsuchi_json_parse_str" ELSE "__tsuchi_json_stringify", STR, a.vs)
\* min and max of more than two go pair by pair.
BuildStatic(b, e) ==
  LET a == BuildArgs(b, e.args)
      f == "__tsuchi_" \o e.ns \o "_" \o e.n
      t == GetType(b, e)
      Pair(s, v) == Emit(s, "call", f, t, <<s.val, v>>)
  IN CASE e.ns = "Array" -> BuildArrayStatic(b, e)
       [] e.ns = "JSON" -> BuildJson(b, e)
       [] e.ns = "Math" /\ e.n \in {"min", "max"} /\ Len(a.vs) > 2 ->
            FoldLeft(Pair, [a.b EXCEPT !.val = a.vs[1]], Tail(a.vs))
       [] OTHER -> Emit(a.b, "call", f, t, a.vs)

BuildArrayLiteral(b, e) ==
  LET a == BuildArgs(b, e.es) IN Emit(a.b, "alloc", "", GetType(b, e), a.vs)

\* A closure is made of the values its captures have now.
BuildArrow(b, e) ==
  LET caps == b.m.caps[e.n]
      names == SetToSeq(DOMAIN caps)
      vs == FoldLeft(LAMBDA s, n :
                       IF n \in DOMAIN b.vars THEN [s EXCEPT !.vs = Append(@, b.vars[n])]
                       ELSE LET c == EmitConst(s.b, 0, NUMBER) IN [b |-> c, vs |-> Append(s.vs, c.val)],
                     [b |-> b, vs |-> <<>>], names)
  IN IF names = <<>> THEN Emit(b, "funcref", e.n, GetType(b, e), <<>>)
     ELSE EmitWith(vs.b, "closure", e.n, GetType(b, e), vs.vs, [names |-> names])

\* forEach with an arrow is rewritten to a for loop around the arrow's body,
\* a return of the arrow included.
ForEachIndex(f) == "__fe_i_" \o f.n
ForEachLoop(e) ==
  LET f == e.args[1]
      n == ForEachIndex(f)
      i == Id(n)
  IN For(Var(n, NumE(0)), Cmp("<", i, Length(e.o)), Upd("++", n, FALSE),
         <<Var(f.params[1], Idx(e.o, i))>> \o f.body)

\* How many of its arguments a method builds; the others are not evaluated.
Takes(m) ==
  CASE m \in {"reverse", "pop", "shift"} -> 0
    [] m \in {"reduce", "reduceRight", "splice", "slice"} -> 2
    [] OTHER -> 1
RuntimeMethods == {"pop", "shift", "unshift", "indexOf", "lastIndexOf", "includes", "at", "slice", "concat",
                   "splice", "join"}
BuildArrayMethod(b, e) ==
  LET built == BuildArgs(b, <<e.o>> \o [j \in 1..(IF Len(e.args) < Takes(e.n) THEN Len(e.args) ELSE Takes(e.n))
                                            |-> e.args[j]])
      zero == EmitConst(built.b, 0, NUMBER)
      a == IF e.n = "slice" /\ e.args = <<>> THEN [b |-> zero, vs |-> Append(built.vs, zero.val)] ELSE built
      elem == GetType(b, e.o)[2]
      t == CASE e.n \in {"find", "pop", "shift", "at"} -> elem
             [] e.n \in {"findIndex", "indexOf", "lastIndexOf", "unshift"} -> NUMBER
             [] e.n \in {"includes", "some", "every"} -> BOOL
             [] e.n \in {"splice", "sort", "fill"} -> ArrayOf(elem)
             [] e.n = "join" -> STR
             [] e.n = "reverse" -> VOID
             [] OTHER -> GetType(b, e)
      call == Emit(a.b, "call", "tsuchi_array_" \o e.n, t, a.vs)
      hof == Instr("hof", e.n, 0, VOID, a.vs) @@ [ct |-> GetType(b, e.args[1])]
  IN CASE e.n = "push" -> Emit(a.b, "push", "", elem, a.vs)
       [] e.n \in {"reverse", "fill"} -> [call EXCEPT !.val = a.vs[1]]
       [] e.n \in RuntimeMethods -> call
       [] e.n = "forEach" -> EmitConst(Put(a.b, hof), 0, NUMBER)
       [] OTHER -> EmitWith(a.b, "hof", e.n, t, a.vs, [ct |-> GetType(b, e.args[1])])

\* A method of a string or a number is a call of the runtime.
BuildRuntimeMethod(b, e) ==
  LET a == BuildArgs(b, <<e.o>> \o e.args)
      of == IF GetType(b, e.o) = STR THEN "__tsuchi_str_" ELSE "__tsuchi_num_"
  IN Emit(a.b, "call", of \o e.n, GetType(b, e), a.vs)

BuildMethod(b, e) ==
  IF GetType(b, e.o)[1] # "array" THEN BuildRuntimeMethod(b, e)
  ELSE IF e.n = "forEach" /\ e.args[1].k = "arrow" /\ e.args[1].params # <<>>
       THEN EmitConst(BuildStmt(b, ForEachLoop(e)), 0, NUMBER)
       ELSE BuildArrayMethod(b, e)

BuildAccess(b, e) ==
  LET o == BuildExpr(b, e.o)
      i == BuildExpr(o, e.i)
      ot == GetType(b, e.o)
  IN CASE e.k = "idx" -> Emit(i, "arrget", "", ot[2], <<o.val, i.val>>)
       [] e.k = "len" /\ ot[1] = "array" -> Emit(o, "arrlen", "", NUMBER, <<o.val>>)
       [] OTHER -> Emit(o, "call", "__tsuchi_strlen", NUMBER, <<o.val>>)

BuildAwait(b, e) ==
  LET p == BuildExpr(b, e.e)
      pt == GetType(b, e.e)
  IN Emit(p, "await", "", IF pt[1] = "promise" THEN pt[2] ELSE GetType(b, e), <<p.val>>)

BuildExpr(b, e) ==
  CASE e.k = "num" -> EmitConst(b, e.num, NUMBER)
    [] e.k = "str" -> EmitConst(b, e.s, STR)
    [] e.k = "bool" -> EmitConst(b, e.tf, BOOL)
    [] e.k = "id" -> BuildId(b, e.n)
    [] e.k = "bin" -> BuildBinary(b, e)
    [] e.k = "cmp" -> BuildCompare(b, e)
    [] e.k = "log" -> BuildLogical(b, e.op, e.l, e.r, GetType(b, e))
    [] e.k = "un" -> LET x == BuildExpr(b, e.e) IN Emit(x, "un", e.op, GetType(b, e), <<x.val>>)
    [] e.k = "upd" -> BuildUpdate(b, e)
    [] e.k = "tern" -> BuildTernary(b, e)
    [] e.k = "asg" -> BuildAssign(b, e)
    [] e.k = "call" -> IF e.f \in DOMAIN BuiltinGlobals THEN BuildBuiltin(b, e) ELSE BuildCall(b, e)
    [] e.k = "static" -> BuildStatic(b, e)
    [] e.k = "member" -> EmitConst(b, GlobalConstants["Infinity"], NUMBER)
    [] e.k = "arr" -> BuildArrayLiteral(b, e)
    [] e.k \in {"idx", "len"} -> BuildAccess(b, e)
    [] e.k = "method" -> BuildMethod(b, e)
    [] e.k = "arrow" -> BuildArrow(b, e)
    [] e.k = "await" -> BuildAwait(b, e)

\* ---- statements
\* As if a declaration in a block outlived it.
LeakScope(b, body) == [BuildBlock([b EXCEPT !.redecl = <<>>], body) EXCEPT !.redecl = b.redecl]

\* A block whose declarations hide those of the enclosing one until it ends.
InScope(b, body) ==
  LET s == BuildBlock([b EXCEPT !.redecl = <<>>], body)
  IN [s EXCEPT !.vars = [n \in DOMAIN s.redecl |-> s.redecl[n][1]] @@ @,
               !.vtypes = [n \in DOMAIN s.redecl |-> s.redecl[n][2]] @@ @,
               !.redecl = b.redecl]

BuildVar(b, st) ==
  LET hides == st.n \in DOMAIN b.vars \ DOMAIN b.redecl
      h == IF hides THEN [b EXCEPT !.redecl = st.n :> <<b.vars[st.n], TypeOfVar(b, st.n)>> @@ @] ELSE b
      s == IF st.e.k = "none" THEN EmitConst(h, 0, NUMBER) ELSE BuildExpr(h, st.e)
  IN [SetVar(s, st.n, s.val)
        EXCEPT !.vtypes = st.n :> (IF st.e.k = "none" THEN NUMBER ELSE GetType(b, st.e)) @@ @]

BuildReturn(b, st) ==
  IF st.e.k = "none" THEN End(b, Return(0, VOID))
  ELSE LET s == BuildExpr(b, st.e) IN End(s, Return(s.val, GetType(b, st.e)))

\* Leaves the block to a loop's exit or latch with the variables as they are.
\* Labels of continue are never recorded.
Leave(b, st) ==
  LET here == <<b.cur, b.vars>>
      exit == IF st.n \in DOMAIN b.lexits THEN b.lexits[st.n] ELSE b.lexit
  IN CASE st.k = "break" /\ exit # 0 -> End([b EXCEPT !.bsnap = Append(@, here)], Jump(exit))
       [] st.k = "continue" /\ b.lcont # 0 ->
            End([b EXCEPT !.csnap = Append(@, here)], Jump(b.lcont))
       [] OTHER -> b

BuildLabeled(b, st) ==
  LET s == BuildStmt([b EXCEPT !.pend = st.n], st.st)
  IN [s EXCEPT !.pend = "", !.lexits = [n \in (DOMAIN @ \ {st.n}) \cup (DOMAIN b.lexits \cap {st.n}) |->
                                          IF n = st.n THEN b.lexits[n] ELSE @[n]]]

\* The throw does not end the block; what is not a string is thrown as "Error".
BuildThrow(b, st) ==
  LET v == BuildExpr(b, st.e)
      msg == IF GetType(b, st.e) = STR THEN v ELSE EmitConst(v, <<"Error">>, STR)
  IN Emit(msg, "call", "__tsuchi_throw", VOID, <<msg.val>>)

\* The variables of a join of two paths, each taken only if it arrives.
JoinPaths(b, left, right, pre) ==
  LET l == Jumps(b, left[1], b.cur)
      both == Merge(b, <<left, right>>, <<>>, FALSE)
      r == right[1] = pre.cur \/ Jumps(b, right[1], b.cur)
  IN CASE l /\ r -> [both.b EXCEPT !.vars = both.vars @@ b.vars]
       [] l /\ ~r -> [b EXCEPT !.vars = left[2]]
       [] ~l /\ r -> [b EXCEPT !.vars = right[2]]
       [] OTHER -> [b EXCEPT !.vars = b.vars]

BuildIf(b, st) ==
  LET c == BuildExpr(b, st.c)
      hasElse == st.else # <<>>
      then == Len(c.blocks) + 1
      merge == IF hasElse THEN then + 2 ELSE then + 1
      s == End(FreshBlocks(c, merge - then + 1), Branch(c.val, then, then + 1))
      t == InScope(At(s, then), st.then)
      t1 == EndIfOpen(t, Jump(merge))
      e == InScope([At(t1, then + 1) EXCEPT !.vars = c.vars, !.vtypes = c.vtypes], st.else)
      last == IF hasElse THEN EndIfOpen(e, Jump(merge)) ELSE t1
      right == IF hasElse THEN <<e.cur, e.vars>> ELSE <<c.cur, c.vars>>
      j == JoinPaths(At(ToEnd(last, <<merge>>), merge), <<t.cur, t.vars>>, right, c)
  IN [j EXCEPT !.vars = Only(@, DOMAIN c.vars)]
\* ---- loops
LabelExit(b, exit) ==
  IF b.pend = "" THEN b ELSE [b EXCEPT !.lexits = b.pend :> exit @@ @, !.pend = ""]

\* A phi in the current block for every variable whose type allows it, entered
\* from block l; its second operand comes with the back edge.
LoopPhis(b, l) ==
  LET names == SelectSeq(SetToSeq(DOMAIN b.vars), LAMBDA n : ~NoPhi(TypeOfVar(b, n)))
      Phi(s, n) == LET p == EmitPhi(s, TypeOfVar(b, n), <<<<b.vars[n], l>>>>)
                   IN [SetVar(p, n, p.val) EXCEPT !.phis = n :> p.val @@ @]
  IN FoldLeft(Phi, [b EXCEPT !.phis = <<>>], names)

\* The back edge from the current block.
PatchPhis(b, header, phis) ==
  LET Patch(instr) ==
        IF instr.k = "phi" /\ \E n \in DOMAIN phis : phis[n] = instr.r
        THEN LET n == CHOOSE n \in DOMAIN phis : phis[n] = instr.r
                 v == IF n \in DOMAIN b.vars THEN b.vars[n] ELSE instr.r
             IN [instr EXCEPT !.args = Append(@, v), !.from = Append(@, b.cur)]
        ELSE instr
  IN [b EXCEPT !.blocks[header].ins = [j \in DOMAIN @ |-> Patch(@[j])]]

\* The body of a loop, and the edges that leave it: to the latch (from its
\* end and from each continue) and to the exit (from each break).
LoopBody(b, exit, latch, body) ==
  LET s == InScope([b EXCEPT !.lexit = exit, !.lcont = latch, !.csnap = <<>>, !.bsnap = <<>>], body)
  IN [b |-> [EndIfOpen(s, Jump(latch)) EXCEPT !.lexit = b.lexit, !.lcont = b.lcont,
                                              !.csnap = b.csnap, !.bsnap = b.bsnap],
      latch |-> (IF Open(s) THEN <<<<s.cur, s.vars>>>> ELSE <<>>) \o s.csnap,
      exit |-> s.bsnap]

JoinLatch(b, inc, phis) ==
  LET m == Merge(b, inc, phis, FALSE)
  IN CASE Len(inc) > 1 -> [m.b EXCEPT !.vars = m.vars]
       [] Len(inc) = 1 -> [b EXCEPT !.vars = inc[1][2]]
       [] OTHER -> b

\* The exit: the edge on which the condition fails, and the breaks.
JoinExit(b, l, vars, breaks, visible) ==
  LET m == Merge(b, <<<<l, vars>>>> \o breaks, vars, TRUE)
      s == IF breaks = <<>> THEN [b EXCEPT !.vars = vars @@ @] ELSE [m.b EXCEPT !.vars = m.vars @@ b.vars]
  IN [s EXCEPT !.vars = Only(@, visible)]

BuildWhile(b, st) ==
  LET header == Len(b.blocks) + 1
      body == header + 1
      latch == header + 2
      exit == header + 3
      h == LoopPhis(At(End(LabelExit(FreshBlocks(b, 4), exit), Jump(header)), header), b.cur)
      c == BuildExpr(h, st.c)
      l == LoopBody(At(End(c, Branch(c.val, body, exit)), body), exit, latch, st.body)
      j == JoinLatch(At(ToEnd(l.b, <<latch, exit>>), latch), l.latch, h.phis)
      p == PatchPhis(End(j, Jump(header)), header, h.phis)
  IN JoinExit(At(p, exit), header, h.phis, l.exit, DOMAIN b.vars)

\* As if the back edge of a do loop carried what the body was entered with.
DoWhileUnpatched(b, st) ==
  LET body == Len(b.blocks) + 1
      latch == body + 1
      exit == body + 2
      h == LoopPhis(At(End(LabelExit(FreshBlocks(b, 3), exit), Jump(body)), body), b.cur)
      l == LoopBody(h, exit, latch, st.body)
      j == JoinLatch(At(ToEnd(l.b, <<latch, exit>>), latch), l.latch, h.phis)
      c == BuildExpr(j, st.c)
      p == PatchPhis([At(End(c, Branch(c.val, body, exit)), latch) EXCEPT !.vars = h.phis @@ @], body, h.phis)
  IN JoinExit(At(p, exit), latch, c.vars, l.exit, DOMAIN b.vars)

\* The condition is tested in the latch, after the join.
BuildDoWhile(b, st) ==
  LET body == Len(b.blocks) + 1
      latch == body + 1
      exit == body + 2
      h == LoopPhis(At(End(LabelExit(FreshBlocks(b, 3), exit), Jump(body)), body), b.cur)
      l == LoopBody(h, exit, latch, st.body)
      j == JoinLatch(At(ToEnd(l.b, <<latch, exit>>), latch), l.latch, h.phis)
      c == BuildExpr(j, st.c)
      p == PatchPhis(At(End(c, Branch(c.val, body, exit)), latch), body, h.phis)
  IN JoinExit(At(p, exit), latch, c.vars, l.exit, DOMAIN b.vars)

\* The update runs in the latch; what the initialiser hid comes back at the end.
CloseFor(l, st, h, header, visible, hidden) ==
  LET update == header + 2
      exit == header + 3
      j == JoinLatch(At(ToEnd(l.b, <<update, exit>>), update), l.latch, h.phis)
      u == IF st.u.k = "none" THEN j ELSE BuildExpr(j, st.u)
      p == PatchPhis(End(u, Jump(header)), header, h.phis)
      x == JoinExit(At(p, exit), header, h.phis, l.exit, visible)
  IN [x EXCEPT !.vars = [n \in DOMAIN hidden |-> hidden[n][1]] @@ @,
               !.vtypes = [n \in DOMAIN hidden |-> hidden[n][2]] @@ @]

BuildFor(b, st) ==
  LET init == CASE st.i.k = "none" -> [b EXCEPT !.redecl = <<>>]
                [] st.i.k \in {"var", "expr"} -> BuildStmt([b EXCEPT !.redecl = <<>>], st.i)
      b1 == [init EXCEPT !.redecl = b.redecl]
      header == Len(b1.blocks) + 1
      body == header + 1
      update == header + 2
      exit == header + 3
      h == LoopPhis(At(End(LabelExit(FreshBlocks(b1, 4), exit), Jump(header)), header), b1.cur)
      c == IF st.c.k = "none" THEN EmitConst(h, TRUE, BOOL) ELSE BuildExpr(h, st.c)
      l == LoopBody(At(End(c, Branch(c.val, body, exit)), body), exit, update, st.body)
  IN CloseFor(l, st, h, header, DOMAIN b1.vars, init.redecl)

\* The index is a variable of one fixed name, kept out of the exit but not out
\* of the variables; latch and exit stay where they were created.
ForOfIndex == "__forof_idx"
CloseForOf(l, h, header, visible) ==
  LET latch == header + 2
      j == JoinLatch(At(l.b, latch), l.latch, h.phis)
      one == EmitConst(j, 1, NUMBER)
      inc == Emit(one, "bin", "+", NUMBER, <<j.vars[ForOfIndex], one.val>>)
      p == PatchPhis(End(SetVar(inc, ForOfIndex, inc.val), Jump(header)), header, h.phis)
      NoIndex(vars) == Restrict(vars, DOMAIN vars \ {ForOfIndex})
      breaks == [k \in DOMAIN l.exit |-> <<l.exit[k][1], NoIndex(l.exit[k][2])>>]
  IN JoinExit(At(p, header + 3), header, NoIndex(h.phis), breaks, visible)

BuildForOf(b, st) ==
  LET arr == BuildExpr(b, st.e)
      at == GetType(b, st.e)
      len == IF at = STR THEN Emit(arr, "call", "__tsuchi_strlen", NUMBER, <<arr.val>>)
             ELSE Emit(arr, "arrlen", "", NUMBER, <<arr.val>>)
      idx == EmitConst(len, 0, NUMBER)
      header == Len(idx.blocks) + 1
      body == header + 1
      latch == header + 2
      exit == header + 3
      s == SetVar(End(LabelExit(FreshBlocks(idx, 4), exit), Jump(header)), ForOfIndex, idx.val)
      h == LoopPhis(At(s, header), idx.cur)
      c == Emit(h, "cmp", "<", NUMBER, <<h.vars[ForOfIndex], len.val>>)
      c1 == At(End(c, Branch(c.val, body, exit)), body)
      elem == IF at = STR THEN Emit(c1, "call", "__tsuchi_str_charAt", STR, <<arr.val, h.vars[ForOfIndex]>>)
              ELSE Emit(c1, "arrget", "", at[2], <<arr.val, h.vars[ForOfIndex]>>)
      bound == [SetVar(elem, st.n, elem.val)
                  EXCEPT !.vtypes = st.n :> (IF at = STR THEN STR ELSE at[2]) @@ @]
      l == LoopBody(bound, exit, latch, st.body)
  IN CloseForOf(l, h, header, DOMAIN b.vars \cup {st.n})

\* ---- switch: a chain of tests, then the bodies, each falling through to the
\* next unless it leaves.  Case c has body block Body[c] and, unless it is the
\* default, test block Test[c].
BuildTests(b, cases, Body, Test, disc, dtype, none, pre) ==
  LET tested == SelectSeq([j \in DOMAIN cases |-> j], LAMBDA j : cases[j].d.k # "none")
      Step(s, j) ==
        LET t == BuildExpr([At(s, Test[j]) EXCEPT !.vars = pre], cases[j].d)
            c == Emit(t, "cmp", "===", dtype, <<disc, t.val>>)
            rest == SelectSeq(tested, LAMBDA k : k > j)
        IN End(c, Branch(c.val, Body[j], IF rest = <<>> THEN none ELSE Test[rest[1]]))
  IN FoldLeft(Step, End(b, Jump(IF tested = <<>> THEN none ELSE Test[tested[1]])), tested)

\* The body of case j, entered from its tests and, if the previous case fell
\* through, from there (a.ft).  The edges to the exit are collected in a.out.
TestsTo(b, Tests, l) ==
  SelectSeq(Tests, LAMBDA t : b.blocks[t].term[1] = "branch" /\ l \in {b.blocks[t].term[3], b.blocks[t].term[4]})
BuildCase(a, j, cases, Body, Tests, exit, pre) ==
  LET in == At(a.b, Body[j])
      preds == TestsTo(in, Tests, Body[j])
      inc == a.ft \o [k \in DOMAIN preds |-> <<preds[k], pre>>]
      m == Merge(in, inc, <<>>, FALSE)
      s == IF a.ft = <<>> THEN [in EXCEPT !.vars = pre] ELSE [m.b EXCEPT !.vars = m.vars @@ pre]
      e == BuildBlock(s, cases[j].body)
      next == IF j < Len(cases) THEN Body[j + 1] ELSE exit
      end == EndIfOpen(e, Jump(next))
      here == <<<<e.cur, e.vars>>>>
  IN [b |-> end,
      ft |-> IF Open(e) /\ j < Len(cases) THEN here ELSE <<>>,
      out |-> IF Jumps(end, e.cur, exit) THEN a.out \o here ELSE a.out]

\* The exit: the bodies that leave or fall out at the end and, without a
\* default, the tests that fail last.
JoinSwitch(c, out, Tests, exit, default, pre) ==
  LET misses == IF default = 0 THEN TestsTo(c, Tests, exit) ELSE <<>>
      inc == out \o [k \in DOMAIN misses |-> <<misses[k], pre>>]
      m == Merge(At(c, exit), inc, pre, FALSE)
      end == IF inc = <<>> THEN [At(c, exit) EXCEPT !.vars = pre] ELSE [m.b EXCEPT !.vars = m.vars @@ c.vars]
  IN ToEnd(end, <<exit>>)

BuildSwitch(b, st) ==
  LET exit == Len(b.blocks) + 1
      n == Len(st.cases)
      d == BuildExpr(ToEnd(FreshBlocks(b, 1), <<>>), st.d)
      first == Len(d.blocks)
      HasTest(j) == st.cases[j].d.k # "none"
      Before(j) == j - 1 + Cardinality({k \in 1..(j - 1) : HasTest(k)})
      Body == [j \in 1..n |-> first + Before(j) + 1]
      Test == [j \in {k \in 1..n : HasTest(k)} |-> Body[j] + 1]
      Tests == [k \in 1..Cardinality(DOMAIN Test) |-> Test[SetToSortSeq(DOMAIN Test, <)[k]]]
      default == SelectInSeq(st.cases, LAMBDA c : c.d.k = "none")
      none == IF default = 0 THEN exit ELSE Body[default]
      blocks == [FreshBlocks(d, n + Len(Tests)) EXCEPT !.lexit = exit]
      t == BuildTests(blocks, st.cases, Body, Test, d.val, GetType(b, st.d), none, d.vars)
      c == FoldLeft(LAMBDA a, j : BuildCase(a, j, st.cases, Body, Tests, exit, d.vars),
                    [b |-> t, ft |-> <<>>, out |-> <<>>], [j \in 1..n |-> j])
  IN [JoinSwitch(c.b, c.out, Tests, exit, default, d.vars) EXCEPT !.lexit = b.lexit]

\* ---- try: the handler is pushed by the "try" instruction and popped by a call
\* at the end of the body, which is emitted even behind a return
BuildTry(b, st) ==
  LET hasCatch == st.handler # <<>>
      hasFinal == st.final # <<>>
      try == Len(b.blocks) + 1
      catch == IF hasCatch THEN try + 1 ELSE 0
      final == IF hasFinal THEN try + (IF hasCatch THEN 2 ELSE 1) ELSE 0
      merge == try + Cardinality({x \in {1, 2} : IF x = 1 THEN hasCatch ELSE hasFinal}) + 1
      after == IF hasFinal THEN final ELSE merge
      param == IF st.n = "" THEN 0 ELSE b.nssa + 1
      s == [FreshBlocks(b, merge - try + 1) EXCEPT !.nssa = IF st.n = "" THEN @ ELSE @ + 1]
      p == End(Put(s, Instr("try", "", 0, VOID, <<>>) @@
                      [try |-> try, catch |-> catch, param |-> param, final |-> final, merge |-> merge]),
               Jump(try))
      t == Emit(BuildBlock(At(p, try), st.body), "call", "__tsuchi_try_pop", VOID, <<>>)
      t1 == EndIfOpen(t, Jump(after))
      in == [At(t1, catch) EXCEPT !.vars = IF st.n = "" THEN b.vars ELSE st.n :> param @@ b.vars]
      c == IF hasCatch THEN BuildBlock(in, st.handler) ELSE t1
      c1 == IF hasCatch THEN EndIfOpen(c, Jump(after)) ELSE t1
      f == IF hasFinal THEN BuildBlock([At(c1, final) EXCEPT !.vars = t.vars], st.final) ELSE c1
      m == At(ToEnd(IF hasFinal THEN EndIfOpen(f, Jump(merge)) ELSE f, <<merge>>), merge)
      tr == Jumps(m, t.cur, merge)
      cr == hasCatch /\ Jumps(m, c.cur, merge)
      both == Merge(m, <<<<t.cur, t.vars>>, <<c.cur, c.vars>>>>, <<>>, FALSE)
  IN CASE hasFinal -> [m EXCEPT !.vars = f.vars]
       [] ~hasFinal /\ tr /\ cr -> [both.b EXCEPT !.vars = both.vars]
       [] ~hasFinal /\ tr /\ ~cr -> [m EXCEPT !.vars = t.vars]
       [] ~hasFinal /\ ~tr /\ cr -> [m EXCEPT !.vars = c.vars]
       [] OTHER -> [m EXCEPT !.vars = b.vars]

\* Nothing is built behind a terminator.
BuildStmt(b, st) ==
  CASE ~Open(b) -> b
    [] Open(b) /\ st.k = "var" -> BuildVar(b, st)
    [] Open(b) /\ st.k = "ret" -> BuildReturn(b, st)
    [] Open(b) /\ st.k = "if" -> BuildIf(b, st)
    [] Open(b) /\ st.k = "while" -> BuildWhile(b, st)
    [] Open(b) /\ st.k = "do" -> BuildDoWhile(b, st)
    [] Open(b) /\ st.k = "for" -> BuildFor(b, st)
    [] Open(b) /\ st.k = "forof" -> BuildForOf(b, st)
    [] Open(b) /\ st.k = "switch" -> BuildSwitch(b, st)
    [] Open(b) /\ st.k \in {"break", "continue"} -> Leave(b, st)
    [] Open(b) /\ st.k = "label" -> BuildLabeled(b, st)
    [] Open(b) /\ st.k = "expr" -> BuildExpr(b, st.e)
    [] Open(b) /\ st.k = "throw" -> BuildThrow(b, st)
    [] Open(b) /\ st.k = "try" -> BuildTry(b, st)
BuildBlock(b, body) == FoldLeft(BuildStmt, b, body)

\* ---- functions and modules
\* Captures are read from the environment first, then come the parameters; a
\* body that may run off its end gets the default value of its return type.
BuildFunction(m, tf) ==
  LET b0 == [blocks |-> <<[ins |-> <<>>, term |-> NoTerm]>>, order |-> <<1>>, cur |-> 1, nssa |-> 0,
             vars |-> <<>>, vtypes |-> <<>>, redecl |-> <<>>, lexit |-> 0, lcont |-> 0, lexits |-> <<>>,
             pend |-> "", csnap |-> <<>>, bsnap |-> <<>>, caps |-> tf.caps, types |-> tf.types, m |-> m,
             phis |-> <<>>, val |-> 0, fn |-> tf.n]
      Bind(b, n, k, x, t) ==
        LET s == Emit(b, k, x, t, <<>>) IN [SetVar(s, n, s.val) EXCEPT !.vtypes = n :> t @@ @]
      caps == FoldLeft(LAMBDA b, n : Bind(b, n, "loadcap", n, tf.caps[n]), b0, SetToSeq(DOMAIN tf.caps))
      params == FoldLeftDomain(LAMBDA b, j : Bind(b, tf.params[j], "param", ToString(j), tf.ptypes[j]),
                               caps, tf.params)
      body == BuildBlock(params, tf.body)
      dt == IF tf.ret \in {STR, BOOL} THEN tf.ret ELSE NUMBER
      dflt == IF tf.ret = VOID THEN [body EXCEPT !.val = 0] ELSE EmitConst(body, DefaultOf(dt), dt)
      end == IF Open(body) THEN End(dflt, Return(dflt.val, tf.ret)) ELSE body
  IN [n |-> tf.n, ptypes |-> tf.ptypes, ret |-> tf.ret, async |-> tf.async, captures |-> tf.caps,
      lifted |-> tf.n \in DOMAIN m.caps,
      nssa |-> end.nssa, blocks |-> end.blocks, order |-> end.order]

\* Functions that are not compilable keep their source for the engine, and what
\* a bridge to them needs; a global that starts as a number literal is
\* initialised natively.
BuildModule(i, p) ==
  LET m == [sigs |-> [n \in {i.typed[j].n : j \in DOMAIN i.typed} |->
                        LET tf == Named(i.typed, n) IN FnType(tf.ptypes, tf.ret)],
            globals |-> [n \in {p.globals[j].n : j \in DOMAIN p.globals} |-> i.env[n]],
            rewrites |-> i.rewrites,
            async |-> {i.typed[j].n : j \in {k \in DOMAIN i.typed : i.typed[k].async}},
            caps |-> [n \in {i.lifted[j].n : j \in DOMAIN i.lifted} |-> Named(i.typed, n).caps]]
      native == SelectSeq(i.typed, LAMBDA tf : tf.compilable)
      engine == SelectSeq(i.typed, LAMBDA tf : ~tf.compilable)
      Hint(t) == IF t \in {BOOL, STR, VOID} THEN t ELSE NUMBER
  IN [funcs |-> [j \in DOMAIN native |-> BuildFunction(m, native[j])],
      fallback |-> [j \in DOMAIN engine |-> [n |-> engine[j].n, arity |-> Len(engine[j].params),
                                             ret |-> Hint(engine[j].ret)]],
      globals |-> m.globals,
      inits |-> SelectSeq(p.globals, LAMBDA g : g.e.k = "num"),
      jsInits |-> SelectSeq(p.globals, LAMBDA g : g.e.k # "num")]
=============================================================================
