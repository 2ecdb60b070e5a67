----------------------------- MODULE AotGenerate -----------------------------
(***************************************************************************)
(* The LLVM generator (codegen/llvm_generator.py) as far as it decides     *)
(* whether a function can be compiled and what its instructions become:    *)
(* the machine type of every SSA value, the values replaced by a constant  *)
(* because what they need has not been generated yet, the concatenations   *)
(* that may build on their left operand's buffer; and the checks LLVM      *)
(* makes of the module (backend_base.py, _compile_ir_to_object).           *)
(*                                                                         *)
(* The state g: vt the machine type of each value generated so far, arr    *)
(* the arrays whose element type is known, zero the values that became a   *)
(* constant 0, dropped the stores nothing was generated for, ok whether    *)
(* everything so far was well typed.                                       *)
(***************************************************************************)
EXTENDS AotOptimize

\* _llvm_type: strings and arrays are both plain pointers.
Llvm(t) ==
  CASE t = BOOL -> "i1"
    [] t = STR \/ t[1] = "array" -> "i8p"
    [] t = VOID -> "void"
    [] t[1] = "fn" -> "pair"
    [] t = OBJECT -> "objp"
    [] OTHER -> "f64"

\* _cast_to succeeds between numbers and booleans only.
Castable(have, want) == have = want \/ (want = "f64" /\ have = "i1") \/ (want = "i1" /\ have = "f64")
F64able(v) == v \in {"f64", "i1"}

\* ---- which left operands tsuchi_str_concat_owned may build on: phis and
\* values used once, phis not counting as uses
PhiResults(f) == {x.r : x \in {y \in UNION {ToSet(f.blocks[l].ins) : l \in ToSet(f.order)} : y.k = "phi"}}
UsesOf(f, r) ==
  LET In(s) == Cardinality({j \in DOMAIN s : s[j] = r})
      Terms(l) == LET t == f.blocks[l].term IN IF t[1] \in {"branch", "return"} /\ t[2] = r THEN 1 ELSE 0
      Instrs(l) == FoldLeft(LAMBDA n, x : IF x.k \in {"phi", "await", "storeglobal", "try"} THEN n
                                          ELSE n + In(x.args), 0, f.blocks[l].ins)
  IN FoldLeft(LAMBDA n, l : n + Instrs(l) + Terms(l), 0, f.order)
OwnedCandidates(f) == PhiResults(f) \cup {r \in 1..f.nssa : UsesOf(f, r) = 1}

\* ---- the instructions
Value(g, r, ty) == [g EXCEPT !.vt = r :> ty @@ @]
Zero(g, r, ty) == [Value(g, r, ty) EXCEPT !.zero = @ \cup {r}]
Check(g, p) == [g EXCEPT !.ok = @ /\ p]
Drop(g, x) == [g EXCEPT !.dropped = @ \cup {x}]
\* _default_value, for what cannot be generated.
Default(g, x) == Zero(g, x.r, IF x.t = VOID THEN "f64" ELSE Llvm(x.t))
Tracked(g, r, t) == IF t[1] = "array" THEN [g EXCEPT !.arr = r :> t[2] @@ @] ELSE g
ElemOf(g, a) == IF a \in DOMAIN g.arr THEN g.arr[a] ELSE NUMBER
Known(g, x) == ToSet(x.args) \subseteq DOMAIN g.vt
Ty(g, x, j) == g.vt[x.args[j]]

GenBinary(g, x) ==
  CASE ~Known(g, x) -> Zero(g, x.r, "f64")
    [] Known(g, x) /\ x.t = NUMBER ->
         Value(Check(g, F64able(Ty(g, x, 1)) /\ F64able(Ty(g, x, 2))), x.r, "f64")
    [] Known(g, x) /\ x.t = STR /\ x.x = "+" ->
         Value(Check(g, Ty(g, x, 1) = "i8p" /\ Ty(g, x, 2) = "i8p"), x.r, "i8p")
    [] OTHER -> Zero(g, x.r, "f64")

GenUnary(g, x) ==
  CASE ~Known(g, x) -> Zero(g, x.r, "f64")
    [] Known(g, x) /\ x.x = "!" -> Value(Check(g, Ty(g, x, 1) # "pair"), x.r, "i1")
    [] OTHER -> Value(Check(g, F64able(Ty(g, x, 1))), x.r, "f64")

GenCompare(g, x) ==
  IF ~Known(g, x) THEN Zero(g, x.r, "i1")
  ELSE LET Fits(ty) == IF x.t = STR THEN ty = "i8p" ELSE F64able(ty)
       IN Value(Check(g, Fits(Ty(g, x, 1)) /\ Fits(Ty(g, x, 2))), x.r, "i1")

\* The runtime's functions on strings and numbers: what they take and give.
\* A number may be given as a boolean, a pointer only as a pointer; what is
\* missing becomes an infinity or a null pointer.
Sig(args, ret) == [args |-> args, ret |-> ret]
StringSig(args, ret) == Sig(<<"i8p">> \o args, ret)
StringSigs ==
  [indexOf |-> StringSig(<<"i8p">>, "f64"), lastIndexOf |-> StringSig(<<"i8p">>, "f64"),
   includes |-> StringSig(<<"i8p">>, "i1"), startsWith |-> StringSig(<<"i8p">>, "i1"),
   endsWith |-> StringSig(<<"i8p">>, "i1"), slice |-> StringSig(<<"f64", "f64">>, "i8p"),
   substring |-> StringSig(<<"f64", "f64">>, "i8p"), charAt |-> StringSig(<<"f64">>, "i8p"),
   at |-> StringSig(<<"f64">>, "i8p"), repeat |-> StringSig(<<"f64">>, "i8p"),
   charCodeAt |-> StringSig(<<"f64">>, "f64"), toUpperCase |-> StringSig(<<>>, "i8p"),
   toLowerCase |-> StringSig(<<>>, "i8p"), trim |-> StringSig(<<>>, "i8p"),
   trimStart |-> StringSig(<<>>, "i8p"), trimEnd |-> StringSig(<<>>, "i8p"),
   replace |-> StringSig(<<"i8p", "i8p">>, "i8p"), replaceAll |-> StringSig(<<"i8p", "i8p">>, "i8p"),
   padStart |-> StringSig(<<"f64", "i8p">>, "i8p"), padEnd |-> StringSig(<<"f64", "i8p">>, "i8p"),
   split |-> StringSig(<<"i8p">>, "i8p")]
NumberSigs == [toString |-> Sig(<<"f64">>, "i8p"), toFixed |-> Sig(<<"f64", "f64">>, "i8p")]
RuntimeSigs ==
  LET Prefixed(pre, sigs) ==
        [n \in {pre \o m : m \in DOMAIN sigs} |-> sigs[CHOOSE m \in DOMAIN sigs : pre \o m = n]]
  IN Prefixed("__tsuchi_str_", StringSigs) @@ Prefixed("__tsuchi_num_", NumberSigs)
GenRuntime(g, x) ==
  LET sig == RuntimeSigs[x.x]
      Given(j) == \/ x.args[j] \notin DOMAIN g.vt
                  \/ IF sig.args[j] = "f64" THEN F64able(Ty(g, x, j)) ELSE Ty(g, x, j) = sig.args[j]
  IN Tracked(Value(Check(g, Len(x.args) <= Len(sig.args) /\ \A j \in DOMAIN x.args : Given(j)), x.r, sig.ret),
             x.r, x.t)

\* ---- JavaScript's own functions
\* C's mathematical functions take doubles, as many as they are declared with.
MathFuncs ==
  LET With(n, ms) == [m \in {"__tsuchi_Math_" \o x : x \in ms} |-> n]
  IN With(1, {"floor", "ceil", "abs", "sqrt", "round", "trunc", "log", "exp", "sin", "cos", "tan", "log2", "log10",
              "clz32", "sign"}) @@ With(2, {"min", "max", "pow", "hypot"})
GenMath(g, x) ==
  Value(Check(g, /\ Len(x.args) = MathFuncs[x.x]
                 /\ \A r \in ToSet(x.args) \cap DOMAIN g.vt : F64able(g.vt[r])), x.r, "f64")
\* The others look at the machine type of their argument: a number, a boolean or
\* a pointer, which is taken for a string.
NumberTests == {"__tsuchi_Number_isInteger", "__tsuchi_Number_isFinite", "__tsuchi_Number_isNaN", "__tsuchi_isNaN"}
Parsers == {"__tsuchi_Number_parseInt", "__tsuchi_Number_parseFloat", "__tsuchi_parseInt", "__tsuchi_parseFloat"}
Conversions == {"__tsuchi_Number", "__tsuchi_String", "__tsuchi_Boolean", "__tsuchi_json_stringify"}
OneWord == NumberTests \cup Parsers \cup Conversions
           \cup {"__tsuchi_String_fromCharCode", "__tsuchi_json_parse_str", "tsuchi_str_to_char_array"}
GenTest(g, x) == Value(Check(g, F64able(Ty(g, x, 1))), x.r, "i1")
GenParser(g, x) == Value(Check(g, Ty(g, x, 1) = "i8p"), x.r, "f64")
GenNumber(g, x) == Value(Check(g, Ty(g, x, 1) \in {"f64", "i1", "i8p"}), x.r, "f64")
GenString(g, x) == Value(g, x.r, IF F64able(Ty(g, x, 1)) THEN "i8p" ELSE Ty(g, x, 1))
GenBoolean(g, x) == Value(g, x.r, "i1")
GenFromCharCode(g, x) == Value(Check(g, F64able(Ty(g, x, 1))), x.r, "i8p")
GenStringify(g, x) == IF Ty(g, x, 1) \in {"f64", "i1", "i8p"} THEN Value(g, x.r, "i8p") ELSE Default(g, x)
GenParse(g, x) == Value(Check(g, Ty(g, x, 1) = "i8p"), x.r, "i8p")
GenCharArray(g, x) == Tracked(GenParse(g, x), x.r, x.t)
GenOneWord(g, x) ==
  CASE ~Known(g, x) -> Default(g, x)
    [] Known(g, x) /\ x.x \in NumberTests -> GenTest(g, x)
    [] Known(g, x) /\ x.x \in Parsers -> GenParser(g, x)
    [] Known(g, x) /\ x.x = "__tsuchi_Number" -> GenNumber(g, x)
    [] Known(g, x) /\ x.x = "__tsuchi_String" -> GenString(g, x)
    [] Known(g, x) /\ x.x = "__tsuchi_Boolean" -> GenBoolean(g, x)
    [] Known(g, x) /\ x.x = "__tsuchi_String_fromCharCode" -> GenFromCharCode(g, x)
    [] Known(g, x) /\ x.x = "__tsuchi_json_stringify" -> GenStringify(g, x)
    [] Known(g, x) /\ x.x = "__tsuchi_json_parse_str" -> GenParse(g, x)
    [] Known(g, x) /\ x.x = "tsuchi_str_to_char_array" -> GenCharArray(g, x)

\* The calls on arrays; a value put into one becomes a double.
ArrayCalls == {"tsuchi_array_" \o m : m \in {"pop", "shift", "unshift", "at", "indexOf", "lastIndexOf", "includes",
                                             "slice", "splice", "concat", "join", "reverse", "fill"}}
GenArrayCall(g, x) ==
  LET Doubles(js) == Check(g, \A j \in js \cap DOMAIN x.args : F64able(Ty(g, x, j)))
  IN CASE x.x \in {"tsuchi_array_slice", "tsuchi_array_splice"} ->
            Tracked(Value(Doubles({2, 3}), x.r, "i8p"), x.r, x.t)
       [] x.x = "tsuchi_array_concat" -> Tracked(Value(Check(g, Ty(g, x, 2) = "i8p"), x.r, "i8p"), x.r, x.t)
       [] x.x = "tsuchi_array_join" -> Value(Check(g, Ty(g, x, 2) = "i8p"), x.r, "i8p")
       [] x.x \in {"tsuchi_array_reverse", "tsuchi_array_fill"} -> Zero(Doubles({2}), x.r, "f64")
       [] x.x = "tsuchi_array_includes" -> Value(Doubles({2}), x.r, "i1")
       [] OTHER -> Value(Doubles({2}), x.r, "f64")

\* A call: the runtime's functions, a native function, the bridge to a function
\* only the engine has, whose parameters are numbers; anything else is 0.
ArgsFit(g, x, wants) ==
  \A j \in DOMAIN x.args :
    Castable(IF x.args[j] \in DOMAIN g.vt THEN Ty(g, x, j) ELSE "f64", IF j \in DOMAIN wants THEN wants[j] ELSE "f64")
GenCall(g, m, x) ==
  LET native == {j \in DOMAIN m.funcs : m.funcs[j].n = x.x /\ ~m.funcs[j].async}
      bridge == {j \in DOMAIN m.fallback : m.fallback[j].n = x.x}
      f == m.funcs[CHOOSE j \in native : TRUE]
      b == m.fallback[CHOOSE j \in bridge : TRUE]
  IN CASE x.x \in {"__tsuchi_throw", "__tsuchi_try_pop"} -> Zero(g, x.r, "f64")
       [] x.x = "__tsuchi_num_to_str" /\ Known(g, x) -> Value(Check(g, F64able(Ty(g, x, 1))), x.r, "i8p")
       [] x.x = "__tsuchi_bool_to_str" -> Value(g, x.r, "i8p")
       [] x.x = "__tsuchi_strlen" /\ Known(g, x) -> Value(Check(g, Ty(g, x, 1) = "i8p"), x.r, "f64")
       [] x.x \in DOMAIN RuntimeSigs -> GenRuntime(g, x)
       [] x.x \in DOMAIN MathFuncs -> GenMath(g, x)
       [] x.x \in OneWord -> GenOneWord(g, x)
       [] x.x \in ArrayCalls -> IF Known(g, x) THEN GenArrayCall(g, x) ELSE Default(g, x)
       [] native # {} ->
            Tracked(Value(Check(g, ArgsFit(g, x, [j \in DOMAIN f.ptypes |-> Llvm(f.ptypes[j])])),
                          x.r, Llvm(f.ret)), x.r, x.t)
       [] bridge # {} -> Value(Check(g, ArgsFit(g, x, <<>>) /\ Len(x.args) = b.arity), x.r, Llvm(b.ret))
       [] OTHER -> Zero(g, x.r, "f64")

\* An element in a register: a text, or the double that anything else is kept
\* as, an element of an array whose type is not known among them.
ElemTy(g, r) == IF ElemOf(g, r) = STR THEN "i8p" ELSE "f64"

\* Array accesses.
GenArray(g, x) ==
  LET elem == ElemTy(g, x.args[1])
      Fits(ty) == IF elem = "i8p" THEN ty = "i8p" ELSE F64able(ty)
      usable == Known(g, x) /\ Ty(g, x, 1) = "i8p"
  IN CASE x.k = "alloc" ->
            Tracked(Value(Check(g, \A j \in DOMAIN x.args :
                                     IF x.t[2] = STR THEN Ty(g, x, j) = "i8p" ELSE F64able(Ty(g, x, j))),
                          x.r, "i8p"), x.r, x.t)
       [] x.k = "arrget" -> IF usable THEN Value(g, x.r, elem) ELSE Zero(g, x.r, "f64")
       [] x.k = "arrset" -> IF usable THEN Check(g, Fits(Ty(g, x, 3))) ELSE Drop(g, x)
       [] x.k = "push" -> IF usable THEN Value(Check(g, Fits(Ty(g, x, 2))), x.r, "f64") ELSE Zero(g, x.r, "f64")
       [] x.k = "arrlen" -> IF usable THEN Value(g, x.r, "f64") ELSE Zero(g, x.r, "f64")

\* The loops around a callback: what it is given and what it gives must fit
\* the function type it was inferred to have.
Accumulates(x) == x.x \in {"reduce", "reduceRight"}
CallbackFits(g, x, ct) ==
  LET elem == ElemTy(g, x.args[1])
      at == IF Accumulates(x) THEN 2 ELSE 1
  IN /\ Len(ct[2]) >= at => Llvm(ct[2][at]) = elem
     /\ Accumulates(x) => Ty(g, x, 3) = "f64" /\ Llvm(ct[2][1]) = "f64" /\ F64able(Llvm(ct[3]))
     /\ x.x \in {"filter", "find", "findIndex", "some", "every"} => Llvm(ct[3]) = "i1"
     /\ x.x = "map" => IF x.t[2] = STR THEN Llvm(ct[3]) = "i8p" ELSE F64able(Llvm(ct[3]))
     /\ x.x = "sort" => elem = "f64" /\ (Len(ct[2]) >= 2 => Llvm(ct[2][2]) = elem) /\ F64able(Llvm(ct[3]))
GenHof(g, x, ct) ==
  LET fit == Check(g, CallbackFits(g, x, ct))
      elem == Llvm(ElemOf(g, x.args[1]))
  IN CASE x.x = "forEach" -> fit
       [] x.x \in {"map", "filter", "sort"} -> Tracked(Value(fit, x.r, "i8p"), x.r, x.t)
       [] x.x = "find" -> Value(Check(fit, elem = "f64"), x.r, "f64")
       [] x.x = "findIndex" \/ Accumulates(x) -> Value(fit, x.r, "f64")
       [] x.x \in {"some", "every"} -> Value(fit, x.r, "i1")

\* What a closure captures is stored in a struct of the captures' types.
GenClosure(g, m, x) ==
  LET made == {j \in DOMAIN m.funcs : m.funcs[j].n = x.x}
      caps == m.funcs[CHOOSE j \in made : TRUE].captures
      Fits(j) == x.args[j] \in DOMAIN g.vt => Castable(Ty(g, x, j), Llvm(caps[x.names[j]]))
  IN IF made = {} THEN Zero(g, x.r, "pair")
     ELSE Value(Check(g, \A j \in DOMAIN x.args : Fits(j)), x.r, "pair")

GenInstr(g, m, x) ==
  CASE x.k = "const" -> Value(g, x.r, IF Llvm(x.t) \in {"f64", "i1", "i8p"} THEN Llvm(x.t) ELSE "f64")
    [] x.k = "param" -> Tracked(Value(g, x.r, Llvm(x.t)), x.r, x.t)
    [] x.k \in {"phi", "loadcap"} -> Value(g, x.r, Llvm(x.t))
    [] x.k = "loadglobal" -> Value(g, x.r, IF x.t = STR THEN "i8p" ELSE "f64")
    [] x.k = "storeglobal" -> IF Known(g, x) THEN Check(g, (Ty(g, x, 1) = "i8p") = (x.t = STR)) ELSE Drop(g, x)
    [] x.k = "bin" -> GenBinary(g, x)
    [] x.k = "un" -> GenUnary(g, x)
    [] x.k = "cmp" -> GenCompare(g, x)
    [] x.k = "call" -> GenCall(g, m, x)
    [] x.k = "icall" -> Value(g, x.r, Llvm(x.t))
    [] x.k = "funcref" -> Value(g, x.r, "pair")
    [] x.k = "closure" -> GenClosure(g, m, x)
    [] x.k = "storecap" -> IF Known(g, x) THEN Check(g, Castable(Ty(g, x, 1), Llvm(x.t))) ELSE Drop(g, x)
    [] x.k \in {"alloc", "arrget", "arrset", "push", "arrlen"} -> GenArray(g, x)
    [] x.k = "hof" -> GenHof(g, x, x.ct)
    [] x.k = "try" -> IF x.param = 0 \/ x.catch = 0 THEN g ELSE Value(g, x.param, "i8p")
    [] x.k = "await" -> g

\* The blocks in the order they are in, which need not be that of control.
GenFunction(m, f) ==
  FoldLeft(LAMBDA g, l : FoldLeft(LAMBDA h, x : GenInstr(h, m, x), g, f.blocks[l].ins),
           [vt |-> <<>>, arr |-> <<>>, zero |-> {}, dropped |-> {}, ok |-> TRUE], f.order)

\* ---- what LLVM verifies
\* A try ends its block: setjmp returns to the try block or to the catch block.
CatchTarget(x) == IF x.catch # 0 THEN x.catch ELSE IF x.final # 0 THEN x.final ELSE x.merge
Edges(f, l) ==
  LET t == f.blocks[l].term
      tries == {x \in ToSet(f.blocks[l].ins) : x.k = "try"}
  IN IF tries # {} THEN UNION {{x.try, CatchTarget(x)} : x \in tries}
     ELSE CASE t[1] = "jump" -> {t[2]} [] t[1] = "branch" -> {t[3], t[4]} [] OTHER -> {}
Preds(f, l) == {p \in ToSet(f.order) : l \in Edges(f, p)}

RECURSIVE Reached(_, _), Dominators(_, _)
Reached(f, seen) ==
  LET more == UNION {Edges(f, l) : l \in seen} \ seen
  IN IF more = {} THEN seen ELSE Reached(f, seen \cup more)
Dominators(f, dom) ==
  LET next == [l \in DOMAIN dom |->
                 {l} \cup IF l = Head(f.order) THEN {}
                          ELSE {d \in DOMAIN dom : \A p \in Preds(f, l) \cap DOMAIN dom : d \in dom[p]}]
  IN IF next = dom THEN dom ELSE Dominators(f, next)

\* The block a value is computed in; constants and parameters have none.
Computed(f, g) ==
  LET Defs(l) == {<<x.r, l>> : x \in {y \in ToSet(f.blocks[l].ins) :
                    y.k # "param" /\ y.r \notin g.zero /\ ~(y.k = "const" /\ y.t # STR)}}
      Caught(l) == {<<x.param, x.catch>> : x \in {y \in ToSet(f.blocks[l].ins) : y.k = "try"}}
      all == UNION {Defs(l) \cup Caught(l) : l \in ToSet(f.order)}
  IN [r \in {d[1] : d \in all} \ {0} |-> (CHOOSE d \in all : d[1] = r)[2]]

Verified(f, g) ==
  LET live == Reached(f, {Head(f.order)})
      dom == Dominators(f, [l \in live |-> live])
      def == Computed(f, g)
      \* a value is there at position j of block l, at its end for j = 0
      Before(r, l, j) ==
        \/ r \notin DOMAIN def
        \/ /\ def[r] \in dom[l]
           /\ def[r] # l \/ j = 0 \/ \A k \in DOMAIN f.blocks[l].ins : f.blocks[l].ins[k].r = r => k < j
      PhiOk(l, j, x) ==
        /\ \A k \in 1..(j - 1) : f.blocks[l].ins[k].k = "phi"
        /\ {x.from[k] : k \in DOMAIN x.from} = Preds(f, l)
        /\ Len(x.from) = Cardinality(Preds(f, l))
        /\ \A k \in DOMAIN x.args : /\ x.args[k] \in DOMAIN g.vt
                                    /\ g.vt[x.args[k]] = Llvm(x.t)
                                    /\ x.from[k] \in live => Before(x.args[k], x.from[k], 0)
      UsesOk(l, j, x) ==
        x.k = "phi" \/ x.r \in g.zero \/ \A r \in ToSet(x.args) \cap DOMAIN g.vt : Before(r, l, j)
      TermOk(l) ==
        LET t == f.blocks[l].term
        IN CASE t[1] = "return" /\ t[2] \in DOMAIN g.vt ->
                  /\ LET want == Llvm(t[3]) have == g.vt[t[2]]
                     IN (IF Castable(have, want) THEN want ELSE have) = Llvm(f.ret)
                  /\ Before(t[2], l, 0)
             [] t[1] = "return" /\ t[2] \notin DOMAIN g.vt -> Llvm(t[3]) = Llvm(f.ret)
             [] t[1] = "branch" -> t[2] \in DOMAIN g.vt => Before(t[2], l, 0)
             [] OTHER -> TRUE
  IN \A l \in live :
       /\ \A j \in DOMAIN f.blocks[l].ins :
            LET x == f.blocks[l].ins[j]
            IN UsesOk(l, j, x) /\ (x.k = "phi" => PhiOk(l, j, x))
       /\ TermOk(l) \/ \E x \in ToSet(f.blocks[l].ins) : x.k = "try"
=============================================================================
