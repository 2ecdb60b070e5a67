------------------------------ MODULE AotMachine ------------------------------
(***************************************************************************)
(* A compiled program running: the binary's main (quickjs_backend.py,      *)
(* _generate_engine_main), which has the engine evaluate the entry         *)
(* statements one after another, the wrappers between the engine and the   *)
(* native functions, the instructions the generator emitted for them, and  *)
(* the calls of the C runtime, whose words and functions are AotRuntime's,  *)
(* and its stack of setjmp buffers.  What C leaves undefined ends in the    *)
(* stage "undefined".                                                      *)
(***************************************************************************)
EXTENDS AotCompile, AotRuntime

CONSTANTS Programs,     \* the programs, by name
          Compiler(_),  \* what the compiler makes of a program
          Linked(_),    \* the one program that files importing each other are
          Meaning(_),   \* what the engine makes of one: the last state of its evaluation
          MaxTry        \* TSUCHI_MAX_TRY_DEPTH

Source == INSTANCE AotSource

VARIABLES
  prog,       \* the program
  image,      \* the binary: what Compile made of it
  stage,      \* "source", then "rejected", or "run" to "done", "exited" or "undefined"
  next,       \* the entry statement to evaluate next
  frames,     \* the call stack
  heap,       \* what malloc gave out
  handlers,   \* tsuchi_jmp_stack: the frame and the try each buffer was set in
  gvars,      \* the LLVM globals
  msg,        \* tsuchi_error_msg
  out         \* what each entry statement evaluated to

vars == <<prog, image, stage, next, frames, heap, handlers, gvars, msg, out>>

\* ---- words
ZeroWord(ty) ==
  CASE ty = "i1" -> Truth(FALSE) [] ty = "i8p" -> Null [] ty = "pair" -> <<"f", "", 0>> [] OTHER -> Num(0)
Cast(w, ty) ==
  CASE ty = "f64" /\ w[1] = "b" -> F64(w)
    [] ty = "i1" /\ w[1] = "n" -> Truth(w # Num(0) /\ w # NaN)
    [] OTHER -> w

\* ---- the heap: strings [s, cap, live], arrays [data, length], environments [vars]
Text(w) == IF w[1] = "lit" THEN w[2] ELSE heap[w[2]].s
\* A string can be read unless the pointer is null or wild or its buffer was freed.
Readable(w) == w[1] = "lit" \/ (w[1] = "p" /\ heap[w[2]].live)
NewString(s) == [s |-> s, cap |-> (Len(s) + 1) * 2, live |-> TRUE]
Fresh == Len(heap) + 1

\* An element as the generator reads it: a pointer of an array it knows to hold
\* strings, a double of any other.
ElementOf(cell, j, ty) == IF ty = "i8p" THEN tsuchi_sarray_get(cell, j) ELSE F64(tsuchi_array_get(cell, j))

\* ---- the running frame
top == Last(frames)
func == image.funcs[top.f]
gen == image.gen[top.f]
block == func.blocks[top.l]
AtInstr == stage = "run" /\ frames # <<>> /\ top.loop = <<>> /\ top.at <= Len(block.ins)
AtEnd == stage = "run" /\ frames # <<>> /\ top.loop = <<>> /\ top.at > Len(block.ins)
instr == block.ins[top.at]
TypeOf(r) == IF r \in DOMAIN gen.vt THEN gen.vt[r] ELSE "f64"
Reg(fr, r) ==
  LET g == image.gen[fr.f]
  IN IF r \in DOMAIN fr.regs /\ r \notin g.zero THEN fr.regs[r]
     ELSE ZeroWord(IF r \in DOMAIN g.vt THEN g.vt[r] ELSE "f64")
Arg(j) == Reg(top, instr.args[j])
\* Nothing was generated for the instruction.
ForEffect == {"__tsuchi_throw", "__tsuchi_try_pop", "tsuchi_array_reverse", "tsuchi_array_fill"}
Skipped == instr \in gen.dropped \/ (instr.r # 0 /\ instr.r \in gen.zero /\ instr.x \notin ForEffect)

SetTop(fr) == [frames EXCEPT ![Len(frames)] = fr]
Result(w) == [top EXCEPT !.regs = instr.r :> w @@ @, !.at = @ + 1]
Step == [top EXCEPT !.at = @ + 1]

\* Entering a block: its phis take the values of the edge, all at once.
Enter(fr, l) ==
  LET ins == image.funcs[fr.f].blocks[l].ins
      phis == {j \in DOMAIN ins : ins[j].k = "phi"}
      On(x) == Reg(fr, x.args[CHOOSE k \in DOMAIN x.from : x.from[k] = fr.l])
  IN [fr EXCEPT !.l = l, !.at = Cardinality(phis) + 1,
                !.regs = [r \in {ins[j].r : j \in phis} |-> On(ins[CHOOSE j \in phis : ins[j].r = r])] @@ @]

\* ---- calling
Native(n) == \E j \in Natives(image) : image.funcs[j].n = n
Index(n) == CHOOSE j \in Natives(image) : image.funcs[j].n = n
Frame(j, id, args, env) ==
  [f |-> j, id |-> id, l |-> Head(image.funcs[j].order), at |-> 1, regs |-> <<>>, args |-> args,
   env |-> env, loop |-> <<>>]
\* A frame's name: one that no frame and no handler holds.
FreeId == LET taken == {fr.id : fr \in ToSet(frames)} \cup {h.id : h \in ToSet(handlers)}
          IN CHOOSE j \in 1..(Cardinality(taken) + 1) : j \notin taken
Push(j, args, env) == Append(frames, Frame(j, FreeId, args, env))

\* Through a closure pair: a lifted arrow takes the environment first; so, it is
\* assumed, does a function whose first parameter is a pointer, and its
\* arguments move up by one; any other has a trampoline that drops it.
\* As if no function had a trampoline.
TakesEnvUnlessLifted(f) == ~f.lifted
TakesEnv(f) == ~f.lifted /\ f.ptypes # <<>> /\ Llvm(f.ptypes[1]) = "i8p"
ThroughPair(pair, args) ==
  LET j == Index(pair[2])
  IN Push(j, IF TakesEnv(image.funcs[j]) THEN <<Null>> \o args ELSE args, pair[3])

\* ---- between the engine and native code
\* A literal argument, as the wrapper unboxes it: arrays as arrays of doubles.
ToNumber(e) == CASE e.k = "num" -> Num(e.num) [] e.k = "bool" -> F64(Truth(e.tf)) [] OTHER -> NaN
Unboxed(e, t, addr) ==
  CASE t = STR -> Lit(e.s)
    [] t = BOOL -> Truth(e.tf)
    [] t[1] = "array" -> <<"a", addr>>
    [] OTHER -> ToNumber(e)
ArrayArgs(c, f) == SelectSeq([j \in DOMAIN f.ptypes |-> j], LAMBDA j : f.ptypes[j][1] = "array")

\* A result, as the wrapper boxes it.
Boxed(w, t) ==
  CASE t = STR -> Source!S(Text(w))
    [] t[1] = "array" -> <<"arr", [j \in 1..heap[w[2]].length |-> F64(heap[w[2]].data[j])]>>
    [] t = VOID -> Source!U
    [] OTHER -> w
CanBox(w, t) == (t = STR => Readable(w)) /\ (t[1] = "array" => w # Null)

\* What the engine makes of a call of a function it has the source of.
program == Linked(Programs[prog])
EngineValue(c) == Meaning([program EXCEPT !.entry = <<c>>]).out[1]

\* ---- actions
Init ==
  /\ prog \in DOMAIN Programs
  /\ image = <<>>
  /\ stage = "source"
  /\ next = 1
  /\ frames = <<>> /\ heap = <<>> /\ handlers = <<>> /\ gvars = <<>> /\ out = <<>>
  /\ msg = Null

\* taiyaki compile: an image whose globals hold a literal, 0 or a null pointer.
Build ==
  /\ stage = "source"
  /\ LET c == Compiler(Programs[prog])
         First(g) == IF \E j \in DOMAIN c.image.inits : c.image.inits[j].n = g
                     THEN Num(Named(c.image.inits, g).e.num)
                     ELSE ZeroWord(IF c.image.globals[g] = STR THEN "i8p" ELSE "f64")
     IN IF c.how = Success
        THEN stage' = "run" /\ image' = c.image /\ gvars' = [g \in DOMAIN c.image.globals |-> First(g)]
        ELSE stage' = "rejected" /\ UNCHANGED <<image, gvars>>
  /\ UNCHANGED <<prog, next, frames, heap, handlers, msg, out>>

\* JS_Eval of the next entry statement, a call.
Exported(f) == ~f.lifted /\ f.ret[1] # "fn" /\ \A j \in DOMAIN f.ptypes : f.ptypes[j][1] # "fn"
Wrapped(n) == Native(n) /\ Exported(image.funcs[Index(n)])
\* The function the engine has registered under a name.
Registered(n) == IF n \in DOMAIN image.aliases /\ Wrapped(image.aliases[n]) THEN image.aliases[n] ELSE n
Statement == image.texts[next]
CallsNative == Statement.k = "expr" /\ Wrapped(Registered(Statement.e.f))
StartEntry ==
  /\ stage = "run" /\ frames = <<>> /\ next <= Len(image.texts) /\ CallsNative
  /\ LET c == Statement.e
         j == Index(Registered(c.f))
         f == image.funcs[j]
         arrays == ArrayArgs(c, f)
         Cell(k) == LET es == c.args[arrays[k]].es
                    IN ArrayWith([i \in DOMAIN es |-> ToNumber(es[i])], Len(es))
         Addr(k) == Len(heap) + Cardinality({i \in DOMAIN arrays : arrays[i] <= k})
     IN /\ heap' = heap \o [k \in DOMAIN arrays |-> Cell(k)]
        /\ frames' = Push(j, [k \in DOMAIN f.ptypes |-> Unboxed(c.args[k], f.ptypes[k], Addr(k))], 0)
  /\ UNCHANGED <<prog, image, stage, next, handlers, gvars, msg, out>>

\* A statement the engine evaluates alone.  An error is printed, and the next
\* statement follows.
AtEngineEntry == stage = "run" /\ frames = <<>> /\ next <= Len(image.texts) /\ ~CallsNative
Evaluated(st) ==
  CASE st.k = "expr" /\ (\E j \in DOMAIN image.fallback : image.fallback[j].n = st.e.f) -> EngineValue(st.e)
    [] st.k \in {"import", "export"} -> <<"throw", Source!S(<<"SyntaxError">>)>>
    [] st.k \in {"func", "var"} -> Source!U
    [] OTHER -> <<"throw", Source!S(<<"ReferenceError">>)>>
EngineEntry ==
  /\ AtEngineEntry
  /\ out' = Append(out, Evaluated(Statement))
  /\ next' = next + 1
  /\ UNCHANGED <<prog, image, stage, frames, heap, handlers, gvars, msg>>

Finish ==
  /\ stage = "run" /\ frames = <<>> /\ next > Len(image.texts)
  /\ stage' = "done"
  /\ UNCHANGED <<prog, image, next, frames, heap, handlers, gvars, msg, out>>

\* ---- instructions that only compute
Arith(op, a, b) ==
  IF NaN \in {a, b} \/ (op = "%" /\ b = Num(0)) THEN NaN ELSE Num(Arithmetic(op, a[2], b[2]))
BinaryWord(x, a, b) == IF x.t = NUMBER THEN Arith(x.x, F64(a), F64(b)) ELSE Num(0)
UnaryWord(x, a) ==
  CASE x.x = "!" -> Truth(IF TypeOf(x.args[1]) = "i8p" THEN Text(a) = <<>> ELSE F64(a) = Num(0))
    [] OTHER -> IF F64(a) = NaN THEN NaN ELSE Num(-F64(a)[2])
\* strcmp, or an ordered comparison, false of a NaN.
CompareWord(x, a, b) ==
  Truth(IF x.t = STR THEN Compared(x.x, Text(a), Text(b))
        ELSE NaN \notin {F64(a), F64(b)} /\ Compared(x.x, F64(a)[2], F64(b)[2]))
\* The words an operation may give: more than one where the conversion of a
\* double no int holds is undefined.
Ints(j) == IF j <= Len(instr.args) THEN ToInt(F64(Arg(j))) ELSE ToInt(Infinity)
PointerArg(j) == IF j <= Len(instr.args) /\ instr.args[j] \in DOMAIN gen.vt THEN Arg(j) ELSE Null
StringWords(m) ==
  LET T(j) == Text(PointerArg(j))
      One(v) == {Lit(v)}
      AtInt(Op(_)) == {Lit(Op(n)) : n \in Ints(2)}
      Between(Op(_, _)) == {Lit(Op(n[1], n[2])) : n \in Ints(2) \X Ints(3)}
  IN CASE m = "__tsuchi_str_indexOf" -> {Num(tsuchi_str_indexOf(T(1), T(2)))}
       [] m = "__tsuchi_str_lastIndexOf" -> {Num(tsuchi_str_lastIndexOf(T(1), T(2)))}
       [] m = "__tsuchi_str_includes" -> {Truth(tsuchi_str_includes(T(1), T(2)))}
       [] m = "__tsuchi_str_startsWith" -> {Truth(tsuchi_str_startsWith(T(1), T(2)))}
       [] m = "__tsuchi_str_endsWith" -> {Truth(tsuchi_str_endsWith(T(1), T(2)))}
       [] m = "__tsuchi_str_slice" -> Between(LAMBDA a, b : tsuchi_str_slice(T(1), a, b))
       [] m = "__tsuchi_str_substring" -> Between(LAMBDA a, b : tsuchi_str_substring(T(1), a, b))
       [] m = "__tsuchi_str_charAt" -> AtInt(LAMBDA n : tsuchi_str_charAt(T(1), n))
       [] m = "__tsuchi_str_at" -> AtInt(LAMBDA n : tsuchi_str_at(T(1), n))
       [] m = "__tsuchi_str_repeat" -> AtInt(LAMBDA n : tsuchi_str_repeat(T(1), n))
       [] m = "__tsuchi_str_charCodeAt" -> {tsuchi_str_charCodeAt(T(1), n) : n \in Ints(2)}
       [] m = "__tsuchi_str_toUpperCase" -> One(tsuchi_str_toUpperCase(T(1)))
       [] m = "__tsuchi_str_toLowerCase" -> One(tsuchi_str_toLowerCase(T(1)))
       [] m = "__tsuchi_str_trim" -> One(tsuchi_str_trim(T(1)))
       [] m = "__tsuchi_str_trimStart" -> One(tsuchi_str_trimStart(T(1)))
       [] m = "__tsuchi_str_trimEnd" -> One(tsuchi_str_trimEnd(T(1)))
       [] m = "__tsuchi_str_replace" -> One(tsuchi_str_replace(T(1), T(2), T(3)))
       [] m = "__tsuchi_str_replaceAll" -> One(tsuchi_str_replaceAll(T(1), T(2), T(3)))
       [] m = "__tsuchi_str_padStart" -> AtInt(LAMBDA n : tsuchi_str_padStart(T(1), n, T(3)))
       [] m = "__tsuchi_str_padEnd" -> AtInt(LAMBDA n : tsuchi_str_padEnd(T(1), n, T(3)))
       [] m = "__tsuchi_num_toString" -> One(tsuchi_num_toString(F64(Arg(1))))
       [] m = "__tsuchi_num_toFixed" -> AtInt(LAMBDA n : tsuchi_num_toFixed(F64(Arg(1)), n))
\* JavaScript's own functions: the word is a number, a boolean or a pointer as
\* its machine type says.
NumberWord(w) ==
  IF w[1] \in {"n", "b"} THEN {F64(w)} ELSE IF w = Null THEN {NaN} ELSE {tsuchi_parseFloat(s) : s \in {Text(w)}}
IntWord(w) == IF w = Null THEN {NaN} ELSE {tsuchi_parseInt(s) : s \in {Text(w)}}
StringWord(w) ==
  CASE w[1] = "n" -> Lit(tsuchi_num_to_str(w)) [] w[1] = "b" -> Lit(tsuchi_bool_to_str(w[2])) [] OTHER -> w
BooleanWord(w) == Truth(CASE w[1] = "n" -> w \notin {Num(0), NaN} [] w[1] = "b" -> w[2] [] OTHER -> TRUE)
StringifyWord(w) ==
  Lit(CASE w[1] = "n" -> tsuchi_json_stringify(w)
        [] w[1] = "b" -> tsuchi_json_stringify_bool(w[2])
        [] OTHER -> IF w = Null THEN <<"n", "u", "l", "l">> ELSE tsuchi_json_stringify_str(Text(w)))
ParseWord(w) == Lit(IF w = Null THEN <<>> ELSE tsuchi_json_parse_str(Text(w)))
BuiltinWords(m) ==
  LET w == Arg(1)
      F(j) == F64(Arg(j))
  IN CASE m \in {"__tsuchi_Math_" \o r : r \in {"floor", "ceil", "round", "trunc"}} -> {F(1)}
       [] m = "__tsuchi_Math_abs" -> {fabs(F(1))}
       [] m = "__tsuchi_Math_sqrt" -> {sqrt(F(1))}
       [] m = "__tsuchi_Math_sign" -> {Sign(F(1))}
       [] m = "__tsuchi_Math_min" -> {fmin(F(1), F(2))}
       [] m = "__tsuchi_Math_max" -> {fmax(F(1), F(2))}
       [] m = "__tsuchi_Math_pow" -> {pow(F(1), F(2))}
       [] m = "__tsuchi_Math_clz32" -> {tsuchi_math_clz32(n) : n \in ToInt(F(1))}
       [] m = "__tsuchi_Number_isInteger" -> {Truth(isInteger(F(1)))}
       [] m = "__tsuchi_Number_isFinite" -> {Truth(isFinite(F(1)))}
       [] m \in {"__tsuchi_Number_isNaN", "__tsuchi_isNaN"} -> {Truth(F(1) = NaN)}
       [] m \in {"__tsuchi_Number_parseInt", "__tsuchi_parseInt"} -> IntWord(w)
       [] m \in {"__tsuchi_Number_parseFloat", "__tsuchi_parseFloat", "__tsuchi_Number"} -> NumberWord(w)
       [] m = "__tsuchi_String" -> {StringWord(w)}
       [] m = "__tsuchi_Boolean" -> {BooleanWord(w)}
       [] m = "__tsuchi_String_fromCharCode" -> {Lit(tsuchi_fromCharCode(n)) : n \in ToInt(F(1))}
       [] m = "__tsuchi_json_stringify" -> {StringifyWord(w)}
       [] m = "__tsuchi_json_parse_str" -> {ParseWord(w)}
arr == heap[Arg(1)[2]]
BuiltinReads == (DOMAIN MathFuncs) \cup (OneWord \ {"tsuchi_str_to_char_array"})
Tracks(r) == r \in DOMAIN gen.arr /\ gen.arr[r] = STR
CallWords(m) ==
  CASE m = "__tsuchi_num_to_str" -> {Lit(tsuchi_num_to_str(F64(Arg(1))))}
    [] m = "__tsuchi_bool_to_str" -> {Lit(tsuchi_bool_to_str(Arg(1) = Truth(TRUE)))}
    [] m = "__tsuchi_strlen" -> {Num(Len(Text(Arg(1))))}
    [] m = "tsuchi_array_indexOf" -> {Num(tsuchi_array_indexOf(arr, F64(Arg(2))))}
    [] m = "tsuchi_array_lastIndexOf" -> {Num(tsuchi_array_lastIndexOf(arr, F64(Arg(2))))}
    [] m = "tsuchi_array_includes" -> {Truth(tsuchi_array_includes(arr, F64(Arg(2))))}
    [] m = "tsuchi_array_at" -> {F64(tsuchi_array_at(arr, n)) : n \in Ints(2)}
    [] m = "tsuchi_array_join" ->
         {Lit(IF Tracks(instr.args[1])
              THEN tsuchi_sarray_join(arr, [j \in 1..arr.length |-> Text(Pointer(arr.data[j]))], Text(Arg(2)))
              ELSE tsuchi_array_join(arr, Text(Arg(2))))}
    [] OTHER -> IF m \in BuiltinReads THEN BuiltinWords(m) ELSE StringWords(m)
ArrayReads == {"tsuchi_array_" \o m : m \in {"indexOf", "lastIndexOf", "includes", "at", "join"}}
RuntimeReads == {"__tsuchi_num_to_str", "__tsuchi_bool_to_str", "__tsuchi_strlen"} \cup ArrayReads
                \cup (DOMAIN RuntimeSigs \ {"__tsuchi_str_split"}) \cup BuiltinReads
Pure(x) == \/ x.k \in {"const", "param", "un", "cmp", "arrget", "arrlen", "loadcap", "loadglobal", "funcref"}
           \/ x.k = "bin" /\ x.t # STR
           \/ x.k = "call" /\ x.x \in RuntimeReads

WordsOf(x) ==
  CASE x.k = "const" -> {CASE x.t = STR -> Lit(x.v) [] x.t = BOOL -> Truth(x.v) [] OTHER -> Num(x.v)}
    [] x.k = "param" -> {top.args[CHOOSE j \in DOMAIN top.args : ToString(j) = x.x]}
    [] x.k = "bin" -> {BinaryWord(x, Arg(1), Arg(2))}
    [] x.k = "un" -> {UnaryWord(x, Arg(1))}
    [] x.k = "cmp" -> {CompareWord(x, Arg(1), Arg(2))}
    [] x.k = "arrget" -> {ElementOf(arr, j, gen.vt[x.r]) : j \in Ints(2)}
    [] x.k = "arrlen" -> {Num(arr.length)}
    [] x.k = "loadcap" -> {heap[top.env].vars[x.x]}
    [] x.k = "loadglobal" -> {gvars[x.x]}
    [] x.k = "funcref" -> {IF Native(x.x) THEN <<"f", x.x, 0>> ELSE ZeroWord("pair")}
    [] x.k = "call" -> CallWords(x.x)

\* The pointers an instruction follows: strings it reads, arrays it opens.  A
\* string that need not be padded leaves the pad alone, one without a hit the
\* replacement.
Spared(x) ==
  CASE x.x \in {"__tsuchi_str_padStart", "__tsuchi_str_padEnd"} /\ Readable(PointerArg(1)) ->
         IF \A n \in Ints(2) : Len(Text(PointerArg(1))) >= n THEN {3} ELSE {}
    [] x.x = "__tsuchi_str_replace" /\ Readable(PointerArg(1)) /\ Readable(PointerArg(2)) ->
         IF strstr(Text(PointerArg(1)), Text(PointerArg(2))) = -1 THEN {3} ELSE {}
    [] OTHER -> {}
TextReads == Parsers \cup {"__tsuchi_Number", "__tsuchi_json_stringify", "__tsuchi_json_parse_str",
                          "tsuchi_str_to_char_array"}
StringsRead(x) ==
  CASE (x.k = "bin" /\ x.t = STR) \/ (x.k = "cmp" /\ x.t = STR) -> {1, 2}
    [] (x.k = "un" /\ x.x = "!" /\ TypeOf(x.args[1]) = "i8p") \/ x.x = "__tsuchi_strlen" -> {1}
    [] x.k = "call" /\ x.x \in DOMAIN RuntimeSigs ->
         LET takes == RuntimeSigs[x.x].args IN {j \in DOMAIN takes : takes[j] = "i8p"} \ Spared(x)
    [] x.x = "tsuchi_array_join" /\ Arg(1)[1] = "a" /\ arr.length > 0 -> {2}
    [] x.k = "call" /\ x.x \in TextReads -> IF TypeOf(x.args[1]) = "i8p" /\ Arg(1) # Null THEN {1} ELSE {}
    [] OTHER -> {}
OpensArray(x) == x.k \in {"arrget", "arrset", "arrlen", "push", "hof"} \/ (x.k = "call" /\ x.x \in ArrayCalls)
\* tsuchi_str_concat_owned on one buffer twice: memcpy overlaps, or reads what
\* realloc has freed.
OntoItself(x) == /\ x.k = "bin" /\ x.t = STR /\ x.args[1] \in image.owned[top.f]
                 /\ Arg(1) = Arg(2) /\ Arg(1)[1] = "p" /\ Text(Arg(1)) # <<>>
JoinsWild(x) == /\ x.x = "tsuchi_array_join" /\ Tracks(x.args[1])
                /\ \E w \in ToSet(Elements(arr)) : Pointer(w) # Null /\ ~Readable(Pointer(w))
Wild(x) ==
  \/ \E j \in StringsRead(x) : ~Readable(PointerArg(j))
  \/ OpensArray(x) /\ Arg(1)[1] # "a"
  \/ x.x = "tsuchi_array_concat" /\ Arg(2)[1] # "a"
  \/ x.k \in {"loadcap", "storecap"} /\ top.env = 0
  \/ x.k = "icall" /\ Arg(1)[2] = ""
  \/ x.k = "hof" /\ Arg(2)[2] = ""
  \/ OntoItself(x) \/ JoinsWild(x)

Undefined ==
  /\ AtInstr /\ ~Skipped /\ Wild(instr)
  /\ stage' = "undefined"
  /\ UNCHANGED <<prog, image, next, frames, heap, handlers, gvars, msg, out>>

Ready(kind) == AtInstr /\ ~Skipped /\ ~Wild(instr) /\ instr.k = kind
Goes(fr) ==
  /\ frames' = SetTop(fr)
  /\ UNCHANGED <<prog, image, stage, next, handlers, msg, out>>

Skip == AtInstr /\ Skipped /\ Goes(Step) /\ UNCHANGED <<heap, gvars>>
Compute ==
  /\ AtInstr /\ ~Skipped /\ ~Wild(instr) /\ Pure(instr)
  /\ \E w \in WordsOf(instr) : Goes(Result(w))
  /\ UNCHANGED <<heap, gvars>>

\* ---- memory
\* tsuchi_str_concat copies; tsuchi_str_concat_owned appends to a buffer of its
\* own, which realloc may move.
Concat ==
  /\ Ready("bin") /\ instr.t = STR
  /\ LET a == Arg(1)
         b == Text(Arg(2))
         long == Text(a) \o b
         room == Len(long) + 1 <= heap[a[2]].cap
         grown == NewString(long)
     IN CASE instr.args[1] \notin image.owned[top.f] -> Goes(Result(Lit(long))) /\ UNCHANGED heap
          [] instr.args[1] \in image.owned[top.f] /\ b = <<>> -> Goes(Result(a)) /\ UNCHANGED heap
          [] OTHER ->
               IF a[1] = "lit"
               THEN Goes(Result(<<"p", Fresh>>)) /\ heap' = Append(heap, grown)
               ELSE \/ /\ Goes(Result(a))
                       /\ heap' = [heap EXCEPT ![a[2]] = IF room THEN [@ EXCEPT !.s = long] ELSE grown]
                    \/ /\ ~room
                       /\ Goes(Result(<<"p", Fresh>>))
                       /\ heap' = Append([heap EXCEPT ![a[2]].live = FALSE], grown)
  /\ UNCHANGED gvars

Elem(w, strings) == IF strings THEN w ELSE F64(w)
Changes(cell) == heap' = [heap EXCEPT ![Arg(1)[2]] = cell]
Allocates(cells) == heap' = heap \o cells
AllocArray ==
  /\ Ready("alloc")
  /\ Allocates(<<ArrayWith([j \in DOMAIN instr.args |-> Elem(Arg(j), instr.t[2] = STR)], Len(instr.args))>>)
  /\ Goes(Result(<<"a", Fresh>>))
  /\ UNCHANGED gvars
ArraySet ==
  /\ Ready("arrset")
  /\ \E j \in Ints(2) : Changes(tsuchi_array_set(arr, j, Elem(Arg(3), Tracks(instr.args[1]))))
  /\ Goes(Step)
  /\ UNCHANGED gvars
ArrayPush ==
  /\ Ready("push")
  /\ Changes(tsuchi_array_push(arr, Elem(Arg(2), Tracks(instr.args[1]))))
  /\ Goes(Result(Num(arr.length + 1)))
  /\ UNCHANGED gvars

\* The calls that change an array in place.
ArrayTake ==
  /\ Ready("call") /\ instr.x \in {"tsuchi_array_pop", "tsuchi_array_shift"}
  /\ LET pops == instr.x = "tsuchi_array_pop"
     IN /\ Changes(IF pops THEN tsuchi_array_pop(arr) ELSE tsuchi_array_shift(arr))
        /\ Goes(Result(IF arr.length = 0 THEN NaN ELSE F64(arr.data[IF pops THEN arr.length ELSE 1])))
  /\ UNCHANGED gvars
ArrayUnshift ==
  /\ Ready("call") /\ instr.x = "tsuchi_array_unshift"
  /\ Changes(tsuchi_array_unshift(arr, F64(Arg(2))))
  /\ Goes(Result(Num(arr.length + 1)))
  /\ UNCHANGED gvars
ArrayRewrite ==
  /\ Ready("call") /\ instr.x \in {"tsuchi_array_reverse", "tsuchi_array_fill"}
  /\ Changes(IF instr.x = "tsuchi_array_reverse" THEN tsuchi_array_reverse(arr)
             ELSE tsuchi_array_fill(arr, F64(Arg(2))))
  /\ Goes(Step)
  /\ UNCHANGED gvars
ArraySplice ==
  /\ Ready("call") /\ instr.x = "tsuchi_array_splice"
  /\ \E start \in Ints(2), deleteCount \in Ints(3) :
       LET cut == tsuchi_array_splice(arr, start, deleteCount)
       IN heap' = Append([heap EXCEPT ![Arg(1)[2]] = cut.arr], cut.removed)
  /\ Goes(Result(<<"a", Fresh>>))
  /\ UNCHANGED gvars
\* Those that make a new one.
ArrayCopy ==
  /\ Ready("call") /\ instr.x \in {"tsuchi_array_slice", "tsuchi_array_concat", "__tsuchi_str_split",
                                          "tsuchi_str_to_char_array"}
  /\ LET ends == IF Len(instr.args) > 2 THEN Ints(3) ELSE {arr.length}
         text == Text(PointerArg(1))
         parts == IF instr.x = "__tsuchi_str_split" THEN tsuchi_str_split(text, Text(PointerArg(2)))
                  ELSE tsuchi_str_to_char_array(text)
     IN CASE instr.x = "tsuchi_array_slice" ->
               \E start \in Ints(2), end \in ends : Allocates(<<tsuchi_array_slice(arr, start, end)>>)
          [] instr.x = "tsuchi_array_concat" -> Allocates(<<tsuchi_array_concat(arr, heap[Arg(2)[2]])>>)
          [] OTHER ->
               Allocates(<<ArrayWith([j \in DOMAIN parts |-> Lit(parts[j])], Room(8, Len(parts)))>>)
  /\ Goes(Result(<<"a", Fresh>>))
  /\ UNCHANGED gvars

MakeClosure ==
  /\ Ready("closure")
  /\ LET f == image.funcs[Index(instr.x)]
         Held(n) == Arg(CHOOSE j \in DOMAIN instr.names : instr.names[j] = n)
     IN heap' = Append(heap, [vars |-> [n \in ToSet(instr.names) |-> Cast(Held(n), Llvm(f.captures[n]))]])
  /\ Goes(Result(<<"f", instr.x, Fresh>>))
  /\ UNCHANGED gvars
StoreCaptured ==
  /\ Ready("storecap")
  /\ heap' = [heap EXCEPT ![top.env].vars[instr.x] = Cast(Arg(1), Llvm(instr.t))]
  /\ Goes(Step)
  /\ UNCHANGED gvars
StoreGlobalVar ==
  /\ Ready("storeglobal")
  /\ gvars' = [gvars EXCEPT ![instr.x] = IF instr.t = STR THEN Arg(1) ELSE F64(Arg(1))]
  /\ Goes(Step)
  /\ UNCHANGED heap

\* ---- calls
Calls(fs) ==
  /\ frames' = fs
  /\ UNCHANGED <<prog, image, stage, next, heap, handlers, gvars, msg, out>>

CallNative ==
  /\ Ready("call") /\ Native(instr.x)
  /\ LET f == image.funcs[Index(instr.x)]
     IN Calls(Push(Index(instr.x), [j \in DOMAIN instr.args |-> Cast(Arg(j), Llvm(f.ptypes[j]))], 0))

\* The bridge hands the engine numbers and takes what its type hint says; an
\* exception of the engine becomes a default value.
AtBridge == Ready("call") /\ \E j \in DOMAIN image.fallback : image.fallback[j].n = instr.x
CallBridge ==
  /\ AtBridge
  /\ LET v == EngineValue(Call(instr.x, [j \in DOMAIN instr.args |-> NumE(F64(Arg(j))[2])]))
         t == Named(image.fallback, instr.x).ret
         w == CASE v[1] = "throw" -> IF t = STR THEN Lit(<<>>) ELSE ZeroWord(Llvm(t))
                [] v[1] # "throw" /\ t = STR -> Lit(Source!Letters(v))
                [] v[1] # "throw" /\ t = BOOL -> Truth(Source!Holds(v))
                [] OTHER -> IF v[1] = "n" THEN v ELSE NaN
     IN Goes(IF t = VOID THEN Step ELSE Result(w))
  /\ UNCHANGED <<heap, gvars>>

CallClosure ==
  /\ Ready("icall")
  /\ LET params == instr.ct[2]
         n == Len(instr.args) - 1
     IN Calls(ThroughPair(Arg(1), [j \in 1..n |-> IF j <= Len(params) THEN Cast(Arg(j + 1), Llvm(params[j]))
                                                  ELSE Arg(j + 1)]))

\* ---- the loops around callbacks: the length is read once, the element anew
\* in every turn.  A loop is at an index, with the element e it read there and
\* what it has so far; sort inserts the key it took from index i.
Strings(fr, x) == LET g == image.gen[fr.f] IN x.args[1] \in DOMAIN g.arr /\ g.arr[x.args[1]] = STR
ElementAt(h, fr, x, j) == ElementOf(h[Reg(fr, x.args[1])[2]], j, IF Strings(fr, x) THEN "i8p" ELSE "f64")
LoopStart(x, n) ==
  LET acc == CASE x.x \in {"map", "filter"} -> <<"a", Fresh>>
               [] x.x \in {"reduce", "reduceRight"} -> F64(Arg(3))
               [] x.x = "find" -> NaN
               [] x.x = "findIndex" -> Num(-1)
               [] x.x = "some" -> Truth(FALSE)
               [] x.x = "every" -> Truth(TRUE)
               [] x.x = "sort" -> Arg(1)
               [] OTHER -> Num(0)
  IN [at |-> IF x.x = "reduceRight" THEN n - 1 ELSE 0, n |-> n, acc |-> acc, e |-> NaN,
      i |-> 1, key |-> IF x.x = "sort" /\ n > 1 THEN ElementAt(heap, top, x, 1) ELSE NaN]
LoopBegin ==
  /\ Ready("hof")
  /\ LET n == arr.length
     IN /\ heap' = IF instr.x \in {"map", "filter"} THEN Append(heap, tsuchi_array_new(n)) ELSE heap
        /\ Goes([top EXCEPT !.loop = LoopStart(instr, n)])
  /\ UNCHANGED gvars

InLoop == stage = "run" /\ frames # <<>> /\ top.loop # <<>>
More(lp, m) ==
  CASE m = "reduceRight" -> lp.at >= 0
    [] m = "sort" -> lp.i < lp.n
    [] OTHER -> lp.at < lp.n
\* The index is passed only to a callback that takes more than one parameter.
LoopTurn ==
  /\ InLoop /\ More(top.loop, instr.x)
  /\ LET lp == top.loop
         e == ElementAt(heap, top, instr, lp.at)
         held == [frames EXCEPT ![Len(frames)].loop.e = e]
         args == CASE instr.x \in {"reduce", "reduceRight"} -> <<lp.acc, e>>
                   [] instr.x = "sort" -> <<e, lp.key>>
                   [] OTHER -> IF Len(instr.ct[2]) > 1 THEN <<e, Num(lp.at)>> ELSE <<e>>
     IN Calls(held \o <<Last(ThroughPair(Arg(2), args))>>)
LoopEnd ==
  /\ InLoop /\ ~More(top.loop, instr.x)
  /\ Goes([(IF instr.r = 0 THEN Step ELSE Result(top.loop.acc)) EXCEPT !.loop = <<>>])
  /\ UNCHANGED <<heap, gvars>>

\* What a callback returned, w, to a loop: the loop's next state.
Yes(w) == Cast(w, "i1") = Truth(TRUE)
Onward(lp) == [lp EXCEPT !.at = @ + 1]
Leaves(lp, acc) == [lp EXCEPT !.at = lp.n, !.acc = acc]
ForEachTurn(lp, w) == Onward(lp)
MapTurn(lp, w) == Onward(lp)
FilterTurn(lp, w) == Onward(lp)
ReduceTurn(lp, w) == [Onward(lp) EXCEPT !.acc = F64(w)]
ReduceRightTurn(lp, w) == [lp EXCEPT !.at = @ - 1, !.acc = F64(w)]
FindTurn(lp, w) == IF Yes(w) THEN Leaves(lp, lp.e) ELSE Onward(lp)
FindIndexTurn(lp, w) == IF Yes(w) THEN Leaves(lp, Num(lp.at)) ELSE Onward(lp)
SomeTurn(lp, w) == IF Yes(w) THEN Leaves(lp, Truth(TRUE)) ELSE Onward(lp)
EveryTurn(lp, w) == IF Yes(w) THEN Onward(lp) ELSE Leaves(lp, Truth(FALSE))

\* An insertion sort: what is greater than the key moves up by one; the key goes
\* where that ends, and the next one is taken from the array as it is then.
Greater(w) == F64(w) # NaN /\ F64(w)[2] > 0
SortInserts(lp, w) == ~Greater(w) \/ lp.at = 0
SortMoves(cell, lp, w) ==
  LET up == IF Greater(w) THEN tsuchi_array_set(cell, lp.at + 1, lp.e) ELSE cell
  IN IF SortInserts(lp, w) THEN tsuchi_array_set(up, IF Greater(w) THEN 0 ELSE lp.at + 1, lp.key) ELSE up
SortTurn(lp, w, key) ==
  IF SortInserts(lp, w) THEN [lp EXCEPT !.i = @ + 1, !.at = lp.i, !.key = key]
  ELSE [lp EXCEPT !.at = @ - 1]

Filled(fr, x, w) ==
  LET a == fr.loop.acc[2]
  IN CASE x.x = "map" -> [heap EXCEPT ![a] = tsuchi_array_set(@, fr.loop.at, Elem(w, x.t[2] = STR))]
       [] x.x = "filter" /\ Yes(w) -> [heap EXCEPT ![a] = tsuchi_array_push(@, fr.loop.e)]
       [] x.x = "sort" -> [heap EXCEPT ![a] = SortMoves(@, fr.loop, w)]
       [] OTHER -> heap
Turned(fr, x, w) ==
  LET lp == fr.loop
      Key(j) == ElementAt(Filled(fr, x, w), fr, x, j)
  IN CASE x.x = "forEach" -> ForEachTurn(lp, w)
       [] x.x = "map" -> MapTurn(lp, w)
       [] x.x = "filter" -> FilterTurn(lp, w)
       [] x.x = "reduce" -> ReduceTurn(lp, w)
       [] x.x = "reduceRight" -> ReduceRightTurn(lp, w)
       [] x.x = "find" -> FindTurn(lp, w)
       [] x.x = "findIndex" -> FindIndexTurn(lp, w)
       [] x.x = "some" -> SomeTurn(lp, w)
       [] x.x = "every" -> EveryTurn(lp, w)
       [] x.x = "sort" -> SortTurn(lp, w, Key(lp.i + 1))

\* ---- control
Transfer ==
  /\ AtEnd /\ block.term[1] \in {"jump", "branch"}
  /\ LET c == Reg(top, block.term[2])
         ty == TypeOf(block.term[2])
         yes == CASE ty = "i8p" -> Text(c) # <<>>
                  [] ty = "pair" -> FALSE
                  [] OTHER -> Cast(c, "i1") = Truth(TRUE)
         l == IF block.term[1] = "jump" THEN block.term[2] ELSE IF yes THEN block.term[3] ELSE block.term[4]
     IN /\ block.term[1] = "branch" /\ ty = "i8p" => Readable(c)
        /\ Goes(Enter(top, l))
  /\ UNCHANGED <<heap, gvars>>

\* A return: to the engine, to the loop that called back, or to the call.
Returned ==
  LET t == block.term
      ty == Llvm(t[3])
  IN IF t[2] \in DOMAIN gen.vt THEN Cast(Reg(top, t[2]), ty) ELSE ZeroWord(ty)
Answers == AtEnd /\ block.term[1] = "return"
ReturnToEngine ==
  /\ Answers /\ Len(frames) = 1 /\ CanBox(Returned, func.ret)
  /\ out' = Append(out, Boxed(Returned, func.ret))
  /\ next' = next + 1
  /\ frames' = <<>>
  /\ UNCHANGED <<prog, image, stage, heap, handlers, gvars, msg>>
ReturnToCaller ==
  /\ Answers /\ Len(frames) > 1
  /\ LET below == Front(frames)
         fr == Last(below)
         x == image.funcs[fr.f].blocks[fr.l].ins[fr.at]
     IN IF fr.loop # <<>>
        THEN /\ frames' = [below EXCEPT ![Len(below)].loop = Turned(fr, x, Returned)]
             /\ heap' = Filled(fr, x, Returned)
        ELSE /\ frames' = [below EXCEPT ![Len(below)].at = @ + 1,
                             ![Len(below)].regs = IF func.ret = VOID THEN @ ELSE x.r :> Returned @@ @]
             /\ UNCHANGED heap
  /\ UNCHANGED <<prog, image, stage, next, handlers, gvars, msg, out>>

\* Following a bad pointer at the end of a block.
WildEnd ==
  /\ AtEnd
  /\ \/ block.term[1] = "branch" /\ TypeOf(block.term[2]) = "i8p" /\ ~Readable(Reg(top, block.term[2]))
     \/ Answers /\ Len(frames) = 1 /\ ~CanBox(Returned, func.ret)
  /\ stage' = "undefined"
  /\ UNCHANGED <<prog, image, next, frames, heap, handlers, gvars, msg, out>>

\* ---- exceptions
TryBegin ==
  /\ Ready("try")
  /\ handlers' = IF Len(handlers) < MaxTry THEN Append(handlers, [id |-> top.id, l |-> top.l, try |-> instr])
                 ELSE handlers
  /\ frames' = SetTop(Enter(top, instr.try))
  /\ UNCHANGED <<prog, image, stage, next, heap, gvars, msg, out>>
\* As if the last handler were never popped.
KeepLast ==
  /\ AtInstr /\ instr.x = "__tsuchi_try_pop"
  /\ handlers' = IF Len(handlers) <= 1 THEN handlers ELSE Front(handlers)
  /\ frames' = SetTop(Step)
  /\ UNCHANGED <<prog, image, stage, next, heap, gvars, msg, out>>
TryPop ==
  /\ AtInstr /\ instr.x = "__tsuchi_try_pop"
  /\ handlers' = IF handlers = <<>> THEN handlers ELSE Front(handlers)
  /\ frames' = SetTop(Step)
  /\ UNCHANGED <<prog, image, stage, next, heap, gvars, msg, out>>

Throws == AtInstr /\ instr.x = "__tsuchi_throw"
Thrown == IF Arg(1) = Null THEN Lit(<<"Unknown error">>) ELSE Arg(1)
\* longjmp to the last setjmp, whose frame must still be there.
ThrowToHandler ==
  /\ Throws /\ handlers # <<>>
  /\ LET h == Last(handlers)
         live == {j \in DOMAIN frames : frames[j].id = h.id}
         j == CHOOSE k \in live : TRUE
         l == CatchTarget(h.try)
         in == Enter([frames[j] EXCEPT !.l = h.l, !.loop = <<>>], l)
     IN /\ handlers' = Front(handlers)
        /\ stage' = IF live = {} THEN "undefined" ELSE stage
        /\ frames' = IF live = {} THEN frames
                     ELSE Append(SubSeq(frames, 1, j - 1),
                                 IF l = h.try.catch /\ h.try.param # 0
                                 THEN [in EXCEPT !.regs = h.try.param :> Thrown @@ @] ELSE in)
  /\ msg' = Thrown
  /\ UNCHANGED <<prog, image, next, heap, gvars, out>>
\* Nobody catches it: exit(1), the statements to come are not run.
ThrowToNobody ==
  /\ Throws /\ handlers = <<>>
  /\ stage' = "exited"
  /\ msg' = Thrown
  /\ out' = Append(out, <<"throw", Source!S(Text(Thrown))>>)
  /\ UNCHANGED <<prog, image, next, frames, heap, handlers, gvars>>

Stopped == stage \in {"rejected", "done", "exited", "undefined"}

\* A step of the binary that does not wait for the engine.
Run ==
  \/ StartEntry \/ Finish
  \/ Undefined \/ Skip \/ Compute \/ Concat
  \/ AllocArray \/ ArraySet \/ ArrayPush \/ ArrayTake \/ ArrayUnshift \/ ArrayRewrite \/ ArraySplice \/ ArrayCopy
  \/ MakeClosure \/ StoreCaptured \/ StoreGlobalVar
  \/ CallNative \/ CallClosure \/ LoopBegin \/ LoopTurn \/ LoopEnd
  \/ Transfer \/ ReturnToEngine \/ ReturnToCaller \/ WildEnd
  \/ TryBegin \/ TryPop \/ ThrowToHandler \/ ThrowToNobody

Next == Build \/ Run \/ EngineEntry \/ CallBridge

\* A process that can go on does, and the engine answers.
Fairness == WF_vars(Run) /\ []<>~(AtEngineEntry \/ AtBridge)
Spec == Init /\ [][Next]_vars /\ Fairness
=============================================================================
