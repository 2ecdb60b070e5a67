------------------------------- MODULE AotChecks -------------------------------
(***************************************************************************)
(* What a compiled program promises: to do what its source says.           *)
(*                                                                         *)
(* The compiler departs from JavaScript, or refuses a program, in cases    *)
(* that can be told from the source.  Each is named below with the code    *)
(* it comes from, and the properties hold of every other program.          *)
(***************************************************************************)
EXTENDS AotMachine

\* Every node of a block, those inside arrows included.
RECURSIVE Deep(_)
Deep(b) == UNION {{b[j]} \cup Deep(Kids(b[j])) : j \in DOMAIN b}
Body(f) == Deep(f.body)
All == UNION {Body(program.funcs[j]) : j \in DOMAIN program.funcs}
Kind(nodes, k) == {x \in nodes : x.k = k}
Loops == {"while", "do", "for", "forof"}
LoopNodes == {x \in All : x.k \in Loops}
Assigned(nodes) ==
  {x.l.n : x \in {y \in Kind(nodes, "asg") : y.l.k = "id"}} \cup {x.n : x \in Kind(nodes, "upd")}
Names(nodes) == {x.n : x \in Kind(nodes, "id")} \cup {x.n : x \in Kind(nodes, "upd")}
MayThrow(nodes) == \E x \in nodes : x.k \in {"throw", "call"}

\* The types of a function's expressions, as inferred.
Typed == Compiler(program).typed
Has(tf, e, t) == e \in DOMAIN tf.types /\ tf.types[e] = t

\* ---- what is compiled to something else
\* builder.py 436-496: the block of a finally runs behind the body or the
\* handler only; with no handler it ends the exception.
UsesFinally == \E x \in Kind(All, "try") : x.final # <<>>
\* builder.py 441-455: a handler sees the variables as they were before the try.
AssignsThenThrows ==
  \E x \in Kind(All, "try") : \E j \in DOMAIN x.body : \E k \in (j + 1)..Len(x.body) :
    Assigned(Deep(<<x.body[j]>>)) # {} /\ MayThrow(Deep(<<x.body[k]>>))
\* builder.py 428-439: the pop of the handler is behind the jump that leaves.
LeavesTry == \E x \in Kind(All, "try") : \E y \in Deep(x.body) : y.k \in {"ret", "break", "continue"}
\* backend_base.py 2192-2195: the stack of handlers has an end.
RECURSIVE TryDepth(_)
TryDepth(b) ==
  IF b = <<>> THEN 0
  ELSE LET rest == TryDepth(Tail(b))
           here == TryDepth(Kids(Head(b))) + (IF Head(b).k = "try" THEN 1 ELSE 0)
       IN IF here > rest THEN here ELSE rest
TriesDeep == \E j \in DOMAIN program.funcs : TryDepth(program.funcs[j].body) > MaxTry
\* builder.py 391-395: a value that is not a string is thrown as "Error".
ThrowsOther == \E tf \in ToSet(Typed) : \E x \in Kind(Body(tf), "throw") : ~Has(tf, x.e, STR)
\* llvm_generator.py 1581-1654: a buffer is appended to in place though a second
\* variable, a parameter or the other operand holds it.
RECURSIVE Leftmost(_)
Leftmost(e) == IF e.k = "bin" THEN Leftmost(e.l) ELSE e
SharesString ==
  \E tf \in ToSet(Typed) :
    LET Str(e) == e.k = "id" /\ Has(tf, e, STR)
        Lhs(x) == IF x.k = "var" THEN x.n ELSE IF x.l.k = "id" THEN x.l.n ELSE ""
        Rhs(x) == IF x.k = "var" THEN x.e ELSE x.r
        copies == {x \in Body(tf) : x.k = "var" \/ (x.k = "asg" /\ x.op = "=")}
    IN \/ \E x \in copies : Str(Leftmost(Rhs(x))) /\ Leftmost(Rhs(x)).n # Lhs(x)
       \/ \E x \in Kind(Body(tf), "asg") : x.op = "+=" /\ x.l \in Deep(<<x.r>>) /\ Str(x.l)
       \/ \E x \in Kind(Body(tf), "call") : \E j \in DOMAIN x.args : Str(x.args[j])
GrowsString ==
  \E tf \in ToSet(Typed) : \E x \in Body(tf) :
    Has(tf, x, STR) /\ (x.k = "bin" \/ (x.k = "asg" /\ x.op = "+="))
\* builder.py 3642-3670: a closure copies what it captures; but the arrow of a
\* forEach is built in place.
WritesCaptured ==
  \E f \in ToSet(program.funcs) :
    LET inPlace == {x.args[1] : x \in {y \in Kind(Body(f), "method") : y.n = "forEach"}}
    IN \E a \in Kind(Body(f), "arrow") \ inPlace :
         LET inside == Deep(a.body)
             outside == UNION {Deep(<<st>>) : st \in {s \in ToSet(f.body) : a \notin Deep(<<s>>)}}
             own == ToSet(a.params) \cup {x.n : x \in Kind(inside, "var")}
         IN \/ (Assigned(inside) \ own) \cap Names(outside) # {}
            \/ (Names(inside) \ own) \cap Assigned(outside) # {}
\* builder.py 348-370: no loop but the innermost has its variables joined at a
\* jump to a label, and continue knows no label.
JumpsToLabel == \E x \in All : x.k \in {"break", "continue"} /\ x.n # ""
\* llvm_generator.py 119-231: a string global starts as a null pointer; and
\* builder.py 3233-3252: ++ looks for no global.
OddGlobal == \/ \E j \in DOMAIN program.globals : program.globals[j].e.k # "num"
             \/ \E x \in Kind(All, "upd") : \E j \in DOMAIN program.globals : program.globals[j].n = x.n
\* backend_base.py 760-765: a store behind the capacity, which is 4 at least, is
\* dropped; and 426-433: a NaN prints as C prints it.
SetsFar == "far" \in Meaning(program).met
PrintsNaN == "nan" \in Meaning(program).met
\* quickjs_backend.py 77-138: an exception of a function the engine runs
\* becomes a default value.
EngineThrows == \E j \in DOMAIN image.fallback : \E k \in DOMAIN program.funcs :
                  program.funcs[k].n = image.fallback[j].n /\ Kind(Body(program.funcs[k]), "throw") # {}
\* backend_base.py 2871-2879: a function that takes functions is not exported.
CallsUnexported == \E j \in DOMAIN program.entry : \E k \in DOMAIN image.funcs :
                     image.funcs[k].n = program.entry[j].f /\ ~Exported(image.funcs[k])
\* backend_base.py 767-770, 893-897, llvm_generator.py 4427-4441: where JavaScript
\* gives undefined the machine has 0, a NaN or an empty string.
GivesUndefined == "undefined" \in Meaning(program).met \/ \E v \in ToSet(Meaning(program).out) : v = Source!U
\* llvm_generator.py 2578-2587: an argument left out is an infinity, which
\* (int) makes whatever the machine makes of it, or a null pointer.
Methods(tf, t) == {x \in Kind(Body(tf), "method") : Has(tf, x.o, t)}
LeavesOutArgument ==
  \E tf \in ToSet(Typed) :
    \/ \E x \in Methods(tf, STR) : Len(x.args) + 1 < Len(RuntimeSigs["__tsuchi_str_" \o x.n].args)
    \/ \E x \in Methods(tf, NUMBER) : Len(x.args) + 1 < Len(RuntimeSigs["__tsuchi_num_" \o x.n].args)
\* backend_base.py 617-682: nothing is found in front of every letter,
\* and a pad without letters is its terminator.
UsesEmptyText == \E x \in Kind(All, "method") : x.n \in {"replaceAll", "padStart", "padEnd"} /\ StrE(<<>>) \in ToSet(x.args)
\* quickjs_backend.py 166-178, 232-240: arrays cross to the engine
\* as arrays of numbers.
IsStrings(v) == v[1] = "arr" /\ \E e \in ToSet(v[2]) : e[1] = "s"
HandsOutStrings == \E v \in ToSet(Meaning(program).out) : IsStrings(v)

\* llvm_generator.py 2234-2287: C's fmin and fmax pass over a NaN, 2386-2405:
\* Number takes what strtod does, 2425-2440: every string is true.
\* builder.py 2597-2607: a parsed text is a string; 2565-2582: the array
\* Array.from makes of an array is the same one.  backend_base.py 691-697: a
\* character is a byte.
Unlike == {"math", "numeral", "empty", "json", "code"}
ConvertsOtherwise == Unlike \cap Meaning(program).met # {}
ArrayChanges == {"push", "pop", "shift", "unshift", "splice", "reverse", "fill", "sort"}
SharesArray ==
  /\ "copy" \in Meaning(program).met
  /\ \E x \in All : (x.k = "method" /\ x.n \in ArrayChanges) \/ (x.k = "asg" /\ x.l.k = "idx")
\* llvm_generator.py 2407-2423, 2477-2496: an array given to String or
\* JSON.stringify is taken for the text it begins with.
ReadsAsText == {"String", "Number", "Boolean", "stringify", "parseInt", "parseFloat"}
ReadsArrayAsText ==
  \E tf \in ToSet(Typed) :
    \E x \in {y \in Kind(Body(tf), "static") : y.n \in ReadsAsText} \cup {y \in Kind(Body(tf), "call") : y.f \in ReadsAsText} :
      x.args[1] \in DOMAIN tf.types /\ tf.types[x.args[1]][1] = "array"
\* builder.py 3642-3670: an Infinity or a NaN a closure mentions is captured,
\* and no variable of the name has a value to copy.
ClosesOverConstant == \E a \in Kind(All, "arrow") : Names(Deep(a.body)) \cap {"Infinity", "NaN"} # {}
\* llvm_generator.py 3312-3317: a function whose first parameter is a text or an
\* array is taken for an arrow with an environment.  Handed on by its name, it is
\* called with its arguments moved up by one.
HandsTextFunction ==
  \E f \in ToSet(program.funcs) :
    /\ f.n \in Names(All)
    /\ \E tf \in ToSet(Typed) :
         tf.n = f.n /\ tf.ptypes # <<>> /\ (tf.ptypes[1] = STR \/ tf.ptypes[1][1] = "array")
\* llvm_generator.py 3223-3242, 3145-3161, 2222-2232: an array of booleans holds
\* doubles, and a double is written as "false", or as the number it is.
Flags(tf) == {e \in DOMAIN tf.types : tf.types[e] = ArrayOf(BOOL)}
WritesFlags ==
  \E tf \in ToSet(Typed) :
    Flags(tf) # {} /\ (tf.ret = ArrayOf(BOOL) \/ \E e \in DOMAIN tf.types : tf.types[e] = STR)

\* module_merger.py 165-226: a name is rewritten in the statements of a function,
\* not below a return, an operator or a condition; only if the entry imports it;
\* and in whatever scope it is.  150-163: what a file declares is renamed but not
\* where the file mentions it.  24-32: files of one name share their prefix.
\* builder.py 137-168: the top level of a file is looked up in the entry's text.
project == Programs[prog]
Entry == project.files[project.entry]
Others == {p \in DOMAIN project.files : p # project.entry}
FunctionsOf(file) == {d.st : d \in {x \in ToSet(Modules!Declared(file)) : x.st.k = "func"}}
ImportedNames(file) ==
  {sp[2] : sp \in UNION {ToSet(st.specs) : st \in {x \in ToSet(file) : x.k = "import"}}}
TopNames(file) ==
  {d.st.n : d \in {x \in ToSet(Modules!Declared(file)) : x.st.k # "expr"}} \cup ImportedNames(file)
Mentions(nodes) == Names(nodes) \cup {x.f : x \in Kind(nodes, "call")}
RECURSIVE Rewritten(_)
Rewritten(b) ==
  UNION {{b[j]} \cup (IF b[j].k \in {"var", "expr", "call", "idx", "len", "method"} THEN Rewritten(Kids(b[j])) ELSE {})
         : j \in DOMAIN b}
MentionsImportDeep ==
  \E f \in FunctionsOf(Entry) : Mentions(Deep(f.body) \ Rewritten(f.body)) \cap ImportedNames(Entry) # {}
HidesImport ==
  \E p \in DOMAIN project.files : \E f \in FunctionsOf(project.files[p]) :
    (ToSet(f.params) \cup {x.n : x \in Kind(Deep(f.body), "var")}) \cap ImportedNames(Entry) # {}
SameNames(file) ==
  {sp[1] : sp \in {y \in UNION {ToSet(st.specs) : st \in {x \in ToSet(file) : x.k = "import"}} : y[1] = y[2]}}
MentionsOwn ==
  \E p \in Others :
    LET file == project.files[p]
        bodies == UNION {Deep(f.body) : f \in FunctionsOf(file)} \cup Deep(SelectSeq(file, LAMBDA st : st.k = "expr"))
    IN Mentions(bodies) \cap (TopNames(file) \ SameNames(Entry)) # {}
SharesName == \E p, q \in Others : p # q /\ p.stem = q.stem
RunsOnLoad == \E p \in Others : \E d \in ToSet(Modules!Declared(project.files[p])) : d.st.k = "expr"
Misnames == IsProject(project) /\ (MentionsImportDeep \/ HidesImport \/ MentionsOwn \/ SharesName)

\* what shows only once something was thrown
Threw == msg # Null
Departs ==
  \/ UsesFinally \/ Misnames \/ (IsProject(project) /\ RunsOnLoad)
  \/ Threw /\ (AssignsThenThrows \/ LeavesTry \/ TriesDeep \/ ThrowsOther)
  \/ SharesString /\ GrowsString
  \/ WritesCaptured
  \/ JumpsToLabel \/ OddGlobal \/ SetsFar \/ PrintsNaN \/ EngineThrows \/ CallsUnexported \/ GivesUndefined
  \/ LeavesOutArgument \/ UsesEmptyText \/ HandsOutStrings
  \/ ConvertsOtherwise \/ SharesArray \/ ReadsArrayAsText \/ ClosesOverConstant
  \/ HandsTextFunction \/ WritesFlags

\* ---- what is refused
\* builder.py 1364-1429: a break behind a condition is an edge the exit of its
\* switch does not count, and any break one the loop around it does.
BreaksInSwitch ==
  \E x \in Kind(All, "switch") : \E c \in ToSet(x.cases) :
    \/ \E st \in ToSet(c.body) : st.k = "if" /\ Kind(Deep(<<st>>), "break") # {}
    \/ \E l \in LoopNodes : x \in Deep(l.body) /\ Kind(Deep(c.body), "break") # {}
\* builder.py 2747-2795: the loop a forEach becomes would return from its function.
ReturnsInForEach ==
  \E x \in Kind(All, "method") : x.n = "forEach" /\ \E y \in Deep(x.args) : y.k = "ret"
\* builder.py 791, 937-942, 1139: the test of a loop is taken to end in the block
\* it began in, by the back edge of a do loop and by the exit of any that is left
\* by a break.
BranchesInTest ==
  \E x \in LoopNodes \ Kind(All, "forof") :
    /\ x.k = "do" \/ Kind(Deep(x.body), "break") # {}
    /\ \E y \in Deep(<<x.c>>) : y.k \in {"log", "tern"}
\* builder.py 672-692: an array has no phi.
AssignsArrayInLoop ==
  \E tf \in ToSet(Typed) : \E l \in {x \in Body(tf) : x.k \in Loops} :
    \E x \in Kind(Deep(l.body), "asg") : x.l.k = "id" /\ x.r \in DOMAIN tf.types /\ tf.types[x.r][1] = "array"
\* llvm_generator.py 4365-4414: one return type.
Results(outs) == {<<program.entry[j].f, outs[j][1]>> : j \in DOMAIN outs}
ReturnsMixed == \E v, w \in Results(Meaning(program).out) : v[1] = w[1] /\ v[2] # w[2] /\ "throw" \notin {v[2], w[2]}
\* js_inferrer.py 945-948, llvm_generator.py 2845-2857: a function used with two
\* types is left to the engine, and the bridge to the engine takes numbers.
HandsEngineString ==
  \E tf \in ToSet(Typed) : \E x \in Kind(Body(tf), "call") :
    /\ \E e \in ToSet(Typed) : e.n = x.f /\ ~e.compilable
    /\ \E j \in DOMAIN x.args : Has(tf, x.args[j], STR)
\* llvm_generator.py 2609-2787, 3913-4067, 4202-4313: what an array gives or
\* takes through the runtime is a double.
TakesDoubles == {"find", "sort", "indexOf", "lastIndexOf", "includes", "unshift", "fill", "pop", "shift", "at"}
UsesStringsAsDoubles ==
  \E tf \in ToSet(Typed) : \E x \in Methods(tf, ArrayOf(STR)) : x.n \in TakesDoubles
\* js_inferrer.py 281-300: the calls of JSON.stringify share the type of their
\* argument, and so do those of Array.isArray; 268, 2062-2090: parseInt takes a
\* text, isNaN a number.
SharesType ==
  \E m \in {"stringify", "isArray"} :
    Cardinality(UNION {{tf.types[x.args[1]] : x \in {y \in Kind(Body(tf), "static") : y.n = m /\ y.args[1] \in DOMAIN tf.types}}
                       : tf \in ToSet(Typed)}) > 1
TakesNumber == {"isNaN", "isInteger", "isFinite", "fromCharCode"}
TakesText == {"parseInt", "parseFloat", "parse"}
HandsOther ==
  \E tf \in ToSet(Typed) : \E x \in Kind(Body(tf), "static") \cup Kind(Body(tf), "call") :
    LET f == IF x.k = "call" THEN x.f ELSE x.n
    IN \/ (f \in TakesNumber \/ (x.k = "static" /\ x.ns = "Math")) /\ Has(tf, x.args[1], STR)
       \/ f \in TakesText /\ ~Has(tf, x.args[1], STR)
\* js_inferrer.py 1456-1464, builder.py 2597-2607: what JSON.parse gives has a type
\* nothing fixes, and is built as a string.
ParsesUnknown ==
  \E tf \in ToSet(Typed) : \E x \in Kind(Body(tf), "static") : x.n = "parse" /\ ~Has(tf, x, STR)
\* llvm_generator.py 3410-3460: an arrow that mentions String, Number, JSON or
\* Array captures the object.
NamesObjectInArrow ==
  \E a \in Kind(All, "arrow") : \E x \in Deep(a.body) :
    (x.k \in {"static", "member"} /\ x.ns # "Math") \/ (x.k = "call" /\ x.f \in {"String", "Number"})
\* llvm_generator.py 3145-3161, 3514-3555: nor does a callback, or a phi, take the
\* double an element of an array of booleans is.
UsesFlags ==
  \E tf \in ToSet(Typed) :
    \/ \E x \in Methods(tf, ArrayOf(BOOL)) : Kind(Deep(x.args), "arrow") \cup Kind(Deep(x.args), "id") # {}
    \/ /\ Flags(tf) # {}
       /\ \E x \in Body(tf) : (x.k = "asg" /\ Has(tf, x.r, BOOL)) \/ (x.k \in {"log", "tern"} /\ Has(tf, x, BOOL))

Refusable ==
  \/ Misnames
  \/ UsesFinally \/ BreaksInSwitch \/ ReturnsInForEach \/ BranchesInTest \/ AssignsArrayInLoop
  \/ ReturnsMixed \/ HandsEngineString \/ UsesStringsAsDoubles
  \/ SharesType \/ HandsOther \/ ParsesUnknown \/ NamesObjectInArrow \/ UsesFlags

\* ---- properties
\* A value in a register has the machine type its instruction was generated
\* with: what the type checker inferred is what arrives, through calls,
\* callbacks, closures, handlers and the engine's wrappers.  Only a function of
\* a text or an array that is handed on by its name gets words of other types.
Fits(w, ty) ==
  CASE ty = "f64" -> w[1] = "n"
    [] ty = "i1" -> w[1] = "b"
    [] ty = "pair" -> w[1] = "f"
    [] OTHER -> w[1] \in {"lit", "p", "a", "null", "wild"}
WordsFit ==
  \A j \in DOMAIN frames :
    LET g == image.gen[frames[j].f]
    IN \A r \in DOMAIN frames[j].regs \cap DOMAIN g.vt : Fits(frames[j].regs[r], g.vt[r])
WordsHaveTheirType == WordsFit \/ HandsTextFunction

\* A binary that has run printed what JavaScript would have, and none follows
\* a pointer C leaves undefined: of every program that avoids what Departs names.
MeansWhatItSays ==
  stage = "undefined" \/ (stage \in {"done", "exited"} /\ out # Meaning(program).out) => Departs

\* The compiler takes every program that avoids what Refusable names.
Accepted == stage = "rejected" => Refusable

\* A buffer longjmp may go to is one of a call still running, and none is left
\* when the entry's call has returned: unless the program leaves a try early.
HandlersLive ==
  LeavesTry \/ \A j \in DOMAIN handlers : \E k \in DOMAIN frames : frames[k].id = handlers[j].id

\* A binary that was started comes to its end.
EveryProgramEnds == stage = "run" ~> Stopped
=============================================================================
