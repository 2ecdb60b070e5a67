------------------------------ MODULE AotCompile ------------------------------
(***************************************************************************)
(* The compiler's pipeline (compiler.py): merge the files of a program     *)
(* that imports others, infer, build, optimize, generate, and let LLVM     *)
(* verify and compile the result.  Only the last phase is guarded: an      *)
(* exception of the generator reaches the caller of the compiler.          *)
(***************************************************************************)
EXTENDS AotGenerate

CONSTANT JsBuiltins

Inferrer == INSTANCE AotInfer
Modules == INSTANCE AotModules

\* ---- how a compilation ends
Diagnostics == "diagnostics"    \* rejected by the type checker
NothingToDo == "nothing"        \* no function and no statement to compile
GeneratorError == "exception"   \* a type LLVM's builder refuses: not caught
BackendError == "backend"       \* the module does not verify: a diagnostic
Success == "ok"

\* The image: the optimized module, what the generator made of each function,
\* which left operands a concatenation may build on, the statements the engine
\* runs and the names it knows functions of other files by.
Image(hir, texts, aliases) ==
  [funcs |-> hir.funcs, fallback |-> hir.fallback, globals |-> hir.globals,
   inits |-> hir.inits, jsInits |-> hir.jsInits,
   gen |-> [j \in DOMAIN hir.funcs |-> GenFunction(hir, hir.funcs[j])],
   owned |-> [j \in DOMAIN hir.funcs |-> OwnedCandidates(hir.funcs[j])],
   texts |-> texts, aliases |-> aliases]

\* Async functions are left to the C generator.
Natives(image) == {j \in DOMAIN image.funcs : ~image.funcs[j].async}
\* LLVM's builder takes every name once.
Generated(image) ==
  /\ \A j \in Natives(image) : image.gen[j].ok
  /\ \A j, k \in Natives(image) : image.funcs[j].n = image.funcs[k].n => j = k

CompileUnit(p, texts, aliases) ==
  LET typed == Inferrer!CheckModule(p)
      hir == BuildModule(typed, p)
      image == Image(OptimizeModule(hir), texts, aliases)
      Ends(how) == [how |-> how, image |-> image, typed |-> typed.typed]
  IN CASE typed.errs -> [how |-> Diagnostics, image |-> <<>>, typed |-> typed.typed]
       [] ~typed.errs /\ hir.funcs = <<>> /\ hir.fallback = <<>> /\ p.entry = <<>> -> Ends(NothingToDo)
       [] OTHER -> IF ~Generated(image) THEN Ends(GeneratorError)
                   ELSE IF \E j \in Natives(image) : ~Verified(image.funcs[j], image.gen[j]) THEN Ends(BackendError)
                   ELSE Ends(Success)

\* A file that imports nothing is compiled by itself.
CompileSource(p) == CompileUnit(p, [j \in DOMAIN p.entry |-> Ex(p.entry[j])], <<>>)
CompileMultiModule(project) ==
  LET merged == Modules!merge_modules(project) IN CompileUnit(merged, merged.texts, merged.aliases)
IsProject(p) == "files" \in DOMAIN p
Compile(p) ==
  LET compiled == IF IsProject(p) /\ Modules!has_imports(p) THEN CompileMultiModule(p) ELSE CompileSource(p)
  IN compiled
=============================================================================
