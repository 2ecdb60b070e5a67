------------------------------ MODULE AotAsync ------------------------------
(***************************************************************************)
(* async functions in a compiled binary (taiyaki-aot-compiler,             *)
(* codegen/backend_base.py and quickjs_backend.py).  Each becomes a struct *)
(* and a function moveNext, a switch whose cases are the code between two  *)
(* awaits; a promise keeps the structs to resume, at most MaxConts; libuv  *)
(* fires timers and collects what its threads did.                         *)
(*                                                                         *)
(* A program is what the optimizer hands on: functions of blocks of HIR    *)
(* instructions, and the entry's statements.  Of values only promises are  *)
(* told apart.  Instructions of the same effect are one: "let" computes    *)
(* (HIRConst, HIRBinaryOp, HIRUnaryOp, HIRCompare), "log" is a call of     *)
(* console.log, "work" one of fetch, readFile or writeFile, "native" one   *)
(* of a function of the program that is not asynchronous.                  *)
(***************************************************************************)
EXTENDS Integers, FiniteSets, SequencesExt

CONSTANTS Programs,  \* the programs compiled
          Vars,      \* the names of SSA variables
          MaxConts,  \* structs a promise can keep: 8 in the code
          Threads    \* of libuv's pool: 4 unless the environment says otherwise

VARIABLES
  program,   \* what is compiled and run
  stage,     \* of main()
  called,    \* the statement of the entry whose call was made last
  frames,    \* the structs SM_f, in the order of their calloc
  promises,  \* the TsuchiPromises, which are never freed
  stack,     \* the C functions under way, the one that runs last
  timers,    \* promises of timers, in the order they were started
  queued,    \* promises of work no thread has taken
  working,   \* promises of work a thread is at
  finished   \* promises of work whose callback is due

processVars == <<program, stage, called, frames, promises, stack, timers,
                 queued, working, finished>>

loopVars == <<timers, queued, working, finished>>

\* What a variable holds: a promise, by its number, or one of these.
Zero    == 0   \* what calloc left there
Datum   == -1  \* a number, string or boolean
Garbage == -2  \* what was read of a struct after free

-----------------------------------------------------------------------------
(* _generate_one_async_function: the code of a function                     *)

Defining == {"let", "native", "call", "timer", "work", "await", "phi"}
Ending   == {"return", "branch", "jump"}
Ops      == Defining \cup Ending \cup {"log"}

\* x is what the instruction defines; fn the function called, or the
\* milliseconds of a timer; void is an await of nothing.
Instrs == [op : Ops, x : Vars, args : Seq(Vars), fn : Nat, void : BOOLEAN]

Functions == [params : Seq(Vars),      \* all parameters
              promised : SUBSET Vars,  \* those that are promises
              blocks : Seq(Seq(Instrs))]

\* "Flatten all instructions from all basic blocks into a linear sequence".
Flat(f) == FlattenSeq(f.blocks)

ReturnsAtEnd(code) ==
  \E i \in DOMAIN code : /\ code[i].op = "return"
                         /\ \A j \in i..Len(code) : code[j].op # "await"

ImplicitReturn == [op |-> "return", x |-> CHOOSE v \in Vars : TRUE,
                   args |-> <<>>, fn |-> 0, void |-> FALSE]

Code(f) ==
  IF ReturnsAtEnd(Flat(f)) THEN Flat(f) ELSE Append(Flat(f), ImplicitReturn)

\* Two places are in the same case of the switch unless an await is between.
SameCase(code, i, j) == \A k \in i..(j - 1) : code[k].op # "await"

Defines(instr, v) == instr.op \in Defining /\ instr.x = v

\* Mutant for GoesWrongOnly: what is awaited is no use of it.
UsesWithoutAwait(instr, v) ==
  /\ instr.op \in {"let", "log", "native", "call", "return", "branch"}
  /\ v \in ToSet(instr.args)

\* Collected as uses.
Uses(instr, v) ==
  /\ instr.op \in {"let", "log", "native", "call", "await", "return", "branch"}
  /\ v \in ToSet(instr.args)

\* The variables kept in the struct: parameters, results of awaits, and what is
\* defined in one case and used in a later one.
Fields(f) ==
  {v \in Vars :
     \/ v \in ToSet(f.params)
     \/ \E i \in DOMAIN Flat(f) :
          /\ Defines(Flat(f)[i], v)
          /\ \/ Flat(f)[i].op = "await" /\ ~Flat(f)[i].void
             \/ /\ Flat(f)[i].op # "await"
                /\ \E j \in (i + 1)..Len(Flat(f)) :
                     ~SameCase(Flat(f), i, j) /\ Uses(Flat(f)[j], v)}

-----------------------------------------------------------------------------
(* The C compiler                                                           *)

\* A branch is a comment in the code, and so is what a phi chooses.
Reads(instr, v) == instr.op # "branch" /\ Uses(instr, v)

\* v is a field, or a local declared before in the same case.
Declared(f, i, v) ==
  \/ v \in Fields(f)
  \/ \E j \in 1..(i - 1) : /\ Defines(Flat(f)[j], v)
                           /\ Flat(f)[j].op \notin {"await", "phi"}
                           /\ SameCase(Flat(f), j, i)

\* Functions are written in the order of the file and not declared before: one
\* can call itself and those before it.  What is not asynchronous is declared
\* after them all.
Compiles(prog) ==
  \A n \in DOMAIN prog.functions :
    LET f == prog.functions[n] IN
    \A i \in DOMAIN Flat(f) :
      /\ Flat(f)[i].op # "native"
      /\ Flat(f)[i].op = "call" => Flat(f)[i].fn <= n
      /\ \A v \in Vars : Reads(Flat(f)[i], v) => Declared(f, i, v)

-----------------------------------------------------------------------------
(* What is compiled: each variable is defined once, before it is read; what   *)
(* is awaited is a promise, and nothing else is done with one, but that of a  *)
(* timer or a request may be handed to a function: the checker takes a call of *)
(* an asynchronous function for its result.                                   *)

Results(f, ops) == {v \in Vars : \E i \in DOMAIN Flat(f) :
                                   Flat(f)[i].op \in ops /\ Flat(f)[i].x = v}

ApiPromises(f) == f.promised \cup Results(f, {"timer", "work"})
Promised(f)    == ApiPromises(f) \cup Results(f, {"call", "phi"})

WellTyped(prog, f) ==
  /\ f.promised \subseteq ToSet(f.params)
  /\ f.blocks # <<>>
  /\ \A b \in DOMAIN f.blocks :
       f.blocks[b] # <<>> /\ Last(f.blocks[b]).op \in Ending
  /\ \A i \in DOMAIN Flat(f) : Flat(f)[i].op \in Defining =>
       /\ Flat(f)[i].x \notin ToSet(f.params)
       /\ \A j \in DOMAIN Flat(f) : Defines(Flat(f)[j], Flat(f)[i].x) => i = j
  /\ \A i \in DOMAIN Flat(f) :
       LET instr == Flat(f)[i] IN
       /\ \A v \in Vars : Reads(instr, v) =>
            v \in ToSet(f.params) \/ \E j \in 1..(i - 1) : Defines(Flat(f)[j], v)
       /\ instr.op = "await" =>
            Len(instr.args) = 1 /\ instr.args[1] \in Promised(f)
       /\ instr.op \in {"let", "log", "branch"} =>
            ToSet(instr.args) \cap Promised(f) = {}
       /\ instr.op = "call" =>
            /\ instr.fn \in DOMAIN prog.functions
            /\ LET g == prog.functions[instr.fn] IN
               /\ Len(instr.args) = Len(g.params)
               /\ \A k \in DOMAIN instr.args :
                    IF g.params[k] \in g.promised
                    THEN instr.args[k] \in ApiPromises(f)
                    ELSE instr.args[k] \notin Promised(f)

\* entry: the statements of the file, an asynchronous function that is called
\* without arguments, or 0 for anything else.
IsProgram(prog) ==
  /\ prog.functions \in Seq(Functions)
  /\ prog.entry \in Seq(0..Len(prog.functions))
  /\ \A n \in DOMAIN prog.entry : prog.entry[n] # 0 =>
       prog.functions[prog.entry[n]].params = <<>>
  /\ \A n \in DOMAIN prog.functions : WellTyped(prog, prog.functions[n])

ASSUME AotAsyncAssumption ==
  /\ Vars # {}
  /\ \A prog \in Programs : IsProgram(prog)
  /\ MaxConts \in Nat \ {0} /\ Threads \in Nat \ {0}

ProcessInit ==
  /\ program \in Programs
  /\ stage = IF Compiles(program) THEN "script" ELSE "refused"
  /\ called = 0
  /\ frames = <<>> /\ promises = <<>> /\ stack = <<>>
  /\ timers = <<>> /\ queued = <<>> /\ working = {} /\ finished = <<>>

-----------------------------------------------------------------------------
(* main()                                                                   *)

\* The statements that are no plain call of an asynchronous function are
\* evaluated by the engine, all before the first such call.
Evaluate ==
  /\ stage = "script"
  /\ stage' = "entry"
  /\ UNCHANGED <<program, called, frames, promises, stack, loopVars>>

\* A C function that is under way: moveNext of a struct, at a place in the
\* code; the function that made the struct; or the loop over the continuations
\* of a promise, at is those that were called.
Call(kind, id, at) == [kind |-> kind, id |-> id, at |-> at]

Pending == [resolved |-> FALSE, conts |-> <<>>]

FnOf(id) == program.functions[frames[id].fn]
CodeOf(id) == Code(FnOf(id))

\* _tsuchi_f: it makes the struct and its promise, and moves it.
Enter(fn, args, below) ==
  LET params == program.functions[fn].params IN
  /\ frames' = Append(frames,
       [fn |-> fn, state |-> 1, awaited |-> Zero, freed |-> FALSE,
        result |-> Len(promises) + 1,
        vars |-> [v \in Vars |->
                   IF v \in ToSet(params)
                   THEN args[SelectInSeq(params, LAMBDA p : p = v)] ELSE Zero]])
  /\ promises' = Append(promises, Pending)
  /\ stack' = below \o <<Call("entry", Len(frames) + 1, 0),
                         Call("move", Len(frames) + 1, 1)>>

\* The plain calls that main() has still to make.
ToCall == {n \in (called + 1)..Len(program.entry) : program.entry[n] # 0}

EntryCall ==
  /\ stage = "entry" /\ stack = <<>>
  /\ ToCall # {}
  /\ called' = Min(ToCall)
  /\ Enter(program.entry[called'], <<>>, <<>>)
  /\ UNCHANGED <<program, stage, loopVars>>

\* tsuchi_loop_run.
RunLoop ==
  /\ stage = "entry" /\ stack = <<>>
  /\ ToCall = {}
  /\ stage' = "loop"
  /\ UNCHANGED <<program, called, frames, promises, stack, loopVars>>

\* Mutant for NothingForgotten: the loop ends with callbacks still to be called.
IdleThreads == timers = <<>> /\ queued = <<>> /\ working = {}

\* uv_run returns when no timer and no request is left, and main() with it.
Idle == timers = <<>> /\ queued = <<>> /\ working = {} /\ finished = <<>>

LoopReturns ==
  /\ stage = "loop" /\ stack = <<>>
  /\ Idle
  /\ stage' = "done"
  /\ UNCHANGED <<program, called, frames, promises, stack, loopVars>>

-----------------------------------------------------------------------------
(* moveNext, an instruction a step                                          *)

Top == Last(stack)
Below == Front(stack)

Instr == CodeOf(Top.id)[Top.at]

Moving(ops) ==
  /\ stage \in {"entry", "loop"}
  /\ stack # <<>> /\ Top.kind = "move"
  /\ Instr.op \in ops

GoOn == stack' = Append(Below, [Top EXCEPT !.at = @ + 1])

Assign(id, v, value) == frames' = [frames EXCEPT ![id].vars[v] = value]

Compute ==
  /\ Moving({"let"})
  /\ Assign(Top.id, Instr.x, Datum)
  /\ GoOn
  /\ UNCHANGED <<program, stage, called, promises, loopVars>>

\* What the model does not see is printed, or what is a comment in C: blocks
\* follow one another, whatever a branch decides and a phi chooses.
PassOver ==
  /\ Moving({"log", "branch", "jump", "phi"})
  /\ GoOn
  /\ UNCHANGED <<program, stage, called, frames, promises, loopVars>>

CallAsync ==
  /\ Moving({"call"})
  /\ Enter(Instr.fn,
           [k \in DOMAIN Instr.args |-> frames[Top.id].vars[Instr.args[k]]],
           stack)
  /\ UNCHANGED <<program, stage, called, loopVars>>

\* moveNext has returned to the function that made the struct, which reads the
\* promise to return from it.  If the code ran to its end, the struct is freed.
Read(id) == IF frames[id].freed THEN {frames[id].result, Garbage}
            ELSE {frames[id].result}

ReturnPromise ==
  /\ stage \in {"entry", "loop"}
  /\ stack # <<>> /\ Top.kind = "entry"
  /\ IF Below = <<>>
     THEN stack' = <<>> /\ UNCHANGED frames
     ELSE LET caller == Last(Below) IN
          /\ \E value \in Read(Top.id) :
               Assign(caller.id, CodeOf(caller.id)[caller.at].x, value)
          /\ stack' = Append(Front(Below), [caller EXCEPT !.at = @ + 1])
  /\ UNCHANGED <<program, stage, called, promises, loopVars>>

StartTimer ==
  /\ Moving({"timer"})
  /\ promises' = Append(promises, Pending)
  /\ timers' = Append(timers, [promise |-> Len(promises) + 1, ms |-> Instr.fn])
  /\ Assign(Top.id, Instr.x, Len(promises) + 1)
  /\ GoOn
  /\ UNCHANGED <<program, stage, called, queued, working, finished>>

QueueWork ==
  /\ Moving({"work"})
  /\ promises' = Append(promises, Pending)
  /\ queued' = Append(queued, Len(promises) + 1)
  /\ Assign(Top.id, Instr.x, Len(promises) + 1)
  /\ GoOn
  /\ UNCHANGED <<program, stage, called, timers, working, finished>>

-----------------------------------------------------------------------------
(* Promises                                                                 *)

\* What the struct keeps from one case to the next.
Kept(id) == [v \in Vars |-> IF v \in Fields(FnOf(id)) THEN frames[id].vars[v]
                           ELSE Zero]

\* The result of an await, which ends a case.
Extract(await, held) == IF await.void THEN held ELSE [held EXCEPT ![await.x] = Datum]

Awaited == frames[Top.id].vars[Instr.args[1]]

\* tsuchi_promise_then: there is room for MaxConts.
Then(promise, id) ==
  promises' = IF Len(promises[promise].conts) < MaxConts
              THEN [promises EXCEPT ![promise].conts = Append(@, id)]
              ELSE promises

AwaitPending ==
  /\ Moving({"await"})
  /\ Awaited \in DOMAIN promises
  /\ ~promises[Awaited].resolved
  /\ frames' = [frames EXCEPT ![Top.id].awaited = Awaited,
                              ![Top.id].state = Top.at + 1,
                              ![Top.id].vars = Kept(Top.id)]
  /\ Then(Awaited, Top.id)
  /\ stack' = Below
  /\ UNCHANGED <<program, stage, called, loopVars>>

\* Of a promise that is resolved: the code falls through to the next case.
AwaitResolved ==
  /\ Moving({"await"})
  /\ Awaited \in DOMAIN promises
  /\ promises[Awaited].resolved
  /\ frames' = [frames EXCEPT ![Top.id].awaited = Awaited,
                              ![Top.id].vars = Extract(Instr, Kept(Top.id))]
  /\ GoOn
  /\ UNCHANGED <<program, stage, called, promises, loopVars>>

\* Of what is no promise: a null pointer or one that was read after free.
AwaitNothing ==
  /\ Moving({"await"})
  /\ Awaited \notin DOMAIN promises
  /\ stage' = "undefined"
  /\ UNCHANGED <<program, called, frames, promises, stack, loopVars>>

\* tsuchi_promise_resolve_*, up to the loop over the continuations.
Resolve(promise, below) ==
  /\ promises' = [promises EXCEPT ![promise].resolved = TRUE]
  /\ stack' = Append(below, Call("resolve", promise, 0))

Return ==
  /\ Moving({"return"})
  /\ ~promises[frames[Top.id].result].resolved
  /\ Resolve(frames[Top.id].result, stack)
  /\ UNCHANGED <<program, stage, called, frames, loopVars>>

FreeStruct ==
  /\ Moving({"return"})
  /\ promises[frames[Top.id].result].resolved
  /\ frames' = [frames EXCEPT ![Top.id].freed = TRUE]
  /\ stack' = Below
  /\ UNCHANGED <<program, stage, called, promises, loopVars>>

Resolving ==
  /\ stage \in {"entry", "loop"}
  /\ stack # <<>> /\ Top.kind = "resolve"

\* The next continuation is called: moveNext, at the case of its state.
Continue ==
  /\ Resolving
  /\ Top.at < Len(promises[Top.id].conts)
  /\ LET id == promises[Top.id].conts[Top.at + 1] IN
     /\ frames' = [frames EXCEPT ![id].vars =
                     Extract(CodeOf(id)[frames[id].state - 1], @)]
     /\ stack' = Below \o <<[Top EXCEPT !.at = @ + 1],
                            Call("move", id, frames[id].state)>>
  /\ UNCHANGED <<program, stage, called, promises, loopVars>>

\* Mutant for WakesOnce: cont_count is not reset.
KeepConts(promise) == UNCHANGED promises

Forget(promise) == promises' = [promises EXCEPT ![promise].conts = <<>>]

ResolveEnds ==
  /\ Resolving
  /\ Top.at = Len(promises[Top.id].conts)
  /\ Forget(Top.id)
  /\ stack' = Below
  /\ UNCHANGED <<program, stage, called, frames, loopVars>>

-----------------------------------------------------------------------------
(* libuv: the loop, when no C function is under way, and its threads        *)

InLoop == stage = "loop" /\ stack = <<>>

\* Mutant for Ends: the timer is started with a repeat.
Repeats(i) == UNCHANGED timers

\* A timer fires once (a repeat of 0).
Expires(i) == timers' = RemoveAt(timers, i)

\* Of two timers the one with fewer milliseconds is first, unless it was
\* started later.
FireTimer ==
  /\ InLoop
  /\ \E i \in DOMAIN timers :
       /\ \A j \in 1..(i - 1) : timers[j].ms > timers[i].ms
       /\ Expires(i)
       /\ Resolve(timers[i].promise, stack)
  /\ UNCHANGED <<program, stage, called, frames, queued, working, finished>>

TakeWork ==
  /\ stage \in {"entry", "loop"}
  /\ queued # <<>> /\ Cardinality(working) < Threads
  /\ queued' = Tail(queued)
  /\ working' = working \cup {Head(queued)}
  /\ UNCHANGED <<program, stage, called, frames, promises, stack, timers,
                 finished>>

EndWork ==
  /\ stage \in {"entry", "loop"}
  /\ \E promise \in working :
       /\ working' = working \ {promise}
       /\ finished' = Append(finished, promise)
  /\ UNCHANGED <<program, stage, called, frames, promises, stack, timers,
                 queued>>

WorkDone ==
  /\ InLoop
  /\ finished # <<>>
  /\ finished' = Tail(finished)
  /\ Resolve(Head(finished), stack)
  /\ UNCHANGED <<program, stage, called, frames, timers, queued, working>>

-----------------------------------------------------------------------------
MainThread ==
  \/ Evaluate \/ EntryCall \/ RunLoop \/ LoopReturns
  \/ Compute \/ PassOver
  \/ CallAsync \/ ReturnPromise \/ StartTimer \/ QueueWork
  \/ AwaitPending \/ AwaitResolved \/ AwaitNothing
  \/ Return \/ FreeStruct \/ Continue \/ ResolveEnds
  \/ FireTimer \/ WorkDone

Pool == TakeWork \/ EndWork

ProcessNext == MainThread \/ Pool

\* The process runs while it can, and so do its threads; timers come due.
ProcessFairness == WF_processVars(MainThread) /\ WF_processVars(Pool)

ProcessSpec == ProcessInit /\ [][ProcessNext]_processVars /\ ProcessFairness

-----------------------------------------------------------------------------
(* Properties                                                               *)

\* A struct whose code waits: it is neither freed nor on the stack.
OnStack(kind, id) == \E i \in DOMAIN stack : stack[i].kind = kind /\ stack[i].id = id

Suspended(id) == ~frames[id].freed /\ ~OnStack("move", id)

\* It found no room among the continuations of the promise it waits for.
Refused(id) ==
  Suspended(id) /\ id \notin ToSet(promises[frames[id].awaited].conts)

\* A promise is resolved by one thing: a timer, a request, or the struct
\* whose result it is, and that is still to come.
Due(promise) ==
  \/ \E i \in DOMAIN timers : timers[i].promise = promise
  \/ promise \in ToSet(queued) \cup working \cup ToSet(finished)
  \/ \E id \in DOMAIN frames : frames[id].result = promise /\ ~frames[id].freed

Running == stage \in {"entry", "loop", "done"}

\* The continuations of a promise that were not called yet.
ToResume(promise) ==
  LET conts == promises[promise].conts IN
  {conts[i] : i \in {i \in DOMAIN conts :
     \A n \in DOMAIN stack :
       stack[n].kind = "resolve" /\ stack[n].id = promise => stack[n].at < i}}

\* A struct is resumed by one call of moveNext after each await, and never
\* after it was freed: what a promise still has to resume is suspended, waits for
\* this promise, and is there once; a promise that is resolved has called all it
\* kept, and one that is not has something left to resolve it
\* (tsuchi_promise_then, tsuchi_promise_resolve_*, moveNext).
WakesOnce ==
  Running =>
    /\ \A p \in DOMAIN promises :
         /\ \A id \in ToResume(p) : Suspended(id) /\ frames[id].awaited = p
         /\ \A i, j \in DOMAIN promises[p].conts :
              promises[p].conts[i] = promises[p].conts[j] => i = j
         /\ IF promises[p].resolved
            THEN OnStack("resolve", p) \/ ToResume(p) = {} ELSE Due(p)
    /\ \A i, j \in DOMAIN stack :
         stack[i].kind = "move" /\ stack[j].kind = "move" /\ stack[i].id = stack[j].id
         => i = j
    /\ \A i \in DOMAIN stack : stack[i].kind = "move" => ~frames[stack[i].id].freed

\* When main() returns, an asynchronous function that was called has run to its
\* end, unless its await was the one too many of a promise, or it waits for a
\* call it made that has not ended either: no request, timer or function is lost
\* that this has not kept from going on (tsuchi_loop_run, tsuchi_promise_then).
NothingForgotten ==
  stage = "done" =>
    \A id \in DOMAIN frames :
      \/ frames[id].freed
      \/ Refused(id)
      \/ \E later \in (id + 1)..Len(frames) :
           ~frames[later].freed /\ frames[id].awaited = frames[later].result

\* What a program must not do that this scheme makes go wrong.
CallsUndeclared(prog) ==
  \E n \in DOMAIN prog.functions : \E i \in DOMAIN Flat(prog.functions[n]) :
    LET instr == Flat(prog.functions[n])[i] IN
    instr.op = "native" \/ (instr.op = "call" /\ instr.fn > n)

Chosen(f) == Results(f, {"phi"})
Nothing(f) == {v \in Vars : \E i \in DOMAIN Flat(f) :
                 Flat(f)[i].op = "await" /\ Flat(f)[i].x = v /\ Flat(f)[i].void}

ReadsUnknown(prog, unknown(_)) ==
  \E n \in DOMAIN prog.functions :
    LET f == prog.functions[n] IN
    \E i \in DOMAIN Flat(f) : \E v \in unknown(f) : Reads(Flat(f)[i], v)

\* Variables are in scope and hold what they should whatever awaits are between
\* their definition and their use: a program is refused by the C compiler, or
\* awaits what is no promise, only if it calls a function that is written
\* later, reads what a branch chose or what an await of nothing gave, or calls
\* a function that returned before it was ever suspended
\* (_generate_one_async_function).
GoesWrongOnly ==
  /\ stage = "refused" =>
       \/ CallsUndeclared(program)
       \/ ReadsUnknown(program, Chosen) \/ ReadsUnknown(program, Nothing)
  /\ stage = "undefined" =>
       \/ ReadsUnknown(program, Chosen)
       \/ \E id \in DOMAIN frames : frames[id].freed /\ frames[id].state = 1

\* The process ends, however timers and requests come in.
Ends == <>(stage \in {"done", "undefined", "refused"})
=============================================================================
