# Taiyaki in TLA+

Taiyaki (`src/`) is a JavaScript runtime in Rust (QuickJS or JavaScriptCore behind one
interface) with Node-compatible modules, an HTTP/WebSocket server called Katana, Python
bindings, a Python web framework (`taiyaki-web`) that renders components on the server, and an
ahead-of-time (AOT) compiler from JavaScript to native code. This directory holds TLA+ models of the
parts of it that are concurrent or stateful and of the AOT compiler, the TLC runs that check them on
small instances, and TLAPS proofs for every instance.

Run everything from this directory: `tlc -config X.cfg M` checks a run, `tlapm M.tla` a proof.
`PROJECT.json` lists the runs, maps every definition to the lines it models, and names for every
property a mutation of the model (a plausible bug) that the property catches; the mutated
definitions stand in the modules, marked *Mutant*.

## 1. Inventory

The program is single-threaded where it runs JavaScript: `main.rs` builds a current-thread tokio
runtime, so Rust tasks, host functions and JavaScript interleave only at awaits, and an action of
these models is the code between two awaits. Real threads exist in two places: each `Worker`
has one with an engine of its own, and Python's `AsyncRuntime` keeps its engine on one. A compiled
binary has one thread, and libuv's pool for files and requests.

| Component | State it keeps | Operations | Interacts with | What is hard | What makes it correct |
|---|---|---|---|---|---|
| Katana server, `server.rs` | reply tables `pending` and `upgrade_map`, the request queue and its lock, a stored stop sender, a one-shot stop notification | serve, stop, accept, receive, respond, upgrade, time out | hyper tasks (channels), JavaScript loops (host functions) | `select!` of three branches, late answers, several servers sharing one queue, stop and restart | one justified reply per request, every wait ends, nothing handled twice |
| Katana WebSocket, `server.rs` | `ws_conns`, the event queue, a ws table per loop, write channels | establish, read, write, send, close, event loop | the connection's peer, handlers | two loops sharing one queue, a close amid queued frames, sends after close | handlers called in order, no event lost, frames in order |
| Hot reload, `taiyaki_web/{app,dev,runtime,cache,islands}.py` | loaded names, engine modules, component registry, response cache, island hashes, SSE clients; browsers' caches | edit, watch, invalidate, request, render, fetch an island, connect | watchfiles, the engine, browsers | edits while a loader is awaited, four copies of one component, hashed URLs, files saved back to what they were | what is cached and rendered is current, reloads reach whoever is connected |
| worker_threads, `worker_threads.{rs,js}` | worker table, two channels, `_exited`, the poll loop | spawn, post, poll, terminate, exit | the main thread and the worker's | an event taken before and emitted after terminate(), listeners that throw, scripts with timers of their own | events in order, exits reported, no leak |
| Python AsyncRuntime, `taiyaki-python/src/lib.rs` | command channel, futures, the engine thread | blocking and awaited calls, drop | asyncio, the GIL | joining a thread that needs the lock one holds | calls end, in order, each with its own result |
| Node streams, `stream.js` | buffers, `_flowing`, `_reading`, `_ending` | push, read, write, end, pipe | user code, at any depth of nesting | reentrancy: everything may call everything back | order, backpressure, a `finish` at the right time |
| net, tls, http | socket and server tables, event channels, poll loops | connect, listen, read, write, destroy, close | peers, the user | destroy against a pending connect, close against requests in flight | events in order, no entry left behind |
| deps and package manager | directories | resolve, download, extract, bundle | the registry, other processes | a crash or another process between two steps | what is cached is complete |
| Web requests, `taiyaki_web/{app,sessions,csrf,middleware,context,cache,pool,runtime,groups}.py` | session cookies at the browsers, the response cache, the pool's queue, what is registered on which runtime | read a body, check a token, run a loader or action, render, cache, answer | browsers, the watcher, the engine | requests of one browser overlapping at every await, edits and failed initialisations between them | tokens and flash messages stay with their session, what counts as loaded is on every runtime |
| Routing and MCP, `taiyaki_web/{app,groups,mcp,dev}.py` | routes, groups, middleware, static directories; the built ASGI application; the tools and the client of the MCP server | register, use, mount, build, make tools, call a tool | Starlette, MCP clients | three copies of what is registered, taken at different times; entries that shadow each other | what is served is whole, older copies are the first of what was registered, calls reach their route |
| AOT compiler, `taiyaki_aot_compiler/` | substitution, blocks and scopes while compiling; frames, heap, handlers while the binary runs | resolve, merge, infer, build, optimise, generate, verify, run | LLVM, QuickJS linked into the binary | control flow with breaks, exceptions and closures; a value's type across all phases; buffers changed in place | the binary does what the source says |
| Async functions of compiled binaries, `taiyaki_aot_compiler/codegen/{backend_base,quickjs_backend}.py` | structs of state machines, promises with their continuations, libuv's timers, requests and threads | call, await, resolve, resume, return, start a timer or a request, run the loop | libuv's threads, the C compiler | a struct freed while its promise is read, variables that must outlive an await, a limit on continuations, functions resumed inside the resolution of what they await | each function is resumed once per await and none is forgotten |
| Timers, `async_builtins.rs` | `__timers` | set, clear, fire | user code | callbacks that throw | a cleared timer does not fire |
| Engine backends, polyfills without state, command line | - | bindings, pure functions, batch jobs | - | - | not modelled; reasons in `PROJECT.json` |

## 2. Modules

### `RequestReply` and `KatanaServer`: the core

`RequestReply` is what an HTTP server promises whatever implements it: one reply per request, which
is something the program offered for this request or the timeout, and no timeout for a plain request
that was answered in time. `KatanaServer` is `register_server` and what it registers. Its state is
the code's: `pending`, `upgradeMap`, the request `queue`, `rxLock` for the tokio mutex around the
receiver (a queue, because tokio's is fair), `shutdownTx` for the one stored stop sender,
`stopped` for the watch channel that is sent to once and never reset, and `running` for
`globalThis.__serverRunning`. A request's `task` is where `handle_request` stands; `respSlot` and
`upSlot` are what its oneshot channels hold.

| Code | Actions |
|---|---|
| `Katana.serve`, `__serve_start`, `__serve_stop`, the accept loop | `ServeStart`, `ServeRun`, `Stop`, `AcceptFails` |
| `handle_request` up to its wait | `ArrivePlain`, `Enqueue`, `ArriveUpgrade` |
| its `timeout` or `select!`, or hyper dropping it | `TakeResponse`, `TakeUpgrade`, `TimeOut`, `ClientGone` |
| `processLoop`, `__serve_next_request` | `NextRequest`, `LoopStops` |
| user code in `handleRequest`; whoever has kept the request | `HandlerAnswers`, `HandlerReturnsNothing`; `CallUpgrade` |

The model shows what is easily missed in the code: every serve call takes requests from one queue,
so a request may be handled by another server than the one it came to; a second serve closes the
first listener; after one `stop()` no later server ever takes a request (`StopIsForGood`); an
upgrade request that was answered like any other leaves its `upgrade_map` entry behind (`TablesClean`
states that exception); and for upgrade requests the timer may win against an answer or an upgrade
that is already there.

### `KatanaWebSocket`

Continues where `KatanaServer` says "switching". `Establish`, `ReadMessage`, `ReadEnds`, `WriteFrame` and
`WriteFails` are `handle_ws_connection` and its write task; `NextEvent` is a turn of `wsEventLoop` and
contains the handler call; `Send` and `CloseWs` are what a ws object does at any later time. Two
serve calls share one event queue here too, and a loop ignores events of connections whose open
event the other one took: so `NothingLost` and `CloseIsReported` hold with one loop only, and say
so, while `HandlersInOrder` and `PeerInOrder` hold always.

### `HotReload`

One cached page route in development mode with its component and its island. The actions
are the developer's `Edit`, the watcher's `Collect` and `Deliver` (`_watch_loop` with
`_invalidate_components`), the page handler's `Request` up to the loader's await and `Render` after it
(the render and `resp_cache.put` do not suspend: `_apply_layouts` and the JavaScript call are
synchronous), the island app's `FetchIsland`, and the browser's cache and event stream. The module
covers an application with one runtime (no pool), without streaming, and one file per component. A hash is that of the bytes alone, and
an edit may return to bytes the file had before: `savedAt` and `recordedAt` are histories that tell the saves of one content apart.

### `WorkerThread`

One worker. `Boot` to `ThreadExits` are `run_worker`, on its own thread; `CheckLoop`, `LookUp`, `TakeEvent` and the
`Emit...` actions cut `_pollLoop` and `__worker_poll_event` at their awaits, so that `Terminate` and `PostDown` can
come between any two. Listeners may throw, and then the code's `try` emits a message once more as text. `Work` is what a script starts and ends beside its
port, a timer or an interval; while any is `pending`, `idle()` does not return and the thread does not exit.

### `AsyncRuntime`

The Python thread, the asyncio loop and the engine thread. `GilFree` says where the engine thread
can get the GIL: not while the Python thread joins it. `Cancel`, `Settle`, `RunCallback` and
`CloseLoop` are asyncio, modelled from how the code uses it.

### `StreamPipe`

`readable.pipe(writable)`. As the code is one web of nested calls on one thread, `stack` holds the calls
under way and each action is what the innermost one does next; `Turn` is the state between two
turns of the event loop. Not in it: `pause`/`resume` by the user, cork, unpipe, errors and destroy.

### `WebRequest`

The life of a request in a `taiyaki-web` application. The server is one asyncio thread, so an action is the code between two
awaits: `Request` is what runs when a request arrives (the middleware of `Stack`, outermost first, up to the first await, or the
answer from the cache, or the page for a path without a route), `ReadBody` what follows the form's body in `CSRFMiddleware`,
`Resume` what follows the await of the loader or action: the rest of the handler with its renders, the cache and
`SessionMiddleware.send_wrapper`. A render blocks the event loop, so a runtime is back in the pool before anything else
runs: the pool's `queue` is a sequence of the runtimes made so far, each the set of components registered on it, and `acquire`
takes its head. `Receive` is the browser: the new cookie, the page in a tab with the token its form
carries, the copy with its ETag. `Expire` and `Change` are the clock of a cookie and the watcher.

| Code | Definitions |
|---|---|
| `SessionMiddleware.__call__`, `_TrackedDict`, `CSRFMiddleware.__call__`, `Recover` | `Enter`, `Checked`, `Refused`, `MintToken`, `MintUntracked`, `Reply`, `ReplyBare` |
| `Context.flash`, `get_flashed_messages`, `redirect` | `Flash`, `PopFlash`, `Do` |
| `RuntimePool`, `JsRuntime`, `_ensure_component`, `_invalidate_components` | `Initialize`, `Acquire`, `Release`, `RegisterOnAll`, `LoadFile`, `EnsureComponent`, `RenderOn`, `Forget` |
| `_make_page_handler`, `_make_action_handler`, `_render_page`, `_apply_layouts`, `_register_api`, `_handle_404`, `_handle_500` | `Resume`, `RenderPage`, `RenderPageStreaming`, `RenderChain`, `ApplyLayouts`, `HandlePage`, `HandleAction`, `HandleApi`, `Error` |
| `ResponseCache` | `Get`, `Put`, `FromCache` |

### `Routing`

How an application is put together. `Get`, `Post`, `Api`, `Group`, `Use` and `Static` are the registering calls, `Serve` is whoever
asks for the property `asgi` first; `StartServer` constructs the MCP server, and `HandleJsonrpc` with `CallTool` is one message to it.
The state is the registered lists and the three copies made of them: `app` (`_app`, with its entries in the order Starlette tries them,
and its layers of middleware), `tools`, and `client`. A path is a sequence of segments of words, because the name of a tool keeps
the words of a path and nothing else. A value is text that is put into the path, one segment of it, several or an empty one (`Fill`). `Handles` and `Dispatch` are Starlette's matching, as far as the application uses it.

### The AOT compiler

Eight modules follow `compiler.py` from the syntax tree to the exit of the binary, and two hold the reference. The language is
functions of numbers, booleans, strings, arrays and functions, with every statement, operator and method of those.

| Module | Code | What it holds |
|---|---|---|
| `AotSyntax` | `ast_nodes.py`, `types.py` | nodes, types, the children of a node |
| `AotModules` | `module_resolver.py`, `module_merger.py` | the imports followed, the order of files, prefixes, exports, the rewriting of names |
| `AotInfer` | `js_inferrer.py`, `unification.py`, `builtins.py` | unification, the rounds of inference, clones of generic functions, what is left to the engine |
| `AotLower` | `hir/builder.py`, `hir/nodes.py` | blocks, phis, scopes, loops, `switch`, `try`, lifted arrows and captures |
| `AotOptimize` | `hir/optimizer.py` | folding, branch simplification, unreachable blocks, dead code |
| `AotGenerate` | `llvm_generator.py` | the machine type of each register, what LLVM refuses, which concatenations may work in place |
| `AotCompile` | `compiler.py`, `backend_base.py` | the pipeline and how it ends |
| `AotRuntime` | `backend_base.py` (the C runtime) | what the C functions on strings, arrays and numbers compute |
| `AotMachine` | `quickjs_backend.py`, `llvm_generator.py` | the state machine: a binary running, one instruction, call or jump a step |
| `AotSource` | none | what a program means in JavaScript: an evaluator over cells and scopes, the reference |
| `AotChecks` | none | the properties, and the departures of the compiler that they except |

The phases up to `AotCompile` are operators, because the compiler is a function of the program; `AotMachine!Build` is their one
use. What follows is a state machine: `StartEntry` and `Finish` are the binary's `main`, which has QuickJS evaluate the entry's
statements one after another; `EngineEntry` and `CallBridge` are calls that cross to the engine and back; `Compute`,
`Concat`, `Array...`, `MakeClosure`, `CallNative`, `CallClosure`, `LoopBegin`, `LoopTurn`, `Transfer`, `ReturnToCaller` are
the instructions; `TryBegin`, `TryPop`, `ThrowToHandler`, `ThrowToNobody` are setjmp and longjmp. Where C leaves the result open
(an `(int)` of an infinity, a null or dangling pointer, a longjmp to a frame that is gone) the step ends in the stage "undefined".
Doubles are small integers with `NaN` and one infinity; letters are model letters, a string is a sequence of them.

### `AotAsync`: async functions in a compiled binary

The code generator has another path for functions that await, and `AotAsync` is that path from the optimiser's blocks on. `Flat`,
`Code`, `Fields`, `Declared` and `Compiles` are what the generator and then the C compiler make of a function: its blocks one behind
the other (a branch becomes a comment, so both sides run), cut at the awaits into the cases of a switch, with the variables that must
outlive an await kept in a struct. A program is any sequence of functions of instructions that `WellTyped` admits, which is
what the type checker accepts; of values only promises are told apart.

The rest is the binary at work. `stack` holds the C functions under way, because everything may be inside everything: a
function that is called runs to its first await, and resolving a promise calls those that await it, which may return and so
resolve others.

| Code | Actions |
|---|---|
| `main()`, `tsuchi_loop_run` | `Evaluate`, `EntryCall`, `RunLoop`, `LoopReturns` |
| `moveNext` of a struct, an instruction a step | `Compute`, `PassOver`, `CallAsync`, `StartTimer`, `QueueWork`, `AwaitPending`, `AwaitResolved`, `AwaitNothing`, `Return`, `FreeStruct` |
| the function that makes a struct and returns its promise | `Enter`, `ReturnPromise` |
| `tsuchi_promise_then`, `tsuchi_promise_resolve_*` | `Then`, `Resolve`, `Continue`, `ResolveEnds` |
| libuv: timers, the pool, callbacks | `FireTimer`, `TakeWork`, `EndWork`, `WorkDone` |

The inference, the builder and the optimiser of the repository were also run, as they are, on 1456 programs of these families, and
types, blocks and errors compared with what the modules give for the same trees: no difference was left. The generator, and
the web application, could not be run this way (llvmlite and starlette were not at hand), and rest on reading.

## 3. What is checked

| Run | Instance | Properties |
|---|---|---|
| `katana_server` | 2 requests, one of them an upgrade; 2 serve calls | `TableInv`, `HandledOnce`, `ServersInv`, `EveryWaitEnds`, `StopIsForGood`, `RefinesRequestReply` |
| `katana_websocket` | 2 connections, 2 serve calls; 2 and 1 messages in, 2 and 0 out | `TableIsLive`, `HandlersInOrder`, `NothingLost`, `PeerInOrder`, `CloseIsReported` |
| `hot_reload` | 2 browsers, 2 edits of 2 files to any of 3 contents, one of which does not compile | `LoadedIsRenderable`, `CacheIsCurrent`, `IslandNeverOlder`, `EditReloadsConnected` |
| `worker_thread` | 2 messages each way, work of the script that begins and ends at any time | `EventsInOrder`, `AtMostOneAfterTerminate`, `NoEntryLeaks`, `MessagesAccounted`, `ExitIsReported` |
| `async_runtime` | 2 blocking and 3 awaited calls, one of each calling back | `InCallOrder`, `ResultOnItsWay`, `CallsEnd` |
| `stream_pipe` | 6 chunks, marks 2 and 3, one chunk as large as the mark | `AllThenFinish`, `Backpressure`, `PipeFinishes` |
| `web_request` | 2 browsers with 3 requests and 1, 5 routes, a pool of 2, a cache of 1 entry, 1 expiry or edit or failed installation | `OwnPageIsNeverRefused`, `FlashIsReadOnce`, `NeverMissing` |
| `aot` | 1691 programs, see below | `WordsHaveTheirType`, `MeansWhatItSays`, `Accepted`, `HandlersLive`, `EveryProgramEnds` |
| `routing` | 3 registering calls: 2 paths, one with a parameter, a group prefix, 2 middleware, 2 static directories, one of them at the root; values of one segment, of two, and an empty one | `CopiesAgree`, `OwnRouteOrEarlier` |
| `aot_async` | 21 programs of up to 2 functions, 2 continuations a promise, 2 threads | `WakesOnce`, `NothingForgotten`, `GoesWrongOnly`, `Ends` |
| `async_runtime_drop`, `routing_group` | the same | one violated property each, see below |

The bounds are named constants (`MaxServes`, `MaxEdits`, `MaxUp`, ...), guards of the actions that would
otherwise run for ever. They are enough for the cases that matter: two serve calls
give a shared queue, a replaced stop sender and a restart; two requests give a late answer of
one beside the other; two messages each way give order, duplicates and a backlog at
`terminate()`; two edits give an edit after an edit, and a file saved back to what it was; six chunks fill both
buffers and leave one more. In `web_request` three requests of one browser give a page, its form and a page
between; the other browser fills the cache of one entry and meets the error pages; one event of the three kinds is
enough for every order of an event and two awaits. In `aot_async` twelve programs are all that can be made of four functions that
end at once, wait for a timer, for a request or for both, and three functions that call them twice and wait in either order; the
others show one thing each: three functions that await one promise which keeps two of them (eight in the code), a function that awaits
what it handed on, branches, a loop, calls of a later function, values a branch chose. No symmetry is used, as most runs check liveness.

**The programs of `aot`** (`MCAot`). Testing a compiler is a matter of inputs, and these are all programs of given shapes:
every loop with an `if` that breaks, continues or assigns on either side (`loop`); every body of a `try` with every handler and
`finally`, in a loop, that throw, return, break, continue or fall through (`try`); every two assignments to strings in a loop, which is where buffers are
shared (`string`); every `switch` of two cases and a default, first or between, whose bodies break, fall through or break behind a condition (`switch`); each method of strings,
arrays and numbers over short receivers and boundary arguments (`text`, `array`, `change`, `fixed`); each function of `Math`,
`Number`, `String`, `Array`, `JSON` (`builtin`); functions of a text, an array, a number, called by name, by an arrow, through a variable, a parameter
or `map` (`given`); the uses of an array of booleans (`flag`); projects of a few files over the ways to import and to share names (`project`); and programs
written by hand for what no family reaches: closures, generic functions, functions left to the engine, globals. Each
is compiled, run, and its output compared with that of `AotSource`. `MaxTry` is the C runtime's limit of 32 nested handlers, here 2.

The compiler departs from JavaScript in cases that can be told from the source or from what its evaluation met. `AotChecks` names
each, with the lines it comes from: `Departs` are those in which a binary gives something else, `Refusable` those in which a program is
rejected although it is valid. The properties hold of every other program, and each exception is needed: without it the
run ends in a counterexample. So the two lists are a statement of what the compiler does not promise. Among them: a `finally` is not run
by a return, break or throw; a return inside a `try` leaves its handler behind (`LeavesTry`); a string may be changed through another variable
that holds the same buffer, where the generator's comment says "no aliasing possible" (`SharesString`); closures copy what they mention
(`WritesCaptured`); a named function of a text or an array that is handed on gets its arguments moved up by one (`HandsTextFunction`; `WordsHaveTheirType` excepts it too); an array of booleans holds
doubles and is written as such (`WritesFlags`); `Math.max` passes over a NaN, `Boolean("")` is true and `Number("")` is not 0 (`ConvertsOtherwise`);
a break behind a condition in a `switch` is refused (`BreaksInSwitch`); imported names are not rewritten below a return
(`MentionsImportDeep`).

The exceptions of `web_request` stand in its properties: a cached page carries the token of the session it was rendered for; a browser
that sends a request before the answer with its first cookie has two tokens racing; `flash()` on a list that is there already is not
noticed by the tracked dictionary; a component given as source is forgotten for good by an edit.

A run checks deadlock where the system never rests (`hot_reload`, `routing`); the others do rest, when the program
has made all its calls, and say `CHECK_DEADLOCK FALSE`.

**Fairness.** Only what a scheduler owes is assumed. tokio polls woken tasks and fires timers: `TimeOut`, the
branch of a `select!` that is ready, the loops of `KatanaServer`, the event loops of `KatanaWebSocket` as a group
(the lock's queue does the rest). The watcher's thread and task run in `HotReload`. A worker's poll
loop runs and its port takes what is queued. The two threads of `AsyncRuntime` run, and scripts come
to an end, without which nobody's wait could. In `AotMachine` the process runs while it can, and the engine answers the calls
that cross to it. `WebRequest` and `Routing` state no fairness, and their properties are safety. In `StreamPipe` calls return, microtasks run and the
sink confirms what it was given. In `AotAsync` the process runs while it can, timers come due, and the pool's threads take and end
their work (`ProcessFairness`). Nothing is assumed of clients, peers, browsers, developers, user
handlers (`EveryWaitEnds` holds although a handler may hang) or sources of streams. Nor of worker scripts: they may never end, and neither may their timers and intervals, which `terminate()`
does not stop; that the thread of a terminated worker exits is therefore claimed, in the formula, of workers whose own work is over for good some day (`<>[]~pending`).

**Where code and documentation disagree.** Two runs end in a counterexample:

- `async_runtime_drop`: dropping an `AsyncRuntime` that still has an awaited call under way hangs, because `Drop`
  joins the engine thread with the GIL held. `CallsEnd` shows that this is the only way it hangs.
- `routing_group`: the middleware of a group is stored and never applied.

Seen while modelling, without a run of its own: an edited component is registered anew and imported anew, but the engine keeps
the module it loaded first under that name, and the page goes on rendering the old component; an await on either side of an `if`
(`language-reference.md:47` of the compiler's docs says that it works) runs on both sides, because the branch is a comment in the generated C
(`backend_base.py:2848`); a promise drops its ninth continuation without a word; a function that returned before it ever waited has
freed the struct its promise is then read from; a call of an async function that is written later does not compile. `AotAsync` has
the last four in its actions, and its properties name them as the exceptions they are. Further: "hashed URLs are immutable", but the hash is stripped and the current
file served, so one URL may stand for two contents, and a file saved back to its first content brings a browser the second, which it keeps under the hash of the first; the error overlay is cached as the route's response; a route registered
after the application was built is not served, because only `use` and `static` reset the cached application (`CopiesAgree`
shows that they do, and that nothing else is amiss with what is served); two paths of the same words have tools of one name, and the
later takes every call; tool calls go on to the application of the first call, without middleware or directories added since; a value with a slash in it, or an empty one, makes a tool's path one that another route, or none, takes;
`terminate()` does not end a worker that has an interval.

Weaker statements say precisely what is left, and the exceptions are in the formulas:
`PipeFinishes` and `Backpressure` except the case where a sink confirms, before `write()` returns, a chunk
that `write()` then refuses (the drain is over before the pause that waits for it, and the pipe
stalls); `NoEntryLeaks` and `EventsInOrder` except after a listener threw; `IslandNeverOlder` except under a URL whose content was
saved again after its hash had been recorded (`SavedAgain`); `OwnRouteOrEarlier` except where a value is not read as one segment (`OneSegment`); `CopiesAgree` asks of the MCP client's
application only that it has the first routes and the first middleware.

## 4. What is proved

`KatanaServerProofs` proves, for any set of requests, any choice of upgrades among them and any number of
serve calls (assumption `ServerAssumption`: the upgrades are requests, the bound is a number):

1. `TypeCorrect == Spec => []TypeOK`, by the usual induction. The only step that needs more than its own
   action is `LoopStops`, which removes a loop from the middle of the lock's queue: lemma `RemoveAtSeq`.
2. `TablesAgree == Spec => []TableInv`. `TableInv` is inductive relative to `TypeOK`: its four parts
   hold each other up. A sender in a table means an unused channel (`SendersUnused`), which is why an answer finds
   its route (`AnswerHasRoute`), why a channel carries one value and hence why the reply is the one
   that was sent (`ReplyJustified`); `TablesClean` needs the route to know what is removed.
   Lemma `TableStep` has one step per action.
3. `ServerRefines == Spec => RefinesRequestReply`. The mapping takes a task to "new", "open" or "closed" and the
   contents of the channels to the offers of `RequestReply`. Lemma `RefinementStep` shows that each action is
   a step of `RequestReply` or changes nothing of it; `TableInv` is what excludes a second offer and
   an unjustified timeout.

4. `ServersAgree == Spec => []ServersInv`, inductive as it stands. The work is in the queue on the receiver's lock, which
   loops join at the end and leave from its head or from the middle (lemmas `AppendDistinct`, `TailDistinct`,
   `RemoveAtDistinct` on sequences without duplicates).
5. `RequestsAreHandledOnce == Spec => []HandledOnce`, through `QueueInv`: `HandledOnce` must also know that a request whose
   task has not queued it yet has no handler (`NotYetQueued`), or `Enqueue` could put a handled request back.

`WebAppProofs` proves of `HotReload`, for any set of browsers, any number of edits and any
set of versions that fail to transform (`HotReloadAssumption`):

1. `HotReloadTypeCorrect == Spec => []TypeOK`.
2. `LoadedComponentsAreRenderable` and `CachedPagesAreCurrent`, the two halves of `ComponentInv`, which is inductive
   relative to `TypeOK`: the invalidation drops the record of loaded components and the page cache in one step.
3. `IslandsGetNewer == Spec => IslandNeverOlder`, an action property. A content may come back, so contents have no order of their own: two histories,
   `savedAt` and `recordedAt`, hold the last save of each and the save for which its hash was first recorded, and a hash is `Fresh` while
   the two agree. `IslandInv` says that of fresh hashes the file, the hash table, the cached page and a browser's page pass each one once, in this order
   (`HashMovesOn`, `CacheMovesOn`, `PageMovesOn`), and that a browser which keeps something under a fresh hash runs that very thing
   until it is past the hash (`RunsWhatItKeeps`). So `ReuseIsland` under a fresh hash runs what is run already. An edit back to an earlier
   content only ends freshness (lemma `EditKeeps`).

and of `Routing`, for any paths, directories and order of the registering calls (`RoutingAssumption`):

4. `CopiesStayAgreed == AppSpec => []CopiesAgree` and `CallsReachTheirRoute == AppSpec => []OwnRouteOrEarlier`. Their inductive invariant `IInv` has five parts. What is
   registered is well formed (`RegisteredOK`); a tool was made of a route that is registered (`ToolsOK`); an application that is served has every static directory
   and every layer of middleware (`ServedInFull`), because `use` and `static` drop it while registering a route does not; the application, and the one the MCP client
   keeps, begin with the first n and m routes and have no other (`Copies`), so that a property of prefixes becomes one of two numbers; and the client's has the first of the
   middleware (`FirstLayers`). That the call of a tool ends in its
   route or an earlier one is the argument of the first match: the route of the tool matches the path that is made of it, whatever the
   values, as long as each is read as one segment (`OneSegment`), and Starlette takes the first that does.

`KatanaWebSocketProofs` proves, for any set of connections and any number of serve calls and messages (`WebSocketAssumption`):

1. `TypeCorrect == Spec => []TypeOK`.
2. `TableStaysLive == Spec => []TableIsLive`, inductive as it stands.
3. `PeersGetFramesInOrder == Spec => []PeerInOrder`, through `FrameInv`: while the write task lives, the frames delivered
   and those queued are numbered through to the last one accepted (`Numbered`); a Close frame ends the write
   task (`CloseIsLast`); and a connection that is not established has no frames at all (`NoWriterYet`).
4. `HandlersKeepTheirOrder == Spec => []HandlersInOrder`, for any number of loops on the queue, through `OrderInv`: what handlers
   saw is in order, what is queued is, and every queued event may follow every one that was seen. What a task reports next may follow all of
   them, because its kind and number are bounded by what it has done (`Sent`).
5. `HandlersSeeTheWholeStory == Spec => []NothingLost`, through `StoryInv`. With one loop a connection must be in its ws table from
   its opening to its end (`Tabled`), or the loop would drop its events; and a loop that has not started cannot have handled any
   (`Started`), which is why a second serve call only makes the statement empty.

`EventLoopProofs` proves of `WorkerThread`, for any number of messages either way (`WorkerAssumption`), `TypeCorrect` and:

1. `TerminateSilences` and `LoopsLeaveNoEntry`, through `WorkerInv`: what the loop holds while it resumes, and whether it is
   at its test, bounds what it can emit after `terminate()` and decides who removes the entry.
2. `EventsKeepTheirOrder == Spec => []EventsInOrder`. The equation is inductive once `HeldInv` says that an event is held
   between a poll and its resumption only; lemma `HistoryGrows` gives what each step of the thread adds to the history.
3. `MessagesReachTheWorker == Spec => []MessagesAccounted`, through `EntryInv` and `DownInv`: the entry that `postMessage` looks up
   goes only with `terminate()` or with the thread, so what was posted while it stands has reached the channel, and nothing in the channel was not posted.
   A handler that throws has its message handled twice, in its place (lemma `HandledTwice`).

and of `AotAsync`, for any programs the type checker accepts, any room among the continuations of a promise and any number of threads
(`AotAsyncAssumption`), three theorems from one inductive invariant, `ProcessInv`:

4. `EachWakesOnce == ProcessSpec => []WakesOnce`: a function that awaits is resumed once, by what it waits for, and what is not resolved has one thing left
   to resolve it. It is inductive only with an account of the stack. `StackInv` says which C function can be above which (`Fits`) and that none is
   there twice, so that the loop over the continuations of a promise is one loop; `OutsideInv` says that libuv has every promise
   it is to resolve in one place; `InRange`, that every promise is the result of one struct at most.
5. `NoneForgotten == ProcessSpec => []NothingForgotten`: when `main()` returns, a function that has not ended found no room at the promise it awaits, or waits for a call
   made after it that has not ended either. As the calls it waits for are later ones (`Later`), such a chain ends at one that was refused.
6. `OnlyThenGoesWrong == ProcessSpec => []GoesWrongOnly`: variables are in scope and hold promises where they are awaited. This is the correctness of `Fields`: `PlaceInv` says of every place where a function is or
   may be resumed that the code still runs into a return (`HasReturn`) and that what was defined before holds its promise as long as the
   generated code keeps it (`Lasts`, `Holds`), which is either in the struct or within one case of the switch. Lemma `ReadLasts` shows that whatever is read
   where the C compiler accepts it does last, lemma `Advances` that one more instruction keeps that, and lemma `RefusedFor` that the collection of
   uses overlooks none but those the property names.

   Most steps take a call from the stack, put one on it or change its place, and change one struct: `Effect` says so, and the lemmas `RangeKept`, `StackKept`, `PlaceKept` and `WakesKept`
   show once what is kept whenever it holds; each action then has a lemma of its own (`ComputeStep` to `ResolveEndsStep`, `ContinueStep`, `EntryCallStep`).

`AsyncRuntimeProofs` proves, for any sets of blocking, awaited and calling-back calls (`RuntimeAssumption`), `TypeCorrect` and:

1. `CallsKeepTheirOrder == Spec => []InCallOrder`. That commands run in order is inductive (what ran and what is queued are what was sent).
   That awaited calls are settled in order is not: `AsyncInv` knows each call by its place in the sequence of calls (`SentOnce`), and says that
   a future settled, or scheduled to be, is of a call the engine has finished (`ResolvedFirst`), and that what is scheduled is in order and behind what is settled (`ScheduledInOrder`).
2. `ResultsArrive == Spec => []ResultOnItsWay`, by `AwaitedAhead` of the same invariant: an awaited call is scheduled, or its place is not yet behind
   the engine; lemma `Places` says which place is queued and which is under way.

`StreamPipeProofs` proves, for any number of chunks of any positive sizes, any marks (`StreamAssumption`) and any depth of nested calls, `TypeCorrect` and:

1. `PipeHoldsBack == Spec => []Backpressure`, through `SinkInv` (only the innermost call can be the sink's callback, and a chunk waits without a
   write under way only where that call will take it) and `FlowInv` (while the readable flows the buffer is below the mark, unless a `write()` is about
   to say otherwise; while it is paused, a drain is to come or a chunk was refused). `Total` is a fold: lemmas `TotalOfAppend`, `TotalOfTail`.
2. `WrittenThenFinished == Spec => []AllThenFinish`, of two halves. `ChunksStayInOrder == Spec => []NothingLost` is inductive as it stands, with one case per call that may be innermost;
   `FinishComesLast == Spec => []FinishIsLast` follows by `SinkInv` and `NothingLost`: an idle sink and an empty buffer leave every chunk written (`CountedOnce`).

`WebRequestProofs` proves, for any routes, components, order of middleware, browsers, requests and size of the pool (`WebAssumption`, which says what the
constants are; a flash message is known by the request that flashed it, so one request flashes once at most):

1. `ComponentsAreThere == Spec => []NeverMissing`, through `MissingInv`: what counts as loaded is registered on every runtime made and stored for those to come
   (`Kit`), also after an initialisation failed half-way. A render is a chain of steps through the body, the layouts and the error page, each of which keeps `Good`; the chain is a fold
   over the calls of the handler (`CallsBetween`).
2. `PagesKeepTheirToken == Spec => []OwnPageIsNeverRefused`, through `TokenInv`: until a browser races, its cookie, the pages it shows that it may post
   from, and all its requests under way have one token. `Fit` adds what an answer may not do: give out a page with a new token without the cookie
   that holds it. Each action has a lemma for the browser it is about, and the others keep what they have.
3. `FlashesArriveOnce == Spec => []FlashIsReadOnce`, through `FlashInv`. A request keeps its messages apart, in its session or read (`Carries`), and sends the
   cookie if it changed them. For a browser that waits for each answer, `Quiet` says that a message in the cookie or in hand was read by no request that did not fail,
   and that a message which is still due was read, or is both in the cookie and in the hands of the one request under way.

`SequenceLemmas` holds what these need of sequences: `Append` and `\o`, the first and last element, ranges, and `AllNumbers`, the induction over the natural numbers that replaces the library's
(which takes an operator as parameter): a set that contains 0 and every successor is `Nat`, from the well-foundedness of `<`. By it, what `FoldLeft` computes over a sequence of any
length is proved where an invariant needs it: `TotalIsSum` of `StreamPipe`, `OfConnIsKept` of `KatanaWebSocket`, `CallsInTurn` of `WebRequest`. In each, `FoldExists`
shows that the recursive function behind the fold exists, which is the whole difficulty.

Every safety property that a run checks of a state machine other than `AotMachine` is thus proved. Only model-checked:

- `WordsHaveTheirType`, `MeansWhatItSays`, `Accepted` and `HandlersLive` of the AOT compiler. Its modules are recursive over syntax trees with `RECURSIVE` operators, which the
  prover cannot use, and a proof of such a property would be a verified compiler.
- Liveness (`EveryWaitEnds`, `StopIsForGood` which is a leads-to, `CloseIsReported`, `EditReloadsConnected`, `ExitIsReported`, `CallsEnd`, `PipeFinishes`, `EveryProgramEnds`, `Ends`) and
  deadlock: out of this prover's reach.

`RequestReply` has no liveness, so the refinement is proved whole.

## 5. Plan

Done in this order, the most shared mechanism first: `KatanaServer`, `KatanaWebSocket`, `HotReload`, `WorkerThread`,
`AsyncRuntime`, `StreamPipe`, the AOT compiler (`AotSyntax` to `AotMachine`, then `AotModules`, then the built-in objects),
`WebRequest`, `Routing`, `AotAsync`. What comes next:

1. `NetSocket` (`net.rs`, `net.js`): sockets, their table, the read loop against `destroy` and `close`;
   promise: events in order, no entry left, an end for every connect.
2. `DepsCache` (`deps.rs`): several processes and crashes around the cache directory; promise: a hit is a
   complete bundle.
3. Object literals, default and rest parameters in the AOT modules; timers; `http_node` as a second implementation of
   `RequestReply`; the async iterator of streams.
4. An abstract specification of an ordered channel that `KatanaWebSocket` (to handlers, to the peer), `WorkerThread`
   (both ways) and `StreamPipe` implement.
5. Proofs: of the properties that the runs check, those in the prover's reach are done. What is left are the refinements of 4, and lemmas about parts of the AOT modules that
   can be written without `RECURSIVE` (the ranges of types, the stack of handlers in `AotMachine`).

## 6. Not modelled

The engines themselves (assumed: one thread, jobs run to completion, a module is evaluated once per name), bodies
and headers, wall-clock time, TLS handshakes, the pure polyfills, the command line, and everything vendored. Of the AOT compiler: the
parsers and the stripping of types and JSX (conversions of text and of tree-sitter trees); classes, object literals,
generators, maps, sets, regular expressions, templates, destructuring and spread; the bindings to Clay, raylib, termbox and C
libraries; the two other backends; of async functions, what a promise is used for but to be awaited or handed on. Of the web framework: HTML strings, static generation, type generation, converters in
paths; source maps, which `sourcemap.py` reads and `transform_jsx` never writes.
`PROJECT.json` gives the reason for each component.

Hazards seen in parts without a model: an empty write closes a socket (`net.rs:134`), and `destroy()` before the connect
resolves is forgotten (`net.js:55`); `close()` of a node http server leaves requests in flight without an answer
(`http_node.rs:254`); a timer callback that throws keeps its entry (`async_builtins.rs:164`); `deps.rs` takes a directory
for installed that a dead process left half-extracted (235), and writes its bundle in place (87); all Katana servers share one request
queue, so a request may be handled by another server than the one it came to (`server.rs:368`); the async iterator of a stream drops
what its resume emits beyond one chunk (`stream.js:243`).
