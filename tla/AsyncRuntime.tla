----------------------------- MODULE AsyncRuntime -----------------------------
(***************************************************************************)
(* taiyaki.AsyncRuntime (crates/taiyaki-python/src/lib.rs): a JavaScript   *)
(* engine on a thread of its own, driven from one Python thread through a  *)
(* channel of commands.                                                    *)
(*                                                                         *)
(* A synchronous call (send_sync) blocks the Python thread, without the    *)
(* GIL, until the engine thread has answered.  An asynchronous one         *)
(* (send_async) returns an asyncio future at once; the engine thread later *)
(* takes the GIL and schedules the future's result on the event loop.  A   *)
(* script may also call a Python function, for which the engine thread     *)
(* takes the GIL too.  When the last reference to the runtime goes, the    *)
(* Python thread closes the channel and joins the engine thread - holding  *)
(* the GIL.                                                                *)
(*                                                                         *)
(* The class is unsendable: calls and the drop come from one thread.  A    *)
(* Python thread that runs Python gives the GIL up now and then, so only   *)
(* the places that keep it without running Python are told apart.          *)
(***************************************************************************)
EXTENDS Naturals, SequencesExt

CONSTANTS SyncCalls,   \* eval, eval_async, call, object_get, ...
          AsyncCalls,  \* eval_await, eval_module_await
          Callers      \* those whose script calls a registered Python function

Calls == SyncCalls \cup AsyncCalls

ASSUME RuntimeAssumption == /\ SyncCalls \cap AsyncCalls = {}
                            /\ Callers \subseteq Calls

VARIABLES
  python,     \* what the Python thread is doing
  dropped,    \* the command sender is gone
  evloop,     \* the asyncio event loop
  future,     \* the future of each asynchronous call
  scheduled,  \* results that call_soon_threadsafe has queued on the loop
  sent,       \* calls in the order they were made
  queue,      \* commands in the channel
  engine,     \* what the engine thread is doing
  ran,        \* commands it has taken; the last one may be under way
  answered    \* synchronous calls whose result was sent back

pythonVars == <<python, dropped, evloop, future, scheduled, sent>>
engineVars == <<engine, ran, answered>>
vars == <<pythonVars, queue, engineVars>>

TypeOK ==
  /\ python \in {"constructing", "running", "blocked", "joining"}
  /\ dropped \in BOOLEAN
  /\ evloop \in {"open", "closed"}
  /\ future \in [AsyncCalls -> {"none", "pending", "cancelled", "done"}]
  /\ {scheduled, sent, queue, ran} \subseteq Seq(Calls)
  /\ engine \in {"starting", "failed", "idle", "evaluating", "calling",
                 "evaluated", "ended"}
  /\ answered \subseteq SyncCalls

Init ==
  /\ python = "constructing" /\ dropped = FALSE /\ evloop = "open"
  /\ future = [c \in AsyncCalls |-> "none"]
  /\ scheduled = <<>> /\ sent = <<>> /\ queue = <<>>
  /\ engine = "starting" /\ ran = <<>> /\ answered = {}

-----------------------------------------------------------------------------
(* The Python thread *)

\* new() returns, or raises what the engine's thread sent it.
Constructed ==
  /\ python = "constructing"
  /\ engine # "starting"
  /\ python' = "running"
  /\ dropped' = (engine = "failed")
  /\ UNCHANGED <<evloop, future, scheduled, sent, queue, engineVars>>

CanCall(c) == /\ python = "running" /\ ~dropped
              /\ \A i \in DOMAIN sent : sent[i] # c

Send(c) == sent' = Append(sent, c) /\ queue' = Append(queue, c)

\* send_sync: queue the command and wait for its answer without the GIL.
CallSync(c) ==
  /\ CanCall(c)
  /\ Send(c)
  /\ python' = "blocked"
  /\ UNCHANGED <<dropped, evloop, future, scheduled, engineVars>>

SyncReturns ==
  /\ python = "blocked"
  /\ Last(sent) \in answered
  /\ python' = "running"
  /\ UNCHANGED <<dropped, evloop, future, scheduled, sent, queue, engineVars>>

\* send_async: needs a running loop, which gets a future.
CallAsync(c) ==
  /\ CanCall(c)
  /\ evloop = "open"
  /\ Send(c)
  /\ future' = [future EXCEPT ![c] = "pending"]
  /\ UNCHANGED <<python, dropped, evloop, scheduled, engineVars>>

\* The awaiting task is cancelled, by a timeout say.
Cancel(c) ==
  /\ python = "running" /\ evloop = "open"
  /\ future[c] = "pending"
  /\ future' = [future EXCEPT ![c] = "cancelled"]
  /\ UNCHANGED <<python, dropped, evloop, scheduled, sent, queue, engineVars>>

\* Mutant: set_result is never called.
SettleNothing(c) == UNCHANGED future

\* set_result; on a cancelled future it raises InvalidStateError in the loop.
Settle(c) ==
  future' = [future EXCEPT ![c] = IF @ = "pending" THEN "done" ELSE @]

\* The event loop runs the oldest scheduled callback.
RunCallback ==
  /\ python = "running" /\ evloop = "open"
  /\ scheduled # <<>>
  /\ Settle(Head(scheduled))
  /\ scheduled' = Tail(scheduled)
  /\ UNCHANGED <<python, dropped, evloop, sent, queue, engineVars>>

\* asyncio.run returns: the loop is closed, and its callbacks go with it.
CloseLoop ==
  /\ python = "running" /\ evloop = "open"
  /\ evloop' = "closed"
  /\ scheduled' = <<>>
  /\ UNCHANGED <<python, dropped, future, sent, queue, engineVars>>

\* The last reference goes: close the channel and join, keeping the GIL.
Drop ==
  /\ python = "running" /\ ~dropped
  /\ dropped' = TRUE
  /\ python' = "joining"
  /\ UNCHANGED <<evloop, future, scheduled, sent, queue, engineVars>>

Joined ==
  /\ python = "joining" /\ engine = "ended"
  /\ python' = "running"
  /\ UNCHANGED <<dropped, evloop, future, scheduled, sent, queue, engineVars>>

-----------------------------------------------------------------------------
(* The engine thread: engine_worker *)

\* Mutant: send_sync keeps the GIL while it waits.
GilWhileRunning == python = "running"

\* Python::with_gil gets the GIL sooner or later.
GilFree == python \in {"running", "blocked"}

StartEngine ==
  /\ engine = "starting"
  /\ engine' \in {"idle", "failed"}
  /\ UNCHANGED <<ran, answered, queue, pythonVars>>

\* Mutant: the newest command first.
ReceiveNewest == ran' = Append(ran, Last(queue)) /\ queue' = Front(queue)

Receive == ran' = Append(ran, Head(queue)) /\ queue' = Tail(queue)

TakeCommand ==
  /\ engine = "idle" /\ queue # <<>>
  /\ Receive
  /\ engine' = "evaluating"
  /\ UNCHANGED <<answered, pythonVars>>

\* The script runs to its end, or to its call of a Python function.
Evaluate ==
  /\ engine = "evaluating"
  /\ engine' = IF Last(ran) \in Callers THEN "calling" ELSE "evaluated"
  /\ UNCHANGED <<ran, answered, queue, pythonVars>>

\* make_py_callback
CallPython ==
  /\ engine = "calling"
  /\ GilFree
  /\ engine' = "evaluated"
  /\ UNCHANGED <<ran, answered, queue, pythonVars>>

\* The command of send_sync: the answer goes through a channel.
Answer ==
  /\ engine = "evaluated" /\ Last(ran) \in SyncCalls
  /\ answered' = answered \cup {Last(ran)}
  /\ engine' = "idle"
  /\ UNCHANGED <<ran, queue, pythonVars>>

\* Mutant: a result that finds others waiting is dropped.
ScheduleAlone(c) == scheduled' = IF scheduled = <<>> THEN <<c>> ELSE scheduled

Schedule(c) == scheduled' = Append(scheduled, c)

\* The command of send_async: resolve_future, under the GIL.  A closed loop
\* refuses, which is only printed.
Resolve ==
  /\ engine = "evaluated" /\ Last(ran) \in AsyncCalls
  /\ GilFree
  /\ IF evloop = "open" THEN Schedule(Last(ran)) ELSE UNCHANGED scheduled
  /\ engine' = "idle"
  /\ UNCHANGED <<ran, answered, queue,
                 python, dropped, evloop, future, sent>>

\* Mutant: the sender outlives the join.
SenderKept == FALSE

\* recv() fails once the sender is gone and all commands are taken.
SenderGone == dropped

EngineEnds ==
  /\ engine = "idle" /\ queue = <<>>
  /\ SenderGone
  /\ engine' = "ended"
  /\ UNCHANGED <<ran, answered, queue, pythonVars>>

-----------------------------------------------------------------------------
EngineSteps == \/ StartEngine \/ TakeCommand \/ Evaluate \/ CallPython
               \/ Answer \/ Resolve \/ EngineEnds

Next == \/ Constructed \/ SyncReturns \/ RunCallback \/ CloseLoop
        \/ Drop \/ Joined
        \/ \E c \in SyncCalls : CallSync(c)
        \/ \E c \in AsyncCalls : CallAsync(c) \/ Cancel(c)
        \/ EngineSteps

\* Both threads are scheduled, the event loop runs its callbacks, and scripts
\* come to an end, as they must for anybody who waits for them.
Fairness == /\ WF_vars(EngineSteps)
            /\ WF_vars(Constructed \/ SyncReturns \/ Joined)
            /\ WF_vars(RunCallback)

Spec == Init /\ [][Next]_vars /\ Fairness

-----------------------------------------------------------------------------
(* Properties *)

\* Commands run in the order of the calls, each once, sync and async alike.
RunInOrder == sent = ran \o queue

Before(c, d) ==
  \E i, j \in DOMAIN sent : i < j /\ sent[i] = c /\ sent[j] = d

\* Futures are settled in the order of their calls: one whose predecessor is
\* still awaited has no result yet.
SettledInOrder ==
  \A c, d \in AsyncCalls :
    Before(c, d) /\ future[d] = "done" => future[c] # "pending"

\* The order of the calls is the order of execution and that of the results,
\* across the channel, the engine thread and the event loop.
InCallOrder == RunInOrder /\ SettledInOrder

UnderWay(c) == ran # <<>> /\ Last(ran) = c
               /\ engine \in {"evaluating", "calling", "evaluated"}

\* A future that is awaited on an open loop has its result on the way: queued,
\* under way, or scheduled.  Cancellations, other calls and the drop of the
\* runtime do not lose it between the two threads.
ResultOnItsWay ==
  \A c \in AsyncCalls :
    future[c] = "pending" /\ evloop = "open" =>
      \/ Contains(queue, c) \/ UnderWay(c) \/ Contains(scheduled, c)

\* A blocking call returns, also if its script calls back into Python.
BlockedReturns == python = "blocked" ~> python = "running"

\* An awaited future is settled, unless its loop is closed or the runtime is
\* dropped while it is awaited.
FutureSettles ==
  \A c \in AsyncCalls :
    future[c] = "pending" ~> \/ future[c] # "pending"
                             \/ evloop = "closed" \/ python = "joining"

\* Some command the engine has not finished will ask for the GIL.
GilNeeded ==
  \E c \in AsyncCalls \cup Callers :
    /\ Contains(queue, c) \/ UnderWay(c)
    /\ ~(UnderWay(c) /\ c \in SyncCalls /\ engine = "evaluated")

\* A runtime none of whose unfinished commands needs the GIL can be dropped.
QuietDropEnds ==
  (python = "joining" /\ ~GilNeeded) ~> python = "running"

\* Every call that somebody waits for comes to an end, and so does the drop of a
\* runtime that is through with Python (send_sync, send_async, Drop).
CallsEnd == BlockedReturns /\ FutureSettles /\ QuietDropEnds

\* Drop joins the engine thread "explicitly for deterministic shutdown": it
\* comes to an end.
DropEnds == python = "joining" ~> python = "running"
=============================================================================
