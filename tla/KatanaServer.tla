---------------------------- MODULE KatanaServer ----------------------------
(***************************************************************************)
(* The HTTP server behind Katana.serve (crates/taiyaki-cli/src/server.rs): *)
(* the life of every request from the hyper task that receives it, through *)
(* the queue to the JavaScript loop, to the one reply its client gets.     *)
(*                                                                         *)
(* Three kinds of actors meet here.  A Rust task per request inserts its   *)
(* reply channels into shared tables, queues the request and then waits    *)
(* for whichever comes first: an answer, a WebSocket upgrade or the 30 s   *)
(* timer.  One JavaScript loop per Katana.serve call takes requests from   *)
(* the queue that ALL serve calls share.  A JavaScript handler per request *)
(* may suspend at any await, claim the upgrade, and answer late or never.  *)
(* Everything runs on one thread (tokio current_thread, main.rs), so an    *)
(* action is the code between two awaits.                                  *)
(*                                                                         *)
(* Time is abstracted: the timer of a waiting request may fire whenever    *)
(* tokio lets it win.  Bodies, headers and status codes are abstracted to  *)
(* the kinds of reply in Replies.                                          *)
(***************************************************************************)
EXTENDS Naturals, SequencesExt

CONSTANTS Requests,   \* the requests clients may send (their ids)
          Upgrades,   \* those that carry "Upgrade: websocket"
          MaxServes   \* bound: how often the program calls Katana.serve

ASSUME ServerAssumption == /\ Upgrades \subseteq Requests
                           /\ MaxServes \in Nat

Servers  == 1..MaxServes
NoServer == 0

VARIABLES
  listener,    \* accept loop of each serve call; closed once told to stop
  shutdownTx,  \* the serve call whose stop sender is stored, or NoServer
  loop,        \* processLoop of each serve call
  rxLock,      \* serve calls queued on the request receiver; the head holds it
  running,     \* globalThis.__serverRunning
  stopped,     \* the one-shot stop notification has been sent
  task,        \* the Rust task of each request
  queue,       \* requests sent to JavaScript and not yet taken
  pending,     \* ids with a response sender in ServerState.pending
  upgradeMap,  \* ids with an upgrade sender in ServerState.upgrade_map
  respSlot,    \* what the response channel of each request holds
  upSlot,      \* whether the upgrade channel of each request holds true
  reply,       \* what the client got
  handler,     \* the JavaScript handler of each request
  claimed      \* server.upgrade(req) returned true

serverVars  == <<listener, shutdownTx, loop, rxLock, running, stopped>>
tableVars   == <<queue, pending, upgradeMap, respSlot, upSlot>>
handlerVars == <<handler, claimed>>
taskVars    == <<task, reply>>
vars        == <<serverVars, tableVars, handlerVars, taskVars>>

\* Answers a handler can give: a response, or the 500 of a handler that threw.
Answers == {"ok", "error"}
Replies == Answers \cup {"none", "timeout", "switching"}

TypeOK ==
  /\ listener   \in [Servers -> {"none", "open", "closed"}]
  /\ shutdownTx \in Servers \cup {NoServer}
  /\ loop       \in [Servers -> {"none", "bound", "fetching", "ended"}]
  /\ rxLock     \in Seq(Servers)
  /\ running    \in BOOLEAN
  /\ stopped    \in BOOLEAN
  /\ task       \in [Requests -> {"idle", "reading", "waiting", "done", "dropped"}]
  /\ queue      \in Seq(Requests)
  /\ pending    \subseteq Requests
  /\ upgradeMap \subseteq Upgrades
  /\ respSlot   \in [Requests -> Answers \cup {"empty"}]
  /\ upSlot     \in [Requests -> BOOLEAN]
  /\ reply      \in [Requests -> Replies]
  /\ handler    \in [Requests -> {"unseen", "running", "returned"}]
  /\ claimed    \in [Requests -> BOOLEAN]

Init ==
  /\ listener  = [g \in Servers |-> "none"]
  /\ shutdownTx = NoServer
  /\ loop       = [g \in Servers |-> "none"]
  /\ rxLock     = <<>>
  /\ running    = FALSE
  /\ stopped    = FALSE
  /\ task       = [r \in Requests |-> "idle"]
  /\ queue      = <<>>
  /\ pending    = {}
  /\ upgradeMap = {}
  /\ respSlot   = [r \in Requests |-> "empty"]
  /\ upSlot     = [r \in Requests |-> FALSE]
  /\ reply      = [r \in Requests |-> "none"]
  /\ handler    = [r \in Requests |-> "unseen"]
  /\ claimed    = [r \in Requests |-> FALSE]

-----------------------------------------------------------------------------
(* Starting and stopping *)

\* Mutant: the old sender outlives the new one.
ListenersUntouched == listener

\* The listeners once the stored stop sender is used or dropped.
StoredListenerClosed ==
  [h \in Servers |-> IF h = shutdownTx THEN "closed" ELSE listener[h]]

\* The g-th __serve_start: bind, store a new stop sender - which drops the
\* sender of the previous listener, whose accept loop then sees the channel
\* closed - and spawn the accept loop.  Calls are numbered in this order.
ServeStart(g) ==
  /\ loop[g] = "none"
  /\ \A h \in Servers : h < g => loop[h] # "none"
  /\ loop' = [loop EXCEPT ![g] = "bound"]
  /\ listener' = [StoredListenerClosed EXCEPT ![g] = "open"]
  /\ shutdownTx' = g
  /\ UNCHANGED <<rxLock, running, stopped,
                 tableVars, handlerVars, taskVars>>

\* Katana.serve resumes after its await: set the flag, enter processLoop.
ServeRun(g) ==
  /\ loop[g] = "bound"
  /\ running' = TRUE
  /\ loop' = [loop EXCEPT ![g] = "fetching"]
  /\ rxLock' = Append(rxLock, g)
  /\ UNCHANGED <<listener, shutdownTx, stopped,
                 tableVars, handlerVars, taskVars>>

\* server.stop(): every server object clears the same flag and takes the same
\* two senders.  The second one is never put back.
Stop ==
  /\ \E g \in Servers : loop[g] \in {"fetching", "ended"}
  /\ running' = FALSE
  /\ stopped' = TRUE
  /\ listener' = StoredListenerClosed
  /\ shutdownTx' = NoServer
  /\ UNCHANGED <<loop, rxLock, tableVars, handlerVars, taskVars>>

\* accept() itself fails (out of descriptors, say): the loop breaks too.
AcceptFails(g) ==
  /\ listener[g] = "open"
  /\ listener' = [listener EXCEPT ![g] = "closed"]
  /\ UNCHANGED <<shutdownTx, loop, rxLock, running, stopped,
                 tableVars, handlerVars, taskVars>>

-----------------------------------------------------------------------------
(* The Rust task of a request: handle_request *)

\* A closed listener may still hand over a connection (select! chooses at random
\* between accept and stop) and the connections it opened are kept alive, so
\* requests arrive for ever once a server was started.
Reachable == \E g \in Servers : listener[g] # "none"

\* A plain request: an id is taken and the body is awaited.
ArrivePlain(r) ==
  /\ r \notin Upgrades
  /\ task[r] = "idle"
  /\ Reachable
  /\ task' = [task EXCEPT ![r] = "reading"]
  /\ UNCHANGED <<reply, serverVars, tableVars, handlerVars>>

\* The body is in (or failed, which counts as an empty body): store the
\* response sender, then queue the request.
Enqueue(r) ==
  /\ task[r] = "reading"
  /\ pending' = pending \cup {r}
  /\ queue' = Append(queue, r)
  /\ task' = [task EXCEPT ![r] = "waiting"]
  /\ UNCHANGED <<reply, upgradeMap, respSlot, upSlot,
                 serverVars, handlerVars>>

\* An upgrade request stores both senders and queues without an await.
ArriveUpgrade(r) ==
  /\ r \in Upgrades
  /\ task[r] = "idle"
  /\ Reachable
  /\ upgradeMap' = upgradeMap \cup {r}
  /\ pending' = pending \cup {r}
  /\ queue' = Append(queue, r)
  /\ task' = [task EXCEPT ![r] = "waiting"]
  /\ UNCHANGED <<reply, respSlot, upSlot, serverVars, handlerVars>>

Finish(r, answer) ==
  /\ task' = [task EXCEPT ![r] = "done"]
  /\ reply' = [reply EXCEPT ![r] = answer]

\* The response channel is ready.  The sender was removed by __serve_respond;
\* the upgrade entry of an upgrade request stays behind.
TakeResponse(r) ==
  /\ task[r] = "waiting"
  /\ respSlot[r] # "empty"
  /\ Finish(r, respSlot[r])
  /\ UNCHANGED <<serverVars, tableVars, handlerVars>>

\* The upgrade channel is ready and select! picks it.
TakeUpgrade(r) ==
  /\ task[r] = "waiting"
  /\ upSlot[r]
  /\ pending' = pending \ {r}
  /\ Finish(r, "switching")
  /\ UNCHANGED <<queue, upgradeMap, respSlot, upSlot,
                 serverVars, handlerVars>>

\* Mutants: upgrade requests have no timer; the timer is polled first.
TimerOfPlainOnly(r) == r \notin Upgrades /\ respSlot[r] = "empty"
TimerFirst(r) == TRUE

\* tokio::time::timeout polls the response first, so on a plain request a
\* ready answer wins; select! on an upgrade request may pick the timer
\* although another branch is ready too.
TimerMayWin(r) == r \in Upgrades \/ respSlot[r] = "empty"

\* 30 s are over.
TimeOut(r) ==
  /\ task[r] = "waiting"
  /\ TimerMayWin(r)
  /\ pending' = pending \ {r}
  /\ upgradeMap' = upgradeMap \ {r}
  /\ Finish(r, "timeout")
  /\ UNCHANGED <<queue, respSlot, upSlot, serverVars, handlerVars>>

\* The client hangs up and hyper drops the task at its await: the receivers
\* are gone, the table entries stay.
ClientGone(r) ==
  /\ task[r] \in {"reading", "waiting"}
  /\ task' = [task EXCEPT ![r] = "dropped"]
  /\ UNCHANGED <<reply, serverVars, tableVars, handlerVars>>

-----------------------------------------------------------------------------
(* JavaScript: processLoop and the handlers *)

\* Mutant: the request is handed out but stays queued.
PeekRequest ==
  /\ handler' = [handler EXCEPT ![Head(queue)] = "running"]
  /\ UNCHANGED queue

\* __serve_next_request pops the queue; the loop starts the handler.
TakeRequest ==
  /\ handler' = [handler EXCEPT ![Head(queue)] = "running"]
  /\ queue' = Tail(queue)

LeaveLoop(g) ==
  /\ rxLock' = Tail(rxLock)
  /\ loop' = [loop EXCEPT ![g] = "ended"]

\* Mutant: the loop serves one request.
LoopOnce(g) == LeaveLoop(g)

\* while (running): ask again, at the end of the lock's queue.
LoopAgain(g) ==
  IF running THEN rxLock' = Append(Tail(rxLock), g) /\ UNCHANGED loop
             ELSE LeaveLoop(g)

\* The loop that holds the receiver gets the head of the queue.
NextRequest(g) ==
  /\ rxLock # <<>> /\ Head(rxLock) = g
  /\ queue # <<>>
  /\ TakeRequest
  /\ LoopAgain(g)
  /\ UNCHANGED <<listener, shutdownTx, running, stopped, claimed,
                 pending, upgradeMap, respSlot, upSlot, taskVars>>

\* Mutant: the loop takes "" for a spurious wake-up and asks again.
LoopRetries(g) ==
  /\ stopped
  /\ \E i \in DOMAIN rxLock : rxLock[i] = g
  /\ UNCHANGED vars

\* After a stop, and for good, the stop branch of __serve_next_request is
\* ready: it returns "" and the loop breaks, whether or not requests queue.
LoopStops(g) ==
  /\ stopped
  /\ \E i \in DOMAIN rxLock : /\ rxLock[i] = g
                             /\ rxLock' = RemoveAt(rxLock, i)
  /\ loop' = [loop EXCEPT ![g] = "ended"]
  /\ UNCHANGED <<listener, shutdownTx, running, stopped,
                 tableVars, handlerVars, taskVars>>

\* server.upgrade(req), by the handler or by whoever has kept the request since:
\* takes the sender if it is there.
CallUpgrade(r) ==
  /\ handler[r] # "unseen"
  /\ r \in upgradeMap
  /\ upgradeMap' = upgradeMap \ {r}
  /\ upSlot' = [upSlot EXCEPT ![r] = (task[r] = "waiting")]
  /\ claimed' = [claimed EXCEPT ![r] = TRUE]
  /\ UNCHANGED <<queue, pending, respSlot, handler, serverVars, taskVars>>

\* Mutant: the sender is used but stays stored.
RespondKeeps(r, answer) ==
  /\ UNCHANGED pending
  /\ respSlot' = IF r \in pending /\ task[r] = "waiting"
                 THEN [respSlot EXCEPT ![r] = answer] ELSE respSlot

\* __serve_respond: send through the stored sender, if it is still stored;
\* a send to a task that is gone is lost.
Respond(r, answer) ==
  /\ pending' = pending \ {r}
  /\ respSlot' = IF r \in pending /\ task[r] = "waiting"
                 THEN [respSlot EXCEPT ![r] = answer] ELSE respSlot

\* The handler settles with a response, or throws.
HandlerAnswers(r, answer) ==
  /\ handler[r] = "running"
  /\ handler' = [handler EXCEPT ![r] = "returned"]
  /\ Respond(r, answer)
  /\ UNCHANGED <<claimed, queue, upgradeMap, upSlot, serverVars, taskVars>>

\* undefined for an upgrade request: handleRequest sends nothing.
HandlerReturnsNothing(r) ==
  /\ r \in Upgrades
  /\ handler[r] = "running"
  /\ handler' = [handler EXCEPT ![r] = "returned"]
  /\ UNCHANGED <<claimed, tableVars, serverVars, taskVars>>

-----------------------------------------------------------------------------
Next ==
  \/ Stop
  \/ \E g \in Servers : \/ ServeStart(g) \/ ServeRun(g) \/ AcceptFails(g)
                        \/ NextRequest(g) \/ LoopStops(g)
  \/ \E r \in Requests : \/ ArrivePlain(r) \/ Enqueue(r) \/ ArriveUpgrade(r)
                         \/ TakeResponse(r) \/ TakeUpgrade(r)
                         \/ TimeOut(r) \/ ClientGone(r)
                         \/ CallUpgrade(r) \/ HandlerReturnsNothing(r)
                         \/ \E a \in Answers : HandlerAnswers(r, a)

\* What tokio guarantees: timers fire, woken tasks and loops run.  Clients and
\* handlers owe nothing: a handler may hang for ever.
Fairness ==
  /\ \A r \in Requests : WF_vars(TimeOut(r)) /\ WF_vars(TakeResponse(r) \/ TakeUpgrade(r))
  /\ \A g \in Servers : WF_vars(LoopStops(g))
  /\ WF_vars(\E g \in Servers : NextRequest(g))

Spec == Init /\ [][Next]_vars /\ Fairness

-----------------------------------------------------------------------------
(* Properties *)

\* A task that waits without an answer has its sender in the table, so an
\* answer given now reaches it: no interleaving of other requests, timers,
\* stops and restarts loses the route back (pending in handle_request and
\* __serve_respond).
AnswerHasRoute ==
  \A r \in Requests :
    task[r] = "waiting" /\ respSlot[r] = "empty" => r \in pending

\* A finished request leaves nothing in the shared tables, with the one
\* exception the code has: an upgrade request that got an ordinary answer
\* keeps its upgrade_map entry (the resp_rx branch removes nothing).
TablesClean ==
  \A r \in Requests : task[r] = "done" =>
    /\ r \notin pending
    /\ r \in upgradeMap => reply[r] \in Answers

\* A sender is in a table only while its channel is unused, and channels are
\* unused before the request is stored: each channel carries one value at most.
SendersUnused ==
  \A r \in Requests :
    /\ r \in pending => respSlot[r] = "empty" /\ task[r] \notin {"idle", "reading"}
    /\ r \in upgradeMap => ~upSlot[r] /\ task[r] \notin {"idle", "reading"}
    /\ task[r] \in {"idle", "reading"} => respSlot[r] = "empty" /\ ~upSlot[r]

\* A reply is what a channel carried, or the timeout; a plain request whose
\* answer was sent in time does not time out.
ReplyJustified ==
  \A r \in Requests :
    /\ task[r] = "done" <=> reply[r] # "none"
    /\ reply[r] \in Answers => respSlot[r] = reply[r]
    /\ reply[r] = "switching" => upSlot[r]
    /\ reply[r] = "timeout" /\ r \notin Upgrades => respSlot[r] = "empty"
    /\ upSlot[r] => r \in Upgrades

\* The reply tables and channels agree with each other and with the tasks.
TableInv == AnswerHasRoute /\ TablesClean /\ SendersUnused /\ ReplyJustified

\* A request is in exactly one place on its way to JavaScript: queued once and
\* unseen, or taken once; nothing is handled twice although several loops
\* share the receiver and a stop may interrupt any of them.
HandledOnce ==
  /\ \A i, j \in DOMAIN queue : queue[i] = queue[j] => i = j
  /\ \A r \in Requests :
       /\ (\E i \in DOMAIN queue : queue[i] = r) =>
             handler[r] = "unseen" /\ task[r] \notin {"idle", "reading"}
       /\ task[r] \in {"waiting", "done"} /\ handler[r] = "unseen" =>
             \E i \in DOMAIN queue : queue[i] = r

\* At most one accept loop is open, and it is the one a stop() would close:
\* starting another server closes the first one's listener (__serve_start).
OneListener ==
  \A g \in Servers : listener[g] = "open" => shutdownTx = g

\* The receiver's lock is queued for by exactly the loops that are fetching.
LockQueueExact ==
  /\ \A i, j \in DOMAIN rxLock : rxLock[i] = rxLock[j] => i = j
  /\ \A g \in Servers :
       loop[g] = "fetching" <=> \E i \in DOMAIN rxLock : rxLock[i] = g

\* Listeners and loops are where __serve_start and __serve_stop believe them.
ServersInv == OneListener /\ LockQueueExact

\* Every request that waits ends: answered, switched, timed out or abandoned,
\* even when its handler hangs, the server is stopped or its loop has died.
\* And until the program stops a server, it reaches a handler.
EveryWaitEnds ==
  \A r \in Requests :
    /\ task[r] = "waiting" ~> task[r] \in {"done", "dropped"}
    /\ (task[r] = "waiting" /\ running) ~> (handler[r] # "unseen" \/ stopped)

\* Once a server was stopped every loop ends, that of a server started later
\* included: the stop notification is never reset.
StopIsForGood == stopped ~> [](\A g \in Servers : loop[g] \notin {"fetching"})

-----------------------------------------------------------------------------
(* Refinement *)

StatusOf(r) == CASE task[r] = "idle"                   -> "new"
                 [] task[r] \in {"reading", "waiting"} -> "open"
                 [] OTHER                              -> "closed"

OffersOf(r) == {a \in Answers : respSlot[r] = a}
               \cup {u \in {"switching"} : upSlot[r]}

\* What a client sees of this server is what RequestReply allows.
RR == INSTANCE RequestReply
        WITH status <- [r \in Requests |-> StatusOf(r)],
             offers <- [r \in Requests |-> OffersOf(r)],
             result <- reply

RefinesRequestReply == RR!Spec
=============================================================================
