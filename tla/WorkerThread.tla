---------------------------- MODULE WorkerThread ----------------------------
(***************************************************************************)
(* A worker of the worker_threads module: the OS thread that runs its      *)
(* script (crates/taiyaki-cli/src/worker_threads.rs) and the Worker object *)
(* that stands for it in the main thread (crates/taiyaki-node-polyfill/    *)
(* src/js/worker_threads.js).                                              *)
(*                                                                         *)
(* The two threads share an entry of WorkerState.workers and two channels: *)
(* messages down, events up.  The Worker's _pollLoop asks for one event at *)
(* a time; between the moment a poll takes an event and the moment the     *)
(* loop resumes with it, other JavaScript runs and may call terminate().   *)
(* Listeners are user code and may throw; emit() rethrows.  A script may   *)
(* start work of its own, a timer or an interval, and idle() ends only     *)
(* when all of that is over.                                               *)
(*                                                                         *)
(* Messages are abstracted to their number in their channel.               *)
(***************************************************************************)
EXTENDS Naturals, SequencesExt

CONSTANTS MaxUp,    \* bound: messages the worker posts
          MaxDown   \* bound: messages posted to it

ASSUME WorkerAssumption == MaxUp \in Nat /\ MaxDown \in Nat

VARIABLES
  thread,    \* the worker's thread
  port,      \* the pollLoop of its parentPort
  pending,   \* work its script has under way beside the port: timers, requests
  posted,    \* messages it has posted
  up,        \* events on their way to the main thread
  entry,     \* the worker's entry (msg_tx, event_rx) is in the table
  sent,      \* messages the main thread has posted
  down,      \* messages on their way to the worker
  handled,   \* calls of the worker's message listeners
  exited,    \* Worker._exited
  poll,      \* where the Worker's _pollLoop stands
  held,      \* the event its last poll took
  emitted,   \* events the Worker has emitted
  late,      \* how many of them after terminate() was called
  terminated,\* terminate() did its work
  threw      \* some listener of the Worker threw

threadVars == <<thread, port, pending, posted, handled>>
mainVars   == <<exited, poll, held, emitted, late, terminated, threw>>
vars == <<threadVars, up, entry, sent, down, mainVars>>

Event(kind, n) == [kind |-> kind, n |-> n]
Events == [kind : {"message", "error", "exit"}, n : Nat]
NoEvent == Event("none", 0)

TypeOK ==
  /\ thread \in {"booting", "script", "failed", "idle", "exited0", "exited1", "panicked"}
  /\ port \in {"off", "polling", "ended"}
  /\ pending \in BOOLEAN
  /\ posted \in 0..MaxUp
  /\ up \in Seq(Events)
  /\ entry \in BOOLEAN
  /\ sent \in 0..MaxDown
  /\ down \in Seq(1..MaxDown)
  /\ handled \in Seq(1..MaxDown)
  /\ exited \in BOOLEAN
  /\ poll \in {"check", "called", "waiting", "resuming", "ended"}
  /\ held \in Events \cup {NoEvent}
  /\ emitted \in Seq(Events)
  /\ late \in Nat
  /\ terminated \in BOOLEAN /\ threw \in BOOLEAN

\* new Worker(...): __worker_spawn has started the thread and stored the entry.
Init ==
  /\ thread = "booting" /\ port = "off" /\ pending = FALSE /\ posted = 0
  /\ up = <<>>
  /\ entry = TRUE
  /\ sent = 0 /\ down = <<>> /\ handled = <<>>
  /\ exited = FALSE /\ poll = "check" /\ held = NoEvent
  /\ emitted = <<>> /\ late = 0
  /\ terminated = FALSE /\ threw = FALSE

-----------------------------------------------------------------------------
(* The worker's thread: run_worker *)

\* The engine is up and the script is being evaluated.  A script that imports
\* worker_threads has a parentPort that listens from then on.
Boot ==
  /\ thread = "booting"
  /\ thread' = "script"
  /\ port' \in {"off", "polling"}
  /\ UNCHANGED <<pending, posted, handled, up, entry, sent, down, mainVars>>

\* No tokio runtime for the thread: it panics and sends nothing.
Panic ==
  /\ thread = "booting"
  /\ thread' = "panicked"
  /\ UNCHANGED <<port, pending, posted, handled, up, entry, sent, down, mainVars>>

\* JavaScript of the worker can run: its script, a listener of its port, or a
\* callback of its own work.
Runs == thread = "script" \/ (thread = "idle" /\ (port = "polling" \/ pending))

\* The script's own work begins or ends: a timer or an interval, say, is set or
\* cleared (in_flight of the engine).  Nothing makes the script end it.
Work ==
  /\ Runs
  /\ pending' = ~pending
  /\ UNCHANGED <<thread, port, posted, handled, up, entry, sent, down, mainVars>>

\* parentPort.postMessage, from the script or from any later callback.
PostUp ==
  /\ Runs
  /\ posted < MaxUp
  /\ posted' = posted + 1
  /\ up' = Append(up, Event("message", posted'))
  /\ UNCHANGED <<thread, port, pending, handled, entry, sent, down, mainVars>>

\* The script was evaluated; the engine idles until nothing is pending.
ScriptEnds ==
  /\ thread = "script"
  /\ thread' = "idle"
  /\ UNCHANGED <<port, pending, posted, handled, up, entry, sent, down, mainVars>>

\* The script cannot be read, parsed or evaluated: error first, exit next.
ScriptFails ==
  /\ thread \in {"booting", "script"}
  /\ thread' = "failed"
  /\ up' = Append(up, Event("error", 0))
  /\ UNCHANGED <<port, pending, posted, handled, entry, sent, down, mainVars>>

\* recv() hands a message to the port's loop, which emits it.  A listener
\* that throws is called again, with the raw text; if it throws again the
\* loop is over.
ReceiveDown ==
  LET m == Head(down) IN
  /\ thread = "idle" /\ port = "polling"
  /\ down # <<>>
  /\ down' = Tail(down)
  /\ \/ handled' = Append(handled, m) /\ UNCHANGED port
     \/ /\ handled' = handled \o <<m, m>>
        /\ port' \in {"polling", "ended"}
  /\ UNCHANGED <<thread, pending, posted, up, entry, sent, mainVars>>

\* Mutant: a terminated port still waits.
PortNeverCloses == FALSE

\* recv() returns None: all messages are taken and the sender is dropped.
PortIsClosed == down = <<>> /\ ~entry

\* The loop is over and emits 'close', whose listeners may start work.
PortCloses ==
  /\ thread = "idle" /\ port = "polling"
  /\ PortIsClosed
  /\ port' = "ended"
  /\ pending' \in {pending, TRUE}
  /\ UNCHANGED <<thread, posted, handled, up, entry, sent, down, mainVars>>

\* Nothing is in flight any more, or the run has failed: the exit event, with
\* its code.
ThreadExits ==
  /\ \/ thread = "idle" /\ ~Runs
     \/ thread = "failed"
  /\ IF thread = "idle"
     THEN thread' = "exited0" /\ up' = Append(up, Event("exit", 0))
     ELSE thread' = "exited1" /\ up' = Append(up, Event("exit", 1))
  /\ UNCHANGED <<port, pending, posted, handled, entry, sent, down, mainVars>>

-----------------------------------------------------------------------------
(* The main thread *)

\* Mutant: the newest message is received first.
EnqueueFirst(m) == <<m>> \o down

Enqueue(m) == Append(down, m)

\* worker.postMessage: the message is lost if the entry or the receiver is gone.
PostDown ==
  /\ ~exited
  /\ sent < MaxDown
  /\ sent' = sent + 1
  /\ down' = IF entry /\ thread \in {"booting", "script", "idle"}
             THEN Enqueue(sent') ELSE down
  /\ UNCHANGED <<threadVars, up, entry, mainVars>>

\* worker.terminate(): the entry goes, and with it the sender.
Terminate ==
  /\ ~exited
  /\ exited' = TRUE
  /\ terminated' = TRUE
  /\ entry' = FALSE
  /\ UNCHANGED <<threadVars, up, sent, down, poll, held, emitted, late, threw>>

\* while (!this._exited): call __worker_poll_event, or leave.
CheckLoop ==
  /\ poll = "check"
  /\ poll' = IF exited THEN "ended" ELSE "called"
  /\ UNCHANGED <<threadVars, up, entry, sent, down,
                 exited, held, emitted, late, terminated, threw>>

\* The poll's future runs for the first time and looks the entry up.
LookUp ==
  /\ poll = "called"
  /\ poll' = IF entry THEN "waiting" ELSE "ended"
  /\ UNCHANGED <<threadVars, up, entry, sent, down,
                 exited, held, emitted, late, terminated, threw>>

\* Mutant: the entry is left to terminate().
KeepEntry(ev) == UNCHANGED entry

\* The poll removes the entry when it takes the exit event.
CleanUp(ev) == entry' = (entry /\ ev.kind # "exit")

TakeEvent ==
  /\ poll = "waiting" /\ up # <<>>
  /\ held' = Head(up)
  /\ up' = Tail(up)
  /\ poll' = "resuming"
  /\ CleanUp(Head(up))
  /\ UNCHANGED <<threadVars, sent, down,
                 exited, emitted, late, terminated, threw>>

\* recv() returns None: the thread is gone without an exit event.
TakeNothing ==
  /\ poll = "waiting" /\ up = <<>> /\ thread = "panicked"
  /\ entry' = FALSE
  /\ poll' = "ended"
  /\ UNCHANGED <<threadVars, up, sent, down,
                 exited, held, emitted, late, terminated, threw>>

\* Mutant: a message is emitted parsed and raw.
EmitTwice(times, ev) == emitted' = emitted \o <<ev, ev>> /\ UNCHANGED late

\* Emitting ev calls times: late counts what follows terminate().
EmitTimes(times, ev) ==
  /\ emitted' = emitted \o [i \in 1..times |-> ev]
  /\ late' = IF terminated THEN late + 1 ELSE late

\* Mutants: the loop keeps the receiver it has; the loop runs once.
IterateWithReceiver(listenerThrew) ==
  poll' = IF listenerThrew THEN "ended" ELSE "waiting"
IterateOnce(listenerThrew) == poll' = "ended"

\* The loop's next iteration; an exception rejects the loop's promise.
Iterate(listenerThrew) ==
  poll' = IF listenerThrew THEN "ended" ELSE "check"

\* _pollLoop resumes with a message.  If a listener throws the message is
\* emitted once more as raw text, and a second throw ends the loop.
EmitMessage ==
  /\ poll = "resuming" /\ held.kind = "message"
  /\ \/ EmitTimes(1, held) /\ Iterate(FALSE) /\ UNCHANGED threw
     \/ EmitTimes(2, held) /\ threw' = TRUE
        /\ \E again \in BOOLEAN : Iterate(again)
  /\ held' = NoEvent
  /\ UNCHANGED <<threadVars, up, entry, sent, down, exited, terminated>>

\* emit('error') throws if nobody listens, too.
EmitError ==
  /\ poll = "resuming" /\ held.kind = "error"
  /\ EmitTimes(1, held)
  /\ \E throws \in BOOLEAN : Iterate(throws) /\ threw' = (threw \/ throws)
  /\ held' = NoEvent
  /\ UNCHANGED <<threadVars, up, entry, sent, down, exited, terminated>>

EmitExit ==
  /\ poll = "resuming" /\ held.kind = "exit"
  /\ exited' = TRUE
  /\ EmitTimes(1, held)
  /\ \E throws \in BOOLEAN : Iterate(throws) /\ threw' = (threw \/ throws)
  /\ held' = NoEvent
  /\ UNCHANGED <<threadVars, up, entry, sent, down, terminated>>

-----------------------------------------------------------------------------
WorkerSteps == \/ Boot \/ Panic \/ Work \/ PostUp \/ ScriptEnds \/ ScriptFails
               \/ ReceiveDown \/ PortCloses \/ ThreadExits
PollSteps == \/ CheckLoop \/ LookUp \/ TakeEvent \/ TakeNothing
             \/ EmitMessage \/ EmitError \/ EmitExit

Next == WorkerSteps \/ PollSteps \/ PostDown \/ Terminate

\* Both event loops run and listeners return; a port's loop takes what is there
\* and sees the end of its channel.  Neither the script itself nor the work it
\* starts is assumed to end.
Fairness == /\ WF_vars(PollSteps)
            /\ WF_vars(ReceiveDown \/ PortCloses) /\ WF_vars(ThreadExits)

Spec == Init /\ [][Next]_vars /\ Fairness

-----------------------------------------------------------------------------
(* Properties *)

\* All the thread has sent so far.
History ==
  [i \in 1..posted |-> Event("message", i)]
  \o (IF thread \in {"failed", "exited1"} THEN <<Event("error", 0)>> ELSE <<>>)
  \o (IF thread = "exited0" THEN <<Event("exit", 0)>>
      ELSE IF thread = "exited1" THEN <<Event("exit", 1)>> ELSE <<>>)

\* Unless a listener throws, the Worker emits exactly what the thread sent, in
\* that order: what was emitted, what a poll holds and what is queued are the
\* thread's messages, its error if it failed, and its exit, which is last.
EventsInOrder ==
  ~threw => emitted \o (IF held = NoEvent THEN <<>> ELSE <<held>>) \o up = History

\* After terminate() at most one more event is emitted: the one whose poll was
\* under way.
AtMostOneAfterTerminate == late <= 1

\* A Worker whose loop is over has no entry left in the table, unless the loop
\* died of a listener's exception.
NoEntryLeaks == poll = "ended" /\ entry => threw

\* Until the thread exits, every message posted to it before terminate() was
\* handled or is queued, and all are handled in the order of posting: neither
\* a throwing listener nor terminate() loses one that was sent before.
MessagesAccounted ==
  LET all == handled \o down IN
  /\ \A i, j \in DOMAIN all : i < j => all[i] <= all[j]
  /\ thread \in {"booting", "script", "idle"} =>
       1..sent = {all[i] : i \in DOMAIN all}

\* terminate() ends an idle worker whose own work is over for good some day: its
\* port sees the closed channel once the messages before it are handled.  It
\* only drops the sender, so a worker with a running interval outlives it.  And
\* the exit of a worker is emitted, unless it was terminated or a listener threw.
ExitIsReported ==
  /\ <>[]~pending => ((terminated /\ thread = "idle") ~> thread = "exited0")
  /\ thread \in {"exited0", "exited1"} ~>
       \/ \E i \in DOMAIN emitted : emitted[i].kind = "exit"
       \/ terminated \/ threw
=============================================================================
