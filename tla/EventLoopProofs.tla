--------------------------- MODULE EventLoopProofs ---------------------------
(***************************************************************************)
(* Proofs about the two event loops: of the owner of a worker              *)
(* (WorkerThread), for any number of messages either way, and of a         *)
(* compiled binary (AotAsync), for any programs, any room among the        *)
(* continuations of a promise and any number of threads.                   *)
(***************************************************************************)
EXTENDS WorkerThread, AotAsync, SequenceLemmas

-----------------------------------------------------------------------------
(* The poll loop of a worker's owner                                        *)

\* What the promises about terminate() and the table rest on: whoever sets
\* _exited has removed the entry, or the poll did so when it took the exit
\* event; and once something was emitted after terminate() the loop is at its
\* test or over.
LoopInv ==
  /\ exited => ~entry
  /\ poll = "resuming" /\ held.kind = "exit" => ~entry
  /\ terminated => exited
  /\ late > 0 => terminated /\ poll \in {"check", "ended"}

\* What is inductive about the poll loop and terminate().
WorkerInv == LoopInv /\ AtMostOneAfterTerminate /\ NoEntryLeaks /\ late \in Nat

\* One step per action of the owner and of the poll loop.
LEMMA WorkerStep == WorkerInv /\ [Next]_vars => WorkerInv'
<1> SUFFICES ASSUME WorkerInv, [Next]_vars PROVE WorkerInv'
  OBVIOUS
<1> USE DEF WorkerInv, LoopInv, AtMostOneAfterTerminate, NoEntryLeaks
<1>1. CASE WorkerSteps \/ PostDown
  <2> UNCHANGED <<entry, mainVars>>
    BY <1>1 DEF WorkerSteps, Boot, Panic, Work, PostUp, ScriptEnds, ScriptFails,
                ReceiveDown, PortCloses, ThreadExits, PostDown
  <2> QED BY DEF mainVars
<1>2. CASE Terminate
  BY <1>2 DEF Terminate
<1>3. CASE CheckLoop
  BY <1>3 DEF CheckLoop
<1>4. CASE LookUp
  BY <1>4 DEF LookUp
<1>5. CASE TakeEvent
  BY <1>5 DEF TakeEvent, CleanUp
<1>6. CASE TakeNothing
  BY <1>6 DEF TakeNothing
<1>7. ASSUME poll = "resuming", UNCHANGED <<entry, terminated>>,
             exited' = exited \/ (held.kind = "exit" /\ exited'),
             late' = IF terminated THEN late + 1 ELSE late,
             threw => threw',
             poll' = "check" \/ (poll' = "ended" /\ threw')
      PROVE  WorkerInv'
  BY <1>7
<1>8. CASE EmitMessage
  <2>1. threw => threw'
    BY <1>8 DEF EmitMessage
  <2>2. poll' = "check" \/ (poll' = "ended" /\ threw')
    BY <1>8 DEF EmitMessage, Iterate
  <2> QED BY <1>7, <1>8, <2>1, <2>2 DEF EmitMessage, EmitTimes
<1>9. CASE EmitError
  BY <1>7, <1>9 DEF EmitError, EmitTimes, Iterate
<1>10. CASE EmitExit
  BY <1>7, <1>10 DEF EmitExit, EmitTimes, Iterate
<1>11. CASE UNCHANGED vars
  BY <1>11 DEF vars, mainVars
<1> QED BY <1>1, <1>2, <1>3, <1>4, <1>5, <1>6, <1>8, <1>9, <1>10, <1>11
        DEF Next, PollSteps

\* WorkerInv holds in every reachable state.
LEMMA WorkerInvariant == Spec => []WorkerInv
<1>1. Init => WorkerInv
  BY DEF Init, WorkerInv, LoopInv, AtMostOneAfterTerminate, NoEntryLeaks
<1> QED BY <1>1, WorkerStep, PTL DEF Spec

\* After terminate() a Worker emits at most one more event, that of the poll
\* under way, for any backlog and any throwing listeners (_pollLoop).
THEOREM TerminateSilences == Spec => []AtMostOneAfterTerminate
BY WorkerInvariant, PTL DEF WorkerInv

\* A Worker whose loop is over has left no entry in the table, unless a
\* listener's exception ended the loop (__worker_poll_event, terminate).
THEOREM LoopsLeaveNoEntry == Spec => []NoEntryLeaks
BY WorkerInvariant, PTL DEF WorkerInv

-----------------------------------------------------------------------------
\* Every variable keeps its type.
THEOREM TypeCorrect == Spec => []TypeOK
<1> USE WorkerAssumption
<1>1. Init => TypeOK
  <2> SUFFICES ASSUME Init PROVE TypeOK
    OBVIOUS
  <2>1. \A S : <<>> \in Seq(S)
    BY EmptySeq
  <2>2. up \in Seq(Events) /\ emitted \in Seq(Events)
        /\ down \in Seq(1..MaxDown) /\ handled \in Seq(1..MaxDown)
    BY <2>1 DEF Init
  <2>3. posted \in 0..MaxUp /\ sent \in 0..MaxDown
    BY DEF Init
  <2> QED BY <2>2, <2>3 DEF Init, TypeOK
<1>2. TypeOK /\ [Next]_vars => TypeOK'
  <2> SUFFICES ASSUME TypeOK, [Next]_vars PROVE TypeOK'
    OBVIOUS
  <2> USE DEF TypeOK, mainVars, threadVars
  <2>e. /\ \A k \in {"message", "error", "exit"}, n \in Nat : Event(k, n) \in Events
        /\ NoEvent.kind = "none" /\ 0 \in Nat /\ 1 \in Nat
    BY DEF Event, Events, NoEvent
  <2>a. \A e \in Events : Append(up, e) \in Seq(Events)
    BY AppendProperties
  <2>1. CASE Boot \/ Panic \/ ScriptEnds \/ UNCHANGED vars
    BY <2>1 DEF Boot, Panic, ScriptEnds, vars
  <2>13. CASE Work \/ PortCloses
    <3>1. pending' \in BOOLEAN
      BY <2>13 DEF Work, PortCloses
    <3>2. /\ UNCHANGED <<thread, posted, handled, up, entry, sent, down, mainVars>>
          /\ port' \in {port, "ended"}
      BY ZenonT(40), <2>13 DEF Work, PortCloses
    <3> QED BY <3>1, <3>2
  <2>2. CASE PostUp
    <3>1. posted' \in 0..MaxUp /\ posted' \in Nat
      BY <2>2 DEF PostUp
    <3> QED BY <2>2, <2>e, <2>a, <3>1 DEF PostUp
  <2>3. CASE ScriptFails
    BY <2>3, <2>e, <2>a DEF ScriptFails
  <2>4. CASE ReceiveDown
    <3>1. Head(down) \in 1..MaxDown /\ Tail(down) \in Seq(1..MaxDown)
      BY <2>4, HeadTailProperties DEF ReceiveDown
    <3>2. <<Head(down), Head(down)>> \in Seq(1..MaxDown)
      BY <3>1
    <3>3. /\ Append(handled, Head(down)) \in Seq(1..MaxDown)
          /\ handled \o <<Head(down), Head(down)>> \in Seq(1..MaxDown)
      BY <3>1, <3>2, AppendProperties, ConcatProperties
    <3> QED BY <2>4, <3>1, <3>3 DEF ReceiveDown
  <2>5. CASE ThreadExits
    BY <2>5, <2>e, <2>a DEF ThreadExits
  <2>6. CASE PostDown
    <3>1. sent' \in 0..MaxDown /\ sent' \in 1..MaxDown
      BY <2>6 DEF PostDown
    <3>2. Append(down, sent') \in Seq(1..MaxDown)
      BY <3>1, AppendProperties
    <3> QED BY ZenonT(40), <2>6, <3>1, <3>2 DEF PostDown, Enqueue
  <2>7. CASE Terminate
    BY <2>7 DEF Terminate
  <2>8. CASE CheckLoop \/ LookUp \/ TakeNothing
    BY <2>8 DEF CheckLoop, LookUp, TakeNothing
  <2>9. CASE TakeEvent
    <3>1. Head(up) \in Events /\ Tail(up) \in Seq(Events)
      BY <2>9, HeadTailProperties DEF TakeEvent
    <3> QED BY <2>9, <3>1 DEF TakeEvent, CleanUp
  <2>10. ASSUME NEW times \in {1, 2}, held \in Events, EmitTimes(times, held)
         PROVE  emitted' \in Seq(Events) /\ late' \in Nat
    <3>1. [i \in 1..times |-> held] \in Seq(Events)
      BY <2>10
    <3>2. emitted \o [i \in 1..times |-> held] \in Seq(Events)
      BY <3>1, ConcatProperties
    <3> QED BY <2>10, <3>2 DEF EmitTimes
  <2>11. CASE EmitMessage
    <3>1. held \in Events
      BY <2>11, <2>e DEF EmitMessage
    <3>2. emitted' \in Seq(Events) /\ late' \in Nat
      BY <2>10, <2>11, <3>1 DEF EmitMessage
    <3>3. poll' \in {"check", "ended"} /\ threw' \in BOOLEAN
      BY <2>11 DEF EmitMessage, Iterate
    <3> QED BY <2>11, <3>2, <3>3 DEF EmitMessage
  <2>12. CASE EmitError \/ EmitExit
    <3>1. held \in Events
      BY <2>12, <2>e DEF EmitError, EmitExit
    <3>2. emitted' \in Seq(Events) /\ late' \in Nat
      BY <2>10, <2>12, <3>1 DEF EmitError, EmitExit
    <3>3. poll' \in {"check", "ended"} /\ threw' \in BOOLEAN
      BY <2>12 DEF EmitError, EmitExit, Iterate
    <3> QED BY <2>12, <3>2, <3>3 DEF EmitError, EmitExit
  <2> QED BY <2>1, <2>2, <2>3, <2>4, <2>5, <2>6, <2>7, <2>8, <2>9, <2>11, <2>12, <2>13
             DEF Next, WorkerSteps, PollSteps
<1> QED BY <1>1, <1>2, PTL DEF Spec

-----------------------------------------------------------------------------
(* Events upwards *)

\* An event is held between a poll and the loop's resuming with it, only.
HeldInv == poll # "resuming" => held = NoEvent

\* The history by what the thread is at and by the number of its messages.
Messages(n) == [i \in 1..n |-> Event("message", i)]
HistoryOf(th, n) ==
  Messages(n)
  \o (IF th \in {"failed", "exited1"} THEN <<Event("error", 0)>> ELSE <<>>)
  \o (IF th = "exited0" THEN <<Event("exit", 0)>>
      ELSE IF th = "exited1" THEN <<Event("exit", 1)>> ELSE <<>>)

LEMMA MessagesGrow ==
  ASSUME NEW n \in Nat
  PROVE  /\ Messages(n) \in Seq(Events)
         /\ Event("message", n + 1) \in Events
         /\ Messages(n + 1) = Append(Messages(n), Event("message", n + 1))
<1>1. \A k \in Nat : Event("message", k) \in Events
  BY DEF Event, Events
<1>2. \A k \in Nat : Messages(k) \in Seq(Events) /\ Len(Messages(k)) = k
  BY <1>1 DEF Messages
<1>3. \A k \in Nat : \A i \in 1..k : Messages(k)[i] = Event("message", i)
  BY DEF Messages
<1> HIDE DEF Messages
<1> DEFINE t == Append(Messages(n), Event("message", n + 1))
<1>4. /\ t \in Seq(Events) /\ Len(t) = n + 1 /\ t[n + 1] = Event("message", n + 1)
      /\ \A i \in 1..n : t[i] = Messages(n)[i]
  BY <1>1, <1>2, AppendProperties
<1> HIDE DEF t
<1>5. \A i \in 1..(n + 1) : i = n + 1 \/ i \in 1..n
  OBVIOUS
<1>6. n + 1 \in Nat /\ \A i \in 1..(n + 1) : Messages(n + 1)[i] = t[i]
  BY <1>3, <1>4, <1>5
<1>7. Messages(n + 1) = t
  BY <1>2, <1>4, <1>6, SeqEqual
<1> QED BY <1>1, <1>2, <1>7 DEF t

LEMMA HistoryIs ==
  ASSUME NEW th \in {"booting", "script", "failed", "idle", "exited0", "exited1", "panicked"},
         NEW n \in Nat
  PROVE  /\ HistoryOf(th, n) \in Seq(Events)
         /\ th \in {"booting", "script", "idle", "panicked"} => HistoryOf(th, n) = Messages(n)
         /\ th = "failed" => HistoryOf(th, n) = Append(Messages(n), Event("error", 0))
         /\ th = "exited0" => HistoryOf(th, n) = Append(Messages(n), Event("exit", 0))
         /\ th = "exited1" =>
              HistoryOf(th, n) = Append(Append(Messages(n), Event("error", 0)), Event("exit", 1))
<1>1. Event("error", 0) \in Events /\ Event("exit", 0) \in Events /\ Event("exit", 1) \in Events
  BY DEF Event, Events
<1>2. Messages(n) \in Seq(Events)
  BY MessagesGrow
<1>3. \A s \in Seq(Events) : s \o <<>> = s
  BY ConcatEmptySeq
<1>4. \A s \in Seq(Events), e \in Events : s \o <<e>> = Append(s, e) /\ Append(s, e) \in Seq(Events)
  BY AppendIsConcat, AppendProperties
<1>6. th \in {"booting", "script", "idle", "panicked"} => HistoryOf(th, n) = Messages(n)
  BY <1>2, <1>3 DEF HistoryOf
<1>7. th = "failed" => HistoryOf(th, n) = Append(Messages(n), Event("error", 0))
  BY <1>1, <1>2, <1>3, <1>4 DEF HistoryOf
<1>8. th = "exited0" => HistoryOf(th, n) = Append(Messages(n), Event("exit", 0))
  BY <1>1, <1>2, <1>3, <1>4 DEF HistoryOf
<1>9. th = "exited1" =>
        HistoryOf(th, n) = Append(Append(Messages(n), Event("error", 0)), Event("exit", 1))
  BY <1>1, <1>2, <1>4 DEF HistoryOf
<1>10. HistoryOf(th, n) \in Seq(Events)
  BY <1>1, <1>2, <1>4, <1>6, <1>7, <1>8, <1>9
<1> QED BY <1>6, <1>7, <1>8, <1>9, <1>10

\* What the thread sends is the next event of its history.
LEMMA HistoryGrows ==
  ASSUME TypeOK, WorkerSteps
  PROVE  \/ History' = History /\ up' = up
         \/ \E e \in Events : History' = Append(History, e) /\ up' = Append(up, e)
<1>h. History = HistoryOf(thread, posted) /\ History' = HistoryOf(thread', posted')
  BY DEF History, HistoryOf, Messages
<1>t. /\ thread \in {"booting", "script", "failed", "idle", "exited0", "exited1", "panicked"}
      /\ posted \in Nat
      /\ Event("error", 0) \in Events /\ Event("exit", 0) \in Events
      /\ Event("exit", 1) \in Events
  BY WorkerAssumption DEF TypeOK, Event, Events
<1>1. CASE Boot \/ Panic \/ Work \/ ScriptEnds \/ ReceiveDown \/ PortCloses
  <2>1. /\ posted' = posted /\ up' = up
        /\ thread' = thread \/ {thread, thread'} \subseteq {"booting", "script", "idle", "panicked"}
    BY <1>1 DEF Boot, Panic, Work, ScriptEnds, ReceiveDown, PortCloses
  <2>2. CASE thread' = thread
    BY <1>h, <2>1, <2>2
  <2>3. CASE {thread, thread'} \subseteq {"booting", "script", "idle", "panicked"}
    <3>1. HistoryOf(thread, posted) = Messages(posted)
      BY ZenonT(40), <1>t, <2>3, HistoryIs
    <3>2. HistoryOf(thread', posted) = Messages(posted)
      BY ZenonT(80), <1>t, <2>3, HistoryIs
    <3> QED BY <1>h, <2>1, <3>1, <3>2
  <2> QED BY <2>1, <2>2, <2>3
<1>2. CASE PostUp
  <2>1. /\ thread' = thread /\ thread \in {"script", "idle"} /\ posted' = posted + 1
        /\ up' = Append(up, Event("message", posted + 1))
    BY <1>2 DEF PostUp, Runs
  <2>2. /\ HistoryOf(thread, posted) = Messages(posted)
        /\ HistoryOf(thread, posted + 1) = Messages(posted + 1)
    <3>1. \A n \in Nat : HistoryOf(thread, n) = Messages(n)
      BY ZenonT(40), <1>t, <2>1, HistoryIs
    <3>2. posted + 1 \in Nat
      BY <1>t
    <3> QED BY <1>t, <3>1, <3>2
  <2> QED BY <1>h, <1>t, <2>1, <2>2, MessagesGrow
<1>3. CASE ScriptFails
  <2>1. /\ posted' = posted /\ thread \in {"booting", "script"} /\ thread' = "failed"
        /\ up' = Append(up, Event("error", 0))
    BY <1>3 DEF ScriptFails
  <2>2. /\ HistoryOf(thread, posted) = Messages(posted)
        /\ HistoryOf("failed", posted) = Append(Messages(posted), Event("error", 0))
    BY ZenonT(40), <1>t, <2>1, HistoryIs
  <2> QED BY <1>h, <1>t, <2>1, <2>2
<1>4. CASE ThreadExits
  <2>1. \/ /\ thread = "idle" /\ thread' = "exited0" /\ up' = Append(up, Event("exit", 0))
        \/ /\ thread = "failed" /\ thread' = "exited1" /\ up' = Append(up, Event("exit", 1))
    BY <1>4 DEF ThreadExits
  <2>2. posted' = posted
    BY <1>4 DEF ThreadExits
  <2>3. /\ thread = "idle" => HistoryOf(thread, posted) = Messages(posted)
        /\ thread = "failed" =>
             HistoryOf(thread, posted) = Append(Messages(posted), Event("error", 0))
        /\ HistoryOf("exited0", posted) = Append(Messages(posted), Event("exit", 0))
        /\ HistoryOf("exited1", posted) =
             Append(Append(Messages(posted), Event("error", 0)), Event("exit", 1))
    BY ZenonT(40), <1>t, HistoryIs
  <2>4. CASE thread = "idle"
    BY <1>h, <1>t, <2>1, <2>2, <2>3, <2>4
  <2>5. CASE thread = "failed"
    BY <1>h, <1>t, <2>1, <2>2, <2>3, <2>5
  <2> QED BY <2>1, <2>4, <2>5
<1> QED BY <1>1, <1>2, <1>3, <1>4 DEF WorkerSteps

\* An event moves from the channel to the poll and on to the listeners.
LEMMA EventStep ==
  TypeOK /\ HeldInv /\ EventsInOrder /\ [Next]_vars => HeldInv' /\ EventsInOrder'
<1> SUFFICES ASSUME TypeOK, HeldInv, EventsInOrder, [Next]_vars
             PROVE  HeldInv' /\ EventsInOrder'
  OBVIOUS
<1> DEFINE taken == IF held = NoEvent THEN <<>> ELSE <<held>>
           ahead == emitted \o taken
<1>t. up \in Seq(Events) /\ emitted \in Seq(Events) /\ taken \in Seq(Events)
  BY EmptySeq DEF TypeOK
<1>a. ahead \in Seq(Events)
  BY <1>t, ConcatProperties
<1>e. ~threw => ahead \o up = History
  BY DEF EventsInOrder
<1>n. NoEvent \notin Events
  BY DEF NoEvent, Event, Events
<1>1. CASE WorkerSteps
  <2>1. UNCHANGED mainVars
    BY <1>1 DEF WorkerSteps, Boot, Panic, Work, PostUp, ScriptEnds, ScriptFails,
                ReceiveDown, PortCloses, ThreadExits
  <2>2. UNCHANGED <<emitted, held, poll, threw>>
    BY <2>1 DEF mainVars
  <2>3. CASE History' = History /\ up' = up
    BY <2>2, <2>3 DEF EventsInOrder, HeldInv
  <2>4. ASSUME NEW e \in Events, History' = Append(History, e), up' = Append(up, e)
        PROVE  HeldInv' /\ EventsInOrder'
    <3> HIDE DEF ahead
    <3>1. ahead \o Append(up, e) = Append(ahead \o up, e)
      BY <1>t, <1>a, AppendToConcat
    <3> USE DEF ahead
    <3> QED BY <1>e, <2>2, <2>4, <3>1 DEF EventsInOrder, HeldInv
  <2> QED BY <1>1, <2>3, <2>4, HistoryGrows
<1>2. CASE /\ UNCHANGED <<thread, posted, up, emitted, held, threw>>
           /\ poll = "resuming" => poll' = "resuming"
  <2>1. History' = History
    BY <1>2 DEF History
  <2> QED BY <1>2, <2>1 DEF EventsInOrder, HeldInv
<1>3. CASE PostDown \/ Terminate \/ CheckLoop \/ LookUp \/ TakeNothing \/ UNCHANGED vars
  BY <1>2, <1>3 DEF PostDown, Terminate, CheckLoop, LookUp, TakeNothing, vars,
                    mainVars, threadVars
<1>4. CASE TakeEvent
  <2>1. /\ held = NoEvent /\ up # <<>> /\ held' = Head(up) /\ up' = Tail(up)
        /\ poll' = "resuming" /\ UNCHANGED <<thread, posted, emitted, threw>>
    BY <1>4 DEF TakeEvent, HeldInv, threadVars
  <2>2. Head(up) \in Events /\ Head(up) # NoEvent
    BY <1>t, <1>n, <2>1, HeadTailProperties
  <2>3. (emitted \o <<Head(up)>>) \o Tail(up) = emitted \o up
    BY <1>t, <2>1, <2>2, HeadMovesOver, AppendIsConcat
  <2>4. emitted \o <<>> = emitted
    BY <1>t, ConcatEmptySeq
  <2>5. History' = History
    BY <2>1 DEF History
  <2> QED BY <1>e, <2>1, <2>2, <2>3, <2>4, <2>5 DEF EventsInOrder, HeldInv
<1>5. CASE EmitMessage \/ EmitError \/ EmitExit
  <2>1. /\ held # NoEvent /\ held' = NoEvent /\ UNCHANGED <<thread, posted, up>>
        /\ threw => threw'
        /\ threw' \/ emitted' = emitted \o [i \in 1..1 |-> held]
    <3>1. held.kind # "none" /\ NoEvent.kind = "none"
      BY <1>5 DEF EmitMessage, EmitError, EmitExit, NoEvent, Event
    <3>2. held' = NoEvent /\ UNCHANGED <<thread, posted, up>>
      BY <1>5 DEF EmitMessage, EmitError, EmitExit, threadVars
    <3>3. threw => threw'
      BY <1>5 DEF EmitMessage, EmitError, EmitExit
    <3>4. threw' \/ EmitTimes(1, held)
      BY <1>5 DEF EmitMessage, EmitError, EmitExit
    <3> QED BY <3>1, <3>2, <3>3, <3>4 DEF EmitTimes
  <2>2. CASE threw'
    BY <2>1, <2>2 DEF EventsInOrder, HeldInv
  <2>3. CASE ~threw'
    <3>1. [i \in 1..1 |-> held] = <<held>>
      OBVIOUS
    <3>2. emitted' = ahead /\ ahead \o <<>> = ahead
      BY <1>a, <2>1, <2>3, <3>1, ConcatEmptySeq
    <3>3. History' = History
      BY <2>1 DEF History
    <3> QED BY <1>e, <2>1, <2>3, <3>2, <3>3 DEF EventsInOrder, HeldInv
  <2> QED BY <2>2, <2>3
<1> QED BY <1>1, <1>3, <1>4, <1>5 DEF Next, PollSteps

\* As long as no listener throws, the Worker emits the thread's messages, its
\* error if it failed and its exit, once each and in the order they were sent,
\* whatever terminate() does in between (run_worker, _pollLoop).
THEOREM EventsKeepTheirOrder == Spec => []EventsInOrder
<1>1. Init => HeldInv /\ EventsInOrder
  <2> SUFFICES ASSUME Init PROVE HeldInv /\ EventsInOrder
    OBVIOUS
  <2>1. History = HistoryOf("booting", 0)
    BY DEF History, HistoryOf, Messages, Init
  <2>2. Messages(0) = <<>>
    BY DEF Messages
  <2>3. History = <<>>
    BY <2>1, <2>2, HistoryIs
  <2>4. (<<>> \o <<>>) \o <<>> = <<>>
    OBVIOUS
  <2> QED BY <2>3, <2>4 DEF Init, HeldInv, EventsInOrder
<1> QED BY <1>1, EventStep, TypeCorrect, PTL DEF Spec

-----------------------------------------------------------------------------
(* Messages downwards *)

Ordered(s) == \A i, j \in DOMAIN s : i < j => s[i] <= s[j]
Members(s) == {s[i] : i \in DOMAIN s}

\* The entry is missing only if terminate() was called or the thread is gone;
\* until then every message posted arrives.
EntryInv ==
  /\ ~entry => exited \/ thread \in {"exited0", "exited1", "panicked"}
  /\ \A i \in 1..Len(up) : up[i].kind = "exit" => thread \in {"exited0", "exited1"}
  /\ held.kind = "exit" => thread \in {"exited0", "exited1"}

\* What is handled and queued is in order, and nothing that was not posted.
DownInv ==
  /\ Ordered(handled \o down)
  /\ Members(handled \o down) \subseteq 1..sent
  /\ thread \in {"booting", "script", "idle"} => 1..sent \subseteq Members(handled \o down)

\* A message handled twice stays in its place.
LEMMA HandledTwice ==
  ASSUME NEW s \in Seq(Nat), NEW t \in Seq(Nat), t # <<>>,
         NEW u, u = (s \o <<Head(t), Head(t)>>) \o Tail(t), Ordered(s \o t)
  PROVE  Ordered(u) /\ Members(u) = Members(s \o t)
<1>1. PICK n \in Nat, m \in Nat : n = Len(s) /\ m + 1 = Len(t)
  <2>1. PICK k \in Nat : k = Len(t) /\ k # 0
    BY EmptySeq, LenProperties
  <2>2. k - 1 \in Nat /\ (k - 1) + 1 = k
    BY <2>1
  <2> QED BY <2>1, <2>2, LenProperties
<1> DEFINE a == s \o t
           pair == <<Head(t), Head(t)>>
           b == s \o pair
<1>c. ASSUME NEW x \in Seq(Nat), NEW y \in Seq(Nat), NEW k \in Nat, NEW l \in Nat,
             k = Len(x), l = Len(y)
      PROVE  /\ x \o y \in Seq(Nat) /\ Len(x \o y) = k + l
             /\ \A i \in 1..k : (x \o y)[i] = x[i]
             /\ \A i \in 1..l : (x \o y)[k + i] = y[i]
  <2>1. x \o y \in Seq(Nat) /\ Len(x \o y) = k + l
    BY <1>c, ConcatAt
  <2>2. \A i \in 1..k : (x \o y)[i] = x[i]
    BY <1>c, ConcatAt
  <2>3. \A i \in 1..l : (x \o y)[k + i] = y[i]
    BY <1>c, ConcatAt
  <2> QED BY <2>1, <2>2, <2>3
<1>3. /\ Tail(t) \in Seq(Nat) /\ Len(Tail(t)) = m
      /\ \A i \in 1..m : Tail(t)[i] = t[i + 1]
      /\ pair \in Seq(Nat) /\ Len(pair) = 2 /\ pair[1] = t[1] /\ pair[2] = t[1]
  BY <1>1, HeadTailProperties
<1>u. u = b \o Tail(t)
  OBVIOUS
<1> HIDE DEF a, b, pair
<1>2. /\ a \in Seq(Nat) /\ Len(a) = n + (m + 1)
      /\ \A i \in 1..n : a[i] = s[i]
      /\ \A i \in 1..(m + 1) : a[n + i] = t[i]
  <2>1. PICK k \in Nat : k = m + 1
    BY <1>1
  <2>2. k = Len(t)
    BY <1>1, <2>1
  <2>3. /\ a \in Seq(Nat) /\ Len(a) = n + k
        /\ \A i \in 1..n : a[i] = s[i]
        /\ \A i \in 1..k : a[n + i] = t[i]
    BY <1>1, <1>c, <2>2 DEF a
  <2> QED BY <2>1, <2>3
<1>4. /\ b \in Seq(Nat) /\ Len(b) = n + 2
      /\ \A i \in 1..n : b[i] = s[i]
      /\ b[n + 1] = t[1] /\ b[n + 2] = t[1]
  <2>1. PICK k \in Nat : k = 2
    OBVIOUS
  <2>2. k = Len(pair)
    BY <1>3, <2>1
  <2>3. /\ b \in Seq(Nat) /\ Len(b) = n + k
        /\ \A i \in 1..n : b[i] = s[i]
        /\ \A i \in 1..k : b[n + i] = pair[i]
    <3>1. s \in Seq(Nat) /\ pair \in Seq(Nat) /\ n = Len(s)
      BY <1>1, <1>3
    <3>2. s \o pair \in Seq(Nat) /\ Len(s \o pair) = n + k
      BY <1>c, <2>2, <3>1
    <3>3. \A i \in 1..n : (s \o pair)[i] = s[i]
      BY <1>c, <2>2, <3>1
    <3>4. \A i \in 1..k : (s \o pair)[n + i] = pair[i]
      BY <1>c, <2>2, <3>1
    <3> QED BY <3>2, <3>3, <3>4 DEF b
  <2>4. 1 \in 1..k /\ 2 \in 1..k
    BY <2>1
  <2> QED BY <1>3, <2>1, <2>3, <2>4
<1>5. /\ u \in Seq(Nat) /\ Len(u) = (n + 2) + m
      /\ \A i \in 1..(n + 2) : u[i] = b[i]
      /\ \A i \in 1..m : u[(n + 2) + i] = Tail(t)[i]
  <2>1. PICK k \in Nat : k = n + 2
    BY <1>1
  <2>2. k = Len(b)
    BY <1>4, <2>1
  <2>3. /\ u \in Seq(Nat) /\ Len(u) = k + m
        /\ \A i \in 1..k : u[i] = b[i]
        /\ \A i \in 1..m : u[k + i] = Tail(t)[i]
    <3>1. b \in Seq(Nat) /\ Tail(t) \in Seq(Nat) /\ m = Len(Tail(t))
      BY <1>3, <1>4
    <3>2. /\ b \o Tail(t) \in Seq(Nat) /\ Len(b \o Tail(t)) = k + m
          /\ \A i \in 1..k : (b \o Tail(t))[i] = b[i]
          /\ \A i \in 1..m : (b \o Tail(t))[k + i] = Tail(t)[i]
      <4> DEFINE r == Tail(t)
      <4>1. r \in Seq(Nat) /\ m = Len(r)
        BY <3>1
      <4> HIDE DEF r
      <4>2. /\ b \o r \in Seq(Nat) /\ Len(b \o r) = k + m
            /\ \A i \in 1..k : (b \o r)[i] = b[i]
            /\ \A i \in 1..m : (b \o r)[k + i] = r[i]
        <5>1. b \in Seq(Nat) /\ k = Len(b)
          BY <2>2, <3>1
        <5>2. b \o r \in Seq(Nat) /\ Len(b \o r) = k + m
          BY <1>c, <4>1, <5>1
        <5>3. \A i \in 1..k : (b \o r)[i] = b[i]
          BY <1>c, <4>1, <5>1
        <5>4. \A i \in 1..m : (b \o r)[k + i] = r[i]
          BY <1>c, <4>1, <5>1
        <5> QED BY <5>2, <5>3, <5>4
      <4> QED BY <4>2 DEF r
    <3> QED BY <1>u, <3>2
  <2> QED BY <2>1, <2>3
<1> DEFINE old(i) == IF i <= n + 1 THEN i ELSE i - 1
<1>6. ASSUME NEW i \in 1..(n + m + 2)
      PROVE  old(i) \in 1..(n + m + 1) /\ u[i] = a[old(i)]
  <2>0. i \in Nat /\ old(i) \in 1..(n + m + 1)
    BY <1>1
  <2>1. CASE i <= n
    <3>1. i \in 1..n /\ i \in 1..(n + 2) /\ old(i) = i
      BY <1>1, <2>1
    <3> QED BY ZenonT(40), <1>2, <1>4, <1>5, <2>0, <3>1
  <2>2. CASE i = n + 1 \/ i = n + 2
    <3>1. i \in 1..(n + 2) /\ old(i) = n + 1 /\ 1 \in 1..(m + 1)
      BY SMTT(30), <1>1, <2>2
    <3>2. u[i] = t[1]
      BY <1>4, <1>5, <2>2, <3>1
    <3>3. a[n + 1] = t[1]
      BY <1>2, <3>1
    <3> HIDE DEF old
    <3> QED BY <2>0, <3>1, <3>2, <3>3
  <2>3. CASE i > n + 2
    <3>1. PICK k \in 1..m : i = (n + 2) + k
      <4>1. i - (n + 2) \in 1..m /\ i = (n + 2) + (i - (n + 2))
        BY <1>1, <2>3
      <4> QED BY <4>1
    <3>2. old(i) = n + (k + 1) /\ k + 1 \in 1..(m + 1)
      BY <1>1, <3>1
    <3>3. u[i] = t[k + 1]
      BY <1>3, <1>5, <3>1
    <3>4. a[n + (k + 1)] = t[k + 1]
      BY <1>2, <3>2
    <3> HIDE DEF old
    <3> QED BY <2>0, <3>2, <3>3, <3>4
  <2> HIDE DEF old
  <2>4. i <= n \/ i = n + 1 \/ i = n + 2 \/ i > n + 2
    BY <1>1
  <2> QED BY <2>1, <2>2, <2>3, <2>4
<1>7. DOMAIN u = 1..(n + m + 2) /\ DOMAIN a = 1..(n + m + 1)
  <2>1. n + (m + 1) = n + m + 1 /\ (n + 2) + m = n + m + 2
    BY <1>1
  <2> QED BY <1>2, <1>5, <2>1, LenProperties
<1>8. ASSUME NEW i \in 1..(n + m + 2), NEW j \in 1..(n + m + 2), i < j
      PROVE  u[i] <= u[j]
  <2>1. old(i) < old(j) \/ old(i) = old(j)
    BY <1>1, <1>8
  <2>2. a[old(i)] \in Nat
    <3>1. \A k \in 1..Len(a) : a[k] \in Nat
      BY <1>2, ElementOfSeq
    <3>2. old(i) \in 1..Len(a)
      <4>1. n + (m + 1) = n + m + 1
        BY <1>1
      <4> QED BY <1>2, <1>6, <4>1
    <3> QED BY <3>1, <3>2
  <2>3. old(i) < old(j) => a[old(i)] <= a[old(j)]
    BY <1>6, <1>7 DEF Ordered, a
  <2>4. u[i] = a[old(i)] /\ u[j] = a[old(j)]
    BY <1>6
  <2> HIDE DEF old
  <2>5. CASE old(i) = old(j)
    <3>1. PICK x \in Nat : x = a[old(i)]
      BY <2>2
    <3>2. u[i] = x /\ u[j] = x
      BY <2>4, <2>5, <3>1
    <3>3. x <= x
      OBVIOUS
    <3> QED BY <3>2, <3>3, Zenon
  <2>6. CASE old(i) < old(j)
    <3>1. PICK x, y : x = u[i] /\ y = u[j]
      OBVIOUS
    <3>2. a[old(i)] <= a[old(j)] /\ a[old(i)] = x /\ a[old(j)] = y
      BY <2>3, <2>4, <2>6, <3>1
    <3>3. x <= y
      BY <3>2
    <3> QED BY <3>1, <3>3
  <2> QED BY <2>1, <2>5, <2>6
<1>9. \A k \in 1..(n + m + 1) : \E i \in 1..(n + m + 2) : old(i) = k
  <2> SUFFICES ASSUME NEW k \in 1..(n + m + 1)
               PROVE  \E i \in 1..(n + m + 2) : old(i) = k
    OBVIOUS
  <2>1. CASE k <= n + 1
    <3>1. k \in 1..(n + m + 2) /\ old(k) = k
      BY <1>1, <2>1
    <3> QED BY <3>1
  <2>2. CASE k > n + 1
    <3>1. k + 1 \in 1..(n + m + 2) /\ old(k + 1) = k
      BY <1>1, <2>2
    <3> QED BY <3>1
  <2> QED BY <1>1, <2>1, <2>2
<1> HIDE DEF old
<1>10. Members(u) = Members(a)
  <2>1. \A i \in DOMAIN u : u[i] \in Members(a)
    BY <1>6, <1>7 DEF Members
  <2>2. \A k \in DOMAIN a : a[k] \in Members(u)
    BY <1>6, <1>7, <1>9 DEF Members
  <2> QED BY <2>1, <2>2 DEF Members
<1> QED BY <1>7, <1>8, <1>10 DEF Ordered, a

\* A message posted now is the last one.
LEMMA PostedLast ==
  ASSUME NEW a \in Seq(Nat), NEW n \in Nat, Ordered(a), Members(a) \subseteq 1..n
  PROVE  /\ Ordered(Append(a, n + 1))
         /\ Members(Append(a, n + 1)) = Members(a) \cup {n + 1}
<1> DEFINE b == Append(a, n + 1)
<1>1. PICK k \in Nat : k = Len(a)
  BY LenProperties
<1>2. /\ b \in Seq(Nat) /\ Len(b) = k + 1 /\ b[k + 1] = n + 1
      /\ \A i \in 1..k : b[i] = a[i]
  BY <1>1, AppendProperties
<1>3. DOMAIN a = 1..k /\ DOMAIN b = 1..(k + 1)
  BY <1>1, <1>2, LenProperties
<1> HIDE DEF b
<1>4. \A i \in 1..(k + 1) : i = k + 1 \/ i \in 1..k
  BY <1>1
<1>5. \A i \in 1..k : a[i] \in 1..n
  BY <1>3 DEF Members
<1>6. ASSUME NEW i \in 1..(k + 1), NEW j \in 1..(k + 1), i < j PROVE b[i] <= b[j]
  <2>1. i \in 1..k
    BY <1>1, <1>6
  <2>2. CASE j = k + 1
    <3>1. a[i] \in 1..n /\ b[i] = a[i] /\ b[j] = n + 1
      BY <1>2, <1>5, <2>1, <2>2
    <3> QED BY <3>1
  <2>3. CASE j \in 1..k
    BY <1>2, <1>3, <1>6, <2>1, <2>3 DEF Ordered
  <2> QED BY <1>4, <2>2, <2>3
<1>7. 1..(k + 1) = (1..k) \cup {k + 1}
  BY <1>1
<1>8. Members(b) = Members(a) \cup {n + 1}
  BY <1>2, <1>3, <1>7 DEF Members
<1> QED BY <1>3, <1>6, <1>8 DEF Ordered, b

\* While the thread can receive and terminate() was not called, there is an
\* entry to post to.
LEMMA EntryStep == TypeOK /\ HeldInv /\ EntryInv /\ [Next]_vars => EntryInv'
<1> SUFFICES ASSUME TypeOK, HeldInv, EntryInv, [Next]_vars PROVE EntryInv'
  OBVIOUS
<1> USE DEF mainVars, threadVars
<1> DEFINE Gone == thread \in {"exited0", "exited1"}
<1>e. /\ ~entry => exited \/ Gone \/ thread = "panicked"
      /\ held.kind = "exit" => Gone
  BY DEF EntryInv
<1>u. up \in Seq(Events) /\ \A i \in 1..Len(up) : up[i].kind = "exit" => Gone
  BY DEF EntryInv, TypeOK
<1>k. \A k, n : Event(k, n).kind = k
  BY DEF Event
<1>n. NoEvent.kind # "exit"
  BY DEF NoEvent, Event
<1>a. ASSUME NEW e \in Events, up' = Append(up, e), e.kind = "exit" => Gone', Gone => Gone'
      PROVE  \A i \in 1..Len(up') : up'[i].kind = "exit" => Gone'
  <2>1. PICK n \in Nat : n = Len(up)
    BY <1>u, LenProperties
  <2>2. /\ Len(up') = n + 1 /\ up'[n + 1] = e /\ \A i \in 1..n : up'[i] = up[i]
    BY <1>u, <1>a, <2>1, AppendProperties
  <2>3. \A i \in 1..(n + 1) : i = n + 1 \/ i \in 1..n
    BY <2>1
  <2> QED BY <1>u, <1>a, <2>1, <2>2, <2>3
<1>1. CASE Boot \/ Panic \/ Work \/ ScriptEnds \/ ReceiveDown \/ PortCloses \/ PostDown
  <2>1. /\ UNCHANGED <<up, entry, held, exited, terminated>>
        /\ thread' = thread \/ (~Gone /\ thread # "panicked")
    BY <1>1 DEF Boot, Panic, Work, ScriptEnds, ReceiveDown, PortCloses, PostDown
  <2> QED BY <1>e, <1>u, <2>1 DEF EntryInv
<1>2. CASE PostUp \/ ScriptFails
  <2>1. /\ UNCHANGED <<entry, held, exited, terminated>>
        /\ ~Gone /\ thread # "panicked"
    BY <1>2 DEF PostUp, Runs, ScriptFails
  <2>2. PICK e \in Events : up' = Append(up, e) /\ e.kind # "exit"
    <3>1. \A n \in Nat : Event("message", n) \in Events /\ Event("error", n) \in Events
      BY DEF Event, Events
    <3>2. 0 \in Nat /\ (PostUp => posted' \in Nat)
      BY WorkerAssumption DEF PostUp, TypeOK
    <3> QED BY <1>2, <1>k, <3>1, <3>2 DEF PostUp, ScriptFails
  <2>3. \A i \in 1..Len(up') : up'[i].kind = "exit" => Gone'
    BY <1>a, <2>1, <2>2
  <2> QED BY <1>e, <2>1, <2>3 DEF EntryInv
<1>3. CASE ThreadExits
  <2>1. UNCHANGED <<entry, held, exited, terminated>> /\ Gone'
    BY <1>3 DEF ThreadExits
  <2> QED BY <1>e, <2>1 DEF EntryInv
<1>4. CASE Terminate
  BY <1>4, <1>e, <1>u DEF Terminate, EntryInv
<1>5. CASE CheckLoop \/ LookUp \/ TakeNothing
  BY <1>5, <1>e, <1>u DEF CheckLoop, LookUp, TakeNothing, EntryInv
<1>6. CASE TakeEvent
  <2>1. PICK n \in Nat : n + 1 = Len(up)
    <3>1. PICK k \in Nat : k = Len(up) /\ k # 0
      BY <1>6, <1>u, EmptySeq, LenProperties DEF TakeEvent
    <3>2. k - 1 \in Nat /\ (k - 1) + 1 = k
      BY <3>1
    <3> QED BY <3>1, <3>2
  <2>2. /\ up' = Tail(up) /\ held' = Head(up) /\ entry' = (entry /\ held'.kind # "exit")
        /\ UNCHANGED <<thread, exited, terminated>>
    BY <1>6 DEF TakeEvent, CleanUp
  <2>3. /\ Len(up') = n /\ Head(up) = up[1] /\ \A i \in 1..n : up'[i] = up[i + 1]
    BY <1>6, <1>u, <2>1, <2>2, HeadTailProperties DEF TakeEvent
  <2>4. 1 \in 1..(n + 1) /\ \A i \in 1..n : i + 1 \in 1..(n + 1)
    BY <2>1
  <2> QED BY <1>e, <1>u, <2>1, <2>2, <2>3, <2>4 DEF EntryInv
<1>7. CASE EmitMessage \/ EmitError \/ EmitExit
  <2>1. /\ held' = NoEvent /\ UNCHANGED <<thread, up, entry, terminated>>
        /\ exited' = exited \/ (exited' /\ held.kind = "exit")
    BY <1>7 DEF EmitMessage, EmitError, EmitExit
  <2> QED BY <1>e, <1>u, <1>n, <2>1 DEF EntryInv
<1>8. CASE UNCHANGED vars
  BY <1>8, <1>e, <1>u DEF vars, EntryInv
<1> QED BY <1>1, <1>2, <1>3, <1>4, <1>5, <1>6, <1>7, <1>8
        DEF Next, WorkerSteps, PollSteps

\* A message is posted, received, and handled once or twice.
LEMMA DownStep == TypeOK /\ EntryInv /\ DownInv /\ [Next]_vars => DownInv'
<1> SUFFICES ASSUME TypeOK, EntryInv, DownInv, [Next]_vars PROVE DownInv'
  OBVIOUS
<1> USE DEF mainVars, threadVars
<1> DEFINE all == handled \o down
           Alive == thread \in {"booting", "script", "idle"}
<1>t. /\ handled \in Seq(Nat) /\ down \in Seq(Nat) /\ sent \in Nat
  <2>1. 1..MaxDown \subseteq Nat
    BY WorkerAssumption
  <2> QED BY <2>1, WorkerAssumption DEF TypeOK
<1>a. all \in Seq(Nat)
  BY <1>t, ConcatProperties
<1>d. /\ Ordered(all) /\ Members(all) \subseteq 1..sent
      /\ Alive => 1..sent \subseteq Members(all)
  BY DEF DownInv
<1>1. CASE UNCHANGED <<handled, down, sent>> /\ (Alive' => Alive)
  BY <1>1, <1>d DEF DownInv
<1>2. CASE Next /\ ~ReceiveDown /\ ~PostDown
  <2>1. UNCHANGED <<handled, down, sent>> /\ (Alive' => Alive)
    BY <1>2 DEF Next, WorkerSteps, PollSteps, Boot, Panic, Work, PostUp, ScriptEnds, ScriptFails,
                PortCloses, ThreadExits, Terminate, CheckLoop, LookUp, TakeEvent,
                TakeNothing, EmitMessage, EmitError, EmitExit
  <2> QED BY <1>1, <2>1
<1>3. CASE ReceiveDown
  <2>1. /\ down # <<>> /\ down' = Tail(down) /\ UNCHANGED <<thread, sent>>
        /\ \/ handled' = Append(handled, Head(down))
           \/ handled' = handled \o <<Head(down), Head(down)>>
    BY <1>3 DEF ReceiveDown
  <2>2. CASE handled' = Append(handled, Head(down))
    <3>1. handled' \o down' = all
      BY <1>t, <2>1, <2>2, HeadMovesOver
    <3> QED BY <1>d, <2>1, <3>1 DEF DownInv
  <2>3. CASE handled' = handled \o <<Head(down), Head(down)>>
    <3>1. Ordered(handled' \o down') /\ Members(handled' \o down') = Members(all)
      BY <1>t, <1>d, <2>1, <2>3, HandledTwice
    <3> QED BY <1>d, <2>1, <3>1 DEF DownInv
  <2> QED BY <2>1, <2>2, <2>3
<1>4. CASE PostDown
  <2>1. /\ ~exited /\ sent' = sent + 1 /\ UNCHANGED <<thread, handled>>
        /\ down' = IF entry /\ Alive THEN Append(down, sent + 1) ELSE down
    BY <1>4 DEF PostDown, Enqueue
  <2>2. 1..(sent + 1) = (1..sent) \cup {sent + 1}
    BY <1>t
  <2>3. CASE entry /\ Alive
    <3>1. handled \o Append(down, sent + 1) = Append(all, sent + 1)
      <4>1. sent + 1 \in Nat
        BY <1>t
      <4> QED BY <1>t, <4>1, AppendToConcat
    <3>2. /\ Ordered(Append(all, sent + 1))
          /\ Members(Append(all, sent + 1)) = Members(all) \cup {sent + 1}
      BY <1>t, <1>a, <1>d, PostedLast
    <3> QED BY <1>d, <2>1, <2>2, <2>3, <3>1, <3>2 DEF DownInv
  <2>4. CASE ~(entry /\ Alive)
    <3>1. ~Alive
      BY <2>1, <2>4 DEF EntryInv
    <3> QED BY <1>d, <2>1, <2>2, <2>4, <3>1 DEF DownInv
  <2> QED BY <2>3, <2>4
<1>5. CASE UNCHANGED vars
  BY <1>1, <1>5 DEF vars
<1> QED BY <1>2, <1>3, <1>4, <1>5

\* While a worker lives it handles every message posted to it before
\* terminate(), in the order of the posts, and has the others queued; nothing
\* a listener throws and no terminate() loses one (postMessage, pollLoop).
THEOREM MessagesReachTheWorker == Spec => []MessagesAccounted
<1>1. Init => HeldInv /\ EntryInv /\ DownInv
  <2> SUFFICES ASSUME Init PROVE HeldInv /\ EntryInv /\ DownInv
    OBVIOUS
  <2>1. /\ up = <<>> /\ handled = <<>> /\ down = <<>> /\ sent = 0 /\ entry /\ ~exited
        /\ held = NoEvent
    BY DEF Init
  <2>2. EntryInv /\ HeldInv
    <3>1. \A i \in 1..Len(up) : FALSE
      BY <2>1
    <3>2. held.kind # "exit"
      BY <2>1 DEF NoEvent, Event
    <3> QED BY <2>1, <3>1, <3>2 DEF EntryInv, HeldInv
  <2>3. DownInv
    <3>1. handled \o down = <<>> /\ DOMAIN <<>> = {} /\ 1..sent = {}
      BY <2>1
    <3>2. Ordered(<<>>) /\ Members(<<>>) = {}
      BY DEF Ordered, Members
    <3> QED BY <3>1, <3>2 DEF DownInv
  <2> QED BY <2>2, <2>3
<1>2. TypeOK /\ HeldInv /\ EventsInOrder /\ EntryInv /\ DownInv /\ [Next]_vars
        => HeldInv' /\ EntryInv' /\ DownInv'
  BY EventStep, EntryStep, DownStep
<1>3. DownInv => MessagesAccounted
  <2> SUFFICES ASSUME DownInv PROVE MessagesAccounted
    OBVIOUS
  <2> QED BY DEF DownInv, MessagesAccounted, Ordered, Members
<1> QED BY <1>1, <1>2, <1>3, TypeCorrect, EventsKeepTheirOrder, PTL DEF Spec

-----------------------------------------------------------------------------
(* Asynchronous functions of a compiled binary                              *)

Stages   == {"script", "refused", "entry", "loop", "done", "undefined"}
FrameSet == [fn : Nat, state : Nat, awaited : Nat, freed : BOOLEAN,
             result : Nat, vars : [Vars -> Int]]
PromiseSet == [resolved : BOOLEAN, conts : Seq(Nat)]
CallSet    == [kind : {"entry", "move", "resolve"}, id : Nat, at : Nat]
TimerSet   == [promise : Nat, ms : Nat]

\* Every variable keeps its type.
TypeInv ==
  /\ program \in Programs /\ stage \in Stages /\ called \in Nat
  /\ frames \in Seq(FrameSet) /\ promises \in Seq(PromiseSet)
  /\ stack \in Seq(CallSet) /\ timers \in Seq(TimerSet)
  /\ queued \in Seq(Nat) /\ working \in SUBSET Nat /\ finished \in Seq(Nat)

-----------------------------------------------------------------------------
(* The code of a function                                                   *)

\* The programs compiled are well typed.
LEMMA ProgramOK ==
  ASSUME program \in Programs, NEW n \in DOMAIN program.functions
  PROVE  /\ program.functions[n] \in Functions
         /\ WellTyped(program, program.functions[n])
<1>1. IsProgram(program)
  BY AotAsyncAssumption
<1> QED BY <1>1, ElementOfSeq, LenProperties DEF IsProgram

\* What is generated: the blocks one behind the other, and a return at the end.
LEMMA CodeOK ==
  ASSUME NEW f \in Functions
  PROVE  /\ Flat(f) \in Seq(Instrs) /\ Code(f) \in Seq(Instrs)
         /\ DOMAIN Flat(f) \subseteq DOMAIN Code(f)
         /\ \A i \in DOMAIN Flat(f) : Code(f)[i] = Flat(f)[i]
         /\ \A i \in DOMAIN Code(f) : i \in DOMAIN Flat(f) \/ Code(f)[i].op = "return"
         /\ \E r \in DOMAIN Code(f) : Code(f)[r].op = "return"
<1>1. f.blocks \in Seq(Seq(Instrs))
  BY DEF Functions
<1>2. Flat(f) \in Seq(Instrs)
  BY <1>1, FlattenSeqRange DEF Flat
<1>3. CASE ReturnsAtEnd(Flat(f))
  <2>1. Code(f) = Flat(f)
    BY <1>3 DEF Code
  <2> QED BY <1>2, <1>3, <2>1 DEF ReturnsAtEnd
<1>4. CASE ~ReturnsAtEnd(Flat(f))
  <2>1. Code(f) = Append(Flat(f), ImplicitReturn)
    BY <1>4 DEF Code
  <2>2. ImplicitReturn \in Instrs /\ ImplicitReturn.op = "return"
    <3>1. \E v \in Vars : TRUE
      BY AotAsyncAssumption
    <3>2. (CHOOSE v \in Vars : TRUE) \in Vars
      BY <3>1
    <3> DEFINE x == CHOOSE v \in Vars : TRUE
    <3>3. ImplicitReturn = [op |-> "return", x |-> x, args |-> <<>>, fn |-> 0,
                            void |-> FALSE]
      BY DEF ImplicitReturn
    <3> HIDE DEF x
    <3>4. x \in Vars
      BY <3>2 DEF x
    <3>5. "return" \in Ops
      BY DEF Ops, Ending
    <3> QED BY <3>3, <3>4, <3>5 DEF Instrs
  <2>3. PICK n \in Nat : n = Len(Flat(f)) /\ DOMAIN Flat(f) = 1..n
    BY <1>2, LenProperties
  <2>4. /\ Code(f) \in Seq(Instrs) /\ Len(Code(f)) = n + 1
        /\ \A i \in 1..n : Code(f)[i] = Flat(f)[i]
        /\ Code(f)[n + 1] = ImplicitReturn
    BY <1>2, <2>1, <2>2, <2>3, AppendProperties
  <2>5. DOMAIN Code(f) = 1..(n + 1)
    BY <2>4, LenProperties
  <2>6. n + 1 \in DOMAIN Code(f) /\ \A i \in 1..(n + 1) : i \in 1..n \/ i = n + 1
    BY <2>5
  <2> QED BY <1>2, <2>2, <2>3, <2>4, <2>5, <2>6
<1> QED BY <1>3, <1>4

\* From place pos on there is a return that the code runs into.
HasReturn(code, pos) == \E r \in DOMAIN code : pos <= r /\ code[r].op = "return"

\* Code that runs into a return is there, and goes on unless it is at one.
LEMMA BeforeReturn ==
  ASSUME NEW f \in Functions, NEW pos \in Nat \ {0}, HasReturn(Code(f), pos)
  PROVE  /\ pos \in DOMAIN Code(f) /\ Code(f)[pos] \in Instrs
         /\ Code(f)[pos].op # "return" =>
              /\ HasReturn(Code(f), pos + 1)
              /\ pos \in DOMAIN Flat(f) /\ Flat(f)[pos] = Code(f)[pos]
<1>1. PICK n \in Nat : n = Len(Code(f)) /\ DOMAIN Code(f) = 1..n
  BY CodeOK, LenProperties
<1>2. PICK r \in 1..n : pos <= r /\ Code(f)[r].op = "return"
  BY <1>1 DEF HasReturn
<1>3. pos \in 1..n
  BY <1>2
<1>4. Code(f)[pos] \in Instrs
  BY <1>1, <1>3, CodeOK, ElementOfSeq
<1>5. ASSUME Code(f)[pos].op # "return"
      PROVE  /\ HasReturn(Code(f), pos + 1)
             /\ pos \in DOMAIN Flat(f) /\ Flat(f)[pos] = Code(f)[pos]
  <2>1. pos + 1 <= r
    BY <1>2, <1>5
  <2>2. HasReturn(Code(f), pos + 1)
    BY <1>1, <1>2, <2>1 DEF HasReturn
  <2> QED BY <1>1, <1>3, <1>5, <2>2, CodeOK
<1> QED BY <1>1, <1>3, <1>4, <1>5

-----------------------------------------------------------------------------
(* What is inductive                                                        *)

InRange ==
  /\ \A id \in DOMAIN frames : /\ frames[id].fn \in DOMAIN program.functions
                               /\ frames[id].result \in DOMAIN promises
  /\ \A g, h \in DOMAIN frames : frames[g].result = frames[h].result => g = h
  /\ \A p \in DOMAIN promises : \A i \in DOMAIN promises[p].conts :
       promises[p].conts[i] \in DOMAIN frames
  /\ \A k \in DOMAIN stack :
       stack[k].id \in IF stack[k].kind = "resolve" THEN DOMAIN promises
                                                    ELSE DOMAIN frames

\* The promises that are no result of a struct, and those that are, if of a
\* struct, of one made after id.
Outer     == {a \in DOMAIN promises : \A g \in DOMAIN frames : frames[g].result # a}
Later(id) == {a \in DOMAIN promises :
                \A g \in DOMAIN frames : frames[g].result = a => g > id}

\* A struct was freed whose code was never suspended.
Quick == \E g \in DOMAIN frames : frames[g].freed /\ frames[g].state = 1

Distinct(s) == \A i, j \in DOMAIN s : s[i] = s[j] => i = j

\* What libuv is still to resolve, each in one place.
OutsideInv ==
  /\ \A i \in DOMAIN timers : /\ timers[i].promise \in Outer
                              /\ ~promises[timers[i].promise].resolved
  /\ \A p \in ToSet(queued) \cup working \cup ToSet(finished) :
       p \in Outer /\ ~promises[p].resolved
  /\ \A i, j \in DOMAIN timers : timers[i].promise = timers[j].promise => i = j
  /\ Distinct(queued) /\ Distinct(finished)
  /\ \A i \in DOMAIN timers :
       timers[i].promise \notin ToSet(queued) \cup working \cup ToSet(finished)
  /\ ToSet(queued) \cap (working \cup ToSet(finished)) = {}
  /\ working \cap ToSet(finished) = {}

\* Which call can be above which.
Fits(a, b) ==
  \/ a.kind = "entry" /\ b.kind = "move" /\ b.id = a.id /\ frames[a.id].state = 1
  \/ /\ a.kind = "move" /\ b.kind = "entry" /\ b.id > a.id
     /\ CodeOf(a.id)[a.at].op = "call"
  \/ /\ a.kind = "move" /\ b.kind = "resolve" /\ b.id = frames[a.id].result
     /\ CodeOf(a.id)[a.at].op = "return"
  \/ a.kind = "resolve" /\ b.kind = "move"

StackInv ==
  /\ \A k \in 1..(Len(stack) - 1) : Fits(stack[k], stack[k + 1])
  /\ \A i, j \in DOMAIN stack :
       stack[i].kind = stack[j].kind /\ stack[i].id = stack[j].id => i = j
  /\ \A k \in DOMAIN stack :
       /\ stack[k].kind = "move" => k > 1 /\ ~frames[stack[k].id].freed
       /\ stack[k].kind = "entry" /\ frames[stack[k].id].freed
          => frames[stack[k].id].state = 1
       /\ stack[k].kind = "resolve" => promises[stack[k].id].resolved

\* What instruction j defined is still to be had at place pos.
Lasts(f, j, pos) == Code(f)[j].x \in Fields(f) \/ SameCase(Code(f), j, pos)

\* The promise a variable holds that was defined before.
Holds(id, instr) ==
  /\ instr.op \in {"timer", "work"} => frames[id].vars[instr.x] \in Outer
  /\ instr.op = "call" => \/ frames[id].vars[instr.x] = Garbage /\ Quick
                          \/ frames[id].vars[instr.x] \in Later(id)

\* Where the code of id can go on.
Places(id) ==
  {pos \in Nat \ {0} :
     /\ HasReturn(Code(FnOf(id)), pos)
     /\ \A v \in FnOf(id).promised : frames[id].vars[v] \in Outer
     /\ \A v \in Chosen(FnOf(id)) : frames[id].vars[v] = Zero
     /\ \A j \in 1..(pos - 1) :
          Lasts(FnOf(id), j, pos) => Holds(id, Code(FnOf(id))[j])}

PlaceInv ==
  /\ \A k \in DOMAIN stack : \A id \in DOMAIN frames :
       stack[k].kind = "move" /\ stack[k].id = id => stack[k].at \in Places(id)
  /\ \A id \in DOMAIN frames : Suspended(id) =>
       /\ frames[id].state > 1 /\ frames[id].state \in Places(id)
       /\ CodeOf(id)[frames[id].state - 1].op = "await"
       /\ frames[id].awaited \in Later(id)

\* WakesOnce of a promise.
Wakes(p) ==
  /\ \A id \in ToResume(p) : Suspended(id) /\ frames[id].awaited = p
  /\ \A i, j \in DOMAIN promises[p].conts :
       promises[p].conts[i] = promises[p].conts[j] => i = j
  /\ promises[p].resolved => OnStack("resolve", p) \/ ToResume(p) = {}
  /\ ~promises[p].resolved => Due(p)

WakeInv == \A p \in DOMAIN promises : Wakes(p)

StageInv ==
  /\ stage = "refused" => ~Compiles(program)
  /\ stage # "refused" => Compiles(program)
  /\ stage = "done" => stack = <<>> /\ Idle
  /\ stage = "undefined" => ReadsUnknown(program, Chosen) \/ Quick

ProcessInv ==
  /\ TypeInv /\ InRange /\ OutsideInv /\ StackInv /\ PlaceInv /\ WakeInv /\ StageInv

-----------------------------------------------------------------------------
(* Sequences                                                                *)

\* What is used of sequences all the time.
LEMMA Indices ==
  ASSUME NEW S, NEW s \in Seq(S)
  PROVE  /\ Len(s) \in Nat /\ DOMAIN s = 1..Len(s)
         /\ \A i \in 1..Len(s) : s[i] \in S
         /\ s # <<>> <=> Len(s) > 0
<1>1. Len(s) \in Nat /\ DOMAIN s = 1..Len(s) /\ \A i \in 1..Len(s) : s[i] \in S
  BY LenProperties, ElementOfSeq
<1>2. s # <<>> => Len(s) \in Nat \ {0}
  BY EmptySeq
<1>3. s = <<>> => Len(s) = 0
  BY EmptySeq
<1> QED BY <1>1, <1>2, <1>3

\* A call more, a call less, the last call at another place.
LEMMA Pushed ==
  ASSUME NEW S, NEW s \in Seq(S), NEW e \in S
  PROVE  /\ Append(s, e) \in Seq(S) /\ Len(Append(s, e)) = Len(s) + 1
         /\ \A i \in 1..Len(s) : Append(s, e)[i] = s[i]
         /\ Append(s, e)[Len(s) + 1] = e
BY AppendProperties, LenProperties

LEMMA Popped ==
  ASSUME NEW S, NEW s \in Seq(S), s # <<>>
  PROVE  /\ Last(s) = s[Len(s)] /\ Front(s) \in Seq(S)
         /\ Len(Front(s)) = Len(s) - 1
         /\ \A i \in 1..(Len(s) - 1) : Front(s)[i] = s[i]
BY FrontProperties DEF Last

LEMMA Replaced ==
  ASSUME NEW S, NEW s \in Seq(S), s # <<>>, NEW e \in S
  PROVE  LET t == Append(Front(s), e) IN
         /\ t \in Seq(S) /\ Len(t) = Len(s) /\ t[Len(s)] = e
         /\ \A i \in 1..(Len(s) - 1) : t[i] = s[i]
<1>1. Len(s) \in Nat \ {0}
  BY EmptySeq
<1>2. PICK m \in Nat : m = Len(Front(s)) /\ m + 1 = Len(s)
  BY <1>1, Popped
<1>3. /\ Append(Front(s), e) \in Seq(S) /\ Len(Append(Front(s), e)) = m + 1
      /\ \A i \in 1..m : Append(Front(s), e)[i] = Front(s)[i]
      /\ Append(Front(s), e)[m + 1] = e
  BY <1>2, Popped, Pushed
<1>4. \A i \in 1..(Len(s) - 1) : i \in 1..m
  BY <1>2
<1> QED BY <1>2, <1>3, <1>4, Popped

\* Two calls more.
LEMMA PushedTwo ==
  ASSUME NEW S, NEW s \in Seq(S), NEW d \in S, NEW e \in S
  PROVE  LET t == s \o <<d, e>> IN
         /\ t \in Seq(S) /\ Len(t) = Len(s) + 2
         /\ \A i \in 1..Len(s) : t[i] = s[i]
         /\ t[Len(s) + 1] = d /\ t[Len(s) + 2] = e
<1>1. <<d, e>> \in Seq(S) /\ Len(<<d, e>>) = 2 /\ Len(s) \in Nat
  BY LenProperties
<1>2. /\ s \o <<d, e>> \in Seq(S) /\ Len(s \o <<d, e>>) = Len(s) + 2
      /\ \A i \in 1..Len(s) : (s \o <<d, e>>)[i] = s[i]
      /\ \A i \in 1..2 : (s \o <<d, e>>)[Len(s) + i] = <<d, e>>[i]
  BY <1>1, ConcatAt
<1> QED BY <1>2

\* An element less.
LEMMA Without ==
  ASSUME NEW S, NEW s \in Seq(S), NEW i \in DOMAIN s
  PROVE  /\ RemoveAt(s, i) \in Seq(S) /\ Len(RemoveAt(s, i)) = Len(s) - 1
         /\ \A k \in 1..(i - 1) : RemoveAt(s, i)[k] = s[k]
         /\ \A k \in i..(Len(s) - 1) : RemoveAt(s, i)[k] = s[k + 1]
<1>1. PICK n \in Nat : n = Len(s) /\ DOMAIN s = 1..n
  BY LenProperties
<1>2. i \in 1..n /\ i - 1 \in Nat /\ n - i \in Nat /\ i \in Int /\ i + 1 \in Int
      /\ 1 \in Int /\ i - 1 \in Int /\ n \in Int
  BY <1>1
<1>3. \A k \in 1..n : s[k] \in S
  BY <1>1, ElementOfSeq
<1>4. /\ SubSeq(s, 1, i - 1) \in Seq(S) /\ Len(SubSeq(s, 1, i - 1)) = i - 1
      /\ \A k \in 1..(i - 1) : SubSeq(s, 1, i - 1)[k] = s[k]
  <2>1. \A k \in 1..(i - 1) : s[k] \in S
    BY <1>2, <1>3
  <2>2. /\ SubSeq(s, 1, i - 1) \in Seq(S)
        /\ Len(SubSeq(s, 1, i - 1)) = IF 1 <= i - 1 THEN i - 1 - 1 + 1 ELSE 0
        /\ \A k \in 1..(i - 1 - 1 + 1) : SubSeq(s, 1, i - 1)[k] = s[1 + k - 1]
    BY <1>2, <2>1, SubSeqProperties
  <2>3. \A k \in 1..(i - 1) : k \in 1..(i - 1 - 1 + 1) /\ 1 + k - 1 = k
    BY <1>2
  <2>4. (IF 1 <= i - 1 THEN i - 1 - 1 + 1 ELSE 0) = i - 1
    BY <1>2
  <2> QED BY <2>2, <2>3, <2>4
<1>5. /\ SubSeq(s, i + 1, n) \in Seq(S) /\ Len(SubSeq(s, i + 1, n)) = n - i
      /\ \A k \in 1..(n - i) : SubSeq(s, i + 1, n)[k] = s[i + k]
  <2>1. \A k \in (i + 1)..n : s[k] \in S
    BY <1>2, <1>3
  <2>2. /\ SubSeq(s, i + 1, n) \in Seq(S)
        /\ Len(SubSeq(s, i + 1, n)) = IF i + 1 <= n THEN n - (i + 1) + 1 ELSE 0
        /\ \A k \in 1..(n - (i + 1) + 1) : SubSeq(s, i + 1, n)[k] = s[i + 1 + k - 1]
    BY <1>2, <2>1, SubSeqProperties
  <2>3. \A k \in 1..(n - i) : k \in 1..(n - (i + 1) + 1) /\ i + 1 + k - 1 = i + k
    BY <1>2
  <2>4. (IF i + 1 <= n THEN n - (i + 1) + 1 ELSE 0) = n - i
    BY <1>2
  <2> QED BY <2>2, <2>3, <2>4
<1>6. RemoveAt(s, i) = SubSeq(s, 1, i - 1) \o SubSeq(s, i + 1, n)
  BY <1>1 DEF RemoveAt
<1> HIDE DEF RemoveAt
<1>7. /\ RemoveAt(s, i) \in Seq(S) /\ Len(RemoveAt(s, i)) = (i - 1) + (n - i)
      /\ \A k \in 1..(i - 1) : RemoveAt(s, i)[k] = s[k]
      /\ \A k \in 1..(n - i) : RemoveAt(s, i)[(i - 1) + k] = s[i + k]
  <2> DEFINE a == SubSeq(s, 1, i - 1)
             b == SubSeq(s, i + 1, n)
             u == i - 1
             w == n - i
  <2>1. /\ a \in Seq(S) /\ b \in Seq(S) /\ u \in Nat /\ w \in Nat
        /\ u = Len(a) /\ w = Len(b)
    BY <1>2, <1>4, <1>5
  <2>2. RemoveAt(s, i) = a \o b
    BY <1>6
  <2>a. \A k \in 1..u : a[k] = s[k]
    BY <1>4
  <2>b. \A k \in 1..w : b[k] = s[i + k]
    BY <1>5
  <2> HIDE DEF a, b, u, w
  <2>3. /\ a \o b \in Seq(S) /\ Len(a \o b) = u + w
        /\ \A k \in 1..u : (a \o b)[k] = a[k]
        /\ \A k \in 1..w : (a \o b)[u + k] = b[k]
    BY <2>1, ConcatAt
  <2>4. /\ RemoveAt(s, i) \in Seq(S) /\ Len(RemoveAt(s, i)) = u + w
        /\ \A k \in 1..u : RemoveAt(s, i)[k] = s[k]
        /\ \A k \in 1..w : RemoveAt(s, i)[u + k] = s[i + k]
    BY <2>2, <2>3, <2>a, <2>b
  <2> QED BY <2>4 DEF u, w
<1>8. Len(RemoveAt(s, i)) = n - 1
  BY <1>2, <1>7
<1>9. ASSUME NEW k \in i..(n - 1)
      PROVE  RemoveAt(s, i)[k] = s[k + 1]
  <2>1. k - i + 1 \in 1..(n - i) /\ (i - 1) + (k - i + 1) = k /\ i + (k - i + 1) = k + 1
    BY <1>2
  <2> DEFINE z == k - i + 1
  <2>2. z \in 1..(n - i) /\ (i - 1) + z = k /\ i + z = k + 1
    BY <2>1
  <2> HIDE DEF z
  <2> QED BY <1>7, <2>2
<1> QED BY <1>1, <1>7, <1>8, <1>9

-----------------------------------------------------------------------------
(* What a variable holds                                                    *)

\* A struct is of a function that is well typed.
LEMMA FunctionOK ==
  ASSUME TypeInv, InRange, NEW id \in DOMAIN frames
  PROVE  /\ FnOf(id) \in Functions /\ WellTyped(program, FnOf(id))
         /\ frames[id] \in FrameSet
BY ProgramOK, Indices DEF TypeInv, InRange, FnOf

\* No two instructions define a variable, and none a parameter.
LEMMA DefinedOnce ==
  ASSUME NEW prog, NEW f, WellTyped(prog, f), NEW i \in DOMAIN Flat(f),
         Flat(f)[i].op \in Defining
  PROVE  /\ Flat(f)[i].x \notin ToSet(f.params)
         /\ \A j \in DOMAIN Flat(f) :
              Flat(f)[j].op \in Defining /\ Flat(f)[j].x = Flat(f)[i].x => i = j
BY DEF WellTyped, Defines

\* A variable that is read was defined before, and what it holds is not lost.
LEMMA ReadLasts ==
  ASSUME NEW prog, NEW f \in Functions, WellTyped(prog, f),
         NEW pos \in DOMAIN Flat(f), NEW v \in Vars, Reads(Flat(f)[pos], v),
         Declared(f, pos, v),
         NEW i \in DOMAIN Flat(f), Flat(f)[i].op \in {"timer", "work", "call"},
         Flat(f)[i].x = v
  PROVE  i \in 1..(pos - 1) /\ Lasts(f, i, pos)
<1>1. Flat(f)[i].op \in Defining
  BY DEF Defining
<1>2. \E j \in 1..(pos - 1) : Defines(Flat(f)[j], v)
  BY <1>1, DefinedOnce DEF WellTyped
<1>3. PICK n \in Nat : n = Len(Flat(f)) /\ DOMAIN Flat(f) = 1..n
  BY CodeOK, LenProperties
<1>4. \A j \in 1..(pos - 1) : j \in DOMAIN Flat(f)
  BY <1>3
<1>5. \A j \in 1..(pos - 1) : Defines(Flat(f)[j], v) => j = i
  BY <1>1, <1>4, DefinedOnce DEF Defines
<1>6. i \in 1..(pos - 1)
  BY <1>2, <1>5
<1>7. CASE v \in Fields(f)
  BY <1>6, <1>7, CodeOK DEF Lasts
<1>8. CASE v \notin Fields(f)
  <2>1. SameCase(Flat(f), i, pos)
    BY <1>5, <1>8 DEF Declared
  <2>2. \A k \in i..(pos - 1) : Code(f)[k] = Flat(f)[k]
    BY <1>3, <1>6, CodeOK
  <2>3. SameCase(Code(f), i, pos)
    BY <2>1, <2>2 DEF SameCase
  <2> QED BY <1>6, <2>3 DEF Lasts
<1> QED BY <1>7, <1>8

\* What is read of a promise: that of libuv; that of a call, unless the struct
\* was freed by then; or what a branch chose, which is never assigned.
LEMMA ReadValue ==
  ASSUME TypeInv, InRange, Compiles(program), NEW id \in DOMAIN frames,
         NEW pos \in Places(id), pos \in DOMAIN Flat(FnOf(id)),
         NEW v \in Vars, Reads(Flat(FnOf(id))[pos], v)
  PROVE  /\ v \in ApiPromises(FnOf(id)) => frames[id].vars[v] \in Outer
         /\ v \in Results(FnOf(id), {"call"}) =>
              \/ frames[id].vars[v] = Garbage /\ Quick
              \/ frames[id].vars[v] \in Later(id)
         /\ v \in Chosen(FnOf(id)) =>
              frames[id].vars[v] = Zero /\ ReadsUnknown(program, Chosen)
<1> DEFINE f == FnOf(id)
<1>1. f \in Functions /\ WellTyped(program, f)
  BY FunctionOK
<1>2. frames[id].fn \in DOMAIN program.functions /\ f = program.functions[frames[id].fn]
  BY DEF InRange, FnOf
<1>3. Declared(f, pos, v)
  BY <1>2 DEF Compiles
<1>4. ASSUME NEW i \in DOMAIN Flat(f), Flat(f)[i].op \in {"timer", "work", "call"},
             Flat(f)[i].x = v
      PROVE  Holds(id, Flat(f)[i])
  <2>1. i \in 1..(pos - 1) /\ Lasts(f, i, pos)
    BY <1>1, <1>3, <1>4, ReadLasts
  <2>2. Holds(id, Code(f)[i])
    BY <2>1 DEF Places
  <2> QED BY <1>1, <2>2, CodeOK
<1>5. v \in Results(f, {"timer", "work"}) => frames[id].vars[v] \in Outer
  BY <1>4 DEF Results, Holds
<1>6. v \in f.promised => frames[id].vars[v] \in Outer
  BY DEF Places
<1>7. v \in Results(f, {"call"}) => \/ frames[id].vars[v] = Garbage /\ Quick
                                    \/ frames[id].vars[v] \in Later(id)
  BY <1>4 DEF Results, Holds
<1>8. ASSUME v \in Chosen(f)
      PROVE  frames[id].vars[v] = Zero /\ ReadsUnknown(program, Chosen)
  <2>1. frames[id].vars[v] = Zero
    BY <1>8 DEF Places
  <2>2. ReadsUnknown(program, Chosen)
    BY <1>2, <1>8 DEF ReadsUnknown
  <2> QED BY <2>1, <2>2
<1> QED BY <1>5, <1>6, <1>7, <1>8 DEF ApiPromises

\* A program the C compiler refuses.
LEMMA RefusedFor ==
  ASSUME program \in Programs, ~Compiles(program)
  PROVE  \/ CallsUndeclared(program)
         \/ ReadsUnknown(program, Chosen) \/ ReadsUnknown(program, Nothing)
<1>a. PICK n \in DOMAIN program.functions :
        LET g == program.functions[n] IN
        \E i \in DOMAIN Flat(g) :
          ~ (/\ Flat(g)[i].op # "native"
             /\ Flat(g)[i].op = "call" => Flat(g)[i].fn <= n
             /\ \A v \in Vars : Reads(Flat(g)[i], v) => Declared(g, i, v))
  BY DEF Compiles
<1> DEFINE f == program.functions[n]
<1>1. PICK i \in DOMAIN Flat(f) :
        ~ (/\ Flat(f)[i].op # "native"
           /\ Flat(f)[i].op = "call" => Flat(f)[i].fn <= n
           /\ \A v \in Vars : Reads(Flat(f)[i], v) => Declared(f, i, v))
  BY <1>a
<1>2. f \in Functions /\ WellTyped(program, f)
  BY ProgramOK
<1>3. PICK l \in Nat : l = Len(Flat(f)) /\ DOMAIN Flat(f) = 1..l
  BY <1>2, CodeOK, LenProperties
<1>4. Flat(f)[i] \in Instrs
  BY <1>2, <1>3, CodeOK, ElementOfSeq
<1>5. CASE Flat(f)[i].op = "native"
  BY <1>5 DEF CallsUndeclared
<1>6. CASE Flat(f)[i].op = "call" /\ ~(Flat(f)[i].fn <= n)
  <2>1. n \in Nat /\ Flat(f)[i].fn \in Nat
    <3>1. IsProgram(program)
      BY AotAsyncAssumption
    <3>2. DOMAIN program.functions = 1..Len(program.functions)
          /\ Len(program.functions) \in Nat
      BY <3>1, LenProperties DEF IsProgram
    <3> QED BY <1>4, <3>2 DEF Instrs
  <2>2. Flat(f)[i].fn > n
    BY <1>6, <2>1
  <2> QED BY <1>6, <2>2 DEF CallsUndeclared
<1>7. ASSUME NEW v \in Vars, Reads(Flat(f)[i], v), ~Declared(f, i, v)
      PROVE  \E g \in {Chosen(f), Nothing(f)} : v \in g
  <2>1. v \notin Fields(f) /\ v \notin ToSet(f.params)
    BY <1>7 DEF Declared, Fields
  <2>2. PICK j \in 1..(i - 1) : Defines(Flat(f)[j], v)
    BY <1>2, <1>7, <2>1 DEF WellTyped
  <2>3. j \in DOMAIN Flat(f) /\ i \in (j + 1)..Len(Flat(f))
    BY <1>3
  <2>4. CASE Flat(f)[j].op = "phi"
    BY <2>2, <2>3, <2>4 DEF Chosen, Results, Defines
  <2>5. CASE Flat(f)[j].op = "await"
    <3>1. Flat(f)[j].void
      BY <2>1, <2>2, <2>3, <2>5 DEF Fields
    <3> QED BY <2>2, <2>3, <2>5, <3>1 DEF Nothing, Defines
  <2>6. CASE Flat(f)[j].op \notin {"phi", "await"}
    <3>1. ~SameCase(Flat(f), j, i)
      BY <1>7, <2>2, <2>6 DEF Declared
    <3>2. Uses(Flat(f)[i], v)
      BY <1>7 DEF Reads
    <3>3. v \in Fields(f)
      BY <2>2, <2>3, <2>6, <3>1, <3>2 DEF Fields
    <3> QED BY <2>1, <3>3
  <2> QED BY <2>4, <2>5, <2>6
<1>8. CASE \E v \in Vars : Reads(Flat(f)[i], v) /\ ~Declared(f, i, v)
  <2>1. PICK v \in Vars : Reads(Flat(f)[i], v) /\ ~Declared(f, i, v)
    BY <1>8
  <2>2. v \in Chosen(f) \/ v \in Nothing(f)
    BY <1>7, <2>1
  <2>3. v \in Chosen(f) => ReadsUnknown(program, Chosen)
    BY <2>1 DEF ReadsUnknown
  <2>4. v \in Nothing(f) => ReadsUnknown(program, Nothing)
    BY <2>1 DEF ReadsUnknown
  <2> QED BY <2>2, <2>3, <2>4
<1> QED BY <1>1, <1>5, <1>6, <1>8

-----------------------------------------------------------------------------
(* What no step takes back                                                  *)

\* Structs and promises are only added, a new struct has a new promise; what was
\* freed stays as it is and what was resolved stays resolved.
Grows ==
  /\ program' = program
  /\ DOMAIN frames \subseteq DOMAIN frames' /\ DOMAIN promises \subseteq DOMAIN promises'
  /\ \A g \in DOMAIN frames :
       /\ frames'[g].fn = frames[g].fn /\ frames'[g].result = frames[g].result
       /\ frames[g].freed => frames'[g].freed /\ frames'[g].state = frames[g].state
  /\ \A g \in DOMAIN frames' :
       g \in DOMAIN frames \/ /\ frames'[g].result \notin DOMAIN promises
                              /\ \A h \in DOMAIN frames : h < g
  /\ \A p \in DOMAIN promises : promises[p].resolved => promises'[p].resolved

\* What libuv resolves, what is the result of a later struct, and what a struct
\* runs, stay so.
LEMMA Grown ==
  ASSUME InRange, Grows
  PROVE  /\ Outer \subseteq Outer' /\ (Quick => Quick')
         /\ \A id \in DOMAIN frames : Later(id) \subseteq Later(id)'
         /\ \A id \in DOMAIN frames : FnOf(id)' = FnOf(id)
<1>1. Outer \subseteq Outer'
  BY DEF Outer, Grows
<1>2. Quick => Quick'
  BY DEF Quick, Grows
<1>3. ASSUME NEW id \in DOMAIN frames
      PROVE  Later(id) \subseteq Later(id)'
  <2>1. \A g \in DOMAIN frames' : g \in DOMAIN frames \/ g > id
    BY DEF Grows
  <2> QED BY <2>1 DEF Later, Grows
<1>4. \A id \in DOMAIN frames : FnOf(id)' = FnOf(id)
  BY DEF FnOf, Grows
<1> QED BY <1>1, <1>2, <1>3, <1>4

\* A struct whose variables stay can go on where it could.
LEMMA PlacesKept ==
  ASSUME InRange, Grows, NEW id \in DOMAIN frames,
         frames'[id].vars = frames[id].vars
  PROVE  Places(id) \subseteq Places(id)'
<1>1. /\ Outer \subseteq Outer' /\ (Quick => Quick')
      /\ Later(id) \subseteq Later(id)' /\ FnOf(id)' = FnOf(id)
  BY Grown
<1> SUFFICES ASSUME NEW pos \in Places(id)
             PROVE  pos \in Places(id)'
  OBVIOUS
<1>2. ASSUME NEW j \in 1..(pos - 1), Lasts(FnOf(id), j, pos)
      PROVE  Holds(id, Code(FnOf(id))[j])'
  <2>1. Holds(id, Code(FnOf(id))[j])
    BY <1>2 DEF Places
  <2> QED BY <1>1, <2>1 DEF Holds
<1> QED BY <1>1, <1>2 DEF Places

\* What is executed at pos assigns its variable, or keeps what is a field.
LEMMA Advances ==
  ASSUME TypeInv, InRange, Grows, NEW id \in DOMAIN frames, NEW pos \in Places(id),
         NEW instr, instr = Code(FnOf(id))[pos], instr.op # "return",
         \A v \in Vars :
           \/ frames'[id].vars[v] = frames[id].vars[v]
           \/ Defines(instr, v) /\ instr.op # "phi"
           \/ /\ instr.op = "await" /\ v \notin Fields(FnOf(id))
              /\ frames'[id].vars[v] = Zero,
         instr.op \in {"timer", "work"} => frames'[id].vars[instr.x] \in Outer',
         instr.op = "call" => \/ frames'[id].vars[instr.x] = Garbage /\ Quick'
                              \/ frames'[id].vars[instr.x] \in Later(id)'
  PROVE  pos + 1 \in Places(id)'
<1> DEFINE f == FnOf(id)
<1>1. /\ Outer \subseteq Outer' /\ (Quick => Quick')
      /\ Later(id) \subseteq Later(id)' /\ FnOf(id)' = f
  BY Grown
<1>2. f \in Functions /\ WellTyped(program, f)
  BY FunctionOK
<1>3. /\ pos \in Nat \ {0} /\ HasReturn(Code(f), pos + 1)
      /\ pos \in DOMAIN Flat(f) /\ Flat(f)[pos] = instr
  BY <1>2, BeforeReturn DEF Places
<1>4. \A v : Defines(instr, v) => v \notin ToSet(f.params) /\ v \in Vars
  <2>1. Flat(f)[pos] \in Instrs
    BY <1>2, <1>3, CodeOK, Indices
  <2> QED BY <1>2, <1>3, <2>1, DefinedOnce DEF Defines, Instrs
<1>5. \A v \in f.promised : frames'[id].vars[v] = frames[id].vars[v]
  <2>1. f.promised \subseteq ToSet(f.params) /\ f.promised \subseteq Vars
    BY <1>2 DEF WellTyped, Functions
  <2>2. \A v \in f.promised : v \in Fields(f)
    BY <2>1 DEF Fields
  <2> QED BY <1>4, <2>1, <2>2
<1>6. \A v \in Chosen(f) : frames'[id].vars[v] = Zero
  <2> SUFFICES ASSUME NEW v \in Chosen(f)
               PROVE  frames'[id].vars[v] = Zero
    OBVIOUS
  <2>1. PICK i \in DOMAIN Flat(f) : Flat(f)[i].op = "phi" /\ Flat(f)[i].x = v
    BY DEF Chosen, Results
  <2>2. Defines(instr, v) => instr.op = "phi"
    BY <1>2, <1>3, <2>1, DefinedOnce DEF Defines, Defining
  <2>3. v \in Vars /\ frames[id].vars[v] = Zero
    BY DEF Chosen, Results, Places
  <2> QED BY <2>2, <2>3
<1>7. ASSUME NEW j \in 1..(pos + 1 - 1), Lasts(f, j, pos + 1)
      PROVE  Holds(id, Code(f)[j])'
  <2>1. j \in 1..(pos - 1) \/ j = pos
    BY <1>3
  <2>2. CASE j = pos
    BY <1>1, <2>2 DEF Holds
  <2>3. CASE j \in 1..(pos - 1)
    <3>1. Lasts(f, j, pos)
      <4>1. \A k \in j..(pos - 1) : k \in j..(pos + 1 - 1)
        BY <1>3, <2>3
      <4>2. SameCase(Code(f), j, pos + 1) => SameCase(Code(f), j, pos)
        BY <1>3, <2>3, <4>1 DEF SameCase
      <4> QED BY <1>7, <4>2 DEF Lasts
    <3>2. Holds(id, Code(f)[j])
      BY <2>3, <3>1 DEF Places
    <3>3. SUFFICES ASSUME Code(f)[j].op \in {"timer", "work", "call"}
                   PROVE  Holds(id, Code(f)[j])'
      BY <1>1 DEF Holds
    <3>4. j \in DOMAIN Flat(f) /\ Code(f)[j] = Flat(f)[j] /\ j # pos
      <4>1. PICK l \in Nat : DOMAIN Flat(f) = 1..l
        BY <1>2, CodeOK, Indices
      <4>2. j \in DOMAIN Flat(f) /\ j # pos
        BY <1>3, <2>3, <4>1
      <4> QED BY <1>2, <4>2, CodeOK
    <3>5. ~Defines(instr, Flat(f)[j].x)
      BY <1>2, <1>3, <3>3, <3>4, DefinedOnce DEF Defines, Defining
    <3>6. instr.op = "await" => Flat(f)[j].x \in Fields(f)
      <4>1. pos \in j..(pos + 1 - 1)
        BY <1>3, <2>3
      <4> QED BY <1>7, <3>4, <4>1 DEF Lasts, SameCase
    <3>7. Flat(f)[j].x \in Vars
      <4>1. Flat(f)[j] \in Instrs
        BY <1>2, <3>4, CodeOK, Indices
      <4> QED BY <4>1 DEF Instrs
    <3>8. frames'[id].vars[Flat(f)[j].x] = frames[id].vars[Flat(f)[j].x]
      BY <3>5, <3>6, <3>7
    <3> QED BY <1>1, <3>2, <3>4, <3>8 DEF Holds
  <2> QED BY <2>1, <2>2, <2>3
<1>8. pos + 1 \in Nat \ {0}
  BY <1>3
<1> QED BY <1>1, <1>3, <1>5, <1>6, <1>7, <1>8 DEF Places

\* The result of an await goes to a variable that holds no promise.
LEMMA Extracts ==
  ASSUME TypeInv, InRange, Grows, NEW id \in DOMAIN frames, NEW pos \in Places(id),
         NEW i \in DOMAIN Flat(FnOf(id)), Flat(FnOf(id))[i].op = "await",
         \A v \in Vars : \/ frames'[id].vars[v] = frames[id].vars[v]
                         \/ v = Flat(FnOf(id))[i].x
  PROVE  pos \in Places(id)'
<1> DEFINE f == FnOf(id)
           x == Flat(f)[i].x
<1>1. /\ Outer \subseteq Outer' /\ (Quick => Quick')
      /\ Later(id) \subseteq Later(id)' /\ FnOf(id)' = f
  BY Grown
<1>2. f \in Functions /\ WellTyped(program, f)
  BY FunctionOK
<1>3. /\ x \notin ToSet(f.params)
      /\ \A j \in DOMAIN Flat(f) :
           Flat(f)[j].op \in Defining /\ Flat(f)[j].x = x => Flat(f)[j].op = "await"
  BY <1>2, DefinedOnce DEF Defining
<1>4. \A v \in f.promised : frames'[id].vars[v] = frames[id].vars[v]
  BY <1>2, <1>3 DEF WellTyped, Functions
<1>5. \A v \in Chosen(f) : frames'[id].vars[v] = frames[id].vars[v]
  BY <1>3 DEF Chosen, Results, Defining
<1>6. ASSUME NEW j \in 1..(pos - 1), Lasts(f, j, pos)
      PROVE  Holds(id, Code(f)[j])'
  <2>1. Holds(id, Code(f)[j])
    BY <1>6 DEF Places
  <2>2. SUFFICES ASSUME Code(f)[j].op \in {"timer", "work", "call"}
                 PROVE  Holds(id, Code(f)[j])'
    BY <1>1 DEF Holds
  <2>3. pos \in DOMAIN Code(f)
    BY <1>2, BeforeReturn DEF Places
  <2>4. PICK l \in Nat : DOMAIN Code(f) = 1..l
    BY <1>2, CodeOK, Indices
  <2>5. j \in DOMAIN Code(f)
    BY <2>3, <2>4
  <2>6. j \in DOMAIN Flat(f) /\ Code(f)[j] = Flat(f)[j]
    BY <1>2, <2>2, <2>5, CodeOK
  <2>7. Code(f)[j].x \in Vars /\ Code(f)[j].x # x
    <3>1. Code(f)[j] \in Instrs
      BY <1>2, <2>5, CodeOK, Indices
    <3>2. Code(f)[j].x # x
      BY <1>3, <2>2, <2>6 DEF Defining
    <3> QED BY <3>1, <3>2 DEF Instrs
  <2> QED BY <1>1, <2>1, <2>7 DEF Holds
<1> QED BY <1>1, <1>4, <1>5, <1>6 DEF Places

-----------------------------------------------------------------------------
(* What a step leaves of the stack and of the structs                       *)

\* The first m calls are kept, of which the last may have gone on.
Under(m) ==
  /\ m \in 0..Len(stack) /\ m <= Len(stack')
  /\ \A k \in 1..(m - 1) : stack'[k] = stack[k]
  /\ m > 0 => /\ stack'[m].kind = stack[m].kind /\ stack'[m].id = stack[m].id
              /\ stack'[m].at >= stack[m].at

\* No struct but x is changed, and no call of moveNext comes or goes but that of
\* x and of new structs.
Effect(m, x) ==
  /\ Grows /\ Under(m)
  /\ \A g \in DOMAIN frames : g # x => frames'[g] = frames[g]
  /\ \A k \in (m + 1)..Len(stack) : stack[k].kind = "move" => stack[k].id = x
  /\ \A k \in (m + 1)..Len(stack') :
       stack'[k].kind = "move" => stack'[k].id = x \/ stack'[k].id \notin DOMAIN frames

\* The calls that are kept are on both stacks.
LEMMA UnderFacts ==
  ASSUME TypeInv, TypeInv', NEW m, Under(m)
  PROVE  /\ m \in Nat /\ Len(stack) \in Nat /\ Len(stack') \in Nat
         /\ DOMAIN stack = 1..Len(stack) /\ DOMAIN stack' = 1..Len(stack')
         /\ \A k \in DOMAIN stack : stack[k] \in CallSet
         /\ \A k \in DOMAIN stack' : stack'[k] \in CallSet
         /\ \A k \in 1..m : /\ k \in DOMAIN stack /\ k \in DOMAIN stack'
                            /\ stack'[k].kind = stack[k].kind
                            /\ stack'[k].id = stack[k].id
                            /\ stack'[k].at >= stack[k].at
<1>1. /\ Len(stack) \in Nat /\ DOMAIN stack = 1..Len(stack)
      /\ \A k \in DOMAIN stack : stack[k] \in CallSet
  BY Indices DEF TypeInv
<1>2. /\ Len(stack') \in Nat /\ DOMAIN stack' = 1..Len(stack')
      /\ \A k \in DOMAIN stack' : stack'[k] \in CallSet
  BY Indices DEF TypeInv
<1>3. m \in Nat
  BY <1>1 DEF Under
<1>4. ASSUME NEW k \in 1..m
      PROVE  /\ k \in DOMAIN stack /\ k \in DOMAIN stack'
             /\ stack'[k].kind = stack[k].kind /\ stack'[k].id = stack[k].id
             /\ stack'[k].at >= stack[k].at
  <2>1. k \in DOMAIN stack /\ k \in DOMAIN stack'
    BY <1>1, <1>2, <1>3 DEF Under
  <2>2. stack[k].at \in Nat
    BY <1>1, <2>1 DEF CallSet
  <2>3. k \in 1..(m - 1) \/ k = m
    BY <1>3
  <2> QED BY <1>3, <2>1, <2>2, <2>3 DEF Under
<1> QED BY <1>1, <1>2, <1>3, <1>4

\* Who waits goes on waiting, but for the struct that changes.
LEMMA SuspendedKept ==
  ASSUME TypeInv, TypeInv', NEW m, NEW x, Effect(m, x),
         NEW g \in DOMAIN frames, g # x
  PROVE  Suspended(g)' <=> Suspended(g)
<1>1. Under(m)
  BY DEF Effect
<1>2. OnStack("move", g) => OnStack("move", g)'
  <2> SUFFICES ASSUME NEW k \in DOMAIN stack, stack[k].kind = "move", stack[k].id = g
               PROVE  OnStack("move", g)'
    BY DEF OnStack
  <2>1. k \notin (m + 1)..Len(stack)
    BY DEF Effect
  <2>2. k \in 1..m
    BY <1>1, <2>1, UnderFacts
  <2> QED BY <1>1, <2>2, UnderFacts DEF OnStack
<1>3. OnStack("move", g)' => OnStack("move", g)
  <2> SUFFICES ASSUME NEW k \in DOMAIN stack', stack'[k].kind = "move", stack'[k].id = g
               PROVE  OnStack("move", g)
    BY DEF OnStack
  <2>1. k \notin (m + 1)..Len(stack')
    BY DEF Effect
  <2>2. k \in 1..m
    BY <1>1, <2>1, UnderFacts
  <2> QED BY <1>1, <2>2, UnderFacts DEF OnStack
<1> QED BY <1>2, <1>3 DEF Suspended, Effect

\* New structs with new results, and calls of what there is, keep all in range.
LEMMA RangeKept ==
  ASSUME TypeInv, TypeInv', InRange, Grows, NEW m, Under(m),
         \A g, h \in DOMAIN frames' : g \in DOMAIN frames \/ h \in DOMAIN frames \/ g = h,
         \A g \in DOMAIN frames' : g \in DOMAIN frames \/
           /\ frames'[g].fn \in DOMAIN program.functions
           /\ frames'[g].result \in DOMAIN promises',
         \A p \in DOMAIN promises' : \A i \in DOMAIN promises'[p].conts :
           promises'[p].conts[i] \in DOMAIN frames',
         \A k \in (m + 1)..Len(stack') :
           stack'[k].id \in IF stack'[k].kind = "resolve" THEN DOMAIN promises'
                                                          ELSE DOMAIN frames'
  PROVE  InRange'
<1>1. \A g \in DOMAIN frames' : /\ frames'[g].fn \in DOMAIN program'.functions
                                /\ frames'[g].result \in DOMAIN promises'
  BY DEF InRange, Grows
<1>2. ASSUME NEW g \in DOMAIN frames', NEW h \in DOMAIN frames',
             frames'[g].result = frames'[h].result
      PROVE  g = h
  <2>1. CASE g \in DOMAIN frames /\ h \in DOMAIN frames
    BY <1>2, <2>1 DEF InRange, Grows
  <2>2. CASE g \in DOMAIN frames /\ h \notin DOMAIN frames
    BY <1>2, <2>2 DEF InRange, Grows
  <2>3. CASE g \notin DOMAIN frames /\ h \in DOMAIN frames
    BY <1>2, <2>3 DEF InRange, Grows
  <2> QED BY <2>1, <2>2, <2>3
<1>3. ASSUME NEW k \in DOMAIN stack'
      PROVE  stack'[k].id \in IF stack'[k].kind = "resolve" THEN DOMAIN promises'
                                                            ELSE DOMAIN frames'
  <2>1. k \in 1..m \/ k \in (m + 1)..Len(stack')
    BY UnderFacts
  <2>2. CASE k \in 1..m
    BY <2>2, UnderFacts DEF InRange, Grows
  <2> QED BY <2>1, <2>2
<1> QED BY <1>1, <1>2, <1>3 DEF InRange

\* The calls that are kept fit, if the struct that changes has none among them,
\* or goes on.
LEMMA StackKept ==
  ASSUME TypeInv, TypeInv', InRange, StackInv, NEW m, NEW x, Effect(m, x),
         \A k \in 1..m : stack[k].kind = "move" /\ stack[k].id = x =>
           frames'[x].state = frames[x].state /\ frames'[x].freed = frames[x].freed,
         \A k \in 1..m : stack[k].kind = "entry" /\ stack[k].id = x /\ frames'[x].freed =>
           frames'[x].state = 1,
         \A k \in (m + 1)..Len(stack') :
           /\ IF k = 1 THEN stack'[k].kind # "move" ELSE Fits(stack[k - 1], stack[k])'
           /\ \A j \in 1..(k - 1) :
                stack'[j].kind # stack'[k].kind \/ stack'[j].id # stack'[k].id
           /\ stack'[k].kind = "move" => ~frames'[stack'[k].id].freed
           /\ stack'[k].kind = "entry" => ~frames'[stack'[k].id].freed
           /\ stack'[k].kind = "resolve" => promises'[stack'[k].id].resolved
  PROVE  StackInv'
<1> USE DEF Effect
<1>1. Under(m) /\ Grows
  OBVIOUS
<1>2. \A k \in DOMAIN stack' : k \in 1..m \/ k \in (m + 1)..Len(stack')
  BY <1>1, UnderFacts
<1>3. ASSUME NEW k \in 1..m
      PROVE  stack[k].kind = "move" =>
               /\ frames'[stack[k].id].state = frames[stack[k].id].state
               /\ frames'[stack[k].id].freed = frames[stack[k].id].freed
  BY <1>1, UnderFacts DEF InRange
<1>4. ASSUME NEW k \in 1..(Len(stack') - 1)
      PROVE  Fits(stack[k], stack[k + 1])'
  <2>1. k \in DOMAIN stack' /\ k + 1 \in DOMAIN stack' /\ (k + 1) - 1 = k /\ k + 1 # 1
    BY <1>1, UnderFacts
  <2>2. CASE k + 1 \in (m + 1)..Len(stack')
    <3>1. Fits(stack[(k + 1) - 1], stack[k + 1])'
      BY <2>1, <2>2
    <3> QED BY <2>1, <3>1 DEF Fits
  <2>3. CASE k + 1 \in 1..m
    <3>1. k \in 1..m /\ k \in 1..(m - 1) /\ k \in 1..(Len(stack) - 1)
      BY <1>1, <2>1, <2>3, UnderFacts DEF Under
    <3>2. PICK a \in CallSet, b \in CallSet, c \in CallSet :
            a = stack[k] /\ b = stack[k + 1] /\ c = stack'[k + 1]
      BY <1>1, <2>1, <2>3, <3>1, UnderFacts
    <3>3. stack'[k] = a /\ c.kind = b.kind /\ c.id = b.id
      BY <1>1, <2>3, <3>1, <3>2, UnderFacts DEF Under
    <3>4. Fits(a, b)
      BY <3>1, <3>2 DEF StackInv
    <3>5. b.kind = "move" => frames'[b.id].state = frames[b.id].state
      BY <1>3, <2>3, <3>2
    <3>6. a.kind # "resolve" => a.id \in DOMAIN frames
      BY <1>1, <3>1, <3>2, UnderFacts DEF InRange
    <3>7. a.id \in DOMAIN frames =>
            /\ Code(FnOf(a.id)') = Code(FnOf(a.id))
            /\ frames'[a.id].result = frames[a.id].result
      BY <1>1, Grown DEF Grows
    <3>8. Fits(a, c)'
      <4>1. CASE a.kind = "entry"
        BY <3>3, <3>4, <3>5, <4>1 DEF Fits
      <4>2. CASE a.kind = "move"
        BY <3>3, <3>4, <3>6, <3>7, <4>2 DEF Fits, CodeOf
      <4>3. CASE a.kind = "resolve"
        BY <3>3, <3>4, <4>3 DEF Fits
      <4> QED BY <4>1, <4>2, <4>3 DEF CallSet
    <3> QED BY <3>2, <3>3, <3>8 DEF Fits
  <2> QED BY <1>2, <2>1, <2>2, <2>3
<1>5. ASSUME NEW i \in DOMAIN stack', NEW j \in DOMAIN stack',
             stack'[i].kind = stack'[j].kind, stack'[i].id = stack'[j].id
      PROVE  i = j
  <2>1. CASE i \in 1..m /\ j \in 1..m
    BY <1>1, <1>5, <2>1, UnderFacts DEF StackInv
  <2>2. i \in Nat /\ j \in Nat /\ Len(stack') \in Nat /\ m \in Nat /\ i >= 1 /\ j >= 1
    BY <1>1, UnderFacts
  <2>3. CASE i \in (m + 1)..Len(stack')
    <3>1. j < i => j \in 1..(i - 1)
      BY <2>2
    <3>2. ~(j < i)
      BY <1>5, <2>3, <3>1
    <3>3. i < j => j \in (m + 1)..Len(stack') /\ i \in 1..(j - 1)
      BY <1>2, <2>2, <2>3
    <3>4. ~(i < j)
      BY <1>5, <3>3
    <3> QED BY <2>2, <3>2, <3>4
  <2>4. CASE i \in 1..m /\ j \in (m + 1)..Len(stack')
    <3>1. i \in 1..(j - 1)
      BY <2>2, <2>4
    <3> QED BY <1>5, <2>4, <3>1
  <2> QED BY <1>2, <2>1, <2>3, <2>4
<1>6. ASSUME NEW k \in DOMAIN stack'
      PROVE  /\ stack'[k].kind = "move" => k > 1 /\ ~frames'[stack'[k].id].freed
             /\ stack'[k].kind = "entry" /\ frames'[stack'[k].id].freed
                => frames'[stack'[k].id].state = 1
             /\ stack'[k].kind = "resolve" => promises'[stack'[k].id].resolved
  <2>1. CASE k \in (m + 1)..Len(stack')
    <3>1. k = 1 \/ k > 1
      BY <1>1, UnderFacts
    <3> QED BY <2>1, <3>1
  <2>2. CASE k \in 1..m
    <3>1. /\ stack'[k].kind = stack[k].kind /\ stack'[k].id = stack[k].id
          /\ k \in DOMAIN stack
      BY <1>1, <2>2, UnderFacts
    <3>2. CASE stack[k].kind = "move"
      BY <1>3, <2>2, <3>1, <3>2 DEF StackInv
    <3>3. CASE stack[k].kind = "entry"
      <4>1. stack[k].id \in DOMAIN frames
        BY <3>1, <3>3 DEF InRange
      <4> QED BY <2>2, <3>1, <3>3, <4>1 DEF StackInv
    <3>4. CASE stack[k].kind = "resolve"
      BY <1>1, <3>1, <3>4 DEF StackInv, InRange, Grows
    <3>5. stack[k] \in CallSet
      BY <1>1, <3>1, UnderFacts
    <3> QED BY <3>2, <3>3, <3>4, <3>5, <3>1 DEF CallSet
  <2> QED BY <1>2, <2>1, <2>2
<1> QED BY <1>4, <1>5, <1>6 DEF StackInv

\* What goes on, or is to be resumed, is at a place it can go on from, if the
\* struct that changes is.
LEMMA PlaceKept ==
  ASSUME TypeInv, TypeInv', InRange, PlaceInv, NEW m, NEW x, Effect(m, x),
         \A k \in 1..m : stack[k].kind = "move" /\ stack[k].id # x =>
           stack'[k].at = stack[k].at,
         \A k \in DOMAIN stack' :
           x \in DOMAIN frames /\ stack'[k].kind = "move" /\ stack'[k].id = x =>
             stack'[k].at \in Places(x)',
         x \in DOMAIN frames /\ Suspended(x)' =>
           /\ frames'[x].state > 1 /\ frames'[x].state \in Places(x)'
           /\ Code(FnOf(x))[frames'[x].state - 1].op = "await"
           /\ frames'[x].awaited \in Later(x)',
         \A g \in DOMAIN frames' : g \in DOMAIN frames \/
           /\ ~Suspended(g)'
           /\ \A k \in (m + 1)..Len(stack') :
                stack'[k].kind = "move" /\ stack'[k].id = g => stack'[k].at \in Places(g)'
  PROVE  PlaceInv'
<1>1. Under(m) /\ Grows
  BY DEF Effect
<1>2. ASSUME NEW g \in DOMAIN frames, g # x
      PROVE  Places(g) \subseteq Places(g)'
  BY <1>1, <1>2, PlacesKept DEF Effect
<1>3. ASSUME NEW k \in DOMAIN stack', NEW g \in DOMAIN frames',
             stack'[k].kind = "move", stack'[k].id = g
      PROVE  stack'[k].at \in Places(g)'
  <2>1. k \in 1..m \/ k \in (m + 1)..Len(stack')
    BY <1>1, UnderFacts
  <2>2. CASE k \in 1..m
    <3>1. /\ stack[k].kind = "move" /\ stack[k].id = g /\ k \in DOMAIN stack
      BY <1>1, <1>3, <2>2, UnderFacts
    <3>2. g \in DOMAIN frames
      BY <3>1 DEF InRange
    <3>3. CASE g = x
      BY <1>3, <3>2, <3>3
    <3>4. CASE g # x
      BY <1>2, <2>2, <3>1, <3>2, <3>4 DEF PlaceInv
    <3> QED BY <3>3, <3>4
  <2>3. CASE k \in (m + 1)..Len(stack')
    BY <1>3, <2>3 DEF Effect
  <2> QED BY <2>1, <2>2, <2>3
<1>4. ASSUME NEW g \in DOMAIN frames', Suspended(g)'
      PROVE  /\ frames'[g].state > 1 /\ frames'[g].state \in Places(g)'
             /\ CodeOf(g)'[frames'[g].state - 1].op = "await"
             /\ frames'[g].awaited \in Later(g)'
  <2>1. g \in DOMAIN frames
    BY <1>4
  <2>2. Code(FnOf(g)') = Code(FnOf(g))
    BY <1>1, <2>1, Grown
  <2>3. CASE g = x
    BY <1>4, <2>1, <2>2, <2>3 DEF CodeOf
  <2>4. CASE g # x
    <3>1. Suspended(g) /\ frames'[g] = frames[g]
      BY <1>4, <2>1, <2>4, SuspendedKept DEF Effect
    <3>2. /\ frames[g].state > 1 /\ frames[g].state \in Places(g)
          /\ Code(FnOf(g))[frames[g].state - 1].op = "await"
          /\ frames[g].awaited \in Later(g)
      BY <2>1, <3>1 DEF PlaceInv, CodeOf
    <3> QED BY <1>1, <1>2, <2>1, <2>2, <2>4, <3>1, <3>2, Grown DEF CodeOf
  <2> QED BY <2>3, <2>4
<1> QED BY <1>3, <1>4 DEF PlaceInv, CodeOf

-----------------------------------------------------------------------------
(* Who is woken                                                             *)

\* A promise whose continuations stay wakes whom it did, if the struct that
\* changes is not to be resumed.
LEMMA WakesKept ==
  ASSUME TypeInv, TypeInv', InRange, NEW m, NEW x, Effect(m, x),
         NEW p \in DOMAIN promises, Wakes(p),
         promises'[p].conts = promises[p].conts,
         \A k \in (m + 1)..Len(stack) : stack[k].kind # "resolve" \/ stack[k].id # p,
         x \notin ToResume(p) \/ x \notin ToResume(p)',
         promises'[p].resolved => promises[p].resolved \/ OnStack("resolve", p)',
         ~promises'[p].resolved => Due(p)'
  PROVE  Wakes(p)'
<1>1. Under(m)
  BY DEF Effect
<1>2. ASSUME NEW k \in DOMAIN stack, stack[k].kind = "resolve", stack[k].id = p
      PROVE  /\ k \in DOMAIN stack' /\ stack'[k].kind = "resolve" /\ stack'[k].id = p
             /\ stack'[k].at >= stack[k].at
             /\ stack'[k].at \in Nat /\ stack[k].at \in Nat
  <2>1. k \in 1..m
    BY <1>1, <1>2, UnderFacts
  <2> QED BY <1>1, <1>2, <2>1, UnderFacts DEF CallSet
<1>3. ToResume(p)' \subseteq ToResume(p)
  <2> SUFFICES ASSUME NEW i \in DOMAIN promises[p].conts,
                      \A n \in DOMAIN stack' :
                        stack'[n].kind = "resolve" /\ stack'[n].id = p => stack'[n].at < i
               PROVE  \A n \in DOMAIN stack :
                        stack[n].kind = "resolve" /\ stack[n].id = p => stack[n].at < i
    BY DEF ToResume
  <2>1. i \in Nat
    <3>1. promises[p].conts \in Seq(Nat)
      <4>1. promises[p] \in PromiseSet
        BY Indices DEF TypeInv
      <4> QED BY <4>1 DEF PromiseSet
    <3> QED BY <3>1, Indices
  <2> QED BY <1>2, <2>1
<1>4. OnStack("resolve", p) => OnStack("resolve", p)'
  BY <1>2 DEF OnStack
<1>5. ASSUME NEW id \in ToResume(p)'
      PROVE  Suspended(id)' /\ frames'[id].awaited = p
  <2>1. id \in ToResume(p) /\ id # x
    BY <1>3
  <2>2. id \in DOMAIN frames
    BY <2>1 DEF ToResume, InRange
  <2>3. Suspended(id) /\ frames[id].awaited = p
    BY <2>1 DEF Wakes
  <2>4. Suspended(id)'
    BY <2>1, <2>2, <2>3, SuspendedKept
  <2> QED BY <2>1, <2>2, <2>3, <2>4 DEF Effect
<1>6. promises'[p].resolved => OnStack("resolve", p)' \/ ToResume(p)' = {}
  BY <1>3, <1>4 DEF Wakes
<1> QED BY <1>5, <1>6 DEF Wakes

\* A new promise has nobody to wake.
LEMMA WakesNew ==
  ASSUME NEW p, promises'[p] = Pending, Due(p)'
  PROVE  Wakes(p)'
<1>1. promises'[p].conts = <<>> /\ ~promises'[p].resolved
  BY DEF Pending
<1>2. DOMAIN promises'[p].conts = {}
  BY <1>1
<1>3. ToResume(p)' = {}
  BY <1>2 DEF ToResume
<1> QED BY <1>1, <1>2, <1>3 DEF Wakes

-----------------------------------------------------------------------------
(* The top of the stack                                                     *)

\* The innermost call, and those below it.
LEMMA TopFacts ==
  ASSUME TypeInv, stack # <<>>
  PROVE  /\ Len(stack) \in Nat \ {0} /\ DOMAIN stack = 1..Len(stack)
         /\ Top = stack[Len(stack)] /\ Top \in CallSet /\ Below \in Seq(CallSet)
         /\ Len(Below) = Len(stack) - 1
         /\ \A k \in 1..(Len(stack) - 1) : Below[k] = stack[k]
<1>1. stack \in Seq(CallSet)
  BY DEF TypeInv
<1>2. Len(stack) \in Nat \ {0} /\ DOMAIN stack = 1..Len(stack)
  BY <1>1, EmptySeq, LenProperties
<1>3. stack[Len(stack)] \in CallSet
  BY <1>1, <1>2, Indices
<1> QED BY <1>1, <1>2, <1>3, Popped DEF Top, Below

\* What moveNext executes.
LEMMA MovingFacts ==
  ASSUME ProcessInv, NEW ops, Moving(ops)
  PROVE  /\ stack # <<>> /\ Top.kind = "move" /\ Instr.op \in ops
         /\ Top.id \in DOMAIN frames /\ Top.at \in Places(Top.id)
         /\ Instr = Code(FnOf(Top.id))[Top.at] /\ Instr \in Instrs
         /\ Instr.op # "return" => /\ Top.at \in DOMAIN Flat(FnOf(Top.id))
                                   /\ Flat(FnOf(Top.id))[Top.at] = Instr
         /\ ~frames[Top.id].freed /\ Compiles(program)
<1> USE DEF ProcessInv
<1>1. stack # <<>> /\ Top.kind = "move" /\ Instr.op \in ops
  BY DEF Moving
<1>2. Len(stack) \in DOMAIN stack /\ Top = stack[Len(stack)]
  BY <1>1, TopFacts
<1>3. Top.id \in DOMAIN frames /\ ~frames[Top.id].freed
  BY <1>1, <1>2 DEF InRange, StackInv
<1>4. Top.at \in Places(Top.id)
  BY <1>1, <1>2, <1>3 DEF PlaceInv
<1>5. Compiles(program)
  BY DEF Moving, StageInv
<1>6. /\ Top.at \in Nat \ {0} /\ HasReturn(Code(FnOf(Top.id)), Top.at)
  BY <1>4 DEF Places
<1>7. FnOf(Top.id) \in Functions
  BY <1>3, FunctionOK
<1>8. Instr = Code(FnOf(Top.id))[Top.at]
  BY DEF Instr, CodeOf
<1> QED BY <1>1, <1>3, <1>4, <1>5, <1>6, <1>7, <1>8, BeforeReturn

\* How a step changes the stack if the innermost call goes on.
LEMMA GoesOn ==
  ASSUME TypeInv, stack # <<>>, GoOn
  PROVE  /\ stack' \in Seq(CallSet) /\ Len(stack') = Len(stack) /\ Under(Len(stack))
         /\ stack'[Len(stack)].kind = Top.kind /\ stack'[Len(stack)].id = Top.id
         /\ stack'[Len(stack)].at = Top.at + 1
<1>1. [Top EXCEPT !.at = @ + 1] \in CallSet
  <2>1. Top \in CallSet
    BY TopFacts
  <2> HIDE DEF Top
  <2> QED BY <2>1 DEF CallSet
<1>2. PICK c \in CallSet : c = [Top EXCEPT !.at = @ + 1]
  BY <1>1
<1>3. c.kind = Top.kind /\ c.id = Top.id /\ c.at = Top.at + 1
  BY <1>2, TopFacts DEF CallSet
<1>4. stack' = Append(Front(stack), c) /\ stack \in Seq(CallSet)
  BY <1>2 DEF GoOn, Below, TypeInv
<1>5. /\ stack' \in Seq(CallSet) /\ Len(stack') = Len(stack)
      /\ stack'[Len(stack)] = c /\ \A i \in 1..(Len(stack) - 1) : stack'[i] = stack[i]
  BY <1>4, Replaced
<1>6. c.at >= Top.at
  BY <1>3, TopFacts DEF CallSet
<1> QED BY <1>3, <1>5, <1>6, TopFacts DEF Under

\* If it returns.
LEMMA Returned ==
  ASSUME TypeInv, stack # <<>>, stack' = Below
  PROVE  /\ stack' \in Seq(CallSet) /\ Len(stack') = Len(stack) - 1
         /\ Under(Len(stack) - 1)
         /\ \A k \in 1..(Len(stack) - 1) : stack'[k] = stack[k]
<1>1. /\ stack' \in Seq(CallSet) /\ Len(stack') = Len(stack) - 1
      /\ \A k \in 1..(Len(stack) - 1) : stack'[k] = stack[k] /\ stack[k] \in CallSet
  BY TopFacts, Indices
<1>2. \A k \in 1..(Len(stack) - 1) : stack'[k].at >= stack[k].at
  BY <1>1 DEF CallSet
<1> QED BY <1>1, <1>2, TopFacts DEF Under

\* If it makes a call.
LEMMA Called ==
  ASSUME TypeInv, NEW c \in CallSet, stack' = Append(stack, c)
  PROVE  /\ stack' \in Seq(CallSet) /\ Len(stack') = Len(stack) + 1 /\ Len(stack) \in Nat
         /\ Under(Len(stack)) /\ stack'[Len(stack) + 1] = c
         /\ \A k \in 1..Len(stack) : stack'[k] = stack[k]
<1>1. stack \in Seq(CallSet) /\ Len(stack) \in Nat
      /\ \A k \in 1..Len(stack) : stack[k] \in CallSet
  BY Indices DEF TypeInv
<1>2. /\ stack' \in Seq(CallSet) /\ Len(stack') = Len(stack) + 1
      /\ stack'[Len(stack) + 1] = c /\ \A k \in 1..Len(stack) : stack'[k] = stack[k]
  BY <1>1, Pushed
<1>3. \A k \in 1..Len(stack) : stack'[k].at >= stack[k].at
  BY <1>1, <1>2 DEF CallSet
<1> QED BY <1>1, <1>2, <1>3 DEF Under

\* Nothing happens to structs and calls.
LEMMA Stayed ==
  ASSUME TypeInv, UNCHANGED <<program, frames, stack>>,
         DOMAIN promises \subseteq DOMAIN promises',
         \A p \in DOMAIN promises : promises[p].resolved => promises'[p].resolved
  PROVE  Effect(Len(stack), 0) /\ Grows
<1>1. Len(stack) \in Nat /\ DOMAIN stack = 1..Len(stack)
      /\ \A k \in 1..Len(stack) : stack[k] \in CallSet
  BY Indices DEF TypeInv
<1>2. Under(Len(stack))
  <2>1. \A k \in 1..Len(stack) : stack[k].at >= stack[k].at
    BY <1>1 DEF CallSet
  <2> QED BY <1>1, <2>1 DEF Under
<1>3. Grows
  BY DEF Grows
<1>4. (Len(stack) + 1)..Len(stack) = {}
  BY <1>1
<1> QED BY <1>2, <1>3, <1>4 DEF Effect

\* A struct has one variable changed.
LEMMA Assigned ==
  ASSUME TypeInv, NEW id \in DOMAIN frames, NEW v \in Vars, NEW value \in Int,
         Assign(id, v, value)
  PROVE  /\ frames' \in Seq(FrameSet) /\ DOMAIN frames' = DOMAIN frames
         /\ \A g \in DOMAIN frames : g # id => frames'[g] = frames[g]
         /\ frames'[id].fn = frames[id].fn /\ frames'[id].state = frames[id].state
         /\ frames'[id].awaited = frames[id].awaited
         /\ frames'[id].freed = frames[id].freed
         /\ frames'[id].result = frames[id].result
         /\ \A w \in Vars : frames'[id].vars[w] = IF w = v THEN value
                                                  ELSE frames[id].vars[w]
<1>1. frames \in Seq(FrameSet) /\ DOMAIN frames = 1..Len(frames) /\ frames[id] \in FrameSet
  BY Indices DEF TypeInv
<1>2. PICK r \in FrameSet : r = [frames[id] EXCEPT !.vars = [@ EXCEPT ![v] = value]]
  BY <1>1 DEF FrameSet
<1>3. frames' = [frames EXCEPT ![id] = r]
  BY <1>2 DEF Assign
<1>4. frames' \in Seq(FrameSet) /\ DOMAIN frames' = DOMAIN frames
  BY <1>1, <1>3, ExceptSeq
<1>5. /\ \A g \in DOMAIN frames : g # id => frames'[g] = frames[g]
      /\ frames'[id] = r
  BY <1>3
<1>6. /\ r.fn = frames[id].fn /\ r.state = frames[id].state
      /\ r.awaited = frames[id].awaited /\ r.freed = frames[id].freed
      /\ r.result = frames[id].result
      /\ \A w \in Vars : r.vars[w] = IF w = v THEN value ELSE frames[id].vars[w]
  BY <1>1, <1>2 DEF FrameSet
<1> QED BY <1>4, <1>5, <1>6

\* libuv keeps what it has.
LEMMA OutsideKept ==
  ASSUME InRange, OutsideInv, Grows, UNCHANGED loopVars,
         \A p \in Outer : promises'[p].resolved = promises[p].resolved
  PROVE  OutsideInv'
<1>1. Outer \subseteq Outer'
  BY Grown
<1>2. UNCHANGED timers /\ UNCHANGED queued /\ UNCHANGED working /\ UNCHANGED finished
  BY DEF loopVars
<1>3. \A i \in DOMAIN timers' : /\ timers'[i].promise \in Outer'
                                /\ ~promises'[timers'[i].promise].resolved
  BY <1>1, <1>2 DEF OutsideInv
<1>4. \A p \in ToSet(queued') \cup working' \cup ToSet(finished') :
        p \in Outer' /\ ~promises'[p].resolved
  BY <1>1, <1>2 DEF OutsideInv
<1> QED BY <1>2, <1>3, <1>4 DEF OutsideInv

\* A promise stays due while what is to resolve it stays.
LEMMA DueKept ==
  ASSUME Grows, UNCHANGED loopVars, NEW p, Due(p),
         \A id \in DOMAIN frames :
           frames[id].result = p /\ ~frames[id].freed => ~frames'[id].freed
  PROVE  Due(p)'
BY DEF Due, Grows, loopVars

\* Instructions that go on to the next.
LEMMA GoneOn ==
  ASSUME ProcessInv, TypeInv', NEW ops, Moving(ops), GoOn, NEW x, x = Top.id,
         Grows, DOMAIN frames' = DOMAIN frames,
         \A g \in DOMAIN frames : g # x => frames'[g] = frames[g],
         frames'[x].state = frames[x].state, frames'[x].freed = frames[x].freed,
         \A p \in DOMAIN promises : promises'[p] = promises[p] /\ (Due(p) => Due(p)'),
         \A p \in DOMAIN promises' : \/ p \in DOMAIN promises
                                     \/ promises'[p] = Pending /\ Due(p)',
         Top.at + 1 \in Places(x)'
  PROVE  InRange' /\ StackInv' /\ PlaceInv' /\ WakeInv'
<1> USE DEF ProcessInv
<1> DEFINE n == Len(stack)
<1>1. /\ stack # <<>> /\ Top.kind = "move" /\ x \in DOMAIN frames /\ ~frames[x].freed
  BY MovingFacts
<1>2. /\ n \in Nat \ {0} /\ DOMAIN stack = 1..n /\ Top = stack[n]
  BY <1>1, TopFacts
<1>3. /\ Len(stack') = n /\ Under(n) /\ stack'[n].kind = "move" /\ stack'[n].id = x
      /\ stack'[n].at = Top.at + 1
  BY <1>1, GoesOn
<1>4. DOMAIN stack' = 1..n
  BY <1>3, Indices DEF TypeInv
<1> HIDE DEF n
<1>5. (n + 1)..Len(stack') = {} /\ (n + 1)..Len(stack) = {}
  BY <1>2, <1>3 DEF n
<1>6. Effect(n, x)
  BY <1>3, <1>5 DEF Effect
<1>7. InRange'
  <2>1. \A p \in DOMAIN promises' : \A i \in DOMAIN promises'[p].conts :
          promises'[p].conts[i] \in DOMAIN frames'
    BY DEF InRange, Pending
  <2> QED BY <1>3, <1>5, <2>1, RangeKept
<1>8. \A k \in DOMAIN stack : stack[k].kind = "move" /\ stack[k].id = x => k = n
  BY <1>1, <1>2 DEF StackInv
<1>9. StackInv'
  <2>1. \A k \in 1..n : stack[k].kind = "entry" /\ stack[k].id = x /\ frames'[x].freed =>
          frames'[x].state = 1
    BY <1>1
  <2> QED BY <1>5, <1>6, <2>1, StackKept
<1>10. OnStack("move", x)'
  BY <1>2, <1>3, <1>4 DEF OnStack
<1>11. PlaceInv'
  <2>1. \A k \in 1..n : stack[k].kind = "move" /\ stack[k].id # x =>
          stack'[k].at = stack[k].at
    <3>1. \A k \in 1..n : k \in 1..(n - 1) \/ k = n
      BY <1>2
    <3> QED BY <1>1, <1>2, <1>3, <3>1 DEF Under
  <2>2. \A k \in DOMAIN stack' : stack'[k].kind = "move" /\ stack'[k].id = x =>
          stack'[k].at \in Places(x)'
    <3>1. \A k \in DOMAIN stack' : stack'[k].kind = stack[k].kind /\ stack'[k].id = stack[k].id
      BY <1>3, <1>4, UnderFacts
    <3> QED BY <1>2, <1>3, <1>4, <1>8, <3>1
  <2>3. ~Suspended(x)'
    BY <1>10 DEF Suspended
  <2> QED BY <1>6, <2>1, <2>2, <2>3, PlaceKept
<1>12. ASSUME NEW p \in DOMAIN promises
       PROVE  Wakes(p)'
  <2>1. Wakes(p)
    BY DEF WakeInv
  <2>2. x \notin ToResume(p)
    <3>1. OnStack("move", x)
      BY <1>1, <1>2 DEF OnStack
    <3> QED BY <2>1, <3>1 DEF Wakes, Suspended
  <2>3. ~promises'[p].resolved => Due(p)'
    BY <2>1 DEF Wakes
  <2> QED BY <1>5, <1>6, <2>1, <2>2, <2>3, WakesKept
<1>13. WakeInv'
  BY <1>12, WakesNew DEF WakeInv
<1> QED BY <1>7, <1>9, <1>11, <1>13

\* Steps of moveNext that change its struct alone.
LEMMA ComputeStep == ASSUME ProcessInv, Compute PROVE ProcessInv'
<1> USE DEF ProcessInv
<1>1. PICK x \in DOMAIN frames : x = Top.id
  BY MovingFacts DEF Compute
<1>2. PICK instr \in Instrs : instr = Instr
  BY MovingFacts DEF Compute
<1>3. Moving({"let"}) /\ instr.op = "let" /\ instr.x \in Vars
  BY <1>2, MovingFacts DEF Compute, Instrs
<1>4. stack # <<>> /\ Top.at \in Places(x) /\ instr = Code(FnOf(x))[Top.at]
  BY <1>1, <1>2, <1>3, MovingFacts
<1>5. Assign(x, instr.x, Datum) /\ Datum \in Int
  BY <1>1, <1>2 DEF Compute, Datum
<1>6. GoOn /\ UNCHANGED <<program, stage, called, promises, loopVars>>
  BY DEF Compute
<1>7. /\ frames' \in Seq(FrameSet) /\ DOMAIN frames' = DOMAIN frames
      /\ \A g \in DOMAIN frames : g # x => frames'[g] = frames[g]
      /\ frames'[x].fn = frames[x].fn /\ frames'[x].state = frames[x].state
      /\ frames'[x].awaited = frames[x].awaited
      /\ frames'[x].freed = frames[x].freed
      /\ frames'[x].result = frames[x].result
      /\ \A w \in Vars : frames'[x].vars[w] = IF w = instr.x THEN Datum
                                              ELSE frames[x].vars[w]
  BY <1>3, <1>5, Assigned
<1>8. Grows
  BY <1>6, <1>7 DEF Grows
<1>9. stack' \in Seq(CallSet)
  BY <1>4, <1>6, GoesOn
<1>10. TypeInv'
  BY <1>6, <1>7, <1>9 DEF TypeInv, loopVars
<1>11. Top.at + 1 \in Places(x)'
  <2>1. \A v \in Vars : \/ frames'[x].vars[v] = frames[x].vars[v]
                        \/ Defines(instr, v) /\ instr.op # "phi"
    BY <1>3, <1>7 DEF Defines, Defining
  <2> QED BY <1>3, <1>4, <1>8, <2>1, Advances
<1>12. InRange' /\ StackInv' /\ PlaceInv' /\ WakeInv'
  <2>1. \A p \in DOMAIN promises : Due(p) => Due(p)'
    BY <1>6, <1>7, <1>8, DueKept
  <2>2. /\ \A p \in DOMAIN promises : promises'[p] = promises[p] /\ (Due(p) => Due(p)')
        /\ \A p \in DOMAIN promises' : \/ p \in DOMAIN promises
                                       \/ promises'[p] = Pending /\ Due(p)'
    BY <1>6, <2>1
  <2> HIDE DEF ProcessInv
  <2> QED BY <1>1, <1>3, <1>6, <1>7, <1>8, <1>10, <1>11, <2>2, GoneOn
<1>13. OutsideInv'
  BY <1>6, <1>8, OutsideKept
<1>14. StageInv'
  BY <1>6 DEF StageInv, Compute, Moving
<1> QED BY <1>10, <1>12, <1>13, <1>14

LEMMA PassOverStep == ASSUME ProcessInv, PassOver PROVE ProcessInv'
<1> USE DEF ProcessInv
<1>1. PICK x \in DOMAIN frames : x = Top.id
  BY MovingFacts DEF PassOver
<1>2. PICK instr \in Instrs : instr = Instr
  BY MovingFacts DEF PassOver
<1>3. Moving({"log", "branch", "jump", "phi"}) /\ instr.op \in {"log", "branch", "jump", "phi"}
  BY <1>2, MovingFacts DEF PassOver
<1>4. stack # <<>> /\ Top.at \in Places(x) /\ instr = Code(FnOf(x))[Top.at]
  BY <1>1, <1>2, <1>3, MovingFacts
<1>5. GoOn /\ UNCHANGED <<program, stage, called, frames, promises, loopVars>>
  BY DEF PassOver
<1>6. Grows
  BY <1>5 DEF Grows
<1>7. stack' \in Seq(CallSet)
  BY <1>4, <1>5, GoesOn
<1>8. TypeInv'
  BY <1>5, <1>7 DEF TypeInv, loopVars
<1>9. Top.at + 1 \in Places(x)'
  <2>1. \A v \in Vars : frames'[x].vars[v] = frames[x].vars[v]
    BY <1>5
  <2> QED BY <1>3, <1>4, <1>6, <2>1, Advances
<1>10. InRange' /\ StackInv' /\ PlaceInv' /\ WakeInv'
  <2>1. \A p \in DOMAIN promises : Due(p) => Due(p)'
    BY <1>5, <1>6, DueKept
  <2>2. /\ \A p \in DOMAIN promises : promises'[p] = promises[p] /\ (Due(p) => Due(p)')
        /\ \A p \in DOMAIN promises' : \/ p \in DOMAIN promises
                                       \/ promises'[p] = Pending /\ Due(p)'
    BY <1>5, <2>1
  <2>3. /\ DOMAIN frames' = DOMAIN frames
        /\ \A g \in DOMAIN frames : g # x => frames'[g] = frames[g]
        /\ frames'[x].state = frames[x].state /\ frames'[x].freed = frames[x].freed
    BY <1>5
  <2> HIDE DEF ProcessInv
  <2> QED BY <1>1, <1>3, <1>5, <1>6, <1>8, <1>9, <2>2, <2>3, GoneOn
<1>11. OutsideInv'
  BY <1>5, <1>6, OutsideKept
<1>12. StageInv'
  BY <1>5 DEF StageInv, PassOver, Moving
<1> QED BY <1>8, <1>10, <1>11, <1>12

\* A promise is made.
LEMMA NewPromise ==
  ASSUME TypeInv, promises' = Append(promises, Pending), NEW a, a = Len(promises) + 1
  PROVE  /\ promises' \in Seq(PromiseSet) /\ a \in Nat \ {0} /\ a \notin DOMAIN promises
         /\ DOMAIN promises' = DOMAIN promises \cup {a} /\ promises'[a] = Pending
         /\ \A p \in DOMAIN promises : promises'[p] = promises[p]
<1>1. Pending \in PromiseSet
  BY EmptySeq DEF Pending, PromiseSet
<1>2. promises \in Seq(PromiseSet) /\ Len(promises) \in Nat
      /\ DOMAIN promises = 1..Len(promises)
  BY Indices DEF TypeInv
<1>3. /\ promises' \in Seq(PromiseSet) /\ Len(promises') = Len(promises) + 1
      /\ promises'[Len(promises) + 1] = Pending
      /\ \A p \in 1..Len(promises) : promises'[p] = promises[p]
  BY <1>1, <1>2, Pushed
<1>4. DOMAIN promises' = 1..(Len(promises) + 1)
  BY <1>3, Indices
<1>5. 1..(Len(promises) + 1) = 1..Len(promises) \cup {Len(promises) + 1}
      /\ Len(promises) + 1 \notin 1..Len(promises)
  BY <1>2
<1> QED BY <1>2, <1>3, <1>4, <1>5

\* A promise of libuv is kept in a variable.
LEMMA ApiFacts ==
  ASSUME ProcessInv, NEW ops \in SUBSET {"timer", "work"}, Moving(ops), GoOn,
         promises' = Append(promises, Pending), program' = program,
         Assign(Top.id, Instr.x, Len(promises) + 1),
         NEW a, a = Len(promises) + 1
  PROVE  /\ a \in Outer' /\ Outer \subseteq Outer' /\ a \notin DOMAIN promises
         /\ \A p \in DOMAIN promises : promises'[p] = promises[p]
         /\ promises'[a] = Pending /\ a \in Nat
         /\ promises' \in Seq(PromiseSet) /\ frames' \in Seq(FrameSet)
         /\ stack' \in Seq(CallSet)
         /\ Grows /\ \A id \in DOMAIN frames : frames'[id].freed = frames[id].freed
         /\ TypeInv' /\ Due(a)' /\ (\A p \in DOMAIN promises : Due(p) => Due(p)')
            => InRange' /\ StackInv' /\ PlaceInv' /\ WakeInv'
<1> USE DEF ProcessInv
<1>1. PICK x \in DOMAIN frames : x = Top.id
  BY MovingFacts
<1>2. PICK instr \in Instrs : instr = Instr
  BY MovingFacts
<1>3. instr.op \in {"timer", "work"} /\ instr.x \in Vars
  BY <1>2, MovingFacts DEF Instrs
<1>4. stack # <<>> /\ Top.at \in Places(x) /\ instr = Code(FnOf(x))[Top.at]
  BY <1>1, <1>2, MovingFacts
<1>5. /\ promises' \in Seq(PromiseSet) /\ a \in Nat \ {0} /\ a \notin DOMAIN promises
      /\ DOMAIN promises' = DOMAIN promises \cup {a} /\ promises'[a] = Pending
      /\ \A p \in DOMAIN promises : promises'[p] = promises[p]
  BY NewPromise
<1>6. Assign(x, instr.x, a) /\ a \in Int
  BY <1>1, <1>2, <1>5
<1>7. /\ frames' \in Seq(FrameSet) /\ DOMAIN frames' = DOMAIN frames
      /\ \A g \in DOMAIN frames : g # x => frames'[g] = frames[g]
      /\ frames'[x].fn = frames[x].fn /\ frames'[x].state = frames[x].state
      /\ frames'[x].awaited = frames[x].awaited
      /\ frames'[x].freed = frames[x].freed
      /\ frames'[x].result = frames[x].result
      /\ \A w \in Vars : frames'[x].vars[w] = IF w = instr.x THEN a
                                              ELSE frames[x].vars[w]
  BY <1>3, <1>6, Assigned
<1>8. Grows
  BY <1>5, <1>7 DEF Grows
<1>9. a \in Outer'
  <2>1. \A g \in DOMAIN frames : frames[g].result # a
    BY <1>5 DEF InRange
  <2>2. \A g \in DOMAIN frames' : frames'[g].result # a
    BY <1>7, <2>1
  <2> QED BY <1>5, <2>2 DEF Outer
<1>10. stack' \in Seq(CallSet)
  BY <1>4, GoesOn
<1>11. Top.at + 1 \in Places(x)'
  <2>1. \A v \in Vars : \/ frames'[x].vars[v] = frames[x].vars[v]
                        \/ Defines(instr, v) /\ instr.op # "phi"
    BY <1>3, <1>7 DEF Defines, Defining
  <2>2. frames'[x].vars[instr.x] \in Outer'
    BY <1>3, <1>7, <1>9
  <2> QED BY <1>3, <1>4, <1>8, <2>1, <2>2, Advances
<1>12. ASSUME TypeInv', Due(a)', \A p \in DOMAIN promises : Due(p) => Due(p)'
       PROVE  InRange' /\ StackInv' /\ PlaceInv' /\ WakeInv'
  <2>1. /\ \A p \in DOMAIN promises : promises'[p] = promises[p] /\ (Due(p) => Due(p)')
        /\ \A p \in DOMAIN promises' : \/ p \in DOMAIN promises
                                       \/ promises'[p] = Pending /\ Due(p)'
    BY <1>5, <1>12
  <2> HIDE DEF ProcessInv
  <2> QED BY <1>1, <1>7, <1>8, <1>11, <1>12, <2>1, GoneOn
<1>13. Outer \subseteq Outer'
  BY <1>8, Grown
<1> QED BY <1>5, <1>7, <1>8, <1>9, <1>10, <1>12, <1>13

\* libuv takes the new promise.
LEMMA StartTimerStep == ASSUME ProcessInv, StartTimer PROVE ProcessInv'
<1> USE DEF ProcessInv
<1>a. Len(promises) \in Nat
  BY Indices DEF TypeInv
<1>b. PICK a \in Nat : a = Len(promises) + 1
  BY <1>a
<1> DEFINE t == [promise |-> a, ms |-> Instr.fn]
<1>1. /\ Moving({"timer"}) /\ GoOn /\ promises' = Append(promises, Pending)
      /\ Assign(Top.id, Instr.x, a) /\ timers' = Append(timers, t)
      /\ UNCHANGED <<program, stage, called, queued, working, finished>>
  BY <1>b DEF StartTimer
<1>2. /\ a \in Outer' /\ Outer \subseteq Outer' /\ a \notin DOMAIN promises
      /\ \A p \in DOMAIN promises : promises'[p] = promises[p]
      /\ promises'[a] = Pending /\ a \in Nat
      /\ promises' \in Seq(PromiseSet) /\ frames' \in Seq(FrameSet)
      /\ stack' \in Seq(CallSet)
      /\ Grows /\ \A id \in DOMAIN frames : frames'[id].freed = frames[id].freed
      /\ TypeInv' /\ Due(a)' /\ (\A p \in DOMAIN promises : Due(p) => Due(p)')
         => InRange' /\ StackInv' /\ PlaceInv' /\ WakeInv'
  <2>1. {"timer"} \in SUBSET {"timer", "work"}
    OBVIOUS
  <2> HIDE DEF ProcessInv
  <2> QED BY <1>b, <1>1, <2>1, ApiFacts
<1>3. t \in TimerSet /\ t.promise = a
  BY <1>1, <1>2, MovingFacts DEF TimerSet, Instrs
<1> HIDE DEF t
<1>4. timers \in Seq(TimerSet) /\ Len(timers) \in Nat /\ DOMAIN timers = 1..Len(timers)
  BY Indices DEF TypeInv
<1>5. /\ timers' \in Seq(TimerSet) /\ Len(timers') = Len(timers) + 1
      /\ \A i \in 1..Len(timers) : timers'[i] = timers[i]
      /\ timers'[Len(timers) + 1] = t
  BY <1>1, <1>3, <1>4, Pushed
<1>6. DOMAIN timers' = 1..(Len(timers) + 1)
  BY <1>5, Indices
<1>7. \A i \in DOMAIN timers' : i \in DOMAIN timers \/ i = Len(timers) + 1
  BY <1>4, <1>6
<1>8. \A i \in DOMAIN timers : i \in DOMAIN timers' /\ timers'[i] = timers[i]
  BY <1>4, <1>5, <1>6
<1>9. Len(timers) + 1 \in DOMAIN timers'
  BY <1>4, <1>6
<1>10. TypeInv'
  BY <1>1, <1>2, <1>5 DEF TypeInv
<1>11. Due(a)' /\ \A p \in DOMAIN promises : Due(p) => Due(p)'
  <2>1. Due(a)'
    BY <1>3, <1>5, <1>9 DEF Due
  <2>2. \A p \in DOMAIN promises : Due(p) => Due(p)'
    BY <1>1, <1>2, <1>8 DEF Due, Grows
  <2> QED BY <2>1, <2>2
<1>12. OutsideInv'
  <2>1. \A i \in DOMAIN timers' :
          /\ timers'[i].promise \in Outer' /\ ~promises'[timers'[i].promise].resolved
          /\ timers'[i].promise \notin ToSet(queued) \cup working \cup ToSet(finished)
    <3>1. ASSUME NEW i \in DOMAIN timers
          PROVE  /\ timers'[i].promise \in Outer'
                 /\ ~promises'[timers'[i].promise].resolved
                 /\ timers'[i].promise \notin ToSet(queued) \cup working \cup ToSet(finished)
      BY <1>2, <1>8 DEF OutsideInv, Outer
    <3>2. a \notin ToSet(queued) \cup working \cup ToSet(finished)
      BY <1>2 DEF OutsideInv, Outer
    <3>3. ~promises'[a].resolved
      BY <1>2 DEF Pending
    <3> QED BY <1>2, <1>3, <1>5, <1>7, <3>1, <3>2, <3>3
  <2>2. \A p \in ToSet(queued) \cup working \cup ToSet(finished) :
          p \in Outer' /\ ~promises'[p].resolved
    BY <1>2 DEF OutsideInv, Outer
  <2>3. ASSUME NEW i \in DOMAIN timers', NEW j \in DOMAIN timers',
               timers'[i].promise = timers'[j].promise
        PROVE  i = j
    <3>1. \A k \in DOMAIN timers : timers'[k].promise # a
      BY <1>2, <1>8 DEF OutsideInv, Outer
    <3>2. CASE i \in DOMAIN timers /\ j \in DOMAIN timers
      BY <1>8, <2>3, <3>2 DEF OutsideInv
    <3> QED BY <1>3, <1>5, <1>7, <2>3, <3>1, <3>2
  <2> QED BY <1>1, <2>1, <2>2, <2>3 DEF OutsideInv
<1>13. StageInv'
  BY <1>1 DEF StageInv, Moving
<1> QED BY <1>2, <1>10, <1>11, <1>12, <1>13

\* A queue without duplicates gets and loses an element.
LEMMA Queued ==
  ASSUME NEW s \in Seq(Nat), NEW e \in Nat, Distinct(s), e \notin ToSet(s)
  PROVE  /\ Append(s, e) \in Seq(Nat) /\ Distinct(Append(s, e))
         /\ ToSet(Append(s, e)) = ToSet(s) \cup {e}
<1>1. PICK n \in Nat : n = Len(s) /\ DOMAIN s = 1..n
  BY LenProperties
<1>2. /\ Append(s, e) \in Seq(Nat) /\ Len(Append(s, e)) = n + 1
      /\ \A i \in 1..n : Append(s, e)[i] = s[i]
      /\ Append(s, e)[n + 1] = e
  BY <1>1, Pushed
<1>3. DOMAIN Append(s, e) = 1..(n + 1)
  BY <1>2, LenProperties
<1>4. \A i \in 1..(n + 1) : i \in 1..n \/ i = n + 1
  OBVIOUS
<1>5. n + 1 \in 1..(n + 1) /\ \A i \in 1..n : i \in 1..(n + 1)
  OBVIOUS
<1>6. Distinct(Append(s, e))
  BY <1>1, <1>2, <1>3, <1>4 DEF Distinct, ToSet
<1>7. ToSet(Append(s, e)) = ToSet(s) \cup {e}
  BY <1>1, <1>2, <1>3, <1>4, <1>5 DEF ToSet
<1> QED BY <1>2, <1>6, <1>7

LEMMA Unqueued ==
  ASSUME NEW s \in Seq(Nat), s # <<>>, Distinct(s)
  PROVE  /\ Tail(s) \in Seq(Nat) /\ Distinct(Tail(s)) /\ Head(s) \in Nat
         /\ ToSet(s) = ToSet(Tail(s)) \cup {Head(s)} /\ Head(s) \notin ToSet(Tail(s))
<1>1. PICK n \in Nat \ {0} : n = Len(s) /\ DOMAIN s = 1..n
  BY LenProperties, EmptySeq
<1>2. /\ Tail(s) \in Seq(Nat) /\ Head(s) \in Nat /\ Len(Tail(s)) = n - 1
      /\ \A i \in 1..(n - 1) : Tail(s)[i] = s[i + 1]
  BY <1>1, HeadTailProperties
<1>3. DOMAIN Tail(s) = 1..(n - 1)
  BY <1>2, LenProperties
<1>4. Head(s) = s[1]
  BY <1>1
<1>5. \A i \in 1..(n - 1) : i + 1 \in 1..n /\ i + 1 # 1
  BY <1>1
<1>6. \A i \in 1..n : i = 1 \/ (i - 1 \in 1..(n - 1) /\ (i - 1) + 1 = i)
  BY <1>1
<1>7. Distinct(Tail(s))
  <2> SUFFICES ASSUME NEW i \in 1..(n - 1), NEW j \in 1..(n - 1), Tail(s)[i] = Tail(s)[j]
               PROVE  i = j
    BY <1>3 DEF Distinct
  <2>1. i + 1 = j + 1
    BY <1>1, <1>2, <1>5 DEF Distinct
  <2> QED BY <2>1
<1>8. Head(s) \notin ToSet(Tail(s))
  <2>0. 1 \in 1..n
    BY <1>1
  <2>1. \A i \in 1..(n - 1) : Tail(s)[i] # s[1]
    BY <1>1, <1>2, <1>5, <2>0 DEF Distinct
  <2> QED BY <1>3, <1>4, <2>1 DEF ToSet
<1>9. ToSet(s) = ToSet(Tail(s)) \cup {Head(s)}
  <2>1. \A i \in 1..(n - 1) : Tail(s)[i] \in ToSet(s)
    BY <1>1, <1>2, <1>5 DEF ToSet
  <2>2. Head(s) \in ToSet(s)
    <3>1. 1 \in 1..n
      BY <1>1
    <3> QED BY <1>1, <1>4, <3>1 DEF ToSet
  <2>3. \A i \in 1..n : s[i] = Head(s) \/ s[i] \in ToSet(Tail(s))
    <3>1. \A i \in 1..(n - 1) : s[i + 1] \in ToSet(Tail(s))
      BY <1>2, <1>3 DEF ToSet
    <3> QED BY <1>4, <1>6, <3>1
  <2>4. ToSet(Tail(s)) \subseteq ToSet(s)
    BY <1>3, <2>1 DEF ToSet
  <2>5. ToSet(s) \subseteq ToSet(Tail(s)) \cup {Head(s)}
    BY <1>1, <2>3 DEF ToSet
  <2> QED BY <2>2, <2>4, <2>5
<1> QED BY <1>2, <1>7, <1>8, <1>9

LEMMA QueueWorkStep == ASSUME ProcessInv, QueueWork PROVE ProcessInv'
<1> USE DEF ProcessInv
<1>a. Len(promises) \in Nat
  BY Indices DEF TypeInv
<1>b. PICK a \in Nat : a = Len(promises) + 1
  BY <1>a
<1>1. /\ Moving({"work"}) /\ GoOn /\ promises' = Append(promises, Pending)
      /\ Assign(Top.id, Instr.x, a) /\ queued' = Append(queued, a)
      /\ UNCHANGED <<program, stage, called, timers, working, finished>>
  BY <1>b DEF QueueWork
<1>2. /\ a \in Outer' /\ Outer \subseteq Outer' /\ a \notin DOMAIN promises
      /\ \A p \in DOMAIN promises : promises'[p] = promises[p]
      /\ promises'[a] = Pending /\ a \in Nat
      /\ promises' \in Seq(PromiseSet) /\ frames' \in Seq(FrameSet)
      /\ stack' \in Seq(CallSet)
      /\ Grows /\ \A id \in DOMAIN frames : frames'[id].freed = frames[id].freed
      /\ TypeInv' /\ Due(a)' /\ (\A p \in DOMAIN promises : Due(p) => Due(p)')
         => InRange' /\ StackInv' /\ PlaceInv' /\ WakeInv'
  <2>1. {"work"} \in SUBSET {"timer", "work"}
    OBVIOUS
  <2> HIDE DEF ProcessInv
  <2> QED BY <1>b, <1>1, <2>1, ApiFacts
<1>3. /\ \A i \in DOMAIN timers : timers[i].promise # a
      /\ a \notin ToSet(queued) \cup working \cup ToSet(finished)
  BY <1>2 DEF OutsideInv, Outer
<1>4. /\ queued' \in Seq(Nat) /\ Distinct(queued')
      /\ ToSet(queued') = ToSet(queued) \cup {a}
  BY <1>1, <1>3, Queued DEF TypeInv, OutsideInv
<1>5. TypeInv'
  BY <1>1, <1>2, <1>4 DEF TypeInv
<1>6. Due(a)' /\ \A p \in DOMAIN promises : Due(p) => Due(p)'
  BY <1>1, <1>2, <1>4 DEF Due, Grows
<1>7. OutsideInv'
  <2>1. \A p \in Outer : p # a /\ p \in Outer' /\ promises'[p] = promises[p]
    BY <1>2 DEF Outer
  <2>2. ~promises'[a].resolved
    BY <1>2 DEF Pending
  <2> QED BY <1>1, <1>2, <1>3, <1>4, <2>1, <2>2 DEF OutsideInv
<1>8. StageInv'
  BY <1>1 DEF StageInv, Moving
<1> QED BY <1>2, <1>5, <1>6, <1>7, <1>8

-----------------------------------------------------------------------------
(* An await                                                                 *)

\* What is awaited is a promise that is resolved without this struct, unless a
\* branch chose it or it was read from a struct after free.
LEMMA AwaitedValue ==
  ASSUME ProcessInv, Moving({"await"})
  PROVE  /\ Awaited \in DOMAIN promises => Awaited \in Later(Top.id)
         /\ Awaited \notin DOMAIN promises => ReadsUnknown(program, Chosen) \/ Quick
<1> USE DEF ProcessInv
<1>1. PICK x \in DOMAIN frames : x = Top.id
  BY MovingFacts
<1>2. PICK instr \in Instrs : instr = Instr /\ instr.op = "await"
  BY MovingFacts
<1>3. /\ Top.at \in Places(x) /\ Top.at \in DOMAIN Flat(FnOf(x))
      /\ Flat(FnOf(x))[Top.at] = instr /\ Compiles(program)
  BY <1>1, <1>2, MovingFacts
<1>4. FnOf(x) \in Functions /\ WellTyped(program, FnOf(x))
  BY FunctionOK
<1>5. Len(instr.args) = 1 /\ instr.args[1] \in Promised(FnOf(x))
  BY <1>2, <1>3, <1>4 DEF WellTyped
<1>6. PICK v \in Vars : v = instr.args[1] /\ v \in ToSet(instr.args)
  <2>1. instr.args \in Seq(Vars)
    BY DEF Instrs
  <2> QED BY <1>5, <2>1, Indices DEF ToSet
<1>7. Reads(Flat(FnOf(x))[Top.at], v)
  BY <1>2, <1>3, <1>6 DEF Reads, Uses
<1>8. Awaited = frames[x].vars[v]
  BY <1>1, <1>2, <1>6 DEF Awaited
<1>9. \/ Awaited \in Outer
      \/ Awaited = Garbage /\ Quick
      \/ Awaited \in Later(x)
      \/ Awaited = Zero /\ ReadsUnknown(program, Chosen)
  <2>1. \/ v \in ApiPromises(FnOf(x)) \/ v \in Results(FnOf(x), {"call"})
        \/ v \in Chosen(FnOf(x))
    BY <1>5, <1>6 DEF Promised, Results, Chosen
  <2> QED BY <1>3, <1>7, <1>8, <2>1, ReadValue
<1>10. Garbage \notin DOMAIN promises /\ Zero \notin DOMAIN promises
  <2>1. DOMAIN promises = 1..Len(promises) /\ Len(promises) \in Nat
    BY Indices DEF TypeInv
  <2> QED BY <2>1 DEF Garbage, Zero
<1>11. Outer \subseteq Later(x) /\ Later(x) \subseteq DOMAIN promises
  BY DEF Outer, Later
<1> QED BY <1>1, <1>9, <1>10, <1>11

\* A struct is replaced.
LEMMA Changed ==
  ASSUME TypeInv, NEW id \in DOMAIN frames, NEW r \in FrameSet,
         frames' = [frames EXCEPT ![id] = r]
  PROVE  /\ frames' \in Seq(FrameSet) /\ DOMAIN frames' = DOMAIN frames
         /\ \A g \in DOMAIN frames : g # id => frames'[g] = frames[g]
         /\ frames'[id] = r
<1>1. frames \in Seq(FrameSet) /\ DOMAIN frames = 1..Len(frames)
  BY Indices DEF TypeInv
<1> QED BY <1>1, ExceptSeq

\* What an await leaves in the struct, and what its resumption adds.
LEMMA KeptFacts ==
  ASSUME TypeInv, NEW id \in DOMAIN frames
  PROVE  /\ Kept(id) \in [Vars -> Int]
         /\ \A v \in Vars : Kept(id)[v] = IF v \in Fields(FnOf(id))
                                          THEN frames[id].vars[v] ELSE Zero
<1>1. frames[id] \in FrameSet
  BY Indices DEF TypeInv
<1>2. frames[id].vars \in [Vars -> Int] /\ Zero \in Int
  BY <1>1 DEF FrameSet, Zero
<1> QED BY <1>2 DEF Kept

LEMMA ExtractFacts ==
  ASSUME NEW await \in Instrs, NEW kept \in [Vars -> Int]
  PROVE  /\ Extract(await, kept) \in [Vars -> Int]
         /\ \A v \in Vars : v # await.x => Extract(await, kept)[v] = kept[v]
BY DEF Extract, Datum, Instrs

\* The two ways an await goes on.
LEMMA AwaitResolvedStep == ASSUME ProcessInv, AwaitResolved PROVE ProcessInv'
<1> USE DEF ProcessInv
<1>1. PICK x \in DOMAIN frames : x = Top.id
  BY MovingFacts DEF AwaitResolved
<1>2. PICK instr \in Instrs : instr = Instr /\ instr.op = "await"
  BY MovingFacts DEF AwaitResolved
<1>3. /\ Moving({"await"}) /\ GoOn /\ Awaited \in DOMAIN promises
      /\ UNCHANGED <<program, stage, called, promises, loopVars>>
      /\ frames' = [frames EXCEPT ![x].awaited = Awaited,
                                  ![x].vars = Extract(instr, Kept(x))]
  BY <1>1, <1>2 DEF AwaitResolved
<1>4. stack # <<>> /\ Top.at \in Places(x) /\ instr = Code(FnOf(x))[Top.at]
  BY <1>1, <1>2, <1>3, MovingFacts
<1>5. PICK a \in Nat : a = Awaited
  <2>1. DOMAIN promises = 1..Len(promises) /\ Len(promises) \in Nat
    BY Indices DEF TypeInv
  <2> QED BY <1>3, <2>1
<1>6. PICK vars_ \in [Vars -> Int] :
        /\ vars_ = Extract(instr, Kept(x))
        /\ \A v \in Vars : \/ vars_[v] = frames[x].vars[v]
                           \/ Defines(instr, v)
                           \/ v \notin Fields(FnOf(x)) /\ vars_[v] = Zero
  <2>1. instr.op \in Defining
    BY <1>2 DEF Defining
  <2> QED BY <2>1, KeptFacts, ExtractFacts DEF Defines
<1>7. frames[x] \in FrameSet
  BY Indices DEF TypeInv
<1>8. PICK r \in FrameSet : r = [frames[x] EXCEPT !.awaited = a, !.vars = vars_]
  BY <1>7 DEF FrameSet
<1>9. frames' = [frames EXCEPT ![x] = r]
  BY <1>3, <1>5, <1>6, <1>8
<1>10. /\ r.fn = frames[x].fn /\ r.state = frames[x].state /\ r.vars = vars_
       /\ r.freed = frames[x].freed /\ r.result = frames[x].result
  BY <1>7, <1>8 DEF FrameSet
<1>11. /\ frames' \in Seq(FrameSet) /\ DOMAIN frames' = DOMAIN frames
       /\ \A g \in DOMAIN frames : g # x => frames'[g] = frames[g]
       /\ frames'[x] = r
  BY <1>9, Changed
<1>12. Grows
  BY <1>3, <1>10, <1>11 DEF Grows
<1>13. stack' \in Seq(CallSet)
  BY <1>3, <1>4, GoesOn
<1>14. TypeInv'
  BY <1>3, <1>11, <1>13 DEF TypeInv, loopVars
<1>15. Top.at + 1 \in Places(x)'
  <2>1. \A v \in Vars :
          \/ frames'[x].vars[v] = frames[x].vars[v]
          \/ Defines(instr, v) /\ instr.op # "phi"
          \/ /\ instr.op = "await" /\ v \notin Fields(FnOf(x))
             /\ frames'[x].vars[v] = Zero
    BY <1>2, <1>6, <1>10, <1>11
  <2> QED BY <1>2, <1>4, <1>12, <2>1, Advances
<1>16. InRange' /\ StackInv' /\ PlaceInv' /\ WakeInv'
  <2>1. \A id \in DOMAIN frames : frames'[id].freed = frames[id].freed
    BY <1>10, <1>11
  <2>2. \A p \in DOMAIN promises : Due(p) => Due(p)'
    BY <1>3, <1>12, <2>1, DueKept
  <2>3. /\ \A p \in DOMAIN promises : promises'[p] = promises[p] /\ (Due(p) => Due(p)')
        /\ \A p \in DOMAIN promises' : \/ p \in DOMAIN promises
                                       \/ promises'[p] = Pending /\ Due(p)'
    BY <1>3, <2>2
  <2>4. frames'[x].state = frames[x].state /\ frames'[x].freed = frames[x].freed
    BY <1>10, <1>11
  <2> HIDE DEF ProcessInv
  <2> QED BY <1>1, <1>3, <1>11, <1>12, <1>14, <1>15, <2>3, <2>4, GoneOn
<1>17. OutsideInv'
  BY <1>3, <1>12, OutsideKept
<1>18. StageInv'
  BY <1>3 DEF StageInv, Moving
<1> QED BY <1>14, <1>16, <1>17, <1>18

LEMMA AwaitPendingStep == ASSUME ProcessInv, AwaitPending PROVE ProcessInv'
<1> USE DEF ProcessInv
<1> DEFINE n == Len(stack)
           m == n - 1
<1>1. PICK x \in DOMAIN frames : x = Top.id
  BY MovingFacts DEF AwaitPending
<1>2. PICK instr \in Instrs : instr = Instr /\ instr.op = "await"
  BY MovingFacts DEF AwaitPending
<1>3. /\ Moving({"await"}) /\ Awaited \in DOMAIN promises
      /\ ~promises[Awaited].resolved /\ Then(Awaited, x) /\ stack' = Below
      /\ UNCHANGED <<program, stage, called, loopVars>>
      /\ frames' = [frames EXCEPT ![x].awaited = Awaited, ![x].state = Top.at + 1,
                                  ![x].vars = Kept(x)]
  BY <1>1 DEF AwaitPending
<1>4. /\ stack # <<>> /\ Top.kind = "move" /\ Top.at \in Places(x)
      /\ instr = Code(FnOf(x))[Top.at] /\ ~frames[x].freed
      /\ Awaited \in Later(x)
  BY <1>1, <1>2, <1>3, MovingFacts, AwaitedValue
<1>5. /\ n \in Nat \ {0} /\ DOMAIN stack = 1..n /\ Top = stack[n]
  BY <1>4, TopFacts
<1>6. /\ stack' \in Seq(CallSet) /\ Len(stack') = m /\ Under(m)
      /\ \A k \in 1..m : stack'[k] = stack[k]
  BY <1>3, <1>4, Returned
<1>7. DOMAIN stack' = 1..m
  BY <1>6, Indices
<1> HIDE DEF m
<1>8. /\ m \in Nat /\ m + 1 = n /\ (m + 1)..Len(stack') = {}
      /\ n \in DOMAIN stack /\ \A k \in 1..m : k \in DOMAIN stack /\ k # n
      /\ \A k \in (m + 1)..Len(stack) : k = n
  <2>1. m \in Nat /\ m + 1 = n /\ n \in Nat
    BY <1>5 DEF m
  <2>2. (m + 1)..Len(stack') = {}
    <3>1. (m + 1)..m = {}
      BY <2>1
    <3> QED BY <1>6, <3>1
  <2>3. \A k \in (m + 1)..n : k = n
    BY <2>1
  <2>4. n \in 1..n /\ \A k \in 1..m : k \in 1..n /\ k # n
    BY <2>1
  <2> QED BY <1>5, <2>1, <2>2, <2>3, <2>4
<1>9. PICK a \in DOMAIN promises : a = Awaited
  BY <1>3
<1>10. PICK at \in Nat : at = Top.at + 1 /\ at - 1 = Top.at /\ at > 1
  <2>1. Top.at \in Nat \ {0}
    BY <1>4 DEF Places
  <2>2. Top.at + 1 \in Nat /\ (Top.at + 1) - 1 = Top.at /\ Top.at + 1 > 1
    BY <2>1
  <2> QED BY <2>2
<1>11. promises[a] \in PromiseSet /\ a \in Nat
  BY Indices DEF TypeInv
<1>12. frames[x] \in FrameSet
  BY Indices DEF TypeInv
<1>13. PICK kept \in [Vars -> Int] : kept = Kept(x)
  BY KeptFacts
<1>14. PICK r \in FrameSet :
         r = [frames[x] EXCEPT !.awaited = a, !.state = at, !.vars = kept]
  BY <1>11, <1>12 DEF FrameSet
<1>15. frames' = [frames EXCEPT ![x] = r]
  BY <1>3, <1>9, <1>10, <1>13, <1>14
<1>16. /\ r.fn = frames[x].fn /\ r.state = at /\ r.vars = kept /\ r.awaited = a
       /\ r.freed = frames[x].freed /\ r.result = frames[x].result
  BY <1>12, <1>14 DEF FrameSet
<1>17. /\ frames' \in Seq(FrameSet) /\ DOMAIN frames' = DOMAIN frames
       /\ \A g \in DOMAIN frames : g # x => frames'[g] = frames[g]
       /\ frames'[x] = r
  BY <1>15, Changed
<1>18. /\ promises' \in Seq(PromiseSet) /\ DOMAIN promises' = DOMAIN promises
       /\ \A p \in DOMAIN promises : promises'[p].resolved = promises[p].resolved
       /\ \A p \in DOMAIN promises : p # a => promises'[p] = promises[p]
       /\ \/ promises'[a].conts = promises[a].conts
          \/ promises'[a].conts = Append(promises[a].conts, x)
  <2>1. promises \in Seq(PromiseSet)
    BY DEF TypeInv
  <2>2. CASE Len(promises[a].conts) < MaxConts
    <3>1. x \in Nat
      BY Indices DEF TypeInv
    <3>2. promises[a].conts \in Seq(Nat)
      BY <1>11 DEF PromiseSet
    <3>3. Append(promises[a].conts, x) \in Seq(Nat)
      BY <3>1, <3>2, Pushed
    <3>4. PICK q \in PromiseSet :
            q = [promises[a] EXCEPT !.conts = Append(promises[a].conts, x)]
      BY <1>11, <3>3 DEF PromiseSet
    <3>5. promises' = [promises EXCEPT ![a] = q]
      BY <1>3, <1>9, <2>2, <3>4 DEF Then
    <3>6. q.resolved = promises[a].resolved /\ q.conts = Append(promises[a].conts, x)
      BY <1>11, <3>4 DEF PromiseSet
    <3>7. DOMAIN promises = 1..Len(promises)
      BY <2>1, Indices
    <3>8. promises' \in Seq(PromiseSet) /\ DOMAIN promises' = DOMAIN promises
      BY <2>1, <3>5, <3>7, ExceptSeq
    <3> QED BY <3>5, <3>6, <3>8
  <2>3. CASE ~(Len(promises[a].conts) < MaxConts)
    BY <1>3, <1>9, <2>1, <2>3 DEF Then
  <2> QED BY <2>2, <2>3
<1>19. Grows
  BY <1>3, <1>4, <1>16, <1>17, <1>18 DEF Grows
<1>20. TypeInv'
  BY <1>3, <1>6, <1>17, <1>18 DEF TypeInv, loopVars
<1>21. Effect(m, x)
  BY <1>1, <1>5, <1>6, <1>8, <1>17, <1>19 DEF Effect
<1>22. \A k \in 1..m : ~(stack[k].kind = "move" /\ stack[k].id = x)
  BY <1>1, <1>4, <1>5, <1>8 DEF StackInv
<1>23. ~OnStack("move", x)'
  BY <1>6, <1>7, <1>22 DEF OnStack
<1>24. InRange'
  <2>1. \A i \in DOMAIN promises'[a].conts : promises'[a].conts[i] \in DOMAIN frames
    <3>1. CASE promises'[a].conts = promises[a].conts
      BY <3>1 DEF InRange
    <3>2. CASE promises'[a].conts = Append(promises[a].conts, x)
      <4>1. promises[a].conts \in Seq(Nat) /\ x \in Nat
        BY <1>11, <1>12, Indices DEF PromiseSet, TypeInv
      <4>2. \A i \in DOMAIN Append(promises[a].conts, x) :
              \/ Append(promises[a].conts, x)[i] = x
              \/ /\ i \in DOMAIN promises[a].conts
                 /\ Append(promises[a].conts, x)[i] = promises[a].conts[i]
        <5>1. PICK l \in Nat : l = Len(promises[a].conts) /\ DOMAIN promises[a].conts = 1..l
          BY <4>1, Indices
        <5>2. DOMAIN Append(promises[a].conts, x) = 1..(l + 1)
          BY <4>1, <5>1, Pushed, Indices
        <5>3. \A i \in 1..(l + 1) : i \in 1..l \/ i = l + 1
          OBVIOUS
        <5> QED BY <4>1, <5>1, <5>2, <5>3, Pushed
      <4> QED BY <3>2, <4>2 DEF InRange
    <3> QED BY <1>18, <3>1, <3>2
  <2>2. \A p \in DOMAIN promises' : \A i \in DOMAIN promises'[p].conts :
          promises'[p].conts[i] \in DOMAIN frames'
    BY <1>17, <1>18, <2>1 DEF InRange
  <2> QED BY <1>6, <1>8, <1>17, <1>19, <1>20, <2>2, RangeKept
<1>25. StackInv'
  <2>1. ~frames'[x].freed
    BY <1>4, <1>16, <1>17
  <2> QED BY <1>8, <1>20, <1>21, <1>22, <2>1, StackKept
<1>26. at \in Places(x)'
  <2>1. \A v \in Vars :
          \/ frames'[x].vars[v] = frames[x].vars[v]
          \/ Defines(instr, v) /\ instr.op # "phi"
          \/ /\ instr.op = "await" /\ v \notin Fields(FnOf(x))
             /\ frames'[x].vars[v] = Zero
    BY <1>2, <1>13, <1>16, <1>17, KeptFacts
  <2> QED BY <1>2, <1>4, <1>10, <1>19, <2>1, Advances
<1>27. PlaceInv'
  <2>1. \A k \in DOMAIN stack' : ~(stack'[k].kind = "move" /\ stack'[k].id = x)
    BY <1>23 DEF OnStack
  <2>2. /\ frames'[x].state > 1 /\ frames'[x].state \in Places(x)'
        /\ Code(FnOf(x))[frames'[x].state - 1].op = "await"
        /\ frames'[x].awaited \in Later(x)'
    BY <1>2, <1>4, <1>9, <1>10, <1>16, <1>17, <1>19, <1>26, Grown
  <2>3. \A k \in 1..m : stack'[k].at = stack[k].at
    BY <1>6
  <2> QED BY <1>17, <1>20, <1>21, <2>1, <2>2, <2>3, PlaceKept
<1>28. ASSUME NEW p \in DOMAIN promises
       PROVE  x \notin ToResume(p)
  <2>1. OnStack("move", x)
    BY <1>1, <1>4, <1>5 DEF OnStack
  <2> QED BY <2>1 DEF WakeInv, Wakes, Suspended
<1>29. \A id \in DOMAIN frames : frames'[id].freed = frames[id].freed
  BY <1>16, <1>17
<1>30. \A p \in DOMAIN promises : ~promises'[p].resolved => Due(p)'
  <2>1. \A p \in DOMAIN promises : Due(p) => Due(p)'
    BY <1>3, <1>19, <1>29, DueKept
  <2> QED BY <1>18, <2>1 DEF WakeInv, Wakes
<1>31. ASSUME NEW p \in DOMAIN promises, promises'[p].conts = promises[p].conts
       PROVE  Wakes(p)'
  <2>1. \A k \in (m + 1)..Len(stack) : stack[k].kind # "resolve"
    BY <1>4, <1>5, <1>8
  <2>2. Wakes(p)
    BY DEF WakeInv
  <2> QED BY <1>18, <1>20, <1>21, <1>28, <1>30, <1>31, <2>1, <2>2, WakesKept
<1>32. ASSUME promises'[a].conts = Append(promises[a].conts, x)
       PROVE  Wakes(a)'
  <2>1. PICK c \in Seq(Nat) : c = promises[a].conts
    BY <1>11 DEF PromiseSet
  <2>2. \A k \in DOMAIN stack : ~(stack[k].kind = "resolve" /\ stack[k].id = a)
    BY <1>3, <1>9 DEF StackInv
  <2>3. ToResume(a) = ToSet(c)
    BY <2>1, <2>2 DEF ToResume, ToSet
  <2>4. Distinct(c) /\ x \notin ToSet(c) /\ x \in Nat
    <3>1. x \in Nat
      BY Indices DEF TypeInv
    <3> QED BY <1>28, <2>1, <2>3, <3>1 DEF WakeInv, Wakes, Distinct
  <2>5. /\ Distinct(promises'[a].conts)
        /\ ToSet(promises'[a].conts) = ToSet(c) \cup {x}
    BY <1>32, <2>1, <2>4, Queued
  <2>6. ToResume(a)' \subseteq ToSet(c) \cup {x}
    BY <2>5 DEF ToResume, ToSet
  <2>7. Suspended(x)' /\ frames'[x].awaited = a
    BY <1>4, <1>16, <1>17, <1>23 DEF Suspended
  <2>8. ASSUME NEW id \in ToSet(c)
        PROVE  Suspended(id)' /\ frames'[id].awaited = a
    <3>1. Suspended(id) /\ frames[id].awaited = a
      BY <2>3 DEF WakeInv, Wakes
    <3>2. id \in DOMAIN frames /\ id # x
      BY <2>1, <2>4 DEF InRange, ToSet
    <3> QED BY <1>17, <1>20, <1>21, <3>1, <3>2, SuspendedKept
  <2>9. ~promises'[a].resolved /\ Due(a)'
    BY <1>3, <1>9, <1>18, <1>30
  <2> QED BY <2>5, <2>6, <2>7, <2>8, <2>9 DEF Wakes, Distinct
<1>33. WakeInv'
  BY <1>18, <1>31, <1>32 DEF WakeInv
<1>34. OutsideInv'
  <2>1. \A p \in Outer : promises'[p].resolved = promises[p].resolved
    BY <1>18 DEF Outer
  <2> QED BY <1>3, <1>19, <2>1, OutsideKept
<1>35. StageInv'
  BY <1>3 DEF StageInv, Moving
<1> QED BY <1>20, <1>24, <1>25, <1>27, <1>33, <1>34, <1>35

-----------------------------------------------------------------------------
(* Steps that move no function                                              *)

\* Structs, promises and calls stay as they are.
LEMMA StillFits ==
  ASSUME ProcessInv, UNCHANGED <<program, frames, promises, stack>>, TypeInv',
         \A p \in DOMAIN promises : Due(p) => Due(p)'
  PROVE  InRange' /\ StackInv' /\ PlaceInv' /\ WakeInv'
<1> USE DEF ProcessInv
<1>1. Effect(Len(stack), 0) /\ Grows
  BY Stayed
<1>2. Under(Len(stack)) /\ Len(stack) \in Nat
  BY <1>1, Indices DEF Effect, TypeInv
<1>3. (Len(stack) + 1)..Len(stack) = {}
  BY <1>2
<1>4. InRange'
  BY DEF InRange
<1>5. StackInv'
  BY DEF StackInv, Fits, CodeOf, FnOf
<1>6. PlaceInv'
  <2>1. 0 \notin DOMAIN frames
    BY Indices DEF TypeInv
  <2> QED BY <1>1, <1>3, <2>1, PlaceKept
<1>7. ASSUME NEW p \in DOMAIN promises
      PROVE  Wakes(p)'
  <2>1. Wakes(p)
    BY DEF WakeInv
  <2>2. 0 \notin ToResume(p)
    <3>1. 0 \notin DOMAIN frames
      BY Indices DEF TypeInv
    <3> QED BY <3>1 DEF ToResume, InRange
  <2>3. ~promises'[p].resolved => Due(p)'
    BY <2>1 DEF Wakes
  <2> QED BY <1>1, <1>3, <2>1, <2>2, <2>3, WakesKept
<1> QED BY <1>4, <1>5, <1>6, <1>7 DEF WakeInv

\* Steps of main(), and of the threads.
LEMMA StageStep ==
  ASSUME ProcessInv, Evaluate \/ RunLoop \/ LoopReturns \/ AwaitNothing
  PROVE  ProcessInv'
<1> USE DEF ProcessInv
<1>1. UNCHANGED <<program, called, frames, promises, stack, loopVars>>
  BY DEF Evaluate, RunLoop, LoopReturns, AwaitNothing
<1>2. stage' \in Stages
  BY DEF Evaluate, RunLoop, LoopReturns, AwaitNothing, Stages
<1>3. TypeInv'
  BY <1>1, <1>2 DEF TypeInv, loopVars
<1>4. Grows
  BY <1>1 DEF Grows
<1>5. InRange' /\ StackInv' /\ PlaceInv' /\ WakeInv'
  <2>1. \A p \in DOMAIN promises : Due(p) => Due(p)'
    BY <1>1, <1>4, DueKept
  <2> HIDE DEF ProcessInv
  <2> QED BY <1>1, <1>3, <2>1, StillFits
<1>6. OutsideInv'
  BY <1>1, <1>4, OutsideKept
<1>7. StageInv'
  <2>1. stage # "refused" /\ stage' # "refused"
    BY DEF Evaluate, RunLoop, LoopReturns, AwaitNothing, Moving
  <2>2. Compiles(program)
    BY <2>1 DEF StageInv
  <2>3. stage' = "done" => stack = <<>> /\ Idle
    BY DEF Evaluate, RunLoop, LoopReturns, AwaitNothing
  <2>4. stage' = "undefined" => ReadsUnknown(program, Chosen) \/ Quick
    <3>1. SUFFICES ASSUME AwaitNothing
                   PROVE  ReadsUnknown(program, Chosen) \/ Quick
      BY DEF Evaluate, RunLoop, LoopReturns
    <3> HIDE DEF ProcessInv
    <3> QED BY <3>1, AwaitedValue DEF AwaitNothing
  <2>5. Quick => Quick'
    BY <1>4, Grown
  <2>6. Idle => Idle'
    BY <1>1 DEF Idle, loopVars
  <2> QED BY <1>1, <2>1, <2>2, <2>3, <2>4, <2>5, <2>6 DEF StageInv
<1> QED BY <1>3, <1>5, <1>6, <1>7

LEMMA PoolStep == ASSUME ProcessInv, Pool PROVE ProcessInv'
<1> USE DEF ProcessInv
<1>1. UNCHANGED <<program, stage, called, frames, promises, stack, timers>>
      /\ stage \in {"entry", "loop"}
  BY DEF Pool, TakeWork, EndWork
<1>2. /\ queued' \in Seq(Nat) /\ working' \in SUBSET Nat /\ finished' \in Seq(Nat)
      /\ Distinct(queued') /\ Distinct(finished')
      /\ ToSet(queued') \cup working' \cup ToSet(finished')
         = ToSet(queued) \cup working \cup ToSet(finished)
      /\ ToSet(queued') \cap (working' \cup ToSet(finished')) = {}
      /\ working' \cap ToSet(finished') = {}
  <2>1. CASE TakeWork
    <3>1. /\ queued # <<>> /\ queued' = Tail(queued) /\ UNCHANGED finished
          /\ working' = working \cup {Head(queued)}
      BY <2>1 DEF TakeWork
    <3>2. /\ Tail(queued) \in Seq(Nat) /\ Distinct(Tail(queued)) /\ Head(queued) \in Nat
          /\ ToSet(queued) = ToSet(Tail(queued)) \cup {Head(queued)}
          /\ Head(queued) \notin ToSet(Tail(queued))
      BY <3>1, Unqueued DEF TypeInv, OutsideInv
    <3> QED BY <3>1, <3>2 DEF TypeInv, OutsideInv
  <2>2. CASE EndWork
    <3>1. PICK p \in working : /\ working' = working \ {p} /\ UNCHANGED queued
                               /\ finished' = Append(finished, p)
      BY <2>2 DEF EndWork
    <3>2. p \in Nat /\ p \notin ToSet(finished)
      BY DEF TypeInv, OutsideInv
    <3>3. /\ finished' \in Seq(Nat) /\ Distinct(finished')
          /\ ToSet(finished') = ToSet(finished) \cup {p}
      BY <3>1, <3>2, Queued DEF TypeInv, OutsideInv
    <3> QED BY <3>1, <3>2, <3>3 DEF TypeInv, OutsideInv
  <2> QED BY <2>1, <2>2 DEF Pool
<1>3. TypeInv'
  BY <1>1, <1>2 DEF TypeInv
<1>4. InRange' /\ StackInv' /\ PlaceInv' /\ WakeInv'
  <2>1. \A p \in DOMAIN promises : Due(p) => Due(p)'
    BY <1>1, <1>2 DEF Due
  <2> HIDE DEF ProcessInv
  <2> QED BY <1>1, <1>3, <2>1, StillFits
<1>5. OutsideInv'
  <2>1. UNCHANGED Outer
    BY <1>1 DEF Outer
  <2> QED BY <1>1, <1>2, <2>1 DEF OutsideInv
<1>6. StageInv'
  BY <1>1 DEF StageInv
<1> QED BY <1>3, <1>4, <1>5, <1>6

-----------------------------------------------------------------------------
(* What resolves a promise                                                  *)

LEMMA Resolves ==
  ASSUME ProcessInv, NEW p \in DOMAIN promises, ~promises[p].resolved,
         Resolve(p, stack), UNCHANGED <<program, frames>>,
         stack # <<>> =>
           /\ Top.kind = "move" /\ p = frames[Top.id].result
           /\ Code(FnOf(Top.id))[Top.at].op = "return"
  PROVE  /\ Grows /\ promises' \in Seq(PromiseSet) /\ stack' \in Seq(CallSet)
         /\ DOMAIN promises' = DOMAIN promises
         /\ \A q \in DOMAIN promises : q # p => promises'[q] = promises[q]
         /\ TypeInv' /\ (\A q \in DOMAIN promises : q # p /\ Due(q) => Due(q)')
            => InRange' /\ StackInv' /\ PlaceInv' /\ WakeInv'
<1> USE DEF ProcessInv
<1>n. PICK n \in Nat : n = Len(stack)
  BY Indices DEF TypeInv
<1>1. PICK c \in CallSet : c = Call("resolve", p, 0)
  <2>1. p \in Nat
    BY Indices DEF TypeInv
  <2> QED BY <2>1 DEF Call, CallSet
<1>2. c.kind = "resolve" /\ c.id = p
  BY <1>1 DEF Call
<1>3. stack' = Append(stack, c) /\ promises' = [promises EXCEPT ![p].resolved = TRUE]
  BY <1>1 DEF Resolve
<1>4. /\ stack' \in Seq(CallSet) /\ Len(stack') = n + 1 /\ n \in Nat
      /\ Under(n) /\ stack'[n + 1] = c /\ \A k \in 1..n : stack'[k] = stack[k]
  BY <1>n, <1>3, Called
<1>5. DOMAIN stack = 1..n /\ DOMAIN stack' = 1..(n + 1)
  BY <1>n, <1>4, Indices DEF TypeInv
<1>6. /\ n + 1 \in DOMAIN stack'
      /\ \A k \in (n + 1)..Len(stack') : k = n + 1
      /\ \A k \in (n + 1)..Len(stack) : FALSE
  <2>1. n + 1 \in 1..(n + 1) /\ \A k \in (n + 1)..(n + 1) : k = n + 1
    BY <1>4
  <2>2. \A k \in (n + 1)..n : FALSE
    BY <1>4
  <2> QED BY <1>n, <1>4, <1>5, <2>1, <2>2
<1>7. promises \in Seq(PromiseSet) /\ promises[p] \in PromiseSet
      /\ DOMAIN promises = 1..Len(promises)
  BY Indices DEF TypeInv
<1>8. PICK q \in PromiseSet : q = [promises[p] EXCEPT !.resolved = TRUE]
  BY <1>7 DEF PromiseSet
<1>9. q.resolved /\ q.conts = promises[p].conts
  BY <1>7, <1>8 DEF PromiseSet
<1>10. promises' = [promises EXCEPT ![p] = q]
  BY <1>3, <1>8
<1>11. /\ promises' \in Seq(PromiseSet) /\ DOMAIN promises' = DOMAIN promises
       /\ \A g \in DOMAIN promises : g # p => promises'[g] = promises[g]
       /\ promises'[p] = q
  BY <1>7, <1>10, ExceptSeq
<1>12. Grows
  BY <1>9, <1>11 DEF Grows
<1>13. Effect(n, 0)
  BY <1>2, <1>4, <1>6, <1>12 DEF Effect
<1>14. 0 \notin DOMAIN frames
  BY Indices DEF TypeInv
<1>15. ASSUME TypeInv', \A g \in DOMAIN promises : g # p /\ Due(g) => Due(g)'
       PROVE  InRange' /\ StackInv' /\ PlaceInv' /\ WakeInv'
  <2>1. InRange'
    <3>1. \A g \in DOMAIN promises' : \A i \in DOMAIN promises'[g].conts :
            promises'[g].conts[i] \in DOMAIN frames'
      BY <1>9, <1>11 DEF InRange
    <3>2. \A k \in (n + 1)..Len(stack') : stack'[k].kind = "resolve"
                                          /\ stack'[k].id \in DOMAIN promises'
      BY <1>2, <1>4, <1>6, <1>11
    <3> QED BY <1>4, <1>12, <1>15, <3>1, <3>2, RangeKept
  <2>2. StackInv'
    <3>1. \A j \in DOMAIN stack : stack[j].kind # "resolve" \/ stack[j].id # p
      BY DEF StackInv
    <3>2. \A j \in 1..n : stack'[j].kind # "resolve" \/ stack'[j].id # p
      BY <1>4, <1>5, <3>1
    <3>3. ASSUME n + 1 # 1
          PROVE  Fits(stack[(n + 1) - 1], stack[n + 1])'
      <4>1. stack # <<>> /\ (n + 1) - 1 = n /\ n \in 1..n
        BY <1>n, <3>3, EmptySeq
      <4>2. Top = stack[n]
        BY <1>n, <4>1, TopFacts
      <4>3. stack'[n] = Top
        BY <1>4, <4>1, <4>2
      <4>4. PICK a \in CallSet : a = Top
        BY <4>1, TopFacts
      <4>5. Fits(a, c)'
        BY <1>2, <4>1, <4>4 DEF Fits, CodeOf, FnOf
      <4>6. stack'[(n + 1) - 1] = a /\ stack'[n + 1] = c
        BY <1>4, <4>1, <4>3, <4>4
      <4> QED BY <4>5, <4>6 DEF Fits
    <3>4. /\ n + 1 = 1 => stack'[n + 1].kind # "move"
          /\ stack'[n + 1].kind = "resolve" /\ promises'[stack'[n + 1].id].resolved
          /\ stack'[n + 1].id = p /\ (n + 1) - 1 = n
      BY <1>2, <1>4, <1>9, <1>11
    <3>5. \A k \in (n + 1)..Len(stack') :
            /\ IF k = 1 THEN stack'[k].kind # "move" ELSE Fits(stack[k - 1], stack[k])'
            /\ \A j \in 1..(k - 1) :
                 stack'[j].kind # stack'[k].kind \/ stack'[j].id # stack'[k].id
            /\ stack'[k].kind = "move" => ~frames'[stack'[k].id].freed
            /\ stack'[k].kind = "entry" => ~frames'[stack'[k].id].freed
            /\ stack'[k].kind = "resolve" => promises'[stack'[k].id].resolved
      <4>1. SUFFICES ASSUME NEW k \in {n + 1}
                     PROVE
              /\ IF k = 1 THEN stack'[k].kind # "move" ELSE Fits(stack[k - 1], stack[k])'
              /\ \A j \in 1..(k - 1) :
                   stack'[j].kind # stack'[k].kind \/ stack'[j].id # stack'[k].id
              /\ stack'[k].kind = "resolve" /\ promises'[stack'[k].id].resolved
        BY <1>6
      <4>2. k = n + 1
        OBVIOUS
      <4>3. IF k = 1 THEN stack'[k].kind # "move" ELSE Fits(stack[k - 1], stack[k])'
        BY <3>3, <3>4, <4>2 DEF Fits
      <4>4. \A j \in 1..(k - 1) :
              stack'[j].kind # stack'[k].kind \/ stack'[j].id # stack'[k].id
        BY <3>2, <3>4, <4>2
      <4> QED BY <3>4, <4>2, <4>3, <4>4
    <3>6. \A k \in 1..n : k \in DOMAIN stack
      BY <1>5
    <3>7. /\ \A k \in 1..n : stack[k].kind = "move" /\ stack[k].id = 0 =>
               frames'[0].state = frames[0].state /\ frames'[0].freed = frames[0].freed
          /\ \A k \in 1..n : stack[k].kind = "entry" /\ stack[k].id = 0
                             /\ frames'[0].freed => frames'[0].state = 1
      BY <1>14, <3>6 DEF InRange
    <3> QED BY <1>13, <1>15, <3>5, <3>7, StackKept
  <2>3. PlaceInv'
    <3>1. \A k \in 1..n : stack'[k].at = stack[k].at
      BY <1>4
    <3> QED BY <1>13, <1>14, <1>15, <3>1, PlaceKept
  <2>4. ASSUME NEW g \in DOMAIN promises
        PROVE  Wakes(g)'
    <3>1. Wakes(g)
      BY DEF WakeInv
    <3>2. 0 \notin ToResume(g)
      BY <1>14 DEF ToResume, InRange
    <3>3. promises'[g].resolved => promises[g].resolved \/ OnStack("resolve", g)'
      <4>1. OnStack("resolve", p)'
        BY <1>2, <1>4, <1>6 DEF OnStack
      <4> QED BY <1>11, <4>1
    <3>4. ~promises'[g].resolved => Due(g)'
      BY <1>9, <1>11, <1>15, <3>1 DEF Wakes
    <3>5. promises'[g].conts = promises[g].conts
      BY <1>9, <1>11
    <3> QED BY <1>6, <1>13, <1>15, <3>1, <3>2, <3>3, <3>4, <3>5, WakesKept
  <2> QED BY <1>11, <2>1, <2>2, <2>3, <2>4 DEF WakeInv
<1> QED BY <1>4, <1>11, <1>12, <1>15

\* Whoever resolves a promise: a return, a timer, a request.
LEMMA ReturnStep == ASSUME ProcessInv, Return PROVE ProcessInv'
<1> USE DEF ProcessInv
<1>1. PICK x \in DOMAIN frames : x = Top.id
  BY MovingFacts DEF Return
<1>2. PICK p \in DOMAIN promises : p = frames[x].result
  BY DEF InRange
<1>3. /\ Moving({"return"}) /\ ~promises[p].resolved /\ Resolve(p, stack)
      /\ UNCHANGED <<program, stage, called, frames, loopVars>>
  BY <1>1, <1>2 DEF Return
<1>4. /\ Top.kind = "move" /\ p = frames[Top.id].result
      /\ Code(FnOf(Top.id))[Top.at].op = "return"
  BY <1>1, <1>2, <1>3, MovingFacts
<1>5. /\ Grows /\ promises' \in Seq(PromiseSet) /\ stack' \in Seq(CallSet)
      /\ DOMAIN promises' = DOMAIN promises
      /\ \A q \in DOMAIN promises : q # p => promises'[q] = promises[q]
      /\ TypeInv' /\ (\A q \in DOMAIN promises : q # p /\ Due(q) => Due(q)')
         => InRange' /\ StackInv' /\ PlaceInv' /\ WakeInv'
  <2> HIDE DEF ProcessInv
  <2> QED BY <1>3, <1>4, Resolves
<1>6. TypeInv'
  BY <1>3, <1>5 DEF TypeInv, loopVars
<1>7. \A q \in DOMAIN promises : Due(q) => Due(q)'
  BY <1>3, <1>5, DueKept
<1>8. OutsideInv'
  <2>1. p \notin Outer
    BY <1>1, <1>2 DEF Outer
  <2>2. \A q \in Outer : promises'[q].resolved = promises[q].resolved
    BY <1>5, <2>1 DEF Outer
  <2> QED BY <1>3, <1>5, <2>2, OutsideKept
<1>9. StageInv'
  BY <1>3 DEF StageInv, Moving
<1> QED BY <1>5, <1>6, <1>7, <1>8, <1>9

LEMMA FireTimerStep == ASSUME ProcessInv, FireTimer PROVE ProcessInv'
<1> USE DEF ProcessInv
<1>1. PICK i \in DOMAIN timers :
        /\ timers' = RemoveAt(timers, i) /\ Resolve(timers[i].promise, stack)
  BY DEF FireTimer, Expires
<1>2. /\ stage = "loop" /\ stack = <<>>
      /\ UNCHANGED <<program, stage, called, frames, queued, working, finished>>
  BY DEF FireTimer, InLoop
<1>3. PICK p \in DOMAIN promises : p = timers[i].promise /\ p \in Outer
  BY DEF OutsideInv, Outer
<1>4. ~promises[p].resolved /\ Resolve(p, stack)
  BY <1>1, <1>3 DEF OutsideInv
<1>5. /\ Grows /\ promises' \in Seq(PromiseSet) /\ stack' \in Seq(CallSet)
      /\ DOMAIN promises' = DOMAIN promises
      /\ \A q \in DOMAIN promises : q # p => promises'[q] = promises[q]
      /\ TypeInv' /\ (\A q \in DOMAIN promises : q # p /\ Due(q) => Due(q)')
         => InRange' /\ StackInv' /\ PlaceInv' /\ WakeInv'
  <2> HIDE DEF ProcessInv
  <2> QED BY <1>2, <1>4, Resolves
<1>6. /\ timers \in Seq(TimerSet) /\ DOMAIN timers = 1..Len(timers) /\ Len(timers) \in Nat
      /\ i \in 1..Len(timers)
  BY Indices DEF TypeInv
<1>7. /\ timers' \in Seq(TimerSet) /\ Len(timers') = Len(timers) - 1
      /\ \A k \in 1..(i - 1) : timers'[k] = timers[k]
      /\ \A k \in i..(Len(timers) - 1) : timers'[k] = timers[k + 1]
  BY <1>1, <1>6, Without
<1>8. DOMAIN timers' = 1..(Len(timers) - 1)
  BY <1>7, Indices
<1>9. PICK old \in [DOMAIN timers' -> DOMAIN timers \ {i}] :
        /\ \A k \in DOMAIN timers' : timers'[k] = timers[old[k]]
        /\ \A j, k \in DOMAIN timers' : old[j] = old[k] => j = k
        /\ \A j \in DOMAIN timers \ {i} : \E k \in DOMAIN timers' : old[k] = j
  <2> DEFINE old == [k \in DOMAIN timers' |-> IF k < i THEN k ELSE k + 1]
  <2>1. old \in [DOMAIN timers' -> DOMAIN timers \ {i}]
    BY <1>6, <1>8
  <2>2. \A k \in DOMAIN timers' : timers'[k] = timers[old[k]]
    <3>1. \A k \in DOMAIN timers' : k \in 1..(i - 1) \/ (~(k < i) /\ k \in i..(Len(timers) - 1))
      BY <1>6, <1>8
    <3>2. \A k \in 1..(i - 1) : k < i
      BY <1>6
    <3> QED BY <1>7, <3>1, <3>2
  <2>3. \A j, k \in DOMAIN timers' : old[j] = old[k] => j = k
    BY <1>6, <1>8
  <2>4. ASSUME NEW j \in DOMAIN timers \ {i}
        PROVE  \E k \in DOMAIN timers' : old[k] = j
    <3>1. CASE j < i
      BY <1>6, <1>8, <3>1
    <3>2. CASE j > i
      <4>1. PICK k \in DOMAIN timers' : k + 1 = j /\ ~(k < i)
        <5>1. j - 1 \in DOMAIN timers' /\ (j - 1) + 1 = j /\ ~(j - 1 < i)
          BY <1>6, <1>8, <3>2
        <5> QED BY <5>1
      <4> QED BY <4>1
    <3> QED BY <1>6, <3>1, <3>2
  <2> QED BY <2>1, <2>2, <2>3, <2>4
<1>10. TypeInv'
  BY <1>2, <1>5, <1>7 DEF TypeInv
<1>11. \A q \in DOMAIN promises : q # p /\ Due(q) => Due(q)'
  <2>1. \A j \in DOMAIN timers : timers[j].promise # p =>
          \E k \in DOMAIN timers' : timers'[k].promise = timers[j].promise
    BY <1>3, <1>9
  <2> QED BY <1>2, <2>1 DEF Due
<1>12. OutsideInv'
  <2>1. Outer \subseteq Outer'
    BY <1>5, Grown
  <2>2. \A j \in DOMAIN timers \ {i} : timers[j].promise # p
    BY <1>3 DEF OutsideInv
  <2>3. \A q \in ToSet(queued) \cup working \cup ToSet(finished) : q # p
    BY <1>3 DEF OutsideInv
  <2>4. \A q \in Outer : q # p => q \in Outer' /\ promises'[q].resolved = promises[q].resolved
    BY <1>5, <2>1 DEF Outer
  <2>5. \A k \in DOMAIN timers' :
          /\ timers'[k].promise \in Outer' /\ ~promises'[timers'[k].promise].resolved
          /\ timers'[k].promise \notin ToSet(queued) \cup working \cup ToSet(finished)
    BY <1>9, <2>2, <2>4 DEF OutsideInv
  <2>6. \A j, k \in DOMAIN timers' : timers'[j].promise = timers'[k].promise => j = k
    BY <1>9 DEF OutsideInv
  <2>7. \A q \in ToSet(queued) \cup working \cup ToSet(finished) :
          q \in Outer' /\ ~promises'[q].resolved
    BY <2>3, <2>4 DEF OutsideInv
  <2> QED BY <1>2, <2>5, <2>6, <2>7 DEF OutsideInv
<1>13. StageInv'
  BY <1>2 DEF StageInv
<1> QED BY <1>5, <1>10, <1>11, <1>12, <1>13

LEMMA WorkDoneStep == ASSUME ProcessInv, WorkDone PROVE ProcessInv'
<1> USE DEF ProcessInv
<1>1. /\ stage = "loop" /\ stack = <<>> /\ finished # <<>> /\ finished' = Tail(finished)
      /\ Resolve(Head(finished), stack)
      /\ UNCHANGED <<program, stage, called, frames, timers, queued, working>>
  BY DEF WorkDone, InLoop
<1>2. /\ Tail(finished) \in Seq(Nat) /\ Distinct(Tail(finished))
      /\ ToSet(finished) = ToSet(Tail(finished)) \cup {Head(finished)}
      /\ Head(finished) \notin ToSet(Tail(finished))
  BY <1>1, Unqueued DEF TypeInv, OutsideInv
<1>3. PICK p \in DOMAIN promises : /\ p = Head(finished) /\ p \in Outer
                                   /\ ~promises[p].resolved
  BY <1>2 DEF OutsideInv, Outer
<1>4. /\ Grows /\ promises' \in Seq(PromiseSet) /\ stack' \in Seq(CallSet)
      /\ DOMAIN promises' = DOMAIN promises
      /\ \A q \in DOMAIN promises : q # p => promises'[q] = promises[q]
      /\ TypeInv' /\ (\A q \in DOMAIN promises : q # p /\ Due(q) => Due(q)')
         => InRange' /\ StackInv' /\ PlaceInv' /\ WakeInv'
  <2> HIDE DEF ProcessInv
  <2> QED BY <1>1, <1>3, Resolves
<1>5. TypeInv'
  BY <1>1, <1>2, <1>4 DEF TypeInv
<1>6. \A q \in DOMAIN promises : q # p /\ Due(q) => Due(q)'
  BY <1>1, <1>2, <1>3 DEF Due
<1>7. OutsideInv'
  <2>1. Outer \subseteq Outer'
    BY <1>4, Grown
  <2>2. \A q \in Outer : q # p => q \in Outer' /\ promises'[q].resolved = promises[q].resolved
    BY <1>4, <2>1 DEF Outer
  <2>3. \A i \in DOMAIN timers : timers[i].promise # p
    BY <1>2, <1>3 DEF OutsideInv
  <2>4. \A q \in ToSet(queued) \cup working \cup ToSet(finished') : q # p
    BY <1>1, <1>2, <1>3 DEF OutsideInv
  <2> QED BY <1>1, <1>2, <2>2, <2>3, <2>4 DEF OutsideInv
<1>8. StageInv'
  BY <1>1 DEF StageInv
<1> QED BY <1>4, <1>5, <1>6, <1>7, <1>8

-----------------------------------------------------------------------------
(* The end of a function, and of the loop over continuations                *)

\* Arithmetic of a stack that loses its innermost call.
LEMMA OneLess ==
  ASSUME NEW n \in Nat \ {0}
  PROVE  /\ n - 1 \in Nat /\ (n - 1) + 1 = n
         /\ ((n - 1) + 1)..(n - 1) = {} /\ \A k \in ((n - 1) + 1)..n : k = n
         /\ n \in 1..n /\ \A k \in 1..(n - 1) : k \in 1..n /\ k + 1 \in 1..n /\ k # n
  OBVIOUS

\* The end of moveNext, and of the loop over continuations.
LEMMA FreeStructStep == ASSUME ProcessInv, FreeStruct PROVE ProcessInv'
<1> USE DEF ProcessInv
<1>1. PICK x \in DOMAIN frames : x = Top.id
  BY MovingFacts DEF FreeStruct
<1>2. /\ Moving({"return"}) /\ promises[frames[x].result].resolved /\ stack' = Below
      /\ UNCHANGED <<program, stage, called, promises, loopVars>>
      /\ frames' = [frames EXCEPT ![x].freed = TRUE]
  BY <1>1 DEF FreeStruct
<1>3. stack # <<>> /\ Top.kind = "move"
  BY <1>2, MovingFacts
<1>4. PICK n \in Nat \ {0} : n = Len(stack) /\ DOMAIN stack = 1..n /\ Top = stack[n]
  BY <1>3, TopFacts
<1>5. PICK m \in Nat : m = n - 1
  BY <1>4
<1>6. /\ m + 1 = n /\ (m + 1)..m = {} /\ \A k \in (m + 1)..n : k = n
      /\ n \in 1..n /\ \A k \in 1..m : k \in 1..n /\ k + 1 \in 1..n /\ k # n
  BY <1>5, OneLess
<1>7. /\ stack' \in Seq(CallSet) /\ Len(stack') = m /\ Under(m)
      /\ \A k \in 1..m : stack'[k] = stack[k]
  BY <1>2, <1>3, <1>4, <1>5, Returned
<1>8. PICK r \in FrameSet : r = [frames[x] EXCEPT !.freed = TRUE]
  <2>1. frames[x] \in FrameSet
    BY Indices DEF TypeInv
  <2> QED BY <2>1 DEF FrameSet
<1>9. /\ r.fn = frames[x].fn /\ r.state = frames[x].state /\ r.vars = frames[x].vars
      /\ r.freed /\ r.result = frames[x].result
  <2>1. frames[x] \in FrameSet
    BY Indices DEF TypeInv
  <2> QED BY <1>8, <2>1 DEF FrameSet
<1>10. /\ frames' \in Seq(FrameSet) /\ DOMAIN frames' = DOMAIN frames
       /\ \A g \in DOMAIN frames : g # x => frames'[g] = frames[g]
       /\ frames'[x] = r
  BY <1>2, <1>8, Changed
<1>11. Grows
  BY <1>2, <1>9, <1>10 DEF Grows
<1>12. TypeInv'
  BY <1>2, <1>7, <1>10 DEF TypeInv, loopVars
<1>13. Effect(m, x)
  BY <1>1, <1>4, <1>6, <1>7, <1>10, <1>11 DEF Effect
<1>14. \A k \in 1..m : ~(stack[k].kind = "move" /\ stack[k].id = x)
  BY <1>1, <1>3, <1>4, <1>6 DEF StackInv
<1>15. InRange'
  <2>1. \A p \in DOMAIN promises' : \A i \in DOMAIN promises'[p].conts :
          promises'[p].conts[i] \in DOMAIN frames'
    BY <1>2, <1>10 DEF InRange
  <2> QED BY <1>6, <1>7, <1>10, <1>11, <1>12, <2>1, RangeKept
<1>16. StackInv'
  <2>1. ASSUME NEW k \in 1..m, stack[k].kind = "entry", stack[k].id = x
        PROVE  frames'[x].state = 1
    <3>1. k \in 1..(n - 1)
      BY <1>5
    <3>2. Fits(stack[k], stack[k + 1])
      BY <1>4, <3>1 DEF StackInv
    <3> QED BY <1>9, <1>10, <2>1, <3>2 DEF Fits
  <2> QED BY <1>6, <1>7, <1>12, <1>13, <1>14, <2>1, StackKept
<1>17. PlaceInv'
  <2>1. /\ \A k \in 1..m : stack'[k].at = stack[k].at
        /\ \A k \in DOMAIN stack' : ~(stack'[k].kind = "move" /\ stack'[k].id = x)
    BY <1>7, <1>14, Indices
  <2>2. ~Suspended(x)'
    BY <1>9, <1>10 DEF Suspended
  <2> QED BY <1>10, <1>12, <1>13, <2>1, <2>2, PlaceKept
<1>18. ASSUME NEW p \in DOMAIN promises
       PROVE  Wakes(p)'
  <2>1. Wakes(p)
    BY DEF WakeInv
  <2>2. x \notin ToResume(p)
    <3>1. OnStack("move", x)
      BY <1>1, <1>3, <1>4, <1>6 DEF OnStack
    <3> QED BY <2>1, <3>1 DEF Wakes, Suspended
  <2>3. ~promises'[p].resolved => Due(p)'
    <3>1. SUFFICES ASSUME ~promises[p].resolved
                   PROVE  Due(p)'
      BY <1>2
    <3>2. \A id \in DOMAIN frames :
            frames[id].result = p /\ ~frames[id].freed => ~frames'[id].freed
      BY <1>2, <1>10, <3>1
    <3> QED BY <1>2, <1>11, <2>1, <3>1, <3>2, DueKept DEF Wakes
  <2>4. /\ \A k \in (m + 1)..Len(stack) : stack[k].kind # "resolve"
        /\ promises'[p] = promises[p]
    BY <1>2, <1>3, <1>4, <1>6
  <2> QED BY <1>12, <1>13, <2>1, <2>2, <2>3, <2>4, WakesKept
<1>19. WakeInv'
  BY <1>2, <1>18 DEF WakeInv
<1>20. OutsideInv'
  BY <1>2, <1>11, OutsideKept
<1>21. StageInv'
  BY <1>2 DEF StageInv, Moving
<1> QED BY <1>12, <1>15, <1>16, <1>17, <1>19, <1>20, <1>21

LEMMA ResolveEndsStep == ASSUME ProcessInv, ResolveEnds PROVE ProcessInv'
<1> USE DEF ProcessInv
<1>1. stack # <<>> /\ Top.kind = "resolve" /\ stage \in {"entry", "loop"}
  BY DEF ResolveEnds, Resolving
<1>2. PICK n \in Nat \ {0} : n = Len(stack) /\ DOMAIN stack = 1..n /\ Top = stack[n]
  BY <1>1, TopFacts
<1>3. PICK m \in Nat : m = n - 1
  BY <1>2
<1>4. /\ m + 1 = n /\ (m + 1)..m = {} /\ \A k \in (m + 1)..n : k = n
      /\ n \in 1..n /\ \A k \in 1..m : k \in 1..n /\ k + 1 \in 1..n /\ k # n
  BY <1>3, OneLess
<1>5. PICK p \in DOMAIN promises : p = Top.id /\ promises[p].resolved
  BY <1>1, <1>2, <1>4 DEF InRange, StackInv
<1>6. /\ promises' = [promises EXCEPT ![p].conts = <<>>] /\ stack' = Below
      /\ UNCHANGED <<program, stage, called, frames, loopVars>>
  BY <1>5 DEF ResolveEnds, Forget
<1>7. /\ stack' \in Seq(CallSet) /\ Len(stack') = m /\ Under(m)
      /\ \A k \in 1..m : stack'[k] = stack[k]
  BY <1>1, <1>2, <1>3, <1>6, Returned
<1>8. promises \in Seq(PromiseSet) /\ promises[p] \in PromiseSet
      /\ DOMAIN promises = 1..Len(promises)
  BY Indices DEF TypeInv
<1>9. PICK q \in PromiseSet : q = [promises[p] EXCEPT !.conts = <<>>]
  BY <1>8, EmptySeq DEF PromiseSet
<1>10. q.resolved /\ q.resolved = promises[p].resolved /\ q.conts = <<>>
  BY <1>5, <1>8, <1>9 DEF PromiseSet
<1>11. promises' = [promises EXCEPT ![p] = q]
  BY <1>6, <1>9
<1>12. /\ promises' \in Seq(PromiseSet) /\ DOMAIN promises' = DOMAIN promises
       /\ \A g \in DOMAIN promises : g # p => promises'[g] = promises[g]
       /\ promises'[p] = q
  BY <1>8, <1>11, ExceptSeq
<1>13. Grows
  BY <1>6, <1>10, <1>12 DEF Grows
<1>14. TypeInv'
  BY <1>6, <1>7, <1>12 DEF TypeInv, loopVars
<1>15. Effect(m, 0)
  BY <1>1, <1>2, <1>4, <1>6, <1>7, <1>13 DEF Effect
<1>16. 0 \notin DOMAIN frames
  BY Indices DEF TypeInv
<1>17. DOMAIN promises'[p].conts = {}
  BY <1>10, <1>12
<1>18. InRange'
  <2>1. \A g \in DOMAIN promises' : \A i \in DOMAIN promises'[g].conts :
          promises'[g].conts[i] \in DOMAIN frames'
    BY <1>6, <1>12, <1>17 DEF InRange
  <2> QED BY <1>4, <1>6, <1>7, <1>13, <1>14, <2>1, RangeKept
<1>19. StackInv'
  <2>1. \A k \in 1..m : /\ ~(stack[k].kind = "move" /\ stack[k].id = 0)
                        /\ ~(stack[k].kind = "entry" /\ stack[k].id = 0)
    BY <1>2, <1>4, <1>16 DEF InRange
  <2> QED BY <1>4, <1>7, <1>14, <1>15, <2>1, StackKept
<1>20. PlaceInv'
  <2>1. \A k \in 1..m : stack'[k].at = stack[k].at
    BY <1>7
  <2> QED BY <1>6, <1>14, <1>15, <1>16, <2>1, PlaceKept
<1>21. ASSUME NEW g \in DOMAIN promises, g # p
       PROVE  Wakes(g)'
  <2>1. Wakes(g)
    BY DEF WakeInv
  <2>2. 0 \notin ToResume(g)
    BY <1>16 DEF ToResume, InRange
  <2>3. ~promises'[g].resolved => Due(g)'
    BY <1>6, <1>12, <1>13, <1>21, <2>1, DueKept DEF Wakes
  <2>4. /\ \A k \in (m + 1)..Len(stack) : stack[k].kind # "resolve" \/ stack[k].id # g
        /\ promises'[g] = promises[g]
    BY <1>2, <1>4, <1>5, <1>12, <1>21
  <2> QED BY <1>14, <1>15, <2>1, <2>2, <2>3, <2>4, WakesKept
<1>22. Wakes(p)'
  <2>1. ToResume(p)' = {}
    BY <1>17 DEF ToResume
  <2> QED BY <1>10, <1>12, <1>17, <2>1 DEF Wakes
<1>23. WakeInv'
  BY <1>12, <1>21, <1>22 DEF WakeInv
<1>24. OutsideInv'
  <2>1. \A g \in Outer : promises'[g].resolved = promises[g].resolved
    BY <1>10, <1>12 DEF Outer
  <2> QED BY <1>6, <1>13, <2>1, OutsideKept
<1>25. StageInv'
  BY <1>1, <1>6 DEF StageInv
<1> QED BY <1>14, <1>18, <1>19, <1>20, <1>23, <1>24, <1>25

\* The next continuation: it is suspended, and is so for this promise alone.
LEMMA ContinueStep == ASSUME ProcessInv, Continue PROVE ProcessInv'
<1> USE DEF ProcessInv
<1>1. stack # <<>> /\ Top.kind = "resolve" /\ stage \in {"entry", "loop"}
  BY DEF Continue, Resolving
<1>2. PICK n \in Nat \ {0} : n = Len(stack) /\ DOMAIN stack = 1..n /\ Top = stack[n]
  BY <1>1, TopFacts
<1>3. n \in 1..n
  OBVIOUS
<1>4. PICK p \in DOMAIN promises : p = Top.id
  BY <1>1, <1>2, <1>3 DEF InRange
<1>5. PICK at \in Nat : at = Top.at
  BY <1>1, TopFacts DEF CallSet
<1>6. at + 1 \in DOMAIN promises[p].conts
  <2>1. promises[p] \in PromiseSet
    BY Indices DEF TypeInv
  <2>2. promises[p].conts \in Seq(Nat)
    BY <2>1 DEF PromiseSet
  <2>3. DOMAIN promises[p].conts = 1..Len(promises[p].conts)
        /\ Len(promises[p].conts) \in Nat
    BY <2>2, Indices
  <2>4. at < Len(promises[p].conts)
    BY <1>4, <1>5 DEF Continue
  <2> QED BY <2>3, <2>4
<1>7. PICK x \in DOMAIN frames : x = promises[p].conts[at + 1]
  BY <1>6 DEF InRange
<1>8. Suspended(x) /\ frames[x].awaited = p
  <2>1. \A k \in DOMAIN stack : stack[k].kind = "resolve" /\ stack[k].id = p => k = n
    BY <1>1, <1>2, <1>3, <1>4 DEF StackInv
  <2>2. \A k \in DOMAIN stack : stack[k].kind = "resolve" /\ stack[k].id = p =>
          stack[k].at < at + 1
    BY <1>2, <1>5, <2>1
  <2>3. x \in ToResume(p)
    BY <1>6, <1>7, <2>2 DEF ToResume
  <2> QED BY <2>3 DEF WakeInv, Wakes
<1>9. PICK st \in Nat : st = frames[x].state /\ st > 1 /\ st \in Places(x)
                        /\ Code(FnOf(x))[st - 1].op = "await"
  <2>1. frames[x] \in FrameSet
    BY Indices DEF TypeInv
  <2> QED BY <1>8, <2>1 DEF PlaceInv, CodeOf, FrameSet
<1>10. st - 1 \in DOMAIN Flat(FnOf(x)) /\ Code(FnOf(x))[st - 1] = Flat(FnOf(x))[st - 1]
  <2>1. FnOf(x) \in Functions
    BY FunctionOK
  <2>2. st \in DOMAIN Code(FnOf(x))
    BY <1>9, <2>1, BeforeReturn DEF Places
  <2>3. DOMAIN Code(FnOf(x)) = 1..Len(Code(FnOf(x))) /\ Len(Code(FnOf(x))) \in Nat
    BY <2>1, CodeOK, Indices
  <2>4. st - 1 \in DOMAIN Code(FnOf(x))
    BY <1>9, <2>2, <2>3
  <2> QED BY <1>9, <2>1, <2>4, CodeOK
<1>11. PICK instr \in Instrs : instr = Flat(FnOf(x))[st - 1] /\ instr.op = "await"
  <2>1. Flat(FnOf(x)) \in Seq(Instrs)
    BY FunctionOK, CodeOK
  <2> QED BY <1>9, <1>10, <2>1, Indices
<1>12. PICK c \in CallSet, d \in CallSet :
         c = [Top EXCEPT !.at = @ + 1] /\ d = Call("move", x, st)
  <2>1. [Top EXCEPT !.at = @ + 1] \in CallSet
    <3>1. Top \in CallSet
      BY <1>1, TopFacts
    <3> HIDE DEF Top
    <3> QED BY <3>1 DEF CallSet
  <2>2. Call("move", x, st) \in CallSet
    <3>1. x \in Nat
      BY Indices DEF TypeInv
    <3> QED BY <3>1 DEF Call, CallSet
  <2> QED BY <2>1, <2>2
<1>13. /\ c.kind = "resolve" /\ c.id = p /\ c.at = at + 1
       /\ d.kind = "move" /\ d.id = x /\ d.at = st
  BY <1>1, <1>4, <1>5, <1>12, TopFacts DEF Call, CallSet
<1>14. /\ stack' = Below \o <<c, d>>
       /\ frames' = [frames EXCEPT ![x].vars = Extract(CodeOf(x)[st - 1], @)]
       /\ UNCHANGED <<program, stage, called, promises, loopVars>>
  BY <1>4, <1>5, <1>7, <1>9, <1>12 DEF Continue
<1>15. /\ stack' \in Seq(CallSet) /\ Len(stack') = n + 1
       /\ \A k \in 1..(n - 1) : stack'[k] = stack[k]
       /\ stack'[n] = c /\ stack'[n + 1] = d
  <2>1. PICK l \in Nat : l = Len(Below) /\ l = n - 1 /\ l + 1 = n /\ l + 2 = n + 1
    <3>1. n - 1 \in Nat /\ (n - 1) + 1 = n /\ (n - 1) + 2 = n + 1
      OBVIOUS
    <3> QED BY <1>1, <1>2, <3>1, TopFacts
  <2>2. PICK b \in Seq(CallSet) : b = Below
    BY <1>1, TopFacts
  <2>3. LET t == b \o <<c, d>> IN
        /\ t \in Seq(CallSet) /\ Len(t) = Len(b) + 2
        /\ \A k \in 1..Len(b) : t[k] = b[k]
        /\ t[Len(b) + 1] = c /\ t[Len(b) + 2] = d
    BY <2>2, PushedTwo
  <2>4. stack' = b \o <<c, d>> /\ l = Len(b)
    BY <1>14, <2>1, <2>2
  <2>5. /\ stack' \in Seq(CallSet) /\ Len(stack') = l + 2
        /\ \A k \in 1..l : stack'[k] = b[k]
        /\ stack'[l + 1] = c /\ stack'[l + 2] = d
    BY <2>3, <2>4
  <2>6. \A k \in 1..l : b[k] = stack[k]
    BY <1>1, <1>2, <2>1, <2>2, TopFacts
  <2> QED BY <2>1, <2>5, <2>6
<1>16. /\ DOMAIN stack' = 1..(n + 1) /\ n \in 1..(n + 1) /\ n + 1 \in 1..(n + 1)
       /\ \A k \in (n + 1)..(n + 1) : k = n + 1
       /\ (n + 1)..n = {} /\ \A k \in 1..n : k \in 1..(n - 1) \/ k = n
       /\ n + 1 # 1 /\ (n + 1) - 1 = n
  BY <1>15, Indices
<1>17. Under(n)
  <2>1. at + 1 >= at
    OBVIOUS
  <2> QED BY <1>1, <1>2, <1>4, <1>5, <1>13, <1>15, <1>16, <2>1 DEF Under
<1>18. frames[x] \in FrameSet
  BY Indices DEF TypeInv
<1>19. PICK vars_ \in [Vars -> Int] :
         /\ vars_ = Extract(instr, frames[x].vars)
         /\ \A v \in Vars : vars_[v] = frames[x].vars[v] \/ v = instr.x
  <2>1. frames[x].vars \in [Vars -> Int]
    BY <1>18 DEF FrameSet
  <2> QED BY <2>1, ExtractFacts
<1>20. PICK r \in FrameSet : r = [frames[x] EXCEPT !.vars = vars_]
  BY <1>18 DEF FrameSet
<1>21. /\ r.fn = frames[x].fn /\ r.state = st /\ r.vars = vars_
       /\ r.awaited = frames[x].awaited
       /\ r.freed = frames[x].freed /\ r.result = frames[x].result
  BY <1>9, <1>18, <1>20 DEF FrameSet
<1>22. /\ frames' \in Seq(FrameSet) /\ DOMAIN frames' = DOMAIN frames
       /\ \A g \in DOMAIN frames : g # x => frames'[g] = frames[g]
       /\ frames'[x] = r
  <2>1. frames' = [frames EXCEPT ![x] = r]
    BY <1>10, <1>11, <1>14, <1>19, <1>20 DEF CodeOf
  <2> QED BY <2>1, Changed
<1>23. Grows
  BY <1>9, <1>14, <1>21, <1>22 DEF Grows
<1>24. TypeInv'
  BY <1>14, <1>15, <1>22 DEF TypeInv, loopVars
<1>25. Effect(n, x)
  BY <1>2, <1>13, <1>15, <1>16, <1>17, <1>22, <1>23 DEF Effect
<1>26. \A k \in 1..n : ~(stack[k].kind = "move" /\ stack[k].id = x)
  BY <1>2, <1>8 DEF Suspended, OnStack
<1>27. ~frames'[x].freed
  BY <1>8, <1>21, <1>22 DEF Suspended
<1>28. InRange'
  <2>1. \A g \in DOMAIN promises' : \A i \in DOMAIN promises'[g].conts :
          promises'[g].conts[i] \in DOMAIN frames'
    BY <1>14, <1>22 DEF InRange
  <2>2. \A k \in (n + 1)..Len(stack') : stack'[k].kind # "resolve"
                                        /\ stack'[k].id \in DOMAIN frames'
    BY <1>13, <1>15, <1>16, <1>22
  <2> QED BY <1>17, <1>22, <1>23, <1>24, <2>1, <2>2, RangeKept
<1>29. StackInv'
  <2>1. \A j \in 1..n : stack'[j].kind # "move" \/ stack'[j].id # x
    BY <1>13, <1>15, <1>16, <1>26
  <2>2. Fits(stack[(n + 1) - 1], stack[n + 1])'
    BY <1>13, <1>15, <1>16 DEF Fits
  <2>3. ASSUME NEW k \in (n + 1)..Len(stack')
        PROVE  /\ IF k = 1 THEN stack'[k].kind # "move" ELSE Fits(stack[k - 1], stack[k])'
               /\ \A j \in 1..(k - 1) :
                    stack'[j].kind # stack'[k].kind \/ stack'[j].id # stack'[k].id
               /\ stack'[k].kind = "move" => ~frames'[stack'[k].id].freed
               /\ stack'[k].kind = "entry" => ~frames'[stack'[k].id].freed
               /\ stack'[k].kind = "resolve" => promises'[stack'[k].id].resolved
    <3>1. k = n + 1
      BY <1>15, <1>16
    <3>2. Fits(stack[k - 1], stack[k])'
      BY <2>2, <3>1 DEF Fits
    <3> QED BY <1>13, <1>15, <1>16, <1>27, <2>1, <3>1, <3>2
  <2> QED BY <1>24, <1>25, <1>26, <1>27, <2>3, StackKept
<1>30. st \in Places(x)'
  <2>1. \A v \in Vars : \/ frames'[x].vars[v] = frames[x].vars[v]
                        \/ v = Flat(FnOf(x))[st - 1].x
    BY <1>11, <1>19, <1>21, <1>22
  <2> QED BY <1>9, <1>10, <1>11, <1>23, <2>1, Extracts
<1>31. PlaceInv'
  <2>1. \A k \in 1..n : stack[k].kind = "move" => stack'[k].at = stack[k].at
    BY <1>1, <1>2, <1>15, <1>16
  <2>2. \A k \in DOMAIN stack' : stack'[k].kind = "move" /\ stack'[k].id = x =>
          stack'[k].at \in Places(x)'
    <3>1. \A k \in 1..n : stack'[k].kind # "move" \/ stack'[k].id # x
      BY <1>13, <1>15, <1>16, <1>26
    <3>2. \A k \in 1..(n + 1) : k \in 1..n \/ k = n + 1
      OBVIOUS
    <3> QED BY <1>13, <1>15, <1>16, <1>30, <3>1, <3>2
  <2>3. ~Suspended(x)'
    BY <1>13, <1>15, <1>16 DEF Suspended, OnStack
  <2> QED BY <1>22, <1>24, <1>25, <2>1, <2>2, <2>3, PlaceKept
<1>32. ASSUME NEW g \in DOMAIN promises
       PROVE  Wakes(g)'
  <2>1. Wakes(g)
    BY DEF WakeInv
  <2>2. x \notin ToResume(g) \/ x \notin ToResume(g)'
    <3>1. CASE g # p
      BY <1>8, <2>1, <3>1 DEF Wakes
    <3>2. CASE g = p
      <4>1. \A i \in DOMAIN promises[p].conts : promises[p].conts[i] = x => i = at + 1
        BY <1>6, <1>7, <2>1, <3>2 DEF Wakes
      <4>2. \A i : (\A k \in DOMAIN stack' :
                      stack'[k].kind = "resolve" /\ stack'[k].id = p => stack'[k].at < i)
                   => i # at + 1
        BY <1>13, <1>15, <1>16
      <4>3. x \notin ToResume(p)'
        BY <1>14, <4>1, <4>2 DEF ToResume
      <4> QED BY <3>2, <4>3
    <3> QED BY <3>1, <3>2
  <2>3. \A id \in DOMAIN frames : frames'[id].freed = frames[id].freed
    BY <1>21, <1>22
  <2>4. ~promises'[g].resolved => Due(g)'
    BY <1>14, <1>23, <2>1, <2>3, DueKept DEF Wakes
  <2>5. (n + 1)..Len(stack) = {} /\ promises'[g] = promises[g]
    BY <1>2, <1>14, <1>16
  <2> QED BY <1>24, <1>25, <2>1, <2>2, <2>4, <2>5, WakesKept
<1>33. WakeInv'
  BY <1>14, <1>32 DEF WakeInv
<1>34. OutsideInv'
  BY <1>14, <1>23, OutsideKept
<1>35. StageInv'
  BY <1>1, <1>14 DEF StageInv
<1> QED BY <1>24, <1>28, <1>29, <1>31, <1>33, <1>34, <1>35

\* The function that made a struct returns to main().
LEMMA ReturnToMain == ASSUME ProcessInv, ReturnPromise, Below = <<>> PROVE ProcessInv'
<1> USE DEF ProcessInv
<1>1. /\ stack # <<>> /\ Top.kind = "entry" /\ stack' = <<>>
      /\ UNCHANGED <<program, stage, called, frames, promises, loopVars>>
      /\ stage \in {"entry", "loop"}
  BY DEF ReturnPromise
<1>2. Len(stack) = 1 /\ DOMAIN stack = 1..1 /\ Top = stack[1]
  <2>1. Len(Below) = 0
    BY EmptySeq
  <2>2. Len(stack) \in Nat \ {0} /\ Len(stack) - 1 = 0
    BY <1>1, <2>1, TopFacts
  <2>3. Len(stack) = 1
    BY <2>2
  <2> QED BY <1>1, <2>3, TopFacts
<1>3. stack' \in Seq(CallSet) /\ Len(stack') = 0 /\ DOMAIN stack' = 1..0
  BY <1>1, EmptySeq, Indices
<1>4. TypeInv'
  BY <1>1, <1>3 DEF TypeInv, loopVars
<1>5. Grows
  BY <1>1 DEF Grows
<1>6. Under(0)
  BY <1>2, <1>3 DEF Under
<1>7. Effect(0, 0)
  <2>1. \A k \in (0 + 1)..Len(stack) : k = 1
    BY <1>2
  <2>2. (0 + 1)..Len(stack') = {}
    BY <1>3
  <2> QED BY <1>1, <1>2, <1>5, <1>6, <2>1, <2>2 DEF Effect
<1>8. 1..0 = {} /\ (0 + 1)..Len(stack') = {}
  BY <1>3
<1>9. 0 \notin DOMAIN frames
  BY Indices DEF TypeInv
<1>10. InRange'
  <2>1. \A p \in DOMAIN promises' : \A i \in DOMAIN promises'[p].conts :
          promises'[p].conts[i] \in DOMAIN frames'
    BY <1>1 DEF InRange
  <2> QED BY <1>1, <1>4, <1>5, <1>6, <1>8, <2>1, RangeKept
<1>11. StackInv'
  BY <1>4, <1>7, <1>8, StackKept
<1>12. PlaceInv'
  BY <1>1, <1>3, <1>4, <1>7, <1>8, <1>9, PlaceKept
<1>13. ASSUME NEW p \in DOMAIN promises
       PROVE  Wakes(p)'
  <2>1. Wakes(p)
    BY DEF WakeInv
  <2>2. 0 \notin ToResume(p)
    BY <1>9 DEF ToResume, InRange
  <2>3. ~promises'[p].resolved => Due(p)'
    BY <1>1, <1>5, <2>1, DueKept DEF Wakes
  <2>4. /\ \A k \in (0 + 1)..Len(stack) : stack[k].kind # "resolve"
        /\ promises'[p] = promises[p]
    BY <1>1, <1>2
  <2> QED BY <1>4, <1>7, <2>1, <2>2, <2>3, <2>4, WakesKept
<1>14. WakeInv'
  BY <1>1, <1>13 DEF WakeInv
<1>15. OutsideInv'
  BY <1>1, <1>5, OutsideKept
<1>16. StageInv'
  BY <1>1 DEF StageInv
<1> QED BY <1>4, <1>10, <1>11, <1>12, <1>14, <1>15, <1>16

\* The function that made a struct returns its promise to moveNext of another.
LEMMA ReturnToCaller ==
  ASSUME ProcessInv, ReturnPromise, Below # <<>>
  PROVE  ProcessInv'
<1> USE DEF ProcessInv
<1>1. stack # <<>> /\ Top.kind = "entry" /\ stage \in {"entry", "loop"}
  BY DEF ReturnPromise
<1>2. PICK n \in Nat \ {0} : n = Len(stack) /\ DOMAIN stack = 1..n /\ Top = stack[n]
  BY <1>1, TopFacts
<1>3. PICK m \in Nat \ {0} : m = n - 1 /\ m = Len(Below) /\ Last(Below) = stack[m]
  <2>1. Below \in Seq(CallSet) /\ Len(Below) = n - 1
        /\ \A k \in 1..(n - 1) : Below[k] = stack[k]
    BY <1>1, <1>2, TopFacts
  <2> HIDE DEF Below
  <2>2. Len(Below) \in Nat \ {0} /\ Last(Below) = Below[Len(Below)]
    BY <2>1, EmptySeq, Popped
  <2>3. Len(Below) \in 1..(n - 1)
    BY <2>1, <2>2
  <2> QED BY <2>1, <2>2, <2>3
<1>4. /\ m + 1 = n /\ (m + 1)..m = {} /\ \A k \in (m + 1)..n : k = n
      /\ n \in 1..n /\ \A k \in 1..m : k \in 1..n /\ k + 1 \in 1..n /\ k # n
      /\ m \in 1..m /\ m \in 1..n /\ m \in 1..(n - 1)
  BY <1>3, OneLess
<1>5. PICK g \in DOMAIN frames : g = Top.id
  BY <1>1, <1>2, <1>4 DEF InRange
<1>6. /\ stack[m].kind = "move" /\ g > stack[m].id
      /\ CodeOf(stack[m].id)[stack[m].at].op = "call"
  <2>1. Fits(stack[m], stack[m + 1])
    BY <1>2, <1>4 DEF StackInv
  <2> QED BY <1>1, <1>2, <1>4, <1>5, <2>1 DEF Fits
<1>7. PICK x \in DOMAIN frames : x = stack[m].id
  BY <1>2, <1>4, <1>6 DEF InRange
<1>8. PICK at \in Nat \ {0} : at = stack[m].at /\ at \in Places(x)
  BY <1>2, <1>4, <1>6, <1>7 DEF PlaceInv, Places
<1>9. PICK instr \in Instrs : instr = Code(FnOf(x))[at] /\ instr.op = "call"
  <2>1. HasReturn(Code(FnOf(x)), at) /\ FnOf(x) \in Functions
    BY <1>8, FunctionOK DEF Places
  <2> QED BY <1>6, <1>7, <1>8, <2>1, BeforeReturn DEF CodeOf
<1>10. PICK value \in Read(g) :
         /\ Assign(x, instr.x, value)
         /\ stack' = Append(Front(Below), [stack[m] EXCEPT !.at = @ + 1])
         /\ UNCHANGED <<program, stage, called, promises, loopVars>>
  BY <1>3, <1>5, <1>7, <1>8, <1>9 DEF ReturnPromise, CodeOf
<1>11. frames[g] \in FrameSet /\ stack[m] \in CallSet
  BY <1>2, <1>4, Indices DEF TypeInv
<1>12. value \in Int /\ instr.x \in Vars
  BY <1>10, <1>11 DEF Read, Garbage, FrameSet, Instrs
<1>13. /\ frames' \in Seq(FrameSet) /\ DOMAIN frames' = DOMAIN frames
       /\ \A h \in DOMAIN frames : h # x => frames'[h] = frames[h]
       /\ frames'[x].fn = frames[x].fn /\ frames'[x].state = frames[x].state
       /\ frames'[x].awaited = frames[x].awaited
       /\ frames'[x].freed = frames[x].freed
       /\ frames'[x].result = frames[x].result
       /\ \A w \in Vars : frames'[x].vars[w] = IF w = instr.x THEN value
                                               ELSE frames[x].vars[w]
  BY <1>10, <1>12, Assigned
<1>14. Grows
  BY <1>10, <1>13 DEF Grows
<1>15. PICK c \in CallSet : /\ c = [stack[m] EXCEPT !.at = @ + 1]
                            /\ c.kind = "move" /\ c.id = x /\ c.at = at + 1
  <2> DEFINE s == stack[m]
  <2>1. s \in CallSet /\ s.kind = "move" /\ s.id = x /\ s.at = at
    BY <1>6, <1>7, <1>8, <1>11
  <2> HIDE DEF s
  <2>2. /\ [s EXCEPT !.at = @ + 1] \in CallSet /\ [s EXCEPT !.at = @ + 1].kind = "move"
        /\ [s EXCEPT !.at = @ + 1].id = x /\ [s EXCEPT !.at = @ + 1].at = at + 1
    BY <2>1 DEF CallSet
  <2> QED BY <2>2 DEF s
<1>16. /\ stack' \in Seq(CallSet) /\ Len(stack') = m /\ stack'[m] = c
       /\ \A k \in 1..(m - 1) : stack'[k] = stack[k]
  <2>1. PICK b \in Seq(CallSet) : b = Below /\ Len(b) = m /\ b # <<>>
                                  /\ \A k \in 1..m : b[k] = stack[k]
    BY <1>1, <1>2, <1>3, TopFacts
  <2>2. LET t == Append(Front(b), c) IN
        /\ t \in Seq(CallSet) /\ Len(t) = Len(b) /\ t[Len(b)] = c
        /\ \A i \in 1..(Len(b) - 1) : t[i] = b[i]
    BY <2>1, Replaced
  <2>3. stack' = Append(Front(b), c)
    BY <1>10, <1>15, <2>1
  <2>4. \A k \in 1..(m - 1) : k \in 1..m
    OBVIOUS
  <2> QED BY <2>1, <2>2, <2>3, <2>4
<1>17. DOMAIN stack' = 1..m /\ \A k \in 1..m : k \in 1..(m - 1) \/ k = m
  BY <1>16, Indices
<1>18. Under(m)
  <2>1. m \in 0..n /\ m <= m /\ at + 1 >= at
    BY <1>3
  <2> QED BY <1>2, <1>6, <1>7, <1>8, <1>15, <1>16, <2>1 DEF Under
<1>19. TypeInv'
  BY <1>10, <1>13, <1>16 DEF TypeInv, loopVars
<1>20. Effect(m, x)
  BY <1>1, <1>2, <1>4, <1>13, <1>14, <1>16, <1>17, <1>18 DEF Effect

<1>21. InRange'
  <2>1. \A p \in DOMAIN promises' : \A i \in DOMAIN promises'[p].conts :
          promises'[p].conts[i] \in DOMAIN frames'
    BY <1>10, <1>13 DEF InRange
  <2> QED BY <1>4, <1>13, <1>14, <1>16, <1>18, <1>19, <2>1, RangeKept
<1>22. StackInv'
  <2>1. \A k \in 1..m : stack[k].kind = "entry" /\ stack[k].id = x /\ frames'[x].freed =>
          frames'[x].state = 1
    <3>1. \A k \in 1..m : stack[k].kind = "entry" /\ stack[k].id = x /\ frames[x].freed =>
            frames[x].state = 1
      BY <1>2, <1>4 DEF StackInv
    <3> QED BY <1>13, <3>1
  <2> QED BY <1>4, <1>13, <1>16, <1>19, <1>20, <2>1, StackKept
<1>23. instr.op # "return" /\ instr.op # "await" /\ instr.op \notin {"timer", "work"}
       /\ instr.op \in Defining
  BY <1>9 DEF Defining
<1>24. \/ value = Garbage /\ Quick'
       \/ value \in Later(x)'
  <2>1. \/ value = Garbage /\ frames[g].freed
        \/ value = frames[g].result
    BY <1>10 DEF Read
  <2>2. ASSUME frames[g].freed
        PROVE  Quick'
    <3>1. frames[g].state = 1
      BY <1>1, <1>2, <1>4, <1>5, <2>2 DEF StackInv
    <3> QED BY <1>14, <2>2, <3>1, Grown DEF Quick
  <2>3. frames[g].result \in Later(x)'
    <3>1. frames[g].result \in Later(x)
      BY <1>5, <1>6, <1>7 DEF Later, InRange
    <3> QED BY <1>14, <3>1, Grown
  <2> QED BY <2>1, <2>2, <2>3
<1>25. at + 1 \in Places(x)'
  <2>1. frames'[x].vars[instr.x] = value
    BY <1>12, <1>13
  <2>2. \A v \in Vars : \/ frames'[x].vars[v] = frames[x].vars[v]
                        \/ Defines(instr, v) /\ instr.op # "phi"
    BY <1>9, <1>13, <1>23 DEF Defines
  <2>3. \/ frames'[x].vars[instr.x] = Garbage /\ Quick'
        \/ frames'[x].vars[instr.x] \in Later(x)'
    BY <1>24, <2>1
  <2> QED BY <1>8, <1>9, <1>14, <1>23, <2>2, <2>3, Advances
<1>26. \A k \in 1..m : stack[k].kind = "move" /\ stack[k].id = x => k = m
  BY <1>2, <1>4, <1>6, <1>7 DEF StackInv
<1>27. PlaceInv'
  <2>1. \A k \in 1..m : stack[k].kind = "move" /\ stack[k].id # x =>
          stack'[k].at = stack[k].at
    BY <1>7, <1>16, <1>17
  <2>2. \A k \in DOMAIN stack' : stack'[k].kind = "move" /\ stack'[k].id = x =>
          stack'[k].at \in Places(x)'
    <3>1. \A k \in 1..(m - 1) : stack'[k] = stack[k] /\ k \in 1..m /\ k # m
      BY <1>16
    <3>2. \A k \in 1..(m - 1) : stack'[k].kind # "move" \/ stack'[k].id # x
      BY <1>26, <3>1
    <3>3. stack'[m].at \in Places(x)'
      BY <1>15, <1>16, <1>25
    <3> QED BY <1>17, <3>2, <3>3
  <2>3. ~Suspended(x)'
    BY <1>4, <1>15, <1>16, <1>17 DEF Suspended, OnStack
  <2> QED BY <1>13, <1>19, <1>20, <2>1, <2>2, <2>3, PlaceKept
<1>28. ASSUME NEW p \in DOMAIN promises
       PROVE  Wakes(p)'
  <2>1. Wakes(p)
    BY DEF WakeInv
  <2>2. x \notin ToResume(p)
    <3>1. OnStack("move", x)
      BY <1>2, <1>4, <1>6, <1>7 DEF OnStack
    <3> QED BY <2>1, <3>1 DEF Wakes, Suspended
  <2>3. \A h \in DOMAIN frames : frames'[h].freed = frames[h].freed
    BY <1>13
  <2>4. ~promises'[p].resolved => Due(p)'
    BY <1>10, <1>14, <2>1, <2>3, DueKept DEF Wakes
  <2>5. /\ \A k \in (m + 1)..Len(stack) : stack[k].kind # "resolve"
        /\ promises'[p] = promises[p]
    BY <1>1, <1>2, <1>4, <1>10
  <2> QED BY <1>19, <1>20, <2>1, <2>2, <2>4, <2>5, WakesKept
<1>29. WakeInv'
  BY <1>10, <1>28 DEF WakeInv
<1>30. OutsideInv'
  BY <1>10, <1>14, OutsideKept
<1>31. StageInv'
  BY <1>1, <1>10 DEF StageInv
<1> QED BY <1>19, <1>21, <1>22, <1>27, <1>29, <1>30, <1>31

LEMMA ReturnPromiseStep == ASSUME ProcessInv, ReturnPromise PROVE ProcessInv'
BY ReturnToMain, ReturnToCaller

-----------------------------------------------------------------------------
(* A struct is made                                                         *)

\* The index of a parameter.
LEMMA FirstAt ==
  ASSUME NEW S, NEW s \in Seq(S), NEW v \in ToSet(s)
  PROVE  /\ SelectInSeq(s, LAMBDA p : p = v) \in DOMAIN s
         /\ s[SelectInSeq(s, LAMBDA p : p = v)] = v
<1> DEFINE I == {i \in 1..Len(s) : s[i] = v}
<1>1. Len(s) \in Nat /\ DOMAIN s = 1..Len(s)
  BY Indices
<1>2. I \in SUBSET Nat /\ I # {}
  BY <1>1 DEF ToSet
<1>3. SelectInSeq(s, LAMBDA p : p = v) = Min(I)
  BY <1>2 DEF SelectInSeq
<1>4. Min(I) \in I
  BY <1>2, MinOfNumbers
<1> QED BY <1>1, <1>3, <1>4

\* Its promise is its own, its parameters hold what was given, it starts at the
\* first case.
LEMMA Made ==
  ASSUME ProcessInv, NEW fn \in DOMAIN program.functions, NEW args, NEW f,
         f = program.functions[fn], Enter(fn, args, stack), program' = program,
         \A k \in DOMAIN f.params :
           args[k] \in Int /\ (f.params[k] \in f.promised => args[k] \in Outer),
         NEW y, y = Len(frames) + 1
  PROVE  /\ y \in Nat /\ \A g \in DOMAIN frames : g \in Nat /\ g < y
         /\ frames' \in Seq(FrameSet) /\ DOMAIN frames' = DOMAIN frames \cup {y}
         /\ \A g \in DOMAIN frames : frames'[g] = frames[g]
         /\ frames'[y].fn = fn /\ frames'[y].state = 1 /\ ~frames'[y].freed
         /\ promises' = Append(promises, Pending)
         /\ frames'[y].result = Len(promises) + 1
         /\ Grows /\ 1 \in Places(y)'
<1> USE DEF ProcessInv
<1>1. PICK a \in Nat : a = Len(promises) + 1
  BY Indices DEF TypeInv
<1>2. promises' = Append(promises, Pending)
  BY DEF Enter
<1>3. /\ promises' \in Seq(PromiseSet) /\ a \notin DOMAIN promises
      /\ DOMAIN promises' = DOMAIN promises \cup {a} /\ promises'[a] = Pending
      /\ \A p \in DOMAIN promises : promises'[p] = promises[p]
  BY <1>1, <1>2, NewPromise
<1>4. f \in Functions /\ WellTyped(program, f) /\ fn \in Nat
  <2>1. program.functions \in Seq(Functions)
    BY AotAsyncAssumption DEF TypeInv, IsProgram
  <2> QED BY <2>1, ProgramOK, Indices DEF TypeInv
<1>5. f.params \in Seq(Vars) /\ f.promised \subseteq ToSet(f.params)
  BY <1>4 DEF Functions, WellTyped
<1> DEFINE at(v) == SelectInSeq(f.params, LAMBDA p : p = v)
           vars_ == [v \in Vars |-> IF v \in ToSet(f.params) THEN args[at(v)] ELSE Zero]
<1>6. \A v \in ToSet(f.params) : at(v) \in DOMAIN f.params /\ f.params[at(v)] = v
  BY <1>5, FirstAt
<1>7. /\ vars_ \in [Vars -> Int]
      /\ \A v \in f.promised : v \in Vars /\ vars_[v] \in Outer
      /\ \A v \in Vars : v \notin ToSet(f.params) => vars_[v] = Zero
  <2> HIDE DEF at
  <2>1. \A v \in ToSet(f.params) : args[at(v)] \in Int
    BY <1>6
  <2>2. \A v \in f.promised : v \in ToSet(f.params) /\ args[at(v)] \in Outer
    BY <1>5, <1>6
  <2>3. \A v \in ToSet(f.params) : v \in Vars
    BY <1>5, Indices DEF ToSet
  <2> QED BY <2>1, <2>2, <2>3 DEF Zero
<1>8. frames' = Append(frames, [fn |-> fn, state |-> 1, awaited |-> Zero, freed |-> FALSE,
                                result |-> a, vars |-> vars_])
  BY <1>1 DEF Enter
<1> HIDE DEF vars_
<1>9. PICK r \in FrameSet : /\ frames' = Append(frames, r) /\ r.fn = fn /\ r.state = 1
                            /\ ~r.freed /\ r.result = a /\ r.vars = vars_
  <2> DEFINE r == [fn |-> fn, state |-> 1, awaited |-> Zero, freed |-> FALSE,
                   result |-> a, vars |-> vars_]
  <2>1. r \in FrameSet
    BY <1>4, <1>7 DEF FrameSet, Zero
  <2>2. /\ frames' = Append(frames, r) /\ r.fn = fn /\ r.state = 1
        /\ ~r.freed /\ r.result = a /\ r.vars = vars_
    BY <1>8
  <2> HIDE DEF r
  <2> QED BY <2>1, <2>2
<1>10. frames \in Seq(FrameSet) /\ Len(frames) \in Nat /\ DOMAIN frames = 1..Len(frames)
  BY Indices DEF TypeInv
<1>11. y \in Nat /\ \A g \in DOMAIN frames : g \in Nat /\ g < y
  BY <1>10
<1>12. /\ frames' \in Seq(FrameSet) /\ Len(frames') = y /\ frames'[y] = r
       /\ \A g \in DOMAIN frames : frames'[g] = frames[g]
  BY <1>9, <1>10, Pushed
<1>13. DOMAIN frames' = DOMAIN frames \cup {y}
  <2>1. DOMAIN frames' = 1..y
    BY <1>12, Indices
  <2>2. 1..y = 1..Len(frames) \cup {y}
    BY <1>10
  <2> QED BY <1>10, <2>1, <2>2
<1>14. Grows
  BY <1>3, <1>9, <1>11, <1>12, <1>13 DEF Grows
<1>15. 1 \in Places(y)'
  <2>1. FnOf(y)' = f
    BY <1>9, <1>12 DEF FnOf
  <2>2. HasReturn(Code(f), 1)
    <3>1. DOMAIN Code(f) = 1..Len(Code(f)) /\ Len(Code(f)) \in Nat
      BY <1>4, CodeOK, Indices
    <3> QED BY <1>4, <3>1, CodeOK DEF HasReturn
  <2>3. \A v \in f.promised : frames'[y].vars[v] \in Outer'
    BY <1>7, <1>9, <1>12, <1>14, Grown
  <2>4. ASSUME NEW v \in Chosen(f)
        PROVE  frames'[y].vars[v] = Zero
    <3>1. PICK i \in DOMAIN Flat(f) : Flat(f)[i].op = "phi" /\ Flat(f)[i].x = v
      BY DEF Chosen, Results
    <3>2. v \in Vars /\ v \notin ToSet(f.params)
      BY <1>4, <3>1, DefinedOnce DEF Chosen, Results, Defining
    <3> QED BY <1>7, <1>9, <1>12, <3>2
  <2>5. 1..(1 - 1) = {} /\ 1 \in Nat \ {0}
    OBVIOUS
  <2> QED BY <2>1, <2>2, <2>3, <2>4, <2>5 DEF Places
<1> QED BY <1>1, <1>2, <1>9, <1>11, <1>12, <1>13, <1>14, <1>15

\* A struct is made, and moved to its first place.
LEMMA Entered ==
  ASSUME ProcessInv, NEW fn \in DOMAIN program.functions, NEW args,
         Enter(fn, args, stack), UNCHANGED <<program, loopVars>>,
         \A k \in DOMAIN program.functions[fn].params :
           /\ args[k] \in Int
           /\ program.functions[fn].params[k] \in program.functions[fn].promised =>
                args[k] \in Outer,
         stack # <<>> =>
           Top.kind = "move" /\ Code(FnOf(Top.id))[Top.at].op = "call"
  PROVE  /\ frames' \in Seq(FrameSet) /\ promises' \in Seq(PromiseSet)
         /\ stack' \in Seq(CallSet)
         /\ TypeInv' =>
              InRange' /\ OutsideInv' /\ StackInv' /\ PlaceInv' /\ WakeInv'
<1> USE DEF ProcessInv
<1>1. PICK n \in Nat : n = Len(stack) /\ DOMAIN stack = 1..n
  BY Indices DEF TypeInv
<1>2. PICK y \in Nat, a \in Nat : y = Len(frames) + 1 /\ a = Len(promises) + 1
  <2>1. Len(frames) \in Nat
    BY Indices DEF TypeInv
  <2>2. Len(promises) \in Nat
    BY Indices DEF TypeInv
  <2> QED BY <2>1, <2>2
<1>3. /\ \A g \in DOMAIN frames : g \in Nat /\ g < y
      /\ frames' \in Seq(FrameSet) /\ DOMAIN frames' = DOMAIN frames \cup {y}
      /\ \A g \in DOMAIN frames : frames'[g] = frames[g]
      /\ frames'[y].fn = fn /\ frames'[y].state = 1 /\ ~frames'[y].freed
      /\ promises' = Append(promises, Pending)
      /\ frames'[y].result = a
      /\ Grows /\ 1 \in Places(y)'
  <2> HIDE DEF ProcessInv
  <2> QED BY <1>2, Made
<1>4. /\ promises' \in Seq(PromiseSet) /\ a \notin DOMAIN promises
      /\ DOMAIN promises' = DOMAIN promises \cup {a} /\ promises'[a] = Pending
      /\ \A p \in DOMAIN promises : promises'[p] = promises[p]
  BY <1>2, <1>3, NewPromise
<1>5. PICK c \in CallSet, d \in CallSet :
        /\ stack' = stack \o <<c, d>>
        /\ c.kind = "entry" /\ c.id = y /\ d.kind = "move" /\ d.id = y /\ d.at = 1
  <2>1. Call("entry", y, 0) \in CallSet /\ Call("move", y, 1) \in CallSet
    BY DEF Call, CallSet
  <2>2. stack' = stack \o <<Call("entry", y, 0), Call("move", y, 1)>>
    BY <1>2 DEF Enter
  <2> QED BY <2>1, <2>2 DEF Call
<1>6. /\ stack' \in Seq(CallSet) /\ Len(stack') = n + 2
      /\ \A k \in 1..n : stack'[k] = stack[k]
      /\ stack'[n + 1] = c /\ stack'[n + 2] = d
  <2>1. stack \in Seq(CallSet)
    BY DEF TypeInv
  <2> QED BY <1>1, <1>5, <2>1, PushedTwo
<1>7. /\ DOMAIN stack' = 1..(n + 2) /\ n + 1 \in 1..(n + 2) /\ n + 2 \in 1..(n + 2)
      /\ (n + 1)..n = {} /\ \A k \in (n + 1)..(n + 2) : k = n + 1 \/ k = n + 2
      /\ \A k \in 1..(n + 2) : k \in 1..n \/ k = n + 1 \/ k = n + 2
      /\ (n + 1) - 1 = n /\ (n + 2) - 1 = n + 1 /\ n + 2 # 1 /\ (n + 1 = 1 <=> n = 0)
      /\ n + 1 # n + 2
  BY <1>6, Indices
<1>8. Under(n)
  <2>1. /\ n \in 0..n /\ n <= n + 2 /\ \A k \in 1..(n - 1) : k \in 1..n
        /\ n > 0 => n \in 1..n
    OBVIOUS
  <2>2. ASSUME NEW k \in 1..n
        PROVE  stack[k].at >= stack[k].at
    <3>1. stack[k] \in CallSet
      BY <1>1, <2>2, Indices DEF TypeInv
    <3>2. stack[k].at \in Nat
      BY <3>1 DEF CallSet
    <3> QED BY <3>2
  <2> QED BY <1>1, <1>6, <2>1, <2>2 DEF Under
<1>9. y \notin DOMAIN frames /\ 0 \notin DOMAIN frames
  BY <1>3, Indices DEF TypeInv
<1>10. Effect(n, 0)
  BY <1>1, <1>3, <1>5, <1>6, <1>7, <1>8, <1>9 DEF Effect
<1> SUFFICES ASSUME TypeInv'
             PROVE  InRange' /\ OutsideInv' /\ StackInv' /\ PlaceInv' /\ WakeInv'
  BY <1>3, <1>4, <1>6
<1>11. InRange'
  <2>1. \A p \in DOMAIN promises' : \A i \in DOMAIN promises'[p].conts :
          promises'[p].conts[i] \in DOMAIN frames'
    <3>1. DOMAIN promises'[a].conts = {}
      BY <1>4 DEF Pending
    <3> QED BY <1>3, <1>4, <3>1 DEF InRange
  <2>2. \A k \in (n + 1)..Len(stack') : stack'[k].kind # "resolve"
                                        /\ stack'[k].id \in DOMAIN frames'
    BY <1>3, <1>5, <1>6, <1>7
  <2>3. /\ \A g, h \in DOMAIN frames' : g \in DOMAIN frames \/ h \in DOMAIN frames \/ g = h
        /\ \A g \in DOMAIN frames' : g \in DOMAIN frames \/
             /\ frames'[g].fn \in DOMAIN program.functions
             /\ frames'[g].result \in DOMAIN promises'
    BY <1>3, <1>4
  <2> QED BY <1>3, <1>8, <2>1, <2>2, <2>3, RangeKept
<1>12. StackInv'
  <2>1. \A j \in 1..n : stack'[j].kind = "resolve" \/ stack'[j].id # y
    BY <1>1, <1>6, <1>9 DEF InRange
  <2>2. Fits(stack[n + 1], stack[n + 2])'
    BY <1>3, <1>5, <1>6 DEF Fits
  <2>3. IF n + 1 = 1 THEN stack'[n + 1].kind # "move" ELSE Fits(stack[n], stack[n + 1])'
    <3>1. CASE n = 0
      BY <1>5, <1>6, <1>7, <3>1
    <3>2. CASE n # 0
      <4>1. n \in 1..n
        BY <3>2
      <4>2. stack # <<>>
        BY <1>1, <3>2, Indices DEF TypeInv
      <4>3. PICK x \in DOMAIN frames : x = stack[n].id
        BY <1>1, <4>1, <4>2, TopFacts DEF InRange
      <4>4. stack'[n].kind = "move" /\ stack'[n].id = x /\ stack'[n].at = stack[n].at
            /\ Code(FnOf(x))[stack[n].at].op = "call"
        BY <1>1, <1>6, <4>1, <4>2, <4>3, TopFacts
      <4>5. FnOf(x)' = FnOf(x) /\ y > x
        BY <1>3, <4>3, Grown
      <4>6. CodeOf(x)'[stack'[n].at].op = "call"
        BY <4>4, <4>5 DEF CodeOf
      <4>7. Fits(stack[n], stack[n + 1])'
        BY <1>5, <1>6, <4>4, <4>5, <4>6 DEF Fits
      <4> QED BY <1>7, <3>2, <4>7
    <3> QED BY <3>1, <3>2
  <2>4. ASSUME NEW k \in (n + 1)..Len(stack')
        PROVE  /\ IF k = 1 THEN stack'[k].kind # "move" ELSE Fits(stack[k - 1], stack[k])'
               /\ \A j \in 1..(k - 1) :
                    stack'[j].kind # stack'[k].kind \/ stack'[j].id # stack'[k].id
               /\ stack'[k].kind = "move" => ~frames'[stack'[k].id].freed
               /\ stack'[k].kind = "entry" => ~frames'[stack'[k].id].freed
               /\ stack'[k].kind = "resolve" => promises'[stack'[k].id].resolved
    <3>1. k = n + 1 \/ k = n + 2
      BY <1>6, <1>7
    <3>2. CASE k = n + 1
      <4>1. IF k = 1 THEN stack'[k].kind # "move" ELSE Fits(stack[k - 1], stack[k])'
        BY <1>7, <2>3, <3>2 DEF Fits
      <4> QED BY <1>3, <1>5, <1>6, <1>7, <2>1, <3>2, <4>1
    <3>3. CASE k = n + 2
      <4>1. IF k = 1 THEN stack'[k].kind # "move" ELSE Fits(stack[k - 1], stack[k])'
        BY <1>7, <2>2, <3>3 DEF Fits
      <4>2. \A j \in 1..(k - 1) : j \in 1..n \/ j = n + 1
        BY <1>7, <3>3
      <4>3. stack'[k].kind = "move" /\ stack'[k].id = y
        BY <1>5, <1>6, <3>3
      <4>4. \A j \in 1..(k - 1) :
              stack'[j].kind # stack'[k].kind \/ stack'[j].id # stack'[k].id
        <5>1. stack'[n + 1].kind # "move"
          BY <1>5, <1>6
        <5> QED BY <2>1, <4>2, <4>3, <5>1
      <4> QED BY <1>3, <4>1, <4>3, <4>4
    <3> QED BY <3>1, <3>2, <3>3
  <2>5. \A k \in 1..n : stack[k].kind # "resolve" => stack[k].id # 0
    BY <1>1, <1>9 DEF InRange
  <2> QED BY <1>10, <2>4, <2>5, StackKept
<1>13. PlaceInv'
  <2>1. \A k \in 1..n : stack'[k].at = stack[k].at
    BY <1>6
  <2>2. ~Suspended(y)'
    BY <1>5, <1>6, <1>7 DEF Suspended, OnStack
  <2>3. \A k \in (n + 1)..Len(stack') :
          stack'[k].kind = "move" /\ stack'[k].id = y => stack'[k].at \in Places(y)'
    BY <1>3, <1>5, <1>6, <1>7
  <2>4. \A g \in DOMAIN frames' : g \in DOMAIN frames \/
          /\ ~Suspended(g)'
          /\ \A k \in (n + 1)..Len(stack') :
               stack'[k].kind = "move" /\ stack'[k].id = g => stack'[k].at \in Places(g)'
    BY <1>3, <2>2, <2>3
  <2> QED BY <1>9, <1>10, <2>1, <2>4, PlaceKept
<1>14. ASSUME NEW p \in DOMAIN promises
       PROVE  Wakes(p)'
  <2>1. Wakes(p)
    BY DEF WakeInv
  <2>2. 0 \notin ToResume(p)
    BY <1>9 DEF ToResume, InRange
  <2>3. ~promises'[p].resolved => Due(p)'
    BY <1>3, <1>4, <2>1, DueKept DEF Wakes
  <2>4. (n + 1)..Len(stack) = {} /\ promises'[p] = promises[p]
    BY <1>1, <1>4, <1>7
  <2> QED BY <1>10, <2>1, <2>2, <2>3, <2>4, WakesKept
<1>15. Wakes(a)'
  <2>1. Due(a)'
    BY <1>3 DEF Due
  <2> QED BY <1>4, <2>1, WakesNew
<1>16. WakeInv'
  BY <1>4, <1>14, <1>15 DEF WakeInv
<1>17. OutsideInv'
  BY <1>3, <1>4, OutsideKept DEF Outer
<1> QED BY <1>11, <1>12, <1>13, <1>16, <1>17

\* A struct is made by main(), or by moveNext of another.
LEMMA EntryCallStep == ASSUME ProcessInv, EntryCall PROVE ProcessInv'
<1> USE DEF ProcessInv
<1>1. /\ stage = "entry" /\ stack = <<>> /\ ToCall # {} /\ called' = Min(ToCall)
      /\ Enter(program.entry[called'], <<>>, <<>>)
      /\ UNCHANGED <<program, stage, loopVars>>
  BY DEF EntryCall
<1>2. /\ program.functions \in Seq(Functions)
      /\ program.entry \in Seq(0..Len(program.functions))
      /\ \A n \in DOMAIN program.entry : program.entry[n] # 0 =>
           program.functions[program.entry[n]].params = <<>>
  BY AotAsyncAssumption DEF TypeInv, IsProgram
<1>3. PICK n \in Nat : n = called' /\ n \in ToCall
  <2>1. ToCall \in SUBSET Nat
    BY <1>2, Indices DEF TypeInv, ToCall
  <2> QED BY <1>1, <2>1, MinOfNumbers
<1>4. n \in DOMAIN program.entry /\ program.entry[n] # 0
  <2>1. DOMAIN program.entry = 1..Len(program.entry) /\ Len(program.entry) \in Nat
    BY <1>2, Indices
  <2>2. called + 1 \in Nat \ {0}
    BY DEF TypeInv
  <2> QED BY <1>3, <2>1, <2>2 DEF ToCall
<1>5. PICK fn \in DOMAIN program.functions :
        fn = program.entry[n] /\ DOMAIN program.functions[fn].params = {}
  <2>1. program.entry[n] \in 0..Len(program.functions)
    BY <1>2, <1>4, Indices
  <2>2. program.entry[n] \in DOMAIN program.functions
    BY <1>2, <1>4, <2>1, Indices
  <2>3. program.functions[program.entry[n]].params = <<>>
    BY <1>2, <1>4
  <2> QED BY <2>2, <2>3
<1>6. Enter(fn, <<>>, stack)
  BY <1>1, <1>3, <1>5
<1>7. /\ frames' \in Seq(FrameSet) /\ promises' \in Seq(PromiseSet)
      /\ stack' \in Seq(CallSet)
      /\ TypeInv' => InRange' /\ OutsideInv' /\ StackInv' /\ PlaceInv' /\ WakeInv'
  <2> HIDE DEF ProcessInv
  <2> QED BY <1>1, <1>5, <1>6, Entered
<1>8. TypeInv'
  BY <1>1, <1>3, <1>7 DEF TypeInv, loopVars
<1>9. StageInv'
  BY <1>1 DEF StageInv
<1> QED BY <1>7, <1>8, <1>9

LEMMA CallAsyncStep == ASSUME ProcessInv, CallAsync PROVE ProcessInv'
<1> USE DEF ProcessInv
<1>1. PICK x \in DOMAIN frames : x = Top.id
  BY MovingFacts DEF CallAsync
<1>2. PICK instr \in Instrs : instr = Instr
  BY MovingFacts DEF CallAsync
<1> DEFINE args == [k \in DOMAIN instr.args |-> frames[x].vars[instr.args[k]]]
<1>3. /\ Moving({"call"}) /\ Enter(instr.fn, args, stack)
      /\ UNCHANGED <<program, stage, called, loopVars>>
  BY <1>1, <1>2 DEF CallAsync
<1>4. PICK pos \in DOMAIN Flat(FnOf(x)) :
        /\ pos = Top.at /\ pos \in Places(x) /\ Flat(FnOf(x))[pos] = instr
        /\ instr.op = "call" /\ Compiles(program) /\ stack # <<>>
        /\ Top.kind = "move" /\ Code(FnOf(Top.id))[Top.at] = instr
  BY <1>1, <1>2, <1>3, MovingFacts
<1>5. WellTyped(program, FnOf(x)) /\ frames[x] \in FrameSet
  BY FunctionOK
<1>6. PICK fn \in DOMAIN program.functions, f \in Functions :
        /\ fn = instr.fn /\ f = program.functions[fn]
        /\ Len(instr.args) = Len(f.params)
        /\ \A k \in DOMAIN instr.args :
             f.params[k] \in f.promised => instr.args[k] \in ApiPromises(FnOf(x))
  <2>1. \A g \in DOMAIN program.functions : program.functions[g] \in Functions
    BY ProgramOK DEF TypeInv
  <2> QED BY <1>4, <1>5, <2>1 DEF WellTyped
<1>7. instr.args \in Seq(Vars) /\ f.params \in Seq(Vars)
  BY <1>6 DEF Instrs, Functions
<1>8. DOMAIN instr.args = DOMAIN f.params
  BY <1>6, <1>7, Indices
<1>9. ASSUME NEW k \in DOMAIN f.params
      PROVE  args[k] \in Int /\ (f.params[k] \in f.promised => args[k] \in Outer)
  <2>1. PICK v \in Vars : v = instr.args[k] /\ v \in ToSet(instr.args)
    BY <1>7, <1>8, <1>9, Indices DEF ToSet
  <2>2. args[k] = frames[x].vars[v]
    BY <1>8, <1>9, <2>1
  <2> HIDE DEF args
  <2>3. frames[x].vars[v] \in Int
    BY <1>5 DEF FrameSet
  <2>4. Reads(Flat(FnOf(x))[pos], v)
    BY <1>4, <2>1 DEF Reads, Uses
  <2>5. v \in ApiPromises(FnOf(x)) => frames[x].vars[v] \in Outer
    BY <1>4, <2>4, ReadValue
  <2>6. f.params[k] \in f.promised => v \in ApiPromises(FnOf(x))
    BY <1>6, <1>8, <1>9, <2>1
  <2> QED BY <2>2, <2>3, <2>5, <2>6
<1> HIDE DEF args
<1>10. /\ frames' \in Seq(FrameSet) /\ promises' \in Seq(PromiseSet)
       /\ stack' \in Seq(CallSet)
       /\ TypeInv' => InRange' /\ OutsideInv' /\ StackInv' /\ PlaceInv' /\ WakeInv'
  <2> HIDE DEF ProcessInv
  <2> QED BY <1>3, <1>4, <1>6, <1>9, Entered
<1>11. TypeInv'
  BY <1>3, <1>10 DEF TypeInv, loopVars
<1>12. StageInv'
  BY <1>3 DEF StageInv, Moving
<1> QED BY <1>10, <1>11, <1>12

-----------------------------------------------------------------------------
(* The invariant                                                            *)

\* It holds at the start, and after every step.
LEMMA ProcessStarts == ProcessInit => ProcessInv
<1> SUFFICES ASSUME ProcessInit PROVE ProcessInv
  OBVIOUS
<1> USE DEF ProcessInit
<1>1. /\ DOMAIN frames = {} /\ DOMAIN promises = {} /\ DOMAIN stack = {}
      /\ DOMAIN timers = {} /\ DOMAIN queued = {} /\ DOMAIN finished = {}
      /\ Len(stack) = 0
  OBVIOUS
<1>2. ToSet(queued) = {} /\ ToSet(finished) = {}
  BY <1>1 DEF ToSet
<1>3. TypeInv
  BY EmptySeq DEF TypeInv, Stages
<1>4. InRange /\ OutsideInv /\ WakeInv
  BY <1>1, <1>2 DEF InRange, OutsideInv, WakeInv, Distinct
<1>5. StackInv /\ PlaceInv
  <2>1. 1..(0 - 1) = {}
    OBVIOUS
  <2> QED BY <1>1, <2>1 DEF StackInv, PlaceInv
<1>6. StageInv
  BY DEF StageInv
<1> QED BY <1>3, <1>4, <1>5, <1>6 DEF ProcessInv

LEMMA ProcessSteps == ProcessInv /\ [ProcessNext]_processVars => ProcessInv'
<1> SUFFICES ASSUME ProcessInv, [ProcessNext]_processVars PROVE ProcessInv'
  OBVIOUS
<1>1. CASE UNCHANGED processVars
  <2>1. UNCHANGED <<program, stage, called, frames, promises, stack, loopVars>>
    BY <1>1 DEF processVars, loopVars
  <2>2. TypeInv' /\ StageInv' /\ OutsideInv'
    BY <2>1 DEF ProcessInv, TypeInv, StageInv, OutsideInv, loopVars, Outer, Quick, Idle
  <2>3. \A p \in DOMAIN promises : Due(p) => Due(p)'
    BY <2>1 DEF Due, loopVars
  <2>4. InRange' /\ StackInv' /\ PlaceInv' /\ WakeInv'
    BY <2>1, <2>2, <2>3, StillFits
  <2> QED BY <2>2, <2>4 DEF ProcessInv
<1>2. CASE Evaluate \/ RunLoop \/ LoopReturns \/ AwaitNothing
  BY <1>2, StageStep
<1>3. CASE EntryCall
  BY <1>3, EntryCallStep
<1>4. CASE Compute
  BY <1>4, ComputeStep
<1>5. CASE PassOver
  BY <1>5, PassOverStep
<1>6. CASE CallAsync
  BY <1>6, CallAsyncStep
<1>7. CASE ReturnPromise
  BY <1>7, ReturnPromiseStep
<1>8. CASE StartTimer
  BY <1>8, StartTimerStep
<1>9. CASE QueueWork
  BY <1>9, QueueWorkStep
<1>10. CASE AwaitPending
  BY <1>10, AwaitPendingStep
<1>11. CASE AwaitResolved
  BY <1>11, AwaitResolvedStep
<1>12. CASE Return
  BY <1>12, ReturnStep
<1>13. CASE FreeStruct
  BY <1>13, FreeStructStep
<1>14. CASE Continue
  BY <1>14, ContinueStep
<1>15. CASE ResolveEnds
  BY <1>15, ResolveEndsStep
<1>16. CASE FireTimer
  BY <1>16, FireTimerStep
<1>17. CASE WorkDone
  BY <1>17, WorkDoneStep
<1>18. CASE Pool
  BY <1>18, PoolStep
<1> QED BY <1>1, <1>2, <1>3, <1>4, <1>5, <1>6, <1>7, <1>8, <1>9, <1>10, <1>11, <1>12,
           <1>13, <1>14, <1>15, <1>16, <1>17, <1>18 DEF ProcessNext, MainThread

LEMMA ProcessInvariant == ProcessSpec => []ProcessInv
<1>1. ProcessInit => ProcessInv
  BY ProcessStarts
<1>2. ProcessInv /\ [ProcessNext]_processVars => ProcessInv'
  BY ProcessSteps
<1> QED BY <1>1, <1>2, PTL DEF ProcessSpec

-----------------------------------------------------------------------------
(* Theorems                                                                 *)

\* A struct whose code waits is called by moveNext once, and by what it waits
\* for, whatever the programs, the room for continuations and the threads
\* (tsuchi_promise_then, tsuchi_promise_resolve_*, moveNext).
THEOREM EachWakesOnce == ProcessSpec => []WakesOnce
<1>1. ProcessInv => WakesOnce
  <2> SUFFICES ASSUME ProcessInv PROVE WakesOnce
    OBVIOUS
  <2>1. \A p \in DOMAIN promises : Wakes(p)
    BY DEF ProcessInv, WakeInv
  <2>2. StackInv
    BY DEF ProcessInv
  <2>3. /\ \A i, j \in DOMAIN stack :
             stack[i].kind = "move" /\ stack[j].kind = "move" /\ stack[i].id = stack[j].id
             => i = j
        /\ \A i \in DOMAIN stack : stack[i].kind = "move" => ~frames[stack[i].id].freed
    BY <2>2 DEF StackInv
  <2> QED BY <2>1, <2>3 DEF WakesOnce, Wakes
<1> QED BY <1>1, ProcessInvariant, PTL

\* When main() returns, what has not ended was refused by a full promise, or
\* waits for a call it made, and so on to one that was refused
\* (tsuchi_loop_run, tsuchi_promise_then).
THEOREM NoneForgotten == ProcessSpec => []NothingForgotten
<1>1. ProcessInv => NothingForgotten
  <2> SUFFICES ASSUME ProcessInv, stage = "done", NEW id \in DOMAIN frames,
                      ~frames[id].freed, ~Refused(id)
               PROVE  \E later \in (id + 1)..Len(frames) :
                        ~frames[later].freed /\ frames[id].awaited = frames[later].result
    BY DEF NothingForgotten
  <2> USE DEF ProcessInv
  <2>1. stack = <<>> /\ Idle
    BY DEF StageInv
  <2>2. DOMAIN stack = {}
    BY <2>1
  <2>3. Suspended(id)
    BY <2>2 DEF Suspended, OnStack
  <2>4. PICK p \in DOMAIN promises : p = frames[id].awaited /\ p \in Later(id)
    BY <2>3 DEF PlaceInv, Later
  <2>5. id \in ToResume(p)
    <3>1. id \in ToSet(promises[p].conts)
      BY <2>3, <2>4 DEF Refused
    <3> QED BY <2>2, <3>1 DEF ToResume, ToSet
  <2>6. ~promises[p].resolved
    BY <2>2, <2>5 DEF WakeInv, Wakes, OnStack
  <2>7. Due(p)
    BY <2>6 DEF WakeInv, Wakes
  <2>8. PICK later \in DOMAIN frames : frames[later].result = p /\ ~frames[later].freed
    <3>1. DOMAIN timers = {} /\ DOMAIN queued = {} /\ DOMAIN finished = {} /\ working = {}
      BY <2>1 DEF Idle
    <3> QED BY <2>7, <3>1 DEF Due, ToSet
  <2>9. later > id
    BY <2>4, <2>8 DEF Later
  <2>10. later \in (id + 1)..Len(frames)
    BY <2>8, <2>9, Indices DEF TypeInv
  <2> QED BY <2>4, <2>8, <2>10
<1> QED BY <1>1, ProcessInvariant, PTL

\* A program is refused by the C compiler, or awaits what is no promise, for the
\* reasons the generated code has and no other, whatever the program
\* (_generate_one_async_function).
THEOREM OnlyThenGoesWrong == ProcessSpec => []GoesWrongOnly
<1>1. ProcessInv => GoesWrongOnly
  <2> SUFFICES ASSUME ProcessInv PROVE GoesWrongOnly
    OBVIOUS
  <2>1. stage = "refused" =>
          \/ CallsUndeclared(program)
          \/ ReadsUnknown(program, Chosen) \/ ReadsUnknown(program, Nothing)
    BY RefusedFor DEF ProcessInv, StageInv, TypeInv
  <2>2. stage = "undefined" =>
          \/ ReadsUnknown(program, Chosen)
          \/ \E id \in DOMAIN frames : frames[id].freed /\ frames[id].state = 1
    BY DEF ProcessInv, StageInv, Quick
  <2> QED BY <2>1, <2>2 DEF GoesWrongOnly
<1> QED BY <1>1, ProcessInvariant, PTL
=============================================================================
