--------------------------- MODULE KatanaWebSocket ---------------------------
(***************************************************************************)
(* WebSocket connections of a Katana server (crates/taiyaki-cli/src/       *)
(* server.rs): what happens after RequestReply's "switching".              *)
(*                                                                         *)
(* Each connection has a Rust task that reads frames and reports events, a *)
(* write task fed by a channel, and an entry in the shared table ws_conns  *)
(* through which JavaScript finds that channel.  All connections report to *)
(* one event queue; each Katana.serve call with websocket handlers runs a  *)
(* wsEventLoop that takes events from it, behind one lock, and keeps its   *)
(* own table of ws objects.  Handlers are user code: a ws object they were *)
(* given may be used at any later time.                                    *)
(*                                                                         *)
(* Payloads are abstracted to the position of the message in its stream.   *)
(***************************************************************************)
EXTENDS Naturals, SequencesExt

CONSTANTS Conns,       \* connections that may be upgraded
          MaxServes,   \* bound: serve calls with websocket handlers
          MaxIn,       \* bound: messages the peer sends, per connection
          MaxOut       \* bound: frames JavaScript sends, per connection

ASSUME WebSocketAssumption == /\ MaxServes \in Nat
                              /\ MaxIn \in [Conns -> Nat]
                              /\ MaxOut \in [Conns -> Nat]

Servers == 1..MaxServes

VARIABLES
  conn,      \* the connection task
  wsConns,   \* connections in ServerState.ws_conns
  received,  \* messages read from each peer
  events,    \* the event queue, and the loops waiting on its lock
  lock,
  loop,      \* wsEventLoop of each serve call
  running,   \* globalThis.__serverRunning
  stopped,   \* the one-shot stop notification has been sent
  wsTable,   \* connections with a ws object in __wsConns of each serve call
  seen,      \* handler calls so far, per connection
  out,       \* frames queued for the write task
  accepted,  \* how many frames were ever queued
  writer,    \* the write task runs
  delivered  \* frames that reached the peer

connVars == <<conn, wsConns, received>>
loopVars == <<lock, loop, running, stopped, wsTable, seen>>
outVars  == <<out, accepted, writer, delivered>>
vars     == <<connVars, events, loopVars, outVars>>

\* An event, as queued and as handled: n numbers the messages of a peer.
Event(kind, c, n) == [kind |-> kind, conn |-> c, n |-> n]
Events == [kind : {"open", "message", "close", "error"},
           conn : Conns, n : Nat]
Frames == [n : Nat, close : BOOLEAN]

TypeOK ==
  /\ conn \in [Conns -> {"none", "switching", "open", "failed", "closed"}]
  /\ wsConns \subseteq Conns
  /\ received \in [Conns -> Nat]
  /\ events \in Seq(Events)
  /\ lock \in Seq(Servers)
  /\ loop \in [Servers -> {"none", "waiting", "ended"}]
  /\ running \in BOOLEAN /\ stopped \in BOOLEAN
  /\ wsTable \in [Servers -> SUBSET Conns]
  /\ seen \in [Conns -> Seq(Events)]
  /\ out \in [Conns -> Seq(Frames)]
  /\ accepted \in [Conns -> Nat]
  /\ writer \in [Conns -> BOOLEAN]
  /\ delivered \in [Conns -> Seq(Frames)]

Init ==
  /\ conn = [c \in Conns |-> "none"]
  /\ wsConns = {}
  /\ received = [c \in Conns |-> 0]
  /\ events = <<>> /\ lock = <<>>
  /\ loop = [g \in Servers |-> "none"]
  /\ running = FALSE /\ stopped = FALSE
  /\ wsTable = [g \in Servers |-> {}]
  /\ seen = [c \in Conns |-> <<>>]
  /\ out = [c \in Conns |-> <<>>]
  /\ accepted = [c \in Conns |-> 0]
  /\ writer = [c \in Conns |-> FALSE]
  /\ delivered = [c \in Conns |-> <<>>]

-----------------------------------------------------------------------------
(* The connection task *)

\* handle_request answers 101 and spawns the task.  A serve call without
\* websocket handlers upgrades too, so no event loop need exist yet.
Switch(c) ==
  /\ conn[c] = "none"
  /\ conn' = [conn EXCEPT ![c] = "switching"]
  /\ UNCHANGED <<wsConns, received, events, loopVars, outVars>>

\* hyper cannot hand over the stream: an error event for an unknown conn.
UpgradeFails(c) ==
  /\ conn[c] = "switching"
  /\ conn' = [conn EXCEPT ![c] = "failed"]
  /\ events' = Append(events, Event("error", c, 0))
  /\ UNCHANGED <<wsConns, received, loopVars, outVars>>

\* handle_ws_connection up to its read loop.
Establish(c) ==
  /\ conn[c] = "switching"
  /\ conn' = [conn EXCEPT ![c] = "open"]
  /\ wsConns' = wsConns \cup {c}
  /\ events' = Append(events, Event("open", c, 0))
  /\ writer' = [writer EXCEPT ![c] = TRUE]
  /\ UNCHANGED <<received, loopVars, out, accepted, delivered>>

\* read.next(): a text or binary message.
ReadMessage(c) ==
  /\ conn[c] = "open"
  /\ received[c] < MaxIn[c]
  /\ received' = [received EXCEPT ![c] = @ + 1]
  /\ events' = Append(events, Event("message", c, received'[c]))
  /\ UNCHANGED <<conn, wsConns, loopVars, outVars>>

\* Mutant: the table entry is kept.
ForgetNothing(c) == UNCHANGED wsConns

Forget(c) == wsConns' = wsConns \ {c}

\* read.next(): a Close frame, an error or the end.  The write task is
\* aborted with whatever is still queued for it.
ReadEnds(c) ==
  /\ conn[c] = "open"
  /\ conn' = [conn EXCEPT ![c] = "closed"]
  /\ Forget(c)
  /\ writer' = [writer EXCEPT ![c] = FALSE]
  /\ out' = [out EXCEPT ![c] = <<>>]
  /\ events' = Append(events, Event("close", c, 0))
  /\ UNCHANGED <<received, loopVars, accepted, delivered>>

-----------------------------------------------------------------------------
(* The write task *)

SentClose(c) == \E i \in DOMAIN delivered[c] : delivered[c][i].close

\* Mutant: a frame after Close is sent like any other.
WritableAlways(c) == TRUE

\* tungstenite refuses to send after a Close frame.
Writable(c) == ~SentClose(c)

WriteFrame(c) ==
  /\ writer[c] /\ out[c] # <<>>
  /\ Writable(c)
  /\ delivered' = [delivered EXCEPT ![c] = Append(@, Head(out[c]))]
  /\ out' = [out EXCEPT ![c] = Tail(@)]
  /\ UNCHANGED <<connVars, events, loopVars, accepted, writer>>

\* send() fails, and the task ends and drops its end of the channel.
WriteFails(c) ==
  /\ writer[c] /\ out[c] # <<>>
  /\ writer' = [writer EXCEPT ![c] = FALSE]
  /\ out' = [out EXCEPT ![c] = <<>>]
  /\ UNCHANGED <<connVars, events, loopVars, accepted, delivered>>

-----------------------------------------------------------------------------
(* Serve calls and their event loops *)

\* Katana.serve with websocket handlers enters wsEventLoop.
ServeRun(g) ==
  /\ loop[g] = "none"
  /\ running' = TRUE
  /\ loop' = [loop EXCEPT ![g] = "waiting"]
  /\ lock' = Append(lock, g)
  /\ UNCHANGED <<connVars, events, stopped, wsTable, seen, outVars>>

Stop ==
  /\ \E g \in Servers : loop[g] # "none"
  /\ running' = FALSE
  /\ stopped' = TRUE
  /\ UNCHANGED <<connVars, events, lock, loop, wsTable, seen, outVars>>

\* Mutant: events of a connection that is gone are ignored.
KnownAndAlive(g, c) == c \in wsTable[g] /\ c \in wsConns

Known(g, c) == c \in wsTable[g]

CallHandler(ev) == seen' = [seen EXCEPT ![ev.conn] = Append(@, ev)]

\* What loop g does with an event: "open" creates a ws object, and the other
\* kinds find one in this loop's table or are ignored.
HandleEvent(g, ev) ==
  \/ /\ ev.kind = "open"
     /\ wsTable' = [wsTable EXCEPT ![g] = @ \cup {ev.conn}]
     /\ CallHandler(ev)
  \/ /\ ev.kind \in {"message", "error"} /\ Known(g, ev.conn)
     /\ CallHandler(ev)
     /\ UNCHANGED wsTable
  \/ /\ ev.kind = "close" /\ Known(g, ev.conn)
     /\ CallHandler(ev)
     /\ wsTable' = [wsTable EXCEPT ![g] = @ \ {ev.conn}]
  \/ /\ ev.kind # "open" /\ ~Known(g, ev.conn)
     /\ UNCHANGED <<wsTable, seen>>

\* Mutant: the newest event is taken first.
TakeNewest(g) ==
  /\ HandleEvent(g, events[Len(events)])
  /\ events' = Front(events)

TakeOldest(g) ==
  /\ HandleEvent(g, Head(events))
  /\ events' = Tail(events)

\* Mutant: an ignored event ends the loop.
StayIfKnown(g) ==
  running /\ (Head(events).kind = "open" \/ Known(g, Head(events).conn))

Stay(g) == running

\* __ws_next_event returns an event to the loop that holds the lock; while the
\* flag is up the loop asks again, behind the other loops.
NextEvent(g) ==
  /\ lock # <<>> /\ Head(lock) = g
  /\ events # <<>>
  /\ TakeOldest(g)
  /\ IF Stay(g)
     THEN lock' = Append(Tail(lock), g) /\ UNCHANGED loop
     ELSE lock' = Tail(lock) /\ loop' = [loop EXCEPT ![g] = "ended"]
  /\ UNCHANGED <<connVars, running, stopped, outVars>>

\* The stop branch of __ws_next_event: "" ends the loop.
LoopStops(g) ==
  /\ stopped
  /\ \E i \in DOMAIN lock : lock[i] = g /\ lock' = RemoveAt(lock, i)
  /\ loop' = [loop EXCEPT ![g] = "ended"]
  /\ UNCHANGED <<connVars, events, running, stopped, wsTable, seen, outVars>>

-----------------------------------------------------------------------------
(* ws.send and ws.close *)

QueueFrame(c, frame) == out' = [out EXCEPT ![c] = Append(@, frame)]

\* __ws_send and __ws_close reach the write task through ws_conns; a frame for
\* a connection that is not there, or whose write task ended, is dropped.
Post(c, close) ==
  /\ accepted[c] < MaxOut[c]
  /\ c \in wsConns /\ writer[c]
  /\ accepted' = [accepted EXCEPT ![c] = @ + 1]
  /\ QueueFrame(c, [n |-> accepted'[c], close |-> close])
  /\ UNCHANGED <<connVars, events, loopVars, writer, delivered>>

\* The handlers of the "open" event were given the ws object.
HasObject(c) == \E i \in DOMAIN seen[c] : seen[c][i].kind = "open"

\* ws.send(msg), which looks at no readyState, and ws.close().
Send(c)    == HasObject(c) /\ Post(c, FALSE)
CloseWs(c) == HasObject(c) /\ Post(c, TRUE)

-----------------------------------------------------------------------------
Next ==
  \/ Stop
  \/ \E g \in Servers : ServeRun(g) \/ NextEvent(g) \/ LoopStops(g)
  \/ \E c \in Conns : \/ Switch(c) \/ UpgradeFails(c) \/ Establish(c)
                      \/ ReadMessage(c) \/ ReadEnds(c)
                      \/ WriteFrame(c) \/ WriteFails(c)
                      \/ Send(c) \/ CloseWs(c)

\* The loop that holds the lock is woken by a queued event.
Fairness == WF_vars(\E g \in Servers : NextEvent(g))

Spec == Init /\ [][Next]_vars /\ Fairness

-----------------------------------------------------------------------------
(* Properties *)

\* The table through which JavaScript sends holds exactly the connections
\* whose task is in its read loop, and only they have a write task: a frame
\* can be queued for no connection that nobody will ever write to.
TableIsLive ==
  /\ \A c \in Conns : c \in wsConns <=> conn[c] = "open"
  /\ \A c \in Conns : writer[c] => c \in wsConns
  /\ \A c \in Conns : ~writer[c] => out[c] = <<>>

\* The handlers of a connection are called in order whatever loops share the
\* events: open first, then messages in the peer's order, close last.
HandlersInOrder ==
  \A c \in Conns : \A i, j \in DOMAIN seen[c] : i < j =>
    /\ seen[c][i].kind # "close"
    /\ seen[c][j].kind # "open"
    /\ seen[c][j].kind = "message" => seen[c][i].n < seen[c][j].n

OneLoop == \A g, h \in Servers : loop[g] # "none" /\ loop[h] # "none" => g = h

\* The events of one connection.
OfConn(evs, c) ==
  FoldLeft(LAMBDA own, ev : IF ev.conn = c THEN Append(own, ev) ELSE own, <<>>, evs)

\* What handlers saw of a connection followed by what is queued for it.
Story(c) == seen[c] \o OfConn(events, c)

\* With one event loop no event of an established connection is lost or
\* repeated: seen and queued together tell the whole story of its task.
NothingLost ==
  OneLoop => \A c \in Conns : conn[c] \in {"open", "closed"} =>
    Story(c) = <<Event("open", c, 0)>>
               \o [i \in 1..received[c] |-> Event("message", c, i)]
               \o (IF conn[c] = "closed" THEN <<Event("close", c, 0)>> ELSE <<>>)

\* The peer gets the frames JavaScript sent in order and without a gap, and
\* nothing after the Close frame.
PeerInOrder ==
  \A c \in Conns : \A i \in DOMAIN delivered[c] :
    /\ delivered[c][i].n = i
    /\ delivered[c][i].close => i = Len(delivered[c])

\* Once a server with websocket handlers runs, a connection that ended is
\* reported to them, unless the server is stopped or a second event loop may
\* have taken the event.
CloseIsReported ==
  \A c \in Conns :
    conn[c] = "closed" /\ running ~>
                          \/ \E i \in DOMAIN seen[c] : seen[c][i].kind = "close"
                          \/ stopped \/ ~OneLoop
=============================================================================
