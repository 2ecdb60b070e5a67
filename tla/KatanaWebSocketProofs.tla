------------------------ MODULE KatanaWebSocketProofs ------------------------
(***************************************************************************)
(* Proofs about KatanaWebSocket, for any set of connections and any number *)
(* of serve calls, messages and frames.                                    *)
(***************************************************************************)
EXTENDS KatanaWebSocket, SequenceLemmas

\* Removing one position of a sequence leaves a sequence over the same set.
LEMMA RemoveAtSeq ==
  ASSUME NEW S, NEW s \in Seq(S), NEW i \in DOMAIN s
  PROVE  RemoveAt(s, i) \in Seq(S)
<1>1. i \in 1..Len(s) /\ Len(s) \in Nat
  BY LenProperties
<1>2. SubSeq(s, 1, i-1) \in Seq(S) /\ SubSeq(s, i+1, Len(s)) \in Seq(S)
  BY <1>1, SubSeqProperties
<1> QED BY <1>2, ConcatProperties DEF RemoveAt

\* ... in which every element was there before.
LEMMA RemoveAtElements ==
  ASSUME NEW S, NEW s \in Seq(S), NEW k \in DOMAIN s
  PROVE  /\ RemoveAt(s, k) \in Seq(S)
         /\ \A i \in 1..Len(RemoveAt(s, k)) : \E j \in 1..Len(s) : RemoveAt(s, k)[i] = s[j]
<1>1. PICK T : T = {s[j] : j \in 1..Len(s)}
  OBVIOUS
<1>2. s \in Seq(T)
  <2>1. \A j \in 1..Len(s) : s[j] \in T
    BY <1>1
  <2>2. Len(s) \in Nat /\ DOMAIN s = 1..Len(s)
    BY LenProperties
  <2> QED BY <2>1, <2>2
<1>3. RemoveAt(s, k) \in Seq(T)
  BY <1>2, RemoveAtSeq
<1>4. \A i \in 1..Len(RemoveAt(s, k)) : RemoveAt(s, k)[i] \in T
  BY <1>3, ElementOfSeq
<1> QED BY <1>1, <1>4, RemoveAtSeq

\* The variables of a connection keep their types in the step that calls its
\* handler (wsEventLoop).
LEMMA HandleEventType ==
  ASSUME TypeOK, NEW g \in Servers, NEW ev \in Events, HandleEvent(g, ev)
  PROVE  wsTable' \in [Servers -> SUBSET Conns] /\ seen' \in [Conns -> Seq(Events)]
<1>1. ev.conn \in Conns
  BY DEF Events
<1>2. Append(seen[ev.conn], ev) \in Seq(Events)
  BY <1>1, AppendProperties DEF TypeOK
<1>3. seen' \in [Conns -> Seq(Events)]
  <2>1. seen' = [seen EXCEPT ![ev.conn] = Append(@, ev)] \/ seen' = seen
    BY DEF HandleEvent, CallHandler
  <2> QED BY <1>1, <1>2, <2>1 DEF TypeOK
<1>4. wsTable' \in [Servers -> SUBSET Conns]
  <2>1. \/ wsTable' = [wsTable EXCEPT ![g] = wsTable[g] \cup {ev.conn}]
        \/ wsTable' = [wsTable EXCEPT ![g] = wsTable[g] \ {ev.conn}]
        \/ wsTable' = wsTable
    BY DEF HandleEvent
  <2>2. /\ wsTable[g] \cup {ev.conn} \in SUBSET Conns
        /\ wsTable[g] \ {ev.conn} \in SUBSET Conns
    BY <1>1 DEF TypeOK
  <2> QED BY <2>1, <2>2 DEF TypeOK
<1> QED BY <1>3, <1>4

\* Every variable keeps its type (handle_ws_connection, wsEventLoop, __ws_send).
THEOREM TypeCorrect == Spec => []TypeOK
<1> USE WebSocketAssumption
<1>1. Init => TypeOK
  <2> SUFFICES ASSUME Init PROVE TypeOK
    OBVIOUS
  <2>1. \A S : <<>> \in Seq(S)
    BY EmptySeq
  <2> QED BY <2>1 DEF Init, TypeOK
<1>2. TypeOK /\ [Next]_vars => TypeOK'
  <2> SUFFICES ASSUME TypeOK, [Next]_vars PROVE TypeOK'
    OBVIOUS
  <2> USE DEF TypeOK, connVars, loopVars, outVars
  <2>e. ASSUME NEW kind \in {"open", "message", "close", "error"},
               NEW c \in Conns, NEW n \in Nat
        PROVE  Append(events, Event(kind, c, n)) \in Seq(Events)
    <3>1. Event(kind, c, n) \in Events
      BY DEF Event, Events
    <3> QED BY <3>1, AppendProperties
  <2>1. CASE Stop
    BY <2>1 DEF Stop
  <2>2. ASSUME NEW g \in Servers, ServeRun(g) PROVE TypeOK'
    BY <2>2, AppendProperties DEF ServeRun
  <2>3. ASSUME NEW g \in Servers, NextEvent(g) PROVE TypeOK'
    <3>1. /\ Head(events) \in Events /\ Tail(events) \in Seq(Events)
          /\ Tail(lock) \in Seq(Servers)
          /\ Append(Tail(lock), g) \in Seq(Servers)
      BY <2>3, HeadTailProperties, AppendProperties DEF NextEvent
    <3>2. wsTable' \in [Servers -> SUBSET Conns] /\ seen' \in [Conns -> Seq(Events)]
      BY <2>3, <3>1, HandleEventType DEF NextEvent, TakeOldest
    <3>3. events' \in Seq(Events)
      BY <2>3, <3>1 DEF NextEvent, TakeOldest
    <3> QED BY <2>3, <3>1, <3>2, <3>3 DEF NextEvent
  <2>4. ASSUME NEW g \in Servers, LoopStops(g) PROVE TypeOK'
    BY <2>4, RemoveAtSeq DEF LoopStops
  <2>5. ASSUME NEW c \in Conns, Switch(c) PROVE TypeOK'
    BY <2>5 DEF Switch
  <2>6. ASSUME NEW c \in Conns, UpgradeFails(c) PROVE TypeOK'
    BY <2>6, <2>e DEF UpgradeFails
  <2>7. ASSUME NEW c \in Conns, Establish(c) PROVE TypeOK'
    BY <2>7, <2>e DEF Establish
  <2>8. ASSUME NEW c \in Conns, ReadMessage(c) PROVE TypeOK'
    <3>1. received'[c] \in Nat /\ received' \in [Conns -> Nat]
      BY <2>8 DEF ReadMessage
    <3> QED BY <2>8, <2>e, <3>1 DEF ReadMessage
  <2>9. ASSUME NEW c \in Conns, ReadEnds(c) PROVE TypeOK'
    BY <2>9, <2>e, EmptySeq DEF ReadEnds, Forget
  <2>10. ASSUME NEW c \in Conns, WriteFrame(c) PROVE TypeOK'
    <3>1. Append(delivered[c], Head(out[c])) \in Seq(Frames) /\ Tail(out[c]) \in Seq(Frames)
      BY <2>10, HeadTailProperties, AppendProperties DEF WriteFrame
    <3> QED BY <2>10, <3>1 DEF WriteFrame
  <2>11. ASSUME NEW c \in Conns, WriteFails(c) PROVE TypeOK'
    BY <2>11, EmptySeq DEF WriteFails
  <2>12. ASSUME NEW c \in Conns, NEW close \in BOOLEAN, Post(c, close)
         PROVE  TypeOK'
    <3>1. accepted' \in [Conns -> Nat] /\ accepted'[c] \in Nat
      BY <2>12 DEF Post
    <3>2. Append(out[c], [n |-> accepted'[c], close |-> close]) \in Seq(Frames)
      BY <3>1, AppendProperties DEF Frames
    <3> QED BY <2>12, <3>1, <3>2 DEF Post, QueueFrame
  <2>13. ASSUME NEW c \in Conns, Send(c) \/ CloseWs(c) PROVE TypeOK'
    BY <2>12, <2>13 DEF Send, CloseWs
  <2>14. CASE UNCHANGED vars
    BY <2>14 DEF vars
  <2> QED BY <2>1, <2>2, <2>3, <2>4, <2>5, <2>6, <2>7, <2>8, <2>9, <2>10,
             <2>11, <2>13, <2>14 DEF Next
<1> QED BY <1>1, <1>2, PTL DEF Spec

-----------------------------------------------------------------------------
\* A connection enters the table with its write task and leaves it before it ends.
LEMMA TableStep == TypeOK /\ TableIsLive /\ [Next]_vars => TableIsLive'
<1> SUFFICES ASSUME TypeOK, TableIsLive, [Next]_vars PROVE TableIsLive'
  OBVIOUS
<1> USE DEF TableIsLive, TypeOK, connVars, outVars
<1>1. ASSUME NEW c \in Conns, Switch(c) \/ UpgradeFails(c) PROVE TableIsLive'
  BY <1>1 DEF Switch, UpgradeFails
<1>2. ASSUME NEW c \in Conns, Establish(c) PROVE TableIsLive'
  BY <1>2 DEF Establish
<1>3. ASSUME NEW c \in Conns, ReadEnds(c) PROVE TableIsLive'
  BY <1>3 DEF ReadEnds, Forget
<1>4. ASSUME NEW c \in Conns, WriteFrame(c) \/ WriteFails(c) PROVE TableIsLive'
  BY ZenonT(40), <1>4 DEF WriteFrame, WriteFails
<1>5. ASSUME NEW c \in Conns, Send(c) \/ CloseWs(c) PROVE TableIsLive'
  BY <1>5 DEF Send, CloseWs, Post, QueueFrame
<1>6. ASSUME \/ Stop
             \/ \E g \in Servers : ServeRun(g) \/ NextEvent(g) \/ LoopStops(g)
             \/ \E c \in Conns : ReadMessage(c)
             \/ UNCHANGED vars
      PROVE  TableIsLive'
  <2> UNCHANGED <<conn, wsConns, writer, out>>
    BY <1>6 DEF Stop, ServeRun, NextEvent, LoopStops, ReadMessage, vars
  <2> QED OBVIOUS
<1> QED BY <1>1, <1>2, <1>3, <1>4, <1>5, <1>6 DEF Next

\* The table through which JavaScript sends holds exactly the connections in
\* their read loop, and only those have a write task; nothing is queued for a
\* connection whose write task ended (handle_ws_connection, __ws_send).
THEOREM TableStaysLive == Spec => []TableIsLive
<1>1. Init => TableIsLive
  BY DEF Init, TableIsLive
<1> QED BY <1>1, TypeCorrect, TableStep, PTL DEF Spec

-----------------------------------------------------------------------------
(* Frames *)

\* While the write task lives, the frames delivered and those queued are
\* numbered through to the last one accepted.
Numbered(c) ==
  /\ \A i \in 1..Len(delivered[c]) : delivered[c][i].n = i
  /\ writer[c] =>
       /\ Len(delivered[c]) + Len(out[c]) = accepted[c]
       /\ \A i \in 1..Len(out[c]) : out[c][i].n = Len(delivered[c]) + i

\* A Close frame is the last the peer gets: the write task ends with it.
CloseIsLast(c) ==
  \A i \in 1..Len(delivered[c]) : delivered[c][i].close => i = Len(delivered[c])

\* Nothing was sent on a connection that has had no write task.
NoWriterYet(c) ==
  conn[c] \in {"none", "switching"} =>
    accepted[c] = 0 /\ out[c] = <<>> /\ delivered[c] = <<>>

\* What is inductive about the frames sent to the peers.
FrameInv == \A c \in Conns : Numbered(c) /\ CloseIsLast(c) /\ NoWriterYet(c)

\* One step per action on the outgoing frames: posting, writing, ending.
LEMMA FrameStep ==
  TypeOK /\ TableIsLive /\ FrameInv /\ [Next]_vars => FrameInv'
<1> SUFFICES ASSUME TypeOK, TableIsLive, FrameInv, [Next]_vars,
                    NEW c \in Conns
             PROVE  (Numbered(c) /\ CloseIsLast(c) /\ NoWriterYet(c))'
  BY DEF FrameInv
<1> DEFINE Goal == (Numbered(c) /\ CloseIsLast(c) /\ NoWriterYet(c))'
<1>t. /\ out[c] \in Seq(Frames) /\ delivered[c] \in Seq(Frames)
      /\ Len(out[c]) \in Nat /\ Len(delivered[c]) \in Nat /\ accepted[c] \in Nat
  BY LenProperties DEF TypeOK
<1>i. Numbered(c) /\ CloseIsLast(c) /\ NoWriterYet(c)
  BY DEF FrameInv
<1>s. ASSUME out'[c] = out[c], delivered'[c] = delivered[c],
             accepted'[c] = accepted[c], writer'[c] => writer[c],
             conn'[c] \in {"none", "switching"} => conn[c] \in {"none", "switching"}
      PROVE  Goal
  BY <1>i, <1>s DEF Numbered, CloseIsLast, NoWriterYet
<1>1. ASSUME NEW d \in Conns, Switch(d) \/ UpgradeFails(d) \/ ReadMessage(d)
      PROVE  Goal
  BY <1>1, <1>s DEF Switch, UpgradeFails, ReadMessage, TypeOK, outVars
<1>2. ASSUME NEW d \in Conns, Establish(d) PROVE Goal
  <2>1. CASE d = c
    <3>1. /\ accepted'[c] = 0 /\ out'[c] = <<>> /\ delivered'[c] = <<>>
          /\ conn'[c] = "open"
      BY <1>2, <1>i, <2>1 DEF Establish, NoWriterYet, TypeOK
    <3>2. Len(out'[c]) = 0 /\ Len(delivered'[c]) = 0
      BY <3>1, EmptySeq
    <3> QED BY <3>1, <3>2 DEF Numbered, CloseIsLast, NoWriterYet
  <2>2. CASE d # c
    BY <1>2, <1>s, <2>2 DEF Establish, TypeOK
  <2> QED BY <2>1, <2>2
<1>3. ASSUME NEW d \in Conns, ReadEnds(d) \/ WriteFails(d) PROVE Goal
  <2>1. CASE d = c
    <3>1. ~writer'[c] /\ delivered' = delivered /\ accepted' = accepted
      BY <1>3, <2>1 DEF ReadEnds, WriteFails, TypeOK
    <3>2. conn'[c] \notin {"none", "switching"}
      BY <1>3, <2>1 DEF ReadEnds, WriteFails, TypeOK, TableIsLive, connVars
    <3> QED BY <1>i, <3>1, <3>2 DEF Numbered, CloseIsLast, NoWriterYet
  <2>2. CASE d # c
    BY <1>3, <1>s, <2>2 DEF ReadEnds, WriteFails, TypeOK, connVars
  <2> QED BY <2>1, <2>2
<1>4. ASSUME NEW d \in Conns, WriteFrame(d) PROVE Goal
  <2>1. CASE d = c
    <3>1. /\ out'[c] = Tail(out[c]) /\ out[c] # <<>>
          /\ delivered'[c] = Append(delivered[c], Head(out[c]))
          /\ UNCHANGED <<conn, accepted, writer>> /\ writer[c]
          /\ Writable(c)
      BY <1>4, <2>1 DEF WriteFrame, TypeOK, connVars
    <3>2. /\ Head(out[c]) = out[c][1] /\ Head(out[c]) \in Frames
          /\ Len(out[c]) > 0 /\ Len(Tail(out[c])) = Len(out[c]) - 1
          /\ \A i \in 1..(Len(out[c]) - 1) : Tail(out[c])[i] = out[c][i + 1]
      BY <1>t, <3>1, HeadTailProperties, LenProperties, EmptySeq
    <3>3. /\ Len(delivered'[c]) = Len(delivered[c]) + 1
          /\ \A i \in 1..Len(delivered[c]) : delivered'[c][i] = delivered[c][i]
          /\ delivered'[c][Len(delivered[c]) + 1] = Head(out[c])
      BY <1>t, <3>1, <3>2, AppendProperties
    <3>4. Numbered(c)'
      <4>1. ASSUME NEW i \in 1..Len(delivered'[c]) PROVE delivered'[c][i].n = i
        <5>1. CASE i = Len(delivered[c]) + 1
          BY <1>t, <1>i, <3>1, <3>2, <3>3, <5>1 DEF Numbered
        <5>2. CASE i # Len(delivered[c]) + 1
          <6>1. i \in 1..Len(delivered[c])
            BY <1>t, <3>3, <5>2
          <6> QED BY <1>i, <3>3, <6>1 DEF Numbered
        <5> QED BY <5>1, <5>2
      <4>2. Len(delivered'[c]) + Len(out'[c]) = accepted'[c]
        <5>1. Len(out'[c]) = Len(out[c]) - 1 /\ accepted'[c] = accepted[c]
          BY <3>1, <3>2
        <5>2. Len(delivered[c]) + Len(out[c]) = accepted[c]
          BY <1>i, <3>1 DEF Numbered
        <5>3. /\ Len(delivered[c]) \in Nat /\ Len(out[c]) \in Nat
              /\ accepted[c] \in Nat /\ Len(delivered'[c]) = Len(delivered[c]) + 1
          BY <1>t, <3>3
        <5> DEFINE m == Len(delivered[c])
                   k == Len(out[c])
        <5> HIDE DEF m, k
        <5>4. m \in Nat /\ k \in Nat /\ m + k = accepted[c]
          BY <5>2, <5>3 DEF m, k
        <5>5. (m + 1) + (k - 1) = accepted[c]
          BY <5>4
        <5> QED BY <5>1, <5>3, <5>5 DEF m, k
      <4>3. ASSUME NEW i \in 1..Len(out'[c])
            PROVE  out'[c][i].n = Len(delivered'[c]) + i
        <5>1. /\ i \in Nat /\ i + 1 \in 1..Len(out[c])
              /\ out'[c][i] = out[c][i + 1]
          BY <1>t, <3>1, <3>2
        <5>2. out[c][i + 1].n = Len(delivered[c]) + (i + 1)
          BY <1>i, <3>1, <5>1 DEF Numbered
        <5>3. /\ Len(delivered[c]) \in Nat
              /\ Len(delivered'[c]) = Len(delivered[c]) + 1
          BY <1>t, <3>3
        <5> DEFINE m == Len(delivered[c])
        <5> HIDE DEF m
        <5>4. m \in Nat /\ i \in Nat
          BY <5>1, <5>3 DEF m
        <5>5. m + (i + 1) = (m + 1) + i
          BY <5>4
        <5> QED BY <5>1, <5>2, <5>3, <5>5 DEF m
      <4> QED BY <4>1, <4>2, <4>3 DEF Numbered
    <3>5. CloseIsLast(c)'
      <4>1. \A i \in 1..Len(delivered[c]) : ~delivered[c][i].close
        BY <1>t, <3>1, LenProperties DEF Writable, SentClose
      <4> QED BY <1>t, <3>3, <4>1 DEF CloseIsLast
    <3>6. NoWriterYet(c)'
      BY <3>1 DEF NoWriterYet, TableIsLive
    <3> QED BY <3>4, <3>5, <3>6
  <2>2. CASE d # c
    BY <1>4, <1>s, <2>2 DEF WriteFrame, TypeOK, connVars
  <2> QED BY <2>1, <2>2
<1>5. ASSUME NEW d \in Conns, NEW close \in BOOLEAN, Post(d, close) PROVE Goal
  <2>1. CASE d = c
    <3> DEFINE frame == [n |-> accepted[c] + 1, close |-> close]
    <3>1. /\ accepted'[c] = accepted[c] + 1 /\ out'[c] = Append(out[c], frame)
          /\ UNCHANGED <<conn, delivered, writer>> /\ writer[c]
      BY <1>5, <2>1 DEF Post, QueueFrame, TypeOK, connVars
    <3>2. /\ frame \in Frames /\ Len(out'[c]) = Len(out[c]) + 1
          /\ \A i \in 1..Len(out[c]) : out'[c][i] = out[c][i]
          /\ out'[c][Len(out[c]) + 1] = frame
      BY <1>t, <3>1, AppendProperties DEF Frames
    <3>3. Numbered(c)'
      <4> DEFINE m == Len(delivered[c])
                 k == Len(out[c])
      <4>a. m + k = accepted[c]
        BY <1>i, <3>1 DEF Numbered
      <4>b. m \in Nat /\ k \in Nat /\ Len(out'[c]) = k + 1
        BY <1>t, <3>2
      <4>1. m + Len(out'[c]) = accepted'[c]
        <5>1. accepted[c] \in Nat /\ accepted'[c] = accepted[c] + 1
          BY <1>t, <3>1
        <5> HIDE DEF m, k
        <5> QED BY <4>a, <4>b, <5>1
      <4>2. ASSUME NEW i \in 1..Len(out'[c])
            PROVE  out'[c][i].n = Len(delivered[c]) + i
        <5>1. CASE i = Len(out[c]) + 1
          <6>1. out'[c][i].n = accepted[c] + 1
            BY <3>2, <5>1
          <6> HIDE DEF m, k
          <6>2. i = k + 1
            BY <5>1 DEF k
          <6>3. m + i = accepted[c] + 1
            BY <1>t, <4>a, <4>b, <6>2
          <6> QED BY <6>1, <6>3 DEF m
        <5>2. CASE i # Len(out[c]) + 1
          <6>1. i \in 1..Len(out[c])
            BY <1>t, <3>2, <5>2
          <6> QED BY <1>i, <3>1, <3>2, <6>1 DEF Numbered
        <5> QED BY <5>1, <5>2
      <4> QED BY <1>i, <3>1, <4>1, <4>2 DEF Numbered
    <3>4. CloseIsLast(c)'
      BY <1>i, <3>1 DEF CloseIsLast
    <3>5. NoWriterYet(c)'
      BY <3>1 DEF NoWriterYet, TableIsLive
    <3> QED BY <3>3, <3>4, <3>5
  <2>2. CASE d # c
    BY <1>5, <1>s, <2>2 DEF Post, QueueFrame, TypeOK, connVars
  <2> QED BY <2>1, <2>2
<1>6. ASSUME NEW d \in Conns, Send(d) \/ CloseWs(d) PROVE Goal
  BY <1>5, <1>6 DEF Send, CloseWs
<1>7. ASSUME \/ Stop
             \/ \E g \in Servers : ServeRun(g) \/ NextEvent(g) \/ LoopStops(g)
             \/ UNCHANGED vars
      PROVE  Goal
  <2> UNCHANGED <<conn, writer, out, delivered, accepted>>
    BY <1>7 DEF Stop, ServeRun, NextEvent, LoopStops, vars, connVars, outVars
  <2> QED BY <1>s
<1> QED BY <1>1, <1>2, <1>3, <1>4, <1>6, <1>7 DEF Next

\* The peer gets the frames in order and without a gap up to the point where
\* the connection broke, and none after the Close frame (__ws_send, __ws_close,
\* the write task).
THEOREM PeersGetFramesInOrder == Spec => []PeerInOrder
<1>1. Init => FrameInv
  BY EmptySeq DEF Init, FrameInv, Numbered, CloseIsLast, NoWriterYet
<1>2. TypeOK /\ FrameInv => PeerInOrder
  <2> SUFFICES ASSUME TypeOK, FrameInv, NEW c \in Conns
               PROVE  \A i \in DOMAIN delivered[c] :
                        /\ delivered[c][i].n = i
                        /\ delivered[c][i].close => i = Len(delivered[c])
    BY DEF PeerInOrder
  <2>1. DOMAIN delivered[c] = 1..Len(delivered[c])
    BY LenProperties DEF TypeOK
  <2> QED BY <2>1 DEF FrameInv, Numbered, CloseIsLast
<1> QED BY <1>1, <1>2, TypeCorrect, TableStaysLive, FrameStep, PTL DEF Spec

-----------------------------------------------------------------------------
(* The order of the handlers *)

\* Event b may be handled after event a of the same connection.
Later(a, b) == /\ a.kind # "close" /\ b.kind # "open"
               /\ b.kind = "message" => a.n < b.n

\* An event that the task of c can have reported.
Sent(c, ev) == /\ conn[c] \notin {"none", "switching"}
               /\ conn[c] = "open" => ev.kind # "close"
               /\ ev.n <= received[c]

\* What is handled comes before what is queued, and both are in order.
OrderInv ==
  \A c \in Conns :
    /\ \A i, j \in 1..Len(seen[c]) : i < j => Later(seen[c][i], seen[c][j])
    /\ \A i \in 1..Len(seen[c]), k \in 1..Len(events) :
         events[k].conn = c => Later(seen[c][i], events[k])
    /\ \A k, l \in 1..Len(events) :
         k < l /\ events[k].conn = c /\ events[l].conn = c => Later(events[k], events[l])
    /\ \A i \in 1..Len(seen[c]) : Sent(c, seen[c][i])
    /\ \A k \in 1..Len(events) : events[k].conn = c => Sent(c, events[k])

\* The task of a connection reports an event that may come after all others.
LEMMA ReportStep ==
  ASSUME TypeOK, OrderInv, NEW c \in Conns, NEW ev \in Events, ev.conn = c,
         events' = Append(events, ev), seen' = seen,
         \A a \in Events : Sent(c, a) => Later(a, ev),
         \A d \in Conns, a \in Events : Sent(d, a) => Sent(d, a)',
         Sent(c, ev)'
  PROVE  OrderInv'
<1>1. PICK n \in Nat : n = Len(events)
  BY LenProperties DEF TypeOK
<1>2. /\ Len(events') = n + 1 /\ events'[n + 1] = ev
      /\ \A k \in 1..n : events'[k] = events[k] /\ events[k] \in Events
  BY <1>1, AppendProperties, ElementOfSeq DEF TypeOK
<1>3. ASSUME NEW d \in Conns, NEW i \in 1..Len(seen[d]) PROVE seen[d][i] \in Events
  BY ElementOfSeq DEF TypeOK
<1>4. \A k \in 1..(n + 1) : k = n + 1 \/ k \in 1..n
  BY <1>1
<1>5. SUFFICES ASSUME NEW d \in Conns
      PROVE  /\ \A i, j \in 1..Len(seen[d]) : i < j => Later(seen[d][i], seen[d][j])
             /\ \A i \in 1..Len(seen[d]), k \in 1..(n + 1) :
                  events'[k].conn = d => Later(seen[d][i], events'[k])
             /\ \A k, l \in 1..(n + 1) :
                  k < l /\ events'[k].conn = d /\ events'[l].conn = d
                    => Later(events'[k], events'[l])
             /\ \A i \in 1..Len(seen[d]) : Sent(d, seen[d][i])'
             /\ \A k \in 1..(n + 1) : events'[k].conn = d => Sent(d, events[k])'
  BY <1>2 DEF OrderInv, Later
<1>6. \A i, j \in 1..Len(seen[d]) : i < j => Later(seen[d][i], seen[d][j])
  BY DEF OrderInv
<1>7. ASSUME NEW i \in 1..Len(seen[d]), NEW k \in 1..(n + 1), events'[k].conn = d
      PROVE  Later(seen[d][i], events'[k])
  <2>1. CASE k = n + 1
    <3>1. events'[k] = ev /\ d = c
      BY <1>2, <1>7, <2>1
    <3>2. Sent(d, seen[d][i])
      BY DEF OrderInv
    <3> QED BY <1>3, <3>1, <3>2
  <2>2. CASE k \in 1..n
    BY <1>1, <1>2, <1>7, <2>2 DEF OrderInv
  <2> QED BY <1>4, <2>1, <2>2
<1>8. ASSUME NEW k \in 1..(n + 1), NEW l \in 1..(n + 1), k < l,
             events'[k].conn = d, events'[l].conn = d
      PROVE  Later(events'[k], events'[l])
  <2>1. k \in 1..n
    BY <1>1, <1>8
  <2>2. CASE l = n + 1
    <3>1. events'[l] = ev /\ d = c /\ events'[k] = events[k]
      BY <1>2, <1>8, <2>1, <2>2
    <3>2. Sent(d, events[k])
      BY <1>1, <1>8, <2>1, <3>1 DEF OrderInv
    <3> QED BY <1>2, <2>1, <3>1, <3>2
  <2>3. CASE l \in 1..n
    BY <1>1, <1>2, <1>8, <2>1, <2>3 DEF OrderInv
  <2> QED BY <1>4, <2>2, <2>3
<1>9. \A i \in 1..Len(seen[d]) : Sent(d, seen[d][i])'
  <2> SUFFICES ASSUME NEW i \in 1..Len(seen[d]) PROVE Sent(d, seen[d][i])'
    OBVIOUS
  <2>1. Sent(d, seen[d][i])
    BY DEF OrderInv
  <2> DEFINE a == seen[d][i]
  <2>2. a \in Events /\ Sent(d, a)
    BY <1>3, <2>1
  <2>3. seen'[d][i] = a
    OBVIOUS
  <2> QED BY <2>2, <2>3 DEF Sent
<1>10. ASSUME NEW k \in 1..(n + 1), events'[k].conn = d
       PROVE  Sent(d, events[k])'
  <2>1. CASE k = n + 1
    BY <1>2, <1>10, <2>1 DEF Sent
  <2>2. CASE k \in 1..n
    <3>1. Sent(d, events[k]) /\ events[k] \in Events /\ events'[k] = events[k]
      BY <1>1, <1>2, <1>10, <2>2 DEF OrderInv
    <3> QED BY <3>1 DEF Sent
  <2> QED BY <1>4, <2>1, <2>2
<1> QED BY <1>6, <1>7, <1>8, <1>9, <1>10

\* A loop takes the oldest event and handles or ignores it.
LEMMA TakeStep ==
  ASSUME TypeOK, OrderInv, NEW g \in Servers, events # <<>>, TakeOldest(g),
         UNCHANGED <<conn, received>>
  PROVE  OrderInv'
<1> DEFINE ev == Head(events)
           c == ev.conn
<1>1. PICK n \in Nat : n + 1 = Len(events)
  <2>1. PICK k \in Nat : k = Len(events) /\ k # 0
    BY EmptySeq, LenProperties DEF TypeOK
  <2>2. k - 1 \in Nat /\ (k - 1) + 1 = k
    BY <2>1
  <2> QED BY <2>1, <2>2
<1>2. /\ events' = Tail(events) /\ ev = events[1] /\ Len(events') = n
      /\ \A k \in 1..n : events'[k] = events[k + 1]
  BY <1>1, HeadTailProperties DEF TypeOK, TakeOldest
<1>3. 1 \in 1..(n + 1) /\ \A k \in 1..n : k + 1 \in 1..(n + 1) /\ 1 < k + 1
  BY <1>1
<1>c. c \in Conns /\ ev \in Events
  <2>1. ev \in Events
    BY HeadTailProperties DEF TypeOK
  <2> QED BY <2>1 DEF Events
<1> HIDE DEF ev
<1>4. seen' = seen \/ seen' = [seen EXCEPT ![c] = Append(@, ev)]
  BY DEF TakeOldest, HandleEvent, CallHandler, ev
<1>5. \A d \in Conns : \A a : Sent(d, a)' <=> Sent(d, a')
  BY DEF Sent
<1>6. ASSUME NEW d \in Conns
      PROVE  /\ \A k, l \in 1..n :
                  k < l /\ events'[k].conn = d /\ events'[l].conn = d
                    => Later(events'[k], events'[l])
             /\ \A k \in 1..n : events'[k].conn = d => Sent(d, events'[k])
  <2>1. ASSUME NEW k \in 1..n, NEW l \in 1..n, k < l,
               events'[k].conn = d, events'[l].conn = d
        PROVE  Later(events'[k], events'[l])
    <3>1. /\ k + 1 \in 1..Len(events) /\ l + 1 \in 1..Len(events) /\ k + 1 < l + 1
      BY <1>1, <2>1
    <3>2. Later(events[k + 1], events[l + 1])
      BY <1>2, <2>1, <3>1 DEF OrderInv
    <3> QED BY <1>2, <3>2
  <2>2. ASSUME NEW k \in 1..n, events'[k].conn = d PROVE Sent(d, events'[k])
    <3>1. k + 1 \in 1..Len(events)
      BY <1>1
    <3> QED BY <1>2, <2>2, <3>1 DEF OrderInv
  <2> QED BY <2>1, <2>2
<1>7. ASSUME NEW d \in Conns, seen'[d] = seen[d]
      PROVE  /\ \A i, j \in 1..Len(seen'[d]) : i < j => Later(seen'[d][i], seen'[d][j])
             /\ \A i \in 1..Len(seen'[d]), k \in 1..n :
                  events'[k].conn = d => Later(seen'[d][i], events'[k])
             /\ \A i \in 1..Len(seen'[d]) : Sent(d, seen'[d][i])
  BY <1>1, <1>2, <1>3, <1>7 DEF OrderInv
<1>e. \A i \in 1..Len(seen[c]) : Later(seen[c][i], ev)
  <2>1. 1 \in 1..Len(events) /\ events[1].conn = c
    BY <1>1, <1>2
  <2> QED BY <1>2, <1>c, <2>1 DEF OrderInv
<1>l. \A k \in 1..n : events'[k].conn = c => Later(ev, events'[k])
  <2> SUFFICES ASSUME NEW k \in 1..n, events'[k].conn = c PROVE Later(ev, events'[k])
    OBVIOUS
  <2>1. /\ 1 \in 1..Len(events) /\ k + 1 \in 1..Len(events) /\ 1 < k + 1
    BY <1>1
  <2>2. events[1].conn = c /\ events[k + 1].conn = c
    BY <1>2
  <2>3. Later(events[1], events[k + 1])
    BY <1>c, <2>1, <2>2 DEF OrderInv
  <2> QED BY <1>2, <2>3
<1>8. ASSUME seen'[c] = Append(seen[c], ev)
      PROVE  /\ \A i, j \in 1..Len(seen'[c]) : i < j => Later(seen'[c][i], seen'[c][j])
             /\ \A i \in 1..Len(seen'[c]), k \in 1..n :
                  events'[k].conn = c => Later(seen'[c][i], events'[k])
             /\ \A i \in 1..Len(seen'[c]) : Sent(c, seen'[c][i])
  <2>1. PICK m \in Nat : m = Len(seen[c])
    BY <1>c, LenProperties DEF TypeOK
  <2>2. /\ Len(seen'[c]) = m + 1 /\ seen'[c][m + 1] = ev
        /\ \A i \in 1..m : seen'[c][i] = seen[c][i]
    BY <1>c, <1>8, <2>1, AppendProperties DEF TypeOK
  <2>3. \A i \in 1..(m + 1) : i = m + 1 \/ i \in 1..m
    BY <2>1
  <2>4. ASSUME NEW i \in 1..(m + 1), NEW j \in 1..(m + 1), i < j
        PROVE  Later(seen'[c][i], seen'[c][j])
    <3>1. i \in 1..m
      BY <2>1, <2>4
    <3>2. CASE j = m + 1
      BY <1>e, <2>1, <2>2, <3>1, <3>2
    <3>3. CASE j \in 1..m
      BY <1>c, <2>1, <2>2, <2>4, <3>1, <3>3 DEF OrderInv
    <3> QED BY <2>3, <3>2, <3>3
  <2>5. ASSUME NEW i \in 1..(m + 1), NEW k \in 1..n, events'[k].conn = c
        PROVE  Later(seen'[c][i], events'[k])
    <3>1. CASE i = m + 1
      BY <1>l, <2>2, <2>5, <3>1
    <3>2. CASE i \in 1..m
      <4>1. k + 1 \in 1..Len(events) /\ events[k + 1].conn = c
        BY <1>1, <1>2, <2>5
      <4>2. Later(seen[c][i], events[k + 1])
        BY <1>c, <2>1, <3>2, <4>1 DEF OrderInv
      <4> QED BY <1>2, <2>2, <3>2, <4>2
    <3> QED BY <2>3, <3>1, <3>2
  <2>6. ASSUME NEW i \in 1..(m + 1) PROVE Sent(c, seen'[c][i])
    <3>1. CASE i = m + 1
      BY <1>1, <1>2, <1>3, <1>c, <2>2, <3>1 DEF OrderInv
    <3>2. CASE i \in 1..m
      BY <1>c, <2>1, <2>2, <3>2 DEF OrderInv
    <3> QED BY <2>3, <3>1, <3>2
  <2> QED BY <2>2, <2>4, <2>5, <2>6
<1>9. ASSUME NEW d \in Conns
      PROVE  /\ \A i, j \in 1..Len(seen'[d]) : i < j => Later(seen'[d][i], seen'[d][j])
             /\ \A i \in 1..Len(seen'[d]), k \in 1..n :
                  events'[k].conn = d => Later(seen'[d][i], events'[k])
             /\ \A i \in 1..Len(seen'[d]) : Sent(d, seen'[d][i])
  <2>1. CASE seen'[d] = seen[d]
    BY <1>7, <2>1
  <2>2. CASE d = c /\ seen'[c] = Append(seen[c], ev)
    BY <1>8, <2>2
  <2>3. seen'[d] = seen[d] \/ (d = c /\ seen'[c] = Append(seen[c], ev))
    BY <1>4, <1>c DEF TypeOK
  <2> QED BY <2>1, <2>2, <2>3
<1> QED BY SMTT(30), <1>2, <1>6, <1>9 DEF OrderInv, Sent, Later

LEMMA OrderStep == TypeOK /\ OrderInv /\ [Next]_vars => OrderInv'
<1> SUFFICES ASSUME TypeOK, OrderInv, [Next]_vars PROVE OrderInv'
  OBVIOUS
<1> USE DEF connVars, loopVars, outVars
<1>1. ASSUME UNCHANGED <<received, events, seen>>,
             \A d \in Conns : conn'[d] = conn[d] \/ (conn[d] = "none" /\ conn'[d] = "switching")
      PROVE  OrderInv'
  <2>1. \A d \in Conns : \A a : Sent(d, a) =>
          /\ a.n <= received'[d]
          /\ conn'[d] \notin {"none", "switching"}
          /\ conn'[d] = "open" => a.kind # "close"
    BY <1>1 DEF Sent
  <2> QED BY <1>1, <2>1 DEF OrderInv, Sent, Later
<1>2. ASSUME NEW c \in Conns, Switch(c) PROVE OrderInv'
  BY <1>1, <1>2 DEF Switch, TypeOK
<1>3. CASE \/ Stop \/ UNCHANGED vars
           \/ \E g \in Servers : ServeRun(g) \/ LoopStops(g)
           \/ \E c \in Conns : WriteFrame(c) \/ WriteFails(c) \/ Send(c) \/ CloseWs(c)
  BY <1>1, <1>3 DEF Stop, vars, ServeRun, LoopStops, WriteFrame, WriteFails,
                    Send, CloseWs, Post
<1>4. ASSUME NEW g \in Servers, NextEvent(g) PROVE OrderInv'
  BY <1>4, TakeStep DEF NextEvent
<1>5. ASSUME NEW c \in Conns, NEW kind \in {"open", "close", "error"},
             conn[c] = "switching" \/ (conn[c] = "open" /\ kind = "close"),
             conn' = [conn EXCEPT ![c] = IF kind = "open" THEN "open"
                                         ELSE IF kind = "close" THEN "closed" ELSE "failed"],
             kind = "open" => conn[c] = "switching",
             events' = Append(events, Event(kind, c, 0)), UNCHANGED <<seen, received>>
      PROVE  OrderInv'
  <2>1. /\ Event(kind, c, 0) \in Events /\ Event(kind, c, 0).conn = c
        /\ Event(kind, c, 0).kind = kind /\ Event(kind, c, 0).n = 0
    BY DEF Event, Events
  <2>2. \A a \in Events : Sent(c, a) => Later(a, Event(kind, c, 0))
    BY <1>5, <2>1 DEF Sent, Later
  <2>3. \A d \in Conns, a \in Events : Sent(d, a) => Sent(d, a)'
    BY <1>5 DEF Sent, TypeOK
  <2>4. Sent(c, Event(kind, c, 0))'
    BY <1>5, <2>1 DEF Sent, TypeOK, Event
  <2> QED BY <1>5, <2>1, <2>2, <2>3, <2>4, ReportStep
<1>6. ASSUME NEW c \in Conns, UpgradeFails(c) \/ Establish(c) \/ ReadEnds(c) PROVE OrderInv'
  BY <1>5, <1>6 DEF UpgradeFails, Establish, ReadEnds
<1>7. ASSUME NEW c \in Conns, ReadMessage(c) PROVE OrderInv'
  <2>0. PICK ev : ev = Event("message", c, received[c] + 1)
    OBVIOUS
  <2>1. /\ conn[c] = "open" /\ received' = [received EXCEPT ![c] = @ + 1]
        /\ events' = Append(events, ev) /\ UNCHANGED <<conn, seen>> /\ received[c] \in Nat
    BY <1>7, <2>0 DEF ReadMessage, TypeOK
  <2>2. /\ ev \in Events /\ ev.conn = c /\ ev.kind = "message" /\ ev.n = received[c] + 1
    BY <2>0, <2>1 DEF Event, Events
  <2>3. \A a \in Events : Sent(c, a) => Later(a, ev)
    <3>1. \A a \in Events : a.n \in Nat
      BY DEF Events
    <3> QED BY <2>1, <2>2, <3>1 DEF Sent, Later
  <2>4. \A d \in Conns : received'[d] \in Nat /\ received[d] \in Nat /\ received[d] <= received'[d]
    BY <2>1 DEF TypeOK
  <2>5. \A d \in Conns, a \in Events : Sent(d, a) => Sent(d, a)'
    <3>1. \A a \in Events : a.n \in Nat
      BY DEF Events
    <3> QED BY <2>1, <2>4, <3>1 DEF Sent
  <2>6. Sent(c, ev)'
    <3>1. received'[c] = received[c] + 1
      BY <2>1 DEF TypeOK
    <3> QED BY <2>1, <2>2, <3>1 DEF Sent
  <2> QED BY <2>1, <2>2, <2>3, <2>5, <2>6, ReportStep
<1> QED BY <1>2, <1>3, <1>4, <1>6, <1>7 DEF Next

LEMMA OrderInit == Init => OrderInv
<1> SUFFICES ASSUME Init PROVE OrderInv
  OBVIOUS
<1>1. Len(<<>>) = 0 /\ 1..0 = {}
  OBVIOUS
<1>2. events = <<>> /\ \A c \in Conns : seen[c] = <<>>
  BY DEF Init
<1> QED BY <1>1, <1>2 DEF OrderInv

\* The handlers of a connection are called in order - open first, close last,
\* the peer's messages as they came - however many loops take events from the
\* queue in turns and whatever they ignore (wsEventLoop, __ws_next_event).
THEOREM HandlersKeepTheirOrder == Spec => []HandlersInOrder
<1>1. Init => OrderInv
  BY OrderInit
<1>2. TypeOK /\ OrderInv => HandlersInOrder
  <2> SUFFICES ASSUME TypeOK, OrderInv, NEW c \in Conns,
                      NEW i \in DOMAIN seen[c], NEW j \in DOMAIN seen[c], i < j
               PROVE  Later(seen[c][i], seen[c][j])
    BY DEF HandlersInOrder, Later
  <2>1. DOMAIN seen[c] = 1..Len(seen[c])
    BY LenProperties DEF TypeOK
  <2> QED BY <2>1 DEF OrderInv
<1> QED BY <1>1, <1>2, TypeCorrect, OrderStep, PTL DEF Spec

-----------------------------------------------------------------------------
(* The events of one connection *)

\* The events of c among the first ones of a sequence.
Kept(f, s, c) ==
  /\ f[0] = <<>>
  /\ \A i \in 1..Len(s) : f[i] = IF s[i].conn = c THEN Append(f[i - 1], s[i]) ELSE f[i - 1]

\* The function that the fold of OfConn is defined by, up to n.
FoldOf(s, c, n, f) ==
  f = [T \in SUBSET (1..n) |->
         IF T = {} THEN <<>>
         ELSE IF s[Max(T)].conn = c THEN Append(f[T \ {Max(T)}], s[Max(T)])
              ELSE f[T \ {Max(T)}]]

\* There is such a function.
LEMMA FoldExists ==
  ASSUME NEW s, NEW c
  PROVE  \A n \in Nat : \E f : FoldOf(s, c, n, f)
<1> DEFINE N == {n \in Nat : \E f : FoldOf(s, c, n, f)}
<1>1. 0 \in N
  <2>1. FoldOf(s, c, 0, [T \in SUBSET (1..0) |-> <<>>])
    BY DEF FoldOf
  <2> QED BY <2>1
<1>2. ASSUME NEW n \in N PROVE n + 1 \in N
  <2>1. PICK f : FoldOf(s, c, n, f)
    OBVIOUS
  <2>2. n \in Nat
    OBVIOUS
  <2> DEFINE last == s[n + 1]
             g == [T \in SUBSET (1..(n + 1)) |->
                     IF n + 1 \notin T THEN f[T]
                     ELSE IF last.conn = c THEN Append(f[T \ {n + 1}], last)
                          ELSE f[T \ {n + 1}]]
  <2>3. ASSUME NEW T \in SUBSET (1..(n + 1))
        PROVE  g[T] = IF T = {} THEN <<>>
                      ELSE IF s[Max(T)].conn = c THEN Append(g[T \ {Max(T)}], s[Max(T)])
                           ELSE g[T \ {Max(T)}]
    <3>1. CASE n + 1 \in T
      <4>1. Max(T) = n + 1
        BY <2>2, <3>1, MaxOfRange
      <4>2. T \ {n + 1} \in SUBSET (1..(n + 1)) /\ n + 1 \notin T \ {n + 1}
        OBVIOUS
      <4>3. g[T \ {n + 1}] = f[T \ {n + 1}]
        BY <4>2
      <4>4. g[T] = IF last.conn = c THEN Append(f[T \ {n + 1}], last) ELSE f[T \ {n + 1}]
        BY <3>1
      <4> QED BY <3>1, <4>1, <4>3, <4>4
    <3>2. CASE n + 1 \notin T
      <4>1. T \in SUBSET (1..n) /\ g[T] = f[T]
        BY <2>2, <3>2
      <4>2. f[T] = IF T = {} THEN <<>>
                   ELSE IF s[Max(T)].conn = c THEN Append(f[T \ {Max(T)}], s[Max(T)])
                        ELSE f[T \ {Max(T)}]
        BY <2>1, <4>1 DEF FoldOf
      <4>3. g[T \ {Max(T)}] = f[T \ {Max(T)}]
        BY <3>2
      <4> QED BY <4>1, <4>2, <4>3
    <3> QED BY <3>1, <3>2
  <2>4. g = [T \in SUBSET (1..(n + 1)) |->
               IF T = {} THEN <<>>
               ELSE IF s[Max(T)].conn = c THEN Append(g[T \ {Max(T)}], s[Max(T)])
                    ELSE g[T \ {Max(T)}]]
    <3>1. g = [T \in SUBSET (1..(n + 1)) |-> g[T]]
      OBVIOUS
    <3> HIDE DEF g
    <3> QED BY <2>3, <3>1
  <2>5. FoldOf(s, c, n + 1, g)
    BY <2>4 DEF FoldOf
  <2> QED BY <2>2, <2>5
<1> HIDE DEF N
<1>3. N = Nat
  BY <1>1, <1>2, AllNumbers DEF N
<1> QED BY <1>3 DEF N

\* OfConn goes through the sequence from the left.
LEMMA OfConnIsKept ==
  ASSUME NEW s \in Seq(Events), NEW c
  PROVE  \E f : Kept(f, s, c) /\ OfConn(s, c) = f[Len(s)]
<1> DEFINE g == CHOOSE f : FoldOf(s, c, Len(s), f)
<1>1. PICK n \in Nat : n = Len(s) /\ DOMAIN s = 1..n
  BY LenProperties
<1>2. FoldOf(s, c, n, g)
  BY <1>1, FoldExists
<1>3. OfConn(s, c) = g[1..n]
  BY <1>1 DEF OfConn, FoldLeft, MapThenFoldSet, FoldOf
<1> HIDE DEF g
<1> DEFINE f == [i \in 0..n |-> g[1..i]]
<1>4. f[0] = <<>>
  <2>1. 1..0 = {}
    OBVIOUS
  <2>2. g[{}] = <<>>
    BY <1>2 DEF FoldOf
  <2>3. f[0] = g[1..0]
    OBVIOUS
  <2> QED BY <2>1, <2>2, <2>3
<1>5. ASSUME NEW i \in 1..n
      PROVE  f[i] = IF s[i].conn = c THEN Append(f[i - 1], s[i]) ELSE f[i - 1]
  <2>1. /\ 1..i \in SUBSET (1..n) /\ i \in 1..i /\ (1..i) \ {i} = 1..(i - 1)
        /\ i \in Nat /\ i - 1 \in 0..n /\ i \in 0..n
    OBVIOUS
  <2>2. Max(1..i) = i
    BY <2>1, MaxOfRange
  <2>3. 1..i # {}
    BY <2>1
  <2>4. g[1..i] = IF s[i].conn = c THEN Append(g[1..(i - 1)], s[i]) ELSE g[1..(i - 1)]
    BY <1>2, <2>1, <2>2, <2>3 DEF FoldOf
  <2> QED BY <2>1, <2>4
<1>6. f[n] = g[1..n]
  <2>1. n \in 0..n
    OBVIOUS
  <2> QED BY <2>1
<1> HIDE DEF f
<1> QED BY <1>1, <1>3, <1>4, <1>5, <1>6 DEF Kept

\* What is kept are events.
LEMMA KeptType ==
  ASSUME NEW s \in Seq(Events), NEW c, NEW f, Kept(f, s, c), NEW n \in Nat, n <= Len(s)
  PROVE  f[n] \in Seq(Events)
<1>1. PICK l \in Nat : l = Len(s)
  BY LenProperties
<1> DEFINE N == {i \in Nat : i <= l => f[i] \in Seq(Events)}
<1>2. 0 \in N
  BY EmptySeq DEF Kept
<1>3. ASSUME NEW i \in N PROVE i + 1 \in N
  <2>1. CASE i + 1 <= l
    <3>1. i + 1 \in 1..l /\ (i + 1) - 1 = i /\ i <= l
      BY <2>1
    <3>2. f[i] \in Seq(Events) /\ s[i + 1] \in Events
      BY <1>1, <3>1, ElementOfSeq
    <3>3. f[i + 1] = IF s[i + 1].conn = c THEN Append(f[i], s[i + 1]) ELSE f[i]
      BY <1>1, <3>1 DEF Kept
    <3>4. f[i + 1] \in Seq(Events)
      BY <3>2, <3>3, AppendProperties
    <3> QED BY <3>4
  <2> QED BY <2>1
<1>4. N = Nat
  <2> HIDE DEF N
  <2> QED BY <1>2, <1>3, AllNumbers DEF N
<1> QED BY <1>1, <1>4

\* The first n elements of s are those of t from position k + 1 on.
Shifted(s, t, n, k) == /\ n <= Len(s) /\ n + k <= Len(t)
                       /\ \A i \in 1..n : s[i] = t[i + k]

GoesOn(f, g, n, k) == g[n + k] = g[k] \o f[n]

\* What is kept of a sequence that continues another is what is kept of the
\* first part and then of the second.
LEMMA KeptAfter ==
  ASSUME NEW s \in Seq(Events), NEW t \in Seq(Events), NEW c, NEW f, NEW g,
         Kept(f, s, c), Kept(g, t, c), NEW k \in Nat, NEW n \in Nat,
         Shifted(s, t, n, k)
  PROVE  GoesOn(f, g, n, k)
<1>1. PICK l \in Nat, m \in Nat : l = Len(s) /\ m = Len(t)
  BY LenProperties
<1>2. /\ f[0] = <<>> /\ n <= l /\ n + k <= m
      /\ \A i \in 1..l : f[i] = IF s[i].conn = c THEN Append(f[i - 1], s[i]) ELSE f[i - 1]
      /\ \A i \in 1..m : g[i] = IF t[i].conn = c THEN Append(g[i - 1], t[i]) ELSE g[i - 1]
  BY <1>1 DEF Kept, Shifted
<1>3. g[k] \in Seq(Events)
  BY SMTT(30), <1>1, <1>2, KeptType
<1> DEFINE Split(i) == g[i + k] = g[k] \o f[i]
           N == {i \in Nat : i <= n => Split(i)}
<1>4. 0 \in N
  <2>1. g[k] \o <<>> = g[k] /\ 0 + k = k
    BY <1>3, ConcatEmptySeq
  <2>2. Split(0)
    BY <1>2, <2>1
  <2> HIDE DEF Split
  <2> QED BY <2>2
<1>5. ASSUME NEW i \in N PROVE i + 1 \in N
  <2>1. CASE i + 1 <= n
    <3>1. /\ i + 1 \in 1..l /\ (i + 1) + k \in 1..m /\ i + 1 \in 1..n /\ i <= n /\ i <= l
          /\ (i + 1) - 1 = i /\ ((i + 1) + k) - 1 = i + k
      BY <1>2, <2>1
    <3>2. Split(i)
      <4> HIDE DEF Split
      <4> QED BY <3>1
    <3>3. t[(i + 1) + k] = s[i + 1]
      BY <3>1 DEF Shifted
    <3>4. f[i] \in Seq(Events) /\ s[i + 1] \in Events
      BY <1>1, <3>1, KeptType, ElementOfSeq
    <3>5. f[i + 1] = IF s[i + 1].conn = c THEN Append(f[i], s[i + 1]) ELSE f[i]
      BY <1>2, <3>1
    <3>6. g[(i + 1) + k] = IF s[i + 1].conn = c THEN Append(g[i + k], s[i + 1]) ELSE g[i + k]
      BY <1>2, <3>1, <3>3
    <3>7. g[k] \o Append(f[i], s[i + 1]) = Append(g[k] \o f[i], s[i + 1])
      <4>1. PICK a \in Seq(Events), b \in Seq(Events), e \in Events :
              a = g[k] /\ b = f[i] /\ e = s[i + 1]
        BY <1>3, <3>4
      <4>2. a \o Append(b, e) = Append(a \o b, e)
        BY AppendToConcat
      <4> QED BY <4>1, <4>2
    <3>8. Split(i + 1)
      BY <3>2, <3>5, <3>6, <3>7
    <3> HIDE DEF Split
    <3> QED BY <3>8
  <2> HIDE DEF Split
  <2> QED BY <2>1
<1>6. N = Nat
  <2> HIDE DEF N
  <2> QED BY <1>4, <1>5, AllNumbers DEF N
<1>7. Split(n)
  <2> HIDE DEF Split
  <2> QED BY <1>6
<1> QED BY <1>7 DEF GoesOn

\* An event is queued behind the others of its connection, and taken before them.
LEMMA OfConnType == ASSUME NEW s \in Seq(Events), NEW c PROVE OfConn(s, c) \in Seq(Events)
<1>1. PICK n \in Nat : n = Len(s) /\ n <= n
  BY LenProperties
<1> QED BY <1>1, OfConnIsKept, KeptType

LEMMA OfConnEmpty == ASSUME NEW c PROVE OfConn(<<>>, c) = <<>>
<1>1. <<>> \in Seq(Events) /\ Len(<<>>) = 0
  BY EmptySeq
<1>2. PICK f : Kept(f, <<>>, c) /\ OfConn(<<>>, c) = f[0]
  BY <1>1, OfConnIsKept
<1> QED BY <1>2 DEF Kept

LEMMA OfConnAppend ==
  ASSUME NEW s \in Seq(Events), NEW ev \in Events, NEW c
  PROVE  OfConn(Append(s, ev), c) =
           IF ev.conn = c THEN Append(OfConn(s, c), ev) ELSE OfConn(s, c)
<1>1. PICK n \in Nat : n = Len(s)
  BY LenProperties
<1>2. PICK t : t = Append(s, ev)
  OBVIOUS
<1>3. /\ t \in Seq(Events) /\ Len(t) = n + 1 /\ t[n + 1] = ev
      /\ \A i \in 1..n : t[i] = s[i]
  BY <1>1, <1>2, AppendProperties
<1>4. PICK f : Kept(f, s, c) /\ OfConn(s, c) = f[n]
  BY <1>1, OfConnIsKept
<1>5. PICK g : Kept(g, t, c) /\ OfConn(t, c) = g[n + 1]
  BY <1>3, OfConnIsKept
<1>6. g[n] = f[n]
  <2>1. PICK k \in Nat : k = 0
    OBVIOUS
  <2>2. Shifted(s, t, n, k) /\ n + k = n
    BY <1>1, <1>3, <2>1 DEF Shifted
  <2>3. g[n + k] = g[k] \o f[n]
    <3>1. GoesOn(f, g, n, k)
      BY <1>3, <1>4, <1>5, <2>2, KeptAfter
    <3> QED BY <3>1 DEF GoesOn
  <2>4. f[n] \in Seq(Events)
    BY <1>4, OfConnType
  <2>5. g[0] = <<>> /\ <<>> \o f[n] = f[n]
    BY <1>5, <2>4, ConcatEmptySeq DEF Kept
  <2> QED BY <2>1, <2>2, <2>3, <2>5
<1>7. g[n + 1] = IF ev.conn = c THEN Append(g[n], ev) ELSE g[n]
  <2>1. n + 1 \in 1..Len(t) /\ (n + 1) - 1 = n
    BY <1>3
  <2> QED BY <1>3, <1>5, <2>1 DEF Kept
<1> QED BY <1>2, <1>4, <1>5, <1>6, <1>7

LEMMA OfConnHead ==
  ASSUME NEW s \in Seq(Events), s # <<>>, NEW c
  PROVE  OfConn(s, c) =
           IF Head(s).conn = c THEN <<Head(s)>> \o OfConn(Tail(s), c) ELSE OfConn(Tail(s), c)
<1>1. PICK n \in Nat : n + 1 = Len(s)
  <2>1. PICK k \in Nat : k = Len(s) /\ k # 0
    BY EmptySeq, LenProperties
  <2>2. k - 1 \in Nat /\ (k - 1) + 1 = k
    BY <2>1
  <2> QED BY <2>1, <2>2
<1>2. PICK t : t = Tail(s)
  OBVIOUS
<1>3. /\ t \in Seq(Events) /\ Len(t) = n /\ Head(s) = s[1]
      /\ \A i \in 1..n : t[i] = s[i + 1]
  BY <1>1, <1>2, HeadTailProperties
<1>4. PICK f : Kept(f, t, c) /\ OfConn(t, c) = f[n]
  BY <1>3, OfConnIsKept
<1>5. PICK g : Kept(g, s, c) /\ OfConn(s, c) = g[n + 1]
  BY <1>1, OfConnIsKept
<1>6. g[n + 1] = g[1] \o f[n]
  <2>1. PICK k \in Nat : k = 1
    OBVIOUS
  <2>2. Shifted(t, s, n, k)
    BY <1>1, <1>3, <2>1 DEF Shifted
  <2>3. g[n + k] = g[k] \o f[n]
    <3>1. GoesOn(f, g, n, k)
      BY <1>3, <1>4, <1>5, <2>2, KeptAfter
    <3> QED BY <3>1 DEF GoesOn
  <2> QED BY <2>1, <2>3
<1>7. g[1] = IF s[1].conn = c THEN Append(<<>>, s[1]) ELSE <<>>
  <2>1. 1 \in 1..Len(s) /\ 1 - 1 = 0
    BY <1>1
  <2> QED BY <1>5, <2>1 DEF Kept
<1>8. Append(<<>>, s[1]) = <<s[1]>>
  OBVIOUS
<1>9. <<>> \o f[n] = f[n]
  BY <1>3, <1>4, OfConnType, ConcatEmptySeq
<1> QED BY <1>2, <1>3, <1>4, <1>5, <1>6, <1>7, <1>8, <1>9
-----------------------------------------------------------------------------
(* Nothing is lost *)

LEMMA OneEvent ==
  ASSUME NEW ev \in Events
  PROVE  /\ <<ev>> \in Seq(Events) /\ Len(<<ev>>) = 1 /\ <<ev>>[1] = ev
         /\ Append(<<>>, ev) = <<ev>>
OBVIOUS

LEMMA EventIsEvent ==
  ASSUME NEW kind \in {"open", "message", "close", "error"}, NEW c \in Conns, NEW n \in Nat
  PROVE  /\ Event(kind, c, n) \in Events /\ Event(kind, c, n).conn = c
         /\ Event(kind, c, n).kind = kind /\ Event(kind, c, n).n = n
BY DEF Event, Events

\* All that the task of c reports: the opening, n messages and the end.
Whole(c, n, done) ==
  <<Event("open", c, 0)>> \o [i \in 1..n |-> Event("message", c, i)]
  \o (IF done THEN <<Event("close", c, 0)>> ELSE <<>>)

\* A connection that is not established has no events.
Fresh == \A c \in Conns : conn[c] \in {"none", "switching"} =>
           received[c] = 0 /\ seen[c] = <<>> /\ OfConn(events, c) = <<>>

\* Handlers are called, and wait for the lock, in loops that were started.
Started ==
  /\ \A i \in 1..Len(lock) : loop[lock[i]] # "none"
  /\ \A c \in Conns : seen[c] # <<>> => \E g \in Servers : loop[g] # "none"

\* The end of c was handled.
SeenEnd(c) == \E i \in 1..Len(seen[c]) : seen[c][i].kind = "close"

\* A connection whose handlers were called is in the table of the only loop
\* from its opening to its end.
Tabled == OneLoop => \A c \in Conns, g \in Servers :
            loop[g] # "none" /\ seen[c] # <<>> /\ ~SeenEnd(c) => c \in wsTable[g]

Told == OneLoop => \A c \in Conns : conn[c] \in {"open", "closed"} =>
          Story(c) = Whole(c, received[c], conn[c] = "closed")

StoryInv == Fresh /\ Started /\ Tabled /\ Told

LEMMA WholeProperties ==
  ASSUME NEW c \in Conns, NEW n \in Nat
  PROVE  /\ \A done \in BOOLEAN : /\ Whole(c, n, done) \in Seq(Events)
                                  /\ Whole(c, n, done) # <<>>
                                  /\ Head(Whole(c, n, done)).kind = "open"
         /\ Whole(c, 0, FALSE) = <<Event("open", c, 0)>>
         /\ Whole(c, n + 1, FALSE) = Append(Whole(c, n, FALSE), Event("message", c, n + 1))
         /\ Whole(c, n, TRUE) = Append(Whole(c, n, FALSE), Event("close", c, 0))
<1> DEFINE Msgs(k) == [i \in 1..k |-> Event("message", c, i)]
<1>1. PICK opening \in Events : opening = Event("open", c, 0) /\ opening.kind = "open"
  BY EventIsEvent
<1>2. PICK end \in Events : end = Event("close", c, 0)
  BY EventIsEvent
<1>3. \A i \in Nat : Event("message", c, i) \in Events
  BY EventIsEvent
<1>4. ASSUME NEW k \in Nat PROVE Msgs(k) \in Seq(Events) /\ Len(Msgs(k)) = k
  <2>1. \A i \in 1..k : Event("message", c, i) \in Events
    BY <1>3
  <2> QED BY <2>1, IsASeq
<1>5. Msgs(n + 1) = Append(Msgs(n), Event("message", c, n + 1))
  <2>1. PICK e \in Events : e = Event("message", c, n + 1)
    BY <1>3
  <2>2. PICK s \in Seq(Events) : s = Msgs(n) /\ Len(s) = n
    BY <1>4
  <2>3. PICK t \in Seq(Events) : t = Msgs(n + 1) /\ Len(t) = n + 1
    <3>1. n + 1 \in Nat
      OBVIOUS
    <3>2. Msgs(n + 1) \in Seq(Events) /\ Len(Msgs(n + 1)) = n + 1
      <4> HIDE DEF Msgs
      <4> QED BY <1>4, <3>1
    <3> QED BY <3>2
  <2>4. /\ Append(s, e) \in Seq(Events) /\ Len(Append(s, e)) = n + 1
        /\ Append(s, e)[n + 1] = e /\ \A i \in 1..n : Append(s, e)[i] = s[i]
    BY <2>2, AppendProperties
  <2>5. t[n + 1] = e /\ \A i \in 1..n : t[i] = s[i]
    BY <2>1, <2>2, <2>3
  <2>6. \A i \in 1..(n + 1) : i = n + 1 \/ i \in 1..n
    OBVIOUS
  <2>7. \A i \in 1..Len(t) : t[i] = Append(s, e)[i]
    BY <2>3, <2>4, <2>5, <2>6
  <2>8. t = Append(s, e)
    BY <2>3, <2>4, <2>7, SeqEqual
  <2> QED BY <2>1, <2>2, <2>3, <2>8
<1>6. PICK m : m = Msgs(n)
  OBVIOUS
<1>7. PICK msgs : msgs = Msgs(n + 1)
  OBVIOUS
<1>8. /\ m \in Seq(Events) /\ msgs \in Seq(Events)
      /\ \A e \in Events : e = Event("message", c, n + 1) => msgs = Append(m, e)
  BY <1>4, <1>5, <1>6, <1>7
<1>9. Msgs(0) = <<>>
  OBVIOUS
<1>10. /\ Whole(c, 0, FALSE) = <<opening>> \o <<>> \o <<>>
       /\ Whole(c, n, FALSE) = <<opening>> \o m \o <<>>
       /\ Whole(c, n, TRUE) = <<opening>> \o m \o <<end>>
       /\ Whole(c, n + 1, FALSE) = <<opening>> \o msgs \o <<>>
  <2>1. \A k : Whole(c, k, FALSE) = <<opening>> \o Msgs(k) \o <<>>
    BY <1>1 DEF Whole
  <2>2. \A k : Whole(c, k, TRUE) = <<opening>> \o Msgs(k) \o <<end>>
    BY <1>1, <1>2 DEF Whole
  <2> HIDE DEF Msgs
  <2> QED BY <2>1, <2>2, <1>6, <1>7, <1>9
<1> HIDE DEF Msgs
<1>11. PICK s \in Seq(Events) : s = <<opening>> /\ Len(s) = 1 /\ s[1] = opening
  BY OneEvent
<1>12. /\ s \o <<>> = s
       /\ \A q \in Seq(Events) : q \o <<>> = q
  BY ConcatEmptySeq
<1>13. PICK w \in Seq(Events) : w = s \o m /\ Len(w) > 0 /\ w[1] = opening
  <2>1. PICK k \in Nat : k = Len(m)
    BY <1>8, LenProperties
  <2>2. /\ s \o m \in Seq(Events) /\ Len(s \o m) = 1 + k
        /\ \A i \in 1..1 : (s \o m)[i] = s[i]
    BY <1>8, <1>11, <2>1, ConcatAt
  <2>3. 1 \in 1..1 /\ 1 + k > 0
    BY <2>1
  <2> QED BY <1>11, <2>2, <2>3
<1>14. /\ Append(w, end) \in Seq(Events) /\ w \o <<end>> = Append(w, end)
       /\ Len(Append(w, end)) > 0 /\ Append(w, end)[1] = opening
  <2>1. PICK k \in Nat : k = Len(w) /\ k > 0
    BY <1>13, LenProperties
  <2>2. 1 \in 1..Len(w) /\ Len(w) + 1 > 0
    BY <2>1
  <2>3. w \o <<end>> = Append(w, end)
    BY AppendIsConcat
  <2> QED BY <1>13, <2>2, <2>3, AppendProperties
<1>15. \A q \in Seq(Events) : Len(q) > 0 => q # <<>> /\ Head(q) = q[1]
  BY EmptySeq, HeadTailProperties
<1>16. /\ Whole(c, n, FALSE) = w /\ Whole(c, n, TRUE) = Append(w, end)
  BY <1>10, <1>11, <1>12, <1>13, <1>14
<1>17. Whole(c, n + 1, FALSE) = Append(w, Event("message", c, n + 1))
  <2>1. PICK e \in Events : e = Event("message", c, n + 1)
    BY <1>3
  <2>2. msgs = Append(m, e)
    BY <1>8, <2>1
  <2>3. s \o Append(m, e) = Append(s \o m, e)
    BY <1>8, <2>1, AppendToConcat
  <2>4. Append(w, e) \in Seq(Events)
    BY AppendProperties
  <2> QED BY <1>10, <1>11, <1>12, <1>13, <2>1, <2>2, <2>3, <2>4
<1>18. Whole(c, 0, FALSE) = <<Event("open", c, 0)>>
  BY <1>1, <1>10, <1>11, <1>12
<1>19. \A done \in BOOLEAN : /\ Whole(c, n, done) \in Seq(Events)
                             /\ Whole(c, n, done) # <<>>
                             /\ Head(Whole(c, n, done)).kind = "open"
  <2>1. ASSUME NEW done \in BOOLEAN
        PROVE  /\ Whole(c, n, done) \in Seq(Events) /\ Whole(c, n, done) # <<>>
               /\ Head(Whole(c, n, done)).kind = "open"
    <3>1. CASE done = FALSE
      BY <1>1, <1>13, <1>15, <1>16, <3>1
    <3>2. CASE done = TRUE
      BY <1>1, <1>14, <1>15, <1>16, <3>2
    <3> QED BY <3>1, <3>2
  <2> QED BY <2>1
<1> QED BY <1>2, <1>16, <1>17, <1>18, <1>19

\* Loops are started and end, and none is forgotten: if only one loop was ever
\* started, that was so before.
LEMMA LoopsRemain ==
  ASSUME TypeOK, [Next]_vars
  PROVE  /\ \A g \in Servers : loop[g] # "none" => loop'[g] # "none"
         /\ OneLoop' => OneLoop
<1>1. \A g \in Servers : loop[g] # "none" => loop'[g] # "none"
  <2>1. loop' = loop \/ \E g \in Servers, st \in {"waiting", "ended"} :
                          loop' = [loop EXCEPT ![g] = st]
    BY DEF Next, vars, loopVars, Stop, ServeRun, NextEvent, LoopStops, Switch, UpgradeFails,
           Establish, ReadMessage, ReadEnds, WriteFrame, WriteFails, Send, CloseWs, Post
  <2> QED BY <2>1 DEF TypeOK
<1> QED BY <1>1 DEF OneLoop

\* A step that leaves the events and what the handlers saw of them alone.
LEMMA QuietStep ==
  ASSUME TypeOK, StoryInv, UNCHANGED <<received, events, wsTable, seen>>,
         \A d \in Conns : conn'[d] = conn[d] \/ (conn[d] = "none" /\ conn'[d] = "switching"),
         \A g \in Servers : loop[g] # "none" <=> loop'[g] # "none",
         \A i \in 1..Len(lock') : \E j \in 1..Len(lock) : lock'[i] = lock[j],
         lock' \in Seq(Servers)
  PROVE  StoryInv'
<1>1. OneLoop' <=> OneLoop
  BY DEF OneLoop
<1>2. Fresh'
  BY DEF StoryInv, Fresh
<1>3. Started'
  <2>1. ASSUME NEW i \in 1..Len(lock') PROVE loop'[lock'[i]] # "none"
    <3>1. PICK j \in 1..Len(lock) : lock'[i] = lock[j]
      OBVIOUS
    <3>2. loop[lock[j]] # "none" /\ lock[j] \in Servers
      BY ElementOfSeq DEF TypeOK, StoryInv, Started
    <3> QED BY <3>1, <3>2
  <2>2. \A c \in Conns : seen'[c] # <<>> => \E g \in Servers : loop'[g] # "none"
    BY DEF StoryInv, Started
  <2> QED BY <2>1, <2>2 DEF Started
<1>4. Tabled'
  BY <1>1 DEF StoryInv, Tabled, SeenEnd
<1>5. Told'
  BY <1>1 DEF StoryInv, Told, Story
<1> QED BY <1>2, <1>3, <1>4, <1>5 DEF StoryInv

\* The task of c reports ev, after which it has reported everything up to there.
LEMMA TellStep ==
  ASSUME TypeOK, StoryInv, NEW c \in Conns, NEW ev \in Events, ev.conn = c,
         events' = Append(events, ev), UNCHANGED <<lock, loop, wsTable, seen>>,
         \A d \in Conns : d # c => conn'[d] = conn[d] /\ received'[d] = received[d],
         conn[c] \in {"switching", "open"}, conn'[c] \in {"open", "failed", "closed"},
         conn[c] = "switching" /\ conn'[c] # "failed" =>
           Whole(c, received'[c], conn'[c] = "closed") = <<ev>>,
         conn[c] = "open" =>
           /\ conn'[c] # "failed"
           /\ Whole(c, received'[c], conn'[c] = "closed") = Append(Whole(c, received[c], FALSE), ev)
  PROVE  StoryInv'
<1>t. /\ events \in Seq(Events) /\ \A d \in Conns : seen[d] \in Seq(Events)
  BY DEF TypeOK
<1>1. /\ \A d \in Conns : d # c => OfConn(events', d) = OfConn(events, d)
      /\ OfConn(events', c) = Append(OfConn(events, c), ev)
  BY <1>t, OfConnAppend
<1>2. OneLoop' <=> OneLoop
  BY DEF OneLoop
<1>3. Fresh'
  BY <1>1 DEF StoryInv, Fresh
<1>4. Started'
  BY DEF StoryInv, Started
<1>5. Tabled'
  BY <1>2 DEF StoryInv, Tabled, SeenEnd
<1>6. ASSUME OneLoop, NEW d \in Conns, conn'[d] \in {"open", "closed"}
      PROVE  seen[d] \o OfConn(events', d) = Whole(d, received'[d], conn'[d] = "closed")
  <2>1. CASE d # c
    BY <1>1, <1>6, <2>1 DEF StoryInv, Told, Story
  <2>2. CASE d = c /\ conn[c] = "switching"
    <3>1. seen[c] = <<>> /\ OfConn(events, c) = <<>>
      BY <2>2 DEF StoryInv, Fresh
    <3>2. <<>> \o Append(<<>>, ev) = <<ev>>
      <4>1. PICK q \in Seq(Events) : q = <<ev>> /\ q = Append(<<>>, ev)
        BY OneEvent
      <4> QED BY <4>1, ConcatEmptySeq
    <3> QED BY <1>1, <1>6, <2>2, <3>1, <3>2
  <2>3. CASE d = c /\ conn[c] = "open"
    <3>1. PICK q \in Seq(Events) : q = OfConn(events, c)
      BY <1>t, OfConnType
    <3>2. seen[c] \o Append(q, ev) = Append(seen[c] \o q, ev)
      <4>1. PICK s \in Seq(Events) : s = seen[c]
        BY <1>t
      <4>2. s \o Append(q, ev) = Append(s \o q, ev)
        BY AppendToConcat
      <4> QED BY <4>1, <4>2
    <3>3. seen[c] \o q = Whole(c, received[c], FALSE)
      BY <1>6, <2>3, <3>1 DEF StoryInv, Told, Story
    <3> QED BY <1>1, <2>3, <3>1, <3>2, <3>3
  <2> QED BY <2>1, <2>2, <2>3
<1>7. Told'
  BY <1>2, <1>6 DEF Told, Story
<1> QED BY <1>3, <1>4, <1>5, <1>7 DEF StoryInv

\* The only loop knows the connection of the event it takes, unless the event
\* opens the connection.
LEMMA HeadIsKnown ==
  ASSUME TypeOK, OrderInv, StoryInv, OneLoop, NEW g \in Servers, loop[g] # "none",
         events # <<>>, NEW ev \in Events, ev = Head(events),
         conn[ev.conn] \in {"open", "closed"}, ev.kind # "open"
  PROVE  Known(g, ev.conn)
<1>1. PICK c \in Conns : c = ev.conn
  BY DEF Events
<1>t. /\ events \in Seq(Events) /\ seen[c] \in Seq(Events) /\ received[c] \in Nat
  BY DEF TypeOK
<1>2. seen[c] # <<>>
  <2> SUFFICES ASSUME seen[c] = <<>> PROVE FALSE
    OBVIOUS
  <2>1. PICK q \in Seq(Events) : q = OfConn(Tail(events), c)
    <3>1. Tail(events) \in Seq(Events)
      BY <1>t, HeadTailProperties
    <3> QED BY <3>1, OfConnType
  <2>2. OfConn(events, c) = <<ev>> \o q
    BY <1>1, <1>t, <2>1, OfConnHead
  <2>3. <<ev>> \o q \in Seq(Events) /\ <<>> \o (<<ev>> \o q) = <<ev>> \o q
        /\ Head(<<ev>> \o q) = ev
    <3>1. PICK e \in Seq(Events) : e = <<ev>> /\ Len(e) = 1 /\ e[1] = ev
      BY OneEvent
    <3>2. PICK k \in Nat : k = Len(q)
      BY LenProperties
    <3>3. e \o q \in Seq(Events) /\ Len(e \o q) = 1 + k /\ \A i \in 1..1 : (e \o q)[i] = e[i]
      BY <3>1, <3>2, ConcatAt
    <3>4. Head(e \o q) = (e \o q)[1]
      BY <3>2, <3>3, EmptySeq, HeadTailProperties
    <3>5. 1 \in 1..1
      OBVIOUS
    <3> QED BY <3>1, <3>3, <3>4, <3>5, ConcatEmptySeq
  <2>4. seen[c] \o OfConn(events, c) = Whole(c, received[c], conn[c] = "closed")
    BY <1>1 DEF StoryInv, Told, Story
  <2>5. Head(Whole(c, received[c], conn[c] = "closed")).kind = "open"
    BY <1>t, WholeProperties
  <2> QED BY <2>2, <2>3, <2>4, <2>5
<1>3. ~SeenEnd(c)
  <2>1. 1 \in 1..Len(events) /\ events[1] = ev
    <3>1. Len(events) \in Nat /\ Len(events) # 0
      BY <1>t, EmptySeq, LenProperties
    <3>2. Head(events) = events[1]
      BY <1>t, HeadTailProperties
    <3> QED BY <3>1, <3>2
  <2>2. \A i \in 1..Len(seen[c]) : Later(seen[c][i], events[1])
    BY <1>1, <2>1 DEF OrderInv
  <2> QED BY <2>2 DEF Later, SeenEnd
<1> QED BY <1>1, <1>2, <1>3 DEF StoryInv, Tabled, Known

\* The only loop takes an event: what it sees is what the queue loses.
LEMMA HandleStep ==
  ASSUME TypeOK, OrderInv, StoryInv, NEW g \in Servers, NextEvent(g)
  PROVE  StoryInv'
<1>t. /\ events \in Seq(Events) /\ seen \in [Conns -> Seq(Events)]
      /\ wsTable \in [Servers -> SUBSET Conns] /\ lock \in Seq(Servers)
      /\ loop \in [Servers -> {"none", "waiting", "ended"}]
  BY DEF TypeOK
<1>n. /\ events # <<>> /\ lock # <<>> /\ g = Head(lock) /\ UNCHANGED <<conn, received>>
  BY DEF NextEvent, connVars
<1>1. PICK ev \in Events : ev = Head(events)
  BY <1>t, <1>n, HeadTailProperties
<1>2. PICK c \in Conns : c = ev.conn
  BY DEF Events
<1>3. PICK rest \in Seq(Events) : rest = Tail(events) /\ events' = rest
  BY <1>t, <1>n, HeadTailProperties DEF NextEvent, TakeOldest
<1>4. /\ \A d \in Conns : OfConn(rest, d) \in Seq(Events)
      /\ \A d \in Conns : d # c => OfConn(events, d) = OfConn(rest, d)
      /\ OfConn(events, c) = <<ev>> \o OfConn(rest, c)
  BY <1>t, <1>n, <1>1, <1>2, <1>3, OfConnHead, OfConnType
<1>5. HandleEvent(g, ev)
  BY <1>1 DEF NextEvent, TakeOldest
<1>g. loop[g] # "none"
  <2>1. 1 \in 1..Len(lock) /\ lock[1] = g
    <3>1. Len(lock) \in Nat /\ Len(lock) # 0
      BY <1>t, <1>n, EmptySeq, LenProperties
    <3>2. Head(lock) = lock[1]
      BY <1>t, <1>n, HeadTailProperties
    <3> QED BY <1>n, <3>1, <3>2
  <2> QED BY <2>1 DEF StoryInv, Started
<1>l. \A h \in Servers : loop[h] # "none" <=> loop'[h] # "none"
  BY <1>t, <1>g DEF NextEvent
<1>o. OneLoop' <=> OneLoop
  BY <1>l DEF OneLoop
<1>6. /\ \A d \in Conns : d # c => seen'[d] = seen[d]
      /\ \A d \in Conns, h \in Servers : d # c \/ h # g => (d \in wsTable'[h] <=> d \in wsTable[h])
  BY <1>t, <1>2, <1>5 DEF HandleEvent, CallHandler
<1>7. \/ /\ seen'[c] = Append(seen[c], ev)
         /\ ev.kind = "close" \/ c \in wsTable'[g]
      \/ /\ seen'[c] = seen[c] /\ ev.kind # "open" /\ ~Known(g, c)
         /\ c \in wsTable'[g] <=> c \in wsTable[g]
  BY <1>t, <1>2, <1>5 DEF HandleEvent, CallHandler, Known
<1>8. ASSUME seen'[c] = Append(seen[c], ev)
      PROVE  /\ seen'[c] # <<>> /\ (ev.kind = "close" => SeenEnd(c)')
  <2>1. PICK n \in Nat : n = Len(seen[c])
    BY <1>t, LenProperties
  <2>2. Len(seen'[c]) = n + 1 /\ seen'[c][n + 1] = ev /\ seen'[c] \in Seq(Events)
    BY <1>t, <1>8, <2>1, AppendProperties
  <2>3. n + 1 \in 1..(n + 1) /\ n + 1 # 0
    OBVIOUS
  <2> QED BY <2>2, <2>3, EmptySeq DEF SeenEnd
<1>9. Fresh'
  <2>1. conn[c] \notin {"none", "switching"}
    <3> SUFFICES ASSUME conn[c] \in {"none", "switching"} PROVE FALSE
      OBVIOUS
    <3>1. <<ev>> \o OfConn(rest, c) = <<>>
      BY <1>4 DEF StoryInv, Fresh
    <3>2. PICK q \in Seq(Events), e \in Seq(Events) : q = OfConn(rest, c) /\ e = <<ev>> /\ Len(e) = 1
      BY <1>4, OneEvent
    <3>3. PICK k \in Nat : k = Len(q)
      BY LenProperties
    <3>4. Len(e \o q) = 1 + k
      BY <3>2, <3>3, ConcatAt
    <3> QED BY <3>1, <3>2, <3>3, <3>4
  <2> QED BY <1>n, <1>3, <1>4, <1>6, <2>1 DEF StoryInv, Fresh
<1>10. Started'
  <2>1. ASSUME NEW i \in 1..Len(lock') PROVE loop'[lock'[i]] # "none"
    <3>1. PICK tl \in Seq(Servers) : tl = Tail(lock)
      BY <1>t, <1>n, HeadTailProperties
    <3>m. PICK m \in Nat : m = Len(tl) /\ m = Len(lock) - 1 /\ \A j \in 1..m : tl[j] = lock[j + 1]
      <4>1. Len(tl) \in Nat /\ Len(tl) = Len(lock) - 1
            /\ \A j \in 1..Len(lock) - 1 : tl[j] = lock[j + 1]
        BY <1>t, <1>n, <3>1, LenProperties, HeadTailProperties
      <4> QED BY <4>1
    <3>2. ASSUME NEW j \in 1..m PROVE loop[tl[j]] # "none" /\ tl[j] \in Servers
      <4>1. j + 1 \in 1..Len(lock)
        <5>1. Len(lock) \in Nat
          BY <1>t, LenProperties
        <5> QED BY <3>m, <5>1
      <4>2. loop[lock[j + 1]] # "none" /\ lock[j + 1] \in Servers
        BY <1>t, <4>1, ElementOfSeq DEF StoryInv, Started
      <4> QED BY <3>m, <4>2
    <3>3. CASE lock' = tl
      BY <1>l, <3>m, <3>2, <3>3
    <3>4. CASE lock' = Append(tl, g)
      <4>1. Len(lock') = m + 1 /\ lock'[m + 1] = g /\ \A j \in 1..m : lock'[j] = tl[j]
        <5>1. PICK q : q = Append(tl, g)
          OBVIOUS
        <5>2. Len(q) = m + 1 /\ q[m + 1] = g /\ \A j \in 1..m : q[j] = tl[j]
          <6>1. m = Len(tl) /\ tl \in Seq(Servers) /\ g \in Servers
            BY <3>m
          <6> QED BY <5>1, <6>1, AppendProperties
        <5> QED BY <3>4, <5>1, <5>2
      <4>2. i = m + 1 \/ i \in 1..m
        BY <3>m, <4>1
      <4> QED BY <1>l, <1>g, <3>2, <4>1, <4>2
    <3> QED BY <3>1, <3>3, <3>4 DEF NextEvent
  <2>2. \E h \in Servers : loop'[h] # "none"
    BY <1>g, <1>l
  <2> QED BY <2>1, <2>2 DEF Started
<1>11. Tabled'
  <2> SUFFICES ASSUME OneLoop, NEW d \in Conns, NEW h \in Servers,
                      loop'[h] # "none", seen'[d] # <<>>, ~SeenEnd(d)'
               PROVE  d \in wsTable'[h]
    BY <1>o DEF Tabled
  <2>1. h = g
    BY <1>g, <1>l DEF OneLoop
  <2>2. CASE d # c
    <3>1. d \in wsTable[h]
      BY <1>6, <1>l, <2>2 DEF StoryInv, Tabled, SeenEnd
    <3> QED BY <1>6, <2>2, <3>1
  <2>3. CASE d = c /\ seen'[c] = Append(seen[c], ev)
    BY <1>7, <1>8, <2>1, <2>3
  <2>4. CASE d = c /\ seen'[c] = seen[c]
    <3>1. c \in wsTable[g]
      BY <1>g, <2>4 DEF StoryInv, Tabled, SeenEnd
    <3>2. seen'[c] = Append(seen[c], ev) \/ (c \in wsTable'[g] <=> c \in wsTable[g])
      BY <1>7
    <3> QED BY <2>1, <2>3, <2>4, <3>1, <3>2
  <2> QED BY <1>7, <2>2, <2>3, <2>4
<1>12. ASSUME OneLoop, NEW d \in Conns, conn[d] \in {"open", "closed"}
       PROVE  seen'[d] \o OfConn(rest, d) = Whole(d, received[d], conn[d] = "closed")
  <2>1. seen[d] \o OfConn(events, d) = Whole(d, received[d], conn[d] = "closed")
    BY <1>12 DEF StoryInv, Told, Story
  <2>2. CASE d # c
    BY <1>4, <1>6, <2>1, <2>2
  <2>3. CASE d = c
    <3>1. seen'[c] = Append(seen[c], ev)
      <4>1. ev.kind = "open" \/ Known(g, c)
        BY <1>n, <1>g, <1>1, <1>2, <1>12, <2>3, HeadIsKnown
      <4> QED BY <1>7, <4>1
    <3>2. PICK s \in Seq(Events), e \in Seq(Events), q \in Seq(Events) :
            s = seen[c] /\ e = <<ev>> /\ q = OfConn(rest, c)
      BY <1>t, <1>4, OneEvent
    <3>3. Append(s, ev) = s \o e
      BY <3>2, AppendIsConcat
    <3>4. (s \o e) \o q = s \o (e \o q)
      BY ConcatAssociative
    <3> QED BY <1>4, <2>1, <2>3, <3>1, <3>2, <3>3, <3>4
  <2> QED BY <2>2, <2>3
<1>13. Told'
  BY <1>o, <1>n, <1>3, <1>12 DEF Told, Story
<1> QED BY <1>9, <1>10, <1>11, <1>13 DEF StoryInv

\* The first loop is started: nothing was handled before it.
LEMMA ServeStep ==
  ASSUME TypeOK, StoryInv, NEW g \in Servers, ServeRun(g), OneLoop' => OneLoop
  PROVE  StoryInv'
<1>t. loop \in [Servers -> {"none", "waiting", "ended"}] /\ lock \in Seq(Servers)
  BY DEF TypeOK
<1>1. /\ loop' = [loop EXCEPT ![g] = "waiting"] /\ lock' = Append(lock, g) /\ loop[g] = "none"
      /\ UNCHANGED <<conn, received, events, wsTable, seen>>
  BY DEF ServeRun, connVars
<1>2. Fresh'
  BY <1>1 DEF StoryInv, Fresh
<1>3. Started'
  <2>1. PICK m \in Nat : m = Len(lock)
    BY <1>t, LenProperties
  <2>2. Len(lock') = m + 1 /\ lock'[m + 1] = g /\ \A i \in 1..m : lock'[i] = lock[i]
    BY <1>t, <1>1, <2>1, AppendProperties
  <2>3. ASSUME NEW i \in 1..(m + 1) PROVE loop'[lock'[i]] # "none"
    <3>1. CASE i = m + 1
      BY <1>t, <1>1, <2>2, <3>1
    <3>2. CASE i \in 1..m
      <4>1. lock[i] \in Servers /\ loop[lock[i]] # "none"
        BY <1>t, <2>1, <3>2, ElementOfSeq DEF StoryInv, Started
      <4> QED BY <1>t, <1>1, <2>2, <3>2, <4>1
    <3>3. i = m + 1 \/ i \in 1..m
      BY <2>1
    <3> QED BY <3>1, <3>2, <3>3
  <2>4. loop'[g] # "none"
    BY <1>t, <1>1
  <2> QED BY <2>2, <2>3, <2>4 DEF Started
<1>4. ASSUME OneLoop' PROVE \A c \in Conns : seen[c] = <<>>
  <2>1. \A h \in Servers : loop[h] = "none"
    <3> SUFFICES ASSUME NEW h \in Servers, loop[h] # "none" PROVE FALSE
      OBVIOUS
    <3>1. loop'[h] # "none" /\ loop'[g] # "none" /\ h # g
      BY <1>t, <1>1
    <3> QED BY <1>4, <3>1 DEF OneLoop
  <2> QED BY <2>1 DEF StoryInv, Started
<1>5. Tabled'
  BY <1>1, <1>4 DEF Tabled
<1>6. Told'
  BY <1>1 DEF StoryInv, Told, Story
<1> QED BY <1>2, <1>3, <1>5, <1>6 DEF StoryInv

LEMMA StoryStep == TypeOK /\ OrderInv /\ StoryInv /\ [Next]_vars => StoryInv'
<1> SUFFICES ASSUME TypeOK, OrderInv, StoryInv, [Next]_vars PROVE StoryInv'
  OBVIOUS
<1>t. /\ lock \in Seq(Servers) /\ loop \in [Servers -> {"none", "waiting", "ended"}]
      /\ conn \in [Conns -> {"none", "switching", "open", "failed", "closed"}]
      /\ received \in [Conns -> Nat]
  BY DEF TypeOK
<1>1. ASSUME UNCHANGED <<received, events, wsTable, seen, lock, loop>>,
             \A d \in Conns : conn'[d] = conn[d] \/ (conn[d] = "none" /\ conn'[d] = "switching")
      PROVE  StoryInv'
  BY <1>t, <1>1, QuietStep
<1>2. ASSUME NEW c \in Conns, Switch(c) PROVE StoryInv'
  BY <1>t, <1>1, <1>2 DEF Switch, loopVars
<1>3. CASE \/ Stop \/ UNCHANGED vars
           \/ \E c \in Conns : WriteFrame(c) \/ WriteFails(c) \/ Send(c) \/ CloseWs(c)
  BY <1>1, <1>3 DEF Stop, vars, WriteFrame, WriteFails, Send, CloseWs, Post, connVars, loopVars
<1>4. ASSUME NEW g \in Servers, LoopStops(g) PROVE StoryInv'
  <2>1. /\ loop' = [loop EXCEPT ![g] = "ended"] /\ UNCHANGED <<conn, received, events, wsTable, seen>>
    BY <1>4 DEF LoopStops, connVars
  <2>2. PICK k \in DOMAIN lock : lock[k] = g /\ lock' = RemoveAt(lock, k)
    BY <1>4 DEF LoopStops
  <2>3. PICK n \in Nat : n = Len(lock) /\ DOMAIN lock = 1..n
    BY <1>t, LenProperties
  <2>4. lock' \in Seq(Servers) /\ \A i \in 1..Len(lock') : \E j \in 1..Len(lock) : lock'[i] = lock[j]
    <3>1. PICK s \in Seq(Servers) : s = lock /\ k \in DOMAIN s
      BY <1>t
    <3>2. /\ RemoveAt(s, k) \in Seq(Servers)
          /\ \A i \in 1..Len(RemoveAt(s, k)) : \E j \in 1..Len(s) : RemoveAt(s, k)[i] = s[j]
      BY <3>1, RemoveAtElements
    <3> QED BY <2>2, <3>1, <3>2
  <2>5. loop[g] # "none" /\ g \in Servers
    BY <2>2, <2>3 DEF StoryInv, Started
  <2>6. \A h \in Servers : loop[h] # "none" <=> loop'[h] # "none"
    BY <1>t, <2>1, <2>5
  <2> QED BY <2>1, <2>4, <2>6, QuietStep
<1>5. ASSUME NEW g \in Servers, ServeRun(g) PROVE StoryInv'
  BY <1>5, LoopsRemain, ServeStep
<1>6. ASSUME NEW g \in Servers, NextEvent(g) PROVE StoryInv'
  BY <1>6, HandleStep
<1>7. ASSUME NEW c \in Conns, UpgradeFails(c) PROVE StoryInv'
  <2>1. PICK ev \in Events : ev = Event("error", c, 0) /\ ev.conn = c
    BY EventIsEvent
  <2>2. /\ conn[c] = "switching" /\ conn'[c] = "failed" /\ events' = Append(events, ev)
        /\ \A d \in Conns : d # c => conn'[d] = conn[d] /\ received'[d] = received[d]
        /\ UNCHANGED <<lock, loop, wsTable, seen>>
    BY <1>7, <1>t, <2>1 DEF UpgradeFails, loopVars
  <2> QED BY <2>1, <2>2, TellStep
<1>8. ASSUME NEW c \in Conns, Establish(c) PROVE StoryInv'
  <2>1. PICK ev \in Events : ev = Event("open", c, 0) /\ ev.conn = c
    BY EventIsEvent
  <2>2. /\ conn[c] = "switching" /\ conn'[c] = "open" /\ events' = Append(events, ev)
        /\ \A d \in Conns : d # c => conn'[d] = conn[d] /\ received'[d] = received[d]
        /\ UNCHANGED <<lock, loop, wsTable, seen>> /\ received'[c] = received[c]
    BY <1>8, <1>t, <2>1 DEF Establish, loopVars
  <2>3. received[c] = 0
    BY <2>2 DEF StoryInv, Fresh
  <2>4. Whole(c, 0, FALSE) = <<ev>>
    BY <2>1, WholeProperties
  <2>5. Whole(c, received'[c], conn'[c] = "closed") = <<ev>>
    <3>1. (conn'[c] = "closed") = FALSE
      BY <2>2
    <3> QED BY <2>2, <2>3, <2>4, <3>1
  <2> QED BY <2>1, <2>2, <2>5, TellStep
<1>9. ASSUME NEW c \in Conns, ReadMessage(c) PROVE StoryInv'
  <2>1. PICK n \in Nat : n = received[c]
    BY <1>t
  <2>2. PICK ev \in Events : ev = Event("message", c, n + 1) /\ ev.conn = c
    BY EventIsEvent
  <2>3. /\ conn[c] = "open" /\ conn'[c] = "open" /\ events' = Append(events, ev)
        /\ \A d \in Conns : d # c => conn'[d] = conn[d] /\ received'[d] = received[d]
        /\ UNCHANGED <<lock, loop, wsTable, seen>> /\ received'[c] = n + 1
    BY <1>9, <1>t, <2>1, <2>2 DEF ReadMessage, loopVars
  <2>4. Whole(c, n + 1, FALSE) = Append(Whole(c, n, FALSE), ev)
    BY <2>2, WholeProperties
  <2>5. Whole(c, received'[c], conn'[c] = "closed") = Append(Whole(c, received[c], FALSE), ev)
    <3>1. (conn'[c] = "closed") = FALSE
      BY <2>3
    <3> QED BY <2>1, <2>3, <2>4, <3>1
  <2> QED BY <2>2, <2>3, <2>5, TellStep
<1>10. ASSUME NEW c \in Conns, ReadEnds(c) PROVE StoryInv'
  <2>1. PICK n \in Nat : n = received[c]
    BY <1>t
  <2>2. PICK ev \in Events : ev = Event("close", c, 0) /\ ev.conn = c
    BY EventIsEvent
  <2>3. /\ conn[c] = "open" /\ conn'[c] = "closed" /\ events' = Append(events, ev)
        /\ \A d \in Conns : d # c => conn'[d] = conn[d] /\ received'[d] = received[d]
        /\ UNCHANGED <<lock, loop, wsTable, seen>> /\ received'[c] = n
    BY <1>10, <1>t, <2>1, <2>2 DEF ReadEnds, loopVars
  <2>4. Whole(c, n, TRUE) = Append(Whole(c, n, FALSE), ev)
    BY <2>2, WholeProperties
  <2>5. Whole(c, received'[c], conn'[c] = "closed") = Append(Whole(c, received[c], FALSE), ev)
    <3>1. (conn'[c] = "closed") = TRUE
      BY <2>3
    <3> QED BY <2>1, <2>3, <2>4, <3>1
  <2> QED BY <2>2, <2>3, <2>5, TellStep
<1> QED BY <1>2, <1>3, <1>4, <1>5, <1>6, <1>7, <1>8, <1>9, <1>10 DEF Next

\* While one event loop serves the handlers, what they have seen of an
\* established connection and what is still queued for them are together all
\* that its task reported: the opening, every message and the end, each once
\* (handle_ws_connection, wsEventLoop, __ws_next_event).
THEOREM HandlersSeeTheWholeStory == Spec => []NothingLost
<1>1. Init => StoryInv
  <2> SUFFICES ASSUME Init PROVE StoryInv
    OBVIOUS
  <2>1. \A c : OfConn(<<>>, c) = <<>>
    BY OfConnEmpty
  <2>2. Len(<<>>) = 0 /\ 1..0 = {}
    OBVIOUS
  <2> QED BY <2>1, <2>2 DEF Init, StoryInv, Fresh, Started, Tabled, Told
<1>2. StoryInv => NothingLost
  BY DEF StoryInv, Told, NothingLost, Whole
<1>3. Init => OrderInv
  BY OrderInit
<1> QED BY <1>1, <1>2, <1>3, TypeCorrect, OrderStep, StoryStep, PTL DEF Spec
=============================================================================
