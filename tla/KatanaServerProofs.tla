------------------------- MODULE KatanaServerProofs -------------------------
(***************************************************************************)
(* Proofs about KatanaServer, for any set of requests and any number of    *)
(* serve calls: type correctness, the agreement of the reply tables with   *)
(* the tasks, and the refinement of RequestReply.                          *)
(***************************************************************************)
EXTENDS KatanaServer, SequenceTheorems, TLAPS

\* Removing one position of a sequence leaves a sequence over the same set.
LEMMA RemoveAtSeq ==
  ASSUME NEW S, NEW s \in Seq(S), NEW i \in DOMAIN s
  PROVE  RemoveAt(s, i) \in Seq(S)
<1>1. i \in 1..Len(s) /\ Len(s) \in Nat
  BY LenProperties
<1>2. SubSeq(s, 1, i-1) \in Seq(S) /\ SubSeq(s, i+1, Len(s)) \in Seq(S)
  BY <1>1, SubSeqProperties
<1> QED BY <1>2, ConcatProperties DEF RemoveAt

-----------------------------------------------------------------------------
\* Every variable keeps its type (all handlers of server.rs and its JS glue).
THEOREM TypeCorrect == Spec => []TypeOK
<1>1. Init => TypeOK
  <2> SUFFICES ASSUME Init PROVE TypeOK
    OBVIOUS
  <2>1. rxLock \in Seq(Servers) /\ queue \in Seq(Requests)
    BY EmptySeq DEF Init
  <2> QED BY <2>1 DEF Init, TypeOK, Answers, Replies
<1>2. TypeOK /\ [Next]_vars => TypeOK'
  <2> SUFFICES ASSUME TypeOK, [Next]_vars PROVE TypeOK'
    OBVIOUS
  <2> USE DEF TypeOK, serverVars, tableVars, handlerVars, taskVars
  <2>1. CASE Stop
    BY <2>1 DEF Stop, StoredListenerClosed
  <2>2. ASSUME NEW g \in Servers, ServeStart(g) PROVE TypeOK'
    BY <2>2 DEF ServeStart, StoredListenerClosed
  <2>3. ASSUME NEW g \in Servers, ServeRun(g) PROVE TypeOK'
    BY <2>3, AppendProperties DEF ServeRun
  <2>4. ASSUME NEW g \in Servers, AcceptFails(g) PROVE TypeOK'
    BY <2>4 DEF AcceptFails
  <2>5. ASSUME NEW g \in Servers, NextRequest(g) PROVE TypeOK'
    <3>1. /\ Head(queue) \in Requests /\ Tail(queue) \in Seq(Requests)
          /\ Tail(rxLock) \in Seq(Servers)
          /\ Append(Tail(rxLock), g) \in Seq(Servers)
      BY <2>5, HeadTailProperties, AppendProperties DEF NextRequest
    <3> QED BY <2>5, <3>1 DEF NextRequest, TakeRequest, LoopAgain, LeaveLoop
  <2>6. ASSUME NEW g \in Servers, LoopStops(g) PROVE TypeOK'
    BY <2>6, RemoveAtSeq DEF LoopStops
  <2>7. ASSUME NEW r \in Requests, ArrivePlain(r) PROVE TypeOK'
    BY <2>7 DEF ArrivePlain
  <2>8. ASSUME NEW r \in Requests, Enqueue(r) PROVE TypeOK'
    BY <2>8, AppendProperties DEF Enqueue
  <2>9. ASSUME NEW r \in Requests, ArriveUpgrade(r) PROVE TypeOK'
    BY <2>9, AppendProperties DEF ArriveUpgrade
  <2>10. ASSUME NEW r \in Requests, TakeResponse(r) PROVE TypeOK'
    BY <2>10 DEF TakeResponse, Finish, Replies
  <2>11. ASSUME NEW r \in Requests, TakeUpgrade(r) PROVE TypeOK'
    BY <2>11 DEF TakeUpgrade, Finish, Replies
  <2>12. ASSUME NEW r \in Requests, TimeOut(r) PROVE TypeOK'
    BY <2>12 DEF TimeOut, Finish, Replies
  <2>13. ASSUME NEW r \in Requests, ClientGone(r) PROVE TypeOK'
    BY <2>13 DEF ClientGone
  <2>14. ASSUME NEW r \in Requests, CallUpgrade(r) PROVE TypeOK'
    BY <2>14 DEF CallUpgrade
  <2>15. ASSUME NEW r \in Requests, HandlerReturnsNothing(r) PROVE TypeOK'
    BY <2>15 DEF HandlerReturnsNothing
  <2>16. ASSUME NEW r \in Requests, NEW a \in Answers, HandlerAnswers(r, a)
         PROVE TypeOK'
    BY <2>16 DEF HandlerAnswers, Respond
  <2>17. CASE UNCHANGED vars
    BY <2>17 DEF vars
  <2> QED BY <2>1, <2>2, <2>3, <2>4, <2>5, <2>6, <2>7, <2>8, <2>9, <2>10,
             <2>11, <2>12, <2>13, <2>14, <2>15, <2>16, <2>17 DEF Next
<1> QED BY <1>1, <1>2, PTL DEF Spec

-----------------------------------------------------------------------------
\* With the types TableInv is inductive: its four parts support each other.
\* One step per action that touches tasks, tables or channels; the actions of
\* the serve calls and of the loops leave them alone.
LEMMA TableStep == TypeOK /\ TableInv /\ [Next]_vars => TableInv'
<1> SUFFICES ASSUME TypeOK, TableInv, [Next]_vars PROVE TableInv'
  OBVIOUS
<1> USE ServerAssumption
    DEF TypeOK, TableInv, AnswerHasRoute, TablesClean, SendersUnused,
        ReplyJustified, serverVars, tableVars, handlerVars, taskVars,
        Answers, Replies
<1>1. CASE UNCHANGED <<task, reply, pending, upgradeMap, respSlot, upSlot>>
  BY <1>1
<1>2. ASSUME NEW r \in Requests, ArrivePlain(r) PROVE TableInv'
  BY <1>2 DEF ArrivePlain
<1>3. ASSUME NEW r \in Requests, Enqueue(r) PROVE TableInv'
  BY <1>3 DEF Enqueue
<1>4. ASSUME NEW r \in Requests, ArriveUpgrade(r) PROVE TableInv'
  BY <1>4 DEF ArriveUpgrade
<1>5. ASSUME NEW r \in Requests, TakeResponse(r) PROVE TableInv'
  BY <1>5 DEF TakeResponse, Finish
<1>6. ASSUME NEW r \in Requests, TakeUpgrade(r) PROVE TableInv'
  BY <1>6 DEF TakeUpgrade, Finish
<1>7. ASSUME NEW r \in Requests, TimeOut(r) PROVE TableInv'
  BY <1>7 DEF TimeOut, TimerMayWin, Finish
<1>8. ASSUME NEW r \in Requests, ClientGone(r) PROVE TableInv'
  BY <1>8 DEF ClientGone
<1>9. ASSUME NEW r \in Requests, CallUpgrade(r) PROVE TableInv'
  BY <1>9 DEF CallUpgrade
<1>10. ASSUME NEW r \in Requests, NEW a \in Answers, HandlerAnswers(r, a)
       PROVE TableInv'
  BY <1>10 DEF HandlerAnswers, Respond
<1>11. ASSUME \/ Stop
              \/ \E g \in Servers : \/ ServeStart(g) \/ ServeRun(g) \/ AcceptFails(g)
                                    \/ NextRequest(g) \/ LoopStops(g)
              \/ \E r \in Requests : HandlerReturnsNothing(r)
              \/ UNCHANGED vars
       PROVE UNCHANGED <<task, reply, pending, upgradeMap, respSlot, upSlot>>
  BY <1>11 DEF Stop, ServeStart, ServeRun, AcceptFails, NextRequest, LoopStops,
               HandlerReturnsNothing, vars
<1> QED BY <1>1, <1>2, <1>3, <1>4, <1>5, <1>6, <1>7, <1>8, <1>9, <1>10, <1>11
        DEF Next

\* The reply tables and channels agree with each other and with the tasks, in
\* every reachable state: an answer finds its waiting request, a finished one
\* leaves nothing behind, and replies are what the channels carried.
THEOREM TablesAgree == Spec => []TableInv
<1>1. Init => TableInv
  BY DEF Init, TableInv, AnswerHasRoute, TablesClean, SendersUnused,
         ReplyJustified, Answers
<1> QED BY <1>1, TypeCorrect, TableStep, PTL DEF Spec

-----------------------------------------------------------------------------
\* The refinement mapping at one request.
LEMMA OffersAre ==
  ASSUME NEW r \in Requests
  PROVE  /\ OffersOf(r) \subseteq Answers \cup {"switching"}
         /\ OffersOf(r) \cap Answers = {a \in Answers : respSlot[r] = a}
         /\ "switching" \in OffersOf(r) <=> upSlot[r]
  BY DEF OffersOf, Answers

\* Each step of the server is a step of RequestReply or leaves its variables
\* alone.  Arriving is Receive; Respond and CallUpgrade are offers when a task
\* waits; the task's own steps conclude, give up or abandon.
LEMMA RefinementStep ==
  TypeOK /\ TableInv /\ [Next]_vars => [RR!Next]_(RR!vars)
<1> SUFFICES ASSUME TypeOK, TableInv, [Next]_vars
             PROVE  RR!Next \/ UNCHANGED RR!vars
  OBVIOUS
<1> USE ServerAssumption DEF RR!vars
<1>1. ASSUME UNCHANGED <<task, reply, respSlot, upSlot>>
      PROVE  UNCHANGED RR!vars
  BY <1>1 DEF StatusOf, OffersOf
<1>2. ASSUME NEW r \in Requests, ArrivePlain(r) PROVE RR!Receive(r)
  BY <1>2 DEF ArrivePlain, RR!Receive, StatusOf, OffersOf, TypeOK, tableVars
<1>3. ASSUME NEW r \in Requests, Enqueue(r) PROVE UNCHANGED RR!vars
  BY <1>3 DEF Enqueue, StatusOf, OffersOf, TypeOK
<1>4. ASSUME NEW r \in Requests, ArriveUpgrade(r) PROVE RR!Receive(r)
  BY <1>4 DEF ArriveUpgrade, RR!Receive, StatusOf, OffersOf, TypeOK
<1>5. ASSUME NEW r \in Requests, TakeResponse(r) PROVE RR!Conclude(r)
  BY <1>5 DEF TakeResponse, Finish, RR!Conclude, RR!Close, StatusOf, OffersOf,
              TypeOK, tableVars
<1>6. ASSUME NEW r \in Requests, TakeUpgrade(r) PROVE RR!Conclude(r)
  BY <1>6 DEF TakeUpgrade, Finish, RR!Conclude, RR!Close, StatusOf, OffersOf,
              TypeOK
<1>7. ASSUME NEW r \in Requests, TimeOut(r) PROVE RR!GiveUp(r)
  <2>1. r \in Upgrades \/ OffersOf(r) = {}
    BY <1>7 DEF TimeOut, TimerMayWin, OffersOf, Answers, TableInv, ReplyJustified
  <2> QED BY <1>7, <2>1 DEF TimeOut, Finish, RR!GiveUp, RR!Close, StatusOf,
                            OffersOf, TypeOK
<1>8. ASSUME NEW r \in Requests, ClientGone(r) PROVE RR!Abandon(r)
  <2>1. reply[r] = "none"
    BY <1>8 DEF ClientGone, TableInv, ReplyJustified
  <2> QED BY <1>8, <2>1 DEF ClientGone, RR!Abandon, RR!Close, StatusOf,
                            OffersOf, TypeOK, tableVars
<1>9. ASSUME NEW r \in Requests, CallUpgrade(r)
      PROVE  RR!OfferUpgrade(r) \/ UNCHANGED RR!vars
  <2>1. r \in Upgrades /\ ~upSlot[r]
    BY <1>9 DEF CallUpgrade, TypeOK, TableInv, SendersUnused
  <2>2. CASE task[r] = "waiting"
    <3>1. \A q \in Requests : OffersOf(q)' =
            IF q = r THEN OffersOf(q) \cup {"switching"} ELSE OffersOf(q)
      BY <1>9, <2>1, <2>2 DEF CallUpgrade, OffersOf, TypeOK
    <3> QED BY ZenonT(40), <1>9, <2>1, <2>2, <3>1, OffersAre
            DEF CallUpgrade, RR!OfferUpgrade, StatusOf, TypeOK, taskVars
  <2>3. CASE task[r] # "waiting"
    BY <1>9, <2>1, <2>3, <1>1 DEF CallUpgrade, TypeOK, taskVars
  <2> QED BY <2>2, <2>3
<1>10. ASSUME NEW r \in Requests, NEW a \in Answers, HandlerAnswers(r, a)
       PROVE  RR!OfferAnswer(r, a) \/ UNCHANGED RR!vars
  <2>1. CASE r \in pending /\ task[r] = "waiting"
    <3>1. respSlot[r] = "empty" /\ respSlot' = [respSlot EXCEPT ![r] = a]
      BY <1>10, <2>1 DEF HandlerAnswers, Respond, TableInv, SendersUnused
    <3>2. OffersOf(r) \cap Answers = {}
      BY <3>1, OffersAre DEF Answers
    <3>3. \A q \in Requests : OffersOf(q)' =
            IF q = r THEN OffersOf(q) \cup {a} ELSE OffersOf(q)
      BY <1>10, <3>1 DEF HandlerAnswers, OffersOf, TypeOK, Answers
    <3> QED BY <1>10, <2>1, <3>2, <3>3
            DEF HandlerAnswers, RR!OfferAnswer, StatusOf, TypeOK, taskVars
  <2>2. CASE ~(r \in pending /\ task[r] = "waiting")
    BY <1>10, <2>2, <1>1 DEF HandlerAnswers, Respond, taskVars
  <2> QED BY <2>1, <2>2
<1>11. ASSUME \/ Stop
              \/ \E g \in Servers : \/ ServeStart(g) \/ ServeRun(g) \/ AcceptFails(g)
                                    \/ NextRequest(g) \/ LoopStops(g)
              \/ \E r \in Requests : HandlerReturnsNothing(r)
              \/ UNCHANGED vars
       PROVE UNCHANGED <<task, reply, respSlot, upSlot>>
  BY <1>11 DEF Stop, ServeStart, ServeRun, AcceptFails, NextRequest, LoopStops,
               HandlerReturnsNothing, vars, serverVars, tableVars,
               handlerVars, taskVars
<1> QED BY <1>1, <1>2, <1>3, <1>4, <1>5, <1>6, <1>7, <1>8, <1>9, <1>10, <1>11
        DEF Next, RR!Next

\* For every set of requests and any number of serve calls the server keeps
\* the promises of RequestReply to each client: one reply, offered for this
\* request while it was open, and no timeout of a plain request that was
\* answered in time.
THEOREM ServerRefines == Spec => RefinesRequestReply
<1>1. Init => RR!Init
  BY DEF Init, RR!Init, StatusOf, OffersOf, Answers
<1> QED BY <1>1, TypeCorrect, TablesAgree, RefinementStep, PTL
        DEF Spec, RR!Spec, RefinesRequestReply

-----------------------------------------------------------------------------
(* Queues without duplicates: the request queue and the lock's queue *)

Distinct(s) == \A i, j \in DOMAIN s : s[i] = s[j] => i = j
Holds(s, x) == \E i \in DOMAIN s : s[i] = x

\* Appending what a sequence does not hold keeps it without duplicates.
LEMMA AppendDistinct ==
  ASSUME NEW S, NEW s \in Seq(S), NEW x \in S, Distinct(s), ~Holds(s, x)
  PROVE  /\ Distinct(Append(s, x))
         /\ \A y : Holds(Append(s, x), y) <=> Holds(s, y) \/ y = x
<1>1. /\ Len(s) \in Nat /\ DOMAIN s = 1..Len(s)
      /\ DOMAIN Append(s, x) = 1..(Len(s) + 1)
      /\ \A i \in 1..Len(s) : Append(s, x)[i] = s[i]
      /\ Append(s, x)[Len(s) + 1] = x
  BY AppendProperties, LenProperties
<1> QED BY <1>1 DEF Distinct, Holds

\* The first element of a sequence without duplicates is not in its tail.
LEMMA TailDistinct ==
  ASSUME NEW S, NEW s \in Seq(S), s # <<>>, Distinct(s)
  PROVE  /\ Distinct(Tail(s))
         /\ \A y : Holds(Tail(s), y) <=> Holds(s, y) /\ y # Head(s)
<1>1. /\ Len(s) \in Nat \ {0} /\ DOMAIN s = 1..Len(s)
      /\ DOMAIN Tail(s) = 1..(Len(s) - 1)
      /\ \A i \in 1..(Len(s) - 1) : Tail(s)[i] = s[i + 1]
      /\ Head(s) = s[1]
  BY HeadTailProperties, LenProperties, EmptySeq
<1>2. Distinct(Tail(s))
  BY <1>1 DEF Distinct
<1>3. \A y : Holds(Tail(s), y) => Holds(s, y) /\ y # Head(s)
  BY <1>1 DEF Distinct, Holds
<1>4. ASSUME NEW y, Holds(s, y), y # Head(s) PROVE Holds(Tail(s), y)
  <2>1. PICK i \in 1..Len(s) : s[i] = y
    BY <1>1, <1>4 DEF Holds
  <2>2. i - 1 \in 1..(Len(s) - 1) /\ Tail(s)[i - 1] = y
    BY <1>1, <1>4, <2>1
  <2> QED BY <1>1, <2>2 DEF Holds
<1> QED BY <1>2, <1>3, <1>4

\* Removing position k of a sequence without duplicates removes that element.
LEMMA RemoveAtDistinct ==
  ASSUME NEW S, NEW s \in Seq(S), NEW i \in DOMAIN s, Distinct(s)
  PROVE  /\ Distinct(RemoveAt(s, i))
         /\ \A y : Holds(RemoveAt(s, i), y) <=> Holds(s, y) /\ y # s[i]
<1> DEFINE t == RemoveAt(s, i)
           From(k) == IF k < i THEN k ELSE k + 1
<1>1. Len(s) \in Nat /\ DOMAIN s = 1..Len(s) /\ i \in 1..Len(s)
  BY LenProperties
<1>2. /\ DOMAIN t = 1..(Len(s) - 1)
      /\ \A k \in 1..(Len(s) - 1) : t[k] = s[From(k)]
  <2> DEFINE a == SubSeq(s, 1, i-1)
             b == SubSeq(s, i+1, Len(s))
  <2>1. a \in Seq(S) /\ Len(a) = i - 1 /\ \A k \in 1..(i-1) : a[k] = s[k]
    BY <1>1, SubSeqProperties
  <2>2. b \in Seq(S) /\ Len(b) = Len(s) - i
        /\ \A k \in 1..(Len(s) - i) : b[k] = s[i + k]
    BY <1>1, SubSeqProperties
  <2>3. t = a \o b
    BY DEF RemoveAt
  <2> HIDE DEF a, b
  <2>4. /\ Len(a \o b) = Len(a) + Len(b) /\ DOMAIN (a \o b) = 1..Len(a \o b)
        /\ \A k \in 1..(Len(a) + Len(b)) :
             (a \o b)[k] = IF k <= Len(a) THEN a[k] ELSE b[k - Len(a)]
    BY <2>1, <2>2, ConcatProperties, LenProperties
  <2>5. Len(a) + Len(b) = Len(s) - 1
    BY <1>1, <2>1, <2>2
  <2>6. ASSUME NEW k \in 1..(Len(s) - 1) PROVE (a \o b)[k] = s[From(k)]
    <3>1. CASE k < i
      <4>1. k \in 1..(i-1) /\ k <= Len(a)
        BY <1>1, <2>1, <3>1
      <4> QED BY <2>1, <2>4, <2>5, <3>1, <4>1
    <3>2. CASE ~(k < i)
      <4>1. k - (i - 1) \in 1..(Len(s) - i) /\ i + (k - (i - 1)) = k + 1
        BY <1>1, <3>2
      <4>2. (a \o b)[k] = b[k - (i - 1)]
        BY <1>1, <2>1, <2>4, <2>5, <3>2
      <4> QED BY <2>2, <3>2, <4>1, <4>2
    <3> QED BY <3>1, <3>2
  <2> QED BY <2>3, <2>4, <2>5, <2>6
<1>f. /\ \A k \in 1..(Len(s) - 1) : From(k) \in 1..Len(s) /\ From(k) # i
      /\ \A k, l \in 1..(Len(s) - 1) : From(k) = From(l) => k = l
      /\ \A j \in 1..Len(s) : j # i => \E k \in 1..(Len(s) - 1) : From(k) = j
  <2> DEFINE m == Len(s)
  <2>1. m \in Nat /\ i \in 1..m
    BY <1>1
  <2> HIDE DEF m
  <2>2. /\ \A k \in 1..(m - 1) : From(k) \in 1..m /\ From(k) # i
        /\ \A k, l \in 1..(m - 1) : From(k) = From(l) => k = l
    BY <2>1
  <2>3. ASSUME NEW j \in 1..m, j # i PROVE \E k \in 1..(m - 1) : From(k) = j
    <3>1. CASE j < i
      <4>1. j \in 1..(m - 1) /\ From(j) = j
        BY <2>1, <3>1
      <4> QED BY <4>1
    <3>2. CASE j > i
      <4>1. j - 1 \in 1..(m - 1) /\ From(j - 1) = j
        BY <2>1, <3>2
      <4> QED BY <4>1
    <3> QED BY <2>1, <2>3, <3>1, <3>2
  <2> QED BY <2>2, <2>3 DEF m
<1>d. \A j, l \in 1..Len(s) : s[j] = s[l] => j = l
  BY <1>1 DEF Distinct
<1> HIDE DEF t, From
<1>3. Distinct(t)
  <2>1. ASSUME NEW k \in 1..(Len(s) - 1), NEW l \in 1..(Len(s) - 1), t[k] = t[l]
        PROVE  k = l
    <3>1. s[From(k)] = s[From(l)]
      BY <1>2, <2>1
    <3> QED BY <1>f, <1>d, <3>1
  <2> QED BY <1>2, <2>1 DEF Distinct
<1>4. ASSUME NEW k \in 1..(Len(s) - 1) PROVE Holds(s, t[k]) /\ t[k] # s[i]
  <2>1. t[k] = s[From(k)] /\ From(k) \in 1..Len(s) /\ From(k) # i
    BY <1>2, <1>f
  <2> QED BY <1>1, <1>d, <2>1 DEF Holds
<1>5. ASSUME NEW y, Holds(s, y), y # s[i] PROVE Holds(t, y)
  <2>1. PICK j \in 1..Len(s) : s[j] = y /\ j # i
    BY <1>1, <1>5 DEF Holds
  <2>2. PICK k \in 1..(Len(s) - 1) : From(k) = j
    BY <1>f, <2>1
  <2> QED BY <1>2, <2>1, <2>2 DEF Holds
<1>6. \A y : Holds(t, y) <=> Holds(s, y) /\ y # s[i]
  BY <1>2, <1>4, <1>5 DEF Holds
<1> QED BY <1>3, <1>6 DEF t

-----------------------------------------------------------------------------
(* Listeners and loops *)

\* Serving, fetching and stopping each move a server and its loop together.
LEMMA ServersStep == TypeOK /\ ServersInv /\ [Next]_vars => ServersInv'
<1> SUFFICES ASSUME TypeOK, ServersInv, [Next]_vars PROVE ServersInv'
  OBVIOUS
<1> USE DEF ServersInv, OneListener, LockQueueExact
<1>1. rxLock \in Seq(Servers) /\ Distinct(rxLock)
      /\ \A g \in Servers : loop[g] = "fetching" <=> Holds(rxLock, g)
  BY DEF TypeOK, Distinct, Holds
<1>2. ASSUME Distinct(rxLock'),
             \A g \in Servers : loop'[g] = "fetching" <=> Holds(rxLock', g)
      PROVE  LockQueueExact'
  BY <1>2 DEF Distinct, Holds
<1>3. CASE Stop
  BY <1>3 DEF Stop, StoredListenerClosed
<1>4. ASSUME NEW g \in Servers, ServeStart(g) PROVE ServersInv'
  <2>1. OneListener'
    BY <1>4 DEF ServeStart, StoredListenerClosed, TypeOK
  <2>2. UNCHANGED rxLock /\ \A h \in Servers :
          loop'[h] = "fetching" <=> loop[h] = "fetching"
    BY <1>4 DEF ServeStart, TypeOK
  <2> QED BY <2>1, <2>2
<1>5. ASSUME NEW g \in Servers, ServeRun(g) PROVE ServersInv'
  <2>1. OneListener'
    BY <1>5 DEF ServeRun
  <2>2. ~Holds(rxLock, g)
    BY <1>1, <1>5 DEF ServeRun
  <2>3. /\ Distinct(rxLock')
        /\ \A h : Holds(rxLock', h) <=> Holds(rxLock, h) \/ h = g
    BY <1>1, <1>5, <2>2, AppendDistinct DEF ServeRun
  <2>4. \A h \in Servers :
          loop'[h] = "fetching" <=> loop[h] = "fetching" \/ h = g
    BY <1>5 DEF ServeRun, TypeOK
  <2> QED BY <1>1, <1>2, <2>1, <2>3, <2>4
<1>6. ASSUME NEW g \in Servers, AcceptFails(g) PROVE ServersInv'
  BY <1>6 DEF AcceptFails, TypeOK
<1>7. ASSUME NEW g \in Servers, NextRequest(g) PROVE ServersInv'
  <2>1. OneListener'
    BY <1>7 DEF NextRequest
  <2>2. /\ Tail(rxLock) \in Seq(Servers) /\ Distinct(Tail(rxLock))
        /\ \A h : Holds(Tail(rxLock), h) <=> Holds(rxLock, h) /\ h # g
    BY <1>1, <1>7, TailDistinct, HeadTailProperties DEF NextRequest
  <2>3. Holds(rxLock, g)
    <3>1. 1 \in DOMAIN rxLock /\ rxLock[1] = g
      BY <1>1, <1>7, HeadTailProperties, LenProperties, EmptySeq DEF NextRequest
    <3> QED BY <3>1 DEF Holds
  <2>4. CASE running
    <3>1. rxLock' = Append(Tail(rxLock), g) /\ UNCHANGED loop
      BY <1>7, <2>4 DEF NextRequest, LoopAgain
    <3>2. /\ Distinct(rxLock')
          /\ \A h : Holds(rxLock', h) <=> Holds(Tail(rxLock), h) \/ h = g
      BY <2>2, <3>1, AppendDistinct
    <3> QED BY <1>1, <1>2, <2>1, <2>2, <2>3, <3>1, <3>2
  <2>5. CASE ~running
    <3>1. rxLock' = Tail(rxLock) /\ loop' = [loop EXCEPT ![g] = "ended"]
      BY <1>7, <2>5 DEF NextRequest, LoopAgain, LeaveLoop
    <3>2. \A h \in Servers :
            loop'[h] = "fetching" <=> loop[h] = "fetching" /\ h # g
      BY <3>1 DEF TypeOK
    <3> QED BY <1>1, <1>2, <2>1, <2>2, <3>1, <3>2
  <2> QED BY <2>4, <2>5
<1>8. ASSUME NEW g \in Servers, LoopStops(g) PROVE ServersInv'
  <2>1. OneListener'
    BY <1>8 DEF LoopStops
  <2>2. PICK i \in DOMAIN rxLock : rxLock[i] = g /\ rxLock' = RemoveAt(rxLock, i)
    BY <1>8 DEF LoopStops
  <2>3. /\ Distinct(rxLock')
        /\ \A h : Holds(rxLock', h) <=> Holds(rxLock, h) /\ h # g
    BY <1>1, <2>2, RemoveAtDistinct
  <2>4. \A h \in Servers :
          loop'[h] = "fetching" <=> loop[h] = "fetching" /\ h # g
    BY <1>8 DEF LoopStops, TypeOK
  <2> QED BY <1>1, <1>2, <2>1, <2>3, <2>4
<1>9. ASSUME \/ \E r \in Requests :
                  \/ ArrivePlain(r) \/ Enqueue(r) \/ ArriveUpgrade(r)
                  \/ TakeResponse(r) \/ TakeUpgrade(r)
                  \/ TimeOut(r) \/ ClientGone(r)
                  \/ CallUpgrade(r) \/ HandlerReturnsNothing(r)
                  \/ \E a \in Answers : HandlerAnswers(r, a)
             \/ UNCHANGED vars
      PROVE  ServersInv'
  <2> UNCHANGED <<listener, shutdownTx, loop, rxLock>>
    BY <1>9 DEF ArrivePlain, Enqueue, ArriveUpgrade, TakeResponse, TakeUpgrade,
                TimeOut, ClientGone, CallUpgrade, HandlerReturnsNothing,
                HandlerAnswers, serverVars, vars
  <2> QED OBVIOUS
<1> QED BY <1>3, <1>4, <1>5, <1>6, <1>7, <1>8, <1>9 DEF Next

\* At most one accept loop is open, the one stop() would close, and the loops
\* that fetch are exactly those queued on the receiver's lock, for any number
\* of serve calls, stops and restarts (__serve_start, __serve_stop).
THEOREM ServersAgree == Spec => []ServersInv
<1>1. Init => ServersInv
  BY DEF Init, ServersInv, OneListener, LockQueueExact
<1> QED BY <1>1, TypeCorrect, ServersStep, PTL DEF Spec

-----------------------------------------------------------------------------
(* The request queue *)

\* HandledOnce needs to know that a request is not handled before it is queued.
NotYetQueued ==
  \A r \in Requests : task[r] \in {"idle", "reading"} => handler[r] = "unseen"

\* What is inductive about the request queue.
QueueInv == HandledOnce /\ NotYetQueued

\* One step per action that queues, takes or hands over a request.
LEMMA QueueStep == TypeOK /\ QueueInv /\ [Next]_vars => QueueInv'
<1> SUFFICES ASSUME TypeOK, QueueInv, [Next]_vars PROVE QueueInv'
  OBVIOUS
<1> USE DEF QueueInv, NotYetQueued
<1>1. /\ queue \in Seq(Requests) /\ Distinct(queue)
      /\ \A r \in Requests :
           /\ Holds(queue, r) =>
                handler[r] = "unseen" /\ task[r] \notin {"idle", "reading"}
           /\ task[r] \in {"waiting", "done"} /\ handler[r] = "unseen" =>
                Holds(queue, r)
  BY DEF TypeOK, HandledOnce, Distinct, Holds
<1>2. ASSUME /\ Distinct(queue')
             /\ \A r \in Requests :
                  /\ Holds(queue', r) =>
                       handler'[r] = "unseen" /\ task'[r] \notin {"idle", "reading"}
                  /\ task'[r] \in {"waiting", "done"} /\ handler'[r] = "unseen" =>
                       Holds(queue', r)
      PROVE  HandledOnce'
  BY <1>2 DEF HandledOnce, Distinct, Holds
<1>3. ASSUME NEW g \in Servers, NextRequest(g) PROVE QueueInv'
  <2> DEFINE taken == Head(queue)
  <2>1. taken \in Requests /\ Holds(queue, taken)
    <3>1. 1 \in DOMAIN queue /\ queue[1] = taken
      BY <1>1, <1>3, HeadTailProperties, LenProperties, EmptySeq DEF NextRequest
    <3> QED BY <1>1, <1>3, <3>1, HeadTailProperties DEF Holds, NextRequest
  <2>2. /\ Distinct(queue')
        /\ \A r : Holds(queue', r) <=> Holds(queue, r) /\ r # taken
    BY <1>1, <1>3, TailDistinct DEF NextRequest, TakeRequest
  <2>3. /\ \A r \in Requests :
             handler'[r] = IF r = taken THEN "running" ELSE handler[r]
        /\ UNCHANGED task
    BY <1>3 DEF NextRequest, TakeRequest, TypeOK, taskVars
  <2> QED BY <1>1, <1>2, <2>1, <2>2, <2>3
<1>4. ASSUME NEW r \in Requests, Enqueue(r) \/ ArriveUpgrade(r) PROVE QueueInv'
  <2>1. /\ queue' = Append(queue, r)
        /\ task' = [task EXCEPT ![r] = "waiting"]
        /\ task[r] \in {"idle", "reading"}
        /\ UNCHANGED handler
    BY <1>4 DEF Enqueue, ArriveUpgrade, handlerVars
  <2>2. ~Holds(queue, r)
    BY <1>1, <2>1
  <2>3. /\ Distinct(queue')
        /\ \A q : Holds(queue', q) <=> Holds(queue, q) \/ q = r
    BY <1>1, <2>1, <2>2, AppendDistinct
  <2> QED BY <1>1, <1>2, <2>1, <2>3 DEF TypeOK
<1>5. ASSUME NEW r \in Requests, ArrivePlain(r) PROVE QueueInv'
  BY <1>1, <1>2, <1>5 DEF ArrivePlain, TypeOK, tableVars, handlerVars
<1>6. ASSUME NEW r \in Requests,
             TakeResponse(r) \/ TakeUpgrade(r) \/ TimeOut(r)
      PROVE  QueueInv'
  BY <1>1, <1>2, <1>6
     DEF TakeResponse, TakeUpgrade, TimeOut, Finish, TypeOK, tableVars, handlerVars
<1>7. ASSUME NEW r \in Requests, ClientGone(r) PROVE QueueInv'
  BY <1>1, <1>2, <1>7 DEF ClientGone, TypeOK, tableVars, handlerVars
<1>8. ASSUME NEW r \in Requests,
             \/ HandlerReturnsNothing(r)
             \/ \E a \in Answers : HandlerAnswers(r, a)
      PROVE  QueueInv'
  <2>1. /\ handler[r] = "running" /\ handler' = [handler EXCEPT ![r] = "returned"]
        /\ UNCHANGED <<queue, task>>
    BY <1>8 DEF HandlerReturnsNothing, HandlerAnswers, tableVars, taskVars
  <2> QED BY <1>1, <1>2, <2>1 DEF TypeOK
<1>9. ASSUME \/ Stop
             \/ \E g \in Servers : \/ ServeStart(g) \/ ServeRun(g)
                                   \/ AcceptFails(g) \/ LoopStops(g)
             \/ \E r \in Requests : CallUpgrade(r)
             \/ UNCHANGED vars
      PROVE  QueueInv'
  <2> UNCHANGED <<queue, task, handler>>
    BY <1>9 DEF Stop, ServeStart, ServeRun, AcceptFails, LoopStops, CallUpgrade,
                tableVars, handlerVars, taskVars, vars
  <2> QED BY <1>1, <1>2
<1> QED BY <1>3, <1>4, <1>5, <1>6, <1>7, <1>8, <1>9 DEF Next

\* A request is queued once and unseen, or taken once: several loops behind one
\* lock, and a stop that interrupts any of them, neither repeat nor lose one.
THEOREM RequestsAreHandledOnce == Spec => []HandledOnce
<1>1. Init => QueueInv
  BY DEF Init, QueueInv, HandledOnce, NotYetQueued
<1>2. QueueInv => HandledOnce
  BY DEF QueueInv
<1> QED BY <1>1, <1>2, TypeCorrect, QueueStep, PTL DEF Spec
=============================================================================
