-------------------------- MODULE AsyncRuntimeProofs --------------------------
(***************************************************************************)
(* Proofs about AsyncRuntime, for any sets of blocking and awaited calls.  *)
(*                                                                         *)
(* A call is known by its place in sent.  The engine has finished the      *)
(* first Finished of them; what an awaited call's future may be follows    *)
(* from the side of that mark its place is on.                             *)
(***************************************************************************)
EXTENDS AsyncRuntime, SequenceLemmas

Busy == engine \in {"evaluating", "calling", "evaluated"}

\* The commands the engine is done with; a busy one is at the next.
Finished == IF Busy THEN Len(ran) - 1 ELSE Len(ran)

\* Every call has one place.
SentOnce == \A i, j \in DOMAIN sent : sent[i] = sent[j] => i = j

\* A settled future, and one whose result is scheduled, is of a finished call.
Resolved(c) == \E i \in 1..Finished : sent[i] = c

ResolvedFirst ==
  /\ \A c \in AsyncCalls : future[c] = "done" => Resolved(c)
  /\ \A k \in DOMAIN scheduled : scheduled[k] \in AsyncCalls /\ Resolved(scheduled[k])

\* An awaited call has a place, and while the loop is open its result is
\* scheduled or its place is ahead of the engine.
AwaitedAhead ==
  \A c \in AsyncCalls : future[c] = "pending" /\ evloop = "open" =>
    \E i \in DOMAIN sent : sent[i] = c /\ (i > Finished \/ Contains(scheduled, c))

\* Results are scheduled in the order of the calls, behind those settled.
ScheduledInOrder ==
  \A i, j \in DOMAIN sent : \A l \in DOMAIN scheduled : sent[j] = scheduled[l] =>
    /\ \A k \in DOMAIN scheduled : k < l /\ sent[i] = scheduled[k] => i < j
    /\ sent[i] \in AsyncCalls /\ future[sent[i]] = "done" => i < j

AsyncInv == /\ Busy => ran # <<>>
            /\ SentOnce /\ ResolvedFirst /\ AwaitedAhead
            /\ ScheduledInOrder /\ SettledInOrder

-----------------------------------------------------------------------------
\* Every variable keeps its type (send_sync, send_async, engine_worker).
THEOREM TypeCorrect == Spec => []TypeOK
<1> USE RuntimeAssumption DEF Calls
<1>1. Init => TypeOK
  <2>1. <<>> \in Seq(Calls)
    BY EmptySeq
  <2> QED BY <2>1 DEF Init, TypeOK
<1>2. TypeOK /\ [Next]_vars => TypeOK'
  <2> SUFFICES ASSUME TypeOK, [Next]_vars PROVE TypeOK'
    OBVIOUS
  <2> USE DEF TypeOK, pythonVars, engineVars
  <2>1. CASE Constructed \/ SyncReturns \/ CloseLoop \/ Drop \/ Joined
    BY <2>1, EmptySeq DEF Constructed, SyncReturns, CloseLoop, Drop, Joined
  <2>2. CASE RunCallback
    <3>1. Tail(scheduled) \in Seq(Calls)
      BY <2>2, HeadTailProperties DEF RunCallback
    <3> QED BY <2>2, <3>1 DEF RunCallback, Settle
  <2>3. ASSUME NEW c \in Calls, Send(c)
        PROVE  sent' \in Seq(Calls) /\ queue' \in Seq(Calls)
    BY <2>3, AppendProperties DEF Send
  <2>4. ASSUME NEW c \in SyncCalls, CallSync(c) PROVE TypeOK'
    BY <2>3, <2>4 DEF CallSync
  <2>5. ASSUME NEW c \in AsyncCalls, CallAsync(c) \/ Cancel(c) PROVE TypeOK'
    BY <2>3, <2>5 DEF CallAsync, Cancel
  <2>6. CASE StartEngine \/ Evaluate \/ CallPython \/ Answer \/ EngineEnds
    BY <2>6 DEF StartEngine, Evaluate, CallPython, Answer, EngineEnds
  <2>7. CASE TakeCommand
    <3>1. Tail(queue) \in Seq(Calls) /\ Append(ran, Head(queue)) \in Seq(Calls)
      BY <2>7, HeadTailProperties, AppendProperties DEF TakeCommand
    <3> QED BY <2>7, <3>1 DEF TakeCommand, Receive
  <2>8. CASE Resolve
    <3>1. Append(scheduled, Last(ran)) \in Seq(Calls)
      BY <2>8, AppendProperties DEF Resolve
    <3> QED BY <2>8, <3>1 DEF Resolve, Schedule
  <2>9. CASE UNCHANGED vars
    BY <2>9 DEF vars
  <2> QED BY <2>1, <2>2, <2>4, <2>5, <2>6, <2>7, <2>8, <2>9 DEF Next, EngineSteps
<1> QED BY <1>1, <1>2, PTL DEF Spec

-----------------------------------------------------------------------------
\* The channel keeps the order of the calls, whatever else goes on.
LEMMA RunInOrderStep == TypeOK /\ RunInOrder /\ [Next]_vars => RunInOrder'
<1> SUFFICES ASSUME TypeOK, RunInOrder, [Next]_vars PROVE RunInOrder'
  OBVIOUS
<1> USE DEF TypeOK, RunInOrder
<1>1. ASSUME NEW c \in Calls, Send(c), UNCHANGED ran PROVE RunInOrder'
  <2>1. ran \in Seq(Calls) /\ queue \in Seq(Calls)
    OBVIOUS
  <2>2. Append(ran \o queue, c) = ran \o Append(queue, c)
    BY <2>1, AppendToConcat
  <2> QED BY <1>1, <2>2 DEF Send
<1>2. ASSUME NEW c \in SyncCalls, CallSync(c) PROVE RunInOrder'
  BY <1>1, <1>2 DEF CallSync, engineVars, Calls
<1>3. ASSUME NEW c \in AsyncCalls, CallAsync(c) PROVE RunInOrder'
  BY <1>1, <1>3 DEF CallAsync, engineVars, Calls
<1>4. CASE TakeCommand
  <2>1. ran \in Seq(Calls) /\ queue \in Seq(Calls)
    OBVIOUS
  <2>2. Append(ran, Head(queue)) \o Tail(queue) = ran \o queue
    BY <1>4, <2>1, HeadMovesOver DEF TakeCommand
  <2> QED BY <1>4, <2>2 DEF TakeCommand, Receive, pythonVars
<1>5. CASE UNCHANGED <<sent, ran, queue>>
  BY <1>5
<1>6. ASSUME \/ Constructed \/ SyncReturns \/ RunCallback \/ CloseLoop \/ Drop \/ Joined
             \/ StartEngine \/ Evaluate \/ CallPython \/ Answer \/ Resolve \/ EngineEnds
             \/ \E c \in AsyncCalls : Cancel(c)
             \/ UNCHANGED vars
      PROVE  UNCHANGED <<sent, ran, queue>>
  BY <1>6 DEF Constructed, SyncReturns, RunCallback, CloseLoop, Drop, Joined,
     StartEngine, Evaluate, CallPython, Answer, Resolve, EngineEnds, Cancel,
     vars, pythonVars, engineVars
<1> QED BY <1>2, <1>3, <1>4, <1>5, <1>6 DEF Next, EngineSteps

\* What a place in sent says: before the mark the call is finished, and the
\* others are under way or in the channel.
LEMMA Places ==
  ASSUME TypeOK, RunInOrder, Busy => ran # <<>>
  PROVE  /\ DOMAIN sent = 1..Len(sent) /\ Len(sent) \in Nat
         /\ Finished \in 0..Len(sent)
         /\ Len(ran) \in 0..Len(sent)
         /\ Finished = Len(ran) \/ (Finished = Len(ran) - 1 /\ Busy)
         /\ \A i \in 1..Len(ran) : sent[i] = ran[i]
         /\ \A i \in DOMAIN sent : i > Len(ran) => Contains(queue, sent[i])
<1> USE DEF TypeOK, RunInOrder
<1>1. /\ ran \in Seq(Calls) /\ queue \in Seq(Calls) /\ sent \in Seq(Calls)
  OBVIOUS
<1>2. PICK m \in Nat, n \in Nat : m = Len(ran) /\ n = Len(queue)
  BY <1>1, LenProperties
<1>3. /\ Len(sent) = m + n
      /\ \A i \in 1..(m + n) : sent[i] = IF i <= m THEN ran[i] ELSE queue[i - m]
  BY <1>1, <1>2, ConcatProperties
<1>4. DOMAIN sent = 1..Len(sent)
  BY <1>1, LenProperties
<1>5. Busy => m > 0
  BY <1>1, <1>2, EmptySeq
<1>6. \A i \in 1..(m + n) : i > m => Contains(queue, sent[i])
  <2>1. ASSUME NEW i \in 1..(m + n), i > m PROVE Contains(queue, sent[i])
    <3>1. sent[i] = queue[i - m] /\ i - m \in 1..n
      BY <1>3, <2>1
    <3> QED BY <1>2, <3>1 DEF Contains
  <2> QED BY <2>1
<1>7. Finished \in 0..(m + n) /\ (Finished = m \/ (Finished = m - 1 /\ Busy))
  BY <1>2, <1>5 DEF Finished
<1>8. \A i \in 1..m : sent[i] = ran[i]
  BY <1>2, <1>3
<1> QED BY <1>2, <1>3, <1>4, <1>6, <1>7, <1>8

-----------------------------------------------------------------------------
\* The initial state.
LEMMA AsyncInit == Init => AsyncInv
<1> SUFFICES ASSUME Init PROVE AsyncInv
  OBVIOUS
<1>1. sent = <<>> /\ scheduled = <<>> /\ ~Busy
  BY DEF Init, Busy
<1>2. \A c \in AsyncCalls : future[c] = "none"
  BY DEF Init
<1>3. DOMAIN sent = {} /\ DOMAIN scheduled = {}
  BY <1>1
<1> QED BY <1>1, <1>2, <1>3 DEF AsyncInv, SentOnce, ResolvedFirst, AwaitedAhead,
        ScheduledInOrder, SettledInOrder, Before

\* The step of a thread that touches neither futures nor the loop, and at most
\* finishes a blocking call.
LEMMA QuietStep ==
  ASSUME TypeOK, RunInOrder, AsyncInv,
         UNCHANGED <<sent, future, scheduled, evloop>>, Busy' => ran' # <<>>,
         \/ Finished' = Finished
         \/ /\ Finished' = Finished + 1
            /\ sent[Finished + 1] \in SyncCalls
  PROVE  AsyncInv'
<1> USE RuntimeAssumption
<1>0. Finished \in Nat
  BY Places DEF AsyncInv
<1>1. SentOnce' /\ SettledInOrder' /\ ScheduledInOrder'
  BY DEF AsyncInv, SentOnce, SettledInOrder, Before, ScheduledInOrder
<1>2. \A c : Resolved(c) => Resolved(c)'
  BY <1>0 DEF Resolved
<1>3. ResolvedFirst'
  BY <1>2 DEF AsyncInv, ResolvedFirst
<1>4. AwaitedAhead'
  <2> SUFFICES ASSUME NEW c \in AsyncCalls, future[c] = "pending", evloop = "open"
               PROVE  \E i \in DOMAIN sent :
                        sent[i] = c /\ (i > Finished' \/ Contains(scheduled, c))
    BY DEF AwaitedAhead
  <2>1. PICK i \in DOMAIN sent :
          sent[i] = c /\ (i > Finished \/ Contains(scheduled, c))
    BY DEF AsyncInv, AwaitedAhead
  <2>2. i \in Nat
    BY Places DEF AsyncInv
  <2>3. i > Finished /\ Finished' = Finished + 1 => i > Finished'
    BY <1>0, <2>1, <2>2
  <2> QED BY <2>1, <2>3
<1> QED BY <1>1, <1>3, <1>4 DEF AsyncInv

\* A new call has the last place; an awaited one gets a future.
LEMMA CallStep ==
  ASSUME TypeOK, RunInOrder, AsyncInv, NEW c \in Calls, CanCall(c), Send(c),
         UNCHANGED <<ran, engine, scheduled, evloop>>,
         \/ UNCHANGED future
         \/ future' = [future EXCEPT ![c] = "pending"]
  PROVE  AsyncInv'
<1> USE RuntimeAssumption DEF AsyncInv
<1>t. sent \in Seq(Calls) /\ scheduled \in Seq(Calls)
  BY DEF TypeOK
<1>1. PICK m \in Nat : m = Len(sent) /\ DOMAIN sent = 1..m
  BY Places
<1>2. /\ DOMAIN sent' = 1..(m + 1) /\ sent'[m + 1] = c
      /\ \A i \in 1..m : sent'[i] = sent[i] /\ sent[i] # c
  <2>1. /\ sent' \in Seq(Calls) /\ Len(sent') = m + 1 /\ sent'[m + 1] = c
        /\ \A i \in 1..m : sent'[i] = sent[i]
    BY <1>1, <1>t, AppendProperties DEF Send
  <2>2. DOMAIN sent' = 1..(m + 1)
    BY <2>1, LenProperties
  <2> QED BY <1>1, <2>1, <2>2 DEF CanCall
<1>3. Finished' = Finished /\ Busy' = Busy /\ Finished \in 0..m
  BY <1>1, Places DEF Finished, Busy
<1>4. \A d : Resolved(d)' <=> Resolved(d)
  BY <1>2, <1>3 DEF Resolved
<1>5. ~Resolved(c)
  BY <1>2, <1>3 DEF Resolved
<1>6. SentOnce'
  BY <1>1, <1>2 DEF SentOnce
<1>7. \A d \in AsyncCalls :
        /\ d # c => future'[d] = future[d]
        /\ d = c => future'[d] # "done"
  BY <1>5 DEF TypeOK, ResolvedFirst
<1>8. ResolvedFirst'
  BY <1>4, <1>7 DEF ResolvedFirst
<1>9. AwaitedAhead'
  <2> SUFFICES ASSUME NEW d \in AsyncCalls, future'[d] = "pending", evloop = "open"
               PROVE  \E i \in DOMAIN sent' :
                        sent'[i] = d /\ (i > Finished \/ Contains(scheduled, d))
    BY <1>3 DEF AwaitedAhead
  <2>1. CASE d = c
    <3>1. m + 1 \in 1..(m + 1) /\ m + 1 > Finished
      BY <1>3
    <3> QED BY <1>2, <2>1, <3>1
  <2>2. CASE d # c
    <3>1. PICK i \in DOMAIN sent :
            sent[i] = d /\ (i > Finished \/ Contains(scheduled, d))
      BY <1>7, <2>2 DEF AwaitedAhead
    <3> QED BY <1>1, <1>2, <3>1
  <2> QED BY <2>1, <2>2
<1>10. \A k \in DOMAIN scheduled : scheduled[k] # c
  BY <1>5 DEF ResolvedFirst
<1>11. ScheduledInOrder'
  <2> SUFFICES ASSUME NEW i \in DOMAIN sent', NEW j \in DOMAIN sent',
                      NEW l \in DOMAIN scheduled, sent'[j] = scheduled[l]
               PROVE  /\ \A k \in DOMAIN scheduled :
                           k < l /\ sent'[i] = scheduled[k] => i < j
                      /\ sent'[i] \in AsyncCalls /\ future'[sent'[i]] = "done" => i < j
    BY DEF ScheduledInOrder
  <2>1. j \in DOMAIN sent
    BY <1>1, <1>2, <1>10
  <2>2. CASE i = m + 1
    BY <1>2, <1>7, <1>10, <2>2
  <2>3. CASE i # m + 1
    <3>1. i \in DOMAIN sent /\ sent'[i] = sent[i] /\ sent[i] # c /\ sent'[j] = sent[j]
      BY <1>1, <1>2, <2>1, <2>3
    <3> QED BY <1>7, <2>1, <3>1 DEF ScheduledInOrder
  <2> QED BY <2>2, <2>3
<1>12. SettledInOrder'
  <2> SUFFICES ASSUME NEW b \in AsyncCalls, NEW d \in AsyncCalls,
                      NEW i \in DOMAIN sent', NEW j \in DOMAIN sent', i < j,
                      sent'[i] = b, sent'[j] = d, future'[d] = "done"
               PROVE  future'[b] # "pending"
    BY DEF SettledInOrder, Before
  <2>1. d # c
    BY <1>7
  <2>2. j \in 1..m /\ i \in 1..m
    BY <1>2, <2>1
  <2>3. sent[i] = b /\ sent[j] = d /\ b # c
    BY <1>2, <2>2
  <2> QED BY <1>1, <1>7, <2>1, <2>2, <2>3 DEF SettledInOrder, Before
<1> QED BY <1>3, <1>6, <1>8, <1>9, <1>11, <1>12
\* The event loop settles the future of the oldest result it was given.
LEMMA CallbackStep ==
  ASSUME TypeOK, RunInOrder, AsyncInv, RunCallback
  PROVE  AsyncInv'
<1> USE RuntimeAssumption DEF AsyncInv
<1> DEFINE d == scheduled[1]
<1>t. sent \in Seq(Calls) /\ scheduled \in Seq(Calls)
  BY DEF TypeOK
<1>u. UNCHANGED <<sent, ran, engine, evloop>> /\ evloop = "open"
  BY DEF RunCallback, engineVars
<1>1. PICK n \in Nat : DOMAIN scheduled = 1..n /\ Len(scheduled) = n /\ n > 0
  BY <1>t, EmptySeq, LenProperties DEF RunCallback
<1>2. DOMAIN scheduled' = 1..(n - 1) /\ \A k \in 1..(n - 1) : scheduled'[k] = scheduled[k + 1]
  <2>1. /\ scheduled' \in Seq(Calls) /\ Len(scheduled') = n - 1
        /\ \A k \in 1..(n - 1) : scheduled'[k] = scheduled[k + 1]
    BY <1>t, <1>1, HeadTailProperties DEF RunCallback
  <2> QED BY <2>1, LenProperties
<1>3. d \in AsyncCalls /\ Resolved(d)
  BY <1>1 DEF ResolvedFirst
<1>4. /\ \A c \in AsyncCalls : c # d => future'[c] = future[c]
      /\ future'[d] = IF future[d] = "pending" THEN "done" ELSE future[d]
  BY <1>3, <1>t DEF RunCallback, Settle, TypeOK
<1>5. Finished' = Finished /\ Busy' = Busy
  BY <1>u DEF Finished, Busy
<1>6. \A c : Resolved(c)' <=> Resolved(c)
  BY <1>u, <1>5 DEF Resolved
<1>7. ResolvedFirst'
  <2>1. ASSUME NEW c \in AsyncCalls, future'[c] = "done" PROVE Resolved(c)'
    <3>1. c = d \/ future[c] = "done"
      BY <1>4, <2>1
    <3> QED BY <1>3, <1>6, <3>1 DEF ResolvedFirst
  <2>2. ASSUME NEW k \in DOMAIN scheduled'
        PROVE  (scheduled[k] \in AsyncCalls /\ Resolved(scheduled[k]))'
    <3>1. k + 1 \in DOMAIN scheduled /\ scheduled'[k] = scheduled[k + 1]
      BY <1>1, <1>2
    <3> QED BY <1>6, <3>1 DEF ResolvedFirst
  <2> QED BY <2>1, <2>2 DEF ResolvedFirst
<1>8. \A c \in AsyncCalls : c # d /\ Contains(scheduled, c) => Contains(scheduled, c)'
  <2> SUFFICES ASSUME NEW c \in AsyncCalls, c # d,
                      NEW k \in 1..n, scheduled[k] = c
               PROVE  Contains(scheduled, c)'
    BY <1>1 DEF Contains
  <2>1. k - 1 \in 1..(n - 1) /\ scheduled'[k - 1] = c
    BY <1>2
  <2>2. Len(scheduled') = n - 1
    BY <1>t, <1>1, HeadTailProperties DEF RunCallback
  <2> QED BY <2>1, <2>2 DEF Contains
<1>9. AwaitedAhead'
  BY <1>u, <1>4, <1>5, <1>8 DEF AwaitedAhead
<1>10. \A i, j \in DOMAIN sent : \A l \in DOMAIN scheduled' :
         sent[i] = d /\ sent[j] = scheduled'[l] => i < j
  BY <1>1, <1>2 DEF ScheduledInOrder
<1>11. ScheduledInOrder'
  <2> SUFFICES ASSUME NEW i \in DOMAIN sent, NEW j \in DOMAIN sent,
                      NEW l \in DOMAIN scheduled', sent[j] = scheduled'[l]
               PROVE  /\ \A k \in DOMAIN scheduled' :
                           k < l /\ sent[i] = scheduled'[k] => i < j
                      /\ sent[i] \in AsyncCalls /\ future'[sent[i]] = "done" => i < j
    BY <1>u DEF ScheduledInOrder
  <2>1. l + 1 \in DOMAIN scheduled /\ sent[j] = scheduled[l + 1]
    BY <1>1, <1>2
  <2>2. ASSUME NEW k \in DOMAIN scheduled', k < l, sent[i] = scheduled'[k]
        PROVE  i < j
    <3>1. k + 1 \in DOMAIN scheduled /\ sent[i] = scheduled[k + 1] /\ k + 1 < l + 1
      BY <1>1, <1>2, <2>2
    <3> QED BY <2>1, <3>1 DEF ScheduledInOrder
  <2>3. ASSUME sent[i] \in AsyncCalls, future'[sent[i]] = "done"
        PROVE  i < j
    <3>1. CASE sent[i] = d
      BY <1>10, <3>1
    <3>2. CASE sent[i] # d
      BY <1>4, <2>1, <2>3, <3>2 DEF ScheduledInOrder
    <3> QED BY <3>1, <3>2
  <2> QED BY <2>2, <2>3
\* The heart of the matter: a call before d that is still awaited would have
\* its result scheduled before that of d, or be finished after it.
<1>12. SettledInOrder'
  <2> SUFFICES ASSUME NEW b \in AsyncCalls, NEW e \in AsyncCalls,
                      NEW i \in DOMAIN sent, NEW j \in DOMAIN sent, i < j,
                      sent[i] = b, sent[j] = e, future'[e] = "done",
                      future'[b] = "pending"
               PROVE  FALSE
    BY <1>u DEF SettledInOrder, Before
  <2>0. i \in Nat /\ j \in Nat
    BY Places
  <2>1. b # d /\ future[b] = "pending"
    BY <1>4
  <2>2. CASE future[e] = "done"
    BY <2>1, <2>2 DEF SettledInOrder, Before
  <2>3. CASE future[e] # "done"
    <3>1. e = d
      BY <1>4, <2>3
    <3>2. PICK k \in DOMAIN sent :
            sent[k] = b /\ (k > Finished \/ Contains(scheduled, b))
      BY <1>u, <2>1 DEF AwaitedAhead
    <3>3. k = i
      BY <3>2 DEF SentOnce
    <3>4. j \in 1..Finished
      <4>1. PICK p \in 1..Finished : sent[p] = d
        BY <1>3 DEF Resolved
      <4>2. p \in DOMAIN sent
        BY Places
      <4> QED BY <3>1, <4>1, <4>2 DEF SentOnce
    <3>5. Contains(scheduled, b)
      BY <2>0, <3>2, <3>3, <3>4, Places
    <3>6. PICK l \in 1..n : scheduled[l] = b
      BY <1>1, <3>5 DEF Contains
    <3>7. l \in DOMAIN scheduled /\ 1 \in DOMAIN scheduled /\ 1 < l
      BY <1>1, <2>1, <3>6
    <3>8. j < i
      BY <3>1, <3>6, <3>7 DEF ScheduledInOrder
    <3> QED BY <2>0, <3>8
  <2> QED BY <2>2, <2>3
<1>13. SentOnce'
  BY <1>u DEF SentOnce
<1> QED BY <1>u, <1>5, <1>7, <1>9, <1>11, <1>12, <1>13

\* The engine hands the result of an awaited call to the loop, if it is open.
LEMMA ResolveStep ==
  ASSUME TypeOK, RunInOrder, AsyncInv, Resolve
  PROVE  AsyncInv'
<1> USE RuntimeAssumption DEF AsyncInv
<1> DEFINE c == Last(ran)
<1>t. /\ sent \in Seq(Calls) /\ scheduled \in Seq(Calls) /\ c \in Calls
  BY DEF TypeOK, Resolve, Calls
<1>u. /\ UNCHANGED <<sent, ran, future, evloop>>
      /\ Busy /\ ~Busy' /\ c \in AsyncCalls
  BY DEF Resolve, Busy
<1>1. /\ Finished \in Nat /\ Finished' = Finished + 1 /\ Finished + 1 = Len(ran)
      /\ Finished + 1 \in DOMAIN sent /\ sent[Finished + 1] = c
  <2>1. Len(ran) \in Nat /\ Len(ran) > 0
    BY <1>u, EmptySeq DEF TypeOK
  <2> QED BY <1>u, <2>1, Places DEF Finished, Last
<1>2. \A d : Resolved(d)' <=> Resolved(d) \/ d = c
  BY <1>u, <1>1 DEF Resolved
<1>3. CASE evloop # "open"
  <2>1. scheduled' = scheduled
    BY <1>3 DEF Resolve
  <2>2. ScheduledInOrder' /\ SettledInOrder' /\ SentOnce' /\ AwaitedAhead'
    BY <1>3, <1>u, <2>1 DEF SentOnce, AwaitedAhead, ScheduledInOrder,
                            SettledInOrder, Before
  <2>3. ResolvedFirst'
    BY <1>2, <1>u, <2>1 DEF ResolvedFirst
  <2> QED BY <1>u, <2>2, <2>3
<1>4. CASE evloop = "open"
  <2>1. PICK n \in Nat : DOMAIN scheduled = 1..n /\ Len(scheduled) = n
    BY <1>t, LenProperties
  <2>2. /\ DOMAIN scheduled' = 1..(n + 1) /\ scheduled'[n + 1] = c
        /\ Len(scheduled') = n + 1
        /\ \A k \in 1..n : scheduled'[k] = scheduled[k]
    <3>1. /\ scheduled' \in Seq(Calls) /\ Len(scheduled') = n + 1
          /\ scheduled'[n + 1] = c
          /\ \A k \in 1..n : scheduled'[k] = scheduled[k]
      BY SMTT(30), <1>t, <1>4, <2>1, AppendProperties DEF Resolve, Schedule
    <3> QED BY <3>1, LenProperties
  <2>3. SentOnce' /\ SettledInOrder'
    BY <1>u DEF SentOnce, SettledInOrder, Before
  <2>4. ResolvedFirst'
    BY <1>2, <1>u, <2>1, <2>2 DEF ResolvedFirst
  <2>5. AwaitedAhead'
    <3> SUFFICES ASSUME NEW d \in AsyncCalls, future[d] = "pending", evloop = "open"
                 PROVE  \E i \in DOMAIN sent :
                          sent[i] = d /\ (i > Finished' \/ Contains(scheduled, d)')
      BY <1>u DEF AwaitedAhead
    <3>1. PICK i \in DOMAIN sent :
            sent[i] = d /\ (i > Finished \/ Contains(scheduled, d))
      BY DEF AwaitedAhead
    <3>2. i \in Nat
      BY Places
    <3>3. Contains(scheduled, d) => Contains(scheduled, d)'
      BY <2>1, <2>2 DEF Contains
    <3>4. d = c => Contains(scheduled, d)'
      BY <2>1, <2>2 DEF Contains
    <3>5. d # c /\ i > Finished => i > Finished'
      BY <1>1, <3>1, <3>2
    <3> QED BY <3>1, <3>3, <3>4, <3>5
  <2>6. ScheduledInOrder'
    <3> SUFFICES ASSUME NEW i \in DOMAIN sent, NEW j \in DOMAIN sent,
                        NEW l \in DOMAIN scheduled', sent[j] = scheduled'[l]
                 PROVE  /\ \A k \in DOMAIN scheduled' :
                             k < l /\ sent[i] = scheduled'[k] => i < j
                        /\ sent[i] \in AsyncCalls /\ future[sent[i]] = "done" => i < j
      BY <1>u DEF ScheduledInOrder
    <3>1. CASE l \in 1..n
      <4>1. sent[j] = scheduled[l] /\ l \in DOMAIN scheduled
        BY <2>1, <2>2, <3>1
      <4>2. \A k \in DOMAIN scheduled' : k < l => k \in DOMAIN scheduled
                                                 /\ scheduled'[k] = scheduled[k]
        BY <2>1, <2>2, <3>1
      <4> QED BY <4>1, <4>2 DEF ScheduledInOrder
    <3>2. CASE l = n + 1
      <4>1. j = Finished + 1
        BY <1>1, <2>2, <3>2 DEF SentOnce
      <4>2. ASSUME Resolved(sent[i]) PROVE i < j
        <5>1. PICK p \in 1..Finished : sent[p] = sent[i]
          BY <4>2 DEF Resolved
        <5>2. p = i
          BY <5>1, Places DEF SentOnce
        <5> QED BY <1>1, <4>1, <5>1, <5>2
      <4>3. \A k \in DOMAIN scheduled' : k < l => Resolved(scheduled'[k])
        BY <2>1, <2>2, <3>2 DEF ResolvedFirst
      <4>4. sent[i] \in AsyncCalls /\ future[sent[i]] = "done" => Resolved(sent[i])
        BY DEF ResolvedFirst
      <4> QED BY <4>2, <4>3, <4>4
    <3> QED BY <2>2, <3>1, <3>2
  <2> QED BY <1>u, <2>3, <2>4, <2>5, <2>6
<1> QED BY <1>3, <1>4
\* One step per action of either thread.
LEMMA AsyncStep ==
  TypeOK /\ RunInOrder /\ AsyncInv /\ [Next]_vars => AsyncInv'
<1> SUFFICES ASSUME TypeOK, RunInOrder, AsyncInv, [Next]_vars PROVE AsyncInv'
  OBVIOUS
<1> USE DEF pythonVars, engineVars
<1>1. CASE Constructed \/ SyncReturns \/ Drop \/ Joined \/ UNCHANGED vars
  <2> UNCHANGED <<sent, future, scheduled, evloop, engine, ran>>
    BY <1>1 DEF Constructed, SyncReturns, Drop, Joined, vars
  <2> QED BY QuietStep DEF Finished, Busy, AsyncInv
<1>2. CASE StartEngine \/ Evaluate \/ CallPython \/ EngineEnds
  <2> UNCHANGED <<sent, future, scheduled, evloop, ran, Busy>>
    BY <1>2 DEF StartEngine, Evaluate, CallPython, EngineEnds, Busy
  <2> QED BY QuietStep DEF Finished, AsyncInv
<1>3. CASE TakeCommand
  <2>1. /\ UNCHANGED <<sent, future, scheduled, evloop>>
        /\ ran' = Append(ran, Head(queue)) /\ queue # <<>> /\ ~Busy /\ Busy'
    BY <1>3 DEF TakeCommand, Receive, Busy
  <2>2. Len(ran') = Len(ran) + 1 /\ ran' # <<>> /\ Len(ran) \in Nat
    BY SMTT(30), <2>1, HeadTailProperties, AppendProperties, LenProperties DEF TypeOK
  <2>3. Finished' = Finished
    BY <2>1, <2>2 DEF Finished
  <2> QED BY <2>1, <2>2, <2>3, QuietStep
<1>4. CASE Answer
  <2>1. /\ UNCHANGED <<sent, future, scheduled, evloop, ran>>
        /\ Busy /\ ~Busy' /\ Last(ran) \in SyncCalls
    BY <1>4 DEF Answer, Busy
  <2>2. Len(ran) \in Nat /\ Len(ran) > 0
    BY <2>1, EmptySeq DEF TypeOK, AsyncInv
  <2>3. Finished' = Finished + 1 /\ sent[Finished + 1] \in SyncCalls
    BY <2>1, <2>2, Places DEF Finished, Last, AsyncInv
  <2> QED BY <2>1, <2>3, QuietStep
<1>5. CASE CloseLoop
  <2>1. /\ UNCHANGED <<sent, future, ran, Busy, Finished>>
        /\ scheduled' = <<>> /\ evloop' # "open"
    BY <1>5 DEF CloseLoop, Busy, Finished
  <2>2. DOMAIN scheduled' = {}
    BY <2>1
  <2>3. \A c : Resolved(c)' <=> Resolved(c)
    BY <2>1 DEF Resolved
  <2> QED BY <2>1, <2>2, <2>3 DEF AsyncInv, SentOnce, ResolvedFirst, AwaitedAhead,
          ScheduledInOrder, SettledInOrder, Before
<1>6. ASSUME NEW c \in AsyncCalls, Cancel(c) PROVE AsyncInv'
  <2>1. UNCHANGED <<sent, scheduled, evloop, ran, Busy, Finished>>
    BY <1>6 DEF Cancel, Busy, Finished
  <2>2. \A d \in AsyncCalls : future'[d] \in {"done", "pending"} => future'[d] = future[d]
    BY <1>6 DEF Cancel, TypeOK
  <2>3. \A d : Resolved(d)' <=> Resolved(d)
    BY <2>1 DEF Resolved
  <2>4. SentOnce' /\ ResolvedFirst'
    BY <2>1, <2>2, <2>3 DEF AsyncInv, SentOnce, ResolvedFirst
  <2>5. AwaitedAhead'
    BY <2>1, <2>2 DEF AsyncInv, AwaitedAhead
  <2>6. ScheduledInOrder' /\ SettledInOrder'
    BY <2>1, <2>2 DEF AsyncInv, ScheduledInOrder, SettledInOrder, Before
  <2> QED BY <2>1, <2>4, <2>5, <2>6 DEF AsyncInv
<1>7. ASSUME NEW c \in SyncCalls, CallSync(c) PROVE AsyncInv'
  BY <1>7, CallStep DEF CallSync, Calls
<1>8. ASSUME NEW c \in AsyncCalls, CallAsync(c) PROVE AsyncInv'
  BY <1>8, CallStep DEF CallAsync, Calls
<1> QED BY <1>1, <1>2, <1>3, <1>4, <1>5, <1>6, <1>7, <1>8, CallbackStep, ResolveStep
        DEF Next, EngineSteps

\* AsyncInv holds in every reachable state.
LEMMA AsyncInvariant == Spec => [](TypeOK /\ RunInOrder /\ AsyncInv)
<1>1. Init => RunInOrder
  BY DEF Init, RunInOrder
<1> QED BY <1>1, TypeCorrect, RunInOrderStep, AsyncInit, AsyncStep, PTL DEF Spec

\* Commands run, and awaited calls are settled, in the order in which they were
\* made, whatever mix of blocking, awaited and cancelled calls, and with the
\* loop closed or the runtime dropped at any time (send_sync, send_async,
\* engine_worker, resolve_future).
THEOREM CallsKeepTheirOrder == Spec => []InCallOrder
BY AsyncInvariant, PTL DEF InCallOrder, AsyncInv

\* The result of an awaited call is never lost between the channel, the engine
\* and the event loop while the loop is open (send_async, resolve_future).
THEOREM ResultsArrive == Spec => []ResultOnItsWay
<1>1. TypeOK /\ RunInOrder /\ AsyncInv => ResultOnItsWay
  <2> SUFFICES ASSUME TypeOK, RunInOrder, AsyncInv, NEW c \in AsyncCalls,
                      future[c] = "pending", evloop = "open"
               PROVE  \/ Contains(queue, c) \/ UnderWay(c) \/ Contains(scheduled, c)
    BY DEF ResultOnItsWay
  <2> USE DEF AsyncInv
  <2>1. PICK i \in DOMAIN sent :
          sent[i] = c /\ (i > Finished \/ Contains(scheduled, c))
    BY DEF AwaitedAhead
  <2>2. CASE i > Len(ran)
    BY <2>1, <2>2, Places
  <2>3. CASE i > Finished /\ ~(i > Len(ran))
    <3>1. i = Len(ran) /\ Busy /\ ran[i] = c
      BY <2>1, <2>3, Places
    <3> QED BY <3>1 DEF UnderWay, Last, Busy
  <2> QED BY <2>1, <2>2, <2>3
<1> QED BY <1>1, AsyncInvariant, PTL
=============================================================================
