--------------------------- MODULE WebRequestProofs ---------------------------
(***************************************************************************)
(* Proofs about WebRequest, for any routes, components and middleware, any *)
(* number of browsers and requests and any size of the pool.               *)
(***************************************************************************)
EXTENDS WebRequest, SequenceLemmas, FiniteSetTheorems

-----------------------------------------------------------------------------
(* Components and runtimes *)

\* What may be found missing: components given as source, after an edit.
Bound == IF DevMode THEN Given ELSE {}

IsQueue(queue) == \E S : queue \in Seq(SUBSET S)

\* What the runtimes have registered, and what later ones will.
Kit(j) ==
  /\ j = [loaded |-> j.loaded, stored |-> j.stored, queue |-> j.queue,
          initialized |-> j.initialized, outages |-> j.outages]
  /\ IsQueue(j.queue)
  /\ \A i \in 1..Len(j.queue) : j.loaded \subseteq j.queue[i]
  /\ Pooled => j.loaded \subseteq j.stored
  /\ ~Pooled => j.initialized
  /\ j.initialized => j.queue # <<>>
  /\ ~DevMode => Given \subseteq j.loaded

\* A state of a render.
Good(s) ==
  /\ s = [js |-> s.js, failed |-> s.failed, missing |-> s.missing]
  /\ Kit(s.js)
  /\ s.missing \subseteq Bound

LEMMA PoolHasSize == PoolSize \in Nat /\ PoolSize # 0
BY WebAssumption

LEMMA QueueGrows ==
  ASSUME NEW queue, IsQueue(queue), NEW X
  PROVE  \E S : queue \in Seq(SUBSET S) /\ X \subseteq S
<1>1. PICK T : queue \in Seq(SUBSET T)
  BY DEF IsQueue
<1>2. PICK S : S = T \cup X
  OBVIOUS
<1>3. PICK n \in Nat : n = Len(queue)
  BY <1>1, LenProperties
<1>4. /\ queue = [i \in 1..n |-> queue[i]]
      /\ \A i \in 1..n : queue[i] \in SUBSET T
  BY <1>1, <1>3, LenProperties, ElementOfSeq
<1>5. \A i \in 1..n : queue[i] \in SUBSET S
  BY <1>2, <1>4
<1>6. [i \in 1..n |-> queue[i]] \in Seq(SUBSET S)
  BY <1>5, IsASeq
<1>7. queue \in Seq(SUBSET S)
  BY <1>4, <1>6
<1> QED BY <1>2, <1>7

LEMMA RegisterProperties ==
  ASSUME NEW queue, IsQueue(queue), NEW c
  PROVE  /\ IsQueue(RegisterOnAll(queue, c))
         /\ Len(RegisterOnAll(queue, c)) = Len(queue)
         /\ \A i \in 1..Len(queue) : RegisterOnAll(queue, c)[i] = queue[i] \cup {c}
         /\ queue # <<>> => RegisterOnAll(queue, c) # <<>>
<1>1. PICK S : queue \in Seq(SUBSET S) /\ {c} \subseteq S
  BY QueueGrows
<1>2. PICK n \in Nat : n = Len(queue) /\ DOMAIN queue = 1..n
  BY <1>1, LenProperties
<1>3. \A i \in 1..n : queue[i] \in SUBSET S
  BY <1>1, <1>2, ElementOfSeq
<1>4. PICK q : q = [i \in 1..n |-> queue[i] \cup {c}]
  OBVIOUS
<1>5. q \in Seq(SUBSET S) /\ Len(q) = n
  <2>1. \A i \in 1..n : queue[i] \cup {c} \in SUBSET S
    BY <1>1, <1>3
  <2>2. [i \in 1..n |-> queue[i] \cup {c}] \in Seq(SUBSET S)
    BY <2>1, IsASeq
  <2>3. DOMAIN q = 1..n
    BY <1>4
  <2> QED BY <1>4, <2>2, <2>3, LenProperties
<1>6. q = RegisterOnAll(queue, c)
  BY <1>2, <1>4 DEF RegisterOnAll
<1>7. queue # <<>> => n # 0
  BY <1>1, <1>2, EmptySeq
<1>8. n # 0 => q # <<>>
  BY <1>5, EmptySeq
<1> QED BY <1>2, <1>4, <1>5, <1>6, <1>7, <1>8 DEF IsQueue

\* A component is loaded on every runtime that there is, and kept for those to
\* come (load_component_file).
LEMMA EnsureGood ==
  ASSUME NEW s, Good(s), NEW c
  PROVE  LET t == EnsureComponent(s, c) IN
         /\ Good(t)
         /\ ~t.failed => ~s.failed /\ (c \in t.js.loaded \/ (c \in Given /\ DevMode))
         /\ s.js.queue # <<>> => t.js.queue # <<>>
<1> DEFINE t == EnsureComponent(s, c)
<1>0. /\ s = [js |-> s.js, failed |-> s.failed, missing |-> s.missing]
      /\ s.missing \subseteq Bound
      /\ s.js = [loaded |-> s.js.loaded, stored |-> s.js.stored, queue |-> s.js.queue,
                 initialized |-> s.js.initialized, outages |-> s.js.outages]
  BY DEF Good, Kit
<1>1. /\ IsQueue(s.js.queue)
      /\ \A i \in 1..Len(s.js.queue) : s.js.loaded \subseteq s.js.queue[i]
      /\ Pooled => s.js.loaded \subseteq s.js.stored
      /\ ~Pooled => s.js.initialized
      /\ s.js.initialized => s.js.queue # <<>>
      /\ ~DevMode => Given \subseteq s.js.loaded
  BY DEF Good, Kit
<1>2. CASE c \in s.js.loaded \/ c \in Given
  <2>1. t = s
    BY <1>2 DEF EnsureComponent
  <2>2. c \in s.js.loaded \/ (c \in Given /\ DevMode)
    BY <1>1, <1>2
  <2> QED BY <2>1, <2>2
<1>3. CASE ~(c \in s.js.loaded \/ c \in Given) /\ Fate[c] = "untranspilable"
  <2>1. t = [js |-> s.js, failed |-> TRUE, missing |-> s.missing]
    BY <1>0, <1>3 DEF EnsureComponent, LoadFile
  <2> QED BY <1>0, <2>1 DEF Good
<1>4. CASE /\ ~(c \in s.js.loaded \/ c \in Given) /\ Fate[c] # "untranspilable"
           /\ Fate[c] = "unloadable" /\ s.js.queue # <<>>
  <2>1. t = [js |-> [loaded |-> s.js.loaded, stored |-> Store(s.js, c), queue |-> s.js.queue,
                     initialized |-> s.js.initialized, outages |-> s.js.outages],
             failed |-> TRUE, missing |-> s.missing]
    BY <1>0, <1>4 DEF EnsureComponent, LoadFile
  <2>2. Pooled => s.js.loaded \subseteq Store(s.js, c)
    BY <1>1 DEF Store
  <2> QED BY <1>0, <1>1, <2>1, <2>2 DEF Good, Kit
<1>5. CASE /\ ~(c \in s.js.loaded \/ c \in Given) /\ Fate[c] # "untranspilable"
           /\ ~(Fate[c] = "unloadable" /\ s.js.queue # <<>>)
  <2>0. PICK q : q = RegisterOnAll(s.js.queue, c)
    OBVIOUS
  <2>1. t = [js |-> [loaded |-> s.js.loaded \cup {c}, stored |-> Store(s.js, c),
                     queue |-> q, initialized |-> s.js.initialized, outages |-> s.js.outages],
             failed |-> s.failed, missing |-> s.missing]
    BY <1>0, <1>5, <2>0 DEF EnsureComponent, LoadFile
  <2>2. /\ IsQueue(q) /\ Len(q) = Len(s.js.queue)
        /\ \A i \in 1..Len(s.js.queue) : q[i] = s.js.queue[i] \cup {c}
        /\ s.js.queue # <<>> => q # <<>>
    BY <1>1, <2>0, RegisterProperties
  <2>3. Pooled => s.js.loaded \cup {c} \subseteq Store(s.js, c)
    BY <1>1 DEF Store
  <2>4. \A i \in 1..Len(q) : s.js.loaded \cup {c} \subseteq q[i]
    BY <1>1, <2>2
  <2>5. PICK j : j = [loaded |-> s.js.loaded \cup {c}, stored |-> Store(s.js, c), queue |-> q,
                      initialized |-> s.js.initialized, outages |-> s.js.outages]
    OBVIOUS
  <2>6. /\ j = [loaded |-> j.loaded, stored |-> j.stored, queue |-> j.queue,
                initialized |-> j.initialized, outages |-> j.outages]
        /\ j.loaded = s.js.loaded \cup {c} /\ j.stored = Store(s.js, c) /\ j.queue = q
        /\ j.initialized = s.js.initialized
    BY <2>5
  <2>7. Kit(j)
    BY <1>1, <2>2, <2>3, <2>4, <2>6 DEF Kit
  <2>8. t = [js |-> j, failed |-> s.failed, missing |-> s.missing]
    BY <2>1, <2>5
  <2>9. t.js = j /\ t.failed = s.failed /\ t.missing = s.missing
    BY <2>8
  <2>10. Good(t)
    BY <1>0, <2>7, <2>8, <2>9 DEF Good
  <2> QED BY <2>2, <2>6, <2>9, <2>10
<1> QED BY <1>2, <1>3, <1>4, <1>5

\* An initialisation may fail half-way and be tried again: what it makes has
\* every component that counts as loaded (initialize, acquire).
LEMMA AcquireGood ==
  ASSUME NEW s, Good(s), NEW made \in 0..PoolSize
  PROVE  LET t == Acquire(s, made) IN
         /\ Good(t)
         /\ t.js.loaded = s.js.loaded
         /\ ~s.failed /\ ~t.failed => t.js.queue # <<>>
<1> DEFINE t == Acquire(s, made)
<1>0. /\ s = [js |-> s.js, failed |-> s.failed, missing |-> s.missing]
      /\ s.missing \subseteq Bound
      /\ s.js = [loaded |-> s.js.loaded, stored |-> s.js.stored, queue |-> s.js.queue,
                 initialized |-> s.js.initialized, outages |-> s.js.outages]
  BY DEF Good, Kit
<1>1. /\ IsQueue(s.js.queue)
      /\ \A i \in 1..Len(s.js.queue) : s.js.loaded \subseteq s.js.queue[i]
      /\ Pooled => s.js.loaded \subseteq s.js.stored
      /\ ~Pooled => s.js.initialized
      /\ s.js.initialized => s.js.queue # <<>>
      /\ ~DevMode => Given \subseteq s.js.loaded
  BY DEF Good, Kit
<1>2. CASE s.js.initialized
  BY <1>1, <1>2 DEF Acquire
<1>3. CASE ~s.js.initialized
  <2>1. PICK n \in Nat : /\ n = IF \A c \in s.js.stored : Fate[c] # "unloadable" THEN made ELSE 0
                         /\ n <= PoolSize
    BY PoolHasSize
  <2>2. PICK more : more = [i \in 1..n |-> s.js.stored]
    OBVIOUS
  <2>3. PICK q : q = s.js.queue \o more
    OBVIOUS
  <2>4. PICK k : k = IF made < PoolSize THEN s.js.outages + 1 ELSE s.js.outages
    OBVIOUS
  <2>5. t = [js |-> [loaded |-> s.js.loaded, stored |-> s.js.stored, queue |-> q,
                     initialized |-> (n = PoolSize), outages |-> k],
             failed |-> (n < PoolSize), missing |-> s.missing]
    BY <1>0, <1>3, <2>1, <2>2, <2>3, <2>4 DEF Acquire, Initialize
  <2>6. PICK S : s.js.queue \in Seq(SUBSET S) /\ s.js.stored \subseteq S
    BY <1>1, QueueGrows
  <2>7. more \in Seq(SUBSET S) /\ Len(more) = n /\ \A i \in 1..n : more[i] = s.js.stored
    <3>1. \A i \in 1..n : s.js.stored \in SUBSET S
      BY <2>6
    <3>2. [i \in 1..n |-> s.js.stored] \in Seq(SUBSET S)
      BY <3>1, IsASeq
    <3>3. DOMAIN more = 1..n
      BY <2>2
    <3> QED BY <2>2, <3>2, <3>3, LenProperties
  <2>8. PICK old \in Seq(SUBSET S), m \in Nat : old = s.js.queue /\ m = Len(old)
    BY <2>6, LenProperties
  <2>9. /\ q \in Seq(SUBSET S) /\ Len(q) = m + n
        /\ \A i \in 1..m : q[i] = old[i]
        /\ \A i \in 1..n : q[m + i] = more[i]
    <3>1. PICK rest \in Seq(SUBSET S) : rest = more /\ n = Len(rest)
      BY <2>7
    <3>2. /\ old \o rest \in Seq(SUBSET S) /\ Len(old \o rest) = m + n
          /\ \A i \in 1..m : (old \o rest)[i] = old[i]
          /\ \A i \in 1..n : (old \o rest)[m + i] = rest[i]
      BY <2>8, <3>1, ConcatAt
    <3> QED BY <2>3, <2>8, <3>1, <3>2
  <2>10. ASSUME NEW i \in 1..Len(q) PROVE s.js.loaded \subseteq q[i]
    <3>1. CASE i \in 1..m
      BY <1>1, <2>8, <2>9, <3>1
    <3>2. CASE i \notin 1..m
      <4>1. PICK l \in 1..n : i = m + l
        <5>1. i - m \in 1..n /\ i = m + (i - m)
          BY <2>9, <3>2
        <5> QED BY <5>1
      <4>2. q[i] = s.js.stored
        BY <2>7, <2>9, <4>1
      <4>3. Pooled
        BY <1>1, <1>3
      <4> QED BY <1>1, <4>2, <4>3
    <3> QED BY <3>1, <3>2
  <2>11. n = PoolSize => q # <<>>
    <3>1. n = PoolSize => m + n # 0
      BY PoolHasSize
    <3> QED BY <2>9, <3>1, EmptySeq
  <2>12. Pooled
    BY <1>1, <1>3
  <2>13. Kit(t.js)
    <3>1. PICK j : j = [loaded |-> s.js.loaded, stored |-> s.js.stored, queue |-> q,
                        initialized |-> (n = PoolSize), outages |-> k]
      OBVIOUS
    <3>2. /\ j = [loaded |-> j.loaded, stored |-> j.stored, queue |-> j.queue,
                  initialized |-> j.initialized, outages |-> j.outages]
          /\ j.loaded = s.js.loaded /\ j.stored = s.js.stored /\ j.queue = q
          /\ j.initialized <=> n = PoolSize
      BY <3>1
    <3>3. IsQueue(q)
      BY <2>9 DEF IsQueue
    <3>4. Kit(j)
      BY <1>1, <2>10, <2>11, <2>12, <3>2, <3>3 DEF Kit
    <3>5. t.js = j
      BY <2>5, <3>1
    <3> QED BY <3>4, <3>5
  <2>14. Good(t)
    BY <1>0, <2>5, <2>13 DEF Good
  <2>15. ~t.failed => n = PoolSize
    <3>1. n <= PoolSize /\ (~(n < PoolSize) => n = PoolSize)
      BY <2>1, PoolHasSize
    <3>2. PICK short : short = (n < PoolSize)
      OBVIOUS
    <3>3. t.failed = short
      <4>1. PICK a, b : t = [js |-> a, failed |-> short, missing |-> b]
        BY <2>5, <3>2
      <4> HIDE DEF t
      <4> QED BY <4>1
    <3> QED BY <3>1, <3>2, <3>3
  <2> QED BY <2>5, <2>11, <2>14, <2>15
<1> QED BY <1>2, <1>3

\* A component that counts as loaded is on the runtime in hand.
LEMMA RenderGood ==
  ASSUME NEW s, Good(s), NEW c, s.js.queue # <<>>,
         c \in s.js.loaded \/ (c \in Given /\ DevMode)
  PROVE  Good(RenderOn(s, c)) /\ RenderOn(s, c).js = s.js
<1>1. PICK S : s.js.queue \in Seq(SUBSET S)
  BY DEF Good, Kit, IsQueue
<1>2. Head(s.js.queue) = s.js.queue[1] /\ 1 \in 1..Len(s.js.queue)
  <2>1. Len(s.js.queue) \in Nat /\ Len(s.js.queue) # 0
    BY <1>1, EmptySeq, LenProperties
  <2>2. Head(s.js.queue) = s.js.queue[1]
    BY <1>1, HeadTailProperties
  <2> QED BY <2>1, <2>2
<1>3. s.js.loaded \subseteq Head(s.js.queue)
  BY <1>2 DEF Good, Kit
<1>4. s = [js |-> s.js, failed |-> s.failed, missing |-> s.missing] /\ Kit(s.js)
      /\ s.missing \subseteq Bound
  BY DEF Good
<1>5. CASE c \in Head(s.js.queue)
  <2>1. RenderOn(s, c) = [js |-> s.js, failed |-> (Fate[c] = "throws"), missing |-> s.missing]
    BY <1>4, <1>5 DEF RenderOn
  <2> QED BY <1>4, <2>1 DEF Good
<1>6. CASE c \notin Head(s.js.queue)
  <2>1. RenderOn(s, c) = [js |-> s.js, failed |-> TRUE, missing |-> {c}]
    BY <1>4, <1>6 DEF RenderOn
  <2>2. {c} \subseteq Bound
    BY <1>3, <1>6 DEF Bound
  <2> QED BY <1>4, <2>1, <2>2 DEF Good
<1> QED BY <1>5, <1>6

\* A render keeps what has failed or has a runtime in hand so.
Ready(s) == Good(s) /\ (~s.failed => s.js.queue # <<>>)

LEMMA LayoutReady ==
  ASSUME NEW s, Ready(s), NEW l
  PROVE  Ready(RenderLayout(s, l))
<1>1. CASE l = None \/ s.failed
  BY <1>1 DEF RenderLayout
<1>2. CASE ~(l = None \/ s.failed)
  <2>1. PICK t : t = EnsureComponent(s, l)
    OBVIOUS
  <2>2. /\ Good(t) /\ t.js.queue # <<>>
        /\ ~t.failed => l \in t.js.loaded \/ (l \in Given /\ DevMode)
    BY <1>2, <2>1, EnsureGood DEF Ready
  <2>3. CASE t.failed
    BY <1>2, <2>1, <2>2, <2>3 DEF RenderLayout, Ready
  <2>4. CASE ~t.failed
    <3>1. Good(RenderOn(t, l)) /\ RenderOn(t, l).js = t.js
      BY <2>2, <2>4, RenderGood
    <3>2. RenderLayout(s, l) = RenderOn(t, l)
      BY <1>2, <2>1, <2>4 DEF RenderLayout
    <3> QED BY <2>2, <3>1, <3>2 DEF Ready
  <2> QED BY <2>3, <2>4
<1> QED BY <1>1, <1>2

LEMMA ReleaseGood ==
  ASSUME NEW s, Good(s)
  PROVE  Good(Release(s))
<1>0. /\ s = [js |-> s.js, failed |-> s.failed, missing |-> s.missing]
      /\ s.missing \subseteq Bound
      /\ s.js = [loaded |-> s.js.loaded, stored |-> s.js.stored, queue |-> s.js.queue,
                 initialized |-> s.js.initialized, outages |-> s.js.outages]
  BY DEF Good, Kit
<1>1. /\ IsQueue(s.js.queue)
      /\ \A i \in 1..Len(s.js.queue) : s.js.loaded \subseteq s.js.queue[i]
      /\ Pooled => s.js.loaded \subseteq s.js.stored
      /\ ~Pooled => s.js.initialized
      /\ s.js.initialized => s.js.queue # <<>>
      /\ ~DevMode => Given \subseteq s.js.loaded
  BY DEF Good, Kit
<1>2. CASE ~s.js.initialized
  BY <1>2 DEF Release
<1>3. CASE s.js.initialized
  <2>1. PICK S : s.js.queue \in Seq(SUBSET S)
    BY <1>1 DEF IsQueue
  <2>2. PICK old \in Seq(SUBSET S) : old = s.js.queue /\ old # <<>>
    BY <1>1, <1>3, <2>1
  <2>3. PICK h \in SUBSET S, tl \in Seq(SUBSET S) : h = Head(old) /\ tl = Tail(old)
    BY <2>2, HeadTailProperties
  <2>4. PICK n \in Nat : n = Len(tl) /\ Len(old) = n + 1 /\ h = old[1]
                          /\ \A i \in 1..n : tl[i] = old[i + 1]
    <3>1. PICK n \in Nat, k \in Nat : n = Len(tl) /\ k = Len(old) /\ k # 0
      BY <2>2, LenProperties, EmptySeq
    <3>2. n = k - 1 /\ h = old[1] /\ \A i \in 1..n : tl[i] = old[i + 1]
      BY <2>2, <2>3, <3>1, HeadTailProperties
    <3>3. k = n + 1
      BY <3>1, <3>2
    <3> QED BY <3>1, <3>2, <3>3
  <2>5. PICK q : q = Append(tl, h)
    OBVIOUS
  <2>6. q \in Seq(SUBSET S) /\ Len(q) = n + 1 /\ q[n + 1] = h /\ \A i \in 1..n : q[i] = tl[i]
    BY <2>4, <2>5, AppendProperties
  <2>7. \A i \in 1..Len(q) : s.js.loaded \subseteq q[i]
    <3>1. ASSUME NEW i \in 1..(n + 1) PROVE s.js.loaded \subseteq q[i]
      <4>1. CASE i = n + 1
        <5>1. 1 \in 1..(n + 1)
          OBVIOUS
        <5> QED BY <1>1, <2>2, <2>4, <2>6, <4>1, <5>1
      <4>2. CASE i \in 1..n
        <5>1. i + 1 \in 1..(n + 1)
          BY <4>2
        <5> QED BY SMTT(30), <1>1, <2>2, <2>4, <2>6, <4>2, <5>1
      <4>3. i = n + 1 \/ i \in 1..n
        OBVIOUS
      <4> QED BY <4>1, <4>2, <4>3
    <3> QED BY <2>6, <3>1
  <2>8. q # <<>>
    <3>1. n + 1 # 0
      OBVIOUS
    <3> QED BY <2>6, <3>1, EmptySeq
  <2>9. PICK j : j = [loaded |-> s.js.loaded, stored |-> s.js.stored, queue |-> q,
                      initialized |-> s.js.initialized, outages |-> s.js.outages]
    OBVIOUS
  <2>10. Release(s) = [js |-> j, failed |-> s.failed, missing |-> s.missing]
    BY <1>0, <1>3, <2>2, <2>3, <2>5, <2>9 DEF Release
  <2>11. /\ j = [loaded |-> j.loaded, stored |-> j.stored, queue |-> j.queue,
                 initialized |-> j.initialized, outages |-> j.outages]
         /\ j.loaded = s.js.loaded /\ j.stored = s.js.stored /\ j.queue = q
         /\ j.initialized = s.js.initialized
    BY <2>9
  <2>12. Kit(j)
    BY <1>1, <2>6, <2>7, <2>8, <2>11 DEF Kit, IsQueue
  <2> QED BY <1>0, <2>10, <2>12 DEF Good
<1> QED BY <1>2, <1>3

\* A page is rendered on one runtime, through all its layouts (_render_page).
LEMMA ChainGood ==
  ASSUME NEW s, Good(s), NEW c, NEW layouts, NEW made \in 0..PoolSize
  PROVE  Good(RenderChain(s, c, layouts, made))
<1>1. PICK t : t = EnsureComponent(s, c)
  OBVIOUS
<1>2. Good(t) /\ (~t.failed => c \in t.js.loaded \/ (c \in Given /\ DevMode))
  BY <1>1, EnsureGood
<1>3. CASE t.failed
  BY <1>1, <1>2, <1>3 DEF RenderChain
<1>4. CASE ~t.failed
  <2>1. PICK a : a = Acquire(t, made)
    OBVIOUS
  <2>2. Good(a) /\ a.js.loaded = t.js.loaded /\ (~a.failed => a.js.queue # <<>>)
    BY <1>2, <1>4, <2>1, AcquireGood
  <2>3. PICK b : b = RenderBody(t, c, made)
    OBVIOUS
  <2>4. Ready(b)
    <3>1. CASE a.failed
      BY <2>1, <2>2, <2>3, <3>1 DEF RenderBody, Ready
    <3>2. CASE ~a.failed
      <4>1. c \in a.js.loaded \/ (c \in Given /\ DevMode)
        BY <1>2, <1>4, <2>2
      <4>2. Good(RenderOn(a, c)) /\ RenderOn(a, c).js = a.js
        BY <2>2, <3>2, <4>1, RenderGood
      <4>3. b = RenderOn(a, c)
        BY <2>1, <2>3, <3>2 DEF RenderBody
      <4> QED BY <2>2, <3>2, <4>2, <4>3 DEF Ready
    <3> QED BY <3>1, <3>2
  <2>5. Ready(ApplyLayouts(b, layouts))
    BY <2>4, LayoutReady DEF ApplyLayouts
  <2>6. RenderChain(s, c, layouts, made) = Release(ApplyLayouts(b, layouts))
    BY <1>1, <1>4, <2>3 DEF RenderChain
  <2> QED BY <2>5, <2>6, ReleaseGood DEF Ready
<1> QED BY <1>3, <1>4

-----------------------------------------------------------------------------
(* Requests *)

\* A request under way, which has missed nothing that it may not.
Sound(q) ==
  /\ "missing" \in DOMAIN q /\ "route" \in DOMAIN q
  /\ q.missing \subseteq Bound
  /\ q.route \in Routes

\* What a handler has made of a request.
Settled(a) == Sound(a.q) /\ Kit(a.js)

LEMMA ReplySound ==
  ASSUME NEW q, Sound(q), NEW status, NEW body
  PROVE  /\ Sound(Reply(q, status, body))
         /\ Sound(ReplyBare(q, status))
         /\ \A m : m \subseteq Bound => Sound([Reply(q, status, body) EXCEPT !.missing = m])
         /\ Sound([Reply(q, status, body) EXCEPT !.cached = TRUE])
BY DEF Sound, Reply, ReplyBare

\* The middleware changes the session of a request and how it goes on.
LEMMA EnterSound ==
  ASSUME NEW q, Sound(q), NEW r, NEW cookie
  PROVE  Sound(Checked(q)) /\ Sound(Enter(q, r, cookie))
<1>1. ASSUME NEW p, Sound(p) PROVE Sound(Checked(p))
  <2>1. Sound(Refused(p))
    BY <1>1, ReplySound DEF Refused
  <2>2. Sound([p EXCEPT !.at = "loader"])
    BY <1>1 DEF Sound
  <2> QED BY <2>1, <2>2 DEF Checked
<1>2. PICK p : p = [q EXCEPT !.session = IF Uses("sessions") THEN cookie ELSE Empty]
  OBVIOUS
<1>3. PICK e : e = IF Outside("sessions", "csrf") /\ ~HasToken(p) THEN MintToken(p, r) ELSE p
  OBVIOUS
<1>4. Sound(p)
  BY <1>2 DEF Sound
<1>5. Sound(e)
  <2>1. Sound(MintToken(p, r))
    BY <1>4 DEF Sound, MintToken
  <2> QED BY <1>3, <1>4, <2>1
<1>6. Sound([e EXCEPT !.at = "loader"]) /\ Sound([e EXCEPT !.at = "body"]) /\ Sound(Checked(e))
  <2>1. Sound([e EXCEPT !.at = "loader"]) /\ Sound([e EXCEPT !.at = "body"])
    BY <1>5 DEF Sound
  <2> QED BY <1>1, <1>5, <2>1
<1>7. \/ Enter(q, r, cookie) = [e EXCEPT !.at = "loader"]
      \/ Enter(q, r, cookie) = [e EXCEPT !.at = "body"]
      \/ Enter(q, r, cookie) = Checked(e)
  BY <1>2, <1>3 DEF Enter
<1> QED BY <1>1, <1>6, <1>7

\* So do the calls of a loader or action.
LEMMA DoSound ==
  ASSUME NEW q, Sound(q), NEW r, NEW op \in HandlerCalls
  PROVE  Sound(Do(q, r, op)) /\ Sound([q EXCEPT !.raised = TRUE])
<1>1. Sound([q EXCEPT !.raised = TRUE]) /\ Sound([q EXCEPT !.redirects = TRUE])
  BY DEF Sound
<1>2. Sound(Flash(q, r))
  BY DEF Sound, Flash
<1>3. Sound(PopFlash(q))
  BY DEF Sound, PopFlash
<1>4. op[1] \in {"flash", "show", "redirect", "raise", "island"}
  BY DEF HandlerCalls
<1>5. \/ Do(q, r, op) = Flash(q, r) \/ Do(q, r, op) = PopFlash(q) \/ Do(q, r, op) = q
      \/ Do(q, r, op) = [q EXCEPT !.redirects = TRUE]
      \/ Do(q, r, op) = [q EXCEPT !.raised = TRUE]
  BY <1>4 DEF Do
<1> QED BY <1>1, <1>2, <1>3, <1>5

-----------------------------------------------------------------------------
(* Handlers *)

LEMMA AnswerSettled ==
  ASSUME NEW q, Sound(q), NEW s, Good(s), NEW status, NEW body
  PROVE  Settled(Answer(q, status, body, s))
BY ReplySound DEF Answer, Settled, Good

LEMMA ErrorSettled ==
  ASSUME NEW q, Sound(q), NEW s, Good(s), NEW made \in 0..PoolSize
  PROVE  Settled(Error(q, s, made))
<1>1. PICK f : f = [s EXCEPT !.failed = FALSE]
  OBVIOUS
<1>2. f = [js |-> s.js, failed |-> FALSE, missing |-> s.missing]
  BY <1>1 DEF Good
<1>3. Good(f)
  BY <1>2 DEF Good
<1>4. PICK e : e = RenderChain(f, ErrorComponent, NoLayouts, made)
  OBVIOUS
<1>5. Good(e)
  BY <1>3, <1>4, ChainGood
<1>6. PICK a : a = Answer(q, "500", NoBody, e)
  OBVIOUS
<1>7. Settled(a) /\ Settled(Answer(q, "500", NoBody, s))
  BY <1>5, <1>6, AnswerSettled
<1>8. Settled([a EXCEPT !.q.sets = FALSE])
  <2>1. PICK p, j, body : a = [q |-> p, js |-> j, body |-> body]
    BY <1>6 DEF Answer
  <2>2. Sound(p) /\ Kit(j)
    BY <1>7, <2>1 DEF Settled
  <2>3. PICK p2 : p2 = [p EXCEPT !.sets = FALSE]
    OBVIOUS
  <2>4. Sound(p2)
    BY <2>2, <2>3 DEF Sound
  <2>5. [a EXCEPT !.q.sets = FALSE] = [q |-> p2, js |-> j, body |-> body]
    <3>1. [a EXCEPT !.q.sets = FALSE] = [a EXCEPT !.q = [a.q EXCEPT !.sets = FALSE]]
      OBVIOUS
    <3>2. a.q = p
      BY <2>1
    <3>3. [a EXCEPT !.q = p2] = [q |-> p2, js |-> j, body |-> body]
      BY <2>1
    <3> QED BY <2>3, <3>1, <3>2, <3>3
  <2> QED BY <2>2, <2>4, <2>5 DEF Settled
<1>9. \/ Error(q, s, made) = Answer(q, "500", NoBody, s)
      \/ Error(q, s, made) = a
      \/ Error(q, s, made) = [a EXCEPT !.q.sets = FALSE]
  BY <1>1, <1>4, <1>6 DEF Error
<1> QED BY <1>7, <1>8, <1>9

LEMMA RenderSettled ==
  ASSUME NEW q, Sound(q), NEW s, Good(s), NEW made \in 0..PoolSize
  PROVE  Settled(RenderPage(q, s, made)) /\ Settled(RenderPageStreaming(q, s, made))
<1>1. PICK t : t = RenderRoute(q, s, made)
  OBVIOUS
<1>2. Good(t)
  BY <1>1, ChainGood DEF RenderRoute
<1>3. /\ Settled(Answer(q, "200", Page(q), t)) /\ Settled(Answer(q, "500", Overlay, t))
      /\ Settled(Error(q, t, made))
  BY <1>2, AnswerSettled, ErrorSettled
<1>4. \/ RenderPage(q, s, made) = Answer(q, "200", Page(q), t)
      \/ RenderPage(q, s, made) = Answer(q, "500", Overlay, t)
      \/ RenderPage(q, s, made) = Error(q, t, made)
  BY <1>1 DEF RenderPage
<1>5. \/ RenderPageStreaming(q, s, made) = Answer(q, "200", Page(q), t)
      \/ RenderPageStreaming(q, s, made) = Error(q, t, made)
  BY <1>1 DEF RenderPageStreaming
<1> QED BY <1>3, <1>4, <1>5

LEMMA HandleSettled ==
  ASSUME NEW q, Sound(q), NEW s, Good(s), NEW made \in 0..PoolSize
  PROVE  Settled(Handle(q, s, made))
<1>1. \A status, body : Settled(Answer(q, status, body, s))
  BY AnswerSettled
<1>2. Settled(HandlePage(q, s, made))
  BY <1>1, RenderSettled DEF HandlePage
<1>3. Settled(HandleAction(q, s, made))
  BY <1>1, RenderSettled DEF HandleAction
<1>4. Settled(HandleApi(q, s))
  BY <1>1 DEF HandleApi
<1>5. Settled(Error(q, s, made))
  BY ErrorSettled
<1> QED BY <1>2, <1>3, <1>4, <1>5 DEF Handle

LEMMA NotFoundSettled ==
  ASSUME NEW q, Sound(q), Kit(js), NEW made \in 0..PoolSize
  PROVE  Settled(Handle404(q, made))
<1>1. Good(Start)
  BY DEF Good, Start
<1>2. PICK s : s = RenderChain(Start, NotFound, [NoLayouts EXCEPT !.global = GlobalLayout], made)
  OBVIOUS
<1>3. Good(s)
  BY <1>1, <1>2, ChainGood
<1>4. /\ Settled(Answer(q, "404", NoBody, Start)) /\ Settled(Error(q, s, made))
      /\ Settled(Answer(q, "404", [NoBody EXCEPT !.kind = "page"], s))
  BY <1>1, <1>3, AnswerSettled, ErrorSettled
<1> QED BY <1>2, <1>4 DEF Handle404

-----------------------------------------------------------------------------
(* The calls of a loader or action, one after the other *)

Begun(r) == [q |-> req[r], s |-> Start]

\* The function that the fold of Calls is defined by, up to n, from t0.
FoldOf(ops, r, made, t0, n, f) ==
  f = [T \in SUBSET (1..n) |->
         IF T = {} THEN t0 ELSE Call(f[T \ {Max(T)}], r, ops[Max(T)], made)]

\* There is such a function.
LEMMA FoldExists ==
  ASSUME NEW ops, NEW r, NEW made, NEW t0
  PROVE  \A n \in Nat : \E f : FoldOf(ops, r, made, t0, n, f)
<1> DEFINE N == {n \in Nat : \E f : FoldOf(ops, r, made, t0, n, f)}
<1>1. 0 \in N
  <2>1. FoldOf(ops, r, made, t0, 0, [T \in SUBSET (1..0) |-> t0])
    BY DEF FoldOf
  <2> QED BY <2>1
<1>2. ASSUME NEW n \in N PROVE n + 1 \in N
  <2>1. PICK f : FoldOf(ops, r, made, t0, n, f)
    OBVIOUS
  <2>2. n \in Nat
    OBVIOUS
  <2> DEFINE g == [T \in SUBSET (1..(n + 1)) |->
                     IF n + 1 \notin T THEN f[T] ELSE Call(f[T \ {n + 1}], r, ops[n + 1], made)]
  <2>3. ASSUME NEW T \in SUBSET (1..(n + 1))
        PROVE  g[T] = IF T = {} THEN t0 ELSE Call(g[T \ {Max(T)}], r, ops[Max(T)], made)
    <3>1. CASE n + 1 \in T
      <4>1. Max(T) = n + 1
        BY <2>2, <3>1, MaxOfRange
      <4>2. T \ {n + 1} \in SUBSET (1..(n + 1)) /\ n + 1 \notin T \ {n + 1}
        OBVIOUS
      <4>3. g[T \ {n + 1}] = f[T \ {n + 1}]
        BY <4>2
      <4>4. g[T] = Call(f[T \ {n + 1}], r, ops[n + 1], made)
        BY <3>1
      <4> QED BY <3>1, <4>1, <4>3, <4>4
    <3>2. CASE n + 1 \notin T
      <4>1. T \in SUBSET (1..n) /\ g[T] = f[T]
        BY <2>2, <3>2
      <4>2. f[T] = IF T = {} THEN t0 ELSE Call(f[T \ {Max(T)}], r, ops[Max(T)], made)
        BY <2>1, <4>1 DEF FoldOf
      <4>3. g[T \ {Max(T)}] = f[T \ {Max(T)}]
        BY <3>2
      <4> QED BY <4>1, <4>2, <4>3
    <3> QED BY <3>1, <3>2
  <2>4. g = [T \in SUBSET (1..(n + 1)) |->
               IF T = {} THEN t0 ELSE Call(g[T \ {Max(T)}], r, ops[Max(T)], made)]
    <3>1. g = [T \in SUBSET (1..(n + 1)) |-> g[T]]
      OBVIOUS
    <3> HIDE DEF g
    <3> QED BY <2>3, <3>1
  <2>5. FoldOf(ops, r, made, t0, n + 1, g)
    BY <2>4 DEF FoldOf
  <2> QED BY <2>2, <2>5
<1> HIDE DEF N
<1>3. N = Nat
  BY <1>1, <1>2, AllNumbers DEF N
<1> QED BY <1>3 DEF N

\* Call after call, as long as there are some.
LEMMA CallsInTurn ==
  ASSUME NEW r, NEW S, NEW ops \in Seq(S), NEW made
  PROVE  \E f : /\ f[0] = Begun(r) /\ Calls(r, ops, made) = f[Len(ops)]
               /\ \A i \in 1..Len(ops) : f[i] = Call(f[i - 1], r, ops[i], made)
<1>0. PICK t0 : t0 = Begun(r)
  OBVIOUS
<1> DEFINE g == CHOOSE f : FoldOf(ops, r, made, t0, Len(ops), f)
<1>1. PICK n \in Nat : n = Len(ops) /\ DOMAIN ops = 1..n
  BY LenProperties
<1>2. FoldOf(ops, r, made, t0, n, g)
  BY <1>1, FoldExists
<1>3. Calls(r, ops, made) = g[1..n]
  BY <1>0, <1>1 DEF Calls, Begun, FoldLeft, MapThenFoldSet, FoldOf
<1> HIDE DEF g
<1> DEFINE f == [i \in 0..n |-> g[1..i]]
<1>4. f[0] = t0
  <2>1. 1..0 = {}
    OBVIOUS
  <2>2. g[{}] = t0
    BY <1>2 DEF FoldOf
  <2>3. f[0] = g[1..0]
    OBVIOUS
  <2> QED BY <2>1, <2>2, <2>3
<1>5. ASSUME NEW i \in 1..n PROVE f[i] = Call(f[i - 1], r, ops[i], made)
  <2>1. /\ 1..i \in SUBSET (1..n) /\ i \in 1..i /\ (1..i) \ {i} = 1..(i - 1)
        /\ i \in Nat /\ i - 1 \in 0..n /\ i \in 0..n
    OBVIOUS
  <2>2. Max(1..i) = i
    BY <2>1, MaxOfRange
  <2>3. 1..i # {}
    BY <2>1
  <2>4. g[1..i] = Call(g[1..(i - 1)], r, ops[i], made)
    BY <1>2, <2>1, <2>2, <2>3 DEF FoldOf
  <2> QED BY <2>1, <2>4
<1>6. f[n] = g[1..n]
  <2>1. n \in 0..n
    OBVIOUS
  <2> QED BY <2>1
<1> HIDE DEF f
<1> QED BY <1>0, <1>1, <1>3, <1>4, <1>5, <1>6

\* A request and the runtimes, between two calls.
Between(t) == Sound(t.q) /\ Good(t.s)

LEMMA CallBetween ==
  ASSUME NEW t, Between(t), NEW r, NEW op \in HandlerCalls, NEW made \in 0..PoolSize
  PROVE  Between(Call(t, r, op, made))
<1>1. PICK s : s = CallRender(t.s, op, made)
  OBVIOUS
<1>2. Good(s)
  BY <1>1, ChainGood DEF Between, CallRender
<1>3. Sound(Do(t.q, r, op)) /\ Sound([t.q EXCEPT !.raised = TRUE])
  BY DoSound DEF Between
<1>4. PICK p : p = IF s.failed THEN [t.q EXCEPT !.raised = TRUE] ELSE Do(t.q, r, op)
  OBVIOUS
<1>5. Call(t, r, op, made) = IF t.q.raised THEN t ELSE [q |-> p, s |-> s]
  BY <1>1, <1>4 DEF Call
<1> QED BY <1>2, <1>3, <1>4, <1>5 DEF Between

LEMMA CallsBetween ==
  ASSUME Kit(js), NEW r, Sound(req[r]), NEW ops \in Seq(HandlerCalls), NEW made \in 0..PoolSize
  PROVE  Between(Calls(r, ops, made))
<1>1. PICK n \in Nat : n = Len(ops)
  BY LenProperties
<1>2. PICK f : /\ f[0] = Begun(r) /\ Calls(r, ops, made) = f[n]
               /\ \A i \in 1..n : f[i] = Call(f[i - 1], r, ops[i], made)
  BY SMTT(30), <1>1, CallsInTurn
<1> DEFINE N == {i \in Nat : i <= n => Between(f[i])}
<1>3. 0 \in N
  <2>1. Good(Start)
    BY DEF Good, Start
  <2>2. Between(Begun(r))
    BY <2>1 DEF Begun, Between
  <2> QED BY <1>2, <2>2
<1>4. ASSUME NEW i \in N PROVE i + 1 \in N
  <2>1. CASE i + 1 <= n
    <3>1. i + 1 \in 1..n /\ (i + 1) - 1 = i /\ i <= n
      BY <2>1
    <3>2. ops[i + 1] \in HandlerCalls
      BY <1>1, <3>1, ElementOfSeq
    <3>3. f[i + 1] = Call(f[i], r, ops[i + 1], made)
      BY <1>2, <3>1
    <3>4. Between(f[i])
      BY <3>1
    <3>5. Between(f[i + 1])
      BY <3>2, <3>3, <3>4, CallBetween
    <3> QED BY <3>5
  <2> QED BY <2>1
<1>5. N = Nat
  <2> HIDE DEF N
  <2> QED BY <1>3, <1>4, AllNumbers DEF N
<1> QED BY <1>2, <1>5

-----------------------------------------------------------------------------
(* Steps *)

MissingInv ==
  /\ Kit(js)
  /\ req = [r \in AllRequests |-> req[r]]
  /\ \A r \in AllRequests :
       /\ "missing" \in DOMAIN req[r] /\ req[r].missing \subseteq Bound
       /\ req[r].at \notin {"unsent", "done"} => Sound(req[r])

\* A request becomes another that has missed nothing either.
LEMMA OneRequest ==
  ASSUME MissingInv, NEW r \in AllRequests, NEW q, req' = [req EXCEPT ![r] = q], Kit(js)',
         "missing" \in DOMAIN q, q.missing \subseteq Bound, q.at = "done" \/ Sound(q)
  PROVE  MissingInv'
<1>1. req' = [p \in AllRequests |-> IF p = r THEN q ELSE req[p]]
  BY DEF MissingInv
<1>2. req' = [p \in AllRequests |-> req'[p]]
  BY <1>1
<1>3. ASSUME NEW p \in AllRequests
      PROVE  /\ "missing" \in DOMAIN req'[p] /\ req'[p].missing \subseteq Bound
             /\ req'[p].at \notin {"unsent", "done"} => Sound(req'[p])
  <2>1. CASE p = r
    BY <1>1, <2>1
  <2>2. CASE p # r
    BY <1>1, <2>2 DEF MissingInv
  <2> QED BY <2>1, <2>2
<1> QED BY <1>2, <1>3 DEF MissingInv, Sound, Bound

LEMMA MadeBound == MayMake \subseteq 0..PoolSize
BY PoolHasSize DEF MayMake

LEMMA DispatchSound ==
  ASSUME MissingInv, NEW r \in AllRequests, NEW q, Sound(q), Dispatch(r, q)
  PROVE  MissingInv'
<1>1. CASE req' = [req EXCEPT ![r] = q] /\ UNCHANGED js
  BY <1>1, OneRequest DEF MissingInv, Sound, Kit
<1>2. ASSUME NEW made \in MayMake,
             req' = [req EXCEPT ![r] = Handle404(q, made).q], js' = Handle404(q, made).js
      PROVE  MissingInv'
  <2>1. PICK a : a = Handle404(q, made)
    OBVIOUS
  <2>2. Settled(a)
    BY <2>1, MadeBound, NotFoundSettled DEF MissingInv
  <2>3. Kit(js)'
    BY <1>2, <2>1, <2>2 DEF Settled, Kit
  <2> QED BY <1>2, <2>1, <2>2, <2>3, OneRequest DEF Settled, Sound
<1>3. ASSUME NEW body, req' = [req EXCEPT ![r] = FromCache(q, body)], UNCHANGED js
      PROVE  MissingInv'
  <2>1. PICK p : p = FromCache(q, body)
    OBVIOUS
  <2>2. Sound(p)
    BY <2>1, ReplySound DEF FromCache
  <2> QED BY <1>3, <2>1, <2>2, OneRequest DEF MissingInv, Sound, Kit
<1>4. ASSUME NEW i \in EntryOf(q.route), NEW expired \in BOOLEAN, UNCHANGED js,
             req' = [req EXCEPT ![r] = IF expired THEN q ELSE FromCache(q, cache[i].body)]
      PROVE  MissingInv'
  BY <1>1, <1>3, <1>4
<1> QED BY <1>1, <1>2, <1>4 DEF Dispatch

LEMMA MissingStep == MissingInv /\ [Next]_vars => MissingInv'
<1> SUFFICES ASSUME MissingInv, [Next]_vars PROVE MissingInv'
  OBVIOUS
<1>0. ASSUME UNCHANGED req, Kit(js)' PROVE MissingInv'
  BY <1>0 DEF MissingInv, Sound, Bound
<1>1. ASSUME NEW b \in Browsers, NEW r \in AllRequests, NEW route \in Routes,
             NEW from \in tabs[b] \cup {NoPage}, Request(b, r, route, from)
      PROVE  MissingInv'
  <2>1. PICK q : q = [Unsent EXCEPT !.at = "new", !.b = b, !.route = route, !.from = from,
                                    !.etag = copy[b][route], !.life = life[b]]
    OBVIOUS
  <2>3. Sound(q)
    BY <2>1 DEF Unsent, Sound
  <2>4. PICK e : e = Enter(q, r, jar[b])
    OBVIOUS
  <2>5. Sound(e)
    BY <2>3, <2>4, EnterSound
  <2>6. Dispatch(r, e)
    BY <1>1, <2>1, <2>4 DEF Request
  <2> QED BY <2>5, <2>6, DispatchSound
<1>2. ASSUME NEW r \in AllRequests, ReadBody(r) PROVE MissingInv'
  <2>1. Sound(Checked(req[r]))
    BY <1>2, EnterSound DEF ReadBody, MissingInv
  <2> QED BY <1>2, <2>1, DispatchSound DEF ReadBody
<1>3. ASSUME NEW r \in AllRequests, Resume(r) PROVE MissingInv'
  <2>1. Sound(req[r])
    BY <1>3 DEF Resume, MissingInv
  <2>2. PICK ops \in Behaviours[req[r].route], made \in MayMake :
          LET t == Calls(r, ops, made)
              done == Handle(t.q, t.s, made)
          IN req' = [req EXCEPT ![r] = done.q] /\ js' = done.js
    BY <1>3 DEF Resume
  <2>3. ops \in Seq(HandlerCalls) /\ made \in 0..PoolSize
    BY <2>1, WebAssumption, MadeBound DEF Sound
  <2>4. PICK t : t = Calls(r, ops, made)
    OBVIOUS
  <2>5. Between(t)
    BY <2>1, <2>3, <2>4, CallsBetween DEF MissingInv
  <2>6. PICK done : done = Handle(t.q, t.s, made)
    OBVIOUS
  <2>7. Settled(done)
    BY <2>3, <2>5, <2>6, HandleSettled DEF Between
  <2>8. req' = [req EXCEPT ![r] = done.q] /\ js' = done.js
    BY <2>2, <2>4, <2>6
  <2>9. Kit(js)'
    BY <2>7, <2>8 DEF Settled, Kit
  <2> QED BY <2>7, <2>8, <2>9, OneRequest DEF Settled, Sound
<1>4. ASSUME NEW r \in AllRequests, Receive(r) PROVE MissingInv'
  <2>1. PICK q : q = Answered(req[r])
    OBVIOUS
  <2>2. Sound(req[r])
    BY <1>4 DEF Receive, MissingInv
  <2>3. "missing" \in DOMAIN q /\ q.missing = req[r].missing /\ q.at = "done"
    BY <2>1 DEF Answered, Unsent
  <2> QED BY <1>4, <2>1, <2>2, <2>3, OneRequest DEF Receive, Sound, MissingInv, Kit
<1>5. ASSUME NEW b \in Browsers, Expire(b) PROVE MissingInv'
  BY <1>0, <1>5 DEF Expire, MissingInv, Kit
<1>6. CASE Change
  <2>1. PICK S : js.queue \in Seq(SUBSET S)
    BY DEF MissingInv, Kit, IsQueue
  <2>2. PICK n \in Nat : n = Len(js.queue) /\ DOMAIN js.queue = 1..n
    BY <2>1, LenProperties
  <2>3. PICK q : q = [i \in 1..n |-> {}]
    OBVIOUS
  <2>4. q \in Seq(SUBSET S) /\ Len(q) = n
    <3>1. \A i \in 1..n : {} \in SUBSET S
      OBVIOUS
    <3>2. [i \in 1..n |-> {}] \in Seq(SUBSET S)
      BY <3>1, IsASeq
    <3>3. DOMAIN q = 1..n
      BY <2>3
    <3> QED BY <2>3, <3>2, <3>3, LenProperties
  <2>5. js.queue # <<>> => q # <<>>
    <3>1. js.queue # <<>> => n # 0
      BY <2>1, <2>2, EmptySeq
    <3> QED BY <2>4, <3>1, EmptySeq
  <2>6. js' = [loaded |-> {}, stored |-> {}, queue |-> q,
               initialized |-> js.initialized, outages |-> js.outages]
    BY <1>6, <2>2, <2>3 DEF Change, Forget, MissingInv, Kit
  <2>7. DevMode
    BY <1>6 DEF Change
  <2>8. Kit(js)'
    BY <2>4, <2>5, <2>6, <2>7 DEF MissingInv, Kit, IsQueue
  <2> QED BY <1>0, <1>6, <2>8 DEF Change
<1>7. CASE Finished \/ UNCHANGED vars
  BY <1>0, <1>7 DEF Finished, vars, MissingInv, Kit
<1> QED BY <1>1, <1>2, <1>3, <1>4, <1>5, <1>6, <1>7 DEF Next

LEMMA MissingInit == Init => MissingInv
<1> SUFFICES ASSUME Init PROVE MissingInv
  OBVIOUS
<1>1. PICK q : q = IF Pooled THEN <<>> ELSE <<Given>>
  OBVIOUS
<1>2. q \in Seq(SUBSET Given) /\ (~Pooled => q # <<>>) /\ \A i \in 1..Len(q) : q[i] = Given
  <2>1. CASE Pooled
    BY <1>1, <2>1, EmptySeq
  <2>2. CASE ~Pooled
    <3>1. PICK u : u = Given
      OBVIOUS
    <3>2. <<u>> \in Seq(SUBSET u) /\ Len(<<u>>) = 1 /\ <<u>>[1] = u /\ <<u>> # <<>>
      OBVIOUS
    <3>3. \A i \in 1..1 : i = 1
      OBVIOUS
    <3> QED BY <1>1, <2>2, <3>1, <3>2, <3>3
  <2> QED BY <2>1, <2>2
<1>3. js = [loaded |-> Given, stored |-> IF Pooled THEN Given ELSE {},
            queue |-> q, initialized |-> ~Pooled, outages |-> 0]
  BY <1>1 DEF Init
<1>4. Kit(js)
  BY <1>2, <1>3 DEF Kit, IsQueue
<1>5. Unsent.missing = {} /\ "missing" \in DOMAIN Unsent /\ Unsent.at = "unsent"
  BY DEF Unsent
<1> QED BY <1>4, <1>5 DEF Init, MissingInv

\* A render finds every component it needs on the runtime that comes out of the
\* pool, whatever edits, first requests and failed initialisations fall
\* between; but for a component given as source, which an edit forgets
\* (_ensure_component, RuntimePool, _invalidate_components).
THEOREM ComponentsAreThere == Spec => []NeverMissing
<1>1. Init => MissingInv
  BY MissingInit
<1>2. MissingInv => NeverMissing
  BY DEF MissingInv, NeverMissing, Bound
<1> QED BY <1>1, <1>2, MissingStep, PTL DEF Spec
-----------------------------------------------------------------------------
(* Tokens *)

IsSession(x) == x = [token |-> x.token, flash |-> x.flash]

\* What holds of a request under way of a browser with cookie j, in life l.
Fit(q, j, l, raced) ==
  /\ DOMAIN q = DOMAIN Unsent
  /\ q.at \in {"body", "loader", "replied"}
  /\ q.at # "replied" => q.status = "none"
  /\ IsSession(q.session) /\ q.session.token # None
  /\ q.life \in Nat /\ q.life <= l
  /\ q.life = l /\ ~q.modified => j # Empty
  /\ ~raced /\ j # Empty => q.session.token = j.token
  /\ q.status = "403" /\ q.from.own /\ q.from.life = q.life => raced
  /\ q.at = "body" /\ q.from.own /\ q.from.life = q.life /\ ~raced
       => q.from.token = q.session.token
  /\ q.at = "replied" /\ ~q.cached =>
       /\ q.status # "304"
       /\ q.body.token # None => /\ q.body.token = q.session.token
                                 /\ q.modified => q.sets

Raced(b) == overlap[b] = "raced"

\* The cookie of a browser, the pages it shows and its requests under way have
\* one token, until it races.
BrowserInv(b) ==
  /\ IsSession(jar[b])
  /\ jar[b] # Empty => jar[b].token # None
  /\ life[b] \in Nat
  /\ \A page \in tabs[b] : /\ page.life \in Nat /\ page.life <= life[b]
                           /\ ~Raced(b) /\ page.own /\ page.life = life[b]
                                => jar[b] # Empty /\ page.token = jar[b].token
  /\ \A r \in Flying(b) : Fit(req[r], jar[b], life[b], Raced(b))
  /\ ~Raced(b) => \A r, p \in Flying(b) : req[r].session.token = req[p].session.token

TokenInv ==
  /\ jar = [b \in Browsers |-> jar[b]] /\ tabs = [b \in Browsers |-> tabs[b]]
  /\ life = [b \in Browsers |-> life[b]] /\ overlap = [b \in Browsers |-> overlap[b]]
  /\ req = [r \in AllRequests |-> req[r]]
  /\ \A b \in Browsers : BrowserInv(b)
  /\ \A r \in AllRequests :
       /\ req[r].at \notin {"unsent", "done"} => req[r].b \in Browsers
       /\ req[r].status = "403" /\ req[r].from.own /\ req[r].from.life = req[r].life
            => req[r].b \in Browsers /\ Raced(req[r].b)

LEMMA RequestsAreNumbers == \A r \in AllRequests : r # None
BY WebAssumption DEF AllRequests, None

\* The parts of a request that the token depends on stay as they are.
Keeps(q, p) ==
  /\ DOMAIN p = DOMAIN Unsent
  /\ p.b = q.b /\ p.life = q.life /\ p.from = q.from
  /\ IsSession(p.session) /\ p.session.token = q.session.token
  /\ q.modified => p.modified

Formed(q) == DOMAIN q = DOMAIN Unsent /\ IsSession(q.session)

\* An answer whose page has the token of the session, and that sets the cookie
\* of a session that has changed, unless it is an error's.
Honest(p) ==
  /\ p.at = "replied" /\ p.status \notin {"403", "304"}
  /\ p.body.token # None => p.body.token = p.session.token
  /\ p.modified /\ Uses("sessions") /\ (p.status # "500" \/ p.body.token # None) => p.sets

\* An answer leaves the session and what was done with it as they are.
Delivers(q, p) ==
  /\ p.session = q.session /\ p.popped = q.popped /\ p.flashed = q.flashed
  /\ p.onto = q.onto /\ p.modified = q.modified

Protected == Outside("sessions", "csrf")

LEMMA ProtectedUses == Protected => Uses("sessions") /\ Uses("csrf")
BY DEF Protected, Outside, Uses

\* What a handler answers is honest.
Honestly(q, p) == Keeps(q, p) /\ Delivers(q, p) /\ Honest(p)

LEMMA ReplyHonest ==
  ASSUME NEW q, Formed(q), NEW status, status \notin {"403", "304"}, NEW body,
         body.token = None \/ body.token = q.session.token, NEW s
  PROVE  Honestly(q, Answer(q, status, body, s).q)
<1>2. PICK p : p = [Reply(q, status, body) EXCEPT !.missing = s.missing]
  OBVIOUS
<1>3. /\ DOMAIN p = DOMAIN Unsent /\ p.b = q.b /\ p.life = q.life /\ p.from = q.from
      /\ p.session = q.session /\ p.modified = q.modified /\ p.at = "replied"
      /\ p.status = status /\ p.body = body /\ p.popped = q.popped
      /\ p.flashed = q.flashed /\ p.onto = q.onto
  BY <1>2 DEF Reply, Formed, Unsent
<1>4. p.modified /\ Uses("sessions") => p.sets
  BY <1>2 DEF Reply, Formed, Unsent
<1>5. Answer(q, status, body, s).q = p
  BY <1>2 DEF Answer
<1> QED BY <1>3, <1>4, <1>5 DEF Honestly, Keeps, Delivers, Honest, Formed

LEMMA ErrorHonest ==
  ASSUME NEW q, Formed(q), NEW s, NEW made
  PROVE  Honestly(q, Error(q, s, made).q)
<1>1. \A e : Honestly(q, Answer(q, "500", NoBody, e).q)
  <2>1. NoBody.token = None
    BY DEF NoBody
  <2> QED BY <2>1, ReplyHonest
<1>2. ASSUME NEW e PROVE Honestly(q, [Answer(q, "500", NoBody, e) EXCEPT !.q.sets = FALSE].q)
  <2>1. PICK p : p = Answer(q, "500", NoBody, e).q
    OBVIOUS
  <2>2. PICK j, body : Answer(q, "500", NoBody, e) = [q |-> p, js |-> j, body |-> body]
    BY <2>1 DEF Answer
  <2>3. PICK p2 : p2 = [p EXCEPT !.sets = FALSE]
    OBVIOUS
  <2>4. [Answer(q, "500", NoBody, e) EXCEPT !.q.sets = FALSE].q = p2
    <3>1. PICK a : a = [q |-> p, js |-> j, body |-> body]
      OBVIOUS
    <3>2. [a EXCEPT !.q.sets = FALSE] = [a EXCEPT !.q = [a.q EXCEPT !.sets = FALSE]]
      OBVIOUS
    <3>3. a.q = p /\ [a EXCEPT !.q = p2].q = p2
      BY <3>1
    <3> QED BY <2>2, <2>3, <3>1, <3>2, <3>3
  <2>5. Honestly(q, p)
    BY <1>1, <2>1
  <2>6. p.body = NoBody
    BY <2>1 DEF Answer, Reply, Formed, Unsent
  <2>8. p.status = "500"
    BY <2>1 DEF Answer, Reply, Formed, Unsent
  <2>7. /\ DOMAIN p2 = DOMAIN p /\ p2.b = p.b /\ p2.life = p.life /\ p2.from = p.from
        /\ p2.session = p.session /\ p2.modified = p.modified /\ p2.at = p.at
        /\ p2.status = "500" /\ p2.body.token = None /\ p2.popped = p.popped
        /\ p2.flashed = p.flashed /\ p2.onto = p.onto
    BY <2>3, <2>5, <2>6, <2>8 DEF Honestly, Keeps, Unsent, NoBody
  <2> QED BY <2>4, <2>5, <2>7 DEF Honestly, Keeps, Delivers, Honest
<1>3. PICK e : e = RenderChain([s EXCEPT !.failed = FALSE], ErrorComponent, NoLayouts, made)
  OBVIOUS
<1>4. \/ Error(q, s, made) = Answer(q, "500", NoBody, s)
      \/ Error(q, s, made) = Answer(q, "500", NoBody, e)
      \/ Error(q, s, made) = [Answer(q, "500", NoBody, e) EXCEPT !.q.sets = FALSE]
  BY <1>3 DEF Error
<1> QED BY <1>1, <1>2, <1>4

LEMMA HandleHonest ==
  ASSUME NEW q, Formed(q), NEW s, NEW made
  PROVE  Honestly(q, Handle(q, s, made).q)
<1>1. NoBody.token = None /\ Overlay.token = None /\ Page(q).token \in {None, q.session.token}
  BY DEF NoBody, Overlay, Page, PageToken
<1>2. \A u : \A status \in {"200", "302"} : Honestly(q, Answer(q, status, NoBody, u).q)
  BY <1>1, ReplyHonest
<1>3. ASSUME NEW u PROVE /\ Honestly(q, RenderPage(q, u, made).q)
                         /\ Honestly(q, RenderPageStreaming(q, u, made).q)
  <2>1. PICK t : t = RenderRoute(q, u, made)
    OBVIOUS
  <2>2. /\ Honestly(q, Answer(q, "200", Page(q), t).q)
        /\ Honestly(q, Answer(q, "500", Overlay, t).q)
        /\ Honestly(q, Error(q, t, made).q)
    BY <1>1, ReplyHonest, ErrorHonest
  <2>3. \/ RenderPage(q, u, made) = Answer(q, "200", Page(q), t)
        \/ RenderPage(q, u, made) = Answer(q, "500", Overlay, t)
        \/ RenderPage(q, u, made) = Error(q, t, made)
    BY <2>1 DEF RenderPage
  <2>4. \/ RenderPageStreaming(q, u, made) = Answer(q, "200", Page(q), t)
        \/ RenderPageStreaming(q, u, made) = Error(q, t, made)
    BY <2>1 DEF RenderPageStreaming
  <2> QED BY <2>2, <2>3, <2>4
<1>4. Honestly(q, HandlePage(q, s, made).q)
  BY <1>2, <1>3 DEF HandlePage
<1>5. Honestly(q, HandleAction(q, s, made).q)
  BY <1>2, <1>3 DEF HandleAction
<1>6. Honestly(q, HandleApi(q, s).q)
  BY <1>2 DEF HandleApi
<1>7. Honestly(q, Error(q, s, made).q)
  BY ErrorHonest
<1> QED BY <1>4, <1>5, <1>6, <1>7 DEF Handle

LEMMA NotFoundHonest ==
  ASSUME NEW q, Formed(q), NEW made
  PROVE  Honestly(q, Handle404(q, made).q)
<1>1. NoBody.token = None /\ [NoBody EXCEPT !.kind = "page"].token = None
  BY DEF NoBody
<1>2. PICK s : s = RenderChain(Start, NotFound, [NoLayouts EXCEPT !.global = GlobalLayout], made)
  OBVIOUS
<1>3. /\ Honestly(q, Answer(q, "404", NoBody, Start).q) /\ Honestly(q, Error(q, s, made).q)
      /\ Honestly(q, Answer(q, "404", [NoBody EXCEPT !.kind = "page"], s).q)
  BY <1>1, ReplyHonest, ErrorHonest
<1> QED BY <1>2, <1>3 DEF Handle404

\* The calls of a loader or action leave the token alone.
LEMMA CallsKeep ==
  ASSUME NEW r, Formed(req[r]), NEW ops \in Seq(HandlerCalls), NEW made
  PROVE  Keeps(req[r], Calls(r, ops, made).q)
<1>1. PICK n \in Nat : n = Len(ops)
  BY LenProperties
<1>2. PICK f : /\ f[0] = Begun(r) /\ Calls(r, ops, made) = f[n]
               /\ \A i \in 1..n : f[i] = Call(f[i - 1], r, ops[i], made)
  BY <1>1, CallsInTurn
<1>3. PICK q0 : q0 = req[r]
  OBVIOUS
<1>4. ASSUME NEW q, Keeps(q0, q), NEW op \in HandlerCalls
      PROVE  Keeps(q0, Do(q, r, op)) /\ Keeps(q0, [q EXCEPT !.raised = TRUE])
  <2>1. Keeps(q0, [q EXCEPT !.raised = TRUE]) /\ Keeps(q0, [q EXCEPT !.redirects = TRUE])
    BY <1>4 DEF Keeps, Unsent
  <2>2. ASSUME NEW flash
        PROVE  IsSession([q.session EXCEPT !.flash = flash])
               /\ [q.session EXCEPT !.flash = flash].token = q.session.token
    BY <1>4 DEF Keeps, IsSession
  <2>3. Keeps(q0, Flash(q, r))
    <3>1. PICK p : p = Flash(q, r)
      OBVIOUS
    <3>2. p.session = [q.session EXCEPT !.flash = Append(@, r)]
      BY <1>4, <3>1 DEF Flash, Keeps, Unsent
    <3>3. /\ DOMAIN p = DOMAIN q /\ p.b = q.b /\ p.life = q.life /\ p.from = q.from
          /\ q.modified => p.modified
      BY <1>4, <3>1 DEF Flash, Keeps, Unsent
    <3> QED BY ZenonT(80), <1>4, <2>2, <3>1, <3>2, <3>3 DEF Keeps
  <2>4. Keeps(q0, PopFlash(q))
    <3>1. PICK p : p = PopFlash(q)
      OBVIOUS
    <3>2. p.session = [q.session EXCEPT !.flash = <<>>]
      BY <1>4, <3>1 DEF PopFlash, Keeps, Unsent
    <3>3. /\ DOMAIN p = DOMAIN q /\ p.b = q.b /\ p.life = q.life /\ p.from = q.from
          /\ q.modified => p.modified
      BY <1>4, <3>1 DEF PopFlash, Keeps, Unsent
    <3> QED BY ZenonT(80), <1>4, <2>2, <3>1, <3>2, <3>3 DEF Keeps
  <2>5. op[1] \in {"flash", "show", "redirect", "raise", "island"}
    BY DEF HandlerCalls
  <2>6. \/ Do(q, r, op) = Flash(q, r) \/ Do(q, r, op) = PopFlash(q) \/ Do(q, r, op) = q
        \/ Do(q, r, op) = [q EXCEPT !.redirects = TRUE]
        \/ Do(q, r, op) = [q EXCEPT !.raised = TRUE]
    BY <2>5 DEF Do
  <2> QED BY <1>4, <2>1, <2>3, <2>4, <2>6
<1> DEFINE N == {i \in Nat : i <= n => Keeps(q0, f[i].q)}
<1>5. 0 \in N
  <2>1. Keeps(q0, q0)
    BY <1>3 DEF Keeps, Formed
  <2>2. f[0].q = q0
    BY <1>2, <1>3 DEF Begun
  <2> QED BY <2>1, <2>2
<1>6. ASSUME NEW i \in N PROVE i + 1 \in N
  <2>1. CASE i + 1 <= n
    <3>1. i + 1 \in 1..n /\ (i + 1) - 1 = i /\ i <= n
      BY <2>1
    <3>2. PICK op \in HandlerCalls : op = ops[i + 1]
      BY <1>1, <3>1, ElementOfSeq
    <3>3. PICK t : t = f[i]
      OBVIOUS
    <3>4. f[i + 1] = Call(t, r, op, made)
      BY <1>2, <3>1, <3>2, <3>3
    <3>5. Keeps(q0, t.q)
      BY <3>1, <3>3
    <3>6. Call(t, r, op, made).q \in {t.q, [t.q EXCEPT !.raised = TRUE], Do(t.q, r, op)}
      BY DEF Call
    <3>7. Keeps(q0, f[i + 1].q)
      BY <1>4, <3>4, <3>5, <3>6
    <3> QED BY <3>7
  <2> QED BY <2>1
<1>7. N = Nat
  <2> HIDE DEF N
  <2> QED BY <1>5, <1>6, AllNumbers DEF N
<1> QED BY <1>2, <1>3, <1>7

-----------------------------------------------------------------------------
(* Tokens, step by step *)

\* A request that is handled, or answered from the cache, goes on to fit.
LEMMA FitKeeps ==
  ASSUME Protected, NEW q, NEW j, NEW l, NEW raced, Fit(q, j, l, raced), NEW p, Keeps(q, p),
         Honest(p) \/ (p.at = "replied" /\ p.cached /\ p.status # "403")
  PROVE  Fit(p, j, l, raced)
BY ProtectedUses DEF Fit, Keeps, Honest

\* The request whose body is awaited.
Awaits(w, q) ==
  /\ w.at = "body" /\ DOMAIN q = DOMAIN Unsent
  /\ w.session = q.session /\ w.life = q.life /\ w.modified = q.modified
  /\ w.from = q.from /\ w.b = q.b /\ q.status = "none"

LEMMA CheckedFits ==
  ASSUME Protected, NEW q, NEW w, Awaits(w, q), NEW j, NEW l, NEW raced, Fit(w, j, l, raced)
  PROVE  /\ Fit(Checked(q), j, l, raced)
         /\ Checked(q).session.token = q.session.token /\ Checked(q).b = q.b
<1>2. /\ DOMAIN q = DOMAIN Unsent /\ w.at = "body" /\ w.session = q.session /\ w.life = q.life
      /\ w.modified = q.modified /\ w.from = q.from /\ q.status = "none" /\ w.b = q.b
  BY DEF Awaits
<1>3. Fit(w, j, l, raced)
  OBVIOUS
<1>4. CASE q.from.token = q.session.token
  <2>1. PICK p : p = [q EXCEPT !.at = "loader"]
    OBVIOUS
  <2>2. /\ DOMAIN p = DOMAIN Unsent /\ p.at = "loader" /\ p.session = q.session /\ p.life = q.life
        /\ p.modified = q.modified /\ p.from = q.from /\ p.status = q.status /\ p.b = q.b
    BY <1>2, <2>1 DEF Unsent
  <2>3. Fit(p, j, l, raced)
    BY <1>2, <1>3, <2>2 DEF Fit
  <2>4. Checked(q) = p
    BY <1>4, <2>1 DEF Checked, Protected
  <2> QED BY <2>2, <2>3, <2>4
<1>5. CASE q.from.token # q.session.token
  <2>1. PICK p : p = Reply(q, "403", NoBody)
    OBVIOUS
  <2>2. /\ DOMAIN p = DOMAIN Unsent /\ p.at = "replied" /\ p.session = q.session /\ p.life = q.life
        /\ p.modified = q.modified /\ p.from = q.from /\ p.status = "403" /\ p.b = q.b
        /\ p.body.token = None
    BY <1>2, <2>1 DEF Unsent, Reply, NoBody
  <2>3. Fit(p, j, l, raced)
    BY <1>2, <1>3, <1>5, <2>2 DEF Fit
  <2>4. Checked(q) = p
    BY <1>5, <2>1 DEF Checked, Refused, Protected
  <2> QED BY <2>2, <2>3, <2>4
<1> QED BY <1>4, <1>5

\* A request enters with the cookie of its browser, or a new token if there is none.
LEMMA EnterFits ==
  ASSUME Protected, NEW q, DOMAIN q = DOMAIN Unsent, ~q.modified, q.status = "none",
         q.life \in Nat, NEW r, r # None,
         NEW j, IsSession(j), j # Empty => j.token # None, NEW raced,
         ~raced /\ q.from.own => (j # Empty /\ q.from.token = j.token) \/ q.from.life # q.life
  PROVE  /\ Fit(Enter(q, r, j), j, q.life, raced) /\ Enter(q, r, j).b = q.b
         /\ j # Empty => Enter(q, r, j).session.token = j.token
<1>0. PICK b, from, l : l \in Nat /\ b = q.b /\ from = q.from /\ l = q.life
  OBVIOUS
<1>1. Uses("sessions") /\ Uses("csrf")
  BY ProtectedUses
<1>2. PICK p : p = [q EXCEPT !.session = j]
  OBVIOUS
<1>3. /\ DOMAIN p = DOMAIN Unsent /\ p.session = j /\ p.b = b /\ p.from = from /\ p.life = l
      /\ ~p.modified /\ p.status = "none"
  BY <1>0, <1>2 DEF Unsent
<1>4. PICK e : e = IF ~HasToken(p) THEN MintToken(p, r) ELSE p
  OBVIOUS
<1>5. /\ DOMAIN e = DOMAIN Unsent /\ IsSession(e.session) /\ e.session.token # None
      /\ e.b = b /\ e.from = from /\ e.life = l /\ e.status = "none"
      /\ ~e.modified => j # Empty
      /\ j # Empty => e.session.token = j.token
  <2>1. CASE HasToken(p)
    <3>1. j # Empty
      BY <1>3, <2>1 DEF HasToken, Empty
    <3> QED BY <1>3, <1>4, <2>1, <3>1 DEF HasToken
  <2>2. CASE ~HasToken(p)
    <3>1. e = [p EXCEPT !.session.token = r, !.modified = TRUE]
      BY <1>4, <2>2 DEF MintToken
    <3>2. /\ e.session = [j EXCEPT !.token = r] /\ e.modified = TRUE
          /\ DOMAIN e = DOMAIN Unsent /\ e.b = b /\ e.from = from /\ e.life = l /\ e.status = "none"
      BY <1>3, <3>1 DEF Unsent
    <3>3. IsSession(e.session) /\ e.session.token = r
      BY <3>2 DEF IsSession
    <3>4. j = Empty
      BY <1>3, <2>2 DEF HasToken
    <3> QED BY <3>2, <3>3, <3>4
  <2> QED BY <2>1, <2>2
<1>6. PICK w : w = [e EXCEPT !.at = "body"]
  OBVIOUS
<1>7. /\ Fit(w, j, l, raced) /\ w.b = b /\ w.session = e.session
  <2>1. /\ DOMAIN w = DOMAIN Unsent /\ w.at = "body" /\ w.session = e.session /\ w.life = l
        /\ w.modified = e.modified /\ w.from = from /\ w.status = "none" /\ w.b = b
    BY <1>5, <1>6 DEF Unsent
  <2> QED BY <1>0, <1>5, <2>1 DEF Fit
<1>8. PICK x : x = [e EXCEPT !.at = "loader"]
  OBVIOUS
<1>9. /\ Fit(x, j, l, raced) /\ x.b = b /\ x.session = e.session
  <2>1. /\ DOMAIN x = DOMAIN Unsent /\ x.at = "loader" /\ x.session = e.session /\ x.life = l
        /\ x.modified = e.modified /\ x.from = from /\ x.status = "none" /\ x.b = b
    BY <1>5, <1>8 DEF Unsent
  <2> QED BY <1>0, <1>5, <2>1 DEF Fit
<1>10. /\ Fit(Checked(e), j, l, raced) /\ Checked(e).b = b
       /\ Checked(e).session.token = e.session.token
  <2>1. Awaits(w, e)
    BY <1>5, <1>6 DEF Awaits, Unsent
  <2> QED BY <1>5, <1>7, <2>1, CheckedFits
<1>11. Enter(q, r, j) \in {w, x, Checked(e)}
  BY <1>1, <1>2, <1>4, <1>6, <1>8 DEF Enter, Protected
<1> QED BY <1>0, <1>5, <1>7, <1>9, <1>10, <1>11

\* What the router makes of a request fits as the request did.
LEMMA DispatchFits ==
  ASSUME Protected, NEW r, NEW q, Dispatch(r, q), NEW j, NEW l, NEW raced, Fit(q, j, l, raced)
  PROVE  \E p : /\ req' = [req EXCEPT ![r] = p] /\ Fit(p, j, l, raced)
                /\ p.session.token = q.session.token /\ p.b = q.b
<1>f. Formed(q)
  BY DEF Fit, Formed
<1>1. CASE req' = [req EXCEPT ![r] = q]
  BY <1>1
<1>2. ASSUME NEW p, req' = [req EXCEPT ![r] = p], Keeps(q, p),
             Honest(p) \/ (p.at = "replied" /\ p.cached /\ p.status # "403")
      PROVE  \E o : /\ req' = [req EXCEPT ![r] = o] /\ Fit(o, j, l, raced)
                    /\ o.session.token = q.session.token /\ o.b = q.b
  <2>1. Fit(p, j, l, raced)
    BY <1>2, FitKeeps
  <2>2. p.session.token = q.session.token /\ p.b = q.b
    BY <1>2 DEF Keeps
  <2> QED BY <1>2, <2>1, <2>2
<1>3. ASSUME NEW made \in MayMake, req' = [req EXCEPT ![r] = Handle404(q, made).q]
      PROVE  \E o : /\ req' = [req EXCEPT ![r] = o] /\ Fit(o, j, l, raced)
                    /\ o.session.token = q.session.token /\ o.b = q.b
  <2>1. Honestly(q, Handle404(q, made).q)
    BY <1>f, NotFoundHonest
  <2> QED BY <1>2, <1>3, <2>1 DEF Honestly
<1>4. ASSUME NEW body, req' = [req EXCEPT ![r] = FromCache(q, body)]
      PROVE  \E o : /\ req' = [req EXCEPT ![r] = o] /\ Fit(o, j, l, raced)
                    /\ o.session.token = q.session.token /\ o.b = q.b
  <2>1. PICK p : p = FromCache(q, body)
    OBVIOUS
  <2>2. /\ DOMAIN p = DOMAIN q /\ p.b = q.b /\ p.life = q.life /\ p.from = q.from
        /\ p.session = q.session /\ p.modified = q.modified /\ p.at = "replied"
        /\ p.cached = TRUE /\ p.status \in {"200", "304"}
    BY <1>f, <2>1 DEF FromCache, Reply, Formed, Unsent
  <2>3. Keeps(q, p)
    BY <1>f, <2>2 DEF Keeps, Formed
  <2> QED BY <1>2, <1>4, <2>1, <2>2, <2>3
<1>5. ASSUME NEW i \in EntryOf(q.route), NEW expired \in BOOLEAN,
             req' = [req EXCEPT ![r] = IF expired THEN q ELSE FromCache(q, cache[i].body)]
      PROVE  \E o : /\ req' = [req EXCEPT ![r] = o] /\ Fit(o, j, l, raced)
                    /\ o.session.token = q.session.token /\ o.b = q.b
  BY <1>1, <1>4, <1>5
<1> QED BY <1>1, <1>3, <1>5 DEF Dispatch

\* One request of a browser becomes another that fits; the browser may race.
LEMMA OneToken ==
  ASSUME TokenInv, NEW b \in Browsers, NEW r \in AllRequests, NEW p,
         req' = [req EXCEPT ![r] = p], p.b = b, UNCHANGED <<jar, tabs, life>>,
         overlap' = [d \in Browsers |-> overlap'[d]],
         \A d \in Browsers : overlap[d] = "raced" => overlap'[d] = "raced",
         Fit(p, jar[b], life[b], overlap'[b] = "raced"),
         overlap'[b] # "raced" =>
           \A o \in Flying(b) : req[o].session.token = p.session.token
  PROVE  TokenInv'
<1>1. req' = [q \in AllRequests |-> IF q = r THEN p ELSE req[q]]
  BY DEF TokenInv
<1>2. req' = [q \in AllRequests |-> req'[q]] /\ req'[r] = p
      /\ \A q \in AllRequests : q # r => req'[q] = req[q]
  BY <1>1
<1>3. p.at \notin {"unsent", "done"} /\ (p.status = "403" /\ p.from.own /\ p.from.life = p.life
                                           => overlap'[b] = "raced")
  BY DEF Fit
<1>4. \A d \in Browsers : \A q \in Flying(d)' :
        /\ q \in AllRequests /\ (q = r => d = b)
        /\ q # r => q \in Flying(d) /\ req'[q] = req[q]
  BY <1>2 DEF Flying
<1>5. ASSUME NEW d \in Browsers PROVE BrowserInv(d)'
  <2>1. BrowserInv(d)
    BY DEF TokenInv
  <2>2. ASSUME NEW q \in Flying(d)' PROVE Fit(req'[q], jar[d], life[d], overlap'[d] = "raced")
    <3>1. CASE q = r
      BY <1>2, <1>4, <3>1
    <3>2. CASE q # r
      <4>1. Fit(req[q], jar[d], life[d], overlap[d] = "raced") /\ req'[q] = req[q]
        BY <1>4, <2>1, <3>2 DEF BrowserInv, Raced
      <4> QED BY <4>1 DEF Fit
    <3> QED BY <3>1, <3>2
  <2>3. ASSUME overlap'[d] # "raced", NEW q \in Flying(d)', NEW o \in Flying(d)'
        PROVE  req'[q].session.token = req'[o].session.token
    <3>1. ~Raced(d)
      BY <2>3 DEF Raced
    <3>2. CASE q # r /\ o # r
      BY <1>4, <2>1, <3>1, <3>2 DEF BrowserInv
    <3>3. CASE q = r /\ o # r
      BY <1>2, <1>4, <2>3, <3>3
    <3>4. CASE q # r /\ o = r
      BY <1>2, <1>4, <2>3, <3>4
    <3> QED BY <3>2, <3>3, <3>4
  <2>4. \A page \in tabs[d] : /\ page.life \in Nat /\ page.life <= life[d]
                              /\ overlap'[d] # "raced" /\ page.own /\ page.life = life[d]
                                   => jar[d] # Empty /\ page.token = jar[d].token
    BY <2>1 DEF BrowserInv, Raced
  <2> QED BY <2>1, <2>2, <2>3, <2>4 DEF BrowserInv, Raced
<1>6. ASSUME NEW q \in AllRequests
      PROVE  /\ req'[q].at \notin {"unsent", "done"} => req'[q].b \in Browsers
             /\ req'[q].status = "403" /\ req'[q].from.own /\ req'[q].from.life = req'[q].life
                  => req'[q].b \in Browsers /\ overlap'[req'[q].b] = "raced"
  <2>1. CASE q = r
    BY <1>2, <1>3, <2>1
  <2>2. CASE q # r
    BY <1>2, <2>2 DEF TokenInv, Raced
  <2> QED BY <2>1, <2>2
<1> QED BY <1>2, <1>5, <1>6 DEF TokenInv, Raced

\* One that is under way becomes another, and its browser waits.
LEMMA SameToken ==
  ASSUME TokenInv, NEW r \in AllRequests, req[r].at \notin {"unsent", "done"}, NEW p,
         req' = [req EXCEPT ![r] = p], p.b = req[r].b, UNCHANGED <<jar, tabs, life, overlap>>,
         p.session.token = req[r].session.token,
         Fit(p, jar[p.b], life[p.b], overlap[p.b] = "raced")
  PROVE  TokenInv'
<1>1. PICK b \in Browsers : b = req[r].b
  BY DEF TokenInv
<1>2. r \in Flying(b) /\ BrowserInv(b)
  BY <1>1 DEF Flying, TokenInv
<1>3. overlap[b] # "raced" => \A o \in Flying(b) : req[o].session.token = p.session.token
  BY <1>2 DEF BrowserInv, Raced
<1>4. overlap' = [d \in Browsers |-> overlap'[d]]
  BY DEF TokenInv
<1>5. Fit(p, jar[b], life[b], overlap'[b] = "raced")
  BY <1>1
<1> QED BY <1>1, <1>3, <1>4, <1>5, OneToken

\* A form is submitted with the token of its page, which is that of the cookie.
LEMMA RequestTokens ==
  ASSUME Protected, TokenInv, NEW b \in Browsers, NEW r \in AllRequests, NEW route \in Routes,
         NEW from \in tabs[b] \cup {NoPage}, Request(b, r, route, from)
  PROVE  TokenInv'
<1>1. PICK raced : raced = (overlap'[b] = "raced")
  OBVIOUS
<1>2. PICK q : q = [Unsent EXCEPT !.at = "new", !.b = b, !.route = route, !.from = from,
                                  !.etag = copy[b][route], !.life = life[b]]
  OBVIOUS
<1>3. PICK e : e = Enter(q, r, jar[b])
  OBVIOUS
<1>4. BrowserInv(b)
  BY DEF TokenInv
<1>5. /\ overlap' = [d \in Browsers |-> overlap'[d]]
      /\ \A d \in Browsers : overlap[d] = "raced" => overlap'[d] = "raced"
      /\ ~raced => ~Raced(b) /\ (Flying(b) # {} => jar[b] # Empty)
  <2>1. PICK o : /\ overlap' = [overlap EXCEPT ![b] = o]
                 /\ overlap[b] = "raced" => o = "raced"
                 /\ Flying(b) # {} /\ jar[b] = Empty => o = "raced"
    BY DEF Request
  <2>2. overlap' = [d \in Browsers |-> IF d = b THEN o ELSE overlap[d]]
    BY <2>1 DEF TokenInv
  <2> QED BY <1>1, <2>1, <2>2 DEF Raced
<1>6. ~raced /\ from.own /\ from.life = life[b] => jar[b] # Empty /\ from.token = jar[b].token
  <2>1. CASE from = NoPage
    BY <2>1 DEF NoPage
  <2>2. CASE from \in tabs[b]
    BY <1>4, <1>5, <2>2 DEF BrowserInv
  <2> QED BY <2>1, <2>2
<1>7. /\ Fit(e, jar[b], life[b], raced) /\ e.b = b
      /\ jar[b] # Empty => e.session.token = jar[b].token
  <2>1. PICK j : j = jar[b]
    OBVIOUS
  <2>2. IsSession(j) /\ (j # Empty => j.token # None)
    BY <1>4, <2>1 DEF BrowserInv
  <2>3. /\ DOMAIN q = DOMAIN Unsent /\ q.b = b /\ q.from = from /\ q.life = life[b]
        /\ ~q.modified /\ q.status = "none" /\ life[b] \in Nat
    BY <1>2, <1>4 DEF Unsent, BrowserInv
  <2>4. ~raced /\ q.from.own => (j # Empty /\ q.from.token = j.token) \/ q.from.life # q.life
    BY <1>6, <2>1, <2>3
  <2>5. r # None
    BY RequestsAreNumbers
  <2>6. DOMAIN q = DOMAIN Unsent
    BY <2>3
  <2>7. ~q.modified
    BY <2>3
  <2>8. q.status = "none"
    BY <2>3
  <2>9. q.life \in Nat
    BY <2>3
  <2>10. IsSession(j)
    BY <2>2
  <2>11. j # Empty => j.token # None
    BY <2>2
  <2>12. Fit(Enter(q, r, j), j, q.life, raced)
    BY <2>4, <2>5, <2>6, <2>7, <2>8, <2>9, <2>10, <2>11, EnterFits, ZenonT(60)
  <2>13. /\ Enter(q, r, j).b = q.b
         /\ j # Empty => Enter(q, r, j).session.token = j.token
    BY <2>4, <2>5, <2>6, <2>7, <2>8, <2>9, <2>10, <2>11, EnterFits
  <2> QED BY <1>3, <2>1, <2>3, <2>12, <2>13
<1>8. Dispatch(r, e)
  BY <1>2, <1>3 DEF Request
<1>9. PICK p : /\ req' = [req EXCEPT ![r] = p] /\ Fit(p, jar[b], life[b], raced)
               /\ p.session.token = e.session.token /\ p.b = e.b
  BY <1>7, <1>8, DispatchFits
<1>10. ASSUME ~raced, NEW o \in Flying(b)
       PROVE  req[o].session.token = p.session.token
  <2>1. jar[b] # Empty /\ ~Raced(b)
    BY <1>5, <1>10
  <2>2. req[o].session.token = jar[b].token
    BY <1>4, <2>1 DEF BrowserInv, Fit
  <2> QED BY <1>7, <1>9, <2>1, <2>2
<1>11. Fit(p, jar[b], life[b], overlap'[b] = "raced")
  BY <1>1, <1>9 DEF Fit
<1>12. UNCHANGED <<jar, tabs, life>>
  BY DEF Request, browserVars
<1> QED BY <1>1, <1>5, <1>7, <1>9, <1>10, <1>11, <1>12, OneToken

LEMMA ReadBodyTokens ==
  ASSUME Protected, TokenInv, NEW r \in AllRequests, ReadBody(r)
  PROVE  TokenInv'
<1>1. PICK b \in Browsers : b = req[r].b
  BY DEF ReadBody, TokenInv
<1>2. BrowserInv(b) /\ req[r].at = "body"
  BY DEF ReadBody, TokenInv
<1>3. r \in Flying(b)
  BY <1>1, <1>2 DEF Flying
<1>4. PICK q : q = req[r]
  OBVIOUS
<1>5. PICK j, l, raced : j = jar[b] /\ l = life[b] /\ raced = Raced(b)
  OBVIOUS
<1>6. Fit(q, j, l, raced)
  BY <1>2, <1>3, <1>4, <1>5 DEF BrowserInv
<1>7. q.status = "none" /\ DOMAIN q = DOMAIN Unsent
  BY <1>2, <1>4, <1>6 DEF Fit
<1>8. Awaits(q, q)
  BY <1>2, <1>4, <1>7 DEF Awaits
<1>9. /\ Fit(Checked(q), j, l, raced)
      /\ Checked(q).session.token = q.session.token /\ Checked(q).b = q.b
  BY <1>6, <1>7, <1>8, CheckedFits
<1>10. PICK p : /\ req' = [req EXCEPT ![r] = p] /\ Fit(p, j, l, raced)
                /\ p.session.token = q.session.token /\ p.b = q.b
  BY <1>4, <1>9, DispatchFits DEF ReadBody
<1>11. Fit(p, jar[p.b], life[p.b], overlap[p.b] = "raced")
  BY <1>1, <1>4, <1>5, <1>10 DEF Raced
<1>12. UNCHANGED <<jar, tabs, life, overlap>>
  BY DEF ReadBody, browserVars
<1> QED BY <1>2, <1>4, <1>10, <1>11, <1>12, SameToken

LEMMA ResumeTokens ==
  ASSUME Protected, TokenInv, MissingInv, NEW r \in AllRequests, Resume(r)
  PROVE  TokenInv'
<1>1. PICK b \in Browsers : b = req[r].b
  BY DEF Resume, TokenInv
<1>2. BrowserInv(b) /\ req[r].at = "loader"
  BY DEF Resume, TokenInv
<1>3. r \in Flying(b)
  BY <1>1, <1>2 DEF Flying
<1>4. Fit(req[r], jar[b], life[b], Raced(b)) /\ Formed(req[r])
  BY <1>2, <1>3 DEF BrowserInv, Fit, Formed
<1>5. PICK ops \in Behaviours[req[r].route], made \in MayMake :
        LET t == Calls(r, ops, made)
        IN req' = [req EXCEPT ![r] = Handle(t.q, t.s, made).q]
  BY DEF Resume
<1>6. ops \in Seq(HandlerCalls)
  <2>1. req[r].route \in Routes
    BY <1>2 DEF MissingInv, Sound
  <2> QED BY <2>1, WebAssumption
<1>7. PICK t : t = Calls(r, ops, made)
  OBVIOUS
<1>8. Keeps(req[r], t.q)
  BY <1>4, <1>6, <1>7, CallsKeep
<1>9. PICK p : p = Handle(t.q, t.s, made).q
  OBVIOUS
<1>10. Keeps(t.q, p) /\ Honest(p)
  BY <1>8, <1>9, HandleHonest DEF Formed, Keeps, Honestly
<1>11. Keeps(req[r], p)
  BY <1>8, <1>10 DEF Keeps
<1>12. Fit(p, jar[b], life[b], Raced(b))
  BY <1>4, <1>10, <1>11, FitKeeps
<1>13. p.b = b /\ p.session.token = req[r].session.token
  BY <1>1, <1>11 DEF Keeps
<1>14. Fit(p, jar[p.b], life[p.b], overlap[p.b] = "raced")
  BY <1>12, <1>13 DEF Raced
<1>15. UNCHANGED <<jar, tabs, life, overlap>>
  BY DEF Resume, browserVars
<1>16. req' = [req EXCEPT ![r] = p]
  BY <1>5, <1>7, <1>9
<1> QED BY <1>1, <1>2, <1>13, <1>14, <1>15, <1>16, SameToken

\* An answer brings its cookie and its page together.
LEMMA ReceiveTokens ==
  ASSUME TokenInv, NEW r \in AllRequests, Receive(r)
  PROVE  TokenInv'
<1>1. PICK q, b : b \in Browsers /\ q = req[r] /\ b = q.b
  BY DEF Receive, TokenInv
<1>2. PICK a : a = Answered(q)
  OBVIOUS
<1>3. /\ BrowserInv(b) /\ r \in Flying(b) /\ q.at = "replied"
      /\ jar' = IF q.sets THEN [jar EXCEPT ![b] = q.session] ELSE jar
      /\ tabs' = [tabs EXCEPT ![b] = @ \cup Shows(q)]
      /\ req' = [req EXCEPT ![r] = a] /\ UNCHANGED <<overlap, life>>
  BY <1>1, <1>2 DEF Receive, Flying, TokenInv
<1>4. /\ a.at = "done" /\ a.b = b /\ a.life = q.life
      /\ a.status = "403" => q.status = "403" /\ a.from = q.from
  BY <1>1, <1>2 DEF Answered, Unsent
<1>5. Fit(q, jar[b], life[b], Raced(b))
  BY <1>1, <1>3 DEF BrowserInv
<1>6. /\ req' = [p \in AllRequests |-> req'[p]] /\ req'[r] = a
      /\ \A p \in AllRequests : p # r => req'[p] = req[p]
  <2>1. req' = [p \in AllRequests |-> IF p = r THEN a ELSE req[p]]
    BY <1>3 DEF TokenInv
  <2> QED BY <2>1
<1>7. /\ jar' = [d \in Browsers |-> jar'[d]] /\ \A d \in Browsers : d # b => jar'[d] = jar[d]
      /\ jar'[b] = IF q.sets THEN q.session ELSE jar[b]
  <2>1. PICK new : new = IF q.sets THEN q.session ELSE jar[b]
    OBVIOUS
  <2>2. jar' = [d \in Browsers |-> IF d = b THEN new ELSE jar[d]]
    BY <1>3, <2>1 DEF TokenInv
  <2> QED BY <1>1, <2>1, <2>2
<1>8. /\ tabs' = [d \in Browsers |-> tabs'[d]] /\ tabs'[b] = tabs[b] \cup Shows(q)
      /\ \A d \in Browsers : d # b => tabs'[d] = tabs[d]
  <2>1. PICK new : new = tabs[b] \cup Shows(q)
    OBVIOUS
  <2>2. tabs' = [d \in Browsers |-> IF d = b THEN new ELSE tabs[d]]
    BY <1>3, <2>1 DEF TokenInv
  <2> QED BY <1>1, <2>1, <2>2
<1>9. \A d \in Browsers : \A p \in Flying(d)' : p # r /\ p \in Flying(d) /\ req'[p] = req[p]
  BY <1>4, <1>6 DEF Flying
<1>10. /\ IsSession(jar'[b]) /\ (jar'[b] # Empty => jar'[b].token # None)
       /\ ~q.modified /\ q.life = life[b] => jar'[b] # Empty
       /\ jar[b] # Empty => jar'[b] # Empty
       /\ ~Raced(b) /\ jar[b] # Empty => jar'[b].token = jar[b].token
       /\ ~Raced(b) /\ jar'[b] # Empty => jar'[b].token = q.session.token
  <2>1. q.session # Empty
    BY <1>5 DEF Fit, Empty
  <2>2. CASE q.sets
    BY <1>3, <1>5, <1>7, <2>1, <2>2 DEF Fit, BrowserInv
  <2>3. CASE ~q.sets
    BY <1>3, <1>5, <1>7, <2>3 DEF Fit, BrowserInv
  <2> QED BY <2>2, <2>3
<1>11. ASSUME NEW page \in tabs'[b]
       PROVE  /\ page.life \in Nat /\ page.life <= life[b]
              /\ ~Raced(b) /\ page.own /\ page.life = life[b]
                   => jar'[b] # Empty /\ page.token = jar'[b].token
  <2>1. CASE page \in tabs[b]
    BY <1>3, <1>10, <2>1 DEF BrowserInv
  <2>2. CASE page \in Shows(q)
    <3>1. PICK token : token = IF q.status = "304" THEN q.etag.token ELSE q.body.token
      OBVIOUS
    <3>2. token # None /\ page = [token |-> token, own |-> ~q.cached, life |-> q.life]
      BY <2>2, <3>1 DEF Shows
    <3>3. page.token = token /\ (page.own => ~q.cached) /\ page.life = q.life
      BY <3>2
    <3>4. page.life \in Nat /\ page.life <= life[b]
      BY <1>5, <3>3 DEF Fit
    <3>5. ASSUME ~Raced(b), page.own, page.life = life[b]
          PROVE  jar'[b] # Empty /\ page.token = jar'[b].token
      <4>1. q.status # "304" /\ q.body.token = q.session.token /\ (q.modified => q.sets)
        BY <1>3, <1>5, <3>1, <3>2, <3>3, <3>5 DEF Fit
      <4>2. page.token = q.session.token
        BY <3>1, <3>3, <4>1
      <4>3. jar'[b] # Empty
        <5>1. CASE q.modified
          <6>1. jar'[b] = q.session
            BY <1>7, <4>1, <5>1
          <6> QED BY <1>5, <6>1 DEF Fit, Empty
        <5>2. CASE ~q.modified
          BY <1>10, <3>3, <3>5, <5>2
        <5> QED BY <5>1, <5>2
      <4> QED BY <1>10, <3>5, <4>2, <4>3
    <3> QED BY <3>4, <3>5
  <2> QED BY <1>8, <2>1, <2>2
<1>12. ASSUME NEW p \in Flying(b)'
       PROVE  Fit(req'[p], jar'[b], life[b], Raced(b))
  <2>0. p \in Flying(b) /\ req'[p] = req[p]
    BY <1>1, <1>9
  <2>1. Fit(req[p], jar[b], life[b], Raced(b)) /\ req'[p] = req[p]
    BY <1>3, <2>0 DEF BrowserInv
  <2>2. req[p].life = life[b] /\ ~req[p].modified => jar'[b] # Empty
    BY <1>10, <2>1 DEF Fit
  <2>3. ~Raced(b) => req[p].session.token = q.session.token
    BY <1>1, <1>3, <2>0 DEF BrowserInv
  <2>4. ~Raced(b) /\ jar'[b] # Empty => req[p].session.token = jar'[b].token
    BY <1>10, <2>3
  <2> QED BY <2>1, <2>2, <2>4 DEF Fit
<1>13. ASSUME NEW d \in Browsers PROVE BrowserInv(d)'
  <2>1. BrowserInv(d) /\ (Raced(d)' <=> Raced(d)) /\ life'[d] = life[d]
    BY <1>3 DEF TokenInv, Raced
  <2>2. ~Raced(d) => \A o, p \in Flying(d)' : req'[o].session.token = req'[p].session.token
    BY <1>9, <2>1 DEF BrowserInv
  <2>3. CASE d = b
    <3>1. \A p \in Flying(d)' : Fit(req'[p], jar'[d], life'[d], Raced(d)')
      BY <1>12, <2>1, <2>3 DEF Fit
    <3>2. IsSession(jar'[d]) /\ (jar'[d] # Empty => jar'[d].token # None) /\ life'[d] \in Nat
      BY <1>3, <1>10, <2>1, <2>3 DEF BrowserInv
    <3>3. \A page \in tabs'[d] :
            /\ page.life \in Nat /\ page.life <= life'[d]
            /\ ~Raced(d)' /\ page.own /\ page.life = life'[d]
                 => jar'[d] # Empty /\ page.token = jar'[d].token
      BY <1>11, <2>1, <2>3
    <3> QED BY <2>1, <2>2, <3>1, <3>2, <3>3 DEF BrowserInv
  <2>4. CASE d # b
    <3>1. jar'[d] = jar[d] /\ tabs'[d] = tabs[d]
      BY <1>7, <1>8, <2>4
    <3>2. \A p \in Flying(d)' : Fit(req'[p], jar'[d], life'[d], Raced(d)')
      BY <1>9, <2>1, <3>1 DEF BrowserInv, Fit
    <3> QED BY <2>1, <2>2, <3>1, <3>2 DEF BrowserInv
  <2> QED BY <2>3, <2>4
<1>14. ASSUME NEW p \in AllRequests
       PROVE  /\ req'[p].at \notin {"unsent", "done"} => req'[p].b \in Browsers
              /\ req'[p].status = "403" /\ req'[p].from.own /\ req'[p].from.life = req'[p].life
                   => req'[p].b \in Browsers /\ Raced(req'[p].b)
  <2>1. CASE p = r
    BY <1>1, <1>4, <1>5, <1>6, <2>1 DEF Fit
  <2>2. CASE p # r
    BY <1>6, <2>2 DEF TokenInv
  <2> QED BY <2>1, <2>2
<1>15. \A p \in AllRequests :
         /\ req'[p].at \notin {"unsent", "done"} => req'[p].b \in Browsers
         /\ req'[p].status = "403" /\ req'[p].from.own /\ req'[p].from.life = req'[p].life
              => req'[p].b \in Browsers /\ overlap'[req'[p].b] = "raced"
  BY <1>3, <1>14 DEF Raced
<1>16. /\ life' = [d \in Browsers |-> life'[d]] /\ overlap' = [d \in Browsers |-> overlap'[d]]
  BY <1>3 DEF TokenInv
<1> QED BY <1>6, <1>7, <1>8, <1>13, <1>15, <1>16 DEF TokenInv, Raced

\* After an expiry nothing counts that was there before.
LEMMA ExpireTokens ==
  ASSUME TokenInv, NEW b \in Browsers, Expire(b)
  PROVE  TokenInv'
<1>1. /\ jar' = [jar EXCEPT ![b] = Empty] /\ life' = [life EXCEPT ![b] = @ + 1]
      /\ UNCHANGED <<tabs, overlap, req>>
  BY DEF Expire
<1>2. /\ jar' = [d \in Browsers |-> IF d = b THEN Empty ELSE jar[d]]
      /\ life' = [d \in Browsers |-> IF d = b THEN life[b] + 1 ELSE life[d]]
  BY <1>1 DEF TokenInv
<1>3. \A d \in Browsers : Flying(d)' = Flying(d) /\ (Raced(d)' <=> Raced(d))
  BY <1>1 DEF Flying, Raced
<1>4. ASSUME NEW d \in Browsers PROVE BrowserInv(d)'
  <2>1. BrowserInv(d)
    BY DEF TokenInv
  <2>2. CASE d = b
    <3>1. jar'[d] = Empty /\ life'[d] = life[d] + 1 /\ life[d] \in Nat
      BY <1>2, <2>1, <2>2 DEF BrowserInv
    <3>2. IsSession(Empty)
      BY DEF IsSession, Empty
    <3>3. \A page \in tabs'[d] : /\ page.life \in Nat /\ page.life <= life'[d]
                                 /\ page.life # life'[d]
      BY <1>1, <2>1, <3>1 DEF BrowserInv
    <3>4. ASSUME NEW p \in Flying(d) PROVE Fit(req[p], jar'[d], life'[d], Raced(d))
      <4>1. Fit(req[p], jar[d], life[d], Raced(d))
        BY <2>1 DEF BrowserInv
      <4>2. req[p].life <= life'[d] /\ req[p].life # life'[d]
        BY <3>1, <4>1 DEF Fit
      <4> QED BY <3>1, <4>1, <4>2 DEF Fit
    <3>5. \A p \in Flying(d)' : Fit(req'[p], jar'[d], life'[d], Raced(d)')
      BY <1>1, <1>3, <3>4 DEF Fit
    <3>6. ~Raced(d)' => \A o, p \in Flying(d)' : req'[o].session.token = req'[p].session.token
      BY <1>1, <1>3, <2>1 DEF BrowserInv
    <3> QED BY <3>1, <3>2, <3>3, <3>5, <3>6 DEF BrowserInv
  <2>3. CASE d # b
    <3>1. jar'[d] = jar[d] /\ life'[d] = life[d] /\ tabs'[d] = tabs[d]
      BY <1>1, <1>2, <2>3
    <3>2. \A p \in Flying(d)' : Fit(req'[p], jar'[d], life'[d], Raced(d)')
      BY <1>1, <1>3, <2>1, <3>1 DEF BrowserInv, Fit
    <3>3. ~Raced(d)' => \A o, p \in Flying(d)' : req'[o].session.token = req'[p].session.token
      BY <1>1, <1>3, <2>1 DEF BrowserInv
    <3> QED BY <1>3, <2>1, <3>1, <3>2, <3>3 DEF BrowserInv
  <2> QED BY <2>2, <2>3
<1>5. /\ jar' = [d \in Browsers |-> jar'[d]] /\ life' = [d \in Browsers |-> life'[d]]
  BY <1>2
<1> QED BY <1>1, <1>4, <1>5 DEF TokenInv, Raced

LEMMA TokenStep ==
  ASSUME Protected, MissingInv, TokenInv, [Next]_vars
  PROVE  TokenInv'
<1>1. ASSUME UNCHANGED <<jar, tabs, life, overlap, req>> PROVE TokenInv'
  BY <1>1 DEF TokenInv, BrowserInv, Fit, Flying, Raced
<1>2. CASE Change
  BY <1>1, <1>2 DEF Change, browserVars
<1>3. CASE Finished \/ UNCHANGED vars
  BY <1>1, <1>3 DEF Finished, vars, browserVars
<1> QED BY <1>2, <1>3, RequestTokens, ReadBodyTokens, ResumeTokens, ReceiveTokens,
           ExpireTokens DEF Next

\* A browser is never refused for the token of a page it was shown, over all its
\* tabs and however its requests and those of others interleave; unless that page
\* was the cached one of another session, the cookie has expired since, or the
\* browser sent a request before the answer that gave it its cookie
\* (CSRFMiddleware, _page_chrome, SessionMiddleware).
THEOREM PagesKeepTheirToken == Spec => []OwnPageIsNeverRefused
<1> DEFINE TInv == MissingInv /\ (Protected => TokenInv)
<1>1. Init => TInv
  <2>1. Init => MissingInv
    BY MissingInit
  <2>2. ASSUME Init PROVE TokenInv
    <3>1. Unsent.at = "unsent" /\ Unsent.status = "none"
      BY DEF Unsent
    <3>2. IsSession(Empty)
      BY DEF Empty, IsSession
    <3>3. \A b \in Browsers : Flying(b) = {}
      BY <2>2, <3>1 DEF Init, Flying
    <3>4. \A b \in Browsers : BrowserInv(b)
      BY <2>2, <3>2, <3>3 DEF Init, BrowserInv
    <3> QED BY <2>2, <3>1, <3>4 DEF Init, TokenInv
  <2> QED BY <2>1, <2>2
<1>2. TInv /\ [Next]_vars => TInv'
  <2>1. Protected' <=> Protected
    BY DEF Protected, Outside
  <2> QED BY <2>1, MissingStep, TokenStep
<1>3. TInv => OwnPageIsNeverRefused
  BY DEF TokenInv, OwnPageIsNeverRefused, Protected, Raced
<1> QED BY <1>1, <1>2, <1>3, PTL DEF Spec

-----------------------------------------------------------------------------
(* Flash messages *)

\* The messages a request has in hand: in its session, or read.
Carried(q) == Range(q.session.flash) \cup Range(q.popped)

\* What holds of a request under way and its messages.
Carries(r, q) ==
  /\ DOMAIN q = DOMAIN Unsent /\ IsSession(q.session)
  /\ q.at \in {"body", "loader", "replied"}
  /\ q.session.flash \in Seq(AllRequests) /\ q.popped \in Seq(AllRequests)
  /\ Range(q.session.flash) \cap Range(q.popped) = {}
  /\ q.at # "replied" \/ q.status = "403" => Range(q.popped) = {} /\ ~q.flashed
  /\ Range(q.popped) # {} => q.modified /\ Uses("sessions")
  /\ q.flashed => Uses("sessions")
  /\ q.flashed /\ ~q.onto => q.modified /\ r \in Carried(q)
  /\ ~q.flashed => r \notin Carried(q)
  /\ q.at = "replied" /\ q.status \notin {"403", "500"} /\ Uses("sessions") /\ q.modified
       => q.sets

Done(b) == {p \in AllRequests : req[p].at = "done" /\ req[p].b = b}

\* The requests that have read message m, and those that did not fail.
SeenBy(b, m) == {p \in Done(b) : m \in Range(req[p].popped)}
ReadWell(b, m) == {p \in SeenBy(b, m) : req[p].status # "500"}

\* A message that has to be somewhere.
Due(r, b) == /\ req[r].flashed /\ ~req[r].onto /\ req[r].status # "500"
             /\ req[r].life = life[b]

\* A browser that waits for each answer.
Quiet(b) ==
  /\ \A p, q \in Flying(b) : p = q
  /\ \A m \in AllRequests : \A p, q \in ReadWell(b, m) : p = q
  /\ \A m \in Range(jar[b].flash) : ReadWell(b, m) = {}
  /\ \A p \in Flying(b) : \A m \in Carried(req[p]) : ReadWell(b, m) = {}
  /\ \A p \in Flying(b) : /\ req[p].life <= life[b]
                          /\ \A r \in Done(b) : req[r].life <= req[p].life
  /\ \A r \in Done(b) : req[r].life <= life[b]
  /\ \A r \in Done(b) : Due(r, b) =>
       \/ SeenBy(b, r) # {}
       \/ r \in Range(jar[b].flash) /\ \A p \in Flying(b) : r \in Carried(req[p])

FlashInv ==
  /\ jar = [b \in Browsers |-> jar[b]] /\ life = [b \in Browsers |-> life[b]]
  /\ overlap = [b \in Browsers |-> overlap[b]] /\ req = [r \in AllRequests |-> req[r]]
  /\ \A b \in Browsers : /\ IsSession(jar[b]) /\ jar[b].flash \in Seq(AllRequests)
                         /\ life[b] \in Nat
                         /\ overlap[b] = "none" => Quiet(b)
  /\ \A r \in AllRequests :
       /\ req[r].at \notin {"unsent", "done"} => Carries(r, req[r])
       /\ req[r].at = "unsent" => ~req[r].flashed /\ req[r].popped = <<>>
       /\ req[r].at # "unsent" => req[r].b \in Browsers
       /\ req[r].life \in Nat
       /\ req[r].flashed => Uses("sessions")
       /\ ~req[r].flashed => /\ \A b \in Browsers : r \notin Range(jar[b].flash)
                             /\ \A p \in AllRequests : r \notin Carried(req[p])

-----------------------------------------------------------------------------
(* Flash messages, step by step *)

LEMMA NothingToRead == Range(<<>>) = {}
BY DEF Range

LEMMA RangeWithin ==
  ASSUME NEW S, NEW s \in Seq(S)
  PROVE  Range(s) \subseteq S
<1>1. PICK n \in Nat : n = Len(s) /\ DOMAIN s = 1..n
  BY LenProperties
<1>2. \A i \in 1..n : s[i] \in S
  BY <1>1, ElementOfSeq
<1> QED BY <1>1, <1>2 DEF Range

\* The session and what is read of it go from one form of a request to another.
Passes(q, p) ==
  /\ DOMAIN p = DOMAIN Unsent /\ p.b = q.b /\ p.life = q.life /\ p.session = q.session
  /\ p.popped = q.popped /\ p.flashed = q.flashed /\ p.onto = q.onto /\ p.modified = q.modified

\* A request that has run nothing yet.
Untouched(q) == q.popped = <<>> /\ ~q.flashed

LEMMA PassesCarries ==
  ASSUME NEW r, NEW q, Carries(r, q), NEW p, Passes(q, p),
         p.at \in {"body", "loader", "replied"},
         p.at # "replied" \/ p.status = "403" => Untouched(q),
         p.at = "replied" /\ p.status \notin {"403", "500"} /\ Uses("sessions") /\ p.modified
           => p.sets
  PROVE  Carries(r, p) /\ Carried(p) = Carried(q)
BY NothingToRead DEF Carries, Passes, Carried, Untouched

LEMMA CheckedCarries ==
  ASSUME NEW r, NEW q, Carries(r, q), Untouched(q)
  PROVE  LET p == Checked(q) IN Carries(r, p) /\ Passes(q, p) /\ Untouched(p)
<1>1. PICK p : p = Checked(q)
  OBVIOUS
<1>2. DOMAIN q = DOMAIN Unsent
  BY DEF Carries
<1>3. CASE p = [q EXCEPT !.at = "loader"]
  <2>1. Passes(q, p) /\ p.at = "loader"
    BY <1>2, <1>3 DEF Passes, Unsent
  <2> QED BY <1>1, <2>1, PassesCarries DEF Untouched, Passes
<1>4. CASE p = Reply(q, "403", NoBody)
  <2>1. Passes(q, p) /\ p.at = "replied" /\ p.status = "403"
    BY <1>2, <1>4 DEF Passes, Unsent, Reply
  <2> QED BY <1>1, <2>1, PassesCarries DEF Untouched, Passes
<1>5. CASE p = ReplyBare(q, "403")
  <2>1. PICK o : o = Reply(q, "403", NoBody)
    OBVIOUS
  <2>2. Passes(q, o) /\ o.at = "replied" /\ o.status = "403"
    BY <1>2, <2>1 DEF Passes, Unsent, Reply
  <2>3. p = [o EXCEPT !.sets = FALSE]
    BY <1>5, <2>1 DEF ReplyBare
  <2>4. Passes(q, p) /\ p.at = "replied" /\ p.status = "403"
    BY <2>2, <2>3 DEF Passes, Unsent
  <2> QED BY <1>1, <2>4, PassesCarries DEF Untouched, Passes
<1> QED BY <1>1, <1>3, <1>4, <1>5 DEF Checked, Refused

\* A request enters with the messages of the cookie.
LEMMA EnterCarries ==
  ASSUME NEW q, DOMAIN q = DOMAIN Unsent, Untouched(q), ~q.modified, NEW r,
         NEW j, IsSession(j), j.flash \in Seq(AllRequests), r \notin Range(j.flash)
  PROVE  LET e == Enter(q, r, j) IN
         /\ Carries(r, e) /\ Untouched(e) /\ e.b = q.b /\ e.life = q.life
         /\ Carried(e) \subseteq Range(j.flash)
         /\ Uses("sessions") => Carried(e) = Range(j.flash)
<1>0. PICK c : c = IF Uses("sessions") THEN j ELSE Empty
  OBVIOUS
<1>1. /\ IsSession(c) /\ c.flash \in Seq(AllRequests) /\ Range(c.flash) \subseteq Range(j.flash)
      /\ Uses("sessions") => c = j
  <2>1. IsSession(Empty) /\ Empty.flash = <<>> /\ <<>> \in Seq(AllRequests)
    BY EmptySeq DEF Empty, IsSession
  <2> QED BY <1>0, <2>1, NothingToRead
<1>2. PICK p : p = [q EXCEPT !.session = c]
  OBVIOUS
<1>3. /\ DOMAIN p = DOMAIN Unsent /\ p.session = c /\ p.b = q.b /\ p.life = q.life
      /\ p.popped = <<>> /\ ~p.flashed
  BY <1>2 DEF Unsent, Untouched
<1>4. PICK e : e = IF Outside("sessions", "csrf") /\ ~HasToken(p) THEN MintToken(p, r) ELSE p
  OBVIOUS
<1>5. /\ DOMAIN e = DOMAIN Unsent /\ IsSession(e.session) /\ e.session.flash = c.flash
      /\ e.b = q.b /\ e.life = q.life /\ e.popped = <<>> /\ ~e.flashed
  <2>1. CASE e = p
    BY <1>1, <1>3, <2>1
  <2>2. CASE e = MintToken(p, r)
    <3>1. /\ e.session = [c EXCEPT !.token = r] /\ DOMAIN e = DOMAIN Unsent
          /\ e.b = q.b /\ e.life = q.life /\ e.popped = <<>> /\ ~e.flashed
      BY <1>3, <2>2 DEF MintToken, Unsent
    <3>2. IsSession(e.session) /\ e.session.flash = c.flash
      BY <1>1, <3>1 DEF IsSession
    <3> QED BY <3>1, <3>2
  <2> QED BY <1>4, <2>1, <2>2
<1>6. ASSUME NEW at \in {"body", "loader"}
      PROVE  LET w == [e EXCEPT !.at = at] IN
             /\ Carries(r, w) /\ Untouched(w) /\ w.b = q.b /\ w.life = q.life
             /\ w.session.flash = c.flash
  <2>1. PICK w : w = [e EXCEPT !.at = at]
    OBVIOUS
  <2>2. /\ DOMAIN w = DOMAIN Unsent /\ w.session = e.session /\ w.b = q.b /\ w.life = q.life
        /\ w.popped = <<>> /\ ~w.flashed /\ w.at = at
    BY <1>5, <2>1 DEF Unsent
  <2>3. Range(w.popped) = {} /\ w.popped \in Seq(AllRequests)
    BY <2>2, EmptySeq, NothingToRead
  <2>4. r \notin Carried(w)
    BY <1>1, <1>5, <2>2, <2>3 DEF Carried
  <2>5. Carries(r, w)
    BY <1>1, <1>5, <2>2, <2>3, <2>4 DEF Carries
  <2> QED BY <1>5, <2>1, <2>2, <2>5 DEF Untouched
<1>7. /\ Carries(r, Checked(e)) /\ Untouched(Checked(e)) /\ Checked(e).b = q.b
      /\ Checked(e).life = q.life /\ Checked(e).session.flash = c.flash
  <2>1. PICK w : w = [e EXCEPT !.at = "loader"]
    OBVIOUS
  <2>2. Carries(r, w) /\ Untouched(w)
    BY <1>6, <2>1
  <2>3. PICK o : o = Reply(e, "403", NoBody)
    OBVIOUS
  <2>4. PICK o2 : o2 = ReplyBare(e, "403")
    OBVIOUS
  <2>5. Checked(e) \in {w, o, o2}
    BY <2>1, <2>3, <2>4 DEF Checked, Refused
  <2>6. /\ Passes(w, o) /\ o.at = "replied" /\ o.status = "403"
    BY <1>5, <2>1, <2>3 DEF Passes, Reply, Unsent
  <2>7. o2 = [o EXCEPT !.sets = FALSE]
    BY <2>3, <2>4 DEF ReplyBare
  <2>8. /\ Passes(w, o2) /\ o2.at = "replied" /\ o2.status = "403"
    BY <2>6, <2>7 DEF Passes, Unsent
  <2>9. Carries(r, o) /\ Carries(r, o2)
    BY <2>2, <2>6, <2>8, PassesCarries
  <2>10. w.b = q.b /\ w.life = q.life /\ w.session.flash = c.flash
    BY <1>6, <2>1
  <2> QED BY <2>2, <2>5, <2>6, <2>8, <2>9, <2>10 DEF Passes, Untouched
<1>8. Enter(q, r, j) \in {[e EXCEPT !.at = "body"], [e EXCEPT !.at = "loader"], Checked(e)}
  BY <1>0, <1>2, <1>4 DEF Enter
<1>9. PICK d : d = Enter(q, r, j)
  OBVIOUS
<1>10. /\ Carries(r, d) /\ Untouched(d) /\ d.b = q.b /\ d.life = q.life
       /\ d.session.flash = c.flash
  BY <1>6, <1>7, <1>8, <1>9
<1>11. Carried(d) = Range(c.flash)
  BY <1>10, NothingToRead DEF Carried, Untouched
<1> QED BY <1>1, <1>9, <1>10, <1>11

\* What the router makes of a request that has run nothing.
LEMMA DispatchCarries ==
  ASSUME NEW r, NEW q, Dispatch(r, q), Carries(r, q), Untouched(q)
  PROVE  \E p : req' = [req EXCEPT ![r] = p] /\ Carries(r, p) /\ Passes(q, p)
<1>f. Formed(q) /\ DOMAIN q = DOMAIN Unsent
  BY DEF Carries, Formed
<1>1. CASE req' = [req EXCEPT ![r] = q]
  BY <1>1, <1>f DEF Passes
<1>3. ASSUME NEW made \in MayMake, req' = [req EXCEPT ![r] = Handle404(q, made).q]
      PROVE  \E p : req' = [req EXCEPT ![r] = p] /\ Carries(r, p) /\ Passes(q, p)
  <2>1. PICK p : p = Handle404(q, made).q
    OBVIOUS
  <2>2. Honestly(q, p)
    BY <1>f, <2>1, NotFoundHonest
  <2>3. Passes(q, p) /\ p.at = "replied" /\ p.status # "403"
    BY <2>2 DEF Honestly, Keeps, Delivers, Honest, Passes
  <2>4. p.status # "500" /\ Uses("sessions") /\ p.modified => p.sets
    BY <2>2 DEF Honestly, Honest
  <2> QED BY <1>3, <2>1, <2>3, <2>4, PassesCarries
<1>4. ASSUME NEW body, req' = [req EXCEPT ![r] = FromCache(q, body)]
      PROVE  \E p : req' = [req EXCEPT ![r] = p] /\ Carries(r, p) /\ Passes(q, p)
  <2>1. PICK p : p = FromCache(q, body)
    OBVIOUS
  <2>2. /\ DOMAIN p = DOMAIN q /\ p.b = q.b /\ p.life = q.life /\ p.session = q.session
        /\ p.popped = q.popped /\ p.flashed = q.flashed /\ p.onto = q.onto
        /\ p.modified = q.modified /\ p.at = "replied" /\ p.status \in {"200", "304"}
        /\ Uses("sessions") /\ p.modified => p.sets
    BY <1>f, <2>1 DEF FromCache, Reply, Formed, Unsent
  <2>3. Passes(q, p)
    BY <1>f, <2>2 DEF Passes
  <2> QED BY <1>4, <2>1, <2>2, <2>3, PassesCarries
<1>5. ASSUME NEW i \in EntryOf(q.route), NEW expired \in BOOLEAN,
             req' = [req EXCEPT ![r] = IF expired THEN q ELSE FromCache(q, cache[i].body)]
      PROVE  \E p : req' = [req EXCEPT ![r] = p] /\ Carries(r, p) /\ Passes(q, p)
  BY <1>1, <1>4, <1>5
<1> QED BY <1>1, <1>3, <1>5 DEF Dispatch

\* What holds between the calls of request r, which began as q0: it has every
\* message it began with, and no other but its own.
Midway(r, q0, q) ==
  /\ DOMAIN q = DOMAIN Unsent /\ IsSession(q.session)
  /\ q.session.flash \in Seq(AllRequests) /\ q.popped \in Seq(AllRequests)
  /\ Range(q.session.flash) \cap Range(q.popped) = {}
  /\ Range(q.popped) # {} => q.modified /\ Uses("sessions")
  /\ q.flashed => Uses("sessions")
  /\ q.flashed /\ ~q.onto => q.modified /\ r \in Carried(q)
  /\ ~q.flashed => r \notin Carried(q)
  /\ Carried(q0) \subseteq Carried(q) /\ Carried(q) \subseteq Carried(q0) \cup {r}

LEMMA FlashMidway ==
  ASSUME NEW r \in AllRequests, NEW q0, NEW q, Midway(r, q0, q), ~q.flashed, Uses("sessions")
  PROVE  Midway(r, q0, Flash(q, r))
<1>1. PICK p : p = Flash(q, r)
  OBVIOUS
<1>2. PICK s, x : s = q.session /\ x = Append(s.flash, r)
  OBVIOUS
<1>3. /\ DOMAIN p = DOMAIN Unsent /\ p.session = [s EXCEPT !.flash = x]
      /\ p.popped = q.popped /\ p.flashed
  BY <1>1, <1>2 DEF Flash, Midway, Unsent
<1>4. p.onto = (q.session.flash # <<>>)
  BY <1>1 DEF Flash, Midway, Unsent
<1>5. p.modified = (q.modified \/ q.session.flash = <<>>)
  BY <1>1 DEF Flash, Midway, Unsent
<1>6. IsSession(p.session) /\ p.session.flash = x
  BY <1>2, <1>3 DEF Midway, IsSession
<1>7. x \in Seq(AllRequests) /\ Range(x) = Range(s.flash) \cup {r}
  BY <1>2, AppendProperties, RangeOfAppend DEF Midway
<1>8. r \notin Range(q.session.flash) /\ r \notin Range(q.popped)
  BY DEF Midway, Carried
<1>9. /\ ~p.onto => p.modified
      /\ q.modified => p.modified
  BY <1>4, <1>5
<1>10. Carried(p) = Carried(q) \cup {r}
  BY <1>2, <1>3, <1>6, <1>7 DEF Carried
<1>11. Range(p.session.flash) \cap Range(p.popped) = {}
  BY <1>2, <1>3, <1>6, <1>7, <1>8 DEF Midway
<1>12. Range(p.popped) # {} => p.modified
  BY <1>3, <1>9 DEF Midway
<1>13. p.popped \in Seq(AllRequests)
  BY <1>3 DEF Midway
<1>14. Carried(q0) \subseteq Carried(p) /\ Carried(p) \subseteq Carried(q0) \cup {r}
  BY <1>10 DEF Midway
<1> QED BY <1>1, <1>3, <1>6, <1>7, <1>9, <1>10, <1>11, <1>12, <1>13, <1>14 DEF Midway

LEMMA PopMidway ==
  ASSUME NEW r \in AllRequests, NEW q0, NEW q, Midway(r, q0, q), Uses("sessions")
  PROVE  Midway(r, q0, PopFlash(q)) /\ PopFlash(q).flashed = q.flashed
<1>1. PICK p : p = PopFlash(q)
  OBVIOUS
<1>2. PICK s, x : s = q.session /\ x = q.popped \o s.flash
  OBVIOUS
<1>3. /\ DOMAIN p = DOMAIN Unsent /\ p.session = [s EXCEPT !.flash = <<>>]
      /\ p.popped = x /\ p.flashed = q.flashed /\ p.onto = q.onto /\ p.modified = TRUE
  BY <1>1, <1>2 DEF PopFlash, Midway, Unsent
<1>4. IsSession(p.session) /\ p.session.flash = <<>>
  BY <1>2, <1>3 DEF Midway, IsSession
<1>5. x \in Seq(AllRequests) /\ Range(x) = Range(q.popped) \cup Range(s.flash)
  BY <1>2, ConcatProperties, RangeOfConcat DEF Midway
<1>6. <<>> \in Seq(AllRequests) /\ Range(<<>>) = {}
  BY EmptySeq, NothingToRead
<1>7. Carried(p) = Carried(q)
  BY <1>2, <1>3, <1>4, <1>5, <1>6 DEF Carried
<1> QED BY <1>1, <1>3, <1>4, <1>5, <1>6, <1>7 DEF Midway

LEMMA DoMidway ==
  ASSUME NEW r \in AllRequests, NEW q0, NEW q, Midway(r, q0, q), NEW op \in HandlerCalls,
         op = <<"flash">> => ~q.flashed
  PROVE  /\ Midway(r, q0, [q EXCEPT !.raised = TRUE]) /\ Midway(r, q0, Do(q, r, op))
         /\ [q EXCEPT !.raised = TRUE].flashed = q.flashed
         /\ Do(q, r, op).flashed => q.flashed \/ op = <<"flash">>
<1>1. ASSUME NEW p, \/ p = [q EXCEPT !.raised = TRUE]
                    \/ p = [q EXCEPT !.redirects = TRUE]
      PROVE  Midway(r, q0, p) /\ p.flashed = q.flashed
  <2>1. /\ DOMAIN p = DOMAIN Unsent /\ p.session = q.session /\ p.popped = q.popped
        /\ p.flashed = q.flashed /\ p.onto = q.onto /\ p.modified = q.modified
    BY <1>1 DEF Midway, Unsent
  <2> QED BY <2>1 DEF Midway, Carried
<1>2. op[1] = "flash" => op = <<"flash">>
  BY DEF HandlerCalls
<1>3. CASE op[1] = "flash" /\ Uses("sessions")
  BY <1>1, <1>2, <1>3, FlashMidway DEF Do
<1>4. CASE op[1] = "show" /\ Uses("sessions")
  <2>1. Do(q, r, op) = PopFlash(q)
    BY <1>4 DEF Do
  <2> QED BY <1>1, <1>4, <2>1, PopMidway
<1>5. CASE ~(op[1] = "flash" /\ Uses("sessions")) /\ ~(op[1] = "show" /\ Uses("sessions"))
  <2>1. \/ Do(q, r, op) = [q EXCEPT !.raised = TRUE]
        \/ Do(q, r, op) = [q EXCEPT !.redirects = TRUE]
        \/ Do(q, r, op) = q
    BY <1>5 DEF Do
  <2> QED BY <1>1, <2>1
<1> QED BY <1>3, <1>4, <1>5

LEMMA CallsMidway ==
  ASSUME NEW r \in AllRequests, Carries(r, req[r]), Untouched(req[r]),
         NEW ops \in Seq(HandlerCalls), NEW made,
         \A i, j \in DOMAIN ops : ops[i] = <<"flash">> /\ ops[j] = <<"flash">> => i = j
  PROVE  Midway(r, req[r], Calls(r, ops, made).q)
<1>1. PICK n \in Nat : n = Len(ops)
  BY LenProperties
<1>4. DOMAIN ops = 1..n
  BY <1>1, LenProperties
<1>2. PICK f : /\ f[0] = Begun(r) /\ Calls(r, ops, made) = f[n]
               /\ \A i \in 1..n : f[i] = Call(f[i - 1], r, ops[i], made)
  BY <1>1, CallsInTurn
<1>3. PICK q0 : q0 = req[r]
  OBVIOUS
<1> DEFINE Flashed(i) == \E j \in 1..i : ops[j] = <<"flash">>
<1> DEFINE N == {i \in Nat : i <= n => Midway(r, q0, f[i].q) /\ (f[i].q.flashed => Flashed(i))}
<1>5. 0 \in N
  <2>1. Midway(r, q0, q0) /\ ~q0.flashed
    BY <1>3, NothingToRead DEF Midway, Carries, Untouched
  <2>2. f[0].q = q0
    BY <1>2, <1>3 DEF Begun
  <2> QED BY <2>1, <2>2
<1>6. ASSUME NEW i \in N PROVE i + 1 \in N
  <2>1. CASE i + 1 <= n
    <3>1. i + 1 \in 1..n /\ (i + 1) - 1 = i /\ i <= n /\ i \in Nat
      BY <2>1
    <3>2. PICK op \in HandlerCalls : op = ops[i + 1]
      BY <1>1, <3>1, ElementOfSeq
    <3>3. PICK t : t = f[i]
      OBVIOUS
    <3>4. f[i + 1] = Call(t, r, op, made)
      BY <1>2, <3>1, <3>2, <3>3
    <3>5. Midway(r, q0, t.q) /\ (t.q.flashed => Flashed(i))
      BY <3>1, <3>3
    <3>6. op = <<"flash">> => ~t.q.flashed
      <4>1. \A j \in 1..i : j \in 1..n /\ j # i + 1
        BY <3>1
      <4> QED BY <1>4, <3>1, <3>2, <3>5, <4>1
    <3>7. Call(t, r, op, made).q \in {t.q, [t.q EXCEPT !.raised = TRUE], Do(t.q, r, op)}
      BY DEF Call
    <3>8. PICK p : p = f[i + 1].q
      OBVIOUS
    <3>9. Midway(r, q0, p) /\ (p.flashed => t.q.flashed \/ op = <<"flash">>)
      <4>1. PICK q : q = t.q
        OBVIOUS
      <4>2. Midway(r, q0, q) /\ (op = <<"flash">> => ~q.flashed)
        BY <3>5, <3>6, <4>1
      <4>3. /\ Midway(r, q0, [q EXCEPT !.raised = TRUE]) /\ Midway(r, q0, Do(q, r, op))
            /\ [q EXCEPT !.raised = TRUE].flashed = q.flashed
            /\ Do(q, r, op).flashed => q.flashed \/ op = <<"flash">>
        BY <4>2, DoMidway
      <4>4. p \in {q, [q EXCEPT !.raised = TRUE], Do(q, r, op)}
        BY <3>4, <3>7, <3>8, <4>1
      <4> QED BY <4>1, <4>2, <4>3, <4>4
    <3>10. Flashed(i) \/ op = <<"flash">> => Flashed(i + 1)
      <4>1. \A j \in 1..i : j \in 1..(i + 1)
        BY <3>1
      <4>2. i + 1 \in 1..(i + 1)
        BY <3>1
      <4> QED BY <3>2, <4>1, <4>2
    <3> QED BY <3>1, <3>5, <3>8, <3>9, <3>10
  <2> QED BY <2>1
<1>7. N = Nat
  <2> HIDE DEF N
  <2> QED BY <1>5, <1>6, AllNumbers DEF N
<1> QED BY <1>2, <1>3, <1>7

\* One request of a browser becomes another that is under way; it has what was
\* due, and nothing that a request has read.
LEMMA OneFlies ==
  ASSUME FlashInv, NEW b \in Browsers, NEW r \in AllRequests, req[r].at # "done",
         ~req[r].flashed, NEW p, req' = [req EXCEPT ![r] = p], p.b = b, Carries(r, p),
         p.life \in Nat, UNCHANGED <<jar, life>>,
         overlap' = [d \in Browsers |-> overlap'[d]],
         \A d \in Browsers : overlap'[d] = "none" => overlap[d] = "none",
         \A m \in Carried(p) : m = r \/ req[m].flashed,
         overlap'[b] = "none" =>
           /\ Flying(b) \subseteq {r}
           /\ \A m \in Carried(p) : ReadWell(b, m) = {}
           /\ p.life <= life[b] /\ \A o \in Done(b) : req[o].life <= p.life
           /\ \A o \in Done(b) : Due(o, b) => SeenBy(b, o) # {} \/ o \in Carried(p)
  PROVE  FlashInv'
<1>1. req' = [q \in AllRequests |-> IF q = r THEN p ELSE req[q]]
  BY DEF FlashInv
<1>2. req' = [q \in AllRequests |-> req'[q]] /\ req'[r] = p
      /\ \A q \in AllRequests : q # r => req'[q] = req[q]
  BY <1>1
<1>3. p.at \notin {"unsent", "done"} /\ (p.flashed => Uses("sessions"))
      /\ (~p.flashed => r \notin Carried(p))
  BY DEF Carries
<1>4. \A d \in Browsers : \A q \in Flying(d)' :
        /\ q \in AllRequests /\ (q = r => d = b)
        /\ q # r => q \in Flying(d) /\ req'[q] = req[q]
  BY <1>2 DEF Flying
<1>5. ASSUME NEW d \in Browsers
      PROVE  /\ Done(d)' = Done(d)
             /\ \A o \in Done(d) : o \in AllRequests /\ req'[o] = req[o]
  BY <1>2, <1>3 DEF Done
<1>6. ASSUME NEW d \in Browsers, NEW m
      PROVE  SeenBy(d, m)' = SeenBy(d, m) /\ ReadWell(d, m)' = ReadWell(d, m)
  BY <1>5 DEF SeenBy, ReadWell
<1>7. ASSUME NEW d \in Browsers, NEW o \in Done(d)
      PROVE  Due(o, d)' <=> Due(o, d)
  BY <1>5 DEF Due
<1>8. ASSUME NEW d \in Browsers, overlap'[d] = "none"
      PROVE  Quiet(d)'
  <2>1. Quiet(d)
    BY <1>8 DEF FlashInv
  <2>2. CASE d = b
    <3>1. \A q \in Flying(d)' : q = r
      BY <1>4, <1>8, <2>2
    <3>2. \A q \in Flying(d)' : \A m \in Carried(req'[q]) : ReadWell(d, m) = {}
      BY <1>2, <1>8, <2>2, <3>1
    <3>3. \A q \in Flying(d)' : /\ req'[q].life <= life[d]
                                /\ \A o \in Done(d) : req[o].life <= req'[q].life
      BY <1>2, <1>8, <2>2, <3>1
    <3>4. ASSUME NEW o \in Done(d), Due(o, d)
          PROVE  \/ SeenBy(d, o) # {}
                 \/ o \in Range(jar[d].flash) /\ \A q \in Flying(d)' : o \in Carried(req'[q])
      BY <1>2, <1>8, <2>1, <2>2, <3>1, <3>4 DEF Quiet
    <3>5. \A q \in Flying(d)' : \A o \in Flying(d)' : q = o
      BY <3>1
    <3>6. \A q \in Flying(d)' : /\ req'[q].life <= life'[d]
                                /\ \A o \in Done(d)' : req'[o].life <= req'[q].life
      BY <1>5, <3>3
    <3>7. \A o \in Done(d)' : Due(o, d)' =>
            \/ SeenBy(d, o)' # {}
            \/ o \in Range(jar'[d].flash) /\ \A q \in Flying(d)' : o \in Carried(req'[q])
      BY <1>5, <1>6, <1>7, <3>4
    <3>8. \A q \in Flying(d)' : \A m \in Carried(req'[q]) : ReadWell(d, m)' = {}
      BY <1>6, <3>2
    <3>9. /\ \A m \in AllRequests : \A o, q \in ReadWell(d, m)' : o = q
          /\ \A m \in Range(jar'[d].flash) : ReadWell(d, m)' = {}
      BY <1>6, <2>1 DEF Quiet
    <3>10. \A o \in Done(d)' : req'[o].life <= life'[d]
      BY <1>5, <2>1 DEF Quiet
    <3> QED BY <3>5, <3>6, <3>7, <3>8, <3>9, <3>10 DEF Quiet, Carried
  <2>3. CASE d # b
    <3>1. \A q \in Flying(d)' : q \in Flying(d) /\ req'[q] = req[q]
      BY <1>4, <2>3
    <3>5. \A q, o \in Flying(d)' : q = o
      BY <2>1, <3>1 DEF Quiet
    <3>6. \A q \in Flying(d)' : /\ req'[q].life <= life'[d]
                                /\ \A o \in Done(d)' : req'[o].life <= req'[q].life
      BY <1>5, <2>1, <3>1 DEF Quiet
    <3>7. \A o \in Done(d)' : Due(o, d)' =>
            \/ SeenBy(d, o)' # {}
            \/ o \in Range(jar'[d].flash) /\ \A q \in Flying(d)' : o \in Carried(req'[q])
      BY <1>5, <1>6, <1>7, <2>1, <3>1 DEF Quiet
    <3>8. \A q \in Flying(d)' : \A m \in Carried(req'[q]) : ReadWell(d, m)' = {}
      BY <1>6, <2>1, <3>1 DEF Quiet
    <3>9. /\ \A m \in AllRequests : \A o, q \in ReadWell(d, m)' : o = q
          /\ \A m \in Range(jar'[d].flash) : ReadWell(d, m)' = {}
      BY <1>6, <2>1 DEF Quiet
    <3>10. \A o \in Done(d)' : req'[o].life <= life'[d]
      BY <1>5, <2>1 DEF Quiet
    <3> QED BY <3>5, <3>6, <3>7, <3>8, <3>9, <3>10 DEF Quiet, Carried
  <2> QED BY <2>2, <2>3
<1>9. ASSUME NEW q \in AllRequests
      PROVE  /\ req'[q].at \notin {"unsent", "done"} => Carries(q, req'[q])
             /\ req'[q].at = "unsent" => ~req'[q].flashed /\ req'[q].popped = <<>>
             /\ req'[q].at # "unsent" => req'[q].b \in Browsers
             /\ req'[q].life \in Nat
             /\ req'[q].flashed => Uses("sessions")
             /\ ~req'[q].flashed => /\ \A d \in Browsers : q \notin Range(jar'[d].flash)
                                    /\ \A o \in AllRequests : q \notin Carried(req'[o])
  <2>1. ~req'[q].flashed => ~req[q].flashed
    BY <1>2
  <2>2. ASSUME ~req'[q].flashed, NEW o \in AllRequests
        PROVE  q \notin Carried(req'[o])
    <3>1. CASE o = r
      <4>1. q \in Carried(p) => q = r \/ req[q].flashed
        OBVIOUS
      <4> QED BY <1>2, <1>3, <2>1, <2>2, <3>1, <4>1
    <3>2. CASE o # r
      BY <1>2, <2>1, <2>2, <3>2 DEF FlashInv
    <3> QED BY <3>1, <3>2
  <2>3. ~req'[q].flashed => \A d \in Browsers : q \notin Range(jar'[d].flash)
    BY <2>1 DEF FlashInv
  <2>4. CASE q = r
    BY <1>2, <1>3, <2>2, <2>3, <2>4
  <2>5. CASE q # r
    <3>1. req'[q] = req[q]
      BY <1>2, <2>5
    <3>2. /\ req[q].at \notin {"unsent", "done"} => Carries(q, req[q])
          /\ req[q].at = "unsent" => ~req[q].flashed /\ req[q].popped = <<>>
          /\ req[q].at # "unsent" => req[q].b \in Browsers
          /\ req[q].life \in Nat
          /\ req[q].flashed => Uses("sessions")
      BY DEF FlashInv
    <3> QED BY <2>2, <2>3, <3>1, <3>2
  <2> QED BY <2>4, <2>5
<1>10. \A q \in AllRequests : req'[q].at \notin {"unsent", "done"} => Carries(q, req[q])'
  BY <1>9 DEF Carries, Carried
<1>11. \A q \in AllRequests : ~req'[q].flashed =>
         /\ \A d \in Browsers : q \notin Range(jar'[d].flash)
         /\ \A o \in AllRequests : q \notin Carried(req[o])'
  BY <1>9 DEF Carried
<1>12. /\ jar' = [d \in Browsers |-> jar'[d]] /\ life' = [d \in Browsers |-> life'[d]]
       /\ \A d \in Browsers : /\ IsSession(jar'[d]) /\ jar'[d].flash \in Seq(AllRequests)
                              /\ life'[d] \in Nat
  BY DEF FlashInv
<1> QED BY <1>2, <1>8, <1>9, <1>10, <1>11, <1>12 DEF FlashInv, IsSession

\* One that is under way goes on with what it has, and perhaps its own message.
LEMMA SameFlies ==
  ASSUME FlashInv, NEW r \in AllRequests, req[r].at \notin {"unsent", "done"},
         ~req[r].flashed, NEW p, req' = [req EXCEPT ![r] = p], p.b = req[r].b,
         p.life = req[r].life, Carries(r, p), UNCHANGED <<jar, life, overlap>>,
         Carried(req[r]) \subseteq Carried(p), Carried(p) \subseteq Carried(req[r]) \cup {r}
  PROVE  FlashInv'
<1>1. PICK b \in Browsers : b = req[r].b
  BY DEF FlashInv
<1>2. r \in Flying(b) /\ Carries(r, req[r])
  BY <1>1 DEF Flying, FlashInv
<1>3. \A m \in Carried(req[r]) : m \in AllRequests /\ req[m].flashed
  <2>1. \A m \in Carried(req[r]) : m \in AllRequests
    <3>1. PICK s \in Seq(AllRequests), u \in Seq(AllRequests) :
            s = req[r].session.flash /\ u = req[r].popped
      BY <1>2 DEF Carries
    <3>2. Range(s) \subseteq AllRequests /\ Range(u) \subseteq AllRequests
      BY RangeWithin
    <3> QED BY <3>1, <3>2 DEF Carried
  <2> QED BY <2>1 DEF FlashInv
<1>4. \A m \in Carried(p) : m = r \/ req[m].flashed
  BY <1>3
<1>5. ReadWell(b, r) = {}
  <2>1. \A q \in AllRequests : r \notin Carried(req[q])
    BY DEF FlashInv
  <2> QED BY <2>1 DEF ReadWell, SeenBy, Done, Carried
<1>6. ASSUME overlap'[b] = "none"
      PROVE  /\ Flying(b) \subseteq {r}
             /\ \A m \in Carried(p) : ReadWell(b, m) = {}
             /\ p.life <= life[b] /\ \A o \in Done(b) : req[o].life <= p.life
             /\ \A o \in Done(b) : Due(o, b) => SeenBy(b, o) # {} \/ o \in Carried(p)
  <2>1. Quiet(b)
    BY <1>6 DEF FlashInv
  <2>2. Flying(b) \subseteq {r}
    BY <1>2, <2>1 DEF Quiet
  <2>3. \A m \in Carried(p) : ReadWell(b, m) = {}
    BY <1>2, <1>5, <2>1 DEF Quiet
  <2>4. p.life <= life[b] /\ \A o \in Done(b) : req[o].life <= p.life
    BY <1>2, <2>1 DEF Quiet
  <2>5. \A o \in Done(b) : Due(o, b) => SeenBy(b, o) # {} \/ o \in Carried(p)
    BY <1>2, <2>1 DEF Quiet
  <2> QED BY <2>2, <2>3, <2>4, <2>5
<1>7. /\ overlap' = [d \in Browsers |-> overlap'[d]] /\ p.life \in Nat
      /\ \A d \in Browsers : overlap'[d] = "none" => overlap[d] = "none"
  BY DEF FlashInv
<1> QED BY <1>1, <1>4, <1>6, <1>7, OneFlies

LEMMA RequestFlash ==
  ASSUME FlashInv, NEW b \in Browsers, NEW r \in AllRequests, NEW route \in Routes,
         NEW from \in tabs[b] \cup {NoPage}, Request(b, r, route, from)
  PROVE  FlashInv'
<1>1. PICK q : q = [Unsent EXCEPT !.at = "new", !.b = b, !.route = route, !.from = from,
                                  !.etag = copy[b][route], !.life = life[b]]
  OBVIOUS
<1>2. PICK e : e = Enter(q, r, jar[b])
  OBVIOUS
<1>3. /\ req[r].at = "unsent" /\ ~req[r].flashed /\ r \notin Range(jar[b].flash)
      /\ IsSession(jar[b]) /\ jar[b].flash \in Seq(AllRequests) /\ life[b] \in Nat
  BY DEF FlashInv, Request
<1>4. /\ Carries(r, e) /\ Untouched(e) /\ e.b = b /\ e.life = life[b]
      /\ Carried(e) \subseteq Range(jar[b].flash)
      /\ Uses("sessions") => Carried(e) = Range(jar[b].flash)
  <2>1. /\ DOMAIN q = DOMAIN Unsent /\ Untouched(q) /\ ~q.modified /\ q.b = b
        /\ q.life = life[b]
    BY <1>1 DEF Unsent, Untouched
  <2>2. PICK j : j = jar[b]
    OBVIOUS
  <2>3. /\ IsSession(j) /\ j.flash \in Seq(AllRequests) /\ r \notin Range(j.flash)
    BY <1>3, <2>2
  <2>4. /\ Carries(r, Enter(q, r, j)) /\ Untouched(Enter(q, r, j))
        /\ Enter(q, r, j).b = q.b /\ Enter(q, r, j).life = q.life
        /\ Carried(Enter(q, r, j)) \subseteq Range(j.flash)
        /\ Uses("sessions") => Carried(Enter(q, r, j)) = Range(j.flash)
    BY <2>1, <2>3, EnterCarries
  <2> QED BY <1>2, <2>1, <2>2, <2>4
<1>5. Dispatch(r, e)
  BY <1>1, <1>2 DEF Request
<1>6. PICK p : req' = [req EXCEPT ![r] = p] /\ Carries(r, p) /\ Passes(e, p)
  BY <1>4, <1>5, DispatchCarries
<1>7. p.b = b /\ p.life = life[b] /\ Carried(p) = Carried(e)
  BY <1>4, <1>6 DEF Passes, Carried
<1>8. \A m \in Carried(p) : req[m].flashed
  <2>1. Range(jar[b].flash) \subseteq AllRequests
    BY <1>3, RangeWithin
  <2> QED BY <1>4, <1>7, <2>1 DEF FlashInv
<1>9. /\ overlap' = [d \in Browsers |-> overlap'[d]]
      /\ \A d \in Browsers : overlap'[d] = "none" => overlap[d] = "none"
      /\ overlap'[b] = "none" => Flying(b) = {}
  <2>1. PICK o : /\ overlap' = [overlap EXCEPT ![b] = o]
                 /\ o = "none" => overlap[b] = "none" /\ Flying(b) = {}
    <3>1. PICK o : o = CASE Flying(b) = {} -> overlap[b]
                         [] Flying(b) # {} /\ jar[b] = Empty -> "raced"
                         [] Flying(b) # {} /\ jar[b] # Empty ->
                              IF overlap[b] = "none" THEN "kept" ELSE overlap[b]
      OBVIOUS
    <3>2. overlap' = [overlap EXCEPT ![b] = o]
      BY <3>1 DEF Request
    <3>3. o = "none" => overlap[b] = "none" /\ Flying(b) = {}
      BY <3>1
    <3> QED BY <3>2, <3>3
  <2>2. overlap' = [d \in Browsers |-> IF d = b THEN o ELSE overlap[d]]
    BY <2>1 DEF FlashInv
  <2> QED BY <2>1, <2>2
<1>10. ASSUME overlap'[b] = "none"
       PROVE  /\ Flying(b) \subseteq {r}
              /\ \A m \in Carried(p) : ReadWell(b, m) = {}
              /\ p.life <= life[b] /\ \A o \in Done(b) : req[o].life <= p.life
              /\ \A o \in Done(b) : Due(o, b) => SeenBy(b, o) # {} \/ o \in Carried(p)
  <2>1. Quiet(b)
    BY <1>9, <1>10 DEF FlashInv
  <2>2. \A m \in Carried(p) : ReadWell(b, m) = {}
    BY <1>4, <1>7, <2>1 DEF Quiet
  <2>3. p.life <= life[b] /\ \A o \in Done(b) : req[o].life <= p.life
    BY <1>3, <1>7, <2>1 DEF Quiet
  <2>4. ASSUME NEW o \in Done(b), Due(o, b), SeenBy(b, o) = {} PROVE o \in Carried(p)
    <3>1. o \in Range(jar[b].flash)
      BY <2>1, <2>4 DEF Quiet
    <3>2. Uses("sessions")
      BY <2>4 DEF Due, Done, FlashInv
    <3> QED BY <1>4, <1>7, <3>1, <3>2
  <2> QED BY <1>9, <1>10, <2>2, <2>3, <2>4
<1>11. UNCHANGED <<jar, life>>
  BY DEF Request, browserVars
<1>12. req[r].at # "done" /\ p.life \in Nat
  BY <1>3, <1>7
<1>13. \A m \in Carried(p) : m = r \/ req[m].flashed
  BY <1>8
<1> QED BY <1>3, <1>6, <1>7, <1>9, <1>10, <1>11, <1>12, <1>13, OneFlies

LEMMA ReadBodyFlash ==
  ASSUME FlashInv, NEW r \in AllRequests, ReadBody(r)
  PROVE  FlashInv'
<1>1. req[r].at = "body" /\ Carries(r, req[r])
  BY DEF ReadBody, FlashInv
<1>2. PICK q : q = req[r]
  OBVIOUS
<1>3. Untouched(q) /\ Carries(r, q)
  <2>1. q.popped \in Seq(AllRequests) /\ Range(q.popped) = {} /\ ~q.flashed
    BY <1>1, <1>2 DEF Carries
  <2>2. q.popped = <<>>
    BY <2>1, RangeOfEmpty
  <2> QED BY <1>1, <1>2, <2>1, <2>2 DEF Untouched
<1>4. Carries(r, Checked(q)) /\ Passes(q, Checked(q)) /\ Untouched(Checked(q))
  BY <1>3, CheckedCarries
<1>5. PICK p : req' = [req EXCEPT ![r] = p] /\ Carries(r, p) /\ Passes(Checked(q), p)
  BY <1>2, <1>4, DispatchCarries DEF ReadBody
<1>6. Passes(q, p)
  BY <1>4, <1>5 DEF Passes
<1>7. p.b = q.b /\ p.life = q.life /\ Carried(p) = Carried(q)
  BY <1>6 DEF Passes, Carried
<1>8. UNCHANGED <<jar, life, overlap>>
  BY DEF ReadBody, browserVars
<1>9. ~q.flashed
  BY <1>3 DEF Untouched
<1>10. req[r].at \notin {"unsent", "done"}
  BY <1>1
<1> QED BY <1>2, <1>5, <1>7, <1>8, <1>9, <1>10, SameFlies

LEMMA ResumeFlash ==
  ASSUME FlashInv, MissingInv, NEW r \in AllRequests, Resume(r)
  PROVE  FlashInv'
<1>1. req[r].at = "loader" /\ Carries(r, req[r])
  BY DEF Resume, FlashInv
<1>2. PICK q0 : q0 = req[r]
  OBVIOUS
<1>3. Untouched(q0) /\ Formed(q0)
  <2>1. q0.popped \in Seq(AllRequests) /\ Range(q0.popped) = {} /\ ~q0.flashed
    BY <1>1, <1>2 DEF Carries
  <2>2. q0.popped = <<>>
    BY <2>1, RangeOfEmpty
  <2> QED BY <1>1, <1>2, <2>1, <2>2 DEF Untouched, Formed, Carries
<1>4. PICK ops \in Behaviours[req[r].route], made \in MayMake :
        LET t == Calls(r, ops, made)
        IN req' = [req EXCEPT ![r] = Handle(t.q, t.s, made).q]
  BY DEF Resume
<1>5. req[r].route \in Routes
  BY <1>1 DEF MissingInv, Sound
<1>6. ops \in Seq(HandlerCalls)
  BY <1>5, WebAssumption
<1>7. \A i, j \in DOMAIN ops : ops[i] = <<"flash">> /\ ops[j] = <<"flash">> => i = j
  BY <1>5, WebAssumption
<1>8. PICK t : t = Calls(r, ops, made)
  OBVIOUS
<1>9. PICK q : q = t.q
  OBVIOUS
<1>10. Midway(r, q0, q)
  BY <1>1, <1>2, <1>3, <1>6, <1>7, <1>8, <1>9, CallsMidway
<1>11. Keeps(q0, q)
  BY <1>2, <1>3, <1>6, <1>8, <1>9, CallsKeep
<1>12. PICK p : p = Handle(q, t.s, made).q
  OBVIOUS
<1>13. Honestly(q, p)
  <2>1. Formed(q)
    BY <1>11 DEF Formed, Keeps
  <2> QED BY <1>12, <2>1, HandleHonest
<1>14. /\ p.b = q0.b /\ p.life = q0.life /\ p.session = q.session /\ p.popped = q.popped
       /\ p.flashed = q.flashed /\ p.onto = q.onto /\ p.modified = q.modified
       /\ DOMAIN p = DOMAIN Unsent /\ p.at = "replied" /\ p.status # "403"
       /\ p.status # "500" /\ Uses("sessions") /\ p.modified => p.sets
  BY <1>11, <1>13 DEF Honestly, Keeps, Delivers, Honest
<1>15. Carried(p) = Carried(q)
  BY <1>14 DEF Carried
<1>16. Carries(r, p)
  BY <1>10, <1>14, <1>15 DEF Carries, Midway
<1>17. Carried(q0) \subseteq Carried(p) /\ Carried(p) \subseteq Carried(q0) \cup {r}
  BY <1>10, <1>15 DEF Midway
<1>18. UNCHANGED <<jar, life, overlap>>
  BY DEF Resume, browserVars
<1>19. req' = [req EXCEPT ![r] = p]
  BY <1>4, <1>8, <1>9, <1>12
<1>20. ~q0.flashed /\ q0.at \notin {"unsent", "done"}
  BY <1>1, <1>2, <1>3 DEF Untouched
<1> QED BY <1>2, <1>14, <1>16, <1>17, <1>18, <1>19, <1>20, SameFlies

\* What does not change a request keeps what holds of it.
LEMMA RequestsStay ==
  ASSUME FlashInv, UNCHANGED <<overlap, req>>,
         jar' = [d \in Browsers |-> jar'[d]], life' = [d \in Browsers |-> life'[d]],
         \A d \in Browsers : /\ IsSession(jar'[d]) /\ jar'[d].flash \in Seq(AllRequests)
                             /\ life'[d] \in Nat,
         \A d \in Browsers : overlap[d] = "none" => Quiet(d)',
         \A r \in AllRequests :
           ~req[r].flashed => \A d \in Browsers : r \notin Range(jar'[d].flash)
  PROVE  FlashInv'
<1>1. \A r \in AllRequests : req'[r] = req[r] /\ (Carries(r, req[r])' <=> Carries(r, req[r]))
  BY DEF Carries, Carried, IsSession
<1>2. \A r \in AllRequests : Carried(req[r])' = Carried(req[r])
  BY DEF Carried
<1>3. \A d \in Browsers : IsSession(jar[d])'
  BY DEF IsSession
<1>4. \A r \in AllRequests :
        /\ req'[r].at \notin {"unsent", "done"} => Carries(r, req[r])'
        /\ req'[r].at = "unsent" => ~req'[r].flashed /\ req'[r].popped = <<>>
        /\ req'[r].at # "unsent" => req'[r].b \in Browsers
        /\ req'[r].life \in Nat
        /\ req'[r].flashed => Uses("sessions")
        /\ ~req'[r].flashed => /\ \A d \in Browsers : r \notin Range(jar'[d].flash)
                               /\ \A p \in AllRequests : r \notin Carried(req[p])'
  BY <1>1, <1>2 DEF FlashInv
<1>5. /\ overlap' = [d \in Browsers |-> overlap'[d]]
      /\ req' = [r \in AllRequests |-> req'[r]]
  BY DEF FlashInv
<1>6. \A d \in Browsers : /\ jar'[d].flash \in Seq(AllRequests) /\ life'[d] \in Nat
                          /\ overlap'[d] = "none" => Quiet(d)'
  OBVIOUS
<1> QED BY <1>3, <1>4, <1>5, <1>6 DEF FlashInv

\* With an answer what it has read is read, and what it has not is in the cookie.
LEMMA ReceiveFlash ==
  ASSUME FlashInv, NEW r \in AllRequests, Receive(r)
  PROVE  FlashInv'
<1>1. PICK q, b : b \in Browsers /\ q = req[r] /\ b = q.b
  BY DEF Receive, FlashInv
<1>2. PICK a : a = Answered(q)
  OBVIOUS
<1>3. /\ q.at = "replied" /\ r \in Flying(b) /\ Carries(r, q)
      /\ jar' = IF q.sets THEN [jar EXCEPT ![b] = q.session] ELSE jar
      /\ req' = [req EXCEPT ![r] = a] /\ UNCHANGED <<overlap, life>>
  BY <1>1, <1>2 DEF Receive, Flying, FlashInv
<1>4. /\ a.at = "done" /\ a.b = b /\ a.life = q.life /\ a.popped = q.popped
      /\ a.flashed = q.flashed /\ a.onto = q.onto /\ a.session = Empty
      /\ a.status = "500" <=> q.status = "500"
  BY <1>1, <1>2 DEF Answered, Unsent
<1>5. Carried(a) \subseteq Carried(q)
  <2>1. Range(Empty.flash) = {}
    BY NothingToRead DEF Empty
  <2> QED BY <1>4, <2>1 DEF Carried
<1>6. /\ req' = [p \in AllRequests |-> req'[p]] /\ req'[r] = a
      /\ \A p \in AllRequests : p # r => req'[p] = req[p]
  <2>1. req' = [p \in AllRequests |-> IF p = r THEN a ELSE req[p]]
    BY <1>3 DEF FlashInv
  <2> QED BY <2>1
<1>7. /\ jar' = [d \in Browsers |-> jar'[d]] /\ \A d \in Browsers : d # b => jar'[d] = jar[d]
      /\ jar'[b] = IF q.sets THEN q.session ELSE jar[b]
  <2>1. PICK new : new = IF q.sets THEN q.session ELSE jar[b]
    OBVIOUS
  <2>2. jar' = [d \in Browsers |-> IF d = b THEN new ELSE jar[d]]
    BY <1>3, <2>1 DEF FlashInv
  <2> QED BY <1>1, <2>1, <2>2
<1>8. \A d \in Browsers : \A p \in Flying(d)' : p # r /\ p \in Flying(d) /\ req'[p] = req[p]
  BY <1>4, <1>6 DEF Flying
<1>9. /\ r \notin Done(b) /\ Done(b)' = Done(b) \cup {r}
      /\ \A d \in Browsers : d # b => Done(d)' = Done(d)
      /\ \A d \in Browsers : \A o \in Done(d) : o \in AllRequests /\ req'[o] = req[o]
  BY <1>1, <1>3, <1>4, <1>6 DEF Done
<1>10. \A m : /\ SeenBy(b, m)' = SeenBy(b, m) \cup (IF m \in Range(q.popped) THEN {r} ELSE {})
              /\ ReadWell(b, m)' \subseteq
                   ReadWell(b, m) \cup (IF m \in Range(q.popped) /\ q.status # "500"
                                        THEN {r} ELSE {})
  <2>1. ASSUME NEW m, NEW o
        PROVE  o \in SeenBy(b, m)' <=> o \in SeenBy(b, m) \/ (o = r /\ m \in Range(q.popped))
    <3>1. o \in SeenBy(b, m)' <=> o \in Done(b)' /\ m \in Range(req'[o].popped)
      BY DEF SeenBy
    <3>2. CASE o = r
      <4>1. o \in Done(b)' /\ req'[o].popped = q.popped /\ o \notin SeenBy(b, m)
        BY <1>4, <1>6, <1>9, <3>2 DEF SeenBy
      <4> QED BY <3>1, <3>2, <4>1
    <3>3. CASE o # r
      <4>1. o \in Done(b)' <=> o \in Done(b)
        BY <1>9, <3>3
      <4>2. o \in Done(b) => req'[o] = req[o]
        BY <1>1, <1>9
      <4> QED BY <3>1, <3>3, <4>1, <4>2 DEF SeenBy
    <3> QED BY <3>2, <3>3
  <2>2. ASSUME NEW m, NEW o \in ReadWell(b, m)'
        PROVE  o \in ReadWell(b, m) \/ (o = r /\ m \in Range(q.popped) /\ q.status # "500")
    <3>1. o \in SeenBy(b, m)' /\ req'[o].status # "500"
      BY <2>2 DEF ReadWell
    <3>2. CASE o = r
      <4>1. req'[o].status # "500" => q.status # "500"
        BY <1>4, <1>6, <3>2
      <4>2. o \notin SeenBy(b, m)
        BY <1>9, <3>2 DEF SeenBy
      <4> QED BY <2>1, <3>1, <3>2, <4>1, <4>2
    <3>3. CASE o # r
      <4>1. o \in SeenBy(b, m)
        BY <2>1, <3>1, <3>3
      <4>2. req'[o] = req[o]
        BY <1>1, <1>9, <4>1 DEF SeenBy
      <4> QED BY <3>1, <4>1, <4>2 DEF ReadWell
    <3> QED BY <3>2, <3>3
  <2> QED BY <2>1, <2>2
<1>11. q.status # "500" /\ (Range(q.popped) # {} \/ (q.flashed /\ ~q.onto)) => q.sets
  BY <1>3 DEF Carries
<1>12. ASSUME overlap[b] = "none" PROVE Quiet(b)'
  <2>1. Quiet(b)
    BY <1>1, <1>12 DEF FlashInv
  <2>2. Flying(b)' = {}
    BY <1>1, <1>3, <1>8, <2>1 DEF Quiet
  <2>3. \A m \in Carried(q) : ReadWell(b, m) = {}
    BY <1>1, <1>3, <2>1 DEF Quiet
  <2>4. ASSUME NEW m \in AllRequests, NEW o \in ReadWell(b, m)', NEW p \in ReadWell(b, m)'
        PROVE  o = p
    <3>1. CASE m \in Range(q.popped)
      <4>1. ReadWell(b, m) = {}
        BY <2>3, <3>1 DEF Carried
      <4> QED BY <1>10, <2>4, <4>1
    <3>2. CASE m \notin Range(q.popped)
      BY <1>10, <2>1, <2>4, <3>2 DEF Quiet
    <3> QED BY <3>1, <3>2
  <2>5. ASSUME NEW m \in Range(jar'[b].flash) PROVE ReadWell(b, m)' = {}
    <3>1. CASE q.sets
      <4>1. m \in Range(q.session.flash) /\ m \notin Range(q.popped)
        BY <1>3, <1>7, <2>5, <3>1 DEF Carries
      <4>2. ReadWell(b, m) = {}
        BY <2>3, <4>1 DEF Carried
      <4> QED BY <1>10, <4>1, <4>2
    <3>2. CASE ~q.sets
      <4>1. ReadWell(b, m) = {}
        BY <1>7, <2>1, <2>5, <3>2 DEF Quiet
      <4>2. ~(m \in Range(q.popped) /\ q.status # "500")
        BY <1>11, <3>2
      <4> QED BY <1>10, <4>1, <4>2
    <3> QED BY <3>1, <3>2
  <2>6. ASSUME NEW o \in Done(b)' PROVE req'[o].life <= life'[b]
    <3>1. q.life <= life[b]
      BY <1>1, <1>3, <2>1 DEF Quiet
    <3>2. \A p \in Done(b) : req[p].life <= life[b]
      BY <2>1 DEF Quiet
    <3> QED BY <1>1, <1>3, <1>4, <1>6, <1>9, <2>6, <3>1, <3>2
  <2>7. ASSUME NEW o \in Done(b)', Due(o, b)'
        PROVE  SeenBy(b, o)' # {} \/ o \in Range(jar'[b].flash)
    <3>1. CASE o = r
      <4>1. q.flashed /\ ~q.onto /\ q.status # "500"
        BY <1>4, <1>6, <2>7, <3>1 DEF Due
      <4>2. r \in Carried(q) /\ q.sets
        BY <1>3, <1>11, <4>1 DEF Carries
      <4>3. CASE r \in Range(q.popped)
        BY <1>10, <3>1, <4>3
      <4>4. CASE r \in Range(q.session.flash)
        BY <1>7, <3>1, <4>2, <4>4
      <4> QED BY <4>2, <4>3, <4>4 DEF Carried
    <3>2. CASE o # r
      <4>1. o \in Done(b) /\ req'[o] = req[o] /\ life'[b] = life[b]
        BY <1>1, <1>3, <1>9, <2>7, <3>2
      <4>2. Due(o, b)
        BY <2>7, <4>1 DEF Due
      <4>3. \/ SeenBy(b, o) # {}
            \/ o \in Range(jar[b].flash) /\ o \in Carried(q)
        BY <1>1, <1>3, <2>1, <4>1, <4>2 DEF Quiet
      <4>4. CASE SeenBy(b, o) # {} \/ o \in Range(q.popped)
        BY <1>10, <4>4
      <4>5. CASE o \in Range(jar[b].flash) /\ o \in Range(q.session.flash)
        BY <1>7, <4>5
      <4> QED BY <4>3, <4>4, <4>5 DEF Carried
    <3> QED BY <3>1, <3>2
  <2> QED BY <2>2, <2>4, <2>5, <2>6, <2>7 DEF Quiet
<1>13. ASSUME NEW d \in Browsers, d # b, overlap[d] = "none" PROVE Quiet(d)'
  <2>1. Quiet(d)
    BY <1>13 DEF FlashInv
  <2>2. /\ Done(d)' = Done(d) /\ jar'[d] = jar[d] /\ life'[d] = life[d]
        /\ \A o \in Done(d) : req'[o] = req[o]
    BY <1>3, <1>7, <1>9, <1>13
  <2>3. \A m : SeenBy(d, m)' = SeenBy(d, m) /\ ReadWell(d, m)' = ReadWell(d, m)
    BY <2>2 DEF SeenBy, ReadWell
  <2>4. \A o \in Done(d) : Due(o, d)' <=> Due(o, d)
    BY <2>2 DEF Due
  <2>5. \A p \in Flying(d)' : p \in Flying(d) /\ req'[p] = req[p]
    BY <1>8
  <2>6. \A p, o \in Flying(d)' : p = o
    BY <2>1, <2>5 DEF Quiet
  <2>7. \A p \in Flying(d)' : /\ req'[p].life <= life'[d]
                              /\ \A o \in Done(d)' : req'[o].life <= req'[p].life
    BY <2>1, <2>2, <2>5 DEF Quiet
  <2>8. \A o \in Done(d)' : Due(o, d)' =>
          \/ SeenBy(d, o)' # {}
          \/ o \in Range(jar'[d].flash) /\ \A p \in Flying(d)' : o \in Carried(req'[p])
    BY <2>1, <2>2, <2>3, <2>4, <2>5 DEF Quiet
  <2>9. \A p \in Flying(d)' : \A m \in Carried(req'[p]) : ReadWell(d, m)' = {}
    BY <2>1, <2>3, <2>5 DEF Quiet
  <2>10. /\ \A m \in AllRequests : \A o, p \in ReadWell(d, m)' : o = p
         /\ \A m \in Range(jar'[d].flash) : ReadWell(d, m)' = {}
    BY <2>1, <2>2, <2>3 DEF Quiet
  <2>11. \A o \in Done(d)' : req'[o].life <= life'[d]
    BY <2>1, <2>2 DEF Quiet
  <2> QED BY <2>6, <2>7, <2>8, <2>9, <2>10, <2>11 DEF Quiet, Carried
<1>14. ASSUME NEW p \in AllRequests
       PROVE  /\ req'[p].at \notin {"unsent", "done"} => Carries(p, req'[p])
              /\ req'[p].at = "unsent" => ~req'[p].flashed /\ req'[p].popped = <<>>
              /\ req'[p].at # "unsent" => req'[p].b \in Browsers
              /\ req'[p].life \in Nat
              /\ req'[p].flashed => Uses("sessions")
  <2>1. CASE p = r
    BY <1>1, <1>4, <1>6, <2>1 DEF FlashInv
  <2>2. CASE p # r
    BY <1>6, <2>2 DEF FlashInv
  <2> QED BY <2>1, <2>2
<1>15. ASSUME NEW p \in AllRequests, ~req'[p].flashed
       PROVE  /\ \A d \in Browsers : p \notin Range(jar'[d].flash)
              /\ \A o \in AllRequests : p \notin Carried(req'[o])
  <2>1. ~req[p].flashed
    BY <1>1, <1>4, <1>6, <1>15
  <2>2. /\ \A d \in Browsers : p \notin Range(jar[d].flash)
        /\ \A o \in AllRequests : p \notin Carried(req[o])
    BY <2>1 DEF FlashInv
  <2>3. p \notin Range(q.session.flash) /\ p \notin Carried(q)
    BY <1>1, <2>2 DEF Carried
  <2>4. \A d \in Browsers : p \notin Range(jar'[d].flash)
    BY <1>7, <2>2, <2>3
  <2>5. \A o \in AllRequests : p \notin Carried(req'[o])
    BY <1>5, <1>6, <2>2, <2>3
  <2> QED BY <2>4, <2>5
<1>16. ASSUME NEW d \in Browsers
       PROVE  /\ IsSession(jar'[d]) /\ jar'[d].flash \in Seq(AllRequests)
              /\ life'[d] \in Nat
              /\ overlap'[d] = "none" => Quiet(d)'
  <2>1. IsSession(jar'[d]) /\ jar'[d].flash \in Seq(AllRequests)
    BY <1>3, <1>7 DEF Carries, FlashInv
  <2> QED BY <1>3, <1>12, <1>13, <2>1 DEF FlashInv
<1>17. \A p \in AllRequests : req'[p].at \notin {"unsent", "done"} => Carries(p, req[p])'
  BY <1>14 DEF Carries, Carried
<1>18. \A p \in AllRequests : ~req'[p].flashed =>
         /\ \A d \in Browsers : p \notin Range(jar'[d].flash)
         /\ \A o \in AllRequests : p \notin Carried(req[o])'
  BY <1>15 DEF Carried
<1>19. life' = [d \in Browsers |-> life'[d]] /\ overlap' = [d \in Browsers |-> overlap'[d]]
  BY <1>3 DEF FlashInv
<1> QED BY <1>6, <1>7, <1>14, <1>16, <1>17, <1>18, <1>19 DEF FlashInv, IsSession

\* An expiry ends every life there was: nothing is due any more.
LEMMA ExpireFlash ==
  ASSUME FlashInv, NEW b \in Browsers, Expire(b)
  PROVE  FlashInv'
<1>1. /\ jar' = [jar EXCEPT ![b] = Empty] /\ life' = [life EXCEPT ![b] = @ + 1]
      /\ UNCHANGED <<overlap, req>>
  BY DEF Expire
<1>2. /\ jar' = [d \in Browsers |-> IF d = b THEN Empty ELSE jar[d]]
      /\ life' = [d \in Browsers |-> IF d = b THEN life[b] + 1 ELSE life[d]]
  BY <1>1 DEF FlashInv
<1>3. /\ IsSession(Empty) /\ Empty.flash = <<>> /\ <<>> \in Seq(AllRequests)
      /\ Range(Empty.flash) = {}
  BY EmptySeq, NothingToRead DEF IsSession, Empty
<1>4. \A d, m : /\ Flying(d)' = Flying(d) /\ Done(d)' = Done(d)
                /\ SeenBy(d, m)' = SeenBy(d, m) /\ ReadWell(d, m)' = ReadWell(d, m)
  BY <1>1 DEF Flying, Done, SeenBy, ReadWell
<1>5. ASSUME NEW d \in Browsers, overlap[d] = "none" PROVE Quiet(d)'
  <2>1. Quiet(d) /\ life[d] \in Nat
    BY <1>5 DEF FlashInv
  <2>2. CASE d = b
    <3>1. jar'[d] = Empty /\ life'[d] = life[d] + 1
      BY <1>2, <2>2
    <3>2. ASSUME NEW o \in Done(d) PROVE o \in AllRequests /\ req[o].life # life'[d]
                                        /\ req[o].life <= life'[d]
      <4>1. req[o].life \in Nat /\ o \in AllRequests
        BY DEF Done, FlashInv
      <4>2. req[o].life <= life[d]
        BY <2>1 DEF Quiet
      <4> QED BY <2>1, <3>1, <4>1, <4>2
    <3>3. \A o \in Done(d) : ~Due(o, d)'
      BY <1>1, <3>2 DEF Due
    <3>4. ASSUME NEW p \in Flying(d)
          PROVE  req[p].life <= life'[d] /\ \A o \in Done(d) : req[o].life <= req[p].life
      <4>1. req[p].life \in Nat
        BY DEF Flying, FlashInv
      <4>2. req[p].life <= life[d] /\ \A o \in Done(d) : req[o].life <= req[p].life
        BY <2>1 DEF Quiet
      <4> QED BY <2>1, <3>1, <4>1, <4>2
    <3>5. /\ \A p, q \in Flying(d)' : p = q
          /\ \A m \in AllRequests : \A p, q \in ReadWell(d, m)' : p = q
          /\ \A m \in Range(jar'[d].flash) : ReadWell(d, m)' = {}
          /\ \A p \in Flying(d)' : \A m \in Carried(req[p]) : ReadWell(d, m)' = {}
      BY <1>3, <1>4, <2>1, <3>1 DEF Quiet
    <3>6. /\ \A p \in Flying(d)' : /\ req'[p].life <= life'[d]
                                   /\ \A r \in Done(d)' : req'[r].life <= req'[p].life
          /\ \A r \in Done(d)' : req'[r].life <= life'[d]
          /\ \A r \in Done(d)' : ~Due(r, d)'
      BY <1>1, <1>4, <3>2, <3>3, <3>4
    <3> QED BY <1>1, <3>5, <3>6 DEF Quiet, Carried
  <2>3. CASE d # b
    <3>1. jar'[d] = jar[d] /\ life'[d] = life[d]
      BY <1>2, <2>3
    <3>2. \A o : Due(o, d)' <=> Due(o, d)
      BY <1>1, <3>1 DEF Due
    <3> QED BY <1>1, <1>4, <2>1, <3>1, <3>2 DEF Quiet, Carried
  <2> QED BY <2>2, <2>3
<1>6. ASSUME NEW d \in Browsers
      PROVE  /\ IsSession(jar'[d]) /\ jar'[d].flash \in Seq(AllRequests)
             /\ life'[d] \in Nat /\ Range(jar'[d].flash) \subseteq Range(jar[d].flash)
  <2>1. IsSession(jar[d]) /\ jar[d].flash \in Seq(AllRequests) /\ life[d] \in Nat
    BY DEF FlashInv
  <2>2. jar'[d] = Empty \/ jar'[d] = jar[d]
    BY <1>2
  <2>3. life'[d] = life[d] + 1 \/ life'[d] = life[d]
    BY <1>2
  <2>4. life'[d] \in Nat
    BY <2>1, <2>3
  <2>5. CASE jar'[d] = Empty
    BY <1>3, <2>4, <2>5
  <2>6. CASE jar'[d] = jar[d]
    BY <2>1, <2>4, <2>6
  <2> QED BY <2>2, <2>5, <2>6
<1>7. \A r \in AllRequests : ~req[r].flashed => \A d \in Browsers : r \notin Range(jar'[d].flash)
  BY <1>6 DEF FlashInv
<1>8. jar' = [d \in Browsers |-> jar'[d]] /\ life' = [d \in Browsers |-> life'[d]]
  BY <1>2
<1> QED BY <1>1, <1>5, <1>6, <1>7, <1>8, RequestsStay

LEMMA FlashStep ==
  ASSUME MissingInv, FlashInv, [Next]_vars
  PROVE  FlashInv'
<1>1. ASSUME UNCHANGED <<jar, life, overlap, req>> PROVE FlashInv'
  <2>1. \A d, m : /\ Flying(d)' = Flying(d) /\ Done(d)' = Done(d)
                  /\ SeenBy(d, m)' = SeenBy(d, m) /\ ReadWell(d, m)' = ReadWell(d, m)
    BY <1>1 DEF Flying, Done, SeenBy, ReadWell
  <2>2. ASSUME NEW d \in Browsers, overlap[d] = "none" PROVE Quiet(d)'
    <3>1. \A o : Due(o, d)' <=> Due(o, d)
      BY <1>1 DEF Due
    <3>2. Quiet(d)
      BY <2>2 DEF FlashInv
    <3> QED BY <1>1, <2>1, <3>1, <3>2 DEF Quiet, Carried
  <2>3. \A d \in Browsers : /\ IsSession(jar'[d]) /\ jar'[d].flash \in Seq(AllRequests)
                            /\ life'[d] \in Nat
    BY <1>1 DEF FlashInv
  <2>4. \A r \in AllRequests :
          ~req[r].flashed => \A d \in Browsers : r \notin Range(jar'[d].flash)
    BY <1>1 DEF FlashInv
  <2>5. jar' = [d \in Browsers |-> jar'[d]] /\ life' = [d \in Browsers |-> life'[d]]
    BY <1>1 DEF FlashInv
  <2> QED BY <1>1, <2>2, <2>3, <2>4, <2>5, RequestsStay
<1>2. CASE Change
  BY <1>1, <1>2 DEF Change, browserVars
<1>3. CASE Finished \/ UNCHANGED vars
  BY <1>1, <1>3 DEF Finished, vars, browserVars
<1> QED BY <1>2, <1>3, RequestFlash, ReadBodyFlash, ResumeFlash, ReceiveFlash,
           ExpireFlash DEF Next

LEMMA FlashInit == Init => FlashInv
<1> SUFFICES ASSUME Init PROVE FlashInv
  OBVIOUS
<1>1. /\ Unsent.at = "unsent" /\ Unsent.popped = <<>> /\ ~Unsent.flashed /\ Unsent.life = 0
      /\ Unsent.session = Empty
  BY DEF Unsent
<1>2. /\ IsSession(Empty) /\ Empty.flash = <<>> /\ <<>> \in Seq(AllRequests)
      /\ Range(Empty.flash) = {}
  BY EmptySeq, NothingToRead DEF IsSession, Empty
<1>3. Carried(Unsent) = {}
  BY <1>1, <1>2, NothingToRead DEF Carried
<1>4. \A r \in AllRequests : req[r] = Unsent
  BY DEF Init
<1>5. \A b \in Browsers : jar[b] = Empty /\ life[b] = 0
  BY DEF Init
<1>6. ASSUME NEW b \in Browsers PROVE Quiet(b)
  <2>1. Flying(b) = {} /\ Done(b) = {}
    BY <1>1, <1>4 DEF Flying, Done
  <2>2. \A m : ReadWell(b, m) = {}
    BY <2>1 DEF ReadWell, SeenBy
  <2> QED BY <1>2, <1>5, <2>1, <2>2 DEF Quiet
<1>7. /\ jar = [b \in Browsers |-> jar[b]] /\ life = [b \in Browsers |-> life[b]]
      /\ overlap = [b \in Browsers |-> overlap[b]] /\ req = [r \in AllRequests |-> req[r]]
  BY DEF Init
<1>8. ASSUME NEW b \in Browsers
      PROVE  /\ IsSession(jar[b]) /\ jar[b].flash \in Seq(AllRequests) /\ life[b] \in Nat
             /\ overlap[b] = "none" => Quiet(b)
  <2>1. jar[b] = Empty /\ life[b] = 0
    BY <1>5
  <2>2. IsSession(jar[b]) /\ jar[b].flash \in Seq(AllRequests)
    BY <1>2, <2>1
  <2> QED BY <1>6, <2>1, <2>2
<1>9. \A r \in AllRequests :
        /\ req[r].at \notin {"unsent", "done"} => Carries(r, req[r])
        /\ req[r].at = "unsent" => ~req[r].flashed /\ req[r].popped = <<>>
        /\ req[r].at # "unsent" => req[r].b \in Browsers
        /\ req[r].life \in Nat
        /\ req[r].flashed => Uses("sessions")
        /\ ~req[r].flashed => /\ \A b \in Browsers : r \notin Range(jar[b].flash)
                              /\ \A p \in AllRequests : r \notin Carried(req[p])
  BY <1>1, <1>2, <1>3, <1>4, <1>5
<1> QED BY <1>7, <1>8, <1>9 DEF FlashInv

LEMMA AtMostOne ==
  ASSUME NEW S, \A p, q \in S : p = q
  PROVE  Cardinality(S) <= 1
<1>1. CASE S = {}
  BY <1>1, FS_EmptySet
<1>2. CASE S # {}
  <2>1. PICK x : S = {x}
    BY <1>2
  <2> QED BY <2>1, FS_Singleton
<1> QED BY <1>1, <1>2

\* Of a browser that waits for each answer a flashed message is read once at most,
\* by a request that does not fail, and is not lost: when all is answered it is in
\* the cookie or was read; unless it was appended to messages that were pending, its
\* request failed or its cookie has expired (Context.flash, get_flashed_messages,
\* _TrackedDict, SessionMiddleware).
THEOREM FlashesArriveOnce == Spec => []FlashIsReadOnce
<1> DEFINE FInv == MissingInv /\ FlashInv
<1>1. Init => FInv
  BY MissingInit, FlashInit
<1>2. FInv /\ [Next]_vars => FInv'
  BY MissingStep, FlashStep
<1>3. FInv => FlashIsReadOnce
  <2> SUFFICES ASSUME FlashInv, NEW r \in AllRequests, req[r].flashed,
                      overlap[req[r].b] = "none"
               PROVE  LET b == req[r].b IN
                      /\ Cardinality({q \in ReadBy(b, r) : req[q].status # "500"}) <= 1
                      /\ \/ Flying(b) # {} \/ req[r].onto \/ req[r].status = "500"
                         \/ req[r].life # life[b]
                         \/ r \in Range(jar[b].flash) \/ ReadBy(b, r) # {}
    BY DEF FlashIsReadOnce
  <2>1. req[r].at # "unsent"
    BY DEF FlashInv
  <2>2. PICK b \in Browsers : b = req[r].b
    BY <2>1 DEF FlashInv
  <2>3. Quiet(b)
    BY <2>2 DEF FlashInv
  <2>4. ASSUME NEW p \in ReadBy(b, r), req[p].status # "500"
        PROVE  p \in ReadWell(b, r) \/ (p \in Flying(b) /\ ReadWell(b, r) = {})
    <3>1. CASE req[p].at = "done"
      BY <2>4, <3>1 DEF ReadBy, ReadWell, SeenBy, Done
    <3>2. CASE req[p].at = "replied"
      <4>1. p \in Flying(b) /\ r \in Carried(req[p])
        BY <2>4, <3>2 DEF ReadBy, Flying, Carried
      <4> QED BY <2>3, <4>1 DEF Quiet
    <3> QED BY <2>4, <3>1, <3>2 DEF ReadBy
  <2>5. ASSUME NEW p \in {q \in ReadBy(b, r) : req[q].status # "500"},
               NEW q \in {q \in ReadBy(b, r) : req[q].status # "500"}
        PROVE  p = q
    <3>1. CASE ReadWell(b, r) = {}
      BY <2>3, <2>4, <3>1 DEF Quiet
    <3>2. CASE ReadWell(b, r) # {}
      BY <2>3, <2>4, <3>2 DEF Quiet
    <3> QED BY <3>1, <3>2
  <2>6. Cardinality({q \in ReadBy(b, r) : req[q].status # "500"}) <= 1
    BY <2>5, AtMostOne
  <2>7. ASSUME Flying(b) = {}, ~req[r].onto, req[r].status # "500", req[r].life = life[b]
        PROVE  r \in Range(jar[b].flash) \/ ReadBy(b, r) # {}
    <3>1. req[r].at = "done"
      BY <2>1, <2>2, <2>7 DEF Flying
    <3>2. r \in Done(b) /\ Due(r, b)
      BY <2>2, <2>7, <3>1 DEF Done, Due
    <3>3. SeenBy(b, r) \subseteq ReadBy(b, r)
      BY DEF SeenBy, ReadBy, Done
    <3> QED BY <2>3, <3>2, <3>3 DEF Quiet
  <2> QED BY <2>2, <2>6, <2>7
<1> QED BY <1>1, <1>2, <1>3, PTL DEF Spec
=============================================================================
