--------------------------- MODULE StreamPipeProofs ---------------------------
(***************************************************************************)
(* Proofs about StreamPipe, for any number of chunks of any sizes and any  *)
(* marks, however deep the calls nest.                                     *)
(***************************************************************************)
EXTENDS StreamPipe, SequenceLemmas

-----------------------------------------------------------------------------
(* What a buffer holds *)

\* The sums of the first chunks of a buffer.
Sums(f, s) == /\ f \in [0..Len(s) -> Nat]
              /\ f[0] = 0
              /\ \A i \in 1..Len(s) : f[i] = f[i - 1] + Size[s[i]]

\* The function that the fold of Total is defined by, up to n.
FoldOf(s, n, f) ==
  f = [T \in SUBSET (1..n) |->
         IF T = {} THEN 0 ELSE f[T \ {Max(T)}] + Size[s[Max(T)]]]

\* There is such a function.
LEMMA FoldExists ==
  ASSUME NEW s \in Seq(Chunks)
  PROVE  \A n \in Nat : \E f : FoldOf(s, n, f)
<1> DEFINE N == {n \in Nat : \E f : FoldOf(s, n, f)}
<1>1. 0 \in N
  <2>1. FoldOf(s, 0, [T \in SUBSET (1..0) |-> 0])
    BY DEF FoldOf
  <2> QED BY <2>1
<1>2. ASSUME NEW n \in N PROVE n + 1 \in N
  <2>1. PICK f : FoldOf(s, n, f)
    OBVIOUS
  <2>2. n \in Nat
    OBVIOUS
  <2> DEFINE g == [T \in SUBSET (1..(n + 1)) |->
                     IF n + 1 \in T THEN f[T \ {n + 1}] + Size[s[n + 1]] ELSE f[T]]
  <2>3. ASSUME NEW T \in SUBSET (1..(n + 1))
        PROVE  g[T] = IF T = {} THEN 0 ELSE g[T \ {Max(T)}] + Size[s[Max(T)]]
    <3>1. CASE n + 1 \in T
      <4>1. Max(T) = n + 1
        BY <2>2, <3>1, MaxOfRange
      <4>2. T \ {n + 1} \in SUBSET (1..(n + 1)) /\ n + 1 \notin T \ {n + 1}
        OBVIOUS
      <4>3. g[T \ {n + 1}] = f[T \ {n + 1}]
        BY <4>2
      <4> QED BY <3>1, <4>1, <4>3
    <3>2. CASE n + 1 \notin T
      <4>1. T \in SUBSET (1..n) /\ g[T] = f[T]
        BY <2>2, <3>2
      <4>2. f[T] = IF T = {} THEN 0 ELSE f[T \ {Max(T)}] + Size[s[Max(T)]]
        BY <2>1, <4>1 DEF FoldOf
      <4>3. g[T \ {Max(T)}] = f[T \ {Max(T)}]
        BY <3>2
      <4> QED BY <4>1, <4>2, <4>3
    <3> QED BY <3>1, <3>2
  <2>4. g = [T \in SUBSET (1..(n + 1)) |->
               IF T = {} THEN 0 ELSE g[T \ {Max(T)}] + Size[s[Max(T)]]]
    BY <2>3
  <2>5. FoldOf(s, n + 1, g)
    BY <2>4 DEF FoldOf
  <2> QED BY <2>2, <2>5
<1> HIDE DEF N
<1>3. N = Nat
  BY <1>1, <1>2, AllNumbers DEF N
<1> QED BY <1>3 DEF N

\* Total is the last of the sums.
LEMMA TotalIsSum ==
  ASSUME NEW s \in Seq(Chunks)
  PROVE  \E f : Sums(f, s) /\ Total(s) = f[Len(s)]
<1> DEFINE g == CHOOSE f : FoldOf(s, Len(s), f)
<1>1. PICK n \in Nat : n = Len(s) /\ DOMAIN s = 1..n
  BY LenProperties
<1>2. FoldOf(s, n, g)
  BY <1>1, FoldExists
<1>3. Total(s) = g[1..n]
  BY <1>1 DEF Total, FoldLeft, MapThenFoldSet, FoldOf
<1> DEFINE f == [i \in 0..n |-> g[1..i]]
<1>4. f[0] = 0
  <2>1. 1..0 = {}
    OBVIOUS
  <2>2. g[{}] = 0
    BY <1>2 DEF FoldOf
  <2>3. f[0] = g[1..0]
    OBVIOUS
  <2> QED BY <2>1, <2>2, <2>3
<1>5. ASSUME NEW i \in 1..n PROVE f[i] = f[i - 1] + Size[s[i]]
  <2>1. /\ 1..i \in SUBSET (1..n) /\ i \in 1..i /\ (1..i) \ {i} = 1..(i - 1)
        /\ i \in Nat /\ i - 1 \in 0..n /\ i \in 0..n
    OBVIOUS
  <2>2. Max(1..i) = i
    BY <2>1, MaxOfRange
  <2>3. 1..i # {}
    BY <2>1
  <2>4. g[1..i] = g[1..(i - 1)] + Size[s[i]]
    BY <1>2, <2>1, <2>2, <2>3 DEF FoldOf
  <2> QED BY <2>1, <2>4
<1> HIDE DEF f, g
<1>6. \A i \in 1..n : Size[s[i]] \in Nat
  BY <1>1, ElementOfSeq, StreamAssumption
<1> DEFINE N == {i \in Nat : i <= n => f[i] \in Nat}
<1>7. 0 \in N
  BY <1>4
<1>8. ASSUME NEW i \in N PROVE i + 1 \in N
  <2>1. CASE i + 1 <= n
    <3>1. i + 1 \in 1..n /\ (i + 1) - 1 = i /\ f[i] \in Nat
      BY <2>1
    <3>2. f[i + 1] = f[i] + Size[s[i + 1]]
      BY <1>5, <3>1
    <3> QED BY <1>6, <3>1, <3>2
  <2> QED BY <2>1
<1>9. N = Nat
  <2> HIDE DEF N
  <2> QED BY <1>7, <1>8, AllNumbers DEF N
<1>10. \A i \in 0..n : f[i] \in Nat
  BY <1>9
<1>11. f \in [0..n -> Nat]
  BY <1>10 DEF f
<1>12. Sums(f, s) /\ Total(s) = f[n]
  <2>1. n \in 0..n /\ f[n] = g[1..n]
    BY DEF f
  <2> QED BY <1>1, <1>3, <1>4, <1>5, <1>11, <2>1 DEF Sums
<1> QED BY <1>1, <1>12

\* Two sums over sequences that agree up to n are equal there, up to what the
\* second starts with.
LEMMA SumsAgree ==
  ASSUME NEW s \in Seq(Chunks), NEW t \in Seq(Chunks), NEW f, NEW g,
         Sums(f, s), Sums(g, t), NEW k \in Nat, NEW n \in Nat,
         n <= Len(s), n + k <= Len(t),
         \A i \in 1..n : s[i] = t[i + k]
  PROVE  g[n + k] = f[n] + g[k]
<1>1. PICK l \in Nat, m \in Nat : l = Len(s) /\ m = Len(t)
  BY LenProperties
<1>2. /\ f \in [0..l -> Nat] /\ g \in [0..m -> Nat] /\ f[0] = 0
      /\ \A i \in 1..l : f[i] = f[i - 1] + Size[s[i]]
      /\ \A i \in 1..m : g[i] = g[i - 1] + Size[t[i]]
  BY <1>1 DEF Sums
<1>3. /\ \A i \in 1..l : Size[s[i]] \in Nat
      /\ n <= l /\ n + k <= m
  BY <1>1, ElementOfSeq, StreamAssumption
<1> DEFINE N == {i \in Nat : i <= n => g[i + k] = f[i] + g[k]}
<1>4. 0 \in N
  <2>1. k \in 0..m
    BY <1>3
  <2>2. g[k] \in Nat
    BY <1>2, <2>1
  <2> QED BY <1>2, <2>2
<1>5. ASSUME NEW i \in N PROVE i + 1 \in N
  <2>1. CASE i + 1 <= n
    <3>1. /\ i + 1 \in 1..l /\ (i + 1) + k \in 1..m /\ i \in 0..l /\ k \in 0..m
          /\ (i + 1) - 1 = i /\ ((i + 1) + k) - 1 = i + k /\ i + 1 \in 1..n
      BY <1>3, <2>1
    <3>2. /\ f[i + 1] = f[i] + Size[s[i + 1]]
          /\ g[(i + 1) + k] = g[i + k] + Size[t[(i + 1) + k]]
      BY <1>2, <3>1
    <3>a. i <= n
      BY <2>1
    <3>b. g[i + k] = f[i] + g[k]
      BY <3>a
    <3>c. t[(i + 1) + k] = s[i + 1]
      BY <3>1
    <3>d. f[i] \in Nat /\ g[k] \in Nat /\ Size[s[i + 1]] \in Nat
      BY <1>2, <1>3, <3>1
    <3>3. /\ g[i + k] = f[i] + g[k] /\ t[(i + 1) + k] = s[i + 1]
          /\ f[i] \in Nat /\ g[k] \in Nat /\ Size[s[i + 1]] \in Nat
      BY <3>b, <3>c, <3>d
    <3>4. g[(i + 1) + k] = f[i + 1] + g[k]
      BY SMTT(30), <3>2, <3>3
    <3> QED BY <3>4
  <2> QED BY <2>1
<1>6. N = Nat
  <2> HIDE DEF N
  <2> QED BY <1>4, <1>5, AllNumbers DEF N
<1> QED BY <1>6

\* The size of a buffer grows with each chunk, and shrinks with its head.
LEMMA TotalIsNat == ASSUME NEW s \in Seq(Chunks) PROVE Total(s) \in Nat
BY TotalIsSum, LenProperties DEF Sums

LEMMA TotalOfAppend ==
  ASSUME NEW s \in Seq(Chunks), NEW c \in Chunks
  PROVE  Total(s) <= Total(Append(s, c))
<1> DEFINE t == Append(s, c)
<1>1. PICK n \in Nat : n = Len(s)
  BY LenProperties
<1>2. /\ t \in Seq(Chunks) /\ Len(t) = n + 1 /\ t[n + 1] = c
      /\ \A i \in 1..n : t[i] = s[i]
  BY <1>1, AppendProperties
<1> HIDE DEF t
<1>3. PICK f : Sums(f, s) /\ Total(s) = f[n]
  BY <1>1, TotalIsSum
<1>4. PICK g : Sums(g, t) /\ Total(t) = g[n + 1]
  BY <1>2, TotalIsSum
<1>5. g[n + 0] = f[n] + g[0]
  <2>1. /\ n <= Len(s) /\ n + 0 <= Len(t) /\ 0 \in Nat
        /\ \A i \in 1..n : s[i] = t[i + 0]
    BY <1>1, <1>2
  <2> QED BY <1>2, <1>3, <1>4, <2>1, SumsAgree
<1>6. /\ n + 0 = n /\ (n + 1) - 1 = n /\ n + 1 \in 1..(n + 1) /\ n \in 0..n
      /\ f[n] \in Nat /\ g[0] = 0 /\ g[n + 1] = g[n] + Size[c] /\ Size[c] \in Nat
  <2>1. n + 0 = n /\ (n + 1) - 1 = n /\ n + 1 \in 1..(n + 1) /\ n \in 0..n
    OBVIOUS
  <2>2. f \in [0..n -> Nat]
    BY <1>1, <1>3 DEF Sums
  <2>3. g[0] = 0 /\ \A i \in 1..(n + 1) : g[i] = g[i - 1] + Size[t[i]]
    BY <1>2, <1>4 DEF Sums
  <2>4. Size[c] \in Nat
    BY StreamAssumption
  <2>5. g[n + 1] = g[n] + Size[c]
    BY <1>2, <2>1, <2>3
  <2> QED BY <2>1, <2>2, <2>3, <2>4, <2>5
<1> QED BY <1>3, <1>4, <1>5, <1>6 DEF t

LEMMA TotalOfTail ==
  ASSUME NEW s \in Seq(Chunks), s # <<>>
  PROVE  Total(Tail(s)) <= Total(s)
<1> DEFINE t == Tail(s)
<1>1. PICK n \in Nat : Len(s) = n + 1
  <2>1. Len(s) \in Nat \ {0}
    BY EmptySeq
  <2>2. PICK m \in Nat \ {0} : m = Len(s)
    BY <2>1
  <2>3. m - 1 \in Nat /\ m = (m - 1) + 1
    OBVIOUS
  <2> QED BY <2>2, <2>3
<1>2. t \in Seq(Chunks) /\ Len(t) = n /\ \A i \in 1..n : t[i] = s[i + 1]
  BY <1>1, HeadTailProperties
<1> HIDE DEF t
<1>3. PICK f : Sums(f, t) /\ Total(t) = f[n]
  BY <1>2, TotalIsSum
<1>4. PICK g : Sums(g, s) /\ Total(s) = g[n + 1]
  BY <1>1, TotalIsSum
<1>5. g[n + 1] = f[n] + g[1]
  <2>1. /\ n <= Len(t) /\ n + 1 <= Len(s) /\ 1 \in Nat
        /\ \A i \in 1..n : t[i] = s[i + 1]
    BY <1>1, <1>2
  <2>2. Sums(f, t) /\ Sums(g, s) /\ t \in Seq(Chunks)
    BY <1>2, <1>3, <1>4
  <2>3. \A k \in Nat : /\ n <= Len(t) /\ n + k <= Len(s)
                       /\ \A i \in 1..n : t[i] = s[i + k]
                       => g[n + k] = f[n] + g[k]
    BY <2>2, SumsAgree
  <2> QED BY <2>1, <2>3
<1>6. f[n] \in Nat /\ g[1] \in Nat
  <2>1. f \in [0..n -> Nat] /\ g \in [0..(n + 1) -> Nat]
    BY <1>1, <1>2, <1>3, <1>4 DEF Sums
  <2> QED BY <2>1
<1> QED BY <1>3, <1>4, <1>5, <1>6 DEF t

-----------------------------------------------------------------------------
(* What is inductive *)

\* The sink is called back only by the innermost call, and a chunk waits only
\* while the sink is busy or that call will take it.
SinkInv ==
  /\ \A i \in 1..(Len(stack) - 1) : stack[i].at # "clear"
  /\ Inside("clear") => writing = None
  /\ wbuf # <<>> /\ writing = None => Inside("clear")

\* Before pipe() nothing has been called.
Untouched == ~flowing /\ ~microtask /\ writing = None /\ wbuf = <<>> /\ stack = <<>>

\* While the readable flows, what waits is below the mark, unless a write() is
\* about to return; while it is paused, somebody will resume it or was refused.
FlowInv ==
  /\ ~piped => Untouched
  /\ wbuf = <<>> \/ Total(Front(wbuf)) < WriteMark
  /\ flowing /\ ~Inside("onData") /\ (writing # None \/ wbuf # <<>>)
       => Total(wbuf) < WriteMark
  /\ piped /\ ~flowing => writing # None \/ refused \/ Inside("clear")

-----------------------------------------------------------------------------
(* The calls under way *)

ClearFree(calls) == \A i \in 1..Len(calls) : calls[i].at # "clear"

\* A call returns or is replaced by others.
LEMMA ReturnType ==
  ASSUME TypeOK, stack # <<>>, NEW calls \in Seq(Frames)
  PROVE  Front(stack) \o calls \in Seq(Frames)
<1>1. Front(stack) \in Seq(Frames)
  BY FrontProperties DEF TypeOK
<1> QED BY <1>1, ConcatProperties

LEMMA ReturnFrom ==
  ASSUME TypeOK, SinkInv, stack # <<>>, NEW calls \in Seq(Frames), ClearFree(calls)
  PROVE  ClearFree(Front(stack) \o calls)
<1>1. PICK n \in Nat, m \in Nat : n = Len(stack) /\ n > 0 /\ m = Len(calls)
  BY EmptySeq, LenProperties DEF TypeOK
<1>2. /\ Front(stack) \in Seq(Frames) /\ Len(Front(stack)) = n - 1
      /\ \A i \in 1..(n - 1) : Front(stack)[i].at # "clear"
  <2>1. /\ Front(stack) \in Seq(Frames) /\ Len(Front(stack)) = n - 1
        /\ \A i \in 1..(n - 1) : Front(stack)[i] = stack[i]
    BY <1>1, FrontProperties DEF TypeOK
  <2> QED BY <1>1, <2>1 DEF SinkInv
<1>3. /\ Len(Front(stack) \o calls) = (n - 1) + m
      /\ \A i \in 1..((n - 1) + m) : (Front(stack) \o calls)[i] =
            IF i <= n - 1 THEN Front(stack)[i] ELSE calls[i - (n - 1)]
  BY <1>1, <1>2, ConcatProperties
<1>4. ASSUME NEW i \in 1..((n - 1) + m) PROVE (Front(stack) \o calls)[i].at # "clear"
  <2>1. CASE i <= n - 1
    BY <1>2, <1>3, <2>1
  <2>2. CASE ~(i <= n - 1)
    <3>1. i - (n - 1) \in 1..m
      BY <1>1, <2>2
    <3> QED BY <1>1, <1>3, <2>2, <3>1 DEF ClearFree
  <2> QED BY <2>1, <2>2
<1> QED BY <1>3, <1>4 DEF ClearFree

\* The frames that are pushed.
LEMMA FrameTypes ==
  /\ \A at \in {"drain", "resume", "micro", "read", "guardedRead", "clear"} :
       Call(at) \in Frames
  /\ \A c \in Chunks : [at |-> "onData", chunk |-> c] \in Frames
  /\ \A f \in Frames : f.at = "onData" => f.chunk \in Chunks
BY DEF Call, Frames

LEMMA CallLists ==
  ASSUME NEW a \in {"drain", "resume", "micro", "read", "guardedRead"},
         NEW b \in {"drain", "resume", "micro", "read", "guardedRead"}
  PROVE  /\ <<>> \in Seq(Frames) /\ ClearFree(<<>>)
         /\ <<Call(a)>> \in Seq(Frames) /\ ClearFree(<<Call(a)>>)
         /\ <<Call(a), Call(b)>> \in Seq(Frames) /\ ClearFree(<<Call(a), Call(b)>>)
<1>1. Call(a) \in Frames /\ Call(b) \in Frames
  BY FrameTypes
<1>2. Call(a).at = a /\ Call(b).at = b
  BY DEF Call
<1> QED BY <1>1, <1>2 DEF ClearFree

\* The sink calls back at once.
LEMMA ClearPushed ==
  ASSUME NEW st \in Seq(Frames), ClearFree(st)
  PROVE  LET t == Append(st, Call("clear")) IN
         /\ t \in Seq(Frames) /\ t # <<>> /\ Last(t).at = "clear"
         /\ \A i \in 1..(Len(t) - 1) : t[i].at # "clear"
<1>1. Call("clear") \in Frames /\ Call("clear").at = "clear"
  BY FrameTypes DEF Call
<1>2. PICK n \in Nat : n = Len(st)
  BY LenProperties
<1> DEFINE t == Append(st, Call("clear"))
<1>3. /\ t \in Seq(Frames) /\ t # <<>> /\ Len(t) = n + 1 /\ t[n + 1] = Call("clear")
      /\ \A i \in 1..n : t[i] = st[i]
  BY <1>1, <1>2, AppendProperties
<1> HIDE DEF t
<1>4. (n + 1) - 1 = n
  OBVIOUS
<1>5. \A i \in 1..(Len(t) - 1) : t[i].at # "clear"
  BY <1>2, <1>3, <1>4 DEF ClearFree
<1> QED BY <1>1, <1>3, <1>5 DEF Last, t

-----------------------------------------------------------------------------
\* Every variable keeps its type, at any depth of nested calls.
THEOREM TypeCorrect == Spec => []TypeOK
<1> USE StreamAssumption
<1>1. Init => TypeOK
  <2> SUFFICES ASSUME Init PROVE TypeOK
    OBVIOUS
  <2>1. <<>> \in Seq(Chunks) /\ <<>> \in Seq(Frames)
    BY EmptySeq
  <2>2. {rbuf, wbuf, written} \subseteq Seq(Chunks) /\ stack \in Seq(Frames)
    BY <2>1 DEF Init
  <2>3. {flowing, ended, endEmitted, reading, piped, microtask,
         ending, finished, refused} \subseteq BOOLEAN
    BY DEF Init
  <2>4. pushed \in 0..MaxChunks
    BY DEF Init
  <2>5. writing \in Chunks \cup {None}
    BY DEF Init
  <2> QED BY <2>2, <2>3, <2>4, <2>5 DEF TypeOK
<1>2. TypeOK /\ [Next]_vars => TypeOK'
  <2> SUFFICES ASSUME TypeOK, [Next]_vars PROVE TypeOK'
    OBVIOUS
  <2>t. /\ rbuf \in Seq(Chunks) /\ wbuf \in Seq(Chunks) /\ written \in Seq(Chunks)
        /\ stack \in Seq(Frames)
    BY DEF TypeOK
  <2> USE DEF TypeOK, readVars, writeVars, pipeVars
  <2>r. ASSUME NEW calls \in Seq(Frames), stack # <<>>, Return(calls)
        PROVE  stack' \in Seq(Frames)
    BY <2>r, ReturnType DEF Return
  <2>f. stack # <<>> => Front(stack) \in Seq(Frames)
    BY FrontProperties
  <2>s. ASSUME NEW c \in Chunks, NEW base \in Seq(Frames), Sink(c, base)
        PROVE  /\ written' \in Seq(Chunks) /\ writing' \in Chunks \cup {None}
               /\ stack' \in Seq(Frames)
    <3>1. Append(written, c) \in Seq(Chunks) /\ Append(base, Call("clear")) \in Seq(Frames)
      BY <2>t, FrameTypes, AppendProperties
    <3> QED BY <2>s, <3>1 DEF Sink
  <2>1. CASE OnDataReturns
    BY <2>1, <2>r, CallLists DEF OnDataReturns, Inside, Accepts
  <2>2. CASE Drained
    BY <2>2, <2>r, CallLists DEF Drained, OnDrain, Inside
  <2>3. CASE ClearNext
    <3>1. Head(wbuf) \in Chunks /\ Tail(wbuf) \in Seq(Chunks)
      BY <2>3, <2>t, HeadTailProperties DEF ClearNext
    <3> QED BY <2>3, <2>f, <2>s, <3>1 DEF ClearNext, Inside
  <2>4. CASE SinkConfirms
    <3>1. <<Call("clear")>> \in Seq(Frames)
      BY FrameTypes
    <3> QED BY <2>4, <3>1 DEF SinkConfirms
  <2>5. CASE Push
    <3>1. pushed' \in 0..MaxChunks /\ pushed' \in Chunks
      BY <2>5 DEF Push, Chunks
    <3>2. Append(rbuf, pushed') \in Seq(Chunks) /\ Append(stack, Call("drain")) \in Seq(Frames)
      BY <2>t, <3>1, FrameTypes, AppendProperties
    <3> QED BY <2>5, <3>1, <3>2 DEF Push
  <2>e. ASSUME EmitEnd \/ UNCHANGED <<endEmitted, ending, finished>>
        PROVE  {endEmitted', ending', finished'} \subseteq BOOLEAN
    BY <2>e DEF EmitEnd, End
  <2>6. CASE PushNull
    BY <2>6, <2>e DEF PushNull
  <2>7. CASE DrainNext
    <3>1. Head(rbuf) \in Chunks /\ Tail(rbuf) \in Seq(Chunks)
      BY <2>7, <2>t, HeadTailProperties DEF DrainNext
    <3>2. /\ Append(wbuf, Head(rbuf)) \in Seq(Chunks)
          /\ Append(stack, [at |-> "onData", chunk |-> Head(rbuf)]) \in Seq(Frames)
      BY <2>t, <3>1, FrameTypes, AppendProperties
    <3>3. /\ {wbuf', written'} \subseteq Seq(Chunks) /\ flowing' \in BOOLEAN
          /\ writing' \in Chunks \cup {None} /\ stack' \in Seq(Frames)
      <4>1. CASE /\ BufferChunk(Head(rbuf)) /\ flowing' = Accepts(wbuf')
                 /\ UNCHANGED <<writing, written, stack>>
        BY <2>t, <3>2, <4>1 DEF BufferChunk, Accepts
      <4>2. CASE /\ Sink(Head(rbuf), Append(stack, [at |-> "onData", chunk |-> Head(rbuf)]))
                 /\ UNCHANGED <<wbuf, flowing>>
        <5>1. /\ written' \in Seq(Chunks) /\ writing' \in Chunks \cup {None}
              /\ stack' \in Seq(Frames)
          BY <2>s, <3>1, <3>2, <4>2
        <5> QED BY <2>t, <4>2, <5>1
      <4> QED BY <2>7, <4>1, <4>2 DEF DrainNext, OnData
    <3> QED BY <2>7, <3>1, <3>3 DEF DrainNext
  <2>8. CASE DrainReturns
    BY <2>8, <2>e, <2>r, CallLists DEF DrainReturns, Inside
  <2>9. CASE ResumeReads
    BY <2>9, <2>r, CallLists DEF ResumeReads, Inside, CallRead
  <2>10. CASE MicrotaskReads
    BY <2>10, <2>r, CallLists DEF MicrotaskReads, Inside, CallRead
  <2>11. CASE ReadReturns
    BY <2>11, <2>r, CallLists DEF ReadReturns, Inside
  <2>12. CASE Pipe \/ RunMicrotask
    BY <2>12, CallLists DEF Pipe, RunMicrotask
  <2>13. CASE UNCHANGED vars
    BY <2>13 DEF vars
  <2> QED BY <2>1, <2>2, <2>3, <2>4, <2>5, <2>6, <2>7, <2>8, <2>9, <2>10,
             <2>11, <2>12, <2>13 DEF Next, CallSteps
<1> QED BY <1>1, <1>2, PTL DEF Spec

-----------------------------------------------------------------------------
\* The step of a call that is not the sink's confirmation, and that neither
\* gives the sink a chunk nor buffers one.
LEMMA OtherCalls ==
  ASSUME TypeOK, SinkInv, UNCHANGED <<writing, wbuf>>, ~Inside("clear"),
         \/ stack' = stack
         \/ stack' = <<Call("resume"), Call("drain")>>
         \/ stack' = <<Call("micro"), Call("drain")>>
         \/ stack' = Append(stack, Call("drain"))
         \/ \E calls \in Seq(Frames) :
              stack # <<>> /\ ClearFree(calls) /\ Return(calls)
  PROVE  SinkInv'
<1>1. ClearFree(stack)
  <2>1. stack = <<>> => Len(stack) = 0
    BY EmptySeq
  <2>2. PICK n \in Nat : n = Len(stack)
    BY LenProperties DEF TypeOK
  <2>3. ASSUME NEW i \in 1..n PROVE stack[i].at # "clear"
    <3>1. CASE i = n
      BY <2>1, <2>2, <3>1 DEF Inside, Last
    <3>2. CASE i # n
      BY <2>2, <3>2 DEF SinkInv
    <3> QED BY <3>1, <3>2
  <2> QED BY <2>2, <2>3 DEF ClearFree
<1>2. stack' \in Seq(Frames) /\ ClearFree(stack)'
  <2>1. CASE \/ stack' = stack
             \/ stack' = <<Call("resume"), Call("drain")>>
             \/ stack' = <<Call("micro"), Call("drain")>>
    BY <1>1, <2>1, CallLists DEF TypeOK, ClearFree
  <2>2. CASE stack' = Append(stack, Call("drain"))
    <3>1. PICK n \in Nat : n = Len(stack)
      BY LenProperties DEF TypeOK
    <3>2. /\ stack' \in Seq(Frames) /\ Len(stack') = n + 1
          /\ stack'[n + 1] = Call("drain") /\ \A i \in 1..n : stack'[i] = stack[i]
      BY <2>2, <3>1, FrameTypes, AppendProperties DEF TypeOK
    <3>3. \A i \in 1..(n + 1) : i = n + 1 \/ i \in 1..n
      OBVIOUS
    <3>4. Call("drain").at # "clear"
      BY DEF Call
    <3> QED BY <1>1, <3>1, <3>2, <3>3, <3>4 DEF ClearFree
  <2>3. ASSUME NEW calls \in Seq(Frames), stack # <<>>, ClearFree(calls), Return(calls)
        PROVE  stack' \in Seq(Frames) /\ ClearFree(stack)'
    <3>1. ClearFree(Front(stack) \o calls) /\ Front(stack) \o calls \in Seq(Frames)
      BY <2>3, ReturnFrom, ReturnType
    <3> QED BY <2>3, <3>1 DEF Return, ClearFree
  <2> QED BY <2>1, <2>2, <2>3
<1>3. PICK n \in Nat : n = Len(stack') /\ (stack' # <<>> => n > 0)
  BY <1>2, EmptySeq
<1>4. \A i \in 1..n : stack'[i].at # "clear"
  BY <1>2, <1>3 DEF ClearFree
<1>5. ~Inside("clear")'
  BY <1>3, <1>4 DEF Inside, Last
<1>6. \A i \in 1..(n - 1) : stack'[i].at # "clear"
  BY <1>4
<1> QED BY <1>3, <1>5, <1>6 DEF SinkInv

\* The sink is given a chunk when no other waits before it.
LEMMA SinkStep ==
  TypeOK /\ SinkInv /\ [Next]_vars => SinkInv'
<1> SUFFICES ASSUME TypeOK, SinkInv, [Next]_vars PROVE SinkInv'
  OBVIOUS
<1> USE DEF writeVars
<1>t. stack \in Seq(Frames) /\ rbuf \in Seq(Chunks) /\ wbuf \in Seq(Chunks)
  BY DEF TypeOK
<1>i. \A a, b : Inside(a) /\ Inside(b) => a = b
  BY DEF Inside
<1>s. ASSUME NEW c \in Chunks, NEW base \in Seq(Frames), ClearFree(base),
             Sink(c, base), wbuf' = <<>> \/ ~(writing' = None) \/ stack' # base
      PROVE  SinkInv'
  <2>1. CASE writing' = c /\ stack' = base
    <3>1. writing' # None
      BY <2>1 DEF Chunks, None
    <3>2. PICK n \in Nat : n = Len(stack') /\ (stack' # <<>> => n > 0)
      BY <2>1, EmptySeq
    <3>3. \A i \in 1..n : stack'[i].at # "clear"
      BY <1>s, <2>1, <3>2 DEF ClearFree
    <3>4. ~Inside("clear")' /\ \A i \in 1..(n - 1) : stack'[i].at # "clear"
      BY <3>2, <3>3 DEF Inside, Last
    <3> QED BY <3>1, <3>2, <3>4 DEF SinkInv
  <2>2. CASE writing' = None /\ stack' = Append(base, Call("clear"))
    BY <1>s, <2>2, ClearPushed DEF SinkInv, Inside
  <2> QED BY <1>s, <2>1, <2>2 DEF Sink
<1>1. CASE OnDataReturns
  BY <1>1, <1>i, CallLists, OtherCalls DEF OnDataReturns, Inside
<1>2. CASE Drained
  <2>1. UNCHANGED <<writing, wbuf>> /\ wbuf = <<>> /\ stack # <<>>
        /\ stack' = Front(stack) \o <<Call("resume"), Call("drain")>>
    BY <1>2 DEF Drained, OnDrain, Return, Inside
  <2>2. /\ ClearFree(stack') /\ stack' \in Seq(Frames)
    BY <2>1, CallLists, ReturnFrom, ReturnType
  <2>3. PICK n \in Nat : n = Len(stack') /\ (stack' # <<>> => n > 0)
    BY <2>2, EmptySeq
  <2>4. \A i \in 1..n : stack'[i].at # "clear"
    BY <2>2, <2>3 DEF ClearFree
  <2>5. ~Inside("clear")' /\ \A i \in 1..(n - 1) : stack'[i].at # "clear"
    BY <2>3, <2>4 DEF Inside, Last
  <2> QED BY <2>1, <2>3, <2>5 DEF SinkInv
<1>3. CASE ClearNext
  <2>1. stack # <<>> /\ Front(stack) \in Seq(Frames) /\ Head(wbuf) \in Chunks
    BY <1>3, <1>t, FrontProperties, HeadTailProperties DEF ClearNext, Inside
  <2>2. Front(stack) \o <<>> = Front(stack)
    BY <2>1, ConcatEmptySeq
  <2>3. ClearFree(Front(stack))
    BY <2>1, <2>2, CallLists, ReturnFrom
  <2>4. Append(Front(stack), Call("clear")) # Front(stack)
    BY <2>1, FrameTypes, AppendProperties, LenProperties
  <2>5. Sink(Head(wbuf), Front(stack))
    BY <1>3 DEF ClearNext
  <2>6. ~(writing' = None) \/ stack' # Front(stack)
    BY <2>1, <2>4, <2>5 DEF Sink, Chunks, None
  <2> QED BY <1>s, <2>1, <2>3, <2>5, <2>6
<1>4. CASE SinkConfirms
  <2>1. /\ stack' = <<Call("clear")>> /\ writing' = None
    BY <1>4 DEF SinkConfirms
  <2>2. /\ Len(stack') = 1 /\ stack'[1].at = "clear" /\ stack' # <<>>
    BY <2>1 DEF Call
  <2> QED BY <2>1, <2>2 DEF SinkInv, Inside, Last
<1>5. CASE Push
  <2>1. ~Inside("clear")
    BY <1>5, <1>i DEF Push, CanPush, Turn, Inside
  <2> QED BY <1>5, <2>1, OtherCalls DEF Push
<1>6. CASE PushNull
  <2>1. ~Inside("clear")
    BY <1>6, <1>i DEF PushNull, CanPush, Turn, Inside
  <2> QED BY <1>6, <2>1, OtherCalls DEF PushNull
<1>7. CASE DrainNext
  <2>1. ~Inside("clear") /\ Inside("drain") /\ Head(rbuf) \in Chunks
    BY <1>7, <1>t, <1>i, HeadTailProperties DEF DrainNext
  <2>2. CASE writing # None /\ UNCHANGED <<writing, stack>>
    BY <2>1, <2>2 DEF SinkInv, Inside
  <2>3. CASE /\ writing = None /\ UNCHANGED wbuf
             /\ Sink(Head(rbuf), Append(stack, [at |-> "onData", chunk |-> Head(rbuf)]))
    <3> DEFINE base == Append(stack, [at |-> "onData", chunk |-> Head(rbuf)])
    <3>1. wbuf' = <<>>
      BY <2>1, <2>3 DEF SinkInv
    <3>2. PICK n \in Nat : n = Len(stack) /\ n > 0
      BY <1>t, <2>1, EmptySeq DEF Inside
    <3>3. /\ base \in Seq(Frames) /\ Len(base) = n + 1
          /\ base[n + 1].at = "onData" /\ \A i \in 1..n : base[i] = stack[i]
      BY <1>t, <2>1, <3>2, FrameTypes, AppendProperties
    <3> HIDE DEF base
    <3>4. ASSUME NEW i \in 1..(n + 1) PROVE base[i].at # "clear"
      <4>1. CASE i = n + 1
        BY <3>3, <4>1
      <4>2. CASE i = n
        BY <2>1, <3>2, <3>3, <4>2 DEF Inside, Last
      <4>3. CASE i \in 1..(n - 1)
        BY <3>2, <3>3, <4>3 DEF SinkInv
      <4> QED BY <4>1, <4>2, <4>3
    <3>5. ClearFree(base)
      BY <3>3, <3>4 DEF ClearFree
    <3> QED BY <1>s, <2>1, <2>3, <3>1, <3>3, <3>5 DEF base
  <2> QED BY <1>7, <2>2, <2>3 DEF DrainNext, OnData
<1>8. CASE DrainReturns
  BY <1>8, <1>i, CallLists, OtherCalls DEF DrainReturns, Inside
<1>9. CASE ResumeReads
  BY <1>9, <1>i, CallLists, OtherCalls DEF ResumeReads, Inside, CallRead
<1>10. CASE MicrotaskReads
  BY <1>10, <1>i, CallLists, OtherCalls DEF MicrotaskReads, Inside, CallRead
<1>11. CASE ReadReturns
  BY <1>11, <1>i, CallLists, OtherCalls DEF ReadReturns, Inside
<1>12. CASE Pipe \/ RunMicrotask
  BY <1>12, OtherCalls DEF Pipe, RunMicrotask, Turn, Inside
<1>13. CASE UNCHANGED vars
  BY <1>13, OtherCalls DEF vars, SinkInv, Inside
<1> QED BY <1>1, <1>2, <1>3, <1>4, <1>5, <1>6, <1>7, <1>8, <1>9, <1>10,
           <1>11, <1>12, <1>13 DEF Next, CallSteps

-----------------------------------------------------------------------------
\* A chunk is buffered only while the readable flows, and the readable flows
\* on only if the buffer is below the mark.
LEMMA FlowStep ==
  TypeOK /\ SinkInv /\ FlowInv /\ [Next]_vars => FlowInv'
<1> SUFFICES ASSUME TypeOK, SinkInv, FlowInv, [Next]_vars PROVE FlowInv'
  OBVIOUS
<1> USE DEF readVars, writeVars, pipeVars
<1>t. /\ stack \in Seq(Frames) /\ rbuf \in Seq(Chunks) /\ wbuf \in Seq(Chunks)
      /\ WriteMark \in Nat /\ Total(wbuf) \in Nat /\ 0 \notin Chunks
  BY StreamAssumption, TotalIsNat DEF TypeOK, Chunks
<1>i. \A a, b : Inside(a) /\ Inside(b) => a = b
  BY DEF Inside
<1>p. ~piped => Untouched
  BY DEF FlowInv
<1>f. wbuf = <<>> \/ Total(Front(wbuf)) < WriteMark
  BY DEF FlowInv
<1>o. flowing /\ ~Inside("onData") /\ (writing # None \/ wbuf # <<>>)
        => Total(wbuf) < WriteMark
  BY DEF FlowInv
<1>n. piped /\ ~flowing => writing # None \/ refused \/ Inside("clear")
  BY DEF FlowInv
\* What returns is neither write() nor the sink's confirmation.
<1>q. ASSUME UNCHANGED <<piped, microtask, flowing, writing, wbuf, refused>>,
             ~Inside("onData"), ~Inside("clear"),
             piped \/ stack' = stack
      PROVE  FlowInv'
  BY <1>q, <1>p, <1>f, <1>o, <1>n DEF FlowInv, Untouched
<1>1. CASE OnDataReturns
  <2>1. /\ piped /\ Inside("onData") /\ ~Inside("clear")
        /\ UNCHANGED <<piped, microtask, wbuf, writing>>
    BY <1>1, <1>i, <1>p DEF OnDataReturns, Inside, Untouched
  <2> DEFINE c == Last(stack).chunk
             ok == Total(Append(wbuf, c)) < WriteMark
  <2>2. c \in Chunks
    <3>1. Last(stack) \in Frames
      BY <1>t, <2>1, FrontProperties DEF Inside
    <3> QED BY <2>1, <3>1, FrameTypes DEF Inside
  <2>3. /\ flowing' = (flowing /\ ok)
        /\ refused' = (refused \/ (~ok /\ writing # c))
    BY <1>1 DEF OnDataReturns, Accepts
  <2>4. Total(wbuf) <= Total(Append(wbuf, c)) /\ Total(Append(wbuf, c)) \in Nat
    BY <1>t, <2>2, TotalOfAppend, TotalIsNat, AppendProperties
  <2>5. ok => Total(wbuf) < WriteMark
    BY <1>t, <2>4
  <2> HIDE DEF c, ok
  <2>6. flowing' => Total(wbuf)' < WriteMark
    <3>1. Total(wbuf)' = Total(wbuf)
      BY <2>1
    <3> QED BY <2>3, <2>5, <3>1
  <2>7. ~flowing' => writing' # None \/ refused'
    BY <1>t, <1>n, <2>1, <2>2, <2>3 DEF None
  <2>8. (wbuf = <<>> \/ Total(Front(wbuf)) < WriteMark)'
    BY <1>f, <2>1
  <2> QED BY <2>1, <2>6, <2>7, <2>8 DEF FlowInv
<1>2. CASE Drained
  <2>1. /\ piped' /\ flowing' /\ wbuf' = <<>> /\ writing' = None
    BY <1>2, <1>p DEF Drained, OnDrain, Inside, SinkInv, Untouched
  <2> QED BY <2>1 DEF FlowInv
<1>3. CASE ClearNext
  <2>1. /\ piped /\ Inside("clear") /\ ~Inside("onData") /\ wbuf # <<>>
        /\ wbuf' = Tail(wbuf) /\ UNCHANGED <<piped, flowing>>
    BY <1>3, <1>i, <1>p DEF ClearNext, Inside, Untouched
  <2>2. Head(wbuf) \in Chunks /\ Front(stack) \in Seq(Frames)
    BY <1>t, <2>1, HeadTailProperties, FrontProperties DEF Inside
  <2>3. writing' # None \/ Inside("clear")'
    <3>1. CASE writing' = Head(wbuf)
      BY <1>t, <2>2, <3>1 DEF None
    <3>2. CASE stack' = Append(Front(stack), Call("clear"))
      <4>1. stack' # <<>> /\ Last(stack') = Call("clear")
        BY <2>2, <3>2, FrameTypes, LastOfAppend, AppendProperties
      <4> QED BY <4>1 DEF Inside, Call
    <3> QED BY <1>3, <3>1, <3>2 DEF ClearNext, Sink
  <2>4. flowing => Total(wbuf)' < WriteMark
    <3>1. /\ Total(Tail(wbuf)) <= Total(wbuf) /\ Total(Tail(wbuf)) \in Nat
      BY <1>t, <2>1, TotalOfTail, TotalIsNat, HeadTailProperties
    <3> QED BY <1>t, <1>o, <2>1, <3>1
  <2>5. (wbuf = <<>> \/ Total(Front(wbuf)) < WriteMark)'
    <3>1. CASE Tail(wbuf) = <<>>
      BY <2>1, <3>1
    <3>2. CASE Tail(wbuf) # <<>>
      <4>1. /\ Front(Tail(wbuf)) = Tail(Front(wbuf)) /\ Front(wbuf) # <<>>
            /\ Front(wbuf) \in Seq(Chunks)
        BY <1>t, <2>1, <3>2, FrontOfTail, FrontProperties
      <4>2. /\ Total(Tail(Front(wbuf))) <= Total(Front(wbuf))
            /\ Total(Front(wbuf)) \in Nat /\ Total(Tail(Front(wbuf))) \in Nat
        BY <4>1, TotalOfTail, TotalIsNat, HeadTailProperties
      <4>3. Total(Tail(Front(wbuf))) < WriteMark
        BY <1>t, <1>f, <2>1, <4>2
      <4> QED BY <2>1, <4>1, <4>3
    <3> QED BY <3>1, <3>2
  <2> QED BY <2>1, <2>3, <2>4, <2>5 DEF FlowInv
<1>4. CASE SinkConfirms
  <2>1. /\ piped /\ ~Inside("onData") /\ writing # None
        /\ UNCHANGED <<piped, flowing, wbuf>> /\ stack' = <<Call("clear")>>
    BY <1>4, <1>p DEF SinkConfirms, Turn, Inside, Untouched
  <2>2. Inside("clear")'
    BY <2>1 DEF Inside, Call, Last
  <2>3. flowing => Total(wbuf)' < WriteMark
    BY <1>o, <2>1
  <2> QED BY <1>f, <2>1, <2>2, <2>3 DEF FlowInv
<1>5. CASE Push
  <2>1. /\ ~Inside("onData") /\ ~Inside("clear")
        /\ UNCHANGED <<piped, microtask, flowing, writing, wbuf, refused>>
    BY <1>5, <1>i DEF Push, CanPush, Turn, Inside
  <2>2. piped \/ stack' = stack
    BY <1>5, <1>p DEF Push, Untouched
  <2> QED BY <1>q, <2>1, <2>2
<1>6. CASE PushNull
  BY <1>6, <1>q, <1>i DEF PushNull, CanPush, Turn, Inside
<1>7. CASE DrainNext
  <2> DEFINE c == Head(rbuf)
  <2>1. /\ piped /\ Inside("drain") /\ ~Inside("onData") /\ ~Inside("clear")
        /\ flowing /\ UNCHANGED <<piped, refused>>
    BY <1>7, <1>i, <1>p DEF DrainNext, Inside, Untouched
  <2>2. c \in Chunks
    BY <1>7, <1>t, HeadTailProperties DEF DrainNext
  <2>3. CASE /\ writing # None /\ wbuf' = Append(wbuf, c)
             /\ flowing' = Accepts(wbuf') /\ UNCHANGED <<writing, stack>>
    <3>1. Total(wbuf) < WriteMark
      BY <1>o, <2>1, <2>3
    <3>2. Front(wbuf') = wbuf
      BY <1>t, <2>2, <2>3, FrontOfAppend
    <3>3. (Total(Front(wbuf)) < WriteMark)'
      BY <3>1, <3>2
    <3>4. flowing' => (Total(wbuf) < WriteMark)'
      BY <2>3 DEF Accepts
    <3> QED BY <2>1, <2>3, <3>3, <3>4 DEF FlowInv
  <2>4. CASE /\ writing = None /\ UNCHANGED <<wbuf, flowing>>
             /\ Sink(c, Append(stack, [at |-> "onData", chunk |-> c]))
    <3> DEFINE base == Append(stack, [at |-> "onData", chunk |-> c])
    <3>1. wbuf' = <<>> /\ flowing'
      BY <2>1, <2>4 DEF SinkInv
    <3>2. writing' # None => Inside("onData")'
      <4> SUFFICES ASSUME writing' # None PROVE Inside("onData")'
        OBVIOUS
      <4>1. stack' = base
        BY <2>4 DEF Sink
      <4>2. base # <<>> /\ Last(base) = [at |-> "onData", chunk |-> c]
        BY <1>t, <2>2, FrameTypes, LastOfAppend, AppendProperties
      <4> QED BY <4>1, <4>2 DEF Inside
    <3> QED BY <2>1, <3>1, <3>2 DEF FlowInv
  <2> QED BY <1>7, <2>3, <2>4 DEF DrainNext, OnData, BufferChunk
<1>8. CASE DrainReturns
  BY <1>8, <1>q, <1>i, <1>p DEF DrainReturns, Inside, Untouched
<1>9. CASE ResumeReads
  BY <1>9, <1>q, <1>i, <1>p DEF ResumeReads, Inside, Untouched
<1>10. CASE MicrotaskReads
  BY <1>10, <1>q, <1>i, <1>p DEF MicrotaskReads, Inside, Untouched
<1>11. CASE ReadReturns
  BY <1>11, <1>q, <1>i, <1>p DEF ReadReturns, Inside, Untouched
<1>12. CASE Pipe
  BY <1>12, <1>p DEF Pipe, FlowInv, Untouched
<1>13. CASE RunMicrotask
  <2>1. /\ piped /\ piped' /\ ~Inside("onData") /\ ~Inside("clear")
        /\ UNCHANGED <<flowing, writing, wbuf, refused>>
    BY <1>13, <1>p DEF RunMicrotask, Turn, Inside, Untouched
  <2> QED BY <1>f, <1>o, <1>n, <2>1 DEF FlowInv
<1>14. CASE UNCHANGED vars
  BY <1>14, <1>p, <1>f, <1>o, <1>n DEF vars, FlowInv, Untouched, Inside
<1> QED BY <1>1, <1>2, <1>3, <1>4, <1>5, <1>6, <1>7, <1>8, <1>9, <1>10,
           <1>11, <1>12, <1>13, <1>14 DEF Next, CallSteps

\* The pipe before its first step: nothing is called, buffered or paused.
LEMMA PipeStart == Init => SinkInv /\ FlowInv /\ NothingLost /\ FinishIsLast
<1> SUFFICES ASSUME Init PROVE SinkInv /\ FlowInv /\ NothingLost /\ FinishIsLast
  OBVIOUS
<1>1. stack = <<>> /\ wbuf = <<>> /\ rbuf = <<>> /\ written = <<>> /\ pushed = 0
  BY DEF Init
<1>2. SinkInv
  <2>1. \A i \in 1..(Len(stack) - 1) : FALSE
    BY <1>1
  <2> QED BY <1>1, <2>1 DEF SinkInv, Inside
<1>3. FlowInv
  BY DEF Init, FlowInv, Untouched
<1>4. NothingLost
  <2>1. [i \in 1..0 |-> i] = <<>>
    OBVIOUS
  <2>2. <<>> \o <<>> \o <<>> = <<>>
    OBVIOUS
  <2> QED BY <1>1, <2>1, <2>2 DEF NothingLost
<1>5. FinishIsLast
  BY DEF Init, FinishIsLast
<1> QED BY <1>2, <1>3, <1>4, <1>5

\* The readable stops as soon as the writable is at its mark, and between turns
\* it is stopped only if a 'drain' is to come or a confirmed chunk was refused
\* (onData's pause, the pipe's 'drain' listener, the marks of write()).
THEOREM PipeHoldsBack == Spec => []Backpressure
<1>1. Init => SinkInv /\ FlowInv
  BY PipeStart
<1>2. TypeOK /\ TypeOK' /\ SinkInv /\ FlowInv /\ [Next]_vars => SinkInv' /\ FlowInv'
  BY SinkStep, FlowStep
<1>3. FlowInv => Backpressure
  BY DEF FlowInv, Backpressure, Turn, Inside
<1> QED BY <1>1, <1>2, <1>3, TypeCorrect, PTL DEF Spec

-----------------------------------------------------------------------------
(* Where the chunks are *)

\* A chunk goes from the source to the readable's buffer, from its head to the
\* end of the writable's - or to the sink, if none waits before it - and from
\* the head of that one to the sink.
LEMMA ChunkStep ==
  TypeOK /\ SinkInv /\ NothingLost /\ [Next]_vars => NothingLost'
<1> SUFFICES ASSUME TypeOK, SinkInv, NothingLost, [Next]_vars PROVE NothingLost'
  OBVIOUS
<1> USE DEF readVars, writeVars
<1>t. /\ written \in Seq(Chunks) /\ wbuf \in Seq(Chunks) /\ rbuf \in Seq(Chunks)
      /\ pushed \in Nat
  BY StreamAssumption DEF TypeOK
<1>w. written \o wbuf \in Seq(Chunks) /\ (written \o wbuf) \o rbuf \in Seq(Chunks)
  BY <1>t, ConcatProperties
<1>n. (written \o wbuf) \o rbuf = [i \in 1..pushed |-> i]
  BY DEF NothingLost
<1>1. CASE UNCHANGED <<pushed, rbuf, wbuf, written>>
  BY <1>1 DEF NothingLost
<1>2. CASE Push
  <2> DEFINE all == [i \in 1..pushed |-> i]
             new == [i \in 1..(pushed + 1) |-> i]
  <2>1. /\ pushed' = pushed + 1 /\ rbuf' = Append(rbuf, pushed + 1)
        /\ UNCHANGED <<wbuf, written>> /\ pushed + 1 \in Chunks
    BY <1>2, <1>t, StreamAssumption DEF Push, Chunks
  <2>2. (written \o wbuf) \o Append(rbuf, pushed + 1) = Append(all, pushed + 1)
    <3>1. (written \o wbuf) \o Append(rbuf, pushed + 1)
            = Append((written \o wbuf) \o rbuf, pushed + 1)
      BY <1>t, <1>w, <2>1, AppendToConcat
    <3> QED BY <1>n, <3>1
  <2>3. new = Append(all, pushed + 1)
    <3>1. /\ all \in Seq(Nat) /\ Len(all) = pushed
          /\ new \in Seq(Nat) /\ Len(new) = pushed + 1
      BY <1>t
    <3>2. /\ Append(all, pushed + 1) \in Seq(Nat)
          /\ Len(Append(all, pushed + 1)) = pushed + 1
          /\ \A i \in 1..pushed : Append(all, pushed + 1)[i] = all[i]
          /\ Append(all, pushed + 1)[pushed + 1] = pushed + 1
      BY <1>t, <3>1, AppendProperties
    <3>3. \A i \in 1..(pushed + 1) : i = pushed + 1 \/ i \in 1..pushed
      BY <1>t
    <3>4. \A i \in 1..(pushed + 1) : new[i] = Append(all, pushed + 1)[i]
      BY <1>t, <3>2, <3>3
    <3> QED BY <3>1, <3>2, <3>4, SeqEqual
  <2> QED BY <2>1, <2>2, <2>3 DEF NothingLost
<1>3. CASE DrainNext
  <2>1. /\ rbuf # <<>> /\ rbuf' = Tail(rbuf) /\ pushed' = pushed
        /\ Head(rbuf) \in Chunks /\ Inside("drain") /\ ~Inside("clear")
    BY <1>3, <1>t, HeadTailProperties DEF DrainNext, Inside
  <2>2. Append(written \o wbuf, Head(rbuf)) \o Tail(rbuf) = (written \o wbuf) \o rbuf
    BY <1>t, <1>w, <2>1, HeadMovesOver
  <2>3. CASE wbuf' = Append(wbuf, Head(rbuf)) /\ written' = written
    <3>1. written \o Append(wbuf, Head(rbuf)) = Append(written \o wbuf, Head(rbuf))
      BY <1>t, <2>1, AppendToConcat
    <3> QED BY <1>n, <2>1, <2>2, <2>3, <3>1 DEF NothingLost
  <2>4. CASE wbuf = <<>> /\ wbuf' = wbuf /\ written' = Append(written, Head(rbuf))
    <3>1. written \o <<>> = written
      BY <1>t, ConcatEmptySeq
    <3>2. Append(written, Head(rbuf)) \o <<>> = Append(written, Head(rbuf))
      BY <1>t, <2>1, AppendProperties, ConcatEmptySeq
    <3> QED BY <1>n, <2>1, <2>2, <2>4, <3>1, <3>2 DEF NothingLost
  <2> QED
    BY <1>3, <2>1, <2>3, <2>4 DEF DrainNext, OnData, BufferChunk, Sink, SinkInv
<1>4. CASE ClearNext
  <2>1. /\ wbuf # <<>> /\ wbuf' = Tail(wbuf) /\ written' = Append(written, Head(wbuf))
        /\ UNCHANGED <<pushed, rbuf>>
    BY <1>4 DEF ClearNext, Sink
  <2>2. Append(written, Head(wbuf)) \o Tail(wbuf) = written \o wbuf
    BY <1>t, <2>1, HeadMovesOver
  <2> QED BY <2>1, <2>2 DEF NothingLost
<1> QED
  BY <1>1, <1>2, <1>3, <1>4
     DEF Next, CallSteps, vars, OnDataReturns, Drained, DrainReturns, ResumeReads,
         MicrotaskReads, ReadReturns, PushNull, Pipe, RunMicrotask, SinkConfirms

\* Every pushed chunk is at the sink or in one of the buffers, in the order of
\* the pushes, however deep push(), _drainBuffer, _clearBuffer and resume() are
\* nested in each other.
THEOREM ChunksStayInOrder == Spec => []NothingLost
<1>1. Init => SinkInv /\ NothingLost
  BY PipeStart
<1>2. TypeOK /\ SinkInv /\ NothingLost /\ [Next]_vars => SinkInv' /\ NothingLost'
  BY SinkStep, ChunkStep
<1> QED BY <1>1, <1>2, TypeCorrect, PTL DEF Spec

-----------------------------------------------------------------------------
(* The end *)

\* What is pushed is counted where it is.
LEMMA CountedOnce ==
  ASSUME TypeOK, NothingLost
  PROVE  /\ Len(written) \in Nat /\ Len(wbuf) \in Nat /\ Len(rbuf) \in Nat
         /\ Len(written) + Len(wbuf) + Len(rbuf) = pushed
<1>1. /\ written \in Seq(Chunks) /\ wbuf \in Seq(Chunks) /\ rbuf \in Seq(Chunks)
      /\ pushed \in Nat
  BY StreamAssumption DEF TypeOK
<1>2. written \o wbuf \in Seq(Chunks) /\ Len(written \o wbuf) = Len(written) + Len(wbuf)
  BY <1>1, ConcatProperties
<1>3. Len((written \o wbuf) \o rbuf) = Len(written \o wbuf) + Len(rbuf)
  BY <1>1, <1>2, ConcatProperties
<1>4. Len([i \in 1..pushed |-> i]) = pushed
  BY <1>1
<1> QED BY <1>1, <1>2, <1>3, <1>4, LenProperties DEF NothingLost

LEMMA EndStep ==
  TypeOK /\ SinkInv /\ NothingLost /\ FinishIsLast /\ [Next]_vars => FinishIsLast'
<1> SUFFICES ASSUME TypeOK, SinkInv, NothingLost, FinishIsLast, [Next]_vars
             PROVE  FinishIsLast'
  OBVIOUS
<1> USE DEF readVars, writeVars
<1>c. PICK w \in Nat, b \in Nat, r \in Nat :
        /\ w = Len(written) /\ b = Len(wbuf) /\ r = Len(rbuf) /\ w + b + r = pushed
        /\ (wbuf = <<>> <=> b = 0) /\ (rbuf = <<>> <=> r = 0)
  BY CountedOnce, EmptySeq DEF TypeOK
<1>f. finished => ended /\ writing = None /\ Len(written) = pushed
  BY DEF FinishIsLast
<1>e. ending => ended /\ rbuf = <<>>
  BY DEF FinishIsLast
<1>l. finished => wbuf = <<>> /\ rbuf = <<>>
  BY <1>c, <1>f
\* The pipe's listener ends the writable when the readable is empty.
<1>n. ASSUME EmitEnd, ended', rbuf = <<>>, UNCHANGED <<rbuf, pushed, writeVars>>
      PROVE  FinishIsLast'
  <2>1. finished' => writing = None /\ Len(written) = pushed
    <3>1. wbuf = <<>> => Len(written) = pushed
      BY <1>n, <1>c
    <3>2. finished' => finished \/ (writing = None /\ wbuf = <<>>)
      BY <1>n DEF EmitEnd, End
    <3> QED BY <1>f, <3>1, <3>2
  <2> QED BY <1>n, <2>1 DEF FinishIsLast
<1>1. CASE OnDataReturns \/ ResumeReads \/ MicrotaskReads \/ ReadReturns \/ Pipe
            \/ RunMicrotask \/ SinkConfirms \/ UNCHANGED vars
  BY <1>1, <1>f, <1>e DEF OnDataReturns, ResumeReads, MicrotaskReads, ReadReturns, Pipe,
                    RunMicrotask, SinkConfirms, vars, FinishIsLast
<1>2. CASE Drained
  <2>1. /\ Inside("clear") /\ wbuf = <<>> /\ writing = None
        /\ finished' = (finished \/ ending) /\ ending' = ending
        /\ UNCHANGED <<readVars, writeVars>>
    BY <1>2 DEF Drained, SinkInv
  <2>2. ending => ended /\ Len(written) = pushed
    BY <1>c, <1>e, <2>1
  <2> QED BY <1>f, <1>e, <2>1, <2>2 DEF FinishIsLast
<1>3. CASE ClearNext
  BY <1>3, <1>e, <1>l DEF ClearNext, FinishIsLast
<1>4. CASE DrainNext
  BY <1>4, <1>e, <1>l DEF DrainNext, FinishIsLast
<1>5. CASE Push
  BY <1>5, <1>f, <1>e DEF Push, CanPush, FinishIsLast
<1>6. CASE PushNull
  <2>1. CASE rbuf = <<>>
    BY <1>6, <1>n, <2>1 DEF PushNull
  <2>2. CASE rbuf # <<>>
    BY <1>6, <1>e, <1>l, <2>2 DEF PushNull, FinishIsLast
  <2> QED BY <2>1, <2>2
<1>7. CASE DrainReturns
  <2>1. CASE ended /\ rbuf = <<>>
    BY <1>7, <1>n, <2>1 DEF DrainReturns
  <2>2. CASE ~(ended /\ rbuf = <<>>)
    BY <1>7, <1>f, <1>e, <2>2 DEF DrainReturns, FinishIsLast
  <2> QED BY <2>1, <2>2
<1> QED BY <1>1, <1>2, <1>3, <1>4, <1>5, <1>6, <1>7 DEF Next, CallSteps

\* 'finish' is emitted after the sink has confirmed the last chunk, and the
\* writable is ended only when the readable is at its end (_finish, end() and
\* the test at the end of _clearBuffer).
THEOREM FinishComesLast == Spec => []FinishIsLast
<1>1. Init => FinishIsLast /\ SinkInv
  BY PipeStart
<1>2. TypeOK /\ SinkInv /\ NothingLost /\ FinishIsLast /\ [Next]_vars
        => FinishIsLast' /\ SinkInv'
  BY SinkStep, EndStep
<1> QED BY <1>1, <1>2, TypeCorrect, ChunksStayInOrder, PTL DEF Spec

\* Nothing that is pushed is lost, doubled or overtaken, and 'finish' is emitted
\* behind the last of it.
THEOREM WrittenThenFinished == Spec => []AllThenFinish
BY ChunksStayInOrder, FinishComesLast, PTL DEF AllThenFinish
=============================================================================
