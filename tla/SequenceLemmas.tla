---------------------------- MODULE SequenceLemmas ----------------------------
(***************************************************************************)
(* Facts about sequences that the proofs of several components rest on,    *)
(* and the principle by which they prove what needs an induction: a set of *)
(* numbers that is not empty has a least element.                          *)
(***************************************************************************)
EXTENDS SequencesExt, SequenceTheorems, WellFoundedInduction, TLAPS

\* A set of numbers with the successor of each of its members, and with 0, has
\* them all: else take the least that is missing.
LEMMA AllNumbers ==
  ASSUME NEW T \in SUBSET Nat, 0 \in T, \A n \in T : n + 1 \in T
  PROVE  T = Nat
<1> SUFFICES ASSUME Nat \ T # {} PROVE FALSE
  OBVIOUS
<1>1. PICK n \in Nat \ T : \A m \in Nat \ T : <<m, n>> \notin OpToRel(<, Nat)
  BY NatLessThanWellFounded, WFMin
<1>2. n # 0 /\ n - 1 \in Nat /\ n - 1 < n
  OBVIOUS
<1>3. n - 1 \in T
  BY <1>1, <1>2 DEF OpToRel
<1>4. (n - 1) + 1 = n
  BY <1>2
<1> QED BY <1>1, <1>3, <1>4

\* Of some numbers, one is the least; of numbers up to n, one is the greatest.
LEMMA MinOfNumbers ==
  ASSUME NEW T \in SUBSET Nat, T # {}
  PROVE  Min(T) \in T /\ \A i \in T : Min(T) <= i
<1>1. PICK n \in T : \A m \in T : <<m, n>> \notin OpToRel(<, Nat)
  BY NatLessThanWellFounded, WFMin
<1>2. \A m \in T : n <= m
  <2> SUFFICES ASSUME NEW m \in T PROVE n <= m
    OBVIOUS
  <2>1. n \in Nat /\ m \in Nat
    OBVIOUS
  <2>2. ~(m < n)
    BY <1>1, <2>1 DEF OpToRel
  <2> QED BY <2>1, <2>2
<1> QED BY <1>2 DEF Min

LEMMA MaxOfNumbers ==
  ASSUME NEW n \in Nat, NEW T \in SUBSET (1..n), T # {}
  PROVE  Max(T) \in T /\ \A i \in T : Max(T) >= i
<1> DEFINE U == {k \in 0..n : n - k \in T}
<1>1. U \in SUBSET Nat /\ U # {}
  <2>1. PICK i \in T : TRUE
    OBVIOUS
  <2>2. i \in 1..n
    OBVIOUS
  <2>3. n - i \in 0..n /\ n - (n - i) = i
    BY <2>2
  <2>4. n - i \in U
    BY <2>3
  <2>5. 0..n \subseteq Nat /\ U \subseteq 0..n
    OBVIOUS
  <2> HIDE DEF U
  <2> QED BY <2>4, <2>5
<1>2. PICK k \in U : \A l \in U : k <= l
  <2> HIDE DEF U
  <2> QED BY <1>1, MinOfNumbers
<1>3. n - k \in T /\ \A i \in T : n - k >= i
  <2> SUFFICES ASSUME NEW i \in T PROVE n - k >= i
    OBVIOUS
  <2>1. i \in 1..n
    OBVIOUS
  <2>2. n - i \in 0..n /\ n - (n - i) = i
    BY <2>1
  <2>3. k <= n - i
    BY <1>2, <2>2
  <2> QED BY <2>1, <2>3
<1> QED BY <1>3 DEF Max

-----------------------------------------------------------------------------
(* Ends of sequences *)

\* What is appended to the second part of a sequence is appended to the whole.
LEMMA AppendToConcat ==
  ASSUME NEW S, NEW s \in Seq(S), NEW t \in Seq(S), NEW e \in S
  PROVE  s \o Append(t, e) = Append(s \o t, e)
<1>1. <<e>> \in Seq(S)
  OBVIOUS
<1>2. s \o (t \o <<e>>) = (s \o t) \o <<e>>
  BY <1>1, ConcatAssociative
<1>3. s \o t \in Seq(S)
  BY ConcatProperties
<1> QED BY <1>2, <1>3, AppendIsConcat

\* A queue: what its head adds to the end of the first part it takes from the
\* second.
LEMMA HeadMovesOver ==
  ASSUME NEW S, NEW s \in Seq(S), NEW t \in Seq(S), t # <<>>
  PROVE  Append(s, Head(t)) \o Tail(t) = s \o t
<1>1. /\ Head(t) \in S /\ Tail(t) \in Seq(S) /\ <<Head(t)>> \in Seq(S)
  BY HeadTailProperties
<1>2. t = <<Head(t)>> \o Tail(t)
  <2>1. /\ Len(t) \in Nat /\ Len(t) > 0
        /\ Len(Tail(t)) = Len(t) - 1
        /\ \A i \in 1 .. Len(Tail(t)) : Tail(t)[i] = t[i+1]
    BY HeadTailProperties, EmptySeq
  <2>2. /\ <<Head(t)>> \o Tail(t) \in Seq(S)
        /\ Len(<<Head(t)>> \o Tail(t)) = Len(t)
        /\ \A i \in 1..Len(t) : (<<Head(t)>> \o Tail(t))[i] = t[i]
    BY <1>1, <2>1, ConcatProperties
  <2> QED BY <2>2, SeqEqual
<1>3. s \o (<<Head(t)>> \o Tail(t)) = (s \o <<Head(t)>>) \o Tail(t)
  BY <1>1, ConcatAssociative
<1> QED BY <1>1, <1>2, <1>3, AppendIsConcat

\* All but the last element.
LEMMA FrontProperties ==
  ASSUME NEW S, NEW s \in Seq(S), s # <<>>
  PROVE  /\ Front(s) \in Seq(S)
         /\ Len(Front(s)) = Len(s) - 1
         /\ \A i \in 1..(Len(s) - 1) : Front(s)[i] = s[i]
         /\ Last(s) \in S
<1>1. Len(s) \in Nat /\ Len(s) > 0
  BY EmptySeq
<1>2. \A i \in 1..(Len(s) - 1) : s[i] \in S
  BY <1>1, ElementOfSeq
<1>3. Last(s) \in S
  BY <1>1, ElementOfSeq DEF Last
<1>4. PICK k \in Nat : k = Len(s) /\ k > 0
  BY <1>1
<1>5. /\ SubSeq(s, 1, k - 1) \in Seq(S)
      /\ Len(SubSeq(s, 1, k - 1)) = IF 1 <= k - 1 THEN (k - 1) - 1 + 1 ELSE 0
      /\ \A i \in 1..((k - 1) - 1 + 1) : SubSeq(s, 1, k - 1)[i] = s[1 + i - 1]
  <2>1. 1 \in Int /\ k - 1 \in Int /\ \A i \in 1..(k - 1) : s[i] \in S
    BY <1>2, <1>4
  <2> QED BY <2>1, SubSeqProperties
<1>6. /\ Len(SubSeq(s, 1, k - 1)) = k - 1
      /\ \A i \in 1..(k - 1) : SubSeq(s, 1, k - 1)[i] = s[i]
  BY <1>4, <1>5
<1> QED BY <1>3, <1>4, <1>5, <1>6 DEF Front

\* The call pushed last is the one on top.
LEMMA LastOfAppend ==
  ASSUME NEW S, NEW s \in Seq(S), NEW e \in S
  PROVE  Last(Append(s, e)) = e
BY AppendProperties, LenProperties DEF Last

\* Front undoes Append, and the first and the last element go independently.
LEMMA FrontOfAppend ==
  ASSUME NEW S, NEW s \in Seq(S), NEW e \in S
  PROVE  Front(Append(s, e)) = s
<1> DEFINE t == Append(s, e)
<1>1. PICK n \in Nat : n = Len(s)
  BY LenProperties
<1>2. /\ t \in Seq(S) /\ t # <<>> /\ Len(t) = n + 1 /\ (n + 1) - 1 = n
      /\ \A i \in 1..n : t[i] = s[i]
  BY <1>1, AppendProperties
<1> HIDE DEF t
<1>3. /\ Front(t) \in Seq(S) /\ Len(Front(t)) = n
      /\ \A i \in 1..n : Front(t)[i] = s[i]
  <2>1. /\ Front(t) \in Seq(S) /\ Len(Front(t)) = Len(t) - 1
        /\ \A i \in 1..(Len(t) - 1) : Front(t)[i] = t[i]
    BY <1>2, FrontProperties
  <2> QED BY <1>2, <2>1
<1> QED BY <1>1, <1>3, SeqEqual DEF t

LEMMA FrontOfTail ==
  ASSUME NEW S, NEW s \in Seq(S), s # <<>>, Tail(s) # <<>>
  PROVE  Front(s) # <<>> /\ Front(Tail(s)) = Tail(Front(s))
<1>1. /\ Tail(s) \in Seq(S) /\ Len(Tail(s)) = Len(s) - 1
      /\ \A i \in 1..(Len(s) - 1) : Tail(s)[i] = s[i + 1]
  BY HeadTailProperties
<1>2. PICK n \in Nat : n = Len(s) /\ n > 1
  <2>1. PICK n \in Nat : n = Len(s) /\ n > 0
    BY EmptySeq, LenProperties
  <2>2. n - 1 # 0
    BY <1>1, <2>1, EmptySeq
  <2> QED BY <2>1, <2>2
<1>3. /\ Front(s) \in Seq(S) /\ Len(Front(s)) = n - 1
      /\ \A i \in 1..(n - 1) : Front(s)[i] = s[i]
  BY <1>2, FrontProperties
<1>4. Front(s) # <<>>
  BY <1>2, <1>3, EmptySeq
<1>5. /\ Front(Tail(s)) \in Seq(S) /\ Len(Front(Tail(s))) = (n - 1) - 1
      /\ \A i \in 1..((n - 1) - 1) : Front(Tail(s))[i] = Tail(s)[i]
  BY <1>1, <1>2, FrontProperties
<1>6. /\ Tail(Front(s)) \in Seq(S) /\ Len(Tail(Front(s))) = (n - 1) - 1
      /\ \A i \in 1..((n - 1) - 1) : Tail(Front(s))[i] = Front(s)[i + 1]
  BY <1>3, <1>4, HeadTailProperties
<1>7. ASSUME NEW i \in 1..((n - 1) - 1) PROVE Front(Tail(s))[i] = Tail(Front(s))[i]
  <2>1. i \in 1..(n - 1) /\ i + 1 \in 1..(n - 1)
    BY <1>2
  <2> QED BY <1>1, <1>2, <1>3, <1>5, <1>6, <2>1
<1> QED BY <1>4, <1>5, <1>6, <1>7, SeqEqual

\* The elements of a concatenation, by what they are counted from.
LEMMA ConcatAt ==
  ASSUME NEW S, NEW s \in Seq(S), NEW t \in Seq(S),
         NEW n \in Nat, NEW m \in Nat, n = Len(s), m = Len(t)
  PROVE  /\ s \o t \in Seq(S) /\ Len(s \o t) = n + m
         /\ \A i \in 1..n : (s \o t)[i] = s[i]
         /\ \A i \in 1..m : (s \o t)[n + i] = t[i]
<1>1. /\ s \o t \in Seq(S) /\ Len(s \o t) = Len(s) + Len(t)
      /\ \A i \in 1..(Len(s) + Len(t)) :
           (s \o t)[i] = IF i <= Len(s) THEN s[i] ELSE t[i - Len(s)]
  BY ConcatProperties
<1>2. \A i \in 1..(n + m) : (s \o t)[i] = IF i <= n THEN s[i] ELSE t[i - n]
  BY <1>1
<1>3. ASSUME NEW i \in 1..n PROVE (s \o t)[i] = s[i]
  <2>1. i \in 1..(n + m) /\ i <= n
    OBVIOUS
  <2> QED BY <1>2, <2>1
<1>4. ASSUME NEW i \in 1..m PROVE (s \o t)[n + i] = t[i]
  <2>1. n + i \in 1..(n + m) /\ ~(n + i <= n) /\ (n + i) - n = i
    OBVIOUS
  <2> QED BY <1>2, <2>1
<1> QED BY <1>1, <1>3, <1>4

-----------------------------------------------------------------------------
(* Folds *)

\* A fold over a sequence goes by the greatest of its first positions.
LEMMA MaxOfRange ==
  ASSUME NEW n \in Nat, NEW T \in SUBSET (1..n), n \in T
  PROVE  Max(T) = n
<1>1. \A y \in T : n >= y
  OBVIOUS
<1>2. \A x \in T : (\A y \in T : x >= y) => x = n
  OBVIOUS
<1> QED BY <1>1, <1>2 DEF Max

-----------------------------------------------------------------------------
(* What a sequence holds when another follows it, or an element *)

LEMMA RangeOfConcat ==
  ASSUME NEW S, NEW s \in Seq(S), NEW t \in Seq(S)
  PROVE  Range(s \o t) = Range(s) \cup Range(t)
<1>1. PICK n \in Nat, m \in Nat : /\ n = Len(s) /\ DOMAIN s = 1..n
                                  /\ m = Len(t) /\ DOMAIN t = 1..m
  BY LenProperties
<1>2. PICK u \in Seq(S) : u = s \o t
  BY ConcatProperties
<1>3. /\ Len(u) = n + m /\ \A i \in 1..n : u[i] = s[i]
      /\ \A i \in 1..m : u[n + i] = t[i]
  BY <1>1, <1>2, ConcatAt
<1>4. DOMAIN u = 1..(n + m)
  BY <1>3, LenProperties
<1>5. ASSUME NEW e \in Range(u) PROVE e \in Range(s) \cup Range(t)
  <2>1. PICK i \in 1..(n + m) : e = u[i]
    BY <1>4 DEF Range
  <2>2. CASE i \in 1..n
    BY <1>1, <1>3, <2>1, <2>2 DEF Range
  <2>3. CASE i \notin 1..n
    <3>1. PICK l \in 1..m : i = n + l
      <4>1. i - n \in 1..m /\ i = n + (i - n)
        BY <2>3
      <4> QED BY <4>1
    <3> QED BY <1>1, <1>3, <2>1, <3>1 DEF Range
  <2> QED BY <2>2, <2>3
<1>6. ASSUME NEW e \in Range(s) PROVE e \in Range(u)
  <2>1. PICK i \in 1..n : e = s[i]
    BY <1>1 DEF Range
  <2>2. i \in 1..(n + m) /\ e = u[i]
    BY <1>3, <2>1
  <2> QED BY <1>4, <2>2 DEF Range
<1>7. ASSUME NEW e \in Range(t) PROVE e \in Range(u)
  <2>1. PICK i \in 1..m : e = t[i]
    BY <1>1 DEF Range
  <2>2. n + i \in 1..(n + m) /\ e = u[n + i]
    BY <1>3, <2>1
  <2> QED BY <1>4, <2>2 DEF Range
<1> QED BY <1>2, <1>5, <1>6, <1>7

LEMMA RangeOfAppend ==
  ASSUME NEW S, NEW s \in Seq(S), NEW e \in S
  PROVE  Range(Append(s, e)) = Range(s) \cup {e}
<1>1. PICK n \in Nat : n = Len(s) /\ DOMAIN s = 1..n
  BY LenProperties
<1>2. PICK u \in Seq(S) : u = Append(s, e)
  BY AppendProperties
<1>3. /\ DOMAIN u = 1..(n + 1) /\ u[n + 1] = e /\ \A i \in 1..n : u[i] = s[i]
  BY <1>1, <1>2, AppendProperties
<1>4. \A x \in Range(u) : x \in Range(s) \cup {e}
  BY <1>1, <1>3 DEF Range
<1>5. \A x \in Range(s) : x \in Range(u)
  BY <1>1, <1>3 DEF Range
<1>6. e \in Range(u)
  BY <1>3 DEF Range
<1> QED BY <1>2, <1>4, <1>5, <1>6

LEMMA RangeOfEmpty ==
  ASSUME NEW S, NEW s \in Seq(S)
  PROVE  Range(s) = {} <=> s = <<>>
<1>1. PICK n \in Nat : n = Len(s) /\ DOMAIN s = 1..n
  BY LenProperties
<1>2. CASE n = 0
  BY <1>1, <1>2, EmptySeq DEF Range
<1>3. CASE n # 0
  <2>1. 1 \in DOMAIN s
    BY <1>1, <1>3
  <2>2. s # <<>>
    BY <1>1, <1>3, EmptySeq
  <2> QED BY <2>1, <2>2 DEF Range
<1> QED BY <1>2, <1>3

-----------------------------------------------------------------------------
(* Sequences put one behind the other *)

FlattenOf(seqs, n, f) ==
  f = [i \in 1..n |-> IF i = 1 THEN seqs[i] ELSE f[i - 1] \o seqs[i]]

LEMMA FlattenExists ==
  ASSUME NEW seqs
  PROVE  \A n \in Nat : \E f : FlattenOf(seqs, n, f)
<1> DEFINE N == {n \in Nat : \E f : FlattenOf(seqs, n, f)}
<1>1. 0 \in N
  <2>1. FlattenOf(seqs, 0, [i \in 1..0 |-> 0])
    BY DEF FlattenOf
  <2> QED BY <2>1
<1>2. ASSUME NEW n \in N PROVE n + 1 \in N
  <2>1. PICK f : FlattenOf(seqs, n, f)
    OBVIOUS
  <2>2. n \in Nat
    OBVIOUS
  <2> DEFINE g == [i \in 1..(n + 1) |->
                     IF i = 1 THEN seqs[i] ELSE f[i - 1] \o seqs[i]]
  <2>3. ASSUME NEW i \in 1..n PROVE g[i] = f[i]
    <3>1. f[i] = IF i = 1 THEN seqs[i] ELSE f[i - 1] \o seqs[i]
      BY <2>1 DEF FlattenOf
    <3>2. i \in 1..(n + 1)
      BY <2>2
    <3> QED BY <3>1, <3>2
  <2>4. ASSUME NEW i \in 1..(n + 1), i # 1 PROVE f[i - 1] = g[i - 1]
    <3>1. i - 1 \in 1..n
      BY <2>2, <2>4
    <3> HIDE DEF g
    <3> QED BY <2>3, <3>1
  <2>5. g = [i \in 1..(n + 1) |-> IF i = 1 THEN seqs[i] ELSE g[i - 1] \o seqs[i]]
    BY <2>4
  <2>6. FlattenOf(seqs, n + 1, g)
    BY <2>5 DEF FlattenOf
  <2> QED BY <2>2, <2>6
<1> HIDE DEF N
<1>3. N = Nat
  <2>1. N \in SUBSET Nat
    BY DEF N
  <2> QED BY <1>1, <1>2, <2>1, AllNumbers
<1> QED BY <1>3 DEF N

\* What is in the whole is in one of the parts.
LEMMA FlattenSeqRange ==
  ASSUME NEW S, NEW seqs \in Seq(Seq(S))
  PROVE  /\ FlattenSeq(seqs) \in Seq(S)
         /\ \A e \in Range(FlattenSeq(seqs)) :
              \E i \in DOMAIN seqs : e \in Range(seqs[i])
<1>1. PICK n \in Nat : n = Len(seqs) /\ DOMAIN seqs = 1..n
  BY LenProperties
<1>2. CASE n = 0
  <2>1. FlattenSeq(seqs) = <<>>
    BY <1>1, <1>2, EmptySeq DEF FlattenSeq
  <2>2. Range(<<>>) = {} /\ <<>> \in Seq(S)
    BY DEF Range
  <2> QED BY <2>1, <2>2
<1>3. CASE n # 0
  <2> DEFINE g == CHOOSE f : FlattenOf(seqs, n, f)
  <2>1. FlattenOf(seqs, n, g)
    BY <1>1, FlattenExists
  <2>2. FlattenSeq(seqs) = g[n]
    BY <1>1, <1>3 DEF FlattenSeq, FlattenOf
  <2> HIDE DEF g
  <2> DEFINE Good(e, i) == \E j \in 1..i : e \in Range(seqs[j])
             N == {i \in Nat : i + 1 \in 1..n =>
                     g[i + 1] \in Seq(S) /\ \A e \in Range(g[i + 1]) : Good(e, i + 1)}
  <2>3. 0 \in N
    <3>1. 1 \in 1..n /\ 0 + 1 = 1
      BY <1>3
    <3>2. g[1] = seqs[1] /\ seqs[1] \in Seq(S)
      BY <1>1, <2>1, <3>1, ElementOfSeq DEF FlattenOf
    <3>3. \A e \in Range(g[1]) : Good(e, 1)
      BY <3>2
    <3> QED BY <3>1, <3>2, <3>3
  <2>4. ASSUME NEW i \in N PROVE i + 1 \in N
    <3>1. CASE (i + 1) + 1 \in 1..n
      <4>1. /\ i + 1 \in 1..n /\ (i + 1) + 1 # 1 /\ ((i + 1) + 1) - 1 = i + 1
            /\ i + 1 \in Nat /\ i \in Nat
        BY <3>1
      <4>2. g[(i + 1) + 1] = g[i + 1] \o seqs[(i + 1) + 1]
        BY <2>1, <3>1, <4>1 DEF FlattenOf
      <4>3. g[i + 1] \in Seq(S) /\ \A e \in Range(g[i + 1]) : Good(e, i + 1)
        BY <4>1
      <4>4. seqs[(i + 1) + 1] \in Seq(S)
        BY <1>1, <3>1, ElementOfSeq
      <4>5. g[(i + 1) + 1] \in Seq(S)
        BY <4>2, <4>3, <4>4, ConcatProperties
      <4>6. Range(g[(i + 1) + 1]) = Range(g[i + 1]) \cup Range(seqs[(i + 1) + 1])
        BY <4>2, <4>3, <4>4, RangeOfConcat
      <4>7. 1..(i + 1) \subseteq 1..((i + 1) + 1) /\ (i + 1) + 1 \in 1..((i + 1) + 1)
        BY <4>1
      <4>8. \A e \in Range(g[(i + 1) + 1]) : Good(e, (i + 1) + 1)
        BY <4>3, <4>6, <4>7
      <4> QED BY <4>1, <4>5, <4>8
    <3>2. CASE ~((i + 1) + 1 \in 1..n)
      BY <3>2
    <3> QED BY <3>1, <3>2
  <2> HIDE DEF N
  <2>5. N = Nat
    <3>1. N \in SUBSET Nat
      BY DEF N
    <3> QED BY <2>3, <2>4, <3>1, AllNumbers
  <2>6. n - 1 \in N /\ (n - 1) + 1 = n /\ n \in 1..n
    BY <1>3, <2>5
  <2>7. g[n] \in Seq(S) /\ \A e \in Range(g[n]) : Good(e, n)
    BY <2>6 DEF N
  <2> QED BY <1>1, <2>2, <2>7
<1> QED BY <1>2, <1>3

\* Parts of one element each make the sequence of these elements.
LEMMA FlattenSingles ==
  ASSUME NEW S, NEW s \in Seq(S), NEW seqs,
         seqs = [i \in DOMAIN s |-> <<s[i]>>]
  PROVE  FlattenSeq(seqs) = s
<1>1. PICK n \in Nat : n = Len(s) /\ DOMAIN s = 1..n
  BY LenProperties
<1>2. seqs \in Seq(Seq(S)) /\ Len(seqs) = n /\ \A i \in 1..n : seqs[i] = <<s[i]>>
  <2>1. \A i \in 1..n : s[i] \in S /\ <<s[i]>> \in Seq(S)
    BY <1>1, ElementOfSeq
  <2>2. seqs \in [1..n -> Seq(S)]
    BY <1>1, <2>1
  <2>3. seqs \in Seq(Seq(S))
    BY <2>2, SeqDef
  <2> QED BY <1>1, <2>2, <2>3, LenProperties
<1>3. CASE n = 0
  <2>1. seqs = <<>> /\ s = <<>>
    BY <1>1, <1>2, <1>3, EmptySeq
  <2> QED BY <2>1 DEF FlattenSeq
<1>4. CASE n # 0
  <2> DEFINE g == CHOOSE f : FlattenOf(seqs, n, f)
  <2>1. FlattenOf(seqs, n, g)
    BY <1>1, FlattenExists
  <2>2. FlattenSeq(seqs) = g[n]
    BY <1>2, <1>4 DEF FlattenSeq, FlattenOf
  <2> HIDE DEF g
  <2> DEFINE Same(t, k) == /\ t \in Seq(S) /\ Len(t) = k
                           /\ \A j \in 1..k : t[j] = s[j]
             N == {i \in Nat : i + 1 \in 1..n => Same(g[i + 1], i + 1)}
  <2>3. 0 \in N
    <3>1. 1 \in 1..n /\ 0 + 1 = 1
      BY <1>4
    <3>2. g[1] = <<s[1]>> /\ s[1] \in S
      BY <1>1, <1>2, <2>1, <3>1, ElementOfSeq DEF FlattenOf
    <3>3. Same(<<s[1]>>, 1)
      BY <3>2
    <3> HIDE DEF Same
    <3> QED BY <3>1, <3>2, <3>3
  <2>4. ASSUME NEW i \in N PROVE i + 1 \in N
    <3>1. CASE (i + 1) + 1 \in 1..n
      <4>1. /\ i + 1 \in 1..n /\ (i + 1) + 1 # 1 /\ ((i + 1) + 1) - 1 = i + 1
            /\ i + 1 \in Nat /\ i \in Nat
        BY <3>1
      <4>2. PICK k \in Nat : k = i + 1
        BY <4>1
      <4>3. g[k + 1] = g[k] \o <<s[k + 1]>>
        <5>1. k + 1 \in 1..n /\ k + 1 # 1 /\ (k + 1) - 1 = k
          BY <3>1, <4>1, <4>2
        <5>2. g[k + 1] = IF k + 1 = 1 THEN seqs[k + 1] ELSE g[(k + 1) - 1] \o seqs[k + 1]
          BY ONLY <2>1, <5>1 DEF FlattenOf
        <5>3. g[k + 1] = g[k] \o seqs[k + 1]
          BY ONLY <5>1, <5>2
        <5>4. seqs[k + 1] = <<s[k + 1]>>
          BY <1>2, <5>1
        <5> QED BY ONLY <5>3, <5>4
      <4>4. Same(g[k], k)
        BY <4>1, <4>2
      <4>5. s[k + 1] \in S
        BY <1>1, <3>1, <4>2, ElementOfSeq
      <4>6. g[k + 1] = Append(g[k], s[k + 1])
        BY <4>3, <4>4, <4>5
      <4>7. /\ g[k + 1] \in Seq(S) /\ Len(g[k + 1]) = k + 1
            /\ \A j \in 1..k : g[k + 1][j] = g[k][j]
            /\ g[k + 1][k + 1] = s[k + 1]
        BY <4>4, <4>5, <4>6, AppendProperties
      <4>8. \A j \in 1..(k + 1) : j \in 1..k \/ j = k + 1
        OBVIOUS
      <4>9. Same(g[k + 1], k + 1)
        BY <4>4, <4>7, <4>8
      <4> HIDE DEF Same
      <4> QED BY <4>1, <4>2, <4>9
    <3>2. CASE ~((i + 1) + 1 \in 1..n)
      BY <3>2
    <3> QED BY <3>1, <3>2
  <2> HIDE DEF N
  <2>5. N = Nat
    <3>1. N \in SUBSET Nat
      BY DEF N
    <3> QED BY <2>3, <2>4, <3>1, AllNumbers
  <2>6. n - 1 \in N /\ (n - 1) + 1 = n /\ n \in 1..n
    BY <1>4, <2>5
  <2>7. Same(g[n], n)
    BY <2>6 DEF N
  <2>8. g[n] = s
    BY <1>1, <2>7, SeqEqual
  <2> QED BY <2>2, <2>8
<1> QED BY <1>3, <1>4
=============================================================================
