---------------------------- MODULE WebAppProofs ----------------------------
(***************************************************************************)
(* Proofs about Routing, for any paths, prefixes, middleware, directories  *)
(* and values, and any number of registering calls.                        *)
(* And proofs about HotReload, for any set of browsers, any number of      *)
(* edits and any versions that do not compile.                             *)
(***************************************************************************)
EXTENDS Routing, HotReload, SequenceLemmas, FiniteSetTheorems

Routed  == {"page", "action", "api"}
Methods == {"GET", "POST"}

\* What paths consist of, the framework's own among them.
Segments == {Taiyaki, Literal(<<"reload">>), Literal(<<"islands">>)}
            \cup UNION {ToSet(p) : p \in Paths \cup GroupPaths \cup StaticPaths}

RouteSet == [path : Seq(Segments), kind : Routed, method : Methods, group : Nat]
EntrySet == [path : Seq(Segments),
             kind : Routed \cup {"static", "reload", "islands", "vendor"},
             method : Methods, group : Nat]
GroupSet == [prefix : Seq(Segments), middleware : Seq(Middleware)]

\* What is registered, by its type.
RegisteredOK ==
  /\ routes \in Seq(RouteSet)
  /\ groups \in Seq(GroupSet)
  /\ mounts \in Seq(StaticPaths)
  /\ stack \in Seq(Middleware)

LEMMA PathsAreSequences ==
  \A p \in Paths \cup GroupPaths \cup StaticPaths : p \in Seq(Segments)
<1> SUFFICES ASSUME NEW p \in Paths \cup GroupPaths \cup StaticPaths
             PROVE  p \in Seq(Segments)
  OBVIOUS
<1>1. p \in Seq(ToSet(p))
  BY RoutingAssumption
<1>2. ToSet(p) \subseteq Segments
  BY DEF Segments
<1>3. p \in [1..Len(p) -> Segments] /\ Len(p) \in Nat
  BY <1>1, <1>2, LenProperties, ElementOfSeq
<1> QED BY <1>3, SeqDef

\* The first n routes that are registered are the first n entries of the
\* application, and no other entry is a route.
FirstRoutes(a, n) ==
  /\ a.entries \in Seq(EntrySet)
  /\ n \in 0..Len(routes) /\ n \in 0..Len(a.entries)
  /\ \A i \in 1..n : a.entries[i] = routes[i]
  /\ \A i \in DOMAIN a.entries : i \in 1..n \/ a.entries[i].kind \notin Routed

\* A tool is of a route that is registered.
ToolOK(t) == /\ t.made \in DOMAIN routes
             /\ t.path = routes[t.made].path
             /\ t.method = routes[t.made].method

ToolsOK == /\ tools.list \in Seq(Range(tools.list))
           /\ \A i \in DOMAIN tools.list : ToolOK(tools.list[i])

\* The application has the first n routes, and the client's the first m.
Copied(m, n) ==
  /\ FirstRoutes(client, m) /\ FirstRoutes(app, n)
  /\ app # NoApp => m <= n
  /\ answer.whole /\ answer.made \in 1..m => answer.by \in 1..answer.made

Copies == \E m, n \in Nat : Copied(m, n)

\* The layers of an application are the first of the middleware.
FirstLayers(a) ==
  a # NoApp => /\ a.layers \in Seq(Middleware)
               /\ Len(a.layers) <= Len(stack)
               /\ \A i \in 1..Len(a.layers) : a.layers[i] = stack[i]

IInv == RegisteredOK /\ ToolsOK /\ ServedInFull /\ Copies /\ FirstLayers(client)

-----------------------------------------------------------------------------
(* Copies of the routes *)

\* Before there is an application, it has no route.
LEMMA NoAppHasNone ==
  ASSUME RegisteredOK
  PROVE  FirstRoutes(NoApp, 0)
<1>1. NoApp.entries = <<>> /\ <<>> \in Seq(EntrySet) /\ Len(<<>>) = 0
      /\ DOMAIN <<>> = {}
  BY DEF NoApp
<1>2. 0 \in 0..Len(routes) /\ 1..0 = {}
  BY LenProperties DEF RegisteredOK
<1> QED BY <1>1, <1>2 DEF FirstRoutes

\* The routes among an application's entries are the first it was built of.
LEMMA RegisteredAre ==
  ASSUME RegisteredOK, NEW a, NEW n, FirstRoutes(a, n)
  PROVE  /\ Registered(a) \in Seq(EntrySet)
         /\ Len(Registered(a)) = n
         /\ \A i \in 1..n : Registered(a)[i] = routes[i]
<1>1. PICK l \in Nat : l = Len(a.entries) /\ DOMAIN a.entries = 1..l
  BY LenProperties DEF FirstRoutes
<1>2. n \in Nat /\ n <= l /\ n \in 0..Len(routes) /\ 1..n \subseteq 1..l
  BY <1>1 DEF FirstRoutes
<1>3. \A i \in 1..n : a.entries[i].kind \in Routed
  <2> SUFFICES ASSUME NEW i \in 1..n PROVE a.entries[i].kind \in Routed
    OBVIOUS
  <2>1. PICK k \in Nat : k = Len(routes) /\ n <= k
    BY <1>2, LenProperties DEF RegisteredOK
  <2>2. routes[i] \in RouteSet
    BY <1>2, <2>1, ElementOfSeq DEF RegisteredOK
  <2> QED BY <2>2 DEF FirstRoutes, RouteSet
<1>4. {i \in DOMAIN a.entries : a.entries[i].kind \in Routed} = 1..n
  BY <1>1, <1>2, <1>3 DEF FirstRoutes
<1>5. Cardinality(1..n) = n
  <2>1. 1 \in Int /\ n \in Int
    BY <1>2
  <2>2. Cardinality(1..n) = IF 1 > n THEN 0 ELSE n - 1 + 1
    BY <2>1, FS_Interval
  <2> QED BY <1>2, <2>2
<1>6. Registered(a) = SubSeq(a.entries, 1, n)
  BY <1>4, <1>5 DEF Registered, Routed
<1>7. /\ SubSeq(a.entries, 1, n) \in Seq(EntrySet)
      /\ Len(SubSeq(a.entries, 1, n)) = IF 1 <= n THEN n - 1 + 1 ELSE 0
      /\ \A i \in 1..(n - 1 + 1) : SubSeq(a.entries, 1, n)[i] = a.entries[1 + i - 1]
  <2>1. 1 \in Int /\ n \in Int /\ \A i \in 1..n : a.entries[i] \in EntrySet
    BY <1>1, <1>2, ElementOfSeq DEF FirstRoutes
  <2> QED BY <2>1, SubSeqProperties
<1>8. /\ Len(SubSeq(a.entries, 1, n)) = n
      /\ \A i \in 1..n : SubSeq(a.entries, 1, n)[i] = a.entries[i]
  BY <1>2, <1>7
<1> QED BY <1>6, <1>7, <1>8 DEF FirstRoutes

\* A sequence that agrees with another on its positions is a prefix of it.
LEMMA AgreeingIsPrefix ==
  ASSUME NEW S, NEW s \in Seq(S), NEW t \in Seq(S), NEW n \in Nat, NEW m \in Nat,
         Len(s) = n, Len(t) = m, n <= m, \A i \in 1..n : s[i] = t[i]
  PROVE  IsPrefix(s, t)
<1>1. /\ SubSeq(s, 1, n) \in Seq(S) /\ SubSeq(t, 1, n) \in Seq(S)
      /\ Len(SubSeq(s, 1, n)) = n /\ Len(SubSeq(t, 1, n)) = n
      /\ \A i \in 1..n : SubSeq(s, 1, n)[i] = s[i] /\ SubSeq(t, 1, n)[i] = t[i]
  <2>1. 1 \in Int /\ n \in Int
    OBVIOUS
  <2>2. \A i \in 1..n : s[i] \in S /\ t[i] \in S
    BY ElementOfSeq
  <2>3. /\ SubSeq(s, 1, n) \in Seq(S)
        /\ Len(SubSeq(s, 1, n)) = IF 1 <= n THEN n - 1 + 1 ELSE 0
        /\ \A i \in 1..(n - 1 + 1) : SubSeq(s, 1, n)[i] = s[1 + i - 1]
    BY <2>1, <2>2, SubSeqProperties
  <2>4. /\ SubSeq(t, 1, n) \in Seq(S)
        /\ Len(SubSeq(t, 1, n)) = IF 1 <= n THEN n - 1 + 1 ELSE 0
        /\ \A i \in 1..(n - 1 + 1) : SubSeq(t, 1, n)[i] = t[1 + i - 1]
    BY <2>1, <2>2, SubSeqProperties
  <2> QED BY <2>3, <2>4
<1>2. SubSeq(s, 1, n) = SubSeq(t, 1, n)
  BY <1>1, SeqEqual
<1> QED BY <1>2 DEF IsPrefix

LEMMA RoutesAreEntries == RouteSet \subseteq EntrySet
BY DEF RouteSet, EntrySet

\* What is kept agrees.
LEMMA CopiesArePrefixes ==
  ASSUME RegisteredOK, Copies, FirstLayers(client)
  PROVE  OlderIsPrefix
<1>1. PICK m \in Nat, n \in Nat : Copied(m, n)
  BY DEF Copies
<1>2. /\ Registered(client) \in Seq(EntrySet) /\ Len(Registered(client)) = m
      /\ \A i \in 1..m : Registered(client)[i] = routes[i]
  BY <1>1, RegisteredAre DEF Copied
<1>3. /\ Registered(app) \in Seq(EntrySet) /\ Len(Registered(app)) = n
      /\ \A i \in 1..n : Registered(app)[i] = routes[i]
  BY <1>1, RegisteredAre DEF Copied
<1>4. PICK k \in Nat : k = Len(routes) /\ m <= k /\ n <= k
  BY <1>1, LenProperties DEF Copied, FirstRoutes, RegisteredOK
<1>5. routes \in Seq(EntrySet)
  BY RoutesAreEntries, ElementOfSeq, LenProperties, SeqDef DEF RegisteredOK
<1>6. IsPrefix(Registered(client), routes)
  BY <1>2, <1>4, <1>5, AgreeingIsPrefix
<1>7. IsPrefix(Registered(app), routes)
  BY <1>3, <1>4, <1>5, AgreeingIsPrefix
<1>8. ASSUME app # NoApp PROVE IsPrefix(Registered(client), Registered(app))
  <2>1. m <= n /\ 1..m \subseteq 1..n
    BY <1>1, <1>8 DEF Copied
  <2>2. \A i \in 1..m : Registered(client)[i] = Registered(app)[i]
    BY <1>2, <1>3, <2>1
  <2> QED BY <1>2, <1>3, <2>1, <2>2, AgreeingIsPrefix
<1>9. ASSUME client # NoApp PROVE IsPrefix(client.layers, stack)
  <2>1. PICK l \in Nat, s \in Nat : l = Len(client.layers) /\ s = Len(stack)
    BY <1>9, LenProperties DEF FirstLayers, RegisteredOK
  <2> QED BY <1>9, <2>1, AgreeingIsPrefix DEF FirstLayers, RegisteredOK
<1> QED BY <1>6, <1>7, <1>8, <1>9 DEF OlderIsPrefix

\* A call is answered by the route it is for or by an earlier one.
LEMMA AnsweredByRoute ==
  ASSUME RegisteredOK, Copies
  PROVE  OwnRouteOrEarlier
<1> SUFFICES ASSUME answer.whole, answer.made \in 1..Len(Registered(client))
             PROVE  /\ answer.by # Nil
                    /\ client.entries[answer.by] \in ToSet(SubSeq(routes, 1, answer.made))
  BY DEF OwnRouteOrEarlier
<1>1. PICK m \in Nat, n \in Nat : Copied(m, n)
  BY DEF Copies
<1>2. answer.made \in 1..m
  BY <1>1, RegisteredAre DEF Copied
<1>3. answer.by \in 1..answer.made /\ answer.by \in 1..m /\ answer.made \in Nat
  BY <1>1, <1>2 DEF Copied
<1>4. client.entries[answer.by] = routes[answer.by]
  BY <1>1, <1>3 DEF Copied, FirstRoutes
<1>5. PICK k \in Nat : k = Len(routes) /\ m <= k
  BY <1>1, LenProperties DEF Copied, FirstRoutes, RegisteredOK
<1> DEFINE made == answer.made
<1>6. /\ SubSeq(routes, 1, made) \in Seq(RouteSet)
      /\ Len(SubSeq(routes, 1, made)) = made
      /\ \A i \in 1..made : SubSeq(routes, 1, made)[i] = routes[i]
  <2>1. 1 \in Int /\ made \in Int /\ \A i \in 1..made : routes[i] \in RouteSet
    BY <1>2, <1>3, <1>5, ElementOfSeq DEF RegisteredOK
  <2>2. /\ SubSeq(routes, 1, made) \in Seq(RouteSet)
        /\ Len(SubSeq(routes, 1, made)) = IF 1 <= made THEN made - 1 + 1 ELSE 0
        /\ \A i \in 1..(made - 1 + 1) : SubSeq(routes, 1, made)[i] = routes[1 + i - 1]
    BY <2>1, SubSeqProperties DEF RegisteredOK
  <2> HIDE DEF made
  <2> QED BY <1>3, <2>1, <2>2 DEF made
<1>7. DOMAIN SubSeq(routes, 1, made) = 1..made
  BY <1>6, LenProperties
<1> QED BY <1>3, <1>4, <1>6, <1>7 DEF ToSet, Nil

-----------------------------------------------------------------------------
(* The application that is built *)

\* Middleware is put around the application one after the other: the fold
\* over what begins at the i-th is that end of the stack.
WrapOf(k, n, f) ==
  f = [T \in SUBSET (k..n) |->
         IF T = {} THEN <<>> ELSE <<stack[Min(T)]>> \o f[T \ {Min(T)}]]

\* There is such a function, whatever end is taken.
LEMMA WrapExists ==
  ASSUME NEW n \in Nat
  PROVE  \A j \in Nat : \E f : WrapOf((n + 1) - j, n, f)
<1> DEFINE N == {j \in Nat : \E f : WrapOf((n + 1) - j, n, f)}
<1>1. 0 \in N
  <2>1. ((n + 1) - 0)..n = {}
    OBVIOUS
  <2>2. WrapOf((n + 1) - 0, n, [T \in SUBSET {} |-> <<>>])
    BY <2>1 DEF WrapOf
  <2> QED BY <2>2
<1>2. ASSUME NEW j \in N PROVE j + 1 \in N
  <2>1. PICK f : WrapOf((n + 1) - j, n, f)
    OBVIOUS
  <2>2. PICK k \in Int : k = (n + 1) - (j + 1) /\ k + 1 = (n + 1) - j
    <3>1. j \in Nat
      OBVIOUS
    <3> QED BY <3>1
  <2>3. ASSUME NEW T \in SUBSET (k..n), k \in T PROVE Min(T) = k
    <3>1. \A i \in T : k <= i
      OBVIOUS
    <3>2. \A x \in T : (\A i \in T : x <= i) => x = k
      BY <2>3
    <3> QED BY <2>3, <3>1, <3>2 DEF Min
  <2> DEFINE g == [T \in SUBSET (k..n) |->
                     IF k \in T THEN <<stack[k]>> \o f[T \ {k}] ELSE f[T]]
  <2>4. ASSUME NEW T \in SUBSET (k..n)
        PROVE  g[T] = IF T = {} THEN <<>> ELSE <<stack[Min(T)]>> \o g[T \ {Min(T)}]
    <3>1. CASE k \in T
      <4>1. T \ {k} \in SUBSET (k..n) /\ k \notin T \ {k} /\ T # {}
        BY <3>1
      <4>2. g[T] = <<stack[k]>> \o f[T \ {k}] /\ g[T \ {k}] = f[T \ {k}]
        BY <3>1, <4>1
      <4> HIDE DEF g
      <4> QED BY <2>3, <3>1, <4>1, <4>2
    <3>2. CASE k \notin T
      <4>1. T \in SUBSET ((k + 1)..n)
        BY <3>2
      <4>2. f[T] = IF T = {} THEN <<>> ELSE <<stack[Min(T)]>> \o f[T \ {Min(T)}]
        BY <2>1, <2>2, <4>1 DEF WrapOf
      <4>3. g[T] = f[T] /\ g[T \ {Min(T)}] = f[T \ {Min(T)}]
        BY <3>2
      <4> HIDE DEF g
      <4> QED BY <4>2, <4>3
    <3> QED BY <3>1, <3>2
  <2>5. g = [T \in SUBSET (k..n) |->
               IF T = {} THEN <<>> ELSE <<stack[Min(T)]>> \o g[T \ {Min(T)}]]
    BY <2>4
  <2>6. WrapOf(k, n, g)
    BY <2>5 DEF WrapOf
  <2> QED BY <2>2, <2>6
<1> HIDE DEF N
<1>3. N \in SUBSET Nat
  BY DEF N
<1>4. N = Nat
  BY <1>1, <1>2, <1>3, AllNumbers
<1> QED BY <1>4 DEF N

\* The layers of a built application are the middleware in the order of use.
LEMMA WrappedIsStack ==
  ASSUME RegisteredOK
  PROVE  Wrapped = stack
<1> DEFINE n == Len(stack)
           g == CHOOSE f : WrapOf(1, n, f)
<1>1. n \in Nat /\ DOMAIN stack = 1..n
  BY LenProperties DEF RegisteredOK
<1>2. WrapOf(1, n, g)
  <2>1. (n + 1) - n = 1
    BY <1>1
  <2>2. \E f : WrapOf(1, n, f)
    BY <1>1, <2>1, WrapExists
  <2> QED BY <2>2
<1>3. Wrapped = g[1..n]
  BY <1>1 DEF Wrapped, FoldRight, MapThenFoldSet, WrapOf
<1> HIDE DEF g, n
\* The last j of the stack are wrapped as they are.
<1> DEFINE At(j) == (n + 1) - j
           Whole(j) == /\ g[At(j)..n] \in Seq(Middleware)
                       /\ Len(g[At(j)..n]) = j
                       /\ \A i \in 1..j : g[At(j)..n][i] = stack[(n - j) + i]
           N == {j \in Nat : j <= n => Whole(j)}
<1>4. 0 \in N
  <2>1. At(0)..n = {}
    BY <1>1
  <2>2. g[{}] = <<>>
    BY <1>2 DEF WrapOf
  <2>3. <<>> \in Seq(Middleware) /\ Len(<<>>) = 0 /\ 1..0 = {}
    OBVIOUS
  <2>4. Whole(0)
    BY <2>1, <2>2, <2>3
  <2> HIDE DEF Whole
  <2> QED BY <2>4
<1>5. ASSUME NEW j \in N PROVE j + 1 \in N
  <2> SUFFICES ASSUME j + 1 <= n PROVE Whole(j + 1)
    BY DEF N
  <2>1. j \in Nat /\ j <= n
    BY <1>1
  <2>2. Whole(j)
    BY <2>1
  <2> DEFINE k == At(j + 1)
  <2>3. k \in Nat /\ k \in 1..n /\ k + 1 = At(j) /\ k = n - j
    BY <1>1, <2>1
  <2> HIDE DEF k
  <2>4. Min(k..n) = k
    <3>1. \A i \in k..n : k <= i
      OBVIOUS
    <3>2. \A x \in k..n : (\A i \in k..n : x <= i) => x = k
      BY <1>1, <2>3
    <3> QED BY <1>1, <2>3, <3>1, <3>2 DEF Min
  <2>5. /\ k..n \in SUBSET (1..n) /\ k..n # {} /\ (k..n) \ {k} = At(j)..n
    <3>1. \A x \in Nat : x \in k..n => x \in 1..n
      BY <1>1, <2>3
    <3>2. \A x \in Nat : x \in (k + 1)..n <=> x \in k..n /\ x # k
      BY <1>1, <2>3
    <3>3. k \in k..n /\ k..n \subseteq Nat /\ (k + 1)..n \subseteq Nat
      BY <1>1, <2>3
    <3> HIDE DEF At
    <3> QED BY <2>3, <3>1, <3>2, <3>3
  <2>6. g[k..n] = <<stack[k]>> \o g[At(j)..n]
    BY <1>2, <2>4, <2>5 DEF WrapOf
  <2> DEFINE rest == g[At(j)..n]
  <2>7. rest \in Seq(Middleware) /\ Len(rest) = j
        /\ \A i \in 1..j : rest[i] = stack[(n - j) + i]
    BY <2>2
  <2> HIDE DEF rest
  <2>8. /\ <<stack[k]>> \in Seq(Middleware) /\ Len(<<stack[k]>>) = 1
        /\ <<stack[k]>>[1] = stack[k]
    BY <1>1, <2>3, ElementOfSeq DEF RegisteredOK
  <2>9. /\ <<stack[k]>> \o rest \in Seq(Middleware)
        /\ Len(<<stack[k]>> \o rest) = 1 + j
        /\ \A i \in 1..1 : (<<stack[k]>> \o rest)[i] = <<stack[k]>>[i]
        /\ \A i \in 1..j : (<<stack[k]>> \o rest)[1 + i] = rest[i]
    BY <2>1, <2>7, <2>8, ConcatAt
  <2>10. ASSUME NEW i \in 1..(j + 1)
         PROVE  (<<stack[k]>> \o rest)[i] = stack[(n - (j + 1)) + i]
    <3>1. CASE i = 1
      <4>1. (n - (j + 1)) + i = k
        BY <1>1, <2>1, <2>3, <3>1
      <4> QED BY <2>8, <2>9, <3>1, <4>1
    <3>2. CASE i # 1
      <4>1. /\ i - 1 \in 1..j /\ 1 + (i - 1) = i
            /\ (n - j) + (i - 1) = (n - (j + 1)) + i
        BY <1>1, <2>1, <3>2
      <4> QED BY <2>7, <2>9, <4>1
    <3> QED BY <3>1, <3>2
  <2>11. 1 + j = j + 1 /\ g[At(j + 1)..n] = <<stack[k]>> \o rest
    BY <2>1, <2>6 DEF k, rest
  <2> QED BY <2>9, <2>10, <2>11
<1> HIDE DEF N
<1>6. N \in SUBSET Nat
  BY DEF N
<1>7. N = Nat
  BY <1>4, <1>5, <1>6, AllNumbers
<1>8. Whole(n) /\ At(n) = 1 /\ n - n = 0
  <2>1. n \in N /\ n <= n
    BY <1>1, <1>7
  <2>2. Whole(n)
    <3> HIDE DEF Whole
    <3> QED BY <2>1 DEF N
  <2>3. At(n) = 1 /\ n - n = 0
    BY <1>1
  <2> QED BY <2>2, <2>3
<1>9. /\ Wrapped \in Seq(Middleware) /\ Len(Wrapped) = n
      /\ \A i \in 1..n : Wrapped[i] = stack[i]
  <2>1. \A i \in 1..n : 0 + i = i
    OBVIOUS
  <2> QED BY <1>3, <1>8, <2>1
<1> QED BY <1>1, <1>9, SeqEqual DEF RegisteredOK, n

\* What the framework serves itself is no route.
LEMMA OwnAreNoRoutes ==
  /\ Own \in Seq(EntrySet) /\ Len(Own) \in Nat
  /\ Len(Own) > 0
  /\ \A i \in DOMAIN Own : Own[i].kind \notin Routed
<1> DEFINE E == {e \in EntrySet : e.kind \notin Routed}
<1>1. /\ Entry("reload", Reload) \in E /\ Entry("islands", Islands) \in E
      /\ Entry("vendor", Vendor) \in E
  <2>1. \A s, t \in Segments : <<s, t>> \in Seq(Segments) /\ <<s>> \in Seq(Segments)
    OBVIOUS
  <2>2. /\ Taiyaki \in Segments
        /\ Literal(<<"reload">>) \in Segments /\ Literal(<<"islands">>) \in Segments
    BY DEF Segments
  <2>3. /\ Reload \in Seq(Segments) /\ Islands \in Seq(Segments)
        /\ Vendor \in Seq(Segments)
    BY <2>1, <2>2 DEF Reload, Islands, Vendor
  <2> QED BY <2>3 DEF Entry, EntrySet, Routed, Methods, Nil
<1>2. /\ If(DevMode, Entry("reload", Reload)) \in Seq(E)
      /\ If(HasIslands, Entry("islands", Islands)) \in Seq(E)
      /\ <<Entry("vendor", Vendor)>> \in Seq(E) /\ Len(<<Entry("vendor", Vendor)>>) = 1
  <2> HIDE DEF E
  <2>1. ASSUME NEW c, NEW e \in E PROVE If(c, e) \in Seq(E)
    <3>1. CASE c
      BY <3>1 DEF If
    <3>2. CASE ~c
      BY <3>2 DEF If
    <3> QED BY <3>1, <3>2
  <2> QED BY <1>1, <2>1
<1> HIDE DEF E
<1> DEFINE first == If(DevMode, Entry("reload", Reload))
                    \o If(HasIslands, Entry("islands", Islands))
<1>3. first \in Seq(E) /\ Len(first) \in Nat
  BY <1>2, ConcatProperties, LenProperties
<1>4. Own \in Seq(E) /\ Len(Own) = Len(first) + 1
  BY <1>2, <1>3, ConcatProperties DEF Own
<1>5. \A i \in DOMAIN Own : Own[i] \in E
  BY <1>4, LenProperties, ElementOfSeq
<1>6. Own \in Seq(EntrySet)
  <2>1. E \subseteq EntrySet
    BY DEF E
  <2> QED BY <1>4, <2>1
<1>7. Len(Own) > 0 /\ Len(Own) \in Nat
  BY <1>3, <1>4
<1> QED BY <1>5, <1>6, <1>7 DEF E

\* An application built now has every route, every directory and the
\* middleware.
LEMMA BuiltOfAll ==
  ASSUME RegisteredOK
  PROVE  /\ BuildApp # NoApp
         /\ FirstRoutes(BuildApp, Len(routes))
         /\ BuildApp.layers = stack
         /\ \A i \in DOMAIN mounts : Entry("static", mounts[i]) \in ToSet(BuildApp.entries)
<1>1. PICK n \in Nat, m \in Nat, l \in Nat :
        /\ n = Len(routes) /\ DOMAIN routes = 1..n
        /\ m = Len(mounts) /\ DOMAIN mounts = 1..m
        /\ l = Len(Own) /\ DOMAIN Own = 1..l /\ l > 0
  BY LenProperties, OwnAreNoRoutes DEF RegisteredOK
<1>2. routes \in Seq(EntrySet)
  BY RoutesAreEntries, ElementOfSeq, LenProperties, SeqDef DEF RegisteredOK
<1>3. /\ Mounted \in Seq(EntrySet) /\ Len(Mounted) = m
      /\ \A i \in 1..m : Mounted[i] = Entry("static", mounts[i])
      /\ \A i \in 1..m : Mounted[i].kind \notin Routed
  <2>1. \A i \in 1..m : mounts[i] \in Seq(Segments)
    <3>1. \A i \in 1..m : mounts[i] \in StaticPaths
      BY <1>1, ElementOfSeq DEF RegisteredOK
    <3> QED BY <3>1, PathsAreSequences
  <2>2. \A i \in 1..m : Entry("static", mounts[i]) \in EntrySet
    BY <2>1 DEF Entry, EntrySet, Methods, Nil
  <2>3. Mounted = [i \in 1..m |-> Entry("static", mounts[i])]
    BY <1>1 DEF Mounted
  <2>4. Mounted \in Seq(EntrySet) /\ Len(Mounted) = m
    BY <2>2, <2>3, SeqDef, LenProperties
  <2>5. \A i \in 1..m : Mounted[i] = Entry("static", mounts[i])
    BY <2>3
  <2>6. \A i \in 1..m : Entry("static", mounts[i]).kind \notin Routed
    BY DEF Entry, Routed
  <2> QED BY <2>4, <2>5, <2>6
<1> DEFINE some == routes \o Mounted
<1>4. /\ some \in Seq(EntrySet) /\ Len(some) = n + m
      /\ \A i \in 1..n : some[i] = routes[i]
      /\ \A i \in 1..m : some[n + i] = Mounted[i]
  BY <1>1, <1>2, <1>3, ConcatAt
<1> HIDE DEF some
<1>5. /\ some \o Own \in Seq(EntrySet) /\ Len(some \o Own) = (n + m) + l
      /\ \A i \in 1..(n + m) : (some \o Own)[i] = some[i]
      /\ \A i \in 1..l : (some \o Own)[(n + m) + i] = Own[i]
  <2>1. PICK k \in Nat : k = n + m
    OBVIOUS
  <2>2. Own \in Seq(EntrySet) /\ Len(some) = k /\ Len(Own) = l
    BY <1>1, <1>4, <2>1, OwnAreNoRoutes
  <2>3. /\ some \o Own \in Seq(EntrySet) /\ Len(some \o Own) = k + l
        /\ \A i \in 1..k : (some \o Own)[i] = some[i]
        /\ \A i \in 1..l : (some \o Own)[k + i] = Own[i]
    <3> DEFINE own == Own
    <3>1. /\ own \in Seq(EntrySet) /\ l = Len(own)
          /\ some \in Seq(EntrySet) /\ k = Len(some)
      BY <1>4, <2>2
    <3> HIDE DEF own
    <3>2. /\ some \o own \in Seq(EntrySet) /\ Len(some \o own) = k + l
          /\ \A i \in 1..k : (some \o own)[i] = some[i]
          /\ \A i \in 1..l : (some \o own)[k + i] = own[i]
      BY ONLY <3>1, k \in Nat, l \in Nat, ConcatAt
    <3> QED BY <3>2 DEF own
  <2> QED BY <2>1, <2>3
<1> DEFINE es == Entries
<1>6. /\ es \in Seq(EntrySet) /\ Len(es) = (n + m) + l
      /\ \A i \in 1..n : es[i] = routes[i]
      /\ \A i \in 1..m : es[n + i] = Mounted[i]
      /\ \A i \in 1..l : es[(n + m) + i] = Own[i]
  <2>1. es = some \o Own
    BY DEF Entries, some
  <2>2. \A i \in 1..n : i \in 1..(n + m)
    OBVIOUS
  <2>3. \A i \in 1..m : n + i \in 1..(n + m)
    OBVIOUS
  <2> HIDE DEF es
  <2> QED BY <1>4, <1>5, <2>1, <2>2, <2>3
<1> HIDE DEF es
<1>7. DOMAIN es = 1..((n + m) + l)
  BY <1>6, LenProperties
<1>8. ASSUME NEW i \in DOMAIN es, i \notin 1..n PROVE es[i].kind \notin Routed
  <2>1. CASE i \in 1..(n + m)
    <3>1. i - n \in 1..m /\ n + (i - n) = i
      BY <1>8, <2>1
    <3> QED BY <1>3, <1>6, <3>1
  <2>2. CASE i \notin 1..(n + m)
    <3>1. i - (n + m) \in 1..l /\ (n + m) + (i - (n + m)) = i
      BY <1>7, <2>2
    <3> QED BY <1>1, <1>6, <3>1, OwnAreNoRoutes
  <2> QED BY <2>1, <2>2
<1>9. BuildApp.entries = es /\ BuildApp.layers = Wrapped
  BY DEF BuildApp, es
<1>10. FirstRoutes(BuildApp, Len(routes))
  <2>1. n \in 0..Len(routes) /\ n \in 0..Len(es)
    BY <1>1, <1>6
  <2> QED BY <1>1, <1>6, <1>8, <1>9, <2>1 DEF FirstRoutes
<1>11. BuildApp # NoApp
  <2>1. Len(es) # 0
    BY <1>1, <1>6
  <2>2. es # <<>>
    BY <1>6, <2>1, EmptySeq
  <2> QED BY <1>9, <2>2 DEF NoApp
<1>12. ASSUME NEW i \in DOMAIN mounts
       PROVE  Entry("static", mounts[i]) \in ToSet(BuildApp.entries)
  <2>1. i \in 1..m /\ n + i \in DOMAIN es
    BY <1>1, <1>7
  <2>2. es[n + i] = Entry("static", mounts[i])
    BY <1>3, <1>6, <2>1
  <2> QED BY <1>9, <2>1, <2>2 DEF ToSet
<1> QED BY <1>9, <1>10, <1>11, <1>12, WrappedIsStack

\* The application that asgi gives has no fewer routes than the one it had.
LEMMA AsgiIsBuilt ==
  ASSUME RegisteredOK, NEW n \in Nat, FirstRoutes(app, n)
  PROVE  /\ Asgi # NoApp
         /\ \E k \in Nat : n <= k /\ FirstRoutes(Asgi, k)
<1>1. CASE app = NoApp
  <2>1. Asgi = BuildApp
    BY <1>1 DEF Asgi
  <2>2. Len(routes) \in Nat /\ n <= Len(routes)
    BY LenProperties DEF FirstRoutes, RegisteredOK
  <2> QED BY <2>1, <2>2, BuiltOfAll
<1>2. CASE app # NoApp
  BY <1>2 DEF Asgi
<1> QED BY <1>1, <1>2

-----------------------------------------------------------------------------
(* The call of a tool *)

\* The tool found under the name of one that is there is there.
LEMMA FoundByName ==
  ASSUME tools.list \in Seq(Range(tools.list)),
         NEW i \in DOMAIN tools.list
  PROVE  \E k \in DOMAIN tools.list : ByName(tools.list[i].name) = tools.list[k]
<1> DEFINE name == tools.list[i].name
           I == {k \in 1..Len(tools.list) : tools.list[k].name = name}
<1>1. PICK n \in Nat : n = Len(tools.list) /\ DOMAIN tools.list = 1..n
  BY LenProperties
<1>2. i \in I
  BY <1>1
<1>3. I \in SUBSET (1..n)
  BY <1>1
<1>4. Max(I) \in I
  <2> HIDE DEF I
  <2> QED BY <1>2, <1>3, MaxOfNumbers
<1>5. ByName(name) = tools.list[Max(I)]
  BY <1>2 DEF ByName, SelectLastInSeq
<1> QED BY <1>1, <1>3, <1>4, <1>5

\* No segment of a path that is registered is empty.
LEMMA NoneIsEmpty == Empty \notin Segments
<1>1. \A p \in Paths \cup GroupPaths \cup StaticPaths : Empty \notin ToSet(p)
  BY RoutingAssumption DEF ToSet
<1>2. Len(<<>>) # Len(<<"_taiyaki">>)
  OBVIOUS
<1>3. /\ Empty.words = <<>> /\ Taiyaki.words = <<"_taiyaki">>
      /\ Literal(<<"reload">>).words = <<"reload">>
      /\ Literal(<<"islands">>).words = <<"islands">>
  BY DEF Empty, Taiyaki, Literal
<1>4. Empty \notin {Taiyaki, Literal(<<"reload">>), Literal(<<"islands">>)}
  BY <1>3
<1> QED BY <1>1, <1>4 DEF Segments

\* A path filled with values of one segment each has these segments for its
\* parameters.
LEMMA FilledOneByOne ==
  ASSUME NEW path \in Seq(Segments), NEW given,
         \A n \in DOMAIN given : OneSegment(given[n])
  PROVE  /\ Len(Fill(path, given)) = Len(path)
         /\ DOMAIN Fill(path, given) = DOMAIN path
         /\ \A i \in DOMAIN path :
              \/ path[i].param /\ Fill(path, given)[i] # Empty
              \/ Fill(path, given)[i] = path[i]
<1>1. PICK n \in Nat : n = Len(path) /\ DOMAIN path = 1..n
  BY LenProperties
<1> DEFINE Filled(i) == path[i].param /\ path[i].words[1] \in DOMAIN given
           s == [i \in 1..n |-> IF Filled(i) THEN given[path[i].words[1]][1] ELSE path[i]]
           seqs == [i \in DOMAIN path |->
                      IF path[i].param /\ path[i].words[1] \in DOMAIN given
                      THEN given[path[i].words[1]] ELSE <<path[i]>>]
           S == {s[i] : i \in 1..n}
<1>2. \A i \in 1..n : path[i] \in Segments /\ path[i] # Empty
  BY <1>1, NoneIsEmpty, ElementOfSeq
<1>3. ASSUME NEW i \in 1..n
      PROVE  /\ s[i] # Empty
             /\ path[i].param \/ s[i] = path[i]
             /\ seqs[i] = <<s[i]>>
  <2>1. CASE Filled(i)
    <3>1. PICK v : v = given[path[i].words[1]] /\ v = <<v[1]>> /\ v[1] # Empty
      BY <2>1 DEF OneSegment
    <3>2. s[i] = v[1] /\ seqs[i] = v
      BY <1>1, <2>1, <3>1
    <3> HIDE DEF s, seqs
    <3> QED BY <2>1, <3>1, <3>2
  <2>2. CASE ~Filled(i)
    BY <1>1, <1>2, <2>2
  <2> QED BY <2>1, <2>2
<1>4. s \in Seq(S) /\ Len(s) = n /\ DOMAIN s = 1..n
  <2>1. s \in [1..n -> S]
    OBVIOUS
  <2>2. DOMAIN s = 1..n
    OBVIOUS
  <2> HIDE DEF s
  <2>3. s \in Seq(S)
    BY <2>1, SeqDef
  <2> QED BY <2>2, <2>3, LenProperties
<1>5. seqs = [i \in DOMAIN s |-> <<s[i]>>]
  <2>1. DOMAIN seqs = 1..n /\ seqs = [i \in 1..n |-> seqs[i]]
    BY <1>1
  <2> HIDE DEF s, seqs
  <2> QED BY <1>3, <1>4, <2>1
<1>6. FlattenSeq(seqs) = s
  <2> HIDE DEF s, seqs, S
  <2> QED BY <1>4, <1>5, FlattenSingles
<1>7. s # <<Empty>>
  <2> SUFFICES ASSUME s = <<Empty>> PROVE FALSE
    OBVIOUS
  <2>1. n = 1 /\ s[1] = Empty
    <3> HIDE DEF s
    <3> QED BY <1>4
  <2> HIDE DEF s
  <2> QED BY <1>3, <2>1
<1>8. Fill(path, given) = s
  <2>1. Fill(path, given) = IF FlattenSeq(seqs) = <<Empty>> THEN <<>> ELSE FlattenSeq(seqs)
    BY DEF Fill
  <2> HIDE DEF s, seqs
  <2> QED BY <1>6, <1>7, <2>1
<1> HIDE DEF s
<1> QED BY <1>1, <1>3, <1>4, <1>8

\* A route takes its own path, with whatever values of one segment.
LEMMA HandlesItsOwn ==
  ASSUME NEW r \in RouteSet, NEW given,
         \A n \in DOMAIN given : OneSegment(given[n])
  PROVE  Handles(r, r.method, Fill(r.path, given))
<1>1. r.path \in Seq(Segments)
  BY DEF RouteSet
<1>2. PICK path : path = Fill(r.path, given)
  OBVIOUS
<1>3. /\ Len(r.path) = Len(path) /\ DOMAIN path = DOMAIN r.path
      /\ \A i \in DOMAIN path : \/ r.path[i].param /\ path[i] # Empty
                                \/ path[i] = r.path[i]
  BY <1>1, <1>2, FilledOneByOne
<1>4. r.kind \notin {"static", "islands", "vendor"}
  BY DEF RouteSet, Routed
<1> QED BY <1>2, <1>3, <1>4 DEF Handles

\* What answers comes no later than the route asked for.
LEMMA DispatchedEarly ==
  ASSUME RegisteredOK, NEW a, NEW m \in Nat, FirstRoutes(a, m),
         NEW i \in 1..m, NEW given, \A n \in DOMAIN given : OneSegment(given[n])
  PROVE  Dispatch(a, routes[i].method, Fill(routes[i].path, given)) \in 1..i
<1> DEFINE method == routes[i].method
           path == Fill(routes[i].path, given)
           I == {k \in 1..Len(a.entries) : Handles(a.entries[k], method, path)}
<1>1. PICK l \in Nat : l = Len(a.entries) /\ m <= l
  BY LenProperties DEF FirstRoutes
<1>2. routes[i] \in RouteSet /\ a.entries[i] = routes[i]
  <2>1. PICK n \in Nat : n = Len(routes) /\ m <= n
    BY LenProperties DEF FirstRoutes, RegisteredOK
  <2>2. i \in 1..n
    BY <2>1
  <2> QED BY <2>1, <2>2, ElementOfSeq DEF RegisteredOK, FirstRoutes
<1>3. i \in I
  <2>1. Handles(a.entries[i], method, path)
    BY <1>2, HandlesItsOwn
  <2>2. i \in 1..Len(a.entries)
    BY <1>1
  <2> HIDE DEF method, path
  <2> QED BY <2>1, <2>2
<1>4. I \in SUBSET Nat /\ I \subseteq 1..l
  BY <1>1
<1>5. Min(I) \in I /\ Min(I) <= i
  <2> HIDE DEF I
  <2> QED BY <1>3, <1>4, MinOfNumbers
<1>6. Dispatch(a, method, path) = Min(I)
  BY <1>3 DEF Dispatch, SelectInSeq
<1>7. Min(I) \in 1..i
  <2> HIDE DEF I
  <2>1. PICK k \in 1..l : k = Min(I) /\ k <= i
    BY <1>4, <1>5
  <2> QED BY <2>1
<1> QED BY <1>6, <1>7

-----------------------------------------------------------------------------
(* What is registered keeps its type *)

LEMMA PathsJoin ==
  ASSUME RegisteredOK, NEW g \in {Nil} \cup DOMAIN groups, NEW p \in Seq(Segments)
  PROVE  FullPath(g, p) \in Seq(Segments) /\ g \in Nat
<1>1. CASE g = Nil
  BY <1>1 DEF FullPath, Nil
<1>2. CASE g # Nil
  <2>1. g \in DOMAIN groups
    BY <1>2
  <2>2. groups[g] \in GroupSet /\ g \in Nat
    BY <2>1, ElementOfSeq, LenProperties DEF RegisteredOK
  <2>3. groups[g].prefix \in Seq(Segments)
    BY <2>2 DEF GroupSet
  <2> QED BY <1>2, <2>2, <2>3, ConcatProperties DEF FullPath
<1> QED BY <1>1, <1>2

\* More routes change nothing about the copies.
LEMMA RegisterKeeps ==
  ASSUME IInv, NEW g \in {Nil} \cup DOMAIN groups, NEW p \in Paths,
         NEW kind \in Routed, NEW method \in Methods, Register(g, p, kind, method)
  PROVE  IInv'
<1> USE DEF IInv
<1> DEFINE r == [path |-> FullPath(g, p), kind |-> kind, method |-> method, group |-> g]
<1>1. r \in RouteSet
  <2>1. p \in Seq(Segments)
    BY PathsAreSequences
  <2> QED BY <2>1, PathsJoin DEF RouteSet
<1>2. routes' = Append(routes, r)
      /\ UNCHANGED <<groups, mounts, stack, app, tools, client, answer>>
  BY DEF Register, AddRoute
<1> HIDE DEF r
<1>3. PICK k \in Nat : k = Len(routes) /\ DOMAIN routes = 1..k
  BY LenProperties DEF RegisteredOK
<1>4. /\ routes' \in Seq(RouteSet) /\ Len(routes') = k + 1 /\ DOMAIN routes' = 1..(k + 1)
      /\ \A i \in 1..k : routes'[i] = routes[i]
  BY <1>1, <1>2, <1>3, AppendProperties, LenProperties DEF RegisteredOK
<1>5. RegisteredOK'
  BY <1>2, <1>4 DEF RegisteredOK
<1>6. ToolsOK'
  BY <1>2, <1>3, <1>4 DEF ToolsOK, ToolOK
<1>7. ServedInFull'
  BY <1>2 DEF ServedInFull
<1>8. ASSUME NEW a, NEW n, FirstRoutes(a, n)
      PROVE  /\ a.entries \in Seq(EntrySet)
             /\ n \in 0..Len(routes') /\ n \in 0..Len(a.entries)
             /\ \A i \in 1..n : a.entries[i] = routes'[i]
             /\ \A i \in DOMAIN a.entries : i \in 1..n \/ a.entries[i].kind \notin Routed
  BY <1>3, <1>4, <1>8 DEF FirstRoutes
<1>9. Copies'
  <2>1. PICK m \in Nat, n \in Nat : Copied(m, n)
    BY DEF Copies
  <2>2. FirstRoutes(client, m)' /\ FirstRoutes(app, n)'
    BY <1>2, <1>8, <2>1 DEF Copied, FirstRoutes
  <2>3. Copied(m, n)'
    BY <1>2, <2>1, <2>2 DEF Copied
  <2> QED BY <2>3 DEF Copies
<1>10. FirstLayers(client)'
  BY <1>2 DEF FirstLayers
<1> QED BY <1>5, <1>6, <1>7, <1>9, <1>10

LEMMA GroupKeeps ==
  ASSUME IInv, NEW g \in {Nil} \cup DOMAIN groups, NEW prefix \in GroupPaths,
         NEW middleware \in {<<>>} \cup {<<mw>> : mw \in Middleware},
         Group(g, prefix, middleware)
  PROVE  IInv'
<1> USE DEF IInv
<1> DEFINE outer == IF g = Nil THEN <<>> ELSE groups[g].middleware
           e == [prefix |-> FullPath(g, prefix), middleware |-> outer \o middleware]
<1>1. outer \in Seq(Middleware)
  <2>1. CASE g = Nil
    BY <2>1
  <2>2. CASE g # Nil
    <3>1. groups[g] \in GroupSet
      BY <2>2, ElementOfSeq, LenProperties DEF RegisteredOK
    <3> QED BY <2>2, <3>1 DEF GroupSet
  <2> QED BY <2>1, <2>2
<1>2. e \in GroupSet
  <2>1. prefix \in Seq(Segments)
    BY PathsAreSequences
  <2>2. middleware \in Seq(Middleware)
    <3>1. CASE middleware = <<>>
      BY <3>1
    <3>2. CASE middleware \in {<<mw>> : mw \in Middleware}
      <4>1. PICK mw \in Middleware : middleware = <<mw>>
        BY <3>2
      <4>2. <<mw>> \in Seq(Middleware)
        OBVIOUS
      <4> QED BY <4>1, <4>2
    <3> QED BY <3>1, <3>2
  <2>3. FullPath(g, prefix) \in Seq(Segments)
    BY <2>1, PathsJoin
  <2> HIDE DEF outer
  <2>4. outer \o middleware \in Seq(Middleware)
    BY <1>1, <2>2, ConcatProperties
  <2> QED BY <2>3, <2>4 DEF GroupSet
<1>3. groups' = Append(groups, e)
      /\ UNCHANGED <<routes, mounts, stack, app, tools, client, answer>>
  BY DEF Group
<1> HIDE DEF e
<1>4. RegisteredOK'
  BY <1>2, <1>3, AppendProperties DEF RegisteredOK
<1>5. ToolsOK' /\ ServedInFull'
  BY <1>3 DEF ToolsOK, ToolOK, ServedInFull
<1>6. Copies' /\ FirstLayers(client)'
  BY <1>3 DEF Copies, Copied, FirstRoutes, FirstLayers
<1> QED BY <1>4, <1>5, <1>6

\* An application that is dropped has nothing to agree with.
LEMMA DroppedAppKeeps ==
  ASSUME IInv, ResetApp, RegisteredOK', FirstLayers(client)',
         UNCHANGED <<routes, tools, client, answer>>
  PROVE  IInv'
<1> USE DEF IInv
<1>1. app' = NoApp
  BY DEF ResetApp
<1>2. ToolsOK' /\ ServedInFull'
  BY <1>1 DEF ToolsOK, ToolOK, ServedInFull
<1>3. PICK m \in Nat, n \in Nat : Copied(m, n)
  BY DEF Copies
<1>4. FirstRoutes(app, 0)'
  BY <1>1, NoAppHasNone DEF FirstRoutes
<1>5. FirstRoutes(client, m)'
  BY <1>3 DEF Copied, FirstRoutes
<1>6. Copied(m, 0)'
  BY <1>1, <1>3, <1>4, <1>5 DEF Copied
<1>7. Copies'
  BY <1>6 DEF Copies
<1> QED BY <1>2, <1>7

-----------------------------------------------------------------------------
(* Every step keeps the invariant *)

LEMMA UseKeeps ==
  ASSUME IInv, NEW mw \in Middleware, Use(mw)
  PROVE  IInv'
<1>1. PICK n \in Nat : n = Len(stack)
  BY LenProperties DEF IInv, RegisteredOK
<1>2. /\ stack' \in Seq(Middleware) /\ Len(stack') = n + 1
      /\ \A i \in 1..n : stack'[i] = stack[i]
  BY <1>1, AppendProperties DEF IInv, RegisteredOK, Use
<1>3. FirstLayers(client)'
  <2> SUFFICES ASSUME client # NoApp
               PROVE  /\ client.layers \in Seq(Middleware)
                      /\ Len(client.layers) <= Len(stack')
                      /\ \A i \in 1..Len(client.layers) : client.layers[i] = stack'[i]
    BY DEF Use, FirstLayers
  <2>1. PICK l \in Nat : l = Len(client.layers) /\ l <= n
    BY <1>1, LenProperties DEF IInv, FirstLayers
  <2>2. \A i \in 1..l : i \in 1..n /\ client.layers[i] = stack[i]
    BY <2>1 DEF IInv, FirstLayers
  <2> QED BY <1>2, <2>1, <2>2 DEF IInv, FirstLayers
<1> QED BY <1>2, <1>3, DroppedAppKeeps DEF IInv, RegisteredOK, Use

LEMMA StaticKeeps ==
  ASSUME IInv, NEW path \in StaticPaths, Static(path)
  PROVE  IInv'
<1>1. mounts' \in Seq(StaticPaths)
  BY AppendProperties DEF IInv, RegisteredOK, Static
<1>2. FirstLayers(client)'
  BY DEF IInv, FirstLayers, Static
<1> QED BY <1>1, <1>2, DroppedAppKeeps DEF IInv, RegisteredOK, Static

\* The application that asgi gives has everything.
LEMMA AsgiInFull ==
  ASSUME RegisteredOK, ServedInFull
  PROVE  /\ Asgi.layers = stack
         /\ \A i \in DOMAIN mounts : Entry("static", mounts[i]) \in ToSet(Asgi.entries)
<1>1. CASE app = NoApp
  BY <1>1, BuiltOfAll DEF Asgi
<1>2. CASE app # NoApp
  BY <1>2 DEF Asgi, ServedInFull
<1> QED BY <1>1, <1>2

LEMMA ServeKeeps ==
  ASSUME IInv, Serve
  PROVE  IInv'
<1> USE DEF IInv
<1>1. app' = Asgi /\ UNCHANGED <<routes, groups, mounts, stack, tools, client, answer>>
  BY DEF Serve
<1>2. RegisteredOK' /\ ToolsOK'
  BY <1>1 DEF RegisteredOK, ToolsOK, ToolOK
<1>3. ServedInFull'
  BY <1>1, AsgiInFull DEF ServedInFull, Entry
<1>4. PICK m \in Nat, n \in Nat : Copied(m, n)
  BY DEF Copies
<1>5. app = NoApp /\ Asgi = BuildApp
  BY DEF Serve, Asgi
<1>6. PICK k \in Nat : k = Len(routes) /\ m <= k
  BY <1>4, LenProperties DEF Copied, FirstRoutes, RegisteredOK
<1>7. FirstRoutes(app, k)'
  BY <1>1, <1>5, <1>6, BuiltOfAll DEF FirstRoutes
<1>8. FirstRoutes(client, m)'
  BY <1>1, <1>4 DEF Copied, FirstRoutes
<1>9. Copied(m, k)'
  BY <1>1, <1>4, <1>6, <1>7, <1>8 DEF Copied
<1>10. Copies' /\ FirstLayers(client)'
  BY <1>1, <1>9 DEF Copies, FirstLayers
<1> QED BY <1>2, <1>3, <1>10

\* Every tool that is made is of a route that is registered.
LEMMA ToolsAreOfRoutes ==
  ASSUME RegisteredOK
  PROVE  /\ BuildTools \in Seq(Range(BuildTools))
         /\ \A i \in DOMAIN BuildTools : ToolOK(BuildTools[i])
<1>1. PICK n \in Nat : n = Len(routes) /\ DOMAIN routes = 1..n
  BY LenProperties DEF RegisteredOK
<1> DEFINE made == [i \in DOMAIN routes |-> ToolsOf(i)]
           T == UNION {Range(made[i]) : i \in 1..n}
<1>2. ASSUME NEW i \in 1..n
      PROVE  /\ made[i] \in Seq(T)
             /\ \A t \in Range(made[i]) : ToolOK(t)
  <2>1. made[i] = ToolsOf(i)
    BY <1>1
  <2>2. Range(made[i]) \subseteq T
    OBVIOUS
  <2> HIDE DEF T
  <2>3. \A k : ToolOK(Tool(i, k))
    BY <1>1 DEF ToolOK, Tool
  <2>4. CASE routes[i].kind = "page"
    <3> DEFINE r == Tool(i, "render")
               t == Tool(i, "text")
    <3>1. made[i] = <<r, t>>
      BY <2>1, <2>4 DEF ToolsOf
    <3>2. ToolOK(r) /\ ToolOK(t)
      BY <2>3
    <3> HIDE DEF made, r, t
    <3>3. DOMAIN made[i] = 1..2 /\ made[i][1] = r /\ made[i][2] = t
      BY <3>1
    <3>4. Range(made[i]) = {r, t}
      BY <3>3 DEF Range
    <3>5. <<r, t>> \in Seq(T)
      BY <2>2, <3>4
    <3> QED BY <3>1, <3>2, <3>4, <3>5
  <2>5. CASE routes[i].kind # "page"
    <3> DEFINE t == Tool(i, routes[i].kind)
    <3>1. made[i] = <<t>>
      BY <2>1, <2>5 DEF ToolsOf
    <3>2. ToolOK(t)
      BY <2>3
    <3> HIDE DEF made, t
    <3>3. DOMAIN made[i] = 1..1 /\ made[i][1] = t
      BY <3>1
    <3>4. Range(made[i]) = {t}
      BY <3>3 DEF Range
    <3>5. <<t>> \in Seq(T)
      BY <2>2, <3>4
    <3> QED BY <3>1, <3>2, <3>4, <3>5
  <2> QED BY <2>4, <2>5
<1>3. DOMAIN made = 1..n
  BY <1>1
<1> HIDE DEF made, T
<1>4. made \in Seq(Seq(T))
  <2>1. made = [i \in 1..n |-> made[i]]
    BY <1>1 DEF made
  <2>2. made \in [1..n -> Seq(T)]
    BY <1>2, <2>1
  <2> QED BY <2>2, SeqDef
<1>5. /\ FlattenSeq(made) \in Seq(T)
      /\ \A e \in Range(FlattenSeq(made)) : \E i \in DOMAIN made : e \in Range(made[i])
  BY <1>4, FlattenSeqRange
<1>6. BuildTools = FlattenSeq(made)
  BY DEF BuildTools, made
<1> SUFFICES ASSUME NEW i \in DOMAIN BuildTools PROVE ToolOK(BuildTools[i])
  BY <1>5, <1>6, SeqOfRange
<1>7. BuildTools[i] \in Range(FlattenSeq(made))
  BY <1>6 DEF Range
<1> QED BY <1>2, <1>3, <1>5, <1>7

LEMMA StartKeeps ==
  ASSUME IInv, StartServer
  PROVE  IInv'
<1> USE DEF IInv
<1>1. /\ tools'.list = BuildTools /\ client' = NoApp /\ answer' = NoAnswer
      /\ UNCHANGED <<routes, groups, mounts, stack, app>>
  BY DEF StartServer
<1>2. RegisteredOK' /\ ServedInFull'
  BY <1>1 DEF RegisteredOK, ServedInFull
<1>3. ToolsOK'
  BY <1>1, ToolsAreOfRoutes DEF ToolsOK, ToolOK
<1>4. PICK m \in Nat, n \in Nat : Copied(m, n)
  BY DEF Copies
<1>5. FirstRoutes(client, 0)' /\ FirstRoutes(app, n)'
  BY <1>1, <1>4, NoAppHasNone DEF FirstRoutes, Copied
<1>6. Copied(0, n)'
  BY <1>1, <1>5 DEF Copied
<1>7. Copies' /\ FirstLayers(client)'
  BY <1>1, <1>6 DEF Copies, FirstLayers
<1> QED BY <1>2, <1>3, <1>7

LEMMA CallKeeps ==
  ASSUME IInv, NEW i \in DOMAIN tools.list, NEW given, CallTool(tools.list[i].name, given)
  PROVE  IInv'
<1> USE DEF IInv
<1> DEFINE tool == ByName(tools.list[i].name)
           path == Fill(tool.path, given)
<1>1. /\ client' = IF client = NoApp THEN Asgi ELSE client
      /\ app' = IF client = NoApp THEN Asgi ELSE app
      /\ answer' = [made |-> tool.made, by |-> Dispatch(client', tool.method, path),
                    whole |-> \A n \in DOMAIN given : OneSegment(given[n])]
      /\ UNCHANGED <<routes, groups, mounts, stack, tools>>
  BY DEF CallTool
<1>2. ToolOK(tool)
  BY FoundByName DEF ToolsOK
<1>3. answer'.made = tool.made
      /\ answer'.by = Dispatch(client', routes[tool.made].method,
                               Fill(routes[tool.made].path, given))
  BY <1>1, <1>2 DEF ToolOK
<1> HIDE DEF tool
<1>4. RegisteredOK' /\ ToolsOK'
  BY <1>1 DEF RegisteredOK, ToolsOK, ToolOK
<1>5. ServedInFull'
  BY <1>1, AsgiInFull DEF ServedInFull, Entry
<1>6. PICK m \in Nat, n \in Nat : Copied(m, n)
  BY DEF Copies
<1>7. \E j, k \in Nat : FirstRoutes(client', j) /\ FirstRoutes(app', k)
                        /\ (app' # NoApp => j <= k)
  <2>1. CASE client = NoApp
    <3>1. PICK k \in Nat : n <= k /\ FirstRoutes(Asgi, k)
      BY <1>6, AsgiIsBuilt DEF Copied
    <3> QED BY <1>1, <2>1, <3>1
  <2>2. CASE client # NoApp
    BY <1>1, <1>6, <2>2 DEF Copied
  <2> QED BY <2>1, <2>2
<1>8. PICK j \in Nat, k \in Nat : /\ FirstRoutes(client', j) /\ FirstRoutes(app', k)
                                  /\ app' # NoApp => j <= k
  BY <1>7
<1>9. answer'.whole /\ answer'.made \in 1..j => answer'.by \in 1..answer'.made
  BY <1>1, <1>3, <1>8, DispatchedEarly
<1>10. FirstRoutes(client, j)' /\ FirstRoutes(app, k)'
  BY <1>1, <1>8 DEF FirstRoutes
<1>11. Copied(j, k)'
  BY <1>8, <1>9, <1>10 DEF Copied
<1>12. Copies'
  BY <1>11 DEF Copies
<1>13. FirstLayers(client)'
  <2>1. CASE client # NoApp
    BY <1>1, <2>1 DEF FirstLayers
  <2>2. CASE client = NoApp
    BY <1>1, <2>2, AsgiInFull DEF FirstLayers, RegisteredOK
  <2> QED BY <2>1, <2>2
<1> QED BY <1>4, <1>5, <1>12, <1>13

LEMMA NextKeeps ==
  ASSUME IInv, [AppNext]_appVars
  PROVE  IInv'
<1>1. ASSUME NEW g \in {Nil} \cup DOMAIN groups, NEW path \in Paths,
             Get(g, path) \/ Post(g, path) \/ Api(g, path)
      PROVE  IInv'
  <2>1. /\ "page" \in Routed /\ "action" \in Routed /\ "api" \in Routed
        /\ "GET" \in Methods /\ "POST" \in Methods
    BY DEF Routed, Methods
  <2>2. CASE Get(g, path)
    BY <2>1, <2>2, RegisterKeeps DEF Get
  <2>3. CASE Post(g, path)
    BY <2>1, <2>3, RegisterKeeps DEF Post
  <2>4. CASE Api(g, path)
    BY <2>1, <2>4, RegisterKeeps DEF Api
  <2> QED BY <1>1, <2>2, <2>3, <2>4
<1>2. ASSUME NEW g \in {Nil} \cup DOMAIN groups, NEW prefix \in GroupPaths,
             NEW middleware \in {<<>>} \cup {<<mw>> : mw \in Middleware},
             Group(g, prefix, middleware)
      PROVE  IInv'
  BY <1>2, GroupKeeps
<1>3. CASE HandleJsonrpc
  <2>1. ASSUME NEW i \in DOMAIN tools.list, NEW given, CallTool(tools.list[i].name, given)
        PROVE  IInv'
    BY <2>1, CallKeeps
  <2>2. CASE answer' = NoAnswer /\ UNCHANGED <<routes, groups, mounts, stack, app, tools, client>>
    <3>1. RegisteredOK' /\ ToolsOK' /\ ServedInFull'
      BY <2>2 DEF IInv, RegisteredOK, ToolsOK, ToolOK, ServedInFull
    <3>2. PICK m \in Nat, n \in Nat : Copied(m, n)
      BY DEF IInv, Copies
    <3>3. 0 \notin 1..m /\ answer'.made = 0
      BY <2>2 DEF NoAnswer, Nil
    <3>4. Copied(m, n)'
      BY <2>2, <3>2, <3>3 DEF Copied, FirstRoutes
    <3>5. Copies' /\ FirstLayers(client)'
      BY <2>2, <3>4 DEF Copies, IInv, FirstLayers
    <3> QED BY <3>1, <3>5 DEF IInv
  <2> QED BY <1>3, <2>1, <2>2 DEF HandleJsonrpc
<1>4. CASE UNCHANGED appVars
  BY <1>4 DEF appVars, IInv, RegisteredOK, ToolsOK, ToolOK, ServedInFull, Copies,
              Copied, FirstRoutes, FirstLayers
<1> QED BY <1>1, <1>2, <1>3, <1>4, UseKeeps, StaticKeeps, ServeKeeps, StartKeeps
        DEF AppNext

LEMMA InitHolds ==
  ASSUME AppInit
  PROVE  IInv
<1>1. RegisteredOK
  BY DEF AppInit, RegisteredOK
<1>2. ToolsOK
  <2>1. tools.list = <<>>
    BY DEF AppInit, NoServer
  <2>2. <<>> \in Seq(Range(<<>>)) /\ DOMAIN <<>> = {}
    OBVIOUS
  <2> QED BY <2>1, <2>2 DEF ToolsOK
<1>3. ServedInFull
  BY DEF AppInit, ServedInFull
<1>4. FirstRoutes(client, 0) /\ FirstRoutes(app, 0)
  BY <1>1, NoAppHasNone DEF AppInit
<1>5. Copied(0, 0)
  BY <1>4 DEF Copied, AppInit
<1>6. Copies
  BY <1>5 DEF Copies
<1>7. FirstLayers(client)
  BY DEF AppInit, FirstLayers
<1> QED BY <1>1, <1>2, <1>3, <1>6, <1>7 DEF IInv

\* However registrations, builds, the start of the MCP server and its calls
\* alternate, the application that is served has every middleware, in order,
\* and every directory, and its routes are the first of the registered; of the
\* application the MCP client keeps, routes and middleware are the first of the
\* registered (Taiyaki.use, static, asgi, _build_app, _get_client).
THEOREM CopiesStayAgreed == AppSpec => []CopiesAgree
<1>1. IInv => CopiesAgree
  BY CopiesArePrefixes DEF IInv, CopiesAgree
<1> QED BY InitHolds, NextKeeps, <1>1, PTL DEF AppSpec

\* The call of a tool whose route the client's application has is answered by
\* that route or an earlier one, whatever values of one segment are given for
\* the parameters and whatever directories are mounted (call_tool, _build_app).
THEOREM CallsReachTheirRoute == AppSpec => []OwnRouteOrEarlier
<1>1. IInv => OwnRouteOrEarlier
  BY AnsweredByRoute DEF IInv
<1> QED BY InitHolds, NextKeeps, <1>1, PTL DEF AppSpec

-----------------------------------------------------------------------------
(* Hot reload: the types *)

\* Every variable keeps its type (all of app.py's and dev.py's handlers).
THEOREM HotReloadTypeCorrect == Spec => []TypeOK
<1> USE HotReloadAssumption DEF Versions, MaybeVersion, None, Files, hashVars
<1>1. Init => TypeOK
  <2> SUFFICES ASSUME Init PROVE TypeOK
    OBVIOUS
  <2>1. 1 \in Versions /\ 0 \in MaybeVersion
    OBVIOUS
  <2>2. disk \in [Files -> Versions]
    BY <2>1 DEF Init
  <2>3. httpCache \in [Browsers -> [Versions -> MaybeVersion]]
    BY <2>1 DEF Init
  <2> QED BY <2>1, <2>2, <2>3 DEF Init, TypeOK
<1>2. TypeOK /\ [Next]_vars => TypeOK'
  <2> SUFFICES ASSUME TypeOK, [Next]_vars PROVE TypeOK'
    OBVIOUS
  <2> USE DEF TypeOK, fileVars, engineVars, browserVars
  <2>1. ASSUME NEW f \in Files, Edit(f) PROVE TypeOK'
    <3>1. PICK v \in Versions :
             /\ disk' = [disk EXCEPT ![f] = v]
             /\ savedAt' = IF f = "island" THEN [savedAt EXCEPT ![v] = edits' + 1]
                                           ELSE savedAt
      BY <2>1 DEF Edit
    <3>2. edits' \in Nat /\ disk' \in [Files -> Versions]
      BY <2>1, <3>1 DEF Edit
    <3>3. savedAt' \in [MaybeVersion -> Nat]
      <4>1. edits' + 1 \in Nat
        BY <2>1 DEF Edit
      <4> QED BY <3>1, <4>1
    <3> QED BY <2>1, <3>2, <3>3 DEF Edit
  <2>2. CASE Collect
    BY <2>2 DEF Collect
  <2>3. CASE Deliver
    BY <2>3 DEF Deliver, Invalidate, NotifyAll, NoBody
  <2>4. CASE Evict
    BY <2>4 DEF Evict
  <2>5. ASSUME NEW b \in Browsers, Request(b) PROVE TypeOK'
    BY <2>5 DEF Request, Disconnect, Show
  <2>6. ASSUME NEW b \in Browsers, Render(b) PROVE TypeOK'
    <3>1. /\ loaded' \in BOOLEAN
          /\ {source', module', registry'} \subseteq MaybeVersion
      <4>1. CASE loaded
        BY <2>6, <4>1 DEF Render, EnsureComponent
      <4>2. CASE ~loaded
        BY <2>6, <4>2 DEF Render, EnsureComponent, LoadComponent
      <4> QED BY <4>1, <4>2
    <3>2. Rendered \in Bodies /\ Overlay \in Bodies
      BY <3>1 DEF Rendered, Overlay, Bodies
    <3> QED BY <2>6, <3>1, <3>2 DEF Render, Show
  <2>7. ASSUME NEW b \in Browsers, RenderFails(b) PROVE TypeOK'
    BY <2>7 DEF RenderFails, Show, Failed, Bodies
  <2>8. ASSUME NEW b \in Browsers, FetchIsland(b) PROVE TypeOK'
    <3>1. page[b] \in Bodies
      BY <2>8 DEF FetchIsland, Runs, NoBody
    <3>2. disk["island"] \in MaybeVersion
      OBVIOUS
    <3>3. islandHash' = disk["island"] /\ recordedAt' \in [MaybeVersion -> Nat]
      BY <2>8, <3>2 DEF FetchIsland, RecordHash, NoteRecord
    <3>4. islandSeen' \in [Browsers -> MaybeVersion]
      BY <2>8, <3>2 DEF FetchIsland
    <3>5. httpCache' \in [Browsers -> [Versions -> MaybeVersion]]
      BY <2>8, <3>1, <3>2 DEF FetchIsland, Bodies
    <3> QED BY <2>8, <3>2, <3>3, <3>4, <3>5 DEF FetchIsland
  <2>9. ASSUME NEW b \in Browsers, ReuseIsland(b) PROVE TypeOK'
    <3>1. page[b] \in Bodies
      BY <2>9 DEF ReuseIsland, Runs, NoBody
    <3>2. httpCache[b][page[b].island] \in MaybeVersion
      <4>1. page[b].island \in MaybeVersion /\ page[b].island # None
        BY <2>9, <3>1 DEF ReuseIsland, Keeps, Bodies
      <4>2. page[b].island \in Versions
        BY <4>1
      <4>3. httpCache[b] \in [Versions -> MaybeVersion]
        OBVIOUS
      <4> HIDE DEF Versions, MaybeVersion
      <4> QED BY <4>2, <4>3
    <3>3. islandSeen' \in [Browsers -> MaybeVersion]
      BY <2>9, <3>2 DEF ReuseIsland
    <3> QED BY <2>9, <3>3 DEF ReuseIsland
  <2>10. ASSUME NEW b \in Browsers, Connect(b) PROVE TypeOK'
    BY <2>10 DEF Connect
  <2>11. ASSUME NEW b \in Browsers, Drop(b) PROVE TypeOK'
    BY <2>11 DEF Drop, Disconnect
  <2>12. CASE UNCHANGED vars
    BY <2>12 DEF vars
  <2> QED BY <2>1, <2>2, <2>3, <2>4, <2>5, <2>6, <2>7, <2>8, <2>9, <2>10,
             <2>11, <2>12 DEF Next
<1> QED BY <1>1, <1>2, PTL DEF Spec

-----------------------------------------------------------------------------
(* The component *)

\* The two agree whatever falls between the loader and the render of a
\* request; the cached page is one of what is registered.
ComponentInv == LoadedIsRenderable /\ CacheIsCurrent

\* Invalidation and loading change both sides of the agreement in one step.
LEMMA ComponentStep == TypeOK /\ ComponentInv /\ [Next]_vars => ComponentInv'
<1> SUFFICES ASSUME TypeOK, ComponentInv, [Next]_vars PROVE ComponentInv'
  OBVIOUS
<1> USE DEF ComponentInv, LoadedIsRenderable, CacheIsCurrent
<1>1. CASE Deliver
  BY <1>1 DEF Deliver, Invalidate, NoBody
<1>2. CASE Evict
  BY <1>2 DEF Evict, engineVars, NoBody
<1>3. ASSUME NEW b \in Browsers, Render(b) PROVE ComponentInv'
  <2>1. cache' \in {Rendered, Overlay}
    BY <1>3 DEF Render
  <2>2. loaded' /\ registry' # None
    <3>1. CASE loaded
      BY <1>3, <3>1 DEF Render, EnsureComponent, engineVars
    <3>2. CASE ~loaded
      <4>1. disk["page"] # None
        BY HotReloadAssumption DEF TypeOK, Files, Versions, None
      <4> QED BY <1>3, <3>2, <4>1 DEF Render, EnsureComponent, LoadComponent
    <3> QED BY <3>1, <3>2
  <2> QED BY <2>1, <2>2 DEF Rendered, Overlay
<1>4. CASE \/ \E f \in Files : Edit(f)
           \/ Collect
           \/ \E b \in Browsers : \/ Request(b) \/ RenderFails(b)
                                  \/ FetchIsland(b) \/ ReuseIsland(b)
                                  \/ Connect(b) \/ Drop(b)
           \/ UNCHANGED vars
  <2> UNCHANGED <<loaded, registry, cache>>
    BY <1>4 DEF Edit, Collect, Request, RenderFails, FetchIsland, ReuseIsland,
                Connect, Drop, engineVars, vars
  <2> QED OBVIOUS
<1> QED BY <1>1, <1>2, <1>3, <1>4 DEF Next

\* ComponentInv holds in every reachable state.
LEMMA ComponentInvariant == Spec => []ComponentInv
<1>1. Init => ComponentInv
  BY DEF Init, ComponentInv, LoadedIsRenderable, CacheIsCurrent, NoBody
<1> QED BY <1>1, HotReloadTypeCorrect, ComponentStep, PTL DEF Spec

\* _loaded_components and the JavaScript registry agree in every reachable
\* state (_ensure_component, _invalidate_components).
THEOREM LoadedComponentsAreRenderable == Spec => []LoadedIsRenderable
BY ComponentInvariant, PTL DEF ComponentInv

\* No render that began before an invalidation fills the response cache with
\* what is no longer registered (the page handler, resp_cache.put).
THEOREM CachedPagesAreCurrent == Spec => []CacheIsCurrent
BY ComponentInvariant, PTL DEF ComponentInv

-----------------------------------------------------------------------------
(* The island *)

\* The server has recorded the hash h, and the content of h was not saved
\* since: the URL of h has stood for one content only.
Fresh(h) == recordedAt[h] # 0 /\ recordedAt[h] = savedAt[h]

\* The HTTP cache of browser b has content for hash h.
KeptAt(b, h) == httpCache[b][h] # None

\* A page names the island by h, or by something else.
NamesIt(body, h)   == body.kind = "page" /\ body.island = h
NamesElse(body, h) == body.kind = "page" /\ body.island # h

\* What is on disk was saved last, and a hash is recorded of what was saved.
DiskIsNewest ==
  /\ savedAt[disk["island"]] >= 1
  /\ \A v \in MaybeVersion : /\ savedAt[v] <= savedAt[disk["island"]]
                             /\ savedAt[v] <= edits + 1
                             /\ recordedAt[v] <= savedAt[v]

\* Pages name the island by recorded hashes, and browsers keep it under such.
NamesAreRecorded ==
  /\ islandHash # None => recordedAt[islandHash] # 0
  /\ cache.kind = "page" /\ cache.island # None => recordedAt[cache.island] # 0
  /\ \A b \in Browsers :
       /\ page[b].kind = "page" /\ page[b].island # None
            => recordedAt[page[b].island] # 0
       /\ \A h \in Versions : KeptAt(b, h) => recordedAt[h] # 0

\* A hash that is no longer the recorded one, and the content of which was not
\* saved again, is not the file's.
HashMovesOn == \A h \in Versions : Fresh(h) /\ islandHash # h => disk["island"] # h

\* Once the cached page names the island by another hash than the browser's
\* page, or than one the browser keeps, that hash is not the recorded one.
CacheMovesOn ==
  \A b \in Browsers, h \in Versions :
    Fresh(h) /\ (KeptAt(b, h) \/ NamesIt(page[b], h)) /\ NamesElse(cache, h)
      => islandHash # h

\* Neither a page that is shown, nor the cached one, nor the next, names h.
Passed(b, h) ==
  islandHash # h /\ ~NamesIt(cache, h) /\ ~NamesIt(page[b], h)

\* A browser that keeps h and is shown a page with another hash is never shown
\* one with h again.
PageMovesOn ==
  \A b \in Browsers, h \in Versions :
    Fresh(h) /\ KeptAt(b, h) /\ NamesElse(page[b], h) => Passed(b, h)

\* What a browser keeps under h is what it runs, until it is past h.
RunsWhatItKeeps ==
  \A b \in Browsers, h \in Versions :
    Fresh(h) /\ KeptAt(b, h) => islandSeen[b] = httpCache[b][h] \/ Passed(b, h)

\* What keeps a browser from running an older island after a newer one.
IslandInv == /\ DiskIsNewest /\ NamesAreRecorded
             /\ HashMovesOn /\ CacheMovesOn /\ PageMovesOn /\ RunsWhatItKeeps

\* What arithmetic needs of the types.
LEMMA SavesAreNumbers ==
  ASSUME TypeOK
  PROVE  /\ edits \in Nat /\ disk["island"] \in Versions
         /\ Versions \subseteq MaybeVersion /\ 0 \notin Versions
         /\ \A v \in MaybeVersion : savedAt[v] \in Nat /\ recordedAt[v] \in Nat
         /\ \A b \in Browsers : islandSeen[b] \in MaybeVersion
         /\ \A b \in Browsers :
              page[b].kind = "page" => page[b].island \in MaybeVersion
<1>1. /\ edits \in Nat /\ disk["island"] \in Versions
      /\ \A v \in MaybeVersion : savedAt[v] \in Nat /\ recordedAt[v] \in Nat
      /\ \A b \in Browsers : islandSeen[b] \in MaybeVersion
  BY DEF TypeOK, Files
<1>2. Versions \subseteq MaybeVersion /\ 0 \notin Versions
  BY HotReloadAssumption DEF Versions, MaybeVersion
<1>3. ASSUME NEW b \in Browsers, page[b].kind = "page"
      PROVE  page[b].island \in MaybeVersion
  <2>1. page[b] \in Bodies
    BY <1>3 DEF TypeOK, NoBody
  <2> QED BY <2>1 DEF Bodies
<1> QED BY <1>1, <1>2, <1>3

\* What IslandNeverOlder asks of a step.
NoneOlder ==
  \A b \in Browsers : \/ savedAt[islandSeen'[b]] >= savedAt[islandSeen[b]]
                      \/ SavedAgain(page[b].island)

\* A step that leaves the island as it is runs none that is older.
LEMMA NothingRun ==
  ASSUME TypeOK, UNCHANGED islandSeen
  PROVE  NoneOlder
BY SavesAreNumbers DEF NoneOlder

\* A hash stops being fresh when its content is saved again.
LEMMA EditKeeps ==
  ASSUME TypeOK, IslandInv, NEW f \in Files, Edit(f)
  PROVE  IslandInv'
<1>1. PICK v \in Versions \ {disk[f]} :
         /\ disk' = [disk EXCEPT ![f] = v]
         /\ savedAt' = IF f = "island" THEN [savedAt EXCEPT ![v] = edits' + 1]
                                       ELSE savedAt
  BY DEF Edit
<1>2. /\ edits' = edits + 1
      /\ UNCHANGED <<cache, islandHash, recordedAt, page, httpCache, islandSeen>>
  BY DEF Edit, hashVars, browserVars
<1>3. CASE f = "page"
  <2>1. savedAt' = savedAt /\ disk'["island"] = disk["island"]
    BY <1>1, <1>3 DEF TypeOK, Files
  <2>2. DiskIsNewest'
    BY <1>2, <2>1, SavesAreNumbers DEF IslandInv, DiskIsNewest
  <2> QED BY <1>2, <2>1, <2>2
          DEF IslandInv, NamesAreRecorded, HashMovesOn, CacheMovesOn, PageMovesOn,
              RunsWhatItKeeps, Passed, Fresh, KeptAt, NamesIt, NamesElse
<1>4. CASE f = "island"
  <2>1. disk'["island"] = v
    BY <1>1, <1>4 DEF TypeOK, Files
  <2>2. \A x \in MaybeVersion : savedAt'[x] = IF x = v THEN edits + 2 ELSE savedAt[x]
    BY <1>1, <1>2, <1>4, SavesAreNumbers DEF TypeOK
  <2>3. DiskIsNewest'
    BY <1>2, <2>1, <2>2, SavesAreNumbers DEF IslandInv, DiskIsNewest
  <2>4. \A h \in Versions : Fresh(h)' => Fresh(h) /\ h # v
    BY <1>2, <2>2, SavesAreNumbers DEF IslandInv, DiskIsNewest, Fresh
  <2>5. HashMovesOn'
    BY <2>1, <2>4 DEF HashMovesOn
  <2> QED BY <1>2, <2>3, <2>4, <2>5
          DEF IslandInv, NamesAreRecorded, CacheMovesOn, PageMovesOn,
              RunsWhatItKeeps, Passed, KeptAt, NamesIt, NamesElse
<1> QED BY <1>3, <1>4 DEF Files

\* A page that comes from the cache leaves behind what the cache is past.
LEMMA RequestKeeps ==
  ASSUME TypeOK, IslandInv, NEW b \in Browsers, Request(b)
  PROVE  IslandInv'
<1>1. UNCHANGED <<disk, edits, savedAt, cache, islandHash, recordedAt,
                  httpCache, islandSeen>>
  BY DEF Request, fileVars, hashVars
<1>2. \A c \in Browsers : page'[c] = IF c = b /\ cache # NoBody THEN cache ELSE page[c]
  BY DEF Request, Show, TypeOK
<1>3. DiskIsNewest' /\ NamesAreRecorded' /\ HashMovesOn'
  BY <1>1, <1>2 DEF IslandInv, DiskIsNewest, NamesAreRecorded, HashMovesOn, Fresh, KeptAt
<1>4. \A h \in Versions : Fresh(h)' = Fresh(h)
  BY <1>1 DEF Fresh
<1>5. CacheMovesOn'
  BY <1>1, <1>2, <1>4 DEF IslandInv, CacheMovesOn, KeptAt, NamesIt, NamesElse
<1>6. PageMovesOn'
  BY <1>1, <1>2, <1>4
     DEF IslandInv, PageMovesOn, CacheMovesOn, Passed, KeptAt, NamesIt, NamesElse
<1>7. RunsWhatItKeeps'
  BY <1>1, <1>2, <1>4
     DEF IslandInv, RunsWhatItKeeps, Passed, KeptAt, NamesIt
<1> QED BY <1>3, <1>5, <1>6, <1>7 DEF IslandInv

\* A page that is rendered names the island by the recorded hash.
LEMMA RenderKeeps ==
  ASSUME TypeOK, IslandInv, NEW b \in Browsers, Render(b)
  PROVE  IslandInv'
<1>1. PICK body \in {Rendered, Overlay} :
         cache' = body /\ page' = [page EXCEPT ![b] = body]
  BY DEF Render, Show
<1>2. body.kind = "page" => body.island = islandHash
  BY <1>1 DEF Rendered, Overlay
<1>3. UNCHANGED <<disk, edits, savedAt, islandHash, recordedAt, httpCache, islandSeen>>
  BY DEF Render, fileVars, hashVars
<1>4. \A c \in Browsers : page'[c] = IF c = b THEN body ELSE page[c]
  BY <1>1 DEF TypeOK
<1>5. \A h \in Versions : Fresh(h)' = Fresh(h)
  BY <1>3 DEF Fresh
<1>6. DiskIsNewest' /\ HashMovesOn'
  BY <1>3, <1>5 DEF IslandInv, DiskIsNewest, HashMovesOn
<1>7. NamesAreRecorded'
  BY <1>1, <1>2, <1>3, <1>4 DEF IslandInv, NamesAreRecorded, KeptAt
<1>8. CacheMovesOn'
  BY <1>1, <1>2, <1>3, <1>4, <1>5
     DEF IslandInv, CacheMovesOn, KeptAt, NamesIt, NamesElse
<1>9. PageMovesOn'
  BY <1>1, <1>2, <1>3, <1>4, <1>5
     DEF IslandInv, PageMovesOn, Passed, KeptAt, NamesIt, NamesElse
<1>10. RunsWhatItKeeps'
  BY <1>1, <1>2, <1>3, <1>4, <1>5
     DEF IslandInv, RunsWhatItKeeps, Passed, KeptAt, NamesIt
<1> QED BY <1>6, <1>7, <1>8, <1>9, <1>10 DEF IslandInv

\* What is fetched is the newest content, and its hash becomes the recorded one.
LEMMA FetchKeeps ==
  ASSUME TypeOK, IslandInv, NEW b \in Browsers, FetchIsland(b)
  PROVE  IslandInv' /\ NoneOlder
<1> DEFINE url == page[b].island
           now == disk["island"]
<1>1. /\ UNCHANGED <<disk, edits, savedAt, cache, page>>
      /\ page[b].kind = "page" /\ (url = None \/ httpCache[b][url] = None)
      /\ islandHash' = now
      /\ recordedAt' = [recordedAt EXCEPT ![now] = IF @ = 0 THEN savedAt[now] ELSE @]
      /\ islandSeen' = [islandSeen EXCEPT ![b] = now]
      /\ httpCache' = IF url = None THEN httpCache
                      ELSE [httpCache EXCEPT ![b][url] = now]
  BY DEF FetchIsland, Runs, Keeps, RecordHash, NoteRecord, fileVars
<1>2. /\ url \in MaybeVersion /\ now \in Versions /\ now \in MaybeVersion
      /\ now # None /\ None \notin Versions
      /\ url # None => url \in Versions
  BY <1>1, SavesAreNumbers DEF None, MaybeVersion
<1>3. \A c \in Browsers : islandSeen'[c] = IF c = b THEN now ELSE islandSeen[c]
  BY <1>1 DEF TypeOK
<1>4. \A c \in Browsers, h \in Versions :
        httpCache'[c][h] = IF c = b /\ h = url THEN now ELSE httpCache[c][h]
  BY <1>1, <1>2 DEF TypeOK
<1>5. \A h \in MaybeVersion :
        recordedAt'[h] = IF h = now /\ recordedAt[h] = 0 THEN savedAt[h] ELSE recordedAt[h]
  BY <1>1, <1>2 DEF TypeOK
<1> HIDE DEF now
<1>6. DiskIsNewest'
  BY <1>1, <1>5, SavesAreNumbers DEF IslandInv, DiskIsNewest
<1>7. savedAt[now] >= 1 /\ savedAt[now] \in Nat
      /\ \A v \in MaybeVersion : savedAt[v] <= savedAt[now]
  BY <1>2, SavesAreNumbers DEF IslandInv, DiskIsNewest, now
<1>8. NamesAreRecorded'
  <2>1. \A h \in MaybeVersion : recordedAt[h] # 0 => recordedAt'[h] # 0
    BY <1>5
  <2>2. recordedAt'[now] # 0
    BY <1>2, <1>5, <1>7
  <2>3. cache.kind = "page" => cache.island \in MaybeVersion
    BY DEF TypeOK, Bodies, NoBody
  <2>4. \A c \in Browsers : page[c].kind = "page" => page[c].island \in MaybeVersion
    BY SavesAreNumbers
  <2>5. \A c \in Browsers, h \in Versions : KeptAt(c, h)' => recordedAt[h] # 0
    BY <1>1, <1>2, <1>4 DEF IslandInv, NamesAreRecorded, KeptAt
  <2> QED BY <1>1, <1>2, <2>1, <2>2, <2>3, <2>4, <2>5, SavesAreNumbers
          DEF IslandInv, NamesAreRecorded
\* A hash recorded for the first time was in no page and in no browser.
<1>9. \A h \in Versions : Fresh(h)' => Fresh(h) \/ (h = now /\ recordedAt[h] = 0)
  BY <1>1, <1>5, SavesAreNumbers DEF Fresh
<1>10. \A h \in Versions : Fresh(h) /\ islandHash # h => islandHash' # h
  BY <1>1 DEF IslandInv, HashMovesOn, now
<1>11. HashMovesOn'
  BY <1>1 DEF HashMovesOn, now
<1>12. \A c \in Browsers, h \in Versions :
         recordedAt[h] = 0 => ~KeptAt(c, h)' /\ ~NamesIt(page[c], h)
  BY <1>1, <1>2, <1>4 DEF IslandInv, NamesAreRecorded, KeptAt, NamesIt
<1>13. \A c \in Browsers, h \in Versions :
         KeptAt(c, h)' => KeptAt(c, h) \/ (c = b /\ h = url /\ NamesIt(page[c], h))
  BY <1>1, <1>2, <1>4 DEF KeptAt, NamesIt
<1>14. CacheMovesOn'
  BY <1>1, <1>9, <1>10, <1>12, <1>13
     DEF IslandInv, CacheMovesOn, NamesIt, NamesElse
<1>15. ASSUME NEW c \in Browsers, NEW h \in Versions,
              Fresh(h), KeptAt(c, h), Passed(c, h)
       PROVE  Passed(c, h)'
  BY <1>1, <1>10, <1>15 DEF Passed, NamesIt
<1>16. PageMovesOn'
  <2> SUFFICES ASSUME NEW c \in Browsers, NEW h \in Versions,
                      Fresh(h)', KeptAt(c, h)', NamesElse(page'[c], h)
               PROVE  Passed(c, h)'
    BY DEF PageMovesOn, NamesElse
  <2>1. Fresh(h)
    BY <1>9, <1>12
  <2>2. KeptAt(c, h) /\ NamesElse(page[c], h)
    BY <1>1, <1>13 DEF NamesIt, NamesElse
  <2> QED BY <1>15, <2>1, <2>2 DEF IslandInv, PageMovesOn
<1>17. RunsWhatItKeeps'
  <2> SUFFICES ASSUME NEW c \in Browsers, NEW h \in Versions,
                      Fresh(h)', KeptAt(c, h)'
               PROVE  islandSeen'[c] = httpCache'[c][h] \/ Passed(c, h)'
    BY DEF RunsWhatItKeeps
  <2>1. Fresh(h)
    BY <1>9, <1>12
  <2>2. CASE c = b /\ h = url
    BY <1>3, <1>4, <2>2
  <2>3. CASE c = b /\ h # url
    <3>1. KeptAt(c, h) /\ NamesElse(page[c], h)
      BY <1>1, <1>13, <2>3 DEF NamesElse
    <3> QED BY <1>15, <2>1, <3>1 DEF IslandInv, PageMovesOn
  <2>4. CASE c # b
    <3>1. KeptAt(c, h)
      BY <1>13, <2>4
    <3>2. islandSeen[c] = httpCache[c][h] \/ Passed(c, h)
      BY <2>1, <3>1 DEF IslandInv, RunsWhatItKeeps
    <3> QED BY <1>3, <1>4, <1>15, <2>1, <2>4, <3>1, <3>2
  <2> QED BY <2>2, <2>3, <2>4
<1>18. NoneOlder
  BY <1>3, <1>7, SavesAreNumbers DEF NoneOlder
<1> QED BY <1>6, <1>8, <1>11, <1>14, <1>16, <1>17, <1>18 DEF IslandInv

\* What is kept under a fresh hash is what ran last.
LEMMA ReuseKeeps ==
  ASSUME TypeOK, IslandInv, NEW b \in Browsers, ReuseIsland(b)
  PROVE  IslandInv' /\ NoneOlder
<1> DEFINE url == page[b].island
<1>1. /\ UNCHANGED <<disk, edits, savedAt, cache, islandHash, recordedAt, page, httpCache>>
      /\ NamesIt(page[b], url) /\ url # None /\ httpCache[b][url] # None
      /\ \A c \in Browsers :
           islandSeen'[c] = IF c = b THEN httpCache[b][url] ELSE islandSeen[c]
  BY DEF ReuseIsland, Runs, Keeps, NamesIt, TypeOK, fileVars, hashVars
<1>2. url \in Versions /\ KeptAt(b, url)
  BY <1>1, SavesAreNumbers DEF NamesIt, KeptAt, MaybeVersion
<1>3. recordedAt[url] # 0
  BY <1>1, <1>2 DEF IslandInv, NamesAreRecorded
<1>4. Fresh(url) => httpCache[b][url] = islandSeen[b]
  BY <1>1, <1>2 DEF IslandInv, RunsWhatItKeeps, Passed
<1>5. NoneOlder
  <2>1. \A c \in Browsers : savedAt[islandSeen[c]] \in Nat
    BY SavesAreNumbers
  <2>2. Fresh(url) \/ SavedAgain(url)
    BY <1>3 DEF Fresh, SavedAgain
  <2> QED BY <1>1, <1>4, <2>1, <2>2 DEF NoneOlder
<1>6. RunsWhatItKeeps'
  <2> SUFFICES ASSUME NEW c \in Browsers, NEW h \in Versions, Fresh(h), KeptAt(c, h)
               PROVE  islandSeen'[c] = httpCache[c][h] \/ Passed(c, h)
    BY <1>1 DEF RunsWhatItKeeps, Fresh, KeptAt, Passed, NamesIt
  <2>1. CASE c = b /\ h # url
    BY <1>1, <2>1 DEF IslandInv, PageMovesOn, NamesIt, NamesElse
  <2>2. CASE c = b /\ h = url
    BY <1>1, <2>2
  <2>3. CASE c # b
    BY <1>1, <2>3 DEF IslandInv, RunsWhatItKeeps
  <2> QED BY <2>1, <2>2, <2>3
<1>7. /\ DiskIsNewest' /\ NamesAreRecorded' /\ HashMovesOn'
      /\ CacheMovesOn' /\ PageMovesOn'
  BY <1>1 DEF IslandInv, DiskIsNewest, NamesAreRecorded, HashMovesOn, CacheMovesOn,
              PageMovesOn, Passed, Fresh, KeptAt, NamesIt, NamesElse
<1> QED BY <1>5, <1>6, <1>7 DEF IslandInv

\* IslandInv is inductive, and no step runs an older island.
LEMMA IslandStep ==
  TypeOK /\ IslandInv /\ [Next]_vars => IslandInv' /\ NoneOlder
<1> SUFFICES ASSUME TypeOK, IslandInv, [Next]_vars PROVE IslandInv' /\ NoneOlder
  OBVIOUS
<1>1. ASSUME NEW f \in Files, Edit(f) PROVE IslandInv' /\ NoneOlder
  BY <1>1, EditKeeps, NothingRun DEF Edit, browserVars
<1>2. CASE Deliver \/ Evict
  <2>1. /\ UNCHANGED <<disk, edits, savedAt, islandHash, recordedAt, page,
                       httpCache, islandSeen>>
        /\ cache' = NoBody
    BY <1>2 DEF Deliver, Evict, Invalidate, fileVars, hashVars, browserVars
  <2> QED BY <2>1, NothingRun
          DEF IslandInv, DiskIsNewest, NamesAreRecorded, HashMovesOn, CacheMovesOn,
              PageMovesOn, RunsWhatItKeeps, Passed, Fresh, KeptAt, NamesIt, NamesElse,
              NoBody
<1>3. ASSUME NEW b \in Browsers, Request(b) PROVE IslandInv' /\ NoneOlder
  BY <1>3, RequestKeeps, NothingRun DEF Request
<1>4. ASSUME NEW b \in Browsers, Render(b) PROVE IslandInv' /\ NoneOlder
  BY <1>4, RenderKeeps, NothingRun DEF Render
<1>5. ASSUME NEW b \in Browsers, RenderFails(b) PROVE IslandInv' /\ NoneOlder
  <2>1. /\ UNCHANGED <<disk, edits, savedAt, islandHash, recordedAt, cache,
                       httpCache, islandSeen>>
        /\ \A c \in Browsers : page'[c] = IF c = b THEN Failed ELSE page[c]
    BY <1>5 DEF RenderFails, Show, TypeOK, fileVars, hashVars
  <2> QED BY <2>1, NothingRun
          DEF IslandInv, DiskIsNewest, NamesAreRecorded, HashMovesOn, CacheMovesOn,
              PageMovesOn, RunsWhatItKeeps, Passed, Fresh, KeptAt, NamesIt, NamesElse,
              Failed
<1>6. ASSUME NEW b \in Browsers, FetchIsland(b) PROVE IslandInv' /\ NoneOlder
  BY <1>6, FetchKeeps
<1>7. ASSUME NEW b \in Browsers, ReuseIsland(b) PROVE IslandInv' /\ NoneOlder
  BY <1>7, ReuseKeeps
<1>8. CASE \/ Collect
           \/ \E b \in Browsers : Connect(b) \/ Drop(b)
           \/ UNCHANGED vars
  <2>1. UNCHANGED <<disk, edits, savedAt, islandHash, recordedAt, cache, page,
                    httpCache, islandSeen>>
    BY <1>8 DEF Collect, Connect, Drop, vars, fileVars, hashVars, browserVars
  <2> QED BY <2>1, NothingRun
          DEF IslandInv, DiskIsNewest, NamesAreRecorded, HashMovesOn, CacheMovesOn,
              PageMovesOn, RunsWhatItKeeps, Passed, Fresh, KeptAt, NamesIt, NamesElse
<1> QED BY <1>1, <1>2, <1>3, <1>4, <1>5, <1>6, <1>7, <1>8 DEF Next

\* No browser runs an island that was saved before the one it ran last, except
\* under a URL whose content was saved again after the URL was made; for any
\* number of browsers, contents and edits, reverts among them, and whatever the
\* mix of cached pages, hashed URLs marked immutable and plain URLs.
THEOREM IslandsGetNewer == Spec => IslandNeverOlder
<1>1. Init => IslandInv
  BY HotReloadAssumption
     DEF Init, IslandInv, DiskIsNewest, NamesAreRecorded, HashMovesOn, CacheMovesOn,
         PageMovesOn, RunsWhatItKeeps, Fresh, KeptAt, NamesIt, NamesElse,
         NoBody, None, Files, Versions, MaybeVersion
<1>2. TypeOK /\ IslandInv /\ [Next]_vars => IslandInv'
  BY IslandStep
<1>3. TypeOK /\ IslandInv /\ [Next]_vars
        => [\A b \in Browsers :
              \/ savedAt[islandSeen'[b]] >= savedAt[islandSeen[b]]
              \/ SavedAgain(page[b].island)]_vars
  BY IslandStep DEF NoneOlder
<1> QED BY <1>1, <1>2, <1>3, HotReloadTypeCorrect, PTL DEF Spec, IslandNeverOlder
=============================================================================
