----------------------------- MODULE WebRequest -----------------------------
(***************************************************************************)
(* The life of a request in a taiyaki-web application                      *)
(* (packages/taiyaki-web/taiyaki_web/{app,sessions,csrf,middleware,        *)
(* context,cache,pool,runtime,groups}.py): the signed session cookie, the  *)
(* CSRF check, the loader or action, the render on a pooled JavaScript     *)
(* runtime, the response cache, and the browsers that keep cookies, tokens *)
(* and pages while several of their requests are under way.                *)
(*                                                                         *)
(* The server is one asyncio thread.  A request is suspended while its     *)
(* body is read and while its loader or action runs; a render blocks the   *)
(* event loop, so a runtime is back in the pool before anything else runs, *)
(* and the pool's queue is the runtimes made so far.                       *)
(*                                                                         *)
(* A flash message is the request that flashed it, and a CSRF token the    *)
(* request it was made for.  A session holds a token (None: not yet) and   *)
(* flash messages (none: no "_flash" key).                                 *)
(***************************************************************************)
EXTENDS Naturals, FiniteSets, SequencesExt

CONSTANTS Browsers,
          Requests,    \* bound: those of each browser, each sent once
          Visits,      \* the routes each browser asks for
          Routes,      \* [method, handler, form, component, layout, group, cache,
                       \*  stream]; form: the token is in the body
          Behaviours,  \* what the loader or action of a route may do
          Stack,       \* middleware, in the order of the use() calls
          Fate,        \* of each component, what its source does
          Given,       \* components given to load_component, without a file
          GlobalLayout, ErrorComponent, NotFound,
          PoolSize, DevMode,
          MaxEntries,  \* of the response cache
          MaxEvents    \* bound: expiries of a cookie, edits, failed installations

None == 0
Components == DOMAIN Fate
AllRequests == UNION {Requests[b] : b \in Browsers}

\* The calls a loader or action can make that matter here.
HandlerCalls == {<<"flash">>, <<"show">>, <<"redirect">>, <<"raise">>}
                \cup ({"island"} \X Components)

ASSUME WebAssumption ==
  /\ \A c \in Components :
       Fate[c] \in {"fine", "untranspilable", "unloadable", "throws"}
  /\ \A c \in Given : Fate[c] = "fine"
  /\ \A route \in Routes : Behaviours[route] \subseteq Seq(HandlerCalls)
  \* A request flashes once at most: a message is known by its request.
  /\ \A route \in Routes : \A ops \in Behaviours[route] : \A i, j \in DOMAIN ops :
       ops[i] = <<"flash">> /\ ops[j] = <<"flash">> => i = j
  /\ \A b \in Browsers : Requests[b] \subseteq Nat \ {0}
  /\ PoolSize \in Nat \ {0}
  /\ MaxEntries \in Nat \ {0} /\ MaxEvents \in Nat

VARIABLES
  jar,     \* each browser's session cookie: the session it holds
  tabs,    \* the pages it shows
  overlap, \* how its requests have met: never two at a time, two with a
           \* cookie each, or one sent without while another was under way
  copy,    \* the page it keeps of each route, with its ETag
  life,    \* how often its cookie has expired
  req,     \* the requests
  cache,   \* the response cache, least recently used first
  js,      \* components and runtimes
  edits    \* changes the watcher has reported

browserVars == <<jar, tabs, copy>>
vars == <<browserVars, overlap, life, req, cache, js, edits>>

Empty   == [token |-> None, flash |-> <<>>]
NoBody  == [kind |-> "none", token |-> None, shown |-> <<>>]
Overlay == [kind |-> "overlay", token |-> None, shown |-> <<>>]
NoPage  == [token |-> None, own |-> FALSE, life |-> 0]  \* or one without a form

Unsent == [at |-> "unsent", b |-> None, route |-> None, from |-> NoPage,
           etag |-> NoBody, life |-> 0, session |-> Empty, modified |-> FALSE,
           popped |-> <<>>, flashed |-> FALSE, onto |-> FALSE,
           redirects |-> FALSE, raised |-> FALSE, missing |-> {},
           status |-> "none", sets |-> FALSE, body |-> NoBody, cached |-> FALSE]

Pooled == PoolSize > 1

Init ==
  /\ jar = [b \in Browsers |-> Empty]
  /\ tabs = [b \in Browsers |-> {}]
  /\ overlap = [b \in Browsers |-> "none"]
  /\ copy = [b \in Browsers |-> [route \in Routes |-> NoBody]]
  /\ life = [b \in Browsers |-> 0]
  /\ req = [r \in AllRequests |-> Unsent]
  /\ cache = <<>> /\ edits = 0
  /\ js = [loaded |-> Given, stored |-> IF Pooled THEN Given ELSE {},
           initialized |-> ~Pooled, outages |-> 0,
           queue |-> IF Pooled THEN <<>> ELSE <<Given>>]

-----------------------------------------------------------------------------
(* Components and runtimes.  A step of a render takes [js, failed, missing] *)
(* to the next one; a step that raises ends it.                             *)

\* JsRuntime.load_component_js on every runtime made so far.
RegisterOnAll(queue, c) == [i \in DOMAIN queue |-> queue[i] \cup {c}]

Store(j, c) == IF Pooled THEN j.stored \cup {c} ELSE j.stored

\* load_component_file: transpile, keep for later runtimes, register on those
\* there are; only then is it a loaded component.
LoadFile(s, c) ==
  IF Fate[c] = "untranspilable" THEN [s EXCEPT !.failed = TRUE]
  ELSE IF Fate[c] = "unloadable" /\ s.js.queue # <<>>
  THEN [s EXCEPT !.failed = TRUE, !.js.stored = Store(s.js, c)]
  ELSE [s EXCEPT !.js.stored = Store(s.js, c),
                 !.js.queue = RegisterOnAll(@, c),
                 !.js.loaded = @ \cup {c}]

EnsureComponent(s, c) ==
  IF c \in s.js.loaded \/ c \in Given THEN s ELSE LoadFile(s, c)

\* RuntimePool.initialize: installing dependencies may fail after some of the
\* runtimes are made, and every stored component must load on each.
Initialize(s, made) ==
  LET loads == \A c \in s.js.stored : Fate[c] # "unloadable"
      n == IF loads THEN made ELSE 0
  IN [s EXCEPT !.js.queue = @ \o [i \in 1..n |-> s.js.stored],
               !.js.initialized = (n = PoolSize),
               !.js.outages = IF made < PoolSize THEN @ + 1 ELSE @,
               !.failed = (n < PoolSize)]

Acquire(s, made) == IF s.js.initialized THEN s ELSE Initialize(s, made)

\* __taiyakiRender and __taiyakiRenderWithLayout, on the runtime in hand.
RenderOn(s, c) ==
  IF c \notin Head(s.js.queue)
  THEN [s EXCEPT !.failed = TRUE, !.missing = {c}]
  ELSE [s EXCEPT !.failed = (Fate[c] = "throws")]

\* The component, on a runtime taken from the pool.
RenderBody(s, c, made) ==
  LET t == Acquire(s, made) IN IF t.failed THEN t ELSE RenderOn(t, c)

\* A layout is ensured with the runtime in hand.
RenderLayout(s, l) ==
  IF l = None \/ s.failed THEN s
  ELSE LET t == EnsureComponent(s, l) IN IF t.failed THEN t ELSE RenderOn(t, l)

\* _apply_layouts: from the innermost outwards.
ApplyLayouts(s, l) == RenderLayout(RenderLayout(RenderLayout(s, l.route), l.group), l.global)

\* release(): the runtime in hand goes to the end of the queue.
Release(s) == IF s.js.initialized
              THEN [s EXCEPT !.js.queue = Append(Tail(@), Head(@))] ELSE s

\* RouteGroup.group: a group without a layout has that of the one around it.
GroupLayout(group) ==
  FoldLeft(LAMBDA outer, l : IF l = None THEN outer ELSE l, None, group)
LayoutsOf(route) ==
  [route |-> route.layout, group |-> GroupLayout(route.group), global |-> GlobalLayout]
NoLayouts == [route |-> None, group |-> None, global |-> None]

\* How many runtimes an initialisation may come to before one fails.
Events   == edits + js.outages + FoldFunction(+, 0, life)
MayMake  == IF Events < MaxEvents THEN 0..PoolSize ELSE {PoolSize}

Start == [js |-> js, failed |-> FALSE, missing |-> {}]

RenderChain(s, c, layouts, made) ==
  LET t == EnsureComponent(s, c)
  IN IF t.failed THEN t ELSE Release(ApplyLayouts(RenderBody(t, c, made), layouts))

-----------------------------------------------------------------------------
(* Sessions: _TrackedDict notes a change made through its own methods, and  *)
(* the cookie is written with the start of the response if there was one.   *)

HasToken(q) == q.session.token # None

\* Mutant: the token is put past the tracking.
MintUntracked(q, r) == [q EXCEPT !.session.token = r]

MintToken(q, r) == [q EXCEPT !.session.token = r, !.modified = TRUE]

\* Context.flash: setdefault notes a new list; an append to one that is
\* already there goes unnoticed.
Flash(q, r) ==
  [q EXCEPT !.flashed = TRUE,
            !.onto = (q.session.flash # <<>>),
            !.modified = @ \/ q.session.flash = <<>>,
            !.session.flash = Append(@, r)]

\* Mutant: reading the messages is no change.
PopUntracked(q) == [q EXCEPT !.popped = @ \o q.session.flash, !.session.flash = <<>>]

\* Context.get_flashed_messages
PopFlash(q) == [q EXCEPT !.popped = @ \o q.session.flash, !.session.flash = <<>>,
                         !.modified = TRUE]

\* use(): the first middleware added is the outermost.
Outside(a, b) == \E i, j \in DOMAIN Stack : i < j /\ Stack[i] = a /\ Stack[j] = b
Uses(m) == \E i \in DOMAIN Stack : Stack[i] = m

\* What one call of a loader or action does to the request.  Where there is no
\* SessionMiddleware each call of session() makes a dictionary that nobody keeps.
Do(q, r, op) ==
  CASE op[1] = "flash" /\ Uses("sessions") -> Flash(q, r)
    [] op[1] = "show" /\ Uses("sessions")  -> PopFlash(q)
    [] op[1] = "redirect" -> [q EXCEPT !.redirects = TRUE]
    [] op[1] = "raise"    -> [q EXCEPT !.raised = TRUE]
    [] OTHER -> q

\* A response that passes SessionMiddleware's send.
Reply(q, status, body) ==
  [q EXCEPT !.at = "replied", !.status = status, !.body = body,
            !.sets = Uses("sessions") /\ q.modified]

\* The answer of a middleware or server outside of it.
ReplyBare(q, status) == [Reply(q, status, NoBody) EXCEPT !.sets = FALSE]

\* _get_csrf_token
PageToken(q) == IF Uses("sessions") THEN q.session.token ELSE None

-----------------------------------------------------------------------------
(* The middleware, up to the handler *)

Safe(q) == q.route.method = "GET"

Refused(q) == IF Outside("sessions", "csrf") THEN Reply(q, "403", NoBody)
              ELSE ReplyBare(q, "403")

\* The comparison with the token of the session; without a session around it
\* the middleware has just made one up.
Checked(q) ==
  IF Outside("sessions", "csrf") /\ q.from.token = q.session.token
  THEN [q EXCEPT !.at = "loader"] ELSE Refused(q)

\* SessionMiddleware and CSRFMiddleware; a form's token is in its body, which
\* is awaited first.
Enter(q, r, cookie) ==
  LET session == [q EXCEPT !.session = IF Uses("sessions") THEN cookie ELSE Empty]
      entered == IF Outside("sessions", "csrf") /\ ~HasToken(session)
                 THEN MintToken(session, r) ELSE session
  IN CASE ~Uses("csrf") \/ Safe(q) -> [entered EXCEPT !.at = "loader"]
       [] Uses("csrf") /\ ~Safe(q) /\ q.route.form -> [entered EXCEPT !.at = "body"]
       [] Uses("csrf") /\ ~Safe(q) /\ ~q.route.form -> Checked(entered)

-----------------------------------------------------------------------------
(* The response cache: one entry per path and query, here per route *)

EntryOf(route) == {i \in DOMAIN cache : cache[i].route = route}
Without(entries, route) == SelectSeq(entries, LAMBDA e : e.route # route)

\* put: a new entry is the most recently used; the oldest ones make room.
Put(route, body) ==
  LET entries == Append(Without(cache, route), [route |-> route, body |-> body])
  IN SubSeq(entries, IF Len(entries) > MaxEntries THEN 2 ELSE 1, Len(entries))

\* get: an expired entry is deleted, any other becomes the most recently used.
Get(route, expired) ==
  IF expired THEN Without(cache, route)
  ELSE Without(cache, route) \o SelectSeq(cache, LAMBDA e : e.route = route)

\* The page handler with an entry: 304 if the browser has that body.
FromCache(q, body) ==
  IF q.etag = body THEN [Reply(q, "304", NoBody) EXCEPT !.cached = TRUE]
  ELSE [Reply(q, "200", body) EXCEPT !.cached = TRUE]

-----------------------------------------------------------------------------
(* Handlers: [q, js, body], the request, the runtimes and the body to cache *)

Answer(q, status, body, s) ==
  [q |-> [Reply(q, status, body) EXCEPT !.missing = s.missing],
   js |-> s.js, body |-> body]

\* An exception leaves the application: Starlette answers with _handle_500
\* and raises it again; if that fails too it is left to Recover, or to the
\* server outside of all middleware.
Error(q, s, made) ==
  LET e == RenderChain([s EXCEPT !.failed = FALSE], ErrorComponent, NoLayouts, made)
      answer == Answer(q, "500", NoBody, e)
  IN IF ErrorComponent = None THEN Answer(q, "500", NoBody, s)
     ELSE IF ~e.failed \/ Outside("sessions", "recover") THEN answer
     ELSE [answer EXCEPT !.q.sets = FALSE]

\* _build_page: what the loader read is in the props, the token in the head.
Page(q) == [kind |-> "page", token |-> PageToken(q), shown |-> q.popped]

RenderRoute(q, s, made) ==
  RenderChain(s, q.route.component, LayoutsOf(q.route), made)

\* The overlay stands for what fails inside the try, so not for the
\* component's own file.
RenderPage(q, s, made) ==
  LET t == RenderRoute(q, s, made)
  IN CASE ~t.failed -> Answer(q, "200", Page(q), t)
       [] t.failed /\ DevMode /\ ~EnsureComponent(s, q.route.component).failed ->
            Answer(q, "500", Overlay, t)
       [] OTHER -> Error(q, t, made)

\* The page is rendered before the first chunk is sent.
RenderPageStreaming(q, s, made) ==
  LET t == RenderRoute(q, s, made)
  IN IF t.failed THEN Error(q, t, made) ELSE Answer(q, "200", Page(q), t)

HandlePage(q, s, made) ==
  CASE q.redirects -> Answer(q, "302", NoBody, s)
    [] ~q.redirects /\ q.route.stream  -> RenderPageStreaming(q, s, made)
    [] ~q.redirects /\ ~q.route.stream -> RenderPage(q, s, made)

HandleAction(q, s, made) ==
  CASE q.redirects -> Answer(q, "302", NoBody, s)
    [] ~q.redirects /\ q.route.component # None -> RenderPage(q, s, made)
    [] ~q.redirects /\ q.route.component = None -> Answer(q, "200", NoBody, s)

HandleApi(q, s) == Answer(q, IF q.redirects THEN "302" ELSE "200", NoBody, s)

\* _handle_404: a page without the framework's head.
Handle404(q, made) ==
  LET layouts == [NoLayouts EXCEPT !.global = GlobalLayout]
      s == RenderChain(Start, NotFound, layouts, made)
  IN CASE NotFound = None -> Answer(q, "404", NoBody, Start)
       [] NotFound # None /\ s.failed -> Error(q, s, made)
       [] OTHER -> Answer(q, "404", [NoBody EXCEPT !.kind = "page"], s)

\* island(), partial() and render(), called by a loader or action.
CallRender(s, op, made) ==
  IF op[1] = "island" /\ ~s.failed THEN RenderChain(s, op[2], NoLayouts, made) ELSE s

\* The loader or action makes its calls, up to one that raises.
Call(t, r, op, made) ==
  LET s == CallRender(t.s, op, made)
  IN IF t.q.raised THEN t
     ELSE [q |-> IF s.failed THEN [t.q EXCEPT !.raised = TRUE] ELSE Do(t.q, r, op),
           s |-> s]

Calls(r, ops, made) ==
  FoldLeft(LAMBDA t, op : Call(t, r, op, made), [q |-> req[r], s |-> Start], ops)

\* ... and the handler goes on.
Handle(q, s, made) ==
  CASE q.raised -> Error(q, s, made)
    [] ~q.raised /\ q.route.handler = "page"   -> HandlePage(q, s, made)
    [] ~q.raised /\ q.route.handler = "action" -> HandleAction(q, s, made)
    [] OTHER -> HandleApi(q, s)

-----------------------------------------------------------------------------
(* Steps *)

Flying(b) == {r \in AllRequests : req[r].at \notin {"unsent", "done"} /\ req[r].b = b}

\* What the router does with a request that has passed the middleware: no
\* route, an entry of the cache, or a loader or action to run.
Dispatch(r, q) ==
  \/ /\ q.at # "loader" \/ (q.route.handler # "none" /\ EntryOf(q.route) = {})
     /\ req' = [req EXCEPT ![r] = q]
     /\ UNCHANGED <<cache, js>>
  \/ /\ q.at = "loader" /\ q.route.handler = "none"
     /\ \E made \in MayMake :
          /\ req' = [req EXCEPT ![r] = Handle404(q, made).q]
          /\ js' = Handle404(q, made).js
     /\ UNCHANGED cache
  \/ /\ q.at = "loader" /\ q.route.handler # "none"
     /\ \E i \in EntryOf(q.route), expired \in BOOLEAN :
          /\ req' = [req EXCEPT ![r] = IF expired THEN q
                                       ELSE FromCache(q, cache[i].body)]
          /\ cache' = Get(q.route, expired)
     /\ UNCHANGED js

\* A link is followed or the form of a page submitted, with the page's token
\* in the header (htmx) or in the form; the request reaches the server.
Request(b, r, route, from) ==
  LET new == [Unsent EXCEPT !.at = "new", !.b = b, !.route = route, !.from = from,
                            !.etag = copy[b][route], !.life = life[b]]
      q == Enter(new, r, jar[b])
  IN
  /\ req[r].at = "unsent"
  /\ r \in Requests[b] /\ \A p \in Requests[b] : p < r => req[p].at # "unsent"
  /\ route \in Visits[b]
  /\ IF route.method = "GET" THEN from = NoPage ELSE from \in tabs[b]
  /\ Dispatch(r, q)
  /\ overlap' = [overlap EXCEPT ![b] =
       CASE Flying(b) = {} -> @
         [] Flying(b) # {} /\ jar[b] = Empty -> "raced"
         [] Flying(b) # {} /\ jar[b] # Empty -> IF @ = "none" THEN "kept" ELSE @]
  /\ UNCHANGED <<browserVars, life, edits>>

\* The body of a form is there, and is kept to be read again.
ReadBody(r) ==
  /\ req[r].at = "body"
  /\ Dispatch(r, Checked(req[r]))
  /\ UNCHANGED <<browserVars, overlap, life, edits>>

\* The loader or action has run, perhaps with awaits of its own, and the rest
\* of the handler runs at once, up to the start of the response.
Resume(r) ==
  /\ req[r].at = "loader"
  /\ \E ops \in Behaviours[req[r].route], made \in MayMake :
       LET t == Calls(r, ops, made)
           q == t.q
           done == Handle(q, t.s, made)
       IN /\ req' = [req EXCEPT ![r] = done.q]
          /\ js' = done.js
          /\ cache' = IF q.route.cache /\ ~q.route.stream /\ done.body # NoBody
                      THEN Put(q.route, done.body) ELSE cache
  /\ UNCHANGED <<browserVars, overlap, life, edits>>

\* The page with a form that an answer shows, in a tab of its own.
Shows(q) ==
  LET token == IF q.status = "304" THEN q.etag.token ELSE q.body.token
  IN IF token = None THEN {}
     ELSE {[token |-> token, own |-> ~q.cached, life |-> q.life]}

\* What the properties need of a request once it is answered.
Answered(q) ==
  [Unsent EXCEPT !.at = "done", !.popped = q.popped, !.flashed = q.flashed,
                 !.onto = q.onto, !.missing = q.missing,
                 !.status = IF q.status \in {"403", "500"} THEN q.status ELSE "200",
                 !.b = q.b, !.life = q.life,
                 !.from = IF q.status = "403" THEN q.from ELSE NoPage]

\* The browser gets the answer.
Receive(r) ==
  LET q == req[r] IN
  /\ q.at = "replied"
  /\ jar' = IF q.sets THEN [jar EXCEPT ![q.b] = q.session] ELSE jar
  /\ tabs' = [tabs EXCEPT ![q.b] = @ \cup Shows(q)]
  /\ copy' = IF q.status = "200" /\ q.route.cache /\ ~q.route.stream
             THEN [copy EXCEPT ![q.b][q.route] = q.body] ELSE copy
  /\ req' = [req EXCEPT ![r] = Answered(q)]
  /\ UNCHANGED <<overlap, life, cache, js, edits>>

\* The cookie is past its _exp and its Max-Age: no later request has a session.
Expire(b) ==
  /\ Events < MaxEvents /\ jar[b] # Empty
  /\ life' = [life EXCEPT ![b] = @ + 1]
  /\ jar' = [jar EXCEPT ![b] = Empty]
  /\ UNCHANGED <<tabs, copy, overlap, req, cache, js, edits>>

\* Mutant: the names stay in _loaded_components.
ForgetRegistered(j) == [j EXCEPT !.stored = {},
                                 !.queue = [i \in DOMAIN @ |-> {}]]

\* _invalidate_components: the names, what the pool stores, and what each
\* runtime has registered.
Forget(j) == [j EXCEPT !.loaded = {}, !.stored = {},
                       !.queue = [i \in DOMAIN @ |-> {}]]

\* The watcher reports a change in the component directories.
Change ==
  /\ DevMode /\ Events < MaxEvents
  /\ edits' = edits + 1
  /\ js' = Forget(js)
  /\ cache' = <<>>
  /\ UNCHANGED <<browserVars, overlap, life, req>>

Finished == /\ \A r \in AllRequests : req[r].at = "done"
            /\ UNCHANGED vars

Next ==
  \/ \E b \in Browsers, r \in AllRequests, route \in Routes :
       \E from \in tabs[b] \cup {NoPage} : Request(b, r, route, from)
  \/ \E r \in AllRequests : ReadBody(r) \/ Resume(r) \/ Receive(r)
  \/ \E b \in Browsers : Expire(b)
  \/ Change
  \/ Finished

Spec == Init /\ [][Next]_vars

-----------------------------------------------------------------------------
(* Properties *)

\* A browser is never refused for the token of a page it was shown: however
\* its requests and those of others interleave, over all its tabs, the token
\* of the page and the one in its cookie are the same; unless the page was
\* the cached one of another session, the cookie has expired since, or the
\* browser sent a request before the answer that gave it its cookie
\* (CSRFMiddleware, _page_chrome, SessionMiddleware).
OwnPageIsNeverRefused ==
  \A r \in AllRequests :
    req[r].status = "403" /\ Outside("sessions", "csrf")
      => \/ ~req[r].from.own \/ req[r].from.life # req[r].life
         \/ overlap[req[r].b] = "raced"

ReadBy(b, m) == {r \in AllRequests : req[r].at \in {"replied", "done"} /\ req[r].b = b
                                  /\ m \in Range(req[r].popped)}

\* Of a browser that waits for each answer, a flashed message is read by one
\* request at most, of those that did not fail, and is not lost: when all is
\* answered it is in the cookie or was read.  Not so for a message flashed
\* while others were pending, which flash() appends unnoticed, for one
\* flashed by a request that failed, and for one whose cookie has expired.
FlashIsReadOnce ==
  \A r \in AllRequests :
    req[r].flashed /\ overlap[req[r].b] = "none" =>
      LET b == req[r].b IN
      /\ Cardinality({q \in ReadBy(b, r) : req[q].status # "500"}) <= 1
      /\ \/ Flying(b) # {} \/ req[r].onto \/ req[r].status = "500"
         \/ req[r].life # life[b]
         \/ r \in Range(jar[b].flash) \/ ReadBy(b, r) # {}

\* No render finds a component "not registered": whatever edits, first
\* requests and failed initialisations fall between, what counts as loaded is
\* registered on the runtime that comes out of the pool.  A component given
\* as source is the exception: an edit forgets it for good (_ensure_component).
NeverMissing ==
  \A r \in AllRequests : req[r].missing \subseteq (IF DevMode THEN Given ELSE {})
=============================================================================
