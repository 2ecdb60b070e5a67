------------------------------ MODULE HotReload ------------------------------
(***************************************************************************)
(* Hot reload in taiyaki-web's development mode: one cached page route,    *)
(* its server-rendered component, the island it hydrates, and browsers     *)
(* that hold a page open while the two files are edited                    *)
(* (packages/taiyaki-web/taiyaki_web/{app,runtime,dev,cache}.py).          *)
(*                                                                         *)
(* Four copies of the component exist besides the file: the module source  *)
(* registered with the engine, the module the engine has loaded, the entry *)
(* of globalThis.__taiyakiComponents, and the HTML in the response cache.  *)
(* The island has a copy in every browser's HTTP cache, under the hash the *)
(* page named it by.  The server is one asyncio thread; a page handler is  *)
(* suspended only while its loader runs, and renders, and fills the cache, *)
(* without suspending again.                                               *)
(*                                                                         *)
(* A file's content is a version; content_hash depends on the content      *)
(* alone and is injective, so a hash is a version too, and a file saved    *)
(* back to what it was has the hash it had.  Where a version is missing    *)
(* stands None.                                                            *)
(***************************************************************************)
EXTENDS Naturals

CONSTANTS Browsers,
          MaxEdits,   \* bound: edits of the two files together
          Contents,   \* number of contents a file may have
          Broken      \* versions that transform_jsx rejects

Versions == 1..Contents
None     == 0
Files    == {"page", "island"}

ASSUME HotReloadAssumption == /\ MaxEdits \in Nat
                              /\ Contents \in Nat \ {0}
                              /\ Broken \subseteq Versions

VARIABLES
  disk,        \* the version of each file
  edits,       \* the edits so far
  savedAt,     \* which of them last saved this content of the island
  changed,     \* an edit watchfiles has not collected yet
  batch,       \* a batch of changes on its way to _watch_loop
  loaded,      \* the component is in _loaded_components
  source,      \* the engine's registered module source
  module,      \* the module the engine has loaded under that name
  registry,    \* the component in __taiyakiComponents
  cache,       \* the route's entry in the response cache
  islandHash,  \* _island_hashes of the island
  recordedAt,  \* savedAt of each content when its hash was first recorded
  tab,         \* what each browser is doing
  page,        \* the page it got last
  sse,         \* it has a queue in DevReloader._clients
  notified,    \* that queue holds a reload
  httpCache,   \* island content each browser keeps, per hashed URL
  islandSeen   \* the island each browser ran last

fileVars    == <<disk, edits, savedAt, changed, batch>>
hashVars    == <<islandHash, recordedAt>>
engineVars  == <<loaded, source, module, registry>>
browserVars == <<tab, page, sse, notified, httpCache, islandSeen>>
vars == <<fileVars, engineVars, cache, hashVars, browserVars>>

MaybeVersion == Versions \cup {None}

\* A response body: a rendered page that names the island by a hash (None: by
\* its plain URL), the error overlay, or an error page.
Bodies == [kind : {"page", "overlay", "error"},
           html : MaybeVersion, island : MaybeVersion]
NoBody  == [kind |-> "none", html |-> None, island |-> None]
Overlay == [kind |-> "overlay", html |-> None, island |-> None]
Failed  == [kind |-> "error", html |-> None, island |-> None]

TypeOK ==
  /\ disk \in [Files -> Versions]
  /\ edits \in Nat
  /\ savedAt \in [MaybeVersion -> Nat] /\ recordedAt \in [MaybeVersion -> Nat]
  /\ changed \in BOOLEAN /\ batch \in BOOLEAN
  /\ loaded \in BOOLEAN
  /\ {source, module, registry, islandHash} \subseteq MaybeVersion
  /\ cache \in Bodies \cup {NoBody}
  /\ tab \in [Browsers -> {"blank", "loading", "shown"}]
  /\ page \in [Browsers -> Bodies \cup {NoBody}]
  /\ sse \in [Browsers -> BOOLEAN] /\ notified \in [Browsers -> BOOLEAN]
  /\ httpCache \in [Browsers -> [Versions -> MaybeVersion]]
  /\ islandSeen \in [Browsers -> MaybeVersion]

Init ==
  /\ disk = [f \in Files |-> 1]
  /\ edits = 0
  /\ savedAt = [v \in MaybeVersion |-> IF v = 1 THEN 1 ELSE 0]
  /\ recordedAt = [v \in MaybeVersion |-> 0]
  /\ changed = FALSE /\ batch = FALSE
  /\ loaded = FALSE
  /\ source = None /\ module = None /\ registry = None
  /\ cache = NoBody
  /\ islandHash = None
  /\ tab = [b \in Browsers |-> "blank"]
  /\ page = [b \in Browsers |-> NoBody]
  /\ sse = [b \in Browsers |-> FALSE]
  /\ notified = [b \in Browsers |-> FALSE]
  /\ httpCache = [b \in Browsers |-> [h \in Versions |-> None]]
  /\ islandSeen = [b \in Browsers |-> None]

-----------------------------------------------------------------------------
(* Files and the watcher *)

\* The developer saves a file, with new content or with some it had before.
Edit(f) ==
  /\ edits < MaxEdits
  /\ edits' = edits + 1
  /\ \E v \in Versions \ {disk[f]} :
       /\ disk' = [disk EXCEPT ![f] = v]
       /\ savedAt' = IF f = "island" THEN [savedAt EXCEPT ![v] = edits' + 1]
                                     ELSE savedAt
  /\ changed' = TRUE
  /\ UNCHANGED <<batch, engineVars, cache, hashVars, browserVars>>

\* watchfiles hands the edits so far to the loop as one set of changes.
Collect ==
  /\ changed /\ ~batch
  /\ changed' = FALSE
  /\ batch' = TRUE
  /\ UNCHANGED <<disk, edits, savedAt, engineVars, cache, hashVars, browserVars>>

\* Mutant: the cached pages are forgotten.
KeepCache == loaded' = FALSE /\ registry' = None /\ UNCHANGED cache

\* Mutant: the names stay in _loaded_components.
KeepLoaded == registry' = None /\ cache' = NoBody /\ UNCHANGED loaded

\* _invalidate_components: the JavaScript registry and the Python set are
\* emptied, and the response cache; the engine's modules are not touched.
Invalidate ==
  /\ loaded' = FALSE
  /\ registry' = None
  /\ cache' = NoBody

\* Mutant: only a browser that never got a reload is told.
NotifyOnce == notified' = [b \in Browsers |-> sse[b] /\ islandSeen[b] = None]

\* Every connected client gets a reload; put() on an unbounded queue does not
\* suspend, so the loop over the clients is one step with the invalidation.
NotifyAll == notified' = [b \in Browsers |-> sse[b]]

\* One round of _watch_loop.
Deliver ==
  /\ batch
  /\ batch' = FALSE
  /\ Invalidate
  /\ NotifyAll
  /\ UNCHANGED <<disk, edits, savedAt, changed, source, module, hashVars,
                 tab, page, sse, httpCache, islandSeen>>

-----------------------------------------------------------------------------
(* Page requests *)

Show(b, body) == /\ tab' = [tab EXCEPT ![b] = "shown"]
                 /\ page' = [page EXCEPT ![b] = body]

\* Leaving a page closes its EventSource, and its queue is removed.
Disconnect(b) == /\ sse' = [sse EXCEPT ![b] = FALSE]
                 /\ notified' = [notified EXCEPT ![b] = FALSE]

\* A GET (the first one, a user's reload, or location.reload): served from
\* the cache, or the loader starts and the handler suspends.
Request(b) ==
  /\ tab[b] \in {"blank", "shown"}
  /\ Disconnect(b)
  /\ IF cache # NoBody
     THEN Show(b, cache)
     ELSE tab' = [tab EXCEPT ![b] = "loading"] /\ UNCHANGED page
  /\ UNCHANGED <<fileVars, engineVars, cache, hashVars,
                 httpCache, islandSeen>>

\* load_component_js: register the new source, then import the name.  The
\* engine looks among its loaded modules first, so what the import yields is
\* the module loaded the first time.
LoadComponent ==
  /\ source' = disk["page"]
  /\ module' = IF module = None THEN source' ELSE module
  /\ registry' = module'
  /\ loaded' = TRUE

\* _ensure_component
EnsureComponent == IF loaded THEN UNCHANGED engineVars ELSE LoadComponent

Rendered == [kind |-> "page", html |-> registry', island |-> islandHash]

\* The loader is done: load the component if needed, render, and put what
\* came out into the cache.  If the component throws on these props the
\* overlay, an HTMLResponse too, is what is cached.
Render(b) ==
  /\ tab[b] = "loading"
  /\ loaded \/ disk["page"] \notin Broken
  /\ EnsureComponent
  /\ \E body \in {Rendered, Overlay} : cache' = body /\ Show(b, body)
  /\ UNCHANGED <<fileVars, hashVars, sse, notified, httpCache, islandSeen>>

\* transform_jsx rejects the file: the exception passes _render_page's try
\* and nothing is registered or cached.
RenderFails(b) ==
  /\ tab[b] = "loading"
  /\ ~loaded /\ disk["page"] \in Broken
  /\ Show(b, Failed)
  /\ UNCHANGED <<fileVars, engineVars, cache, hashVars, sse, notified,
                 httpCache, islandSeen>>

\* The entry expires, or the entries of other paths push it out.
Evict ==
  /\ cache # NoBody
  /\ cache' = NoBody
  /\ UNCHANGED <<fileVars, engineVars, hashVars, browserVars>>

-----------------------------------------------------------------------------
(* Islands and the reload channel of a page *)

Runs(b) == tab[b] = "shown" /\ page[b].kind = "page"

\* The browser keeps content for the URL this page names the island by.
Keeps(b) == page[b].island # None /\ httpCache[b][page[b].island] # None

\* Mutant: the hash of the requested URL is recorded.
RecordRequested(url) ==
  islandHash' = IF url = None THEN disk["island"] ELSE url

\* In dev mode each request transpiles the file anew and records its hash.
RecordHash(url) == islandHash' = disk["island"]

\* History: the save whose content a hash was first recorded for.
NoteRecord ==
  recordedAt' = [recordedAt EXCEPT ![islandHash'] =
                   IF @ = 0 THEN savedAt[islandHash'] ELSE @]

\* The page's script asks the server for its island.  Content served under a
\* hashed URL may be kept for a year; the plain URL is asked for every time.
FetchIsland(b) ==
  LET url == page[b].island IN
  /\ Runs(b) /\ ~Keeps(b)
  /\ disk["island"] \notin Broken
  /\ RecordHash(url) /\ NoteRecord
  /\ islandSeen' = [islandSeen EXCEPT ![b] = disk["island"]]
  /\ httpCache' = IF url = None THEN httpCache
                  ELSE [httpCache EXCEPT ![b][url] = disk["island"]]
  /\ UNCHANGED <<fileVars, engineVars, cache, tab, page, sse, notified>>

\* The browser has the URL: the server is not asked.
ReuseIsland(b) ==
  /\ Runs(b) /\ Keeps(b)
  /\ islandSeen' = [islandSeen EXCEPT ![b] = httpCache[b][page[b].island]]
  /\ UNCHANGED <<fileVars, engineVars, cache, hashVars,
                 tab, page, sse, notified, httpCache>>

\* The page's EventSource connects, or connects again after a drop.
Connect(b) ==
  /\ Runs(b) /\ ~sse[b]
  /\ sse' = [sse EXCEPT ![b] = TRUE]
  /\ UNCHANGED <<fileVars, engineVars, cache, hashVars,
                 tab, page, notified, httpCache, islandSeen>>

\* The connection drops; what was queued for it is gone.
Drop(b) ==
  /\ sse[b]
  /\ Disconnect(b)
  /\ UNCHANGED <<fileVars, engineVars, cache, hashVars,
                 tab, page, httpCache, islandSeen>>

-----------------------------------------------------------------------------
Next ==
  \/ \E f \in Files : Edit(f)
  \/ Collect \/ Deliver \/ Evict
  \/ \E b \in Browsers : \/ Request(b) \/ Render(b) \/ RenderFails(b)
                         \/ FetchIsland(b) \/ ReuseIsland(b)
                         \/ Connect(b) \/ Drop(b)

\* The watcher thread and its asyncio task run; browsers owe nothing.
Fairness == WF_vars(Collect) /\ WF_vars(Deliver)

Spec == Init /\ [][Next]_vars /\ Fairness

-----------------------------------------------------------------------------
(* Properties *)

\* A component that counts as loaded can be rendered, and one that does not
\* will be loaded again: however invalidations fall between the loader and
\* the render of other requests, _loaded_components and the JavaScript
\* registry agree.
LoadedIsRenderable == loaded <=> registry # None

\* A cached page is one rendered from what is registered now: no render that
\* began before an invalidation fills the cache after it.
CacheIsCurrent ==
  cache.kind = "page" => loaded /\ cache.html = registry

\* The island was saved back to the content of hash h after the hash had been
\* recorded: what a browser keeps under it, for good, may be another content.
SavedAgain(h) == recordedAt[h] # 0 /\ recordedAt[h] # savedAt[h]

\* A browser runs an island that was saved earlier than the one it ran before
\* only under a URL whose content was saved again after the URL was made.
\* Whatever else becomes of the file, cached pages, pages that linger, hashed
\* URLs and the browser's own HTTP cache bring back no older island
\* (_island_file_app, _page_chrome).
IslandNeverOlder ==
  [][\A b \in Browsers :
       \/ savedAt[islandSeen'[b]] >= savedAt[islandSeen[b]]
       \/ SavedAgain(page[b].island)]_vars

\* An edit reaches every page that is connected: it is told to reload, unless
\* its connection ends first (_watch_loop).
EditReloadsConnected ==
  \A b \in Browsers : (changed /\ sse[b]) ~> (notified[b] \/ ~sse[b])
=============================================================================
