------------------------------ MODULE Routing ------------------------------
(***************************************************************************)
(* How a taiyaki-web application is put together and found again           *)
(* (packages/taiyaki-web/taiyaki_web/{app,groups,mcp,dev}.py): routes,     *)
(* groups, middleware and static directories are registered one call at a  *)
(* time; the ASGI application is built from them when it is first asked    *)
(* for, and kept; the MCP server makes its tools of the routes when it is  *)
(* constructed, and its client from the application at its first call.     *)
(*                                                                         *)
(* A path is a sequence of segments, without a slash at its end.  The text *)
(* of a segment is its words, the longest runs of letters and digits, with *)
(* one and the same separator between them; a parameter has its name for a *)
(* word, and no converter.  A value that a tool's caller gives is text put *)
(* into the path: the segments it is read as, which may be several, or an  *)
(* empty one; texts a URL reads in another way ("?", "#", "..") and braces *)
(* are not among them.  What a handler answers with, and the form in which *)
(* a tool hands that on, are left out: WebRequest models the first.        *)
(***************************************************************************)
EXTENDS Naturals, SequencesExt

CONSTANTS Paths,        \* paths that are registered
          GroupPaths,   \* prefixes groups are given
          Middleware,
          StaticPaths,  \* where directories are mounted
          Values,       \* what a tool's caller gives for a parameter
          DevMode,      \* the application reloads pages on edits
          HasIslands,   \* the islands directory exists
          MaxCalls      \* bound: registering calls

Literal(words) == [param |-> FALSE, words |-> words]
Param(name)    == [param |-> TRUE, words |-> <<name>>]
Empty          == Literal(<<>>)

ASSUME RoutingAssumption ==
  /\ \A p \in Paths \cup GroupPaths \cup StaticPaths :
       /\ p \in Seq(ToSet(p))
       /\ \A i \in DOMAIN p :
            p[i] # Empty /\ p[i] \in {Literal(p[i].words), Param(p[i].words[1])}
  /\ \A v \in Values : /\ v \in Seq(ToSet(v)) \ {<<>>}
                       /\ \A i \in DOMAIN v : v[i] = Literal(v[i].words)
  /\ DevMode \in BOOLEAN /\ HasIslands \in BOOLEAN
  /\ MaxCalls \in Nat

VARIABLES
  routes,   \* _routes, and _route_meta, which grows by the same calls
  groups,   \* the RouteGroups made
  mounts,   \* _static_mounts
  stack,    \* _middleware
  app,      \* _app
  tools,    \* of the MCP server, if there is one
  client,   \* the application its client was made with
  answer    \* what the last tool call came to

appVars == <<routes, groups, mounts, stack, app, tools, client, answer>>

Nil      == 0
NoApp     == [entries |-> <<>>, layers |-> <<"none">>]
NoServer  == [started |-> FALSE, list |-> <<>>]
NoAnswer  == [made |-> Nil, by |-> Nil, whole |-> FALSE]

AppInit ==
  /\ routes = <<>> /\ groups = <<>> /\ mounts = <<>> /\ stack = <<>>
  /\ app = NoApp
  /\ tools = NoServer /\ client = NoApp /\ answer = NoAnswer

-----------------------------------------------------------------------------
(* Registration.  Group Nil is the application itself.                     *)

MayCall == Len(routes) + Len(groups) + Len(mounts) + Len(stack) < MaxCalls

FullPath(g, path) == IF g = Nil THEN path ELSE groups[g].prefix \o path

AddRoute(route) == routes' = Append(routes, route)

\* A decorator of the application or of a group runs.  The ASGI application
\* stays as it is.  The group noted here is the one the call was made on; the
\* code hands it on for pages and actions only, for the sake of its layout.
Register(g, path, kind, method) ==
  /\ MayCall
  /\ AddRoute([path |-> FullPath(g, path), kind |-> kind, method |-> method,
               group |-> g])
  /\ UNCHANGED <<groups, mounts, stack, app, tools, client, answer>>

Get(g, path) == Register(g, path, "page", "GET")

\* post; put, delete and patch differ from it in the method's name.
Post(g, path) == Register(g, path, "action", "POST")

\* api_get and api_post; api_put, api_delete and api_patch are as the latter.
Api(g, path) == \E method \in {"GET", "POST"} : Register(g, path, "api", method)

\* Taiyaki.group or RouteGroup.group.
Group(g, prefix, middleware) ==
  LET outer == IF g = Nil THEN <<>> ELSE groups[g].middleware IN
  /\ MayCall
  /\ groups' = Append(groups, [prefix |-> FullPath(g, prefix),
                               middleware |-> outer \o middleware])
  /\ UNCHANGED <<routes, mounts, stack, app, tools, client, answer>>

\* Mutant: the built application stays.
KeepApp == UNCHANGED app

ResetApp == app' = NoApp

Use(mw) ==
  /\ MayCall
  /\ stack' = Append(stack, mw)
  /\ ResetApp
  /\ UNCHANGED <<routes, groups, mounts, tools, client, answer>>

Static(path) ==
  /\ MayCall
  /\ mounts' = Append(mounts, path)
  /\ ResetApp
  /\ UNCHANGED <<routes, groups, stack, tools, client, answer>>

-----------------------------------------------------------------------------
(* The ASGI application: entries tried in order, under layers of middleware, *)
(* the outermost first.                                                     *)

Taiyaki == Literal(<<"_taiyaki">>)
Reload  == <<Taiyaki, Literal(<<"reload">>)>>
Islands == <<Taiyaki, Literal(<<"islands">>)>>
Vendor  == <<Taiyaki>>

Entry(kind, path) == [path |-> path, kind |-> kind, method |-> "GET",
                      group |-> Nil]
If(condition, entry) == IF condition THEN <<entry>> ELSE <<>>

Mounted == [i \in DOMAIN mounts |-> Entry("static", mounts[i])]

\* What the framework serves itself.
Own == If(DevMode, Entry("reload", Reload))
       \o If(HasIslands, Entry("islands", Islands))
       \o <<Entry("vendor", Vendor)>>

\* Mutant: directories come before routes.
MountsFirst == Mounted \o routes \o Own

Entries == routes \o Mounted \o Own

\* The middleware used first is wrapped around the application last.
Wrapped == FoldRight(LAMBDA mw, layers : <<mw>> \o layers, stack, <<>>)

BuildApp == [entries |-> Entries, layers |-> Wrapped]

\* The property asgi.
Asgi == IF app = NoApp THEN BuildApp ELSE app

\* The application is run, or a static site is made of it.
Serve ==
  /\ app = NoApp
  /\ app' = Asgi
  /\ UNCHANGED <<routes, groups, mounts, stack, tools, client, answer>>

\* Starlette: a parameter takes one segment, whatever is in it, but no empty
\* one; a mount takes every path below it, and any method.
Handles(entry, method, path) ==
  IF entry.kind \in {"static", "islands", "vendor"}
  THEN IsPrefix(entry.path, path)
  ELSE /\ entry.method = method
       /\ Len(entry.path) = Len(path)
       /\ \A i \in DOMAIN path : \/ entry.path[i].param /\ path[i] # Empty
                                \/ path[i] = entry.path[i]

\* The entry that answers, Nil for a 404, a 405, or the redirect of a path that
\* ends in an empty segment, which the client does not follow.
Dispatch(a, method, path) ==
  SelectInSeq(a.entries, LAMBDA e : Handles(e, method, path))

-----------------------------------------------------------------------------
(* The MCP server                                                           *)

\* _path_to_slug: braces are dropped, and what lies between words is "_".
Slug(path) == FlattenSeq([i \in DOMAIN path |-> path[i].words])

Tool(i, prefix) ==
  [name |-> <<prefix, routes[i].method>> \o Slug(routes[i].path),
   path |-> routes[i].path, method |-> routes[i].method, made |-> i]

ToolsOf(i) ==
  IF routes[i].kind = "page"
  THEN <<Tool(i, "render"), Tool(i, "text")>>
  ELSE <<Tool(i, routes[i].kind)>>

BuildTools == FlattenSeq([i \in DOMAIN routes |-> ToolsOf(i)])

StartServer ==
  /\ ~tools.started
  /\ tools' = [started |-> TRUE, list |-> BuildTools]
  /\ client' = NoApp /\ answer' = NoAnswer
  /\ UNCHANGED <<routes, groups, mounts, stack, app>>

\* _tools_by_name: of the tools of one name, the last.
ByName(name) == tools.list[SelectLastInSeq(tools.list, LAMBDA t : t.name = name)]

\* "{name}" is replaced by the value wherever one is given for the name.  The
\* path "/" is the one without segments.
Fill(path, given) ==
  LET filled == FlattenSeq([i \in DOMAIN path |->
                   IF path[i].param /\ path[i].words[1] \in DOMAIN given
                   THEN given[path[i].words[1]] ELSE <<path[i]>>])
  IN  IF filled = <<Empty>> THEN <<>> ELSE filled

\* The value is read as one segment, and not as the empty one.
OneSegment(value) == value = <<value[1]>> /\ value[1] # Empty

Names(path) == {path[i].words[1] : i \in {j \in DOMAIN path : path[j].param}}

\* tools/call of a tool there is: the client, made at the first call, sends
\* the request, and its application answers.
CallTool(name, given) ==
  LET tool == ByName(name)
      path == Fill(tool.path, given)
  IN
  /\ client' = IF client = NoApp THEN Asgi ELSE client
  /\ app' = IF client = NoApp THEN Asgi ELSE app
  /\ answer' = [made |-> tool.made, by |-> Dispatch(client', tool.method, path),
                whole |-> \A n \in DOMAIN given : OneSegment(given[n])]
  /\ UNCHANGED <<routes, groups, mounts, stack, tools>>

\* handle_jsonrpc.  tools/list, initialize, an unknown method and the call of
\* an unknown tool are answered from what is there.
HandleJsonrpc ==
  /\ tools.started
  /\ \/ \E i \in DOMAIN tools.list : \E names \in SUBSET Names(tools.list[i].path) :
          \E given \in [names -> Values] : CallTool(tools.list[i].name, given)
     \/ /\ answer' = NoAnswer
        /\ UNCHANGED <<routes, groups, mounts, stack, app, tools, client>>

-----------------------------------------------------------------------------
AppNext ==
  \/ \E g \in {Nil} \cup DOMAIN groups :
       \/ \E path \in Paths : Get(g, path) \/ Post(g, path) \/ Api(g, path)
       \/ \E prefix \in GroupPaths :
            \E middleware \in {<<>>} \cup {<<mw>> : mw \in Middleware} :
              Group(g, prefix, middleware)
  \/ \E mw \in Middleware : Use(mw)
  \/ \E path \in StaticPaths : Static(path)
  \/ Serve \/ StartServer \/ HandleJsonrpc

AppSpec == AppInit /\ [][AppNext]_appVars

-----------------------------------------------------------------------------
(* Properties *)

\* The routes among the entries, which are the first of them.
Registered(a) ==
  SubSeq(a.entries, 1, Cardinality({i \in DOMAIN a.entries :
                          a.entries[i].kind \in {"page", "action", "api"}}))

\* The application that is served has every middleware used so far, the first
\* outermost, and every static directory.
ServedInFull ==
  app # NoApp => /\ app.layers = stack
                 /\ \A i \in DOMAIN mounts :
                      Entry("static", mounts[i]) \in ToSet(app.entries)

\* What is served and what the MCP client offers is what had been registered
\* at some time, and the client never has more than the application.  The
\* client's application may lack the middleware that was used after it was
\* made, as it may lack routes; what it has is the first of it, in order.
OlderIsPrefix ==
  /\ app # NoApp => IsPrefix(Registered(client), Registered(app))
  /\ app # NoApp => IsPrefix(Registered(app), routes)
  /\ IsPrefix(Registered(client), routes)
  /\ client # NoApp => IsPrefix(client.layers, stack)

\* However registrations, builds and tool calls alternate, the application that
\* is served has every middleware and every directory, and lacks at most the
\* last routes; the application that the MCP client was made with has the first
\* routes and the first middleware, and lacks what came later (Taiyaki.use,
\* static, asgi, _build_app, _get_client).
CopiesAgree == ServedInFull /\ OlderIsPrefix

\* The call of a tool, if the client's application has the tool's route, is
\* answered by that route or by one that was registered earlier, whatever
\* values of one segment are given for the parameters and whatever directories
\* are mounted.  A value that is empty or has a slash in it makes another path
\* of the tool's, which a later route or none may take (call_tool, _build_app).
OwnRouteOrEarlier ==
  answer.whole /\ answer.made \in 1..Len(Registered(client)) =>
    /\ answer.by # Nil
    /\ client.entries[answer.by] \in ToSet(SubSeq(routes, 1, answer.made))

\* A group has routes "sharing [...] middleware": the middleware of a route's
\* group is around the route when it is served.
GroupMiddlewareApplies ==
  \A i \in DOMAIN app.entries :
    LET g == app.entries[i].group IN
    g # Nil => ToSet(groups[g].middleware) \subseteq ToSet(app.layers)
=============================================================================
