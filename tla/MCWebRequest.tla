---------------------------- MODULE MCWebRequest ----------------------------
(* A browser with three requests that may overlap, to a page with flash     *)
(* messages, a cached page given as source and a form; and one more request *)
(* of another browser, to the cached page or to a path without a route.     *)
(* The error component does not load, and the one for such paths throws.    *)
EXTENDS WebRequest

CONSTANTS b1, b2, Home, News, Broken, Frame, Gone

Route(method, handler, component) ==
  [method |-> method, handler |-> handler, form |-> method = "POST",
   component |-> component, layout |-> None, group |-> <<>>, cache |-> FALSE,
   stream |-> FALSE]

home    == [Route("GET", "page", Home) EXCEPT !.group = <<Frame, None>>, !.stream = TRUE]
news    == [Route("GET", "page", News) EXCEPT !.cache = TRUE]
submit  == Route("POST", "action", None)
data    == Route("GET", "api", None)
nowhere == Route("GET", "none", None)

MCBrowsers == {b1, b2}
MCRequests == (b1 :> 1..3) @@ (b2 :> {4})
MCVisits == (b1 :> {home, news, submit}) @@ (b2 :> {news, data, nowhere})
MCRoutes == UNION {MCVisits[b] : b \in MCBrowsers}
MCFate == [c \in {Home, News, Broken, Frame, Gone} |->
             CASE c = Broken -> "unloadable" [] c = Gone -> "throws" [] OTHER -> "fine"]
MCGiven == {News}
MCStack == <<"recover", "sessions", "csrf">>
Island == <<"island", Frame>>
MCBehaviours ==
  (home :> {<<<<"show">>, Island>>, <<<<"flash">>>>})
  @@ (submit :> {<<<<"flash">>, <<"redirect">>>>}) @@ (data :> {<<<<"raise">>>>})
  @@ [route \in {news, nowhere} |-> {<<>>}]
=============================================================================
