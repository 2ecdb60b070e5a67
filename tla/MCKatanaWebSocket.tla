------------------------- MODULE MCKatanaWebSocket -------------------------
(* Two connections and two serve calls, the second of which may come at any *)
(* time.  One connection is busy both ways; the other shares the event queue. *)
EXTENDS KatanaWebSocket
CONSTANTS c1, c2
MCConns == {c1, c2}
MCMaxIn == (c1 :> 2 @@ c2 :> 1)
MCMaxOut == (c1 :> 2 @@ c2 :> 0)
=============================================================================
