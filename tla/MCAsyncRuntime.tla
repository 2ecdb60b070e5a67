--------------------------- MODULE MCAsyncRuntime ---------------------------
(* Two blocking calls and three awaited ones; one script of either kind     *)
(* calls a Python function.                                                 *)
EXTENDS AsyncRuntime
CONSTANTS s1, s2, a1, a2, a3
MCSync == {s1, s2}
MCAsync == {a1, a2, a3}
MCCallers == {s1, a1}
=============================================================================
