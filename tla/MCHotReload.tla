---------------------------- MODULE MCHotReload ----------------------------
(* Two browsers and two edits of the two files.  The first may make one     *)
(* that transform_jsx rejects; the second may repair it, return to the      *)
(* first content, or make a third.                                          *)
EXTENDS HotReload
CONSTANTS b1, b2
MCBrowsers == {b1, b2}
MCBroken == {2}
=============================================================================
