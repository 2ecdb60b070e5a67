----------------------------- MODULE MCRouting -----------------------------
(* A path with a parameter and one it also takes, a group prefix, two        *)
(* middleware, a directory at the root and one beside it, and every order   *)
(* of three registering calls.  Of the values one is "me", one "7", one     *)
(* "users/7", with which /users/{id} becomes a path of the group, and one   *)
(* is empty.                                                                *)
EXTENDS Routing
CONSTANTS mwA, mwB
MCMiddleware == {mwA, mwB}

Users == Literal(<<"users">>)
Plain == <<Users>>
ById  == <<Users, Param("id")>>
Me    == <<Users, Literal(<<"me">>)>>

MCPaths == {ById, Me}
MCGroupPaths == {Plain}
MCStatic == {<<>>, Plain}
Seven == Literal(<<"7">>)
MCValues == {<<Literal(<<"me">>)>>, <<Seven>>, <<Users, Seven>>, <<Empty>>}
=============================================================================
