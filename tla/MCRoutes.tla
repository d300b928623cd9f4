------------------------------ MODULE MCRoutes ------------------------------
(***************************************************************************)
(* Instance of Routes for TLC: two repeaters, and a companion that shares  *)
(* the short prefix of the first.                                          *)
(***************************************************************************)
EXTENDS Routes

CONSTANTS a, b, c

MCOwners == [x1 |-> {a, c}, x2 |-> {b}, aa |-> {a}, bb |-> {b}, cc |-> {c}]
MCFull   == (a :> "aa") @@ (b :> "bb") @@ (c :> "cc")
MCTypes  == (a :> {TRUE}) @@ (b :> {TRUE}) @@ (c :> {TRUE, FALSE})
MCPaths  == {<<"x1", "x2">>, <<"bb", "cc">>}
MCReports == {<<b, c>>}
=============================================================================
