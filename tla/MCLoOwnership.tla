---------------------------- MODULE MCLoOwnership ----------------------------
(***************************************************************************)
(* For TLC: three bundles, enough for a circle that a look at two does not *)
(* find, and a message; methods with and without a path and types, for     *)
(* every path and for one, and a pattern to delete them with.             *)
(***************************************************************************)
EXTENDS LoOwnership, TLC

CONSTANTS b1, b2, b3, m1

MCBundle == {b1, b2, b3}
MCMessage == {m1}
MCSymmetry == Permutations(MCBundle)

MCPaths == {Null, "", "/a", "*"}
MCTypes == {Null, "", "i"}
MCPattern == {"*"}
==============================================================================
