--------------------------- MODULE MCLoServerThread ---------------------------
(***************************************************************************)
(* A method for the path b and one for every path; messages to a, which    *)
(* ends in a slash, and to a pattern that matches b, for TLC.              *)
(***************************************************************************)
EXTENDS LoServerThread

CONSTANTS a, b, ab

MCAll == [path |-> NoPath, typespec |-> "i"]
MCOne == [path |-> b, typespec |-> NoPath]
MCMethod == {MCAll, MCOne}
MCInitial == {<<MCOne, MCOne>>, <<MCOne, MCAll>>}
MCMethods == [messages |-> 1, adds |-> 1, deletes |-> 1, throws |-> 0, starts |-> 2]
MCErrors == [messages |-> 2, adds |-> 0, deletes |-> 0, throws |-> 3, starts |-> 2]
MCBounds == {MCMethods, MCErrors}
MCMatches == [p \in {a, ab} |-> IF p = ab THEN {a, b} ELSE {a}]
================================================================================
