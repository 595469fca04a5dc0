--------------------------- MODULE MCLoStreamServer ---------------------------
(***************************************************************************)
(* Two clients for TLC: one sends two messages, the other one message too  *)
(* long for half of the largest buffer.                                    *)
(***************************************************************************)
EXTENDS LoStreamServer

CONSTANTS a, b

MCConn == {a, b}
MCLength == [c \in MCConn |-> IF c = a THEN <<2, 2>> ELSE <<6>>]
MCLater == {<<a, 1>>}
================================================================================
