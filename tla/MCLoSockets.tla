---------------------------- MODULE MCLoSockets ----------------------------
(***************************************************************************)
(* A small instance of LoSockets: two addresses and two servers, each of   *)
(* either protocol, in a process of few descriptors.                       *)
(***************************************************************************)
EXTENDS LoSockets, TLC

CONSTANTS a1, a2, s1, s2

MCAddr == {a1, a2}
MCServer == {s1, s2}
Symmetry == Permutations(MCAddr) \cup Permutations(MCServer)
=============================================================================
