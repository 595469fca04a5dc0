---------------------------- MODULE MCLoEventQueue ----------------------------
(***************************************************************************)
(* A small server for TLC: two bundles from two peers, one with elements   *)
(* of every kind, and a message the application dispatches itself.         *)
(***************************************************************************)
EXTENDS LoEventQueue

CONSTANTS m1, m2, m3, m4, m5, x, p,         \* messages
          B1, B2, BN, L,                    \* bundles
          peer1, peer2

MCMsg == {m1, m2, m3, m4, m5, x, p}
MCBundle == {B1, B2, BN, L}

MCTimetag == [b \in MCBundle |->
    CASE b = B1 -> 3
      [] b = B2 -> 2
      [] b = BN -> Immediate
      [] b = L  -> 3]

\* B1 is flat; B2 holds an immediate bundle and an element of each bad kind.
MCElements == [b \in MCBundle |->
    CASE b = B1 -> <<m1, m2>>
      [] b = B2 -> <<BadBundle, m3, BN, BadMessage, m4>>
      [] b = BN -> <<x>>
      [] b = L  -> <<m5>>]

MCTraffic == {B1, B2, BadMessage}
MCLocal == {p}
MCSender == [d \in Datagram |->
    CASE d \in {B1, m1, m2} -> peer1
      [] d \in {p, L, m5}   -> NoAddr
      [] OTHER              -> peer2]

\* Methods that call back into the server: the ones of queued messages only
\* switch queueing on or off, those never queued also flush and dispatch.
MCHandlerCalls == [m \in MCMsg |->
    CASE m = m1 -> {"return", "enable"}
      [] m = m3 -> {"return", "disable"}
      [] m = x  -> {"return", "flush"}
      [] m = p  -> {"return", L}
      [] OTHER  -> {"return"}]

\* Methods of queued messages that have the queue changed under dispatch_queued:
\* m1 may flush it and m3 dispatch a bundle, which may be queued.
MCReentrantCalls == [m \in MCMsg |->
    CASE m = m1 -> {"return", "flush"}
      [] m = m3 -> {"return", L}
      [] OTHER  -> {"return"}]

\* The hypotheses of LoEventQueueProofs hold here; the reentrant calls break the first.
ASSUME HypothesesMet ==
    OnePlace /\ (NoReentry <=> HandlerCalls = MCHandlerCalls)
===============================================================================
