------------------------------ MODULE LoScheduler ------------------------------
(***************************************************************************)
(* What the event queue of a lo_server promises, without the list, the     *)
(* receive loop and the call stack that keep the promise:                  *)
(*   - an event handed to the queue waits there until it is fired, and is  *)
(*     fired at most once;                                                 *)
(*   - the event fired is always the earliest one, first come first served *)
(*     among events of one timetag;                                        *)
(*   - unless the application flushes the queue (lo_server_enable_queue    *)
(*     with dispatch_remaining), an event is fired no more than Early      *)
(*     before its timetag.                                                 *)
(* LoEventQueue is shown to implement this specification.                  *)
(***************************************************************************)
EXTENDS Integers

CONSTANT Early          \* how much before its timetag an event may be fired

VARIABLES clock,        \* the current time
          pending,      \* the events waiting: records [ts |-> , seq |-> ]
          accepted,     \* how many events the queue was ever given
          flushing      \* is a flush of the queue in progress

svars == <<clock, pending, accepted, flushing>>

\* e is fired before every other event of the set P
Earliest(e, P) ==
    /\ e \in P
    /\ \A x \in P : e.ts < x.ts \/ (e.ts = x.ts /\ e.seq <= x.seq)

SInit == /\ clock \in Nat
         /\ pending = {}
         /\ accepted = 0
         /\ flushing = FALSE

STick == /\ clock' = clock + 1
         /\ UNCHANGED <<pending, accepted, flushing>>

Accept == /\ \E e \in pending' : /\ e.ts \in Nat
                                 /\ e.seq = accepted + 1
                                 /\ pending' = pending \cup {e}
          /\ accepted' = accepted + 1
          /\ UNCHANGED <<clock, flushing>>

Fire == /\ \E e \in pending : /\ Earliest(e, pending)
                              /\ flushing \/ e.ts <= clock + Early
                              /\ pending' = pending \ {e}
        /\ UNCHANGED <<clock, accepted, flushing>>

Flush == /\ flushing' \in BOOLEAN
         /\ UNCHANGED <<clock, pending, accepted>>

SNext == STick \/ Accept \/ Fire \/ Flush

SSpec == SInit /\ [][SNext]_svars
================================================================================
