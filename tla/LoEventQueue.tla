------------------------------ MODULE LoEventQueue ------------------------------
(***************************************************************************)
(* The receive loop of a datagram lo_server (LO_UDP, LO_UNIX), the         *)
(* dispatch of messages and bundles, and the queue of messages whose       *)
(* bundle is timetagged in the future (server.c).                          *)
(*                                                                         *)
(* One thread owns the server: it calls lo_server_recv or                  *)
(* lo_server_recv_noblock again and again. C calls are modelled by an      *)
(* explicit stack of activation records, because a method handler may call *)
(* back into the server while a bundle or the queue is being dispatched.   *)
(* The environment is the network, which fills the socket buffer, and the  *)
(* clock, which may advance between any two steps.                         *)
(*                                                                         *)
(* Times are in ticks. Timetag 0 is LO_TT_IMMEDIATE.                       *)
(***************************************************************************)
EXTENDS Integers, Sequences, FiniteSets, SequencesExt

CONSTANTS
    Msg,            \* the messages
    Bundle,         \* the bundles
    BadMessage,     \* an element or datagram lo_message_deserialise refuses
    BadBundle,      \* one that says "#bundle" and that lo_validate_bundle refuses
    Timetag,        \* Timetag[b]: the timetag of bundle b
    Elements,       \* Elements[b]: the elements of bundle b, in order
    Traffic,        \* the datagrams the network may deliver
    Local,          \* messages and bundles the application itself dispatches
    Sender,         \* Sender[d]: the peer whose datagram holds message or bundle d
    NoAddr,         \* the Sender of what no peer sends; s->addr before the first datagram
    HandlerCalls    \* HandlerCalls[m]: what the method handling m may call on the
                    \* server: "return" (nothing), "enable", "disable", "flush"
                    \* (lo_server_enable_queue), or a bundle it passes to
                    \* lo_server_dispatch_data

CONSTANTS
    Early,          \* the 0.01 s of lo_server_recv and lo_server_wait
    PollCap,        \* the 10 s cap on one poll of lo_server_recv
    MaxDelay,       \* the 100 s lo_server_next_event_delay returns at most
    Timeouts,       \* timeouts the application gives lo_server_recv_noblock
    MaxClock,       \* bound: the clock stops here
    InboxCap,       \* bound: datagrams the socket buffer holds
    MaxDepth        \* bound: activations on the stack when a handler is called

Immediate == 0
Datagram == Msg \cup Bundle \cup {BadMessage, BadBundle}
Element == Datagram

ASSUME TimeAssumption ==
    /\ Early \in Nat /\ PollCap \in Nat /\ MaxDelay \in Nat
    /\ Early < PollCap /\ PollCap <= MaxDelay
    /\ Timeouts \subseteq Nat
    /\ MaxClock \in Nat /\ InboxCap \in Nat /\ MaxDepth \in Nat

ASSUME MessageAssumption ==
    /\ Msg \cap Bundle = {}
    /\ BadMessage \notin Msg \cup Bundle /\ BadBundle \notin Msg \cup Bundle
    /\ Traffic \subseteq Datagram /\ Local \subseteq Msg \cup Bundle
    /\ Timetag \in [Bundle -> Nat]
    /\ Elements \in [Bundle -> Seq(Element)]
    /\ Bundle \cap {"return", "enable", "disable", "flush"} = {}
    /\ HandlerCalls \in
          [Msg -> SUBSET ({"return", "enable", "disable", "flush"} \cup Bundle)]

VARIABLES
    clock,          \* lo_timetag_now
    inbox,          \* datagrams in the socket buffer
    sent,           \* messages and bundles delivered already (each is, at most once)
    pc,             \* where the caller is: "app", in the poll of lo_server_wait
                    \* ("wait") or lo_server_recv ("poll"), or past undefined
                    \* behaviour ("undefined")
    deadline,       \* when that poll times out
    addr,           \* s->addr: the source of the last datagram read
    enqueue,        \* s->flags & LO_SERVER_ENQUEUE
    queue,          \* s->queued
    stack           \* activations of dispatch_data and dispatch_queued, innermost first

\* What has happened, for the properties; the code keeps none of these.
VARIABLES
    taken,          \* how many events queue_data has inserted: the last seq
    fired,          \* the seq of the events dispatch_queued has dispatched
    ran,            \* the messages some handler was called for
    open,           \* bundles whose start handler but not end handler ran, newest first
    late            \* datagrams read while an event was due, since one was dispatched

net == <<clock, inbox, sent>>
loop == <<pc, deadline, addr>>
history == <<taken, fired, ran, open, late>>
vars == <<net, loop, enqueue, queue, stack, history>>

Smaller(a, b) == IF a < b THEN a ELSE b

--------------------------------------------------------------------------------
(***************************************************************************)
(* Activation records and the queue.                                       *)
(***************************************************************************)
\* An entry of the queue (queued_msg_list): seq is its identity, the node's address.
Entry == [msg : Msg, ts : Nat, seq : Nat]

\* dispatch_data in the loop over a bundle's elements: `now' is read once.
BundleFrame == [op : {"bundle"}, b : Bundle, next : Nat \ {0}, now : Nat]

\* dispatch_queued: disp_time, dispatch_all, and, while the handler of the node
\* at the head of the queue runs, that node and tailhead (0 for NULL).
QueuedFrame == [op : {"queued"}, disp : Nat, all : BOOLEAN, called : BOOLEAN,
                node : Nat, tail : Nat]

Activation == BundleFrame \cup QueuedFrame

Delay ==
    IF queue = <<>> THEN MaxDelay
    ELSE IF Head(queue).ts <= clock THEN 0
    ELSE Smaller(Head(queue).ts - clock, MaxDelay)

\* Seeded bug: an event goes before those queued earlier for the same timetag.
InsertPointBeforeEqual(q, ts) ==
    CHOOSE p \in 1 .. Len(q) + 1 :
        /\ p <= Len(q) => q[p].ts >= ts
        /\ \A i \in 1 .. p - 1 : q[i].ts < ts

\* The index of the first entry later than ts, or one past the end.
InsertPoint(q, ts) ==
    CHOOSE p \in 1 .. Len(q) + 1 :
        /\ p <= Len(q) => q[p].ts > ts
        /\ \A i \in 1 .. p - 1 : q[i].ts <= ts

\* Seeded bug: the queue keeps the time left instead of the timetag.
queue_data_relative(m, ts) ==
    /\ queue' = InsertAt(queue, InsertPoint(queue, ts - clock),
                         [msg |-> m, ts |-> ts - clock, seq |-> taken + 1])
    /\ taken' = taken + 1

queue_data(m, ts) ==
    /\ queue' = InsertAt(queue, InsertPoint(queue, ts),
                         [msg |-> m, ts |-> ts, seq |-> taken + 1])
    /\ taken' = taken + 1

\* Seeded bug: the node at n is unlinked too.
ListFromNext(q, n) ==
    IF \E i \in 1 .. Len(q) : q[i].seq = n
    THEN SubSeq(q, (CHOOSE i \in 1 .. Len(q) : q[i].seq = n) + 1, Len(q))
    ELSE <<>>

\* The list from the node whose seq is n on; n = 0 is the NULL pointer.
ListFrom(q, n) ==
    IF \E i \in 1 .. Len(q) : q[i].seq = n
    THEN SubSeq(q, CHOOSE i \in 1 .. Len(q) : q[i].seq = n, Len(q))
    ELSE <<>>

\* dispatch_queued(s, all) entered with a non-empty queue
DispatchQueued(all) == [op |-> "queued", disp |-> Head(queue).ts, all |-> all,
                        called |-> FALSE, node |-> 0, tail |-> 0]

DispatchBundle(b) == [op |-> "bundle", b |-> b, next |-> 1, now |-> clock]

\* lo_server_enable_queue(s, on, remaining), called by the activation `callers'.
lo_server_enable_queue(on, remaining, callers) ==
    /\ enqueue' = on
    /\ stack' = IF ~on /\ remaining /\ queue # <<>>
                THEN <<DispatchQueued(TRUE)>> \o callers
                ELSE callers
    /\ UNCHANGED open

\* dispatch_data entered for a bundle: the start handler runs first.
EnterBundle(b, callers) ==
    /\ stack' = <<DispatchBundle(b)>> \o callers
    /\ open' = <<b>> \o open
    /\ UNCHANGED enqueue

\* The handler of m is called and does one of HandlerCalls[m]. (The search of the
\* method table, which finds the handler, is abstracted here.)
dispatch_method(m, callers) ==
    /\ Len(callers) <= MaxDepth
    /\ ran' = ran \cup {m}
    /\ \E call \in HandlerCalls[m] :
          \/ call = "return" /\ stack' = callers /\ UNCHANGED <<enqueue, open>>
          \/ call = "enable" /\ lo_server_enable_queue(TRUE, FALSE, callers)
          \/ call = "disable" /\ lo_server_enable_queue(FALSE, FALSE, callers)
          \/ call = "flush" /\ lo_server_enable_queue(FALSE, TRUE, callers)
          \/ call \in Bundle /\ EnterBundle(call, callers)

\* dispatch_data(s, d): a message outside a bundle is dispatched at once; what
\* does not validate is reported by lo_throw and dropped.
dispatch_data(d, callers) ==
    \/ d \in Msg /\ dispatch_method(d, callers)
    \/ d \in Bundle /\ EnterBundle(d, callers) /\ UNCHANGED ran
    \/ d \in {BadMessage, BadBundle} /\ stack' = callers /\ UNCHANGED <<enqueue, open, ran>>

--------------------------------------------------------------------------------
(***************************************************************************)
(* The application's loop: lo_server_recv and lo_server_recv_noblock.      *)
(***************************************************************************)
Idle == pc = "app" /\ stack = <<>>

\* Seeded bug: the socket is polled even when an event is due.
StartPollAlways ==
    /\ pc' = "poll"
    /\ deadline' = clock + Smaller(Delay, PollCap)
    /\ UNCHANGED stack

\* Nothing is due: poll until something is, at most PollCap.
StartPoll ==
    /\ Delay > Early
    /\ pc' = "poll"
    /\ deadline' = clock + Smaller(Delay, PollCap)
    /\ UNCHANGED stack

\* Seeded bug: an event is taken for due when it is within the cap of a poll.
StartQueuedSoon ==
    /\ Delay <= PollCap /\ queue # <<>>
    /\ pc' = "app"
    /\ stack' = <<DispatchQueued(FALSE)>>
    /\ UNCHANGED deadline

\* Something is due: dispatch_queued, and the socket is not read.
StartQueued ==
    /\ Delay <= Early
    /\ pc' = "app"
    /\ stack' = <<DispatchQueued(FALSE)>>
    /\ UNCHANGED deadline

Recv == /\ StartPoll \/ StartQueued
        /\ UNCHANGED <<net, addr, enqueue, queue, history>>

lo_server_recv == Idle /\ Recv

\* Enter lo_server_wait(s, timeout)
lo_server_recv_noblock ==
    /\ Idle
    /\ pc' = "wait"
    /\ \E timeout \in Timeouts : deadline' = clock + Smaller(timeout, Delay)
    /\ UNCHANGED <<net, addr, enqueue, queue, stack, history>>

\* Seeded bug: lo_server_wait looks at the socket only.
WaitReadySocket == /\ pc = "wait"
                   /\ inbox # <<>>
                   /\ Recv

\* lo_server_wait sees a datagram, or an event due: it returns 1, go on to recv.
WaitReady == /\ pc = "wait"
             /\ \/ inbox # <<>>
                \/ clock >= deadline /\ Delay < Early
             /\ Recv

\* lo_server_wait returns 0
WaitTimeout == /\ pc = "wait"
               /\ inbox = <<>> /\ clock >= deadline /\ Delay >= Early
               /\ pc' = "app"
               /\ UNCHANGED <<net, deadline, addr, enqueue, queue, stack, history>>

\* poll reports only an error on the socket: both functions return 0.
PollError == /\ pc \in {"wait", "poll"}
             /\ pc' = "app"
             /\ UNCHANGED <<net, deadline, addr, enqueue, queue, stack, history>>

\* The poll of lo_server_recv times out: goto again, or dispatch what is due.
PollTimeout == pc = "poll" /\ inbox = <<>> /\ clock >= deadline /\ Recv

LateCap == 2

\* The poll of lo_server_recv sees a datagram: lo_server_recv_raw, dispatch_data.
PollReady ==
    /\ pc = "poll"
    /\ inbox # <<>>
    /\ inbox' = Tail(inbox)
    /\ addr' = Sender[Head(inbox)]
    /\ pc' = "app"
    /\ dispatch_data(Head(inbox), <<>>)
    /\ late' = IF Delay <= Early THEN Smaller(late + 1, LateCap) ELSE late
    /\ UNCHANGED <<clock, sent, deadline, queue, taken, fired>>

\* The application calls lo_server_dispatch_data outside any handler.
lo_server_dispatch_data ==
    /\ Idle
    /\ \E d \in Local \ sent : /\ dispatch_data(d, <<>>)
                              /\ sent' = sent \cup {d}
    /\ UNCHANGED <<clock, inbox, loop, queue, taken, fired, late>>

\* The application calls lo_server_enable_queue outside any handler.
AppEnableQueue ==
    /\ Idle
    /\ \E on, remaining \in BOOLEAN : lo_server_enable_queue(on, remaining, <<>>)
    /\ UNCHANGED <<net, loop, queue, taken, fired, ran, late>>

--------------------------------------------------------------------------------
(***************************************************************************)
(* dispatch_data in a bundle. One step per element.                        *)
(***************************************************************************)
Frame == Head(stack)
Running(op) == pc = "app" /\ stack # <<>> /\ Frame.op = op
AtElement == Running("bundle") /\ Frame.next <= Len(Elements[Frame.b])
ThisElement == Elements[Frame.b][Frame.next]

\* The stack once the running dispatch_data has moved to the next element.
Advanced == <<[Frame EXCEPT !.next = @ + 1]>> \o Tail(stack)

DispatchNow == \/ Timetag[Frame.b] = Immediate
               \/ Timetag[Frame.b] <= Frame.now
               \/ ~enqueue

\* A nested bundle: a recursive call, whose result is ignored.
NestedBundle ==
    /\ AtElement /\ ThisElement \in Bundle \cup {BadBundle}
    /\ dispatch_data(ThisElement, Advanced)
    /\ UNCHANGED <<net, loop, queue, taken, fired, late>>

DispatchElement ==
    /\ AtElement /\ ThisElement \in Msg /\ DispatchNow
    /\ dispatch_method(ThisElement, Advanced)
    /\ UNCHANGED <<net, loop, queue, taken, fired, late>>

QueueElement ==
    /\ AtElement /\ ThisElement \in Msg /\ ~DispatchNow
    /\ queue_data(ThisElement, Timetag[Frame.b])
    /\ stack' = Advanced
    /\ UNCHANGED <<net, loop, enqueue, fired, ran, open, late>>

\* An element that does not deserialise: return at once, without the end handler.
AbortBundle ==
    /\ AtElement /\ ThisElement = BadMessage
    /\ stack' = Tail(stack)
    /\ UNCHANGED <<net, loop, enqueue, queue, history>>

\* After the last element the end handler runs.
EndBundle ==
    /\ Running("bundle") /\ Frame.next > Len(Elements[Frame.b])
    /\ stack' = Tail(stack)
    /\ open' = SubSeq(open, 2, Len(open))
    /\ UNCHANGED <<net, loop, enqueue, queue, taken, fired, ran, late>>

--------------------------------------------------------------------------------
(***************************************************************************)
(* dispatch_queued. Its loop body is split where the handler runs.         *)
(***************************************************************************)
QueuedCall ==
    /\ Running("queued") /\ ~Frame.called
    /\ LET node == Head(queue)
           tail == IF Len(queue) > 1 THEN queue[2].seq ELSE 0
       IN  /\ dispatch_method(node.msg,
                  <<[Frame EXCEPT !.called = TRUE, !.node = node.seq, !.tail = tail]>>
                  \o Tail(stack))
           /\ fired' = fired \cup {node.seq}
    /\ late' = 0
    /\ UNCHANGED <<net, loop, queue, taken>>

\* Seeded bug: the loop of dispatch_queued does not compare with disp_time.
QueuedReturnAll ==
    /\ Running("queued") /\ Frame.called
    /\ \E e \in {queue[i] : i \in 1 .. Len(queue)} : e.seq = Frame.node
    /\ queue' = ListFrom(queue, Frame.tail)
    /\ stack' = IF queue' # <<>>
                THEN <<[Frame EXCEPT !.called = FALSE]>> \o Tail(stack)
                ELSE Tail(stack)
    /\ UNCHANGED <<net, loop, enqueue, history>>

\* The handler has returned: free the node at the head of the queue, and make the
\* tailhead read before the call the head. Go on with the events of disp_time.
QueuedReturn ==
    /\ Running("queued") /\ Frame.called
    /\ \E e \in {queue[i] : i \in 1 .. Len(queue)} : e.seq = Frame.node
    /\ queue' = ListFrom(queue, Frame.tail)
    /\ stack' = IF queue' # <<>> /\ (Head(queue').ts <= Frame.disp \/ Frame.all)
                THEN <<[Frame EXCEPT !.called = FALSE]>> \o Tail(stack)
                ELSE Tail(stack)
    /\ UNCHANGED <<net, loop, enqueue, history>>

\* The handler had the queue dispatched: the node, its path and its message are
\* freed a second time, which C leaves undefined. Nothing is said of what follows.
DoubleFree ==
    /\ Running("queued") /\ Frame.called
    /\ \A i \in 1 .. Len(queue) : queue[i].seq # Frame.node
    /\ pc' = "undefined"
    /\ UNCHANGED <<net, deadline, addr, enqueue, queue, stack, history>>

--------------------------------------------------------------------------------
(***************************************************************************)
(* The environment: datagrams arrive in any order or never; those without  *)
(* a valid message may arrive for ever.                                    *)
(***************************************************************************)
Arrive ==
    /\ Len(inbox) < InboxCap
    /\ \E d \in Traffic \ sent :
          /\ inbox' = Append(inbox, d)
          /\ sent' = IF d \in Msg \cup Bundle THEN sent \cup {d} ELSE sent
    /\ UNCHANGED <<clock, loop, enqueue, queue, stack, history>>

Tick == /\ clock < MaxClock
        /\ clock' = clock + 1
        /\ UNCHANGED <<inbox, sent, loop, enqueue, queue, stack, history>>

Init ==
    /\ clock = 0 /\ inbox = <<>> /\ sent = {}
    /\ pc = "app" /\ deadline = 0 /\ addr = NoAddr
    /\ enqueue = TRUE
    /\ queue = <<>> /\ stack = <<>>
    /\ taken = 0 /\ fired = {} /\ ran = {} /\ open = <<>> /\ late = 0

Application == lo_server_recv \/ lo_server_recv_noblock
App == Application \/ lo_server_dispatch_data \/ AppEnableQueue
Poll == WaitReady \/ WaitTimeout \/ PollError \/ PollTimeout \/ PollReady
Run == \/ NestedBundle \/ DispatchElement \/ QueueElement \/ AbortBundle \/ EndBundle
       \/ QueuedCall \/ QueuedReturn \/ DoubleFree

Next == App \/ Poll \/ Run \/ Arrive \/ Tick

Spec == Init /\ [][Next]_vars

(***************************************************************************)
(* The thread of the server keeps calling lo_server_recv or its noblock    *)
(* form (thread_func of server_thread.c does), runs what it has begun, is  *)
(* woken by poll, and time passes. Nothing makes a datagram arrive. The    *)
(* socket does not report an error for ever.                               *)
(***************************************************************************)
FairSpec == /\ Spec
            /\ WF_vars(Application)
            /\ WF_vars(Poll)
            /\ SF_vars(WaitReady \/ WaitTimeout)
            /\ WF_vars(Run)
            /\ WF_vars(Tick)

--------------------------------------------------------------------------------
(***************************************************************************)
(* Properties.                                                             *)
(***************************************************************************)
\* The type invariant.
TypeOK ==
    /\ clock \in Nat
    /\ inbox \in Seq(Datagram)
    /\ sent \subseteq Msg \cup Bundle
    /\ pc \in {"app", "wait", "poll", "undefined"}
    /\ deadline \in Nat
    /\ enqueue \in BOOLEAN
    /\ queue \in Seq(Entry)
    /\ stack \in Seq(Activation)
    /\ taken \in Nat /\ fired \subseteq Nat /\ ran \subseteq Msg
    /\ open \in Seq(Bundle)
    /\ late \in Nat

\* a is dispatched before b: earlier timetag, or same timetag and queued earlier.
Before(a, b) == a.ts < b.ts \/ (a.ts = b.ts /\ a.seq < b.seq)

\* The queue is in the order of the timetags and, within one timetag, in the
\* order of arrival, whatever handlers do to it while it is being dispatched
\* (queue_data, dispatch_queued).
QueueOrdered ==
    \A i, j \in 1 .. Len(queue) : i < j => Before(queue[i], queue[j])

(***************************************************************************)
(* What makes QueueOrdered and NeverEarly inductive. No seq in the queue   *)
(* has been given out twice; and of the activations of dispatch_queued,    *)
(* whose disp_time was due when they began, only the innermost can be      *)
(* about to call a handler, and then the head of the queue is one of its.  *)
(***************************************************************************)
SeqBounded == \A i \in 1 .. Len(queue) : queue[i].seq <= taken

Due(f) == f.op = "queued" => f.all \/ f.disp <= clock + Early

ReadyToCall(f) == /\ queue # <<>>
                  /\ f.all \/ Head(queue).ts <= f.disp

FramesDue == \A k \in 1 .. Len(stack) : Due(stack[k])

FramesCalled ==
    \A k \in 1 .. Len(stack) : stack[k].op = "queued" /\ ~stack[k].called =>
        k = 1 /\ ReadyToCall(stack[k])

IInv == TypeOK /\ QueueOrdered /\ SeqBounded /\ FramesDue /\ FramesCalled

\* Nothing queued is lost: each event queue_data ever took has been dispatched
\* or is still in the queue.
NothingLost ==
    \A n \in 1 .. taken : n \in fired \/ \E i \in 1 .. Len(queue) : queue[i].seq = n

\* Nothing queued is dispatched twice: an event dispatched and still in the queue
\* is the one whose handler is running.
NothingRepeated ==
    \A i \in 1 .. Len(queue) : queue[i].seq \in fired =>
        \E k \in 1 .. Len(stack) : /\ stack[k].op = "queued" /\ stack[k].called
                                   /\ stack[k].node = queue[i].seq

\* Every queued event is dispatched exactly once, provided no method of a queued
\* message calls back into the queue: dispatch_queued keeps tailhead across the call.
ExactlyOnce == NothingLost /\ NothingRepeated

\* A queued event is dispatched at most Early before its timetag, unless the
\* queue is being flushed by lo_server_enable_queue (dispatch_all).
NeverEarly ==
    [][\A n \in fired' \ fired : Frame.all \/ Head(queue).ts <= clock + Early]_vars

\* Bundles with no bundle inside.
Flat == {b \in Bundle : \A i \in 1 .. Len(Elements[b]) : Elements[b][i] \notin Bundle}

\* The messages queue_data may be given.
Queueable == {m \in Msg : \E b \in Bundle : /\ Timetag[b] # Immediate
                                            /\ \E i \in DOMAIN Elements[b] : Elements[b][i] = m}

\* A method of a queued message calls nothing that dispatches (see LoEventQueueProofs).
NoReentry == \A m \in Queueable : HandlerCalls[m] \subseteq {"return", "enable", "disable"}

\* Each message of a flat bundle is there once and nowhere else.
OnePlace ==
    \A b \in Flat : \A j \in DOMAIN Elements[b] : Elements[b][j] \in Msg =>
        /\ Elements[b][j] \notin Traffic \cup Local
        /\ \A c \in Bundle : \A i \in DOMAIN Elements[c] :
              Elements[c][i] = Elements[b][j] => c = b /\ i = j

\* The messages of a flat bundle are dispatched in the order they have in it,
\* whether at once, from the queue, or some each way because the queue was
\* enabled or disabled between two of them (lo_types.h: "preserve ordering").
BundleOrder ==
    \A b \in Flat : \A j \in 1 .. Len(Elements[b]) :
        Elements[b][j] \in ran =>
            \A i \in 1 .. j - 1 : Elements[b][i] \in Msg => Elements[b][i] \in ran

\* Datagrams cannot starve the queue: between an event's becoming due and its
\* being dispatched, or another one's, at most one datagram is read.
PromptDespiteTraffic == late <= 1

\* Every queued event is dispatched in the end, however many datagrams come.
EventuallyFired ==
    \A n \in 1 .. Cardinality(Msg) : (taken >= n) ~> (n \in fired)

\* The bundles begun and not ended, as the application counts them from the
\* start and end handlers, are those dispatch_data is in: "treating the start
\* handler as "push" and the end handler as "pop"" (lo_types.h).
BundleCallbacksNest ==
    LET InBundle(f) == f.op = "bundle"
        bundles == SelectSeq(stack, InBundle)
    IN  open = [k \in 1 .. Len(bundles) |-> bundles[k].b]

\* The source a handler is told is the peer that sent the message: s->addr when
\* the handler runs (lo_message_get_source "Returns the source (lo_address) of an
\* incoming message").
SourceIsSender ==
    [][\A m \in ran' \ ran : Sender[m] # NoAddr => addr' = Sender[m]]_vars

\* The queue and its dispatch implement LoScheduler. An event stops being pending
\* when its handler is called, though its node is freed only when that returns.
Scheduler == INSTANCE LoScheduler WITH
    pending <- {[ts |-> queue[i].ts, seq |-> queue[i].seq] :
                    i \in {k \in 1 .. Len(queue) : queue[k].seq \notin fired}},
    accepted <- taken,
    flushing <- \E k \in 1 .. Len(stack) : stack[k].op = "queued" /\ stack[k].all

\* Every behaviour is one the abstract scheduler allows: earliest first, never
\* early unless flushing, nothing lost and nothing repeated.
RefinesScheduler == Scheduler!SSpec
================================================================================
