---------------------------- MODULE LoStreamServer ----------------------------
(***************************************************************************)
(* The sockets of a TCP lo_server and the reassembly of messages from      *)
(* their streams (server.c, the build with poll): the table of open        *)
(* sockets, the buffer each one has, accept, recv, and the removal of      *)
(* connections, between calls of lo_server_recv and lo_server_recv_noblock.*)
(*                                                                         *)
(* The steps of the server are its system calls (poll, accept, recv), so   *)
(* that clients connect, send, close and fail between any two of them. A   *)
(* stream is a sequence of units: unit 1 of a message stands for its count *)
(* prefix, the others for its bytes. SLIP streams, which are rewritten to  *)
(* count-prefixed ones in the buffer, are not modelled here. Of the event  *)
(* queue (LoEventQueue) only one event is kept, and that it becomes due.   *)
(*                                                                         *)
(* Index i of `sockets' and `contexts' is index i of the C arrays; index 0 *)
(* is the listening socket, which has no entry here.                       *)
(***************************************************************************)
EXTENDS Integers, Sequences, FiniteSets, SequencesExt

CONSTANTS
    Conn,           \* connections clients may make, each once
    Length,         \* Length[c]: the units of each message c sends, in order
    Lossy,          \* bound: the connections that may fail
    LoneError,      \* connections whose failure poll reports as POLLERR alone
    NoConn,
    Later,          \* the message, if any, that is in a bundle of the future
    MinBuffer,      \* the 64 bytes a buffer is doubled from
    MaxBuffer       \* LO_MAX_MSG_SIZE, beyond which no buffer grows

ASSUME ConnAssumption ==
    /\ IsFiniteSet(Conn) /\ NoConn \notin Conn /\ Lossy \subseteq Conn /\ LoneError \subseteq Conn
    /\ Length \in [Conn -> Seq(Nat \ {0, 1})]
    /\ IsFiniteSet(Later) /\ Cardinality(Later) <= 1

ASSUME BufferAssumption ==
    /\ MinBuffer \in Nat \ {0} /\ MaxBuffer \in Nat
    /\ 2 * MinBuffer <= MaxBuffer

Fd == 1 .. Cardinality(Conn)
Message == UNION {{c} \X (1 .. Len(Length[c])) : c \in Conn}
Unit == UNION {{m} \X (1 .. Length[m[1]][m[2]]) : m \in Message}

Stream(c) == FlattenSeq([k \in 1 .. Len(Length[c]) |->
                            [j \in 1 .. Length[c][k] |-> <<<<c, k>>, j>>]])

VARIABLES
    client,         \* each client: "idle", "open", "closed" (shut down) or "reset"
    unsent,         \* what each client has yet to send
    wire,           \* what it has sent and the server not yet received
    backlog         \* connections to accept

VARIABLES
    fd,             \* the server's descriptor of each connection, 0 when it has none
    sockets,        \* s->sockets
    contexts,       \* s->contexts: the size and the data of each buffer
    sources,        \* s->sources: whose address each descriptor has
    event,          \* s->queued: no event, or one: its message, socket, and if it is due
    errno,          \* is errno EAGAIN
    pc,             \* "app", "wait" and "poll" (lo_server_wait, lo_server_recv in
                    \* poll), "raw" and "scan" (lo_server_recv_raw_stream in poll,
                    \* in the loop after it), or for ever: "spin" and "undefined"
    ready, failed,  \* in "scan": indices with revents left, those with POLLERR alone
    data, sock      \* its variables: the message taken, the descriptor read from

\* History, for the properties.
VARIABLES
    handled,        \* messages whose method was called: [msg |-> , src |-> , connected |-> ]
    dropped,        \* messages taken from a buffer and thrown away
    accepted,       \* did lo_server_recv_raw_stream come to its poll from accept
    shifted         \* was a socket removed when a later one had data buffered

peers == <<client, unsent, wire, backlog>>
table == <<fd, sockets, contexts, sources>>
scan == <<ready, failed, data, sock>>
vars == <<peers, table, event, errno, pc, scan, handled, dropped, accepted, shifted>>

N == Len(sockets)

--------------------------------------------------------------------------------
(***************************************************************************)
(* The buffers.                                                            *)
(***************************************************************************)
EmptyContext == [size |-> 0, data |-> <<>>]

\* The length of the whole message that waits at the head of a buffer, or 0. What
\* does not begin with a count prefix is taken for a length no buffer reaches.
lo_server_buffer_contains_msg(d) ==
    IF d # <<>> /\ d[1][2] = 1
    THEN LET m == d[1][1]
             length == Length[m[1]][m[2]]
         IN  IF length <= Len(d) THEN length ELSE 0
    ELSE 0

Whole == {i \in 1 .. N : lo_server_buffer_contains_msg(contexts[i].data) > 0}

\* The message at the head of d, and what is left of d without it.
FirstMessage(d) == SubSeq(d, 1, lo_server_buffer_contains_msg(d))

\* Seeded bug: the read offset is reset instead of moved back.
LeftoverNone(d) == <<>>

Leftover(d) == SubSeq(d, lo_server_buffer_contains_msg(d) + 1, Len(d))

\* Seeded bug: the whole of the buffer is to be free, not half of it.
BufferSizeWhole(size, used) ==
    IF size = 0 THEN 2 * MinBuffer ELSE IF used = 0 THEN size ELSE 0

\* The size a buffer with `used' units is given before recv: doubled until half
\* of it is free. 0 stands for a loop that does not end: the limit is reached
\* and less than half of it is free.
BufferSize(size, used) ==
    LET grown[z \in 1 .. MaxBuffer] ==
            IF z - used >= z \div 2 THEN z
            ELSE IF z = MaxBuffer THEN 0
            ELSE grown[IF 2 * z > MaxBuffer THEN MaxBuffer ELSE 2 * z]
    IN  IF size = 0 THEN grown[2 * MinBuffer] ELSE grown[size]

--------------------------------------------------------------------------------
(***************************************************************************)
(* The table of sockets.                                                   *)
(***************************************************************************)
FreeFd == CHOOSE f \in Fd : /\ \A c \in Conn : fd[c] # f
                            /\ \A g \in 1 .. f - 1 : \E c \in Conn : fd[c] = g

\* accept, lo_server_add_socket and init_context
lo_server_add_socket(c) ==
    /\ sockets' = Append(sockets, c)
    /\ contexts' = [contexts EXCEPT ![N + 1] = EmptyContext]
    /\ sources' = [sources EXCEPT ![FreeFd] = c]
    /\ fd' = [fd EXCEPT ![c] = FreeFd]

Accept == /\ backlog # <<>>
          /\ lo_server_add_socket(Head(backlog))
          /\ backlog' = Tail(backlog)

\* Seeded bug: the address of the removed socket is kept.
DelSocketKeepSource(i) ==
    /\ sockets' = RemoveAt(sockets, i)
    /\ contexts' = [contexts EXCEPT ![i] = EmptyContext]
    /\ fd' = [fd EXCEPT ![sockets[i]] = 0]
    /\ shifted' = (shifted \/ \E j \in i + 1 .. N : contexts[j].data # <<>>)
    /\ UNCHANGED sources

\* closesocket and lo_server_del_socket: the later sockets move down, their
\* contexts do not.
lo_server_del_socket(i) ==
    /\ sockets' = RemoveAt(sockets, i)
    /\ contexts' = [contexts EXCEPT ![i] = EmptyContext]
    /\ sources' = [sources EXCEPT ![fd[sockets[i]]] = NoConn]
    /\ fd' = [fd EXCEPT ![sockets[i]] = 0]
    /\ shifted' = (shifted \/ \E j \in i + 1 .. N : contexts[j].data # <<>>)

--------------------------------------------------------------------------------
(***************************************************************************)
(* Dispatch. What a method does is LoEventQueue's subject; here it is      *)
(* called at once, or the message waits in the queue for its timetag.      *)
(***************************************************************************)
NoEvent == [msg |-> <<>>, sock |-> 0, due |-> FALSE]

\* dispatch_method: the method is told the source kept for the descriptor.
Handle(m, s, connected) ==
    handled' = handled \cup {[msg |-> m, src |-> sources[s], connected |-> connected]}

dispatch_data(d, s) ==
    LET m == d[1][1]
    IN  /\ pc' = "app"
        /\ \/ m \notin Later /\ Handle(m, s, TRUE) /\ UNCHANGED event
           \/ /\ m \in Later
              /\ event' = [msg |-> m, sock |-> s, due |-> FALSE]
              /\ UNCHANGED handled

dispatch_queued ==
    /\ pc' = "app"
    /\ Handle(event.msg, event.sock, fd[event.msg[1]] = event.sock)
    /\ event' = NoEvent

\* Dispatch the message that waits in a buffer: the first in the table's order.
DispatchBuffered ==
    /\ Whole # {}
    /\ LET i == CHOOSE k \in Whole : \A j \in Whole : k <= j
       IN  /\ dispatch_data(FirstMessage(contexts[i].data), fd[sockets[i]])
           /\ contexts' = [contexts EXCEPT ![i].data = Leftover(@)]
    /\ UNCHANGED <<peers, fd, sockets, sources>>

--------------------------------------------------------------------------------
(***************************************************************************)
(* What poll reports.                                                      *)
(***************************************************************************)
Readable(c) == wire[c] # <<>> \/ client[c] \in {"closed", "reset"}

Ready == {i \in 1 .. N : Readable(sockets[i])} \cup {i \in {0} : backlog # <<>>}

Failed == {i \in Ready \ {0} : client[sockets[i]] = "reset" /\ sockets[i] \in LoneError}

FirstReady == CHOOSE i \in Ready : \A j \in Ready : i <= j

--------------------------------------------------------------------------------
(***************************************************************************)
(* lo_server_recv and lo_server_recv_noblock.                              *)
(***************************************************************************)
\* Seeded bug: lo_server_recv polls without a look at the buffers.
RecvUnbuffered ==
    \/ /\ event.due
       /\ dispatch_queued
       /\ UNCHANGED <<peers, table>>
    \/ /\ ~event.due
       /\ pc' = "poll"
       /\ UNCHANGED <<peers, table, event, handled>>

\* lo_server_recv entered: what is due, then what is in the buffers, then poll.
Recv ==
    \/ /\ event.due
       /\ dispatch_queued
       /\ UNCHANGED <<peers, table>>
    \/ /\ ~event.due /\ DispatchBuffered
    \/ /\ ~event.due /\ Whole = {}
       /\ pc' = "poll"
       /\ UNCHANGED <<peers, table, event, handled>>

lo_server_recv == /\ pc = "app" /\ Recv
                  /\ UNCHANGED <<errno, scan, dropped, accepted, shifted>>

\* lo_server_wait entered: it returns 1 for what is in the buffers, or polls.
lo_server_recv_noblock ==
    /\ pc = "app"
    /\ \/ Whole # {} /\ Recv
       \/ Whole = {} /\ pc' = "wait" /\ UNCHANGED <<peers, table, event, handled>>
    /\ UNCHANGED <<errno, scan, dropped, accepted, shifted>>

\* lo_server_wait accepts a connection and polls again.
WaitAccept ==
    /\ pc = "wait"
    /\ Accept
    /\ UNCHANGED <<client, unsent, wire, event, errno, pc, scan, handled, dropped,
                   accepted, shifted>>

\* It returns 1 for a socket to read, or an event due after its timeout.
WaitReady ==
    /\ pc = "wait"
    /\ \/ Ready # {} /\ FirstReady > 0 /\ FirstReady \notin Failed
       \/ Ready = {} /\ event.due
    /\ Recv
    /\ UNCHANGED <<errno, scan, dropped, accepted, shifted>>

\* It returns 0 when the first socket reported has failed, or after its timeout.
WaitNothing ==
    /\ pc = "wait"
    /\ \/ Ready # {} /\ FirstReady \in Failed
       \/ Ready = {} /\ ~event.due
    /\ pc' = "app"
    /\ UNCHANGED <<peers, table, event, errno, scan, handled, dropped, accepted, shifted>>

\* Seeded bug: after the timeout the sockets are read, due event or not.
PollTimeoutReads ==
    /\ pc = "poll"
    /\ Ready = {}
    /\ pc' = "raw"
    /\ data' = <<>> /\ sock' = 0 /\ accepted' = FALSE
    /\ UNCHANGED <<peers, table, event, errno, ready, failed, handled, dropped, shifted>>

\* The poll of lo_server_recv ends with an event due.
PollTimeout ==
    /\ pc = "poll"
    /\ Ready = {} /\ event.due
    /\ dispatch_queued
    /\ UNCHANGED <<peers, table, errno, scan, dropped, accepted, shifted>>

\* It ends with the first socket reported one that has failed: return 0.
PollFailed ==
    /\ pc = "poll"
    /\ Ready # {} /\ FirstReady \in Failed
    /\ pc' = "app"
    /\ UNCHANGED <<peers, table, event, errno, scan, handled, dropped, accepted, shifted>>

\* It ends with a socket to read: enter lo_server_recv_raw_stream.
PollReady ==
    /\ pc = "poll"
    /\ Ready # {} /\ FirstReady \notin Failed
    /\ pc' = "raw"
    /\ data' = <<>> /\ sock' = 0 /\ accepted' = FALSE
    /\ UNCHANGED <<peers, table, event, errno, ready, failed, handled, dropped, shifted>>

--------------------------------------------------------------------------------
(***************************************************************************)
(* lo_server_recv_raw_stream: again, poll without a timeout, and the loop  *)
(* over the sockets poll reported, the last one first.                     *)
(***************************************************************************)
RawBuffered ==
    /\ pc = "raw" /\ DispatchBuffered
    /\ UNCHANGED <<errno, scan, dropped, accepted, shifted>>

RawPoll ==
    /\ pc = "raw" /\ Whole = {}
    /\ Ready # {}
    /\ pc' = "scan"
    /\ ready' = Ready /\ failed' = Failed
    /\ accepted' = FALSE
    /\ UNCHANGED <<peers, table, event, errno, data, sock, handled, dropped, shifted>>

Scan == CHOOSE i \in ready : \A j \in ready : j <= i
Scanning == pc = "scan" /\ ready # {}

\* The message in hand is lost when the variable is assigned.
Dropped == IF data = <<>> THEN dropped ELSE dropped \cup {data[1][1]}

\* Seeded bug: the socket named is the last one reported, failed or not.
ScanFailedNamed ==
    /\ Scanning /\ Scan \in failed
    /\ lo_server_del_socket(Scan)
    /\ ready' = ready \ {Scan}
    /\ sock' = fd[sockets[Scan]]
    /\ UNCHANGED <<peers, event, errno, pc, failed, data, handled, dropped, accepted>>

\* A socket that has failed is closed and removed, and the loop goes on.
ScanFailed ==
    /\ Scanning /\ Scan \in failed
    /\ lo_server_del_socket(Scan)
    /\ ready' = ready \ {Scan}
    /\ UNCHANGED <<peers, event, errno, pc, failed, data, sock, handled, dropped, accepted>>

\* The listening socket, the last one looked at: accept, and back to again.
ScanAccept ==
    /\ Scanning /\ Scan = 0
    /\ Accept
    /\ pc' = "raw"
    /\ data' = <<>> /\ dropped' = Dropped
    /\ ready' = {} /\ failed' = {}
    /\ accepted' = TRUE
    /\ sock' = fd'[Head(backlog)]
    /\ UNCHANGED <<client, unsent, wire, event, errno, handled, shifted>>

\* The loop ends: dispatch what the last socket read gave, if anything.
ScanEnd ==
    /\ pc = "scan" /\ ready = {}
    /\ \/ data = <<>> /\ pc' = "app" /\ UNCHANGED <<event, handled>>
       \/ data # <<>> /\ dispatch_data(data, sock)
    /\ data' = <<>> /\ failed' = {} /\ sock' = 0
    /\ UNCHANGED <<peers, table, errno, ready, dropped, accepted, shifted>>

--------------------------------------------------------------------------------
(***************************************************************************)
(* lo_server_recv_raw_stream_socket: one step for each recv. Its buffer    *)
(* holds no whole message: lo_server_recv_raw_stream has looked.           *)
(***************************************************************************)
Reading == Scanning /\ Scan \notin failed \cup {0}
Peer == sockets[Scan]
Size == BufferSize(contexts[Scan].size, Len(contexts[Scan].data))
Left == Size - Len(contexts[Scan].data)

\* *pdata = 0, and the socket is the one lo_server_recv_raw_stream will name
Begin == data' = <<>> /\ dropped' = Dropped /\ sock' = fd[Peer]

\* No size satisfies the loop that doubles the buffer: the server hangs.
ReadSpin ==
    /\ Reading /\ Size = 0
    /\ pc' = "spin"
    /\ UNCHANGED <<peers, table, event, errno, scan, handled, dropped, accepted, shifted>>

\* recv returns data. Read again if the buffer is full without a whole message.
ReadData ==
    /\ Reading /\ Size > 0
    /\ wire[Peer] # <<>>
    /\ LET n == IF Len(wire[Peer]) < Left THEN Len(wire[Peer]) ELSE Left
           all == contexts[Scan].data \o SubSeq(wire[Peer], 1, n)
           whole == lo_server_buffer_contains_msg(all) > 0
       IN  /\ wire' = [wire EXCEPT ![Peer] = SubSeq(@, n + 1, Len(@))]
           /\ contexts' = [contexts EXCEPT ![Scan] =
                  [size |-> Size, data |-> IF whole THEN Leftover(all) ELSE all]]
           /\ data' = FirstMessage(all)
           /\ ready' = IF ~whole /\ n = Left THEN ready ELSE ready \ {Scan}
    /\ dropped' = Dropped
    /\ sock' = fd[Peer]
    /\ UNCHANGED <<client, unsent, backlog, fd, sockets, sources, event, errno, pc, failed,
                   handled, accepted, shifted>>

\* recv returns -1 with EAGAIN, which only a repeated one does.
ReadAgain ==
    /\ Reading /\ Size > 0
    /\ wire[Peer] = <<>> /\ client[Peer] = "open"
    /\ errno' = TRUE
    /\ contexts' = [contexts EXCEPT ![Scan].size = Size]
    /\ ready' = ready \ {Scan}
    /\ Begin
    /\ UNCHANGED <<peers, fd, sockets, sources, event, pc, failed, handled, accepted, shifted>>

\* Seeded bug: errno is looked at only when recv returned -1, never at the end.
ReadStaleKept ==
    /\ Reading /\ Size > 0
    /\ wire[Peer] = <<>> /\ client[Peer] = "closed"
    /\ contexts' = [contexts EXCEPT ![Scan].size = Size]
    /\ ready' = ready \ {Scan}
    /\ Begin
    /\ UNCHANGED <<peers, fd, sockets, sources, event, errno, pc, failed, handled, accepted,
                   shifted>>

\* recv returns 0, which leaves errno alone: EAGAIN from an earlier call keeps
\* the closed socket in the table.
ReadStale ==
    /\ Reading /\ Size > 0
    /\ wire[Peer] = <<>> /\ client[Peer] = "closed" /\ errno
    /\ contexts' = [contexts EXCEPT ![Scan].size = Size]
    /\ ready' = ready \ {Scan}
    /\ Begin
    /\ UNCHANGED <<peers, fd, sockets, sources, event, errno, pc, failed, handled, accepted,
                   shifted>>

\* recv returns 0 or fails: the socket is closed and removed.
ReadEnd ==
    /\ Reading /\ Size > 0
    /\ wire[Peer] = <<>>
    /\ \/ client[Peer] = "closed" /\ ~errno /\ UNCHANGED errno
       \/ client[Peer] = "reset" /\ errno' = FALSE
    /\ lo_server_del_socket(Scan)
    /\ ready' = ready \ {Scan}
    /\ Begin
    /\ UNCHANGED <<peers, event, pc, failed, handled, accepted>>

\* accept fails, for want of descriptors: lo_server_add_socket writes in front of
\* s->sources, which C leaves undefined. Nothing is said of what follows.
AcceptFails ==
    /\ pc = "wait" \/ (Scanning /\ Scan = 0)
    /\ backlog # <<>>
    /\ pc' = "undefined"
    /\ UNCHANGED <<peers, table, event, errno, scan, handled, dropped, accepted, shifted>>

--------------------------------------------------------------------------------
(***************************************************************************)
(* The clients and the clock.                                              *)
(***************************************************************************)
Connect(c) ==
    /\ client[c] = "idle"
    /\ client' = [client EXCEPT ![c] = "open"]
    /\ backlog' = Append(backlog, c)
    /\ UNCHANGED <<unsent, wire>>

\* Any number of units arrives at a time.
Send(c) ==
    /\ client[c] = "open" /\ unsent[c] # <<>>
    /\ \E n \in 1 .. Len(unsent[c]) :
          /\ wire' = [wire EXCEPT ![c] = @ \o SubSeq(unsent[c], 1, n)]
          /\ unsent' = [unsent EXCEPT ![c] = SubSeq(@, n + 1, Len(@))]
    /\ UNCHANGED <<client, backlog>>

Close(c) ==
    /\ client[c] = "open"
    /\ client' = [client EXCEPT ![c] = "closed"]
    /\ UNCHANGED <<unsent, wire, backlog>>

\* The connection is lost, with what was not yet received.
Reset(c) ==
    /\ c \in Lossy /\ client[c] \in {"open", "closed"}
    /\ client' = [client EXCEPT ![c] = "reset"]
    /\ wire' = [wire EXCEPT ![c] = <<>>]
    /\ unsent' = [unsent EXCEPT ![c] = <<>>]
    /\ UNCHANGED backlog

Clients == /\ \E c \in Conn : Connect(c) \/ Send(c) \/ Close(c) \/ Reset(c)
           /\ UNCHANGED <<table, event, errno, pc, scan, handled, dropped, accepted, shifted>>

Due == /\ event # NoEvent
       /\ event' = [event EXCEPT !.due = TRUE]
       /\ UNCHANGED <<peers, table, errno, pc, scan, handled, dropped, accepted, shifted>>

Init ==
    /\ client = [c \in Conn |-> "idle"]
    /\ unsent = [c \in Conn |-> Stream(c)]
    /\ wire = [c \in Conn |-> <<>>]
    /\ backlog = <<>>
    /\ fd = [c \in Conn |-> 0]
    /\ sockets = <<>>
    /\ contexts = [i \in 1 .. Cardinality(Conn) |-> EmptyContext]
    /\ sources = [f \in Fd |-> NoConn]
    /\ event = NoEvent /\ errno = FALSE
    /\ pc = "app" /\ ready = {} /\ failed = {} /\ data = <<>> /\ sock = 0
    /\ handled = {} /\ dropped = {} /\ accepted = FALSE /\ shifted = FALSE

Server ==
    \/ lo_server_recv \/ lo_server_recv_noblock
    \/ WaitAccept \/ WaitReady \/ WaitNothing
    \/ PollTimeout \/ PollFailed \/ PollReady
    \/ RawBuffered \/ RawPoll
    \/ ScanFailed \/ ScanAccept \/ ScanEnd
    \/ ReadSpin \/ ReadData \/ ReadAgain \/ ReadStale \/ ReadEnd
    \/ AcceptFails

Next == Server \/ Clients \/ Due

Spec == Init /\ [][Next]_vars

\* The thread of the server keeps calling it, and goes on in what it has called
\* (thread_func of server_thread.c). Time passes. Clients need do nothing.
FairSpec == Spec /\ WF_vars(Server) /\ WF_vars(Due)

--------------------------------------------------------------------------------
(***************************************************************************)
(* Properties.                                                             *)
(***************************************************************************)
\* The types of the variables.
TypeOK ==
    /\ client \in [Conn -> {"idle", "open", "closed", "reset"}]
    /\ unsent \in [Conn -> Seq(Unit)] /\ wire \in [Conn -> Seq(Unit)]
    /\ backlog \in Seq(Conn)
    /\ fd \in [Conn -> {0} \cup Fd]
    /\ sockets \in Seq(Conn) /\ N <= Cardinality(Conn)
    /\ contexts \in [1 .. Cardinality(Conn) ->
                        [size : 0 .. MaxBuffer, data : Seq(Unit)]]
    /\ sources \in [Fd -> Conn \cup {NoConn}]
    /\ event \in {NoEvent} \cup [msg : Message, sock : Fd, due : BOOLEAN]
    /\ errno \in BOOLEAN
    /\ pc \in {"app", "wait", "poll", "raw", "scan", "spin", "undefined"}
    /\ ready \subseteq 0 .. N /\ failed \subseteq Nat
    /\ data \in Seq(Unit) /\ sock \in {0} \cup Fd
    /\ handled \subseteq [msg : Message, src : Conn \cup {NoConn}, connected : BOOLEAN]
    /\ dropped \subseteq Message
    /\ accepted \in BOOLEAN /\ shifted \in BOOLEAN

\* The table and the descriptors agree: a connection that was accepted and not
\* closed is in the table once, its descriptor is its own, and the source kept
\* under that descriptor is its address (lo_server_add_socket,
\* lo_server_del_socket), descriptors being used again and again. (This is the
\* module's type invariant too.)
TableMatches ==
    /\ TypeOK
    /\ \A i, j \in 1 .. N : i # j => sockets[i] # sockets[j] /\ fd[sockets[i]] # fd[sockets[j]]
    /\ \A c \in Conn : fd[c] # 0 <=> \E i \in 1 .. N : sockets[i] = c
    /\ \A f \in Fd : sources[f] = NoConn <=> \A c \in Conn : fd[c] # f
    /\ \A i \in 1 .. N : sources[fd[sockets[i]]] = sockets[i]

\* The messages of c that were taken from its buffer: those whose method was
\* called, that were thrown away, that are in hand or in the queue.
Taken(c) == {k \in 1 .. Len(Length[c]) :
    \/ <<c, k>> \in dropped \cup {h.msg : h \in handled}
    \/ <<c, k>> = event.msg
    \/ data # <<>> /\ data[1][1] = <<c, k>>}

\* The first k messages of c, and no others, were taken; its buffer, the wire and
\* the client hold the others.
InStep(c, buffer) ==
    LET k == Cardinality(Taken(c))
    IN  /\ Taken(c) = 1 .. k
        /\ buffer \o wire[c] \o unsent[c] =
               FlattenSeq([n \in 1 .. Len(Length[c]) - k |->
                   [j \in 1 .. Length[c][n + k] |-> <<<<c, n + k>>, j>>]])

\* However a stream is split and the buffer grown, each message is taken from it
\* whole, once and in order - until a socket is removed while a later one has data
\* in its buffer (lo_server_del_socket), for then buffers and sockets part.
StreamsInStep ==
    shifted \/ \A i \in 1 .. N : client[sockets[i]] # "reset" =>
                    InStep(sockets[i], contexts[i].data)

\* A whole message that was received on a socket is seen in its buffer ("Return
\* message length if a whole message is waiting in the socket's buffer",
\* lo_server_buffer_contains_msg). Not so once lo_server_del_socket has moved the
\* sockets and not their contexts.
WaitingSeen ==
    \A i \in 1 .. N : client[sockets[i]] # "reset" =>
        LET c == sockets[i]
            k == Cardinality(Taken(c)) + 1
            coming == wire[c] \o unsent[c]
        IN  k <= Len(Length[c]) /\ (\A j \in 1 .. Len(coming) : coming[j][1][2] > k)
                => lo_server_buffer_contains_msg(contexts[i].data) > 0

\* The source a method is told is the peer that sent the message, also when
\* several sockets were read in one pass; for a message that waited in the queue,
\* if its connection is still open and its descriptor not another's.
SourceIsPeer == shifted \/ \A h \in handled : h.connected => h.src = h.msg[1]

\* No message taken from a buffer is thrown away ("we are forced to leave
\* undispatched messages in the buffer for later", server.c). It is when two
\* sockets are found ready at once: the second read clears the first one's.
NothingDropped == dropped = {}

\* lo_server_recv cannot block for ever, deaf to its event queue, in the second
\* poll, which has no timeout - except after accepting a connection there.
BlocksOnlyAfterAccept ==
    pc = "raw" /\ Whole = {} /\ Ready = {} => accepted

\* The doubling of the buffer ends for every message up to half of LO_MAX_MSG_SIZE
\* (and one byte), at whatever point of it the stream is cut; it need not for a
\* longer one, although lo_send would send it.
SpinsOnlyOnLong ==
    pc = "spin" /\ ~shifted =>
        LET m == contexts[Scan].data[1][1]
        IN  Length[m[1]][m[2]] > MaxBuffer - MaxBuffer \div 2 + 1

\* The server is gone or hangs, and a connection whose failure only shows as
\* POLLERR makes lo_server_recv and lo_server_wait return 0 for ever.
Dead == \/ pc \in {"spin", "undefined"}
        \/ shifted
        \/ \E i \in 1 .. N : sockets[i] \in LoneError /\ client[sockets[i]] = "reset"

Arrived(m) ==
    /\ client[m[1]] \in {"open", "closed"}
    /\ \A j \in 1 .. Len(unsent[m[1]]) : unsent[m[1]][j][1][2] > m[2]

Done(m) == \/ m = event.msg
           \/ m \in dropped \cup {h.msg : h \in handled}

\* Every message wholly sent on a connection that is not lost is taken up in the
\* end: no connection starves another, no wake-up of poll is missed, no whole
\* message is left behind in a buffer while the server sleeps.
EventuallyTaken == \A m \in Message :
    Arrived(m) ~> (Done(m) \/ client[m[1]] = "reset" \/ Dead)

\* A closed connection is removed from the table in the end, unless an EAGAIN of
\* another recv is still in errno when recv returns 0 for it.
ClosedIsRemoved == \A c \in Conn :
    client[c] = "closed" ~> (fd[c] = 0 /\ \A i \in 1 .. Len(backlog) : backlog[i] # c)
                            \/ errno \/ Dead
================================================================================
