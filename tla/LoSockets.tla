------------------------------ MODULE LoSockets ------------------------------
(***************************************************************************)
(* Who opens, keeps, lends and closes a socket descriptor: the servers'    *)
(* sockets arrays, the lo_addresses that send on a socket of their own, on *)
(* a server's, or on one they have lent to a server, and the global        *)
(* lo_client_sockets (server.c, send.c, address.c).                        *)
(*                                                                         *)
(* A descriptor is a small number that the kernel uses again as soon as it *)
(* is closed.  The code keeps and compares numbers only.  Here a kept      *)
(* descriptor is a handle, the number with the socket it stood for when it *)
(* was kept, so that one can say that a handle has gone stale; every test  *)
(* and every system call uses the number alone.                            *)
(*                                                                         *)
(* The program is one thread: a call in progress (call) excludes any other *)
(* call, and only peers act meanwhile.  A server that runs in a thread of  *)
(* its own shares these tables with the senders without a lock; that is    *)
(* not modelled.                                                           *)
(***************************************************************************)
EXTENDS Integers, Sequences, FiniteSets, SequencesExt

CONSTANTS
    Addr,       \* addresses the application can make
    Server,     \* servers the application can make
    NFd,        \* descriptors the process may have open at once
    MaxOpens,   \* bound: sockets opened in a behaviour
    MaxTries,   \* attempts at a free port (17 in the code)
    None

Fd == 1..NFd
Proto == {"udp", "tcp"}
NoSock == [fd |-> 0, of |-> 0]          \* the code's -1
Handle == [fd : Fd, of : 1..MaxOpens] \cup {NoSock}

lo_address == [proto : Proto, sock : Handle, own : BOOLEAN]
Source == [sock : Handle, proto : Proto]
lo_server == [proto : Proto, sockets : Seq(Handle), sources : [Fd -> Source \cup {None}]]

ASSUME BoundsAssumption ==
    NFd \in Nat \ {0} /\ MaxOpens \in Nat /\ MaxTries \in Nat \ {0}

ASSUME NoneAssumption ==
    None \notin Addr \cup Server \cup Proto \cup lo_address \cup Source \cup lo_server

VARIABLES
    kernel,     \* descriptor -> the socket it stands for, 0 when it is closed
    sock,       \* the sockets opened so far
    addr,       \* the live addresses
    server,     \* the live servers
    client,     \* lo_client_sockets
    call,       \* the call in progress
    shared,     \* ghost: sockets that had two holders
    lost,       \* ghost: sockets that the code drops, by a known path, unclosed
    astray      \* ghost: a number was used after it came to mean another socket

vars == <<kernel, sock, addr, server, client, call, shared, lost, astray>>
ghosts == <<shared, lost, astray>>

Idle == [at |-> "idle"]

Names(h) == IF h.fd = 0 THEN 0 ELSE kernel[h.fd]
Open(i) == \E f \in Fd : kernel[f] = i
Wrong(h) == Names(h) \notin {0, h.of}

-----------------------------------------------------------------------------
(* The kernel: socket(), accept() and close(). *)

FreeFds == {f \in Fd : kernel[f] = 0}
NextFd == CHOOSE f \in FreeFds : \A g \in FreeFds : f <= g
CanOpen == FreeFds # {} /\ Len(sock) < MaxOpens
NewHandle == [fd |-> NextFd, of |-> Len(sock) + 1]

\* Only a stream has a peer that can leave.
Opens(stream, nonblock) ==
    /\ CanOpen
    /\ kernel' = [kernel EXCEPT ![NextFd] = Len(sock) + 1]
    /\ sock' = Append(sock, [nonblock |-> nonblock, wire |-> "whole",
                             peer |-> IF stream THEN "up" ELSE "none"])

Without(fds) == [f \in Fd |-> IF f \in fds THEN 0 ELSE kernel[f]]

\* The other end leaves: from then on recv tells, and send may fail.
PeerLeaves(i) ==
    /\ Open(i) /\ sock[i].peer = "up"
    /\ sock' = [sock EXCEPT ![i].peer = "left"]
    /\ UNCHANGED <<kernel, addr, server, client, call, ghosts>>

-----------------------------------------------------------------------------
(* lo_server_new_with_proto_internal and lo_server_free *)

EmptySources == [f \in Fd |-> None]

lo_server_new(s, p) ==
    /\ call = Idle /\ server[s] = None
    /\ server' = [server EXCEPT ![s] =
                    [proto |-> p, sockets |-> <<NoSock>>, sources |-> EmptySources]]
    /\ call' = [at |-> "socket()", server |-> s, tries |-> 0]
    /\ UNCHANGED <<kernel, sock, addr, client, ghosts>>

\* Seeded bug: only the server's own socket is closed.
FreeOwnOnly(s) ==
    LET h == server[s].sockets[1] IN
    /\ kernel' = Without({h.fd})
    /\ client' = IF client[server[s].proto].fd = h.fd /\ h.fd # 0
                 THEN [client EXCEPT ![server[s].proto] = NoSock] ELSE client
    /\ server' = [server EXCEPT ![s] = None]
    /\ astray' = (astray \/ Wrong(h))
    /\ UNCHANGED <<sock, addr, shared, lost>>

\* lo_server_free closes by number, and forgets the server's descriptor as the
\* global client socket of its protocol.
lo_server_free(s) ==
    LET hs == ToSet(server[s].sockets)
        fds == {h.fd : h \in hs} \ {0}
        p == server[s].proto
    IN  /\ kernel' = Without(fds)
        /\ client' = IF client[p].fd \in fds THEN [client EXCEPT ![p] = NoSock]
                     ELSE client
        /\ server' = [server EXCEPT ![s] = None]
        /\ astray' = (astray \/ \E f \in fds : kernel[f] # 0
                                   /\ \A h \in hs : h.of # kernel[f])
        /\ UNCHANGED <<sock, addr, shared, lost>>

FreeServer(s) ==
    /\ call = Idle /\ server[s] # None
    /\ lo_server_free(s)
    /\ UNCHANGED call

\* One turn of the loop that looks for a free port.
OpenServerSocket ==
    /\ call.at = "socket()"
    /\ Opens(FALSE, FALSE)
    /\ server' = [server EXCEPT ![call.server].sockets[1] = NewHandle]
    /\ call' = [call EXCEPT !.at = "bind"]
    /\ UNCHANGED <<addr, client, ghosts>>

\* getaddrinfo or socket() fails.
OpenServerFails ==
    /\ call.at = "socket()"
    /\ lo_server_free(call.server)
    /\ call' = Idle

\* The port is taken: the next turn overwrites the descriptor without closing
\* it.  After the last turn the server is freed, with the last descriptor.
BindTaken ==
    /\ call.at = "bind"
    /\ IF call.tries + 1 < MaxTries
       THEN /\ server' = [server EXCEPT ![call.server].sockets[1] = NoSock]
            /\ call' = [call EXCEPT !.at = "socket()", !.tries = call.tries + 1]
            /\ lost' = lost \cup {server[call.server].sockets[1].of}
            /\ UNCHANGED <<kernel, sock, addr, client, shared, astray>>
       ELSE lo_server_free(call.server) /\ call' = Idle

\* Another error of bind or of setsockopt.
BindFails ==
    /\ call.at = "bind"
    /\ lo_server_free(call.server)
    /\ call' = Idle

\* The group of a multicast server, which is UDP, cannot be joined:
\* lo_server_join_multicast_group frees the server.
lo_server_join_multicast_group ==
    /\ call.at = "bind" /\ server[call.server].proto = "udp"
    /\ lo_server_free(call.server)
    /\ call' = Idle

\* lo_inaddr_find_iface does not find the interface to join on: the error is
\* returned, and the half-made server abandoned as it is.
IfaceUnknown ==
    /\ call.at = "bind" /\ server[call.server].proto = "udp"
    /\ server' = [server EXCEPT ![call.server] = None]
    /\ lost' = lost \cup {server[call.server].sockets[1].of}
    /\ call' = Idle
    /\ UNCHANGED <<kernel, sock, addr, client, shared, astray>>

BindOk ==
    /\ call.at = "bind"
    /\ client' = [client EXCEPT ![server[call.server].proto] =
                                    server[call.server].sockets[1]]
    /\ call' = Idle
    /\ UNCHANGED <<kernel, sock, addr, server, ghosts>>

-----------------------------------------------------------------------------
(* The server's table of sockets *)

\* The address on file for a socket: a copy of the one it was lent by, or made
\* from what accept tells.  The copy has the socket and the protocol, and none
\* of the flags.
lo_address_copy(a) == [sock |-> a.sock, proto |-> a.proto]
lo_address_init_with_sockaddr(h) == [sock |-> h, proto |-> "tcp"]

\* lo_server_add_socket appends the descriptor and files the sender's address
\* under it; lo_server_del_socket takes both out again.
lo_server_add_socket(srv, s, h, a) ==
    LET t == srv[s] IN
    [srv EXCEPT ![s] = [t EXCEPT !.sockets = Append(t.sockets, h),
                                 !.sources = [t.sources EXCEPT ![h.fd] = a]]]

lo_server_del_socket(srv, s, k) ==
    LET t == srv[s] IN
    [srv EXCEPT ![s] = [t EXCEPT !.sources = [t.sources EXCEPT ![t.sockets[k].fd] = None],
                                 !.sockets = RemoveAt(t.sockets, k)]]

Accept(s) ==
    /\ call = Idle /\ server[s] # None /\ server[s].proto = "tcp"
    /\ Opens(TRUE, TRUE)
    /\ server' = lo_server_add_socket(server, s, NewHandle,
                                       lo_address_init_with_sockaddr(NewHandle))
    /\ UNCHANGED <<addr, client, call, ghosts>>

\* recv on an accepted or lent socket gives an error or the end of the stream,
\* on a closed number always: lo_server_recv_raw_stream_socket closes the
\* number and deletes the entry.
RecvEnds(s) ==
    /\ call = Idle /\ server[s] # None /\ server[s].proto = "tcp"
    /\ \E k \in 2..Len(server[s].sockets) :
         LET h == server[s].sockets[k] IN
         /\ Names(h) # 0 => sock[Names(h)].peer \in {"left", "reset"}
         /\ kernel' = Without({h.fd})
         /\ server' = lo_server_del_socket(server, s, k)
         /\ astray' = (astray \/ Wrong(h))
    /\ UNCHANGED <<sock, addr, client, call, shared, lost>>

-----------------------------------------------------------------------------
(* Addresses *)

lo_address_new(a, p) ==
    /\ call = Idle /\ addr[a] = None
    /\ addr' = [addr EXCEPT ![a] = [proto |-> p, sock |-> NoSock, own |-> TRUE]]
    /\ UNCHANGED <<kernel, sock, server, client, call, ghosts>>

lo_address_free(a) ==
    /\ call = Idle /\ addr[a] # None
    /\ LET h == addr[a].sock IN
       IF addr[a].own
       THEN /\ kernel' = Without({h.fd})
            /\ astray' = (astray \/ Wrong(h))
       ELSE UNCHANGED <<kernel, astray>>
    /\ addr' = [addr EXCEPT ![a] = None]
    /\ UNCHANGED <<sock, server, client, call, shared, lost>>

-----------------------------------------------------------------------------
(* Sending.  The target is an address of the application or, in a method   *)
(* that answers, the source address that the server keeps for a connection.*)

ToAddr(a) == [addr |-> a, server |-> None, fd |-> 0]
ToSource(s, f) == [addr |-> None, server |-> s, fd |-> f]
IsSource(to) == to.server # None

Target(to) ==
    IF IsSource(to) THEN server[to.server].sources[to.fd] ELSE addr[to.addr]

\* addr and server after the target's socket is set.
AddrSet(to, h) ==
    IF IsSource(to) THEN addr ELSE [addr EXCEPT ![to.addr].sock = h]
ServerSet(srv, to, h) ==
    IF IsSource(to) THEN [srv EXCEPT ![to.server].sources[to.fd].sock = h] ELSE srv

Owned(to) == IF IsSource(to) THEN FALSE ELSE addr[to.addr].own

StartSend(to, from, again) ==
    call' = [at |-> "send_data", to |-> to, from |-> from, again |-> again,
             using |-> NoSock, wrote |-> 0, short |-> FALSE]

\* lo_send_message_from may try a second time, lo_send_bundle_from does not.
Send(a, from, again) ==
    /\ call = Idle /\ addr[a] # None /\ (from # None => server[from] # None)
    /\ StartSend(ToAddr(a), from, again)
    /\ UNCHANGED <<kernel, sock, addr, server, client, ghosts>>

Reply(s, f, from, again) ==
    /\ call = Idle /\ server[s] # None /\ server[s].proto = "tcp"
    /\ server[s].sources[f] # None
    /\ from \in {s, None}
    /\ StartSend(ToSource(s, f), from, again)
    /\ UNCHANGED <<kernel, sock, addr, server, client, ghosts>>

Returns(ret, wrote, short) ==
    [at |-> "return", ret |-> ret, wrote |-> wrote, short |-> short]

IsTcp == Target(call.to).proto = "tcp"

\* -1 from send_data: lo_send_message_from tries again once, if the target
\* still says that it is a TCP address.
Failed(proto) ==
    call' = IF call.again /\ proto = "tcp"
            THEN [call EXCEPT !.at = "send_data", !.again = FALSE, !.short = FALSE]
            ELSE Returns("failed", call.wrote, call.short)

NotSent ==
    /\ Failed(Target(call.to).proto)
    /\ UNCHANGED <<kernel, sock, addr, server, client, ghosts>>

TooLong == call.at = "send_data" /\ NotSent

\* lo_address_resolve does not find the host.  It is called while the address is
\* not resolved, so before the first socket.
Unresolved == call.at = "send_data" /\ Target(call.to).sock.fd = 0 /\ NotSent

\* The socket to send on: for UDP the server's own, or else the last UDP
\* server's; otherwise the target's own, if it has one.
Chosen ==
    CASE ~IsTcp /\ call.from # None -> server[call.from].sockets[1]
      [] ~IsTcp /\ call.from = None /\ client["udp"].fd # 0 -> client["udp"]
      [] OTHER -> Target(call.to).sock

ChooseSocket ==
    /\ call.at = "send_data" /\ Chosen.fd # 0
    /\ call' = [call EXCEPT !.using = Chosen,
                            !.at = IF IsTcp THEN "prefix" ELSE "data"]
    /\ UNCHANGED <<kernel, sock, addr, server, client, ghosts>>

\* The new socket of a TCP address goes to the sending server too, unless the
\* server has an address on file for the number; the server closes it then.
\* Nothing ever makes the address the owner again.
Lends == /\ call.from # None /\ IsTcp
         /\ server[call.from].sources[NextFd] = None

create_socket ==
    /\ call.at = "send_data" /\ Chosen.fd = 0
    /\ Opens(IsTcp, Lends)
    /\ LET a == lo_address_copy([Target(call.to) EXCEPT !.sock = NewHandle])
       IN  server' = ServerSet(IF Lends THEN lo_server_add_socket(server, call.from, NewHandle, a)
                               ELSE server, call.to, NewHandle)
    /\ addr' = IF IsSource(call.to) THEN addr
               ELSE LET b == addr[call.to.addr] IN
                    [addr EXCEPT ![call.to.addr] =
                        [b EXCEPT !.sock = NewHandle, !.own = b.own /\ ~Lends]]
    /\ call' = [call EXCEPT !.using = NewHandle,
                            !.at = IF IsTcp THEN "prefix" ELSE "data"]
    /\ shared' = IF Lends THEN shared \cup {NewHandle.of} ELSE shared
    /\ lost' = IF Lends \/ Owned(call.to) THEN lost ELSE lost \cup {NewHandle.of}
    /\ UNCHANGED <<client, astray>>

\* socket() fails, or connect does and the descriptor is closed again.
CreateFails ==
    /\ call.at = "send_data" /\ Chosen.fd = 0
    /\ NotSent

\* The sending server without the entry of a number, if it has one, and whether
\* the target itself goes with it.
Deleted(fd) ==
    IF call.from = None THEN server
    ELSE LET k == SelectInSeq(server[call.from].sockets, LAMBDA h : h.fd = fd)
         IN  IF k = 0 THEN server ELSE lo_server_del_socket(server, call.from, k)

Wiped == /\ IsSource(call.to)
         /\ LET h == Target(call.to).sock
            IN  Deleted(h.fd)[call.to.server].sources[call.to.fd] = None

-----------------------------------------------------------------------------
(* What send() does with a part of a frame.  wire tells what the stream    *)
(* ends in: whole frames, a prefix whose data is still to come, a frame     *)
(* that was cut, or something written after that.                          *)

Sink == Names(call.using)

\* A closed number and a reset connection take nothing.
CanWrite == Sink # 0 /\ sock[Sink].peer # "reset"

Wire(part, end) ==
    LET w == sock[Sink].wire IN
    IF w \in {"cut", "torn"} \/ (w = "prefix" /\ part = "prefix") THEN "torn" ELSE end

Writes(part, end) ==
    /\ CanWrite
    /\ sock' = [sock EXCEPT ![Sink].wire = Wire(part, end)]
    /\ astray' = (astray \/ Wrong(call.using))
    /\ UNCHANGED <<kernel, addr, server, client, shared, lost>>

\* Fewer bytes of a stream than asked for: a non-blocking socket whose buffer is full, or
\* a blocking one whose peer resets the connection in the middle.
WritesShort(part) ==
    /\ CanWrite /\ sock[Sink].peer # "none"
    /\ LET w == sock[Sink] IN
       sock' = [sock EXCEPT ![Sink] =
                   [w EXCEPT !.wire = Wire(part, "cut"),
                             !.peer = IF w.nonblock THEN w.peer ELSE "reset"]]
    /\ astray' = (astray \/ Wrong(call.using))
    /\ UNCHANGED <<kernel, addr, server, client, shared, lost>>

SendPrefix ==
    /\ call.at = "prefix"
    /\ Writes("prefix", "prefix")
    /\ call' = [call EXCEPT !.at = "data"]

\* Only -1 is looked for: the data follows a prefix that was cut.
SendPrefixShort ==
    /\ call.at = "prefix"
    /\ WritesShort("prefix")
    /\ call' = [call EXCEPT !.at = "data", !.short = TRUE]

\* An address set to SLIP sends no prefix; a server's copy of an address is
\* never set to it.
SkipPrefix ==
    /\ call.at = "prefix" /\ ~IsSource(call.to)
    /\ call' = [call EXCEPT !.at = "data"]
    /\ UNCHANGED <<kernel, sock, addr, server, client, ghosts>>

\* A datagram leaves the stream of a number it reaches by mistake alone.
SendData ==
    /\ call.at = "data"
    /\ Writes("data", IF IsTcp THEN "whole" ELSE sock[Sink].wire)
    /\ call' = Returns("ok", IF call.short THEN call.wrote ELSE call.wrote + 1, call.short)

SendDataShort ==
    /\ call.at = "data" /\ IsTcp
    /\ WritesShort("data")
    /\ call' = Returns("ok", call.wrote, TRUE)

\* Seeded bug: the result of sendto is not looked at.
DatagramFailsQuietly ==
    /\ call.at = "data" /\ ~IsTcp
    /\ call' = Returns("ok", call.wrote, call.short)
    /\ UNCHANGED <<kernel, sock, addr, server, client, ghosts>>

\* sendto() returns -1 for every address the name resolved to.
DatagramFails ==
    /\ call.at = "data" /\ ~IsTcp
    /\ Failed("udp")
    /\ UNCHANGED <<kernel, sock, addr, server, client, ghosts>>

\* Seeded bugs: the target keeps the number of the socket that was closed; the
\* socket is not closed.
StreamFailsKeeps ==
    /\ call.at \in {"prefix", "data"} /\ IsTcp /\ ~Wiped
    /\ LET h == Target(call.to).sock IN
       /\ kernel' = Without({h.fd})
       /\ server' = Deleted(h.fd)
       /\ shared' = IF IsSource(call.to) THEN shared \cup {h.of} ELSE shared
       /\ astray' = (astray \/ Wrong(h))
    /\ Failed("tcp")
    /\ UNCHANGED <<sock, addr, client, lost>>

StreamFailsOpen ==
    /\ call.at \in {"prefix", "data"} /\ IsTcp /\ ~Wiped
    /\ Failed("tcp")
    /\ UNCHANGED <<kernel, sock, addr, server, client, ghosts>>

\* send() returns -1: the number is taken out of the sending server and closed,
\* and the target has no socket any more.
StreamFails ==
    /\ call.at \in {"prefix", "data"} /\ IsTcp /\ ~Wiped
    /\ LET h == Target(call.to).sock IN
       /\ kernel' = Without({h.fd})
       /\ addr' = AddrSet(call.to, NoSock)
       /\ server' = ServerSet(Deleted(h.fd), call.to, NoSock)
       /\ shared' = IF IsSource(call.to) THEN shared \cup {h.of} ELSE shared
       /\ astray' = (astray \/ Wrong(h))
    /\ Failed("tcp")
    /\ UNCHANGED <<sock, client, lost>>

\* The same for an answer that the server sends itself: the target is the
\* server's copy, and deleting the entry wipes it before its socket is closed.
\* What is closed then is -1, and there is no retry without a protocol.
WipedFails ==
    /\ call.at \in {"prefix", "data"} /\ IsTcp /\ Wiped
    /\ server' = Deleted(Target(call.to).sock.fd)
    /\ lost' = lost \cup {Target(call.to).sock.of}
    /\ Failed(None)
    /\ UNCHANGED <<kernel, sock, addr, client, shared, astray>>

Return ==
    /\ call.at = "return"
    /\ call' = Idle
    /\ UNCHANGED <<kernel, sock, addr, server, client, ghosts>>

-----------------------------------------------------------------------------
Init ==
    /\ kernel = [f \in Fd |-> 0]
    /\ sock = <<>>
    /\ addr = [a \in Addr |-> None]
    /\ server = [s \in Server |-> None]
    /\ client = [p \in Proto |-> NoSock]
    /\ call = Idle
    /\ shared = {} /\ lost = {} /\ astray = FALSE

Step ==
    \/ \E i \in 1..Len(sock) : PeerLeaves(i)
    \/ \E s \in Server :
         \/ \E p \in Proto : lo_server_new(s, p)
         \/ FreeServer(s) \/ Accept(s) \/ RecvEnds(s)
    \/ OpenServerSocket \/ OpenServerFails
    \/ BindTaken \/ BindFails \/ BindOk
    \/ lo_server_join_multicast_group \/ IfaceUnknown
    \/ \E a \in Addr :
         \/ \E p \in Proto : lo_address_new(a, p)
         \/ lo_address_free(a)
    \/ \E again \in BOOLEAN, from \in Server \cup {None} :
         \/ \E a \in Addr : Send(a, from, again)
         \/ \E s \in Server, f \in Fd : Reply(s, f, from, again)
    \/ TooLong \/ Unresolved \/ ChooseSocket \/ create_socket \/ CreateFails
    \/ SendPrefix \/ SendPrefixShort \/ SkipPrefix
    \/ SendData \/ SendDataShort
    \/ DatagramFails \/ StreamFails \/ WipedFails
    \/ Return

\* Bound: nothing is followed beyond the use of a number that stands for another
\* socket by then.
Next == ~astray /\ Step

Spec == Init /\ [][Next]_vars

-----------------------------------------------------------------------------
(* Properties *)

Holds(h) == h.fd = 0 \/ Names(h) = h.of \/ h.of \in shared

\* A descriptor that someone keeps is open and still the socket it was, so that
\* nothing is sent to, or closes, somebody else's socket: unless the socket was
\* lent to a server, or a method answered on it without naming its server, and
\* one of the two holders closed it.  The global client sockets never go stale,
\* and a server always keeps its own socket, the zeroth, which accept and UDP
\* sends take without a look at sockets_len.
HeldIsOpen ==
    IF astray THEN shared # {}
    ELSE /\ \A a \in Addr : addr[a] # None => Holds(addr[a].sock)
         /\ \A s \in Server : server[s] # None =>
               /\ server[s].sockets # <<>>
               /\ \A k \in 1..Len(server[s].sockets) : Holds(server[s].sockets[k])
               /\ \A f \in Fd : server[s].sources[f] # None => Holds(server[s].sources[f].sock)
         /\ \A p \in Proto : client[p].fd # 0 =>
               \E s \in Server : server[s] # None /\ server[s].proto = p
                                 /\ server[s].sockets[1] = client[p]

\* An open socket has someone who will close it, an address that owns it or a
\* server, unless it was dropped in one of four ways the code has: a port found
\* taken, an unknown interface, an answer that failed, and a TCP address that
\* once lent its socket and opened one of its own later.
AccountedFor ==
    astray \/ \A i \in 1..Len(sock) : Open(i) =>
        \/ i \in lost
        \/ \E a \in Addr : addr[a] # None /\ addr[a].own /\ addr[a].sock.of = i
        \/ \E s \in Server : server[s] # None
                             /\ \E h \in ToSet(server[s].sockets) : h.of = i

\* Nothing is written into a stream after a frame that was cut short, so that
\* the receiver stays in step: unless the socket is non-blocking, which every
\* socket in a server's table is.
FramesWhole ==
    astray \/ \A i \in 1..Len(sock) : sock[i].wire = "torn" => sock[i].nonblock

\* A call that fails has put no whole message on the wire, one that succeeds
\* exactly one, even when it had to try twice: unless send() took a part only.
SentOnce ==
    call.at = "return" =>
        IF call.ret = "ok" /\ ~call.short THEN call.wrote = 1 ELSE call.wrote = 0
=============================================================================
