--------------------------- MODULE LoSocketsProofs ---------------------------
(***************************************************************************)
(* Proofs about LoSockets, for any number of addresses, servers and        *)
(* descriptors: a descriptor that is kept is open and the same socket, an  *)
(* open socket has an owner, frames stay whole, a message is sent once.    *)
(*                                                                         *)
(* A handle is held by targets (what one sends to: an address or a source  *)
(* a server keeps) and kept in the tables of servers.  What the proofs     *)
(* rest on is who may share a handle with whom.                            *)
(***************************************************************************)
EXTENDS LoSockets, LoSequenceLemmas, FiniteSetTheorems

Targets == {ToAddr(a) : a \in Addr} \cup {ToSource(s, f) : s \in Server, f \in Fd}

InUse(to) ==
    IF IsSource(to) THEN server[to.server] # None /\ server[to.server].sources[to.fd] # None
    ELSE addr[to.addr] # None

Held(to) == IF InUse(to) THEN Target(to).sock ELSE NoSock
Kept(s) == IF server[s] = None THEN {} ELSE ToSet(server[s].sockets)
Own(s) == server[s].sockets[1]

Creating == call.at \in {"socket()", "bind"}
Sending == call.at \in {"send_data", "prefix", "data"}

-----------------------------------------------------------------------------
(***************************************************************************)
(* The inductive invariants.                                               *)
(***************************************************************************)
\* What the calls are.  While one sends, nothing was sent before.
Making == [at : {"socket()", "bind"}, server : Server, tries : Nat]
Sends == [at : {"send_data", "prefix", "data"}, to : Targets, from : Server \cup {None},
          again : BOOLEAN, using : Handle, wrote : {0}, short : BOOLEAN]
Returned == [at : {"return"}, ret : {"ok", "failed"}, wrote : {0, 1}, short : BOOLEAN]

CallOK == call \in {Idle} \cup Making \cup Sends \cup Returned

Socket == [nonblock : BOOLEAN, wire : {"whole", "prefix", "cut", "torn"},
           peer : {"none", "up", "left", "reset"}]

TypeInv ==
    /\ sock \in Seq(Socket) /\ Len(sock) <= MaxOpens
    /\ kernel \in [Fd -> 0 .. Len(sock)]
    /\ addr \in [Addr -> lo_address \cup {None}]
    /\ server \in [Server -> lo_server \cup {None}]
    /\ client \in [Proto -> Handle]
    /\ shared \subseteq 1 .. Len(sock) /\ lost \subseteq Nat

\* A handle is none, or of a socket that was opened with its number, which has not
\* come to mean an earlier socket; it is stale only if it was shared.
Good(h) ==
    \/ h = NoSock
    \/ /\ h.fd \in Fd /\ h.of \in 1 .. Len(sock)
       /\ kernel[h.fd] = 0 \/ kernel[h.fd] >= h.of
       /\ \A f \in Fd : kernel[f] = h.of => f = h.fd
       /\ kernel[h.fd] = h.of \/ h.of \in shared

\* Targets hold the same handle, or one a server keeps, when it was shared, except a
\* server's source for a socket it keeps; servers keep handles of their own.
HandleInv ==
    /\ \A t \in Targets : Good(Held(t))
    /\ \A s \in Server : \A h \in Kept(s) : Good(h)
    /\ \A t, u \in Targets : t # u /\ Held(t).of = Held(u).of /\ Held(t).of # 0 =>
          Held(t).of \in shared /\ sock[Held(t).of].nonblock
    /\ \A t \in Targets, s \in Server : \A h \in Kept(s) :
          Held(t).of = h.of /\ h.of # 0 => h.of \in shared \/ t = ToSource(s, h.fd)
    /\ \A s, r \in Server : s # r =>
          \A h \in Kept(s), g \in Kept(r) : h.of = g.of => h.of = 0

\* A table begins with the server's own socket, which is not shared and no one's
\* source; the others are distinct, and the source on file for the number of one of
\* them is not older.
Fits(q, sources) ==
    /\ q # <<>>
    /\ \A j, k \in 1 .. Len(q) : q[j].of = q[k].of => j = k
    /\ q[1].fd # 0 => sources[q[1].fd] = None
    /\ \A k \in 2 .. Len(q) :
          /\ q[k].fd # 0
          /\ LET a == sources[q[k].fd]
             IN  a # None => a.sock = NoSock \/ a.sock.of >= q[k].of

TableOK(t) == Fits(t.sockets, t.sources)

ServerInv ==
    \A s \in Server : server[s] # None =>
        /\ TableOK(server[s])
        /\ Own(s).of \notin shared
        /\ Own(s).fd = 0 => call.at = "socket()" /\ call.server = s

\* The global client sockets are the own sockets of servers.
ClientInv ==
    \A p \in Proto : client[p].fd # 0 =>
        \E s \in Server : /\ server[s] # None /\ server[s].proto = p
                          /\ Own(s) = client[p]
                          /\ ~(Creating /\ call.server = s)

CallInv ==
    /\ Creating => LET t == server[call.server]
                   IN  t # None /\ Len(t.sockets) = 1 /\ t.sources = EmptySources
    /\ call.at = "socket()" => Own(call.server) = NoSock
    /\ Sending => InUse(call.to) /\ (call.from # None => server[call.from] # None)
    /\ call.at = "prefix" => IsTcp
    /\ call.at \in {"prefix", "data"} =>
          /\ call.using.fd # 0 /\ Good(call.using)
          /\ IsTcp => call.using = Target(call.to).sock

HasOwner(i) ==
    \/ i \in lost
    \/ \E a \in Addr : addr[a] # None /\ addr[a].own /\ addr[a].sock.of = i
    \/ \E s \in Server : \E h \in Kept(s) : h.of = i

AccountInv == \A i \in 1 .. Len(sock) : Open(i) => HasOwner(i)

\* What a blocking socket's stream ends in: a frame that was cut only if the peer
\* has reset the connection, a prefix only while its frame is being sent or when no
\* target has the socket any more.
FrameInv ==
    \A i \in 1 .. Len(sock) : ~sock[i].nonblock =>
        /\ sock[i].wire # "torn"
        /\ sock[i].wire = "cut" => sock[i].peer = "reset"
        /\ sock[i].wire = "prefix" =>
              \/ call.at = "data" /\ IsTcp /\ call.using.of = i
              \/ \A t \in Targets : Held(t).of # i

Live == HandleInv /\ ServerInv /\ ClientInv /\ CallInv /\ AccountInv /\ FrameInv

Inv == CallOK /\ TypeInv /\ SentOnce /\ IF astray THEN shared # {} ELSE Live

-----------------------------------------------------------------------------
(***************************************************************************)
(* Targets and what they hold.                                             *)
(***************************************************************************)
LEMMA NoneIsNot ==
    /\ \A a \in Addr : a # None
    /\ \A s \in Server : s # None
    /\ \A r \in lo_address \cup Source \cup lo_server : r # None
    /\ None # "tcp"
BY NoneAssumption DEF Proto

LEMMA TargetIs ==
    /\ \A a \in Addr : ToAddr(a) \in Targets /\ ~IsSource(ToAddr(a)) /\ ToAddr(a).addr = a
    /\ \A s \in Server, f \in Fd :
          /\ ToSource(s, f) \in Targets /\ IsSource(ToSource(s, f))
          /\ ToSource(s, f).server = s /\ ToSource(s, f).fd = f
    /\ \A t \in Targets : IF IsSource(t) THEN t.server \in Server /\ t.fd \in Fd /\ t = ToSource(t.server, t.fd)
                                         ELSE t.addr \in Addr /\ t = ToAddr(t.addr)
BY NoneIsNot DEF Targets, ToAddr, ToSource, IsSource

LEMMA HeldByAddr ==
    ASSUME NEW a \in Addr
    PROVE  /\ Held(ToAddr(a)) = IF addr[a] # None THEN addr[a].sock ELSE NoSock
           /\ Held(ToAddr(a))' = IF addr'[a] # None THEN addr'[a].sock ELSE NoSock
BY TargetIs DEF Held, InUse, Target

LEMMA HeldBySource ==
    ASSUME NEW s \in Server, NEW f \in Fd
    PROVE  /\ Held(ToSource(s, f)) =
                 IF server[s] # None /\ server[s].sources[f] # None THEN server[s].sources[f].sock
                 ELSE NoSock
           /\ Held(ToSource(s, f))' =
                 IF server'[s] # None /\ server'[s].sources[f] # None THEN server'[s].sources[f].sock
                 ELSE NoSock
BY TargetIs DEF Held, InUse, Target

LEMMA HeldHandle ==
    ASSUME TypeInv, NEW t \in Targets
    PROVE  Held(t) \in Handle
<1>1. CASE IsSource(t)
  <2>1. t.server \in Server /\ t.fd \in Fd
    BY <1>1, TargetIs
  <2>2. server[t.server] # None => server[t.server] \in lo_server
    BY <2>1 DEF TypeInv
  <2>3. InUse(t) => server[t.server].sources[t.fd] \in Source
    BY <1>1, <2>1, <2>2 DEF InUse, lo_server
  <2> QED
    BY <1>1, <2>3 DEF Held, Target, Source, Handle
<1>2. CASE ~IsSource(t)
  <2>1. InUse(t) => addr[t.addr] \in lo_address
    BY <1>2, TargetIs DEF InUse, TypeInv
  <2> QED
    BY <1>2, <2>1 DEF Held, Target, lo_address, Handle
<1> QED
  BY <1>1, <1>2

LEMMA KeptHandle ==
    ASSUME TypeInv, NEW s \in Server
    PROVE  Kept(s) \subseteq Handle
<1>1. server[s] # None => server[s].sockets \in Seq(Handle)
  BY DEF TypeInv, lo_server
<1> QED
  BY <1>1 DEF Kept, ToSet

\* The kernel's choice is a descriptor that is free.
LEMMA NextFdFree == ASSUME CanOpen PROVE NextFd \in Fd /\ kernel[NextFd] = 0
<1>1. FreeFds \in SUBSET Nat /\ FreeFds # {}
  BY BoundsAssumption DEF CanOpen, FreeFds, Fd
<1>2. \E n \in FreeFds : \A m \in FreeFds : n <= m
  BY <1>1, LeastNat
<1> QED
  BY <1>2 DEF NextFd, FreeFds

\* The new handle, which no one holds.
LEMMA NewHandleIs ==
    ASSUME TypeInv, CanOpen
    PROVE  /\ NewHandle \in Handle /\ NewHandle # NoSock
           /\ NewHandle.fd = NextFd /\ NextFd \in Fd /\ kernel[NextFd] = 0
           /\ NewHandle.of = Len(sock) + 1 /\ Len(sock) + 1 \in 1 .. MaxOpens
<1>1. Len(sock) \in Nat /\ Len(sock) < MaxOpens /\ MaxOpens \in Nat
  BY BoundsAssumption DEF TypeInv, CanOpen
<1>2. NextFd \in Fd /\ kernel[NextFd] = 0
  BY NextFdFree
<1>3. NewHandle = [fd |-> NextFd, of |-> Len(sock) + 1]
  BY DEF NewHandle
<1> QED
  BY <1>1, <1>2, <1>3 DEF Handle, NoSock

LEMMA GoodBound ==
    ASSUME TypeInv, NEW h \in Handle, Good(h)
    PROVE  /\ h.of \in 0 .. Len(sock) /\ h.fd \in Fd \cup {0}
           /\ h.of = 0 <=> h = NoSock
           /\ h.fd = 0 <=> h = NoSock
BY BoundsAssumption DEF Good, NoSock, Fd, TypeInv

-----------------------------------------------------------------------------
(***************************************************************************)
(* What closing and opening does to handles.                               *)
(***************************************************************************)
LEMMA GoodCloses ==
    ASSUME TypeInv, NEW F, kernel' = Without(F), Len(sock') = Len(sock), shared \subseteq shared',
           NEW h \in Handle, Good(h), h.fd \in F /\ kernel[h.fd] = h.of => h.of \in shared'
    PROVE  Good(h)'
<1>1. \A f \in Fd : kernel'[f] = IF f \in F THEN 0 ELSE kernel[f]
  BY DEF Without
<1>2. CASE h = NoSock
  BY <1>2 DEF Good
<1>3. CASE h # NoSock
  <2>1. /\ h.fd \in Fd /\ h.of \in 1 .. Len(sock)
        /\ kernel[h.fd] = 0 \/ kernel[h.fd] >= h.of
        /\ \A f \in Fd : kernel[f] = h.of => f = h.fd
        /\ kernel[h.fd] = h.of \/ h.of \in shared
    BY <1>3 DEF Good
  <2>2. \A f \in Fd : kernel'[f] = h.of => f = h.fd
    BY <1>1, <2>1
  <2>3. kernel'[h.fd] = 0 \/ kernel'[h.fd] >= h.of
    BY <1>1, <2>1
  <2>4. kernel'[h.fd] = h.of \/ h.of \in shared'
    BY <1>1, <2>1
  <2> QED
    BY <2>1, <2>2, <2>3, <2>4 DEF Good
<1> QED
  BY <1>2, <1>3

LEMMA GoodOpens ==
    ASSUME TypeInv, NEW stream, NEW nonblock, Opens(stream, nonblock), shared \subseteq shared',
           NEW h \in Handle, Good(h) \/ h = NewHandle
    PROVE  Good(h)'
<1>1. /\ NewHandle.fd = NextFd /\ NextFd \in Fd /\ kernel[NextFd] = 0
      /\ NewHandle.of = Len(sock) + 1 /\ Len(sock) \in Nat
  BY NewHandleIs DEF Opens, TypeInv
<1>2. Len(sock') = Len(sock) + 1
  BY DEF Opens, TypeInv
<1>3. /\ \A f \in Fd : kernel'[f] = IF f = NextFd THEN Len(sock) + 1 ELSE kernel[f]
      /\ \A f \in Fd : kernel[f] \in 0 .. Len(sock)
  BY DEF Opens, TypeInv
<1>4. CASE h = NewHandle
  BY <1>1, <1>2, <1>3, <1>4 DEF Good
<1>5. CASE h = NoSock
  BY <1>5 DEF Good
<1>6. CASE Good(h) /\ h # NoSock
  <2>1. /\ h.fd \in Fd /\ h.of \in 1 .. Len(sock)
        /\ kernel[h.fd] = 0 \/ kernel[h.fd] >= h.of
        /\ \A f \in Fd : kernel[f] = h.of => f = h.fd
        /\ kernel[h.fd] = h.of \/ h.of \in shared
    BY <1>6 DEF Good
  <2>2. \A f \in Fd : kernel'[f] = h.of => f = h.fd
    BY <1>1, <1>3, <2>1
  <2>3. kernel'[h.fd] = 0 \/ kernel'[h.fd] >= h.of
    BY <1>1, <1>3, <2>1
  <2>4. kernel'[h.fd] = h.of \/ h.of \in shared'
    BY <1>1, <1>3, <2>1
  <2> QED
    BY <1>2, <2>1, <2>2, <2>3, <2>4 DEF Good
<1> QED
  BY <1>4, <1>5, <1>6

\* Sockets are closed, and of what is held and kept nothing is new.
LEMMA Shrinks ==
    ASSUME TypeInv, HandleInv, NEW F, kernel' = Without(F), shared \subseteq shared',
           Len(sock') = Len(sock), \A i \in 1 .. Len(sock) : sock'[i].nonblock = sock[i].nonblock,
           \A t \in Targets : Held(t)' \in {Held(t), NoSock},
           \A s \in Server : Kept(s)' \subseteq Kept(s) \cup {NoSock},
           \A t \in Targets : Held(t)'.fd \in F /\ kernel[Held(t)'.fd] = Held(t)'.of =>
              Held(t)'.of \in shared',
           \A s \in Server : \A h \in Kept(s)' : h.fd \in F /\ kernel[h.fd] = h.of =>
              h.of \in shared'
    PROVE  HandleInv'
<1>1. NoSock \in Handle /\ NoSock.of = 0 /\ Good(NoSock)
  BY DEF Handle, NoSock, Good
<1>2. ASSUME NEW t \in Targets PROVE Good(Held(t))'
  <2>1. PICK h : h = Held(t)'
    OBVIOUS
  <2>2. h \in Handle /\ Good(h)
    BY <1>1, <2>1, HeldHandle DEF HandleInv
  <2>3. Good(h)'
    BY <2>1, <2>2, GoodCloses
  <2> QED
    BY <2>1, <2>3 DEF Good
<1>3. ASSUME NEW s \in Server, NEW h \in Kept(s)' PROVE Good(h)'
  <2>1. h \in Handle /\ Good(h)
    BY <1>1, <1>3, KeptHandle DEF HandleInv
  <2> QED
    BY <1>3, <2>1, GoodCloses
<1>4. \A t \in Targets : Held(t)'.of # 0 =>
         Held(t)' = Held(t) /\ Held(t).of \in 1 .. Len(sock)
  <2> SUFFICES ASSUME NEW t \in Targets, Held(t)'.of # 0
               PROVE  Held(t)' = Held(t) /\ Held(t).of \in 1 .. Len(sock)
    OBVIOUS
  <2>1. Held(t)' = Held(t) /\ Held(t).of # 0
    BY <1>1
  <2>2. Held(t) \in Handle /\ Good(Held(t))
    BY HeldHandle DEF HandleInv
  <2> QED
    BY <2>1, <2>2, GoodBound
<1>5. \A s \in Server : \A h \in Kept(s)' : h.of # 0 => h \in Kept(s)
  BY <1>1
<1>6. ASSUME NEW t \in Targets, NEW u \in Targets, t # u, Held(t)'.of = Held(u)'.of, Held(t)'.of # 0
      PROVE  Held(t)'.of \in shared' /\ sock'[Held(t)'.of].nonblock
  BY <1>4, <1>6 DEF HandleInv
<1>7. ASSUME NEW t \in Targets, NEW s \in Server, NEW h \in Kept(s)', Held(t)'.of = h.of, h.of # 0
      PROVE  h.of \in shared' \/ t = ToSource(s, h.fd)
  BY <1>4, <1>5, <1>7 DEF HandleInv
<1>8. ASSUME NEW s \in Server, NEW r \in Server, s # r, NEW h \in Kept(s)', NEW g \in Kept(r)', h.of = g.of
      PROVE  h.of = 0
  BY <1>5, <1>8 DEF HandleInv
<1> QED
  BY <1>2, <1>3, <1>6, <1>7, <1>8 DEF HandleInv

\* A socket is opened, and what is held and kept is as before or the new handle.
LEMMA Grows ==
    ASSUME TypeInv, HandleInv, NEW stream, NEW nonblock, Opens(stream, nonblock), shared \subseteq shared',
           NEW n, n = NewHandle,
           \A t \in Targets : Held(t)' \in {Held(t), n},
           \A s \in Server : Kept(s)' \subseteq Kept(s) \cup {n},
           \A t, u \in Targets : t # u /\ Held(t)' = n /\ Held(u)' = n =>
              n.of \in shared' /\ nonblock,
           \A t \in Targets, s \in Server : Held(t)' = n /\ n \in Kept(s)' =>
              n.of \in shared' \/ t = ToSource(s, n.fd),
           \A s, r \in Server : n \in Kept(s)' /\ n \in Kept(r)' => s = r
    PROVE  HandleInv'
<1>1. n \in Handle /\ n.of = Len(sock) + 1 /\ Len(sock) \in Nat
  BY NewHandleIs DEF Opens, TypeInv
<1>2. /\ \A i \in 1 .. Len(sock) : sock'[i] = sock[i]
      /\ sock'[Len(sock) + 1].nonblock = nonblock
  BY <1>1 DEF Opens, TypeInv
<1>3. ASSUME NEW t \in Targets PROVE Good(Held(t))'
  <2>1. PICK h : h = Held(t)'
    OBVIOUS
  <2>2. h \in Handle /\ (Good(h) \/ h = NewHandle)
    BY <1>1, <2>1, HeldHandle DEF HandleInv
  <2>3. Good(h)'
    BY <2>2, GoodOpens
  <2> QED
    BY <2>1, <2>3 DEF Good
<1>4. ASSUME NEW s \in Server, NEW h \in Kept(s)' PROVE Good(h)'
  <2>1. h \in Handle /\ (Good(h) \/ h = NewHandle)
    BY <1>1, <1>4, KeptHandle DEF HandleInv
  <2> QED
    BY <2>1, GoodOpens
<1>5. \A t \in Targets : /\ Held(t)' = n \/ Held(t)' = Held(t)
                         /\ Held(t).of \in 0 .. Len(sock) /\ Held(t).of # n.of
  <2> SUFFICES ASSUME NEW t \in Targets PROVE Held(t).of \in 0 .. Len(sock)
    BY <1>1
  <2>1. Held(t) \in Handle /\ Good(Held(t))
    BY HeldHandle DEF HandleInv
  <2> QED
    BY <2>1, GoodBound
<1>6. \A s \in Server : /\ \A h \in Kept(s)' : h = n \/ h \in Kept(s)
                        /\ \A h \in Kept(s) : h.of \in 0 .. Len(sock) /\ h.of # n.of
  <2> SUFFICES ASSUME NEW s \in Server, NEW h \in Kept(s) PROVE h.of \in 0 .. Len(sock)
    BY <1>1
  <2>1. h \in Handle /\ Good(h)
    BY KeptHandle DEF HandleInv
  <2> QED
    BY <2>1, GoodBound
<1>7. ASSUME NEW t \in Targets, NEW u \in Targets, t # u, Held(t)'.of = Held(u)'.of, Held(t)'.of # 0
      PROVE  Held(t)'.of \in shared' /\ sock'[Held(t)'.of].nonblock
  <2>1. CASE Held(t)' = n \/ Held(u)' = n
    <3>1. Held(t)' = n /\ Held(u)' = n
      BY <1>5, <1>7, <2>1
    <3> QED
      BY <1>1, <1>2, <1>7, <3>1
  <2>2. CASE Held(t)' = Held(t) /\ Held(u)' = Held(u)
    <3>1. Held(t).of \in shared /\ sock[Held(t).of].nonblock /\ Held(t).of \in 1 .. Len(sock)
      BY <1>5, <1>7, <2>2 DEF HandleInv
    <3> QED
      BY <1>2, <2>2, <3>1
  <2> QED
    BY <1>5, <2>1, <2>2
<1>8. ASSUME NEW t \in Targets, NEW s \in Server, NEW h \in Kept(s)', Held(t)'.of = h.of, h.of # 0
      PROVE  h.of \in shared' \/ t = ToSource(s, h.fd)
  <2>1. CASE Held(t)' = n \/ h = n
    <3>1. Held(t)' = n /\ h = n
      BY <1>5, <1>6, <1>8, <2>1
    <3> QED
      BY <1>8, <3>1
  <2>2. CASE Held(t)' = Held(t) /\ h \in Kept(s)
    BY <1>8, <2>2 DEF HandleInv
  <2> QED
    BY <1>5, <1>6, <2>1, <2>2
<1>9. ASSUME NEW s \in Server, NEW r \in Server, s # r, NEW h \in Kept(s)', NEW g \in Kept(r)', h.of = g.of
      PROVE  h.of = 0
  <2>1. CASE h = n \/ g = n
    <3>1. h = n /\ g = n
      BY <1>6, <1>9, <2>1
    <3> QED
      BY <1>9, <3>1
  <2>2. CASE h \in Kept(s) /\ g \in Kept(r)
    BY <1>9, <2>2 DEF HandleInv
  <2> QED
    BY <1>6, <2>1, <2>2
<1> QED
  BY <1>3, <1>4, <1>7, <1>8, <1>9 DEF HandleInv

-----------------------------------------------------------------------------
(***************************************************************************)
(* A server's table.                                                       *)
(***************************************************************************)
LEMMA RemoveAtProperties ==
    ASSUME NEW S, NEW q \in Seq(S), NEW k \in 1 .. Len(q)
    PROVE  /\ RemoveAt(q, k) \in Seq(S) /\ Len(RemoveAt(q, k)) = Len(q) - 1
           /\ \A i \in 1 .. Len(q) - 1 : RemoveAt(q, k)[i] = IF i < k THEN q[i] ELSE q[i + 1]
<1> DEFINE a == SubSeq(q, 1, k - 1)
           b == SubSeq(q, k + 1, Len(q))
<1>1. a \in Seq(S) /\ Len(a) = k - 1 /\ \A i \in 1 .. k - 1 : a[i] = q[i]
  OBVIOUS
<1>2. b \in Seq(S) /\ Len(b) = Len(q) - k /\ \A i \in 1 .. Len(q) - k : b[i] = q[k + i]
  OBVIOUS
<1> HIDE DEF a, b
<1>3. /\ a \o b \in Seq(S) /\ Len(a \o b) = Len(a) + Len(b)
      /\ \A i \in 1 .. Len(a) + Len(b) : (a \o b)[i] = IF i <= Len(a) THEN a[i] ELSE b[i - Len(a)]
  BY <1>1, <1>2, ConcatProperties
<1>4. Len(a) + Len(b) = Len(q) - 1 /\ Len(q) \in Nat
  BY <1>1, <1>2
<1>5. ASSUME NEW i \in 1 .. Len(q) - 1 PROVE (a \o b)[i] = IF i < k THEN q[i] ELSE q[i + 1]
  <2>1. CASE i < k
    BY <1>1, <1>3, <1>4, <2>1
  <2>2. CASE ~(i < k)
    <3>1. i - (k - 1) \in 1 .. Len(q) - k /\ k + (i - (k - 1)) = i + 1
      BY <1>4, <2>2
    <3>2. b[i - (k - 1)] = q[i + 1]
      BY <1>2, <3>1
    <3> QED
      BY <1>1, <1>3, <1>4, <2>2, <3>2
  <2> QED
    BY <2>1, <2>2
<1>6. RemoveAt(q, k) = a \o b
  BY DEF RemoveAt, a, b
<1> QED
  BY <1>3, <1>4, <1>5, <1>6

Tables == [Server -> lo_server \cup {None}]

LEMMA TableIs ==
    ASSUME NEW srv \in Tables, NEW s \in Server, srv[s] # None
    PROVE  /\ srv[s] \in lo_server
           /\ srv[s].proto \in Proto /\ srv[s].sockets \in Seq(Handle)
           /\ srv[s].sources \in [Fd -> Source \cup {None}]
           /\ Len(srv[s].sockets) \in Nat
           /\ \A k \in 1 .. Len(srv[s].sockets) : srv[s].sockets[k] \in Handle
<1>1. srv[s] \in lo_server
  BY DEF Tables
<1> QED
  BY <1>1 DEF lo_server

\* A handle that is not none has a number.
LEMMA HandleFd ==
    ASSUME NEW h \in Handle, h.fd # 0
    PROVE  h.fd \in Fd
BY DEF Handle, NoSock

\* What lo_server_del_socket makes of the tables.
Removed(srv, s, g, del) ==
    /\ del \in Tables /\ del[s] # None /\ \A r \in Server \ {s} : del[r] = srv[r]
    /\ del[s].proto = srv[s].proto
    /\ del[s].sources = [srv[s].sources EXCEPT ![g.fd] = None]
    /\ ToSet(del[s].sockets) = ToSet(srv[s].sockets) \ {g}
    /\ del[s].sockets[1] = srv[s].sockets[1] /\ g # srv[s].sockets[1]
    /\ TableOK(del[s])

\* lo_server_del_socket of another socket than the server's own.
LEMMA DelSocketIs ==
    ASSUME NEW srv \in Tables, NEW s \in Server, srv[s] # None, TableOK(srv[s]),
           NEW k \in 2 .. Len(srv[s].sockets), NEW g, g = srv[s].sockets[k],
           NEW del, del = lo_server_del_socket(srv, s, k)
    PROVE  Removed(srv, s, g, del)
<1> DEFINE q == srv[s].sockets
           w == RemoveAt(q, k)
           t == [srv[s].sources EXCEPT ![g.fd] = None]
<1>1. /\ srv[s] \in lo_server
      /\ srv[s].proto \in Proto /\ q \in Seq(Handle) /\ srv[s].sources \in [Fd -> Source \cup {None}]
      /\ Len(q) \in Nat /\ k \in 1 .. Len(q)
  BY TableIs
<1>2. /\ w \in Seq(Handle) /\ Len(w) = Len(q) - 1
      /\ \A i \in 1 .. Len(q) - 1 : w[i] = IF i < k THEN q[i] ELSE q[i + 1]
  BY <1>1, RemoveAtProperties
<1>3. g \in Handle /\ g.fd \in Fd
  <2>1. g \in Handle
    BY <1>1
  <2>2. g.fd # 0
    BY Zenon DEF TableOK, Fits
  <2> QED
    BY <2>1, <2>2, HandleFd
<1>4. t \in [Fd -> Source \cup {None}] /\ \A f \in Fd : t[f] = IF f = g.fd THEN None ELSE srv[s].sources[f]
  BY <1>1, <1>3
<1> DEFINE u == [srv[s] EXCEPT !.sources = t, !.sockets = w]
<1>5. del = [srv EXCEPT ![s] = u]
  BY DEF lo_server_del_socket
<1> HIDE DEF w, t
<1>6. u \in lo_server /\ u.proto = srv[s].proto /\ u.sources = t /\ u.sockets = w
  BY <1>1, <1>2, <1>4 DEF lo_server
<1> HIDE DEF u
<1>7. /\ del \in Tables /\ del[s] = u
      /\ \A r \in Server \ {s} : del[r] = srv[r]
  BY <1>5, <1>6 DEF Tables
<1>8. del[s] # None
  BY <1>6, <1>7, NoneIsNot
<1>9. \A i, j \in 1 .. Len(q) : q[i].of = q[j].of => i = j
  BY Zenon DEF TableOK, Fits
<1>10. ToSet(w) = ToSet(q) \ {g}
  <2>1. ASSUME NEW i \in 1 .. Len(w) PROVE w[i] \in ToSet(q) \ {g}
    <3>1. PICK j \in 1 .. Len(q) : w[i] = q[j] /\ j # k
      BY <1>1, <1>2
    <3> QED
      BY <1>1, <1>9, <3>1 DEF ToSet
  <2>2. ASSUME NEW j \in 1 .. Len(q), q[j] # g PROVE \E i \in 1 .. Len(w) : w[i] = q[j]
    <3>1. CASE j < k
      BY <1>1, <1>2, <3>1
    <3>2. CASE ~(j < k) /\ j # k
      <4>1. j - 1 \in 1 .. Len(q) - 1 /\ ~(j - 1 < k) /\ j - 1 + 1 = j
        BY <1>1, <3>2
      <4>2. w[j - 1] = q[j - 1 + 1]
        BY <1>2, <4>1
      <4> QED
        BY <1>2, <4>1, <4>2
    <3> QED
      BY <2>2, <3>1, <3>2
  <2>3. ToSet(w) = {w[i] : i \in 1 .. Len(w)} /\ ToSet(q) = {q[i] : i \in 1 .. Len(q)}
    BY <1>1, <1>2 DEF ToSet
  <2>4. ASSUME NEW h \in ToSet(w) PROVE h \in ToSet(q) \ {g}
    BY <2>1, <2>3
  <2>5. ASSUME NEW h \in ToSet(q) \ {g} PROVE h \in ToSet(w)
    BY <2>2, <2>3
  <2> QED
    BY <2>4, <2>5
<1>11. w[1] = q[1] /\ g # q[1] /\ Len(w) >= 1
  BY <1>1, <1>2, <1>9
<1>12. ASSUME NEW i \in 1 .. Len(w), NEW j \in 1 .. Len(w), w[i].of = w[j].of
       PROVE  i = j
  <2>1. PICK x \in 1 .. Len(q) : w[i] = q[x] /\ x = IF i < k THEN i ELSE i + 1
    BY <1>1, <1>2
  <2>2. PICK y \in 1 .. Len(q) : w[j] = q[y] /\ y = IF j < k THEN j ELSE j + 1
    BY <1>1, <1>2
  <2> QED
    BY <1>9, <1>12, <2>1, <2>2
<1>13. w[1].fd # 0 => t[w[1].fd] = None
  <2>1. w[1] \in Handle
    BY <1>2, <1>11
  <2>2. w[1].fd # 0 => w[1].fd \in Fd
    BY <2>1, HandleFd
  <2>3. q[1].fd # 0 => srv[s].sources[q[1].fd] = None
    BY Zenon DEF TableOK, Fits
  <2> QED
    BY <1>4, <1>11, <2>2, <2>3, Zenon
<1>14. ASSUME NEW i \in 2 .. Len(w)
       PROVE  /\ w[i].fd # 0
              /\ LET a == t[w[i].fd] IN a # None => a.sock = NoSock \/ a.sock.of >= w[i].of
  <2>1. PICK x \in 2 .. Len(q) : w[i] = q[x]
    <3>1. i \in 1 .. Len(q) - 1 /\ i \in 2 .. Len(q) /\ i + 1 \in 2 .. Len(q)
      BY <1>1, <1>2
    <3>2. w[i] = q[i] \/ w[i] = q[i + 1]
      BY <1>2, <3>1
    <3> QED
      BY <3>1, <3>2
  <2>2. /\ q[x].fd # 0
        /\ LET a == srv[s].sources[q[x].fd] IN a # None => a.sock = NoSock \/ a.sock.of >= q[x].of
    BY Zenon DEF TableOK, Fits
  <2>3. q[x].fd \in Fd
    <3>1. q[x] \in Handle
      BY <1>1
    <3> QED
      BY <2>2, <3>1, HandleFd
  <2> QED
    BY <1>4, <2>1, <2>2, <2>3, Zenon
<1>15. TableOK(del[s])
  <2>1. del[s].sockets = w /\ del[s].sources = t /\ w # <<>>
    BY <1>2, <1>6, <1>7, <1>11
  <2> QED
    BY <1>12, <1>13, <1>14, <2>1 DEF TableOK, Fits
<1> QED
  BY <1>6, <1>7, <1>8, <1>10, <1>11, <1>15 DEF t, Removed

\* What lo_server_add_socket makes of the tables.
Added(srv, s, h, a, add) ==
    /\ add \in Tables /\ add[s] # None /\ \A r \in Server \ {s} : add[r] = srv[r]
    /\ add[s].proto = srv[s].proto
    /\ add[s].sources = [srv[s].sources EXCEPT ![h.fd] = a]
    /\ ToSet(add[s].sockets) = ToSet(srv[s].sockets) \cup {h}
    /\ add[s].sockets[1] = srv[s].sockets[1]
    /\ TableOK(add[s])

\* lo_server_add_socket of a handle that is newer than every one it keeps.
LEMMA AddSocketIs ==
    ASSUME NEW srv \in Tables, NEW s \in Server, srv[s] # None, TableOK(srv[s]),
           NEW h \in Handle, h.fd \in Fd, h.fd # srv[s].sockets[1].fd,
           \A g \in ToSet(srv[s].sockets) : g.of < h.of,
           NEW a \in Source, a.sock = h,
           NEW add, add = lo_server_add_socket(srv, s, h, a)
    PROVE  Added(srv, s, h, a, add)
<1> DEFINE q == srv[s].sockets
           w == Append(q, h)
           t == [srv[s].sources EXCEPT ![h.fd] = a]
           u == [srv[s] EXCEPT !.sockets = w, !.sources = t]
<1>1. /\ srv[s] \in lo_server
      /\ srv[s].proto \in Proto /\ q \in Seq(Handle) /\ srv[s].sources \in [Fd -> Source \cup {None}]
      /\ Len(q) \in Nat
  BY TableIs
<1>2. /\ w \in Seq(Handle) /\ Len(w) = Len(q) + 1 /\ w[Len(q) + 1] = h
      /\ \A i \in 1 .. Len(q) : w[i] = q[i]
  BY <1>1
<1>3. t \in [Fd -> Source \cup {None}] /\ \A f \in Fd : t[f] = IF f = h.fd THEN a ELSE srv[s].sources[f]
  BY <1>1
<1>4. add = [srv EXCEPT ![s] = u]
  BY DEF lo_server_add_socket
<1> HIDE DEF w, t
<1>5. u \in lo_server /\ u.proto = srv[s].proto /\ u.sources = t /\ u.sockets = w
  BY <1>1, <1>2, <1>3 DEF lo_server
<1> HIDE DEF u
<1>6. /\ add \in Tables /\ add[s] = u
      /\ \A r \in Server \ {s} : add[r] = srv[r]
  BY <1>4, <1>5 DEF Tables
<1>7. add[s] # None
  BY <1>5, <1>6, NoneIsNot
<1>8. ToSet(w) = {w[i] : i \in 1 .. Len(w)} /\ ToSet(q) = {q[i] : i \in 1 .. Len(q)}
  BY <1>1, <1>2 DEF ToSet
<1>9. ToSet(w) = ToSet(q) \cup {h}
  <2>1. ASSUME NEW g \in ToSet(w) PROVE g \in ToSet(q) \cup {h}
    <3>1. PICK i \in 1 .. Len(w) : g = w[i]
      BY <1>8
    <3>2. i \in 1 .. Len(q) \/ i = Len(q) + 1
      BY <1>1, <1>2
    <3> QED
      BY <1>2, <1>8, <3>1, <3>2
  <2>2. ASSUME NEW g \in ToSet(q) \cup {h} PROVE g \in ToSet(w)
    <3>1. 1 .. Len(q) \subseteq 1 .. Len(w) /\ Len(q) + 1 \in 1 .. Len(w)
      BY <1>1, <1>2
    <3> QED
      BY <1>2, <1>8, <3>1
  <2> QED
    BY <2>1, <2>2
<1>10. Len(q) >= 1 /\ w[1] = q[1]
  <2>1. q # <<>>
    BY Zenon DEF TableOK, Fits
  <2>2. Len(q) >= 1
    BY <1>1, <2>1
  <2>3. 1 \in 1 .. Len(q)
    BY <1>1, <2>2
  <2> QED
    BY <1>2, <2>2, <2>3, Zenon
<1>11. \A i \in 1 .. Len(q) : q[i].of < h.of /\ q[i].of \in Int /\ h.of \in Int
  BY <1>1, <1>8, BoundsAssumption DEF Handle, NoSock
<1>12. ASSUME NEW i \in 1 .. Len(w), NEW j \in 1 .. Len(w), w[i].of = w[j].of
       PROVE  i = j
  <2>1. i \in 1 .. Len(q) \/ i = Len(q) + 1
    BY <1>1, <1>2
  <2>2. j \in 1 .. Len(q) \/ j = Len(q) + 1
    BY <1>1, <1>2
  <2>3. CASE i = Len(q) + 1 /\ j \in 1 .. Len(q)
    <3>1. w[i] = h /\ w[j] = q[j]
      BY <1>2, <2>3, Zenon
    <3>2. q[j].of < h.of /\ q[j].of \in Int
      BY <1>11, <2>3, Zenon
    <3>3. q[j].of = h.of
      BY <1>12, <3>1, Zenon
    <3> QED
      BY <3>2, <3>3
  <2>4. CASE j = Len(q) + 1 /\ i \in 1 .. Len(q)
    <3>1. w[j] = h /\ w[i] = q[i]
      BY <1>2, <2>4, Zenon
    <3>2. q[i].of < h.of /\ q[i].of \in Int
      BY <1>11, <2>4, Zenon
    <3>3. q[i].of = h.of
      BY <1>12, <3>1, Zenon
    <3> QED
      BY <3>2, <3>3
  <2>5. CASE i \in 1 .. Len(q) /\ j \in 1 .. Len(q)
    BY <1>2, <1>12, <2>5 DEF TableOK, Fits
  <2> QED
    BY <2>1, <2>2, <2>3, <2>4, <2>5
<1>13. w[1].fd # 0 => t[w[1].fd] = None
  <2>1. w[1] \in Handle
    BY <1>1, <1>2, <1>10
  <2>2. w[1].fd # 0 => w[1].fd \in Fd
    BY <2>1 DEF Handle, NoSock
  <2> QED
    BY <1>3, <1>10, <2>2 DEF TableOK, Fits
<1>14. ASSUME NEW i \in 2 .. Len(w)
       PROVE  /\ w[i].fd # 0
              /\ LET b == t[w[i].fd] IN b # None => b.sock = NoSock \/ b.sock.of >= w[i].of
  <2>1. CASE i = Len(q) + 1
    <3>1. w[i] = h /\ t[h.fd] = a
      BY <1>2, <1>3, <2>1
    <3>2. h.fd # 0
      BY DEF Fd
    <3>3. a.sock.of >= h.of
      BY BoundsAssumption DEF Handle, NoSock
    <3> QED
      BY <3>1, <3>2, <3>3, Zenon
  <2>2. CASE i \in 2 .. Len(q)
    <3>1. w[i] = q[i] /\ q[i] \in Handle /\ q[i].of < h.of /\ q[i].of \in Int /\ h.of \in Int
      BY <1>1, <1>2, <1>11, <2>2
    <3>2. /\ q[i].fd # 0
          /\ LET b == srv[s].sources[q[i].fd] IN b # None => b.sock = NoSock \/ b.sock.of >= q[i].of
      BY <2>2 DEF TableOK, Fits
    <3>3. q[i].fd \in Fd
      BY <3>1, <3>2, HandleFd
    <3>4. CASE q[i].fd = h.fd
      <4>1. t[w[i].fd] = a /\ a.sock.of >= w[i].of
        <5>1. t[w[i].fd] = a
          BY <1>3, <3>1, <3>3, <3>4, Zenon
        <5> QED
          BY <3>1, <5>1
      <4> QED
        BY <3>1, <3>2, <4>1, Zenon
    <3>5. CASE q[i].fd # h.fd
      <4>1. t[w[i].fd] = srv[s].sources[q[i].fd]
        BY <1>3, <3>1, <3>3, <3>5, Zenon
      <4> QED
        BY <3>1, <3>2, <4>1, Zenon
    <3> QED
      BY <3>4, <3>5, Zenon
  <2> QED
    BY <1>1, <1>2, <2>1, <2>2, SMTT(20)
<1>15. TableOK(add[s])
  <2>1. add[s].sockets = w /\ add[s].sources = t /\ w # <<>>
    BY <1>2, <1>5, <1>6, <1>10
  <2>2. Fits(w, t)
    BY <1>12, <1>13, <1>14, <2>1, Zenon DEF Fits
  <2> QED
    BY <2>1, <2>2, Zenon DEF TableOK
<1> QED
  BY <1>5, <1>6, <1>7, <1>9, <1>10, <1>15 DEF t, Added

\* The tables with another socket for a source.
SourceSet(srv, s, f, h, set) ==
    /\ set \in Tables /\ set[s] # None /\ \A r \in Server \ {s} : set[r] = srv[r]
    /\ set[s].proto = srv[s].proto /\ set[s].sockets = srv[s].sockets
    /\ set[s].sources = [srv[s].sources EXCEPT ![f].sock = h]
    /\ set[s].sources[f] # None /\ set[s].sources[f].sock = h
    /\ set[s].sources[f].proto = srv[s].sources[f].proto
    /\ \A g \in Fd : g # f => set[s].sources[g] = srv[s].sources[g]
    /\ TableOK(srv[s]) => TableOK(set[s])

\* The socket of a source is set: to none, or to a newer one.
LEMMA SourceSetIs ==
    ASSUME NEW srv \in Tables, NEW s \in Server, srv[s] # None,
           NEW f \in Fd, srv[s].sources[f] # None,
           NEW h \in Handle, h = NoSock \/ \A g \in ToSet(srv[s].sockets) : g.of <= h.of,
           NEW set, set = ServerSet(srv, ToSource(s, f), h)
    PROVE  SourceSet(srv, s, f, h, set)
<1> DEFINE q == srv[s].sockets
           t == [srv[s].sources EXCEPT ![f].sock = h]
           u == [srv[s] EXCEPT !.sources = t]
<1>1. /\ srv[s] \in lo_server
      /\ srv[s].proto \in Proto /\ q \in Seq(Handle) /\ srv[s].sources \in [Fd -> Source \cup {None}]
      /\ Len(q) \in Nat
  BY TableIs
<1>2. srv[s].sources[f] \in Source
  BY <1>1
<1>3. /\ t \in [Fd -> Source \cup {None}]
      /\ \A g \in Fd : t[g] = IF g = f THEN [srv[s].sources[f] EXCEPT !.sock = h] ELSE srv[s].sources[g]
  BY <1>1, <1>2 DEF Source
<1>4. set = [srv EXCEPT ![s] = u]
  BY TargetIs DEF ServerSet
<1>5. t[f] \in Source /\ t[f].sock = h /\ t[f].proto = srv[s].sources[f].proto
  BY <1>2, <1>3 DEF Source
<1> HIDE DEF t
<1>6. u \in lo_server /\ u.proto = srv[s].proto /\ u.sources = t /\ u.sockets = q
  BY <1>1, <1>3 DEF lo_server
<1> HIDE DEF u
<1>7. /\ set \in Tables /\ set[s] = u
      /\ \A r \in Server \ {s} : set[r] = srv[r]
  BY <1>4, <1>6 DEF Tables
<1>8. set[s] # None /\ t[f] # None
  BY <1>5, <1>6, <1>7, NoneIsNot
<1>9. ASSUME TableOK(srv[s]) PROVE TableOK(set[s])
  <2>1. q[1].fd # 0 => t[q[1].fd] = None
    <3>1. q[1] \in Handle
      <4>1. q # <<>>
        BY <1>9, Zenon DEF TableOK, Fits
      <4> QED
        BY <1>1, <4>1
    <3>2. q[1].fd # 0 => q[1].fd \in Fd
      BY <3>1, HandleFd
    <3>3. q[1].fd # 0 => srv[s].sources[q[1].fd] = None
      BY <1>9, Zenon DEF TableOK, Fits
    <3>4. ASSUME q[1].fd # 0 PROVE q[1].fd # f
      BY <3>3, <3>4, Zenon
    <3> QED
      BY <1>3, <3>2, <3>3, <3>4, Zenon
  <2>2. ASSUME NEW i \in 2 .. Len(q)
        PROVE  /\ q[i].fd # 0
               /\ LET b == t[q[i].fd] IN b # None => b.sock = NoSock \/ b.sock.of >= q[i].of
    <3>1. q[i] \in Handle /\ q[i] \in ToSet(q)
      BY <1>1 DEF ToSet
    <3>2. /\ q[i].fd # 0
          /\ LET b == srv[s].sources[q[i].fd] IN b # None => b.sock = NoSock \/ b.sock.of >= q[i].of
      BY <1>9, Zenon DEF TableOK, Fits
    <3>3. q[i].fd \in Fd
      BY <3>1, <3>2, HandleFd
    <3>4. h.of >= q[i].of \/ h = NoSock
      BY <3>1 DEF Handle, NoSock
    <3>5. CASE q[i].fd = f
      BY <1>5, <3>2, <3>4, <3>5
    <3>6. CASE q[i].fd # f
      <4>1. t[q[i].fd] = srv[s].sources[q[i].fd]
        BY <1>3, <3>3, <3>6, Zenon
      <4> QED
        BY <3>2, <4>1, Zenon
    <3> QED
      BY <3>5, <3>6, Zenon
  <2>3. set[s].sockets = q /\ set[s].sources = t
    BY <1>6, <1>7
  <2>4. Fits(q, t)
    <3>1. /\ q # <<>>
          /\ \A j, k \in 1 .. Len(q) : q[j].of = q[k].of => j = k
      BY <1>9, Zenon DEF TableOK, Fits
    <3> QED
      BY <2>1, <2>2, <3>1, Zenon DEF Fits
  <2> QED
    BY <2>3, <2>4, Zenon DEF TableOK
<1>10. \A g \in Fd : g # f => set[s].sources[g] = srv[s].sources[g]
  BY <1>3, <1>6, <1>7
<1> QED
  BY <1>5, <1>6, <1>7, <1>8, <1>9, <1>10 DEF t, SourceSet

\* What Deleted finds is an entry of the sending server with the number.
LEMMA DeletedIs ==
    ASSUME TypeInv, NEW fd, call.from # None, call.from \in Server, server[call.from] # None
    PROVE  \/ Deleted(fd) = server /\ \A h \in Kept(call.from) : h.fd # fd
           \/ \E k \in 1 .. Len(server[call.from].sockets) :
                 /\ server[call.from].sockets[k].fd = fd
                 /\ Deleted(fd) = lo_server_del_socket(server, call.from, k)
<1> DEFINE q == server[call.from].sockets
           I == {i \in 1 .. Len(q) : q[i].fd = fd}
           k == SelectInSeq(q, LAMBDA h : h.fd = fd)
<1>1. k = IF I # {} THEN Min(I) ELSE 0
  BY Zenon DEF SelectInSeq
<1>2. Deleted(fd) = IF k = 0 THEN server ELSE lo_server_del_socket(server, call.from, k)
  BY DEF Deleted
<1>3. q \in Seq(Handle) /\ Kept(call.from) = {q[i] : i \in 1 .. Len(q)}
  BY TableIs DEF TypeInv, Tables, Kept, ToSet
<1> HIDE DEF k
<1>4. CASE I = {}
  BY <1>1, <1>2, <1>3, <1>4
<1>5. CASE I # {}
  <2>1. I \in SUBSET Nat
    OBVIOUS
  <2>2. \E n \in I : \A m \in I : n <= m
    BY <1>5, <2>1, LeastNat
  <2>3. Min(I) \in I
    BY <2>2 DEF Min
  <2>4. PICK m \in 1 .. Len(q) : q[m].fd = fd /\ m = Min(I)
    BY <2>3
  <2>5. k = m
    BY <1>1, <1>5, <2>4, Zenon
  <2>6. m # 0
    OBVIOUS
  <2> QED
    BY <1>2, <2>4, <2>5, <2>6
<1> QED
  BY <1>4, <1>5

\* A number that has come to mean another socket was shared.
LEMMA WrongShares ==
    ASSUME NEW h \in Handle, Good(h), Wrong(h)
    PROVE  h.of \in shared
BY DEF Good, Wrong, Names, NoSock

LEMMA WithoutIs ==
    ASSUME TypeInv, NEW F, kernel' = Without(F), sock' = sock
    PROVE  /\ \A f \in Fd : kernel'[f] = IF f \in F THEN 0 ELSE kernel[f]
           /\ kernel' \in [Fd -> 0 .. Len(sock)]
           /\ \A i \in 1 .. Len(sock) : Open(i)' => Open(i)
BY DEF Without, TypeInv, Open

-----------------------------------------------------------------------------
(***************************************************************************)
(* What the invariants say of calls and of servers' own sockets.           *)
(***************************************************************************)
LEMMA CallKinds ==
    ASSUME CallOK
    PROVE  /\ Creating <=> call \in Making
           /\ Sending <=> call \in Sends
           /\ call.at = "idle" <=> call = Idle
           /\ call.at = "return" <=> call \in Returned
           /\ call.at \in {"idle", "socket()", "bind", "send_data", "prefix", "data", "return"}
BY DEF CallOK, Creating, Sending, Making, Sends, Returned, Idle

LEMMA OwnIs ==
    ASSUME TypeInv, HandleInv, ServerInv, NEW s \in Server, server[s] # None
    PROVE  /\ Own(s) \in Kept(s) /\ Own(s) \in Handle /\ Good(Own(s))
           /\ Own(s).of \notin shared
           /\ Own(s).fd # 0 =>
                 /\ Own(s).fd \in Fd /\ kernel[Own(s).fd] = Own(s).of
                 /\ Own(s).of \in 1 .. Len(sock)
                 /\ server[s].sources[Own(s).fd] = None
                 /\ \A t \in Targets : Held(t).of # Own(s).of
<1>1. server[s].sockets \in Seq(Handle) /\ server[s].sockets # <<>>
  BY TableIs DEF TypeInv, Tables, ServerInv, TableOK, Fits
<1>2. Own(s) \in Kept(s) /\ Own(s) \in Handle
  BY <1>1 DEF Own, Kept, ToSet
<1>3. Good(Own(s)) /\ Own(s).of \notin shared
  BY <1>2 DEF HandleInv, ServerInv
<1>4. ASSUME Own(s).fd # 0
      PROVE  /\ Own(s).fd \in Fd /\ kernel[Own(s).fd] = Own(s).of
             /\ Own(s).of \in 1 .. Len(sock)
             /\ server[s].sources[Own(s).fd] = None
  <2>1. Own(s) # NoSock
    BY <1>4 DEF NoSock
  <2>2. server[s].sources[Own(s).fd] = None
    BY <1>4 DEF ServerInv, TableOK, Fits, Own
  <2> QED
    BY <1>3, <2>1, <2>2 DEF Good
<1>5. ASSUME Own(s).fd # 0, NEW t \in Targets, Held(t).of = Own(s).of PROVE FALSE
  <2>1. Own(s).of # 0
    BY <1>4, <1>5
  <2>2. t = ToSource(s, Own(s).fd)
    BY <1>2, <1>3, <1>5, <2>1 DEF HandleInv
  <2>3. Held(t) = NoSock
    BY <1>4, <1>5, <2>2, HeldBySource
  <2> QED
    BY <1>5, <2>1, <2>3 DEF NoSock
<1> QED
  BY <1>2, <1>3, <1>4, <1>5

-----------------------------------------------------------------------------
(***************************************************************************)
(* The steps that change the call only.                                    *)
(***************************************************************************)
LEMMA CallOnly ==
    ASSUME Inv, ~astray, UNCHANGED <<kernel, sock, addr, server, client, ghosts>>,
           ~Creating, ~Creating', call.at # "data" \/ ~IsTcp, CallOK', SentOnce', CallInv'
    PROVE  Inv'
<1>1. /\ kernel' = kernel /\ sock' = sock /\ addr' = addr /\ server' = server
      /\ client' = client /\ shared' = shared /\ lost' = lost /\ astray' = astray
  BY DEF ghosts
<1>2. TypeInv /\ Live
  BY DEF Inv
<1>3. TypeInv'
  BY <1>1, <1>2 DEF TypeInv
<1>4. \A t \in Targets : Held(t)' = Held(t)
  BY <1>1 DEF Held, InUse, Target
<1>5. \A s \in Server : Kept(s)' = Kept(s) /\ Own(s)' = Own(s)
  BY <1>1 DEF Kept, Own
<1>6. \A h : Good(h)' <=> Good(h)
  BY <1>1 DEF Good
<1>7. HandleInv'
  BY <1>1, <1>2, <1>4, <1>5, <1>6 DEF Live, HandleInv
<1>8. ServerInv' /\ ClientInv'
  BY <1>1, <1>2, <1>5 DEF Live, ServerInv, ClientInv, Creating
<1>9. AccountInv'
  BY <1>1, <1>2, <1>5 DEF Live, AccountInv, HasOwner, Open
<1>10. FrameInv'
  BY <1>1, <1>2, <1>4 DEF Live, FrameInv
<1> QED
  BY <1>1, <1>3, <1>7, <1>8, <1>9, <1>10 DEF Inv, Live

\* A call begins.
LEMMA StartsInv ==
    ASSUME Inv, ~astray, call = Idle, NEW to \in Targets, InUse(to),
           NEW from \in Server \cup {None}, from # None => server[from] # None,
           NEW again \in BOOLEAN, StartSend(to, from, again),
           UNCHANGED <<kernel, sock, addr, server, client, ghosts>>
    PROVE  Inv'
<1>1. call' \in Sends /\ call'.at = "send_data" /\ call'.to = to /\ call'.from = from
  BY DEF StartSend, Sends, Handle
<1>2. ~Creating /\ ~Creating' /\ call.at # "data"
  BY <1>1 DEF Creating, Idle
<1>3. CallOK' /\ SentOnce'
  BY <1>1 DEF CallOK, SentOnce
<1>4. CallInv'
  BY <1>1 DEF CallInv, Creating, Sending, InUse
<1> QED
  BY <1>2, <1>3, <1>4, CallOnly

\* It fails, or returns, or goes on to the next part.
LEMMA FailedIs ==
    ASSUME CallOK, Sending, NEW proto, Failed(proto)
    PROVE  /\ CallOK' /\ SentOnce' /\ ~Creating'
           /\ \/ call'.at = "return"
              \/ /\ call'.at = "send_data" /\ call'.to = call.to /\ call'.from = call.from
                 /\ proto = "tcp"
<1>1. call \in Sends
  BY CallKinds
<1>2. CASE call.again /\ proto = "tcp"
  <2>1. call' \in Sends /\ call'.at = "send_data" /\ call'.to = call.to /\ call'.from = call.from
    BY <1>1, <1>2 DEF Failed, Sends
  <2> QED
    BY <1>2, <2>1 DEF CallOK, SentOnce, Creating
<1>3. CASE ~(call.again /\ proto = "tcp")
  <2>1. call' = [at |-> "return", ret |-> "failed", wrote |-> call.wrote, short |-> call.short]
    BY <1>3 DEF Failed, Returns
  <2>2. call' \in Returned /\ call'.at = "return" /\ call'.ret = "failed" /\ call'.wrote = 0
    BY <1>1, <2>1 DEF Sends, Returned
  <2> QED
    BY <2>2 DEF CallOK, SentOnce, Creating
<1> QED
  BY <1>2, <1>3

LEMMA NotSentInv ==
    ASSUME Inv, ~astray, Sending, call.at # "data" \/ ~IsTcp, NEW proto, Failed(proto),
           UNCHANGED <<kernel, sock, addr, server, client, ghosts>>
    PROVE  Inv'
<1>1. CallOK /\ CallInv
  BY DEF Inv, Live
<1>2. CallOK' /\ SentOnce' /\ ~Creating' /\ ~Creating
  BY <1>1, FailedIs DEF Sending, Creating
<1>3. \/ call'.at = "return"
      \/ call'.at = "send_data" /\ call'.to = call.to /\ call'.from = call.from
  BY <1>1, FailedIs
<1>4. CallInv'
  BY <1>1, <1>3 DEF CallInv, Creating, Sending, InUse
<1> QED
  BY <1>2, <1>4, CallOnly

LEMMA SendingIs ==
    ASSUME CallOK, TypeInv, CallInv, Sending
    PROVE  /\ call \in Sends /\ call.to \in Targets /\ call.from \in Server \cup {None}
           /\ InUse(call.to) /\ Held(call.to) = Target(call.to).sock
           /\ call.from # None => server[call.from] # None
           /\ ~Creating
BY CallKinds DEF Sends, CallInv, Held, Sending, Creating

LEMMA ChosenIs ==
    ASSUME CallOK, TypeInv, HandleInv, ServerInv, ClientInv, CallInv, Sending
    PROVE  /\ Chosen \in Handle /\ Good(Chosen)
           /\ IsTcp => Chosen = Held(call.to)
           /\ Chosen.fd = 0 => Held(call.to) = NoSock /\ (IsTcp \/ call.from = None)
<1>1. /\ call.to \in Targets /\ call.from \in Server \cup {None} /\ ~Creating
      /\ Held(call.to) = Target(call.to).sock
      /\ call.from # None => server[call.from] # None
  BY SendingIs
<1>2. Held(call.to) \in Handle /\ Good(Held(call.to))
  BY <1>1, HeldHandle DEF HandleInv
<1>3. CASE ~IsTcp /\ call.from # None
  <2>1. Chosen = Own(call.from) /\ call.from \in Server
    BY <1>1, <1>3 DEF Chosen, Own
  <2>2. Chosen \in Handle /\ Good(Chosen)
    BY <1>1, <1>3, <2>1, OwnIs
  <2>3. Own(call.from).fd # 0
    BY <1>1, <1>3, <2>1 DEF ServerInv, Creating
  <2> QED
    BY <1>3, <2>1, <2>2, <2>3
<1>4. CASE ~IsTcp /\ call.from = None /\ client["udp"].fd # 0
  <2>1. Chosen = client["udp"]
    BY <1>4 DEF Chosen
  <2>2. PICK s \in Server : server[s] # None /\ Own(s) = client["udp"]
    BY <1>4 DEF ClientInv, Proto
  <2>3. Chosen \in Handle /\ Good(Chosen)
    BY <2>1, <2>2, OwnIs
  <2> QED
    BY <1>4, <2>1, <2>3
<1>5. CASE IsTcp \/ (call.from = None /\ client["udp"].fd = 0)
  <2>1. Chosen = Held(call.to)
    BY <1>1, <1>5 DEF Chosen
  <2>2. Held(call.to).fd = 0 => Held(call.to) = NoSock
    BY <1>2, GoodBound
  <2> QED
    BY <1>2, <1>5, <2>1, <2>2
<1> QED
  BY <1>3, <1>4, <1>5

LEMMA ChooseSocketInv == ASSUME Inv, ~astray, ChooseSocket PROVE Inv'
<1>1. CallOK /\ TypeInv /\ HandleInv /\ ServerInv /\ ClientInv /\ CallInv /\ Sending
  BY DEF Inv, Live, ChooseSocket, Sending
<1>2. call \in Sends /\ ~Creating /\ call.at = "send_data"
  BY <1>1, SendingIs DEF ChooseSocket
<1>3. PICK c, to : c = Chosen /\ to = call.to
  OBVIOUS
<1>4. c \in Handle /\ Good(c) /\ c.fd # 0 /\ (IsTcp => c = Target(to).sock)
  BY <1>1, <1>3, SendingIs, ChosenIs DEF ChooseSocket
<1>5. /\ call' \in Sends /\ call'.to = to /\ call'.from = call.from /\ call'.using = c
      /\ call'.at = IF IsTcp THEN "prefix" ELSE "data"
  BY <1>2, <1>3, <1>4 DEF ChooseSocket, Sends
<1>6. UNCHANGED <<kernel, sock, addr, server, client, ghosts>>
  BY DEF ChooseSocket
<1>7. CallOK' /\ SentOnce' /\ ~Creating'
  BY <1>5 DEF CallOK, SentOnce, Creating
<1>8. CallInv'
  <2>1. IsTcp' <=> IsTcp
    BY <1>3, <1>5, <1>6 DEF IsTcp, Target
  <2>2. Target(to)' = Target(to) /\ Good(c)'
    BY <1>4, <1>6 DEF Target, Good, ghosts
  <2>3. InUse(to)' /\ (call'.from # None => server'[call'.from] # None)
    BY <1>1, <1>3, <1>5, <1>6, SendingIs DEF InUse
  <2>4. call'.at # "socket()"
    BY <1>5
  <2> QED
    BY <1>4, <1>5, <1>7, <2>1, <2>2, <2>3, <2>4 DEF CallInv
<1> QED
  BY <1>2, <1>6, <1>7, <1>8, CallOnly

LEMMA SkipPrefixInv == ASSUME Inv, ~astray, SkipPrefix PROVE Inv'
<1>1. CallOK /\ TypeInv /\ CallInv /\ Sending
  BY DEF Inv, Live, SkipPrefix, Sending
<1>2. call \in Sends /\ ~Creating /\ call.at = "prefix"
  BY <1>1, SendingIs DEF SkipPrefix
<1>3. UNCHANGED <<kernel, sock, addr, server, client, ghosts>>
  BY DEF SkipPrefix
<1>4. call' \in Sends /\ call'.at = "data" /\ call'.to = call.to /\ call'.from = call.from /\ call'.using = call.using
  BY <1>2 DEF SkipPrefix, Sends
<1>5. CallOK' /\ SentOnce' /\ ~Creating'
  BY <1>4 DEF CallOK, SentOnce, Creating
<1>6. CallInv'
  BY <1>1, <1>2, <1>3, <1>4, <1>5
     DEF CallInv, Sending, InUse, IsTcp, Target, Good, ghosts, Creating
<1> QED
  BY <1>2, <1>3, <1>5, <1>6, CallOnly

LEMMA ReturnInv == ASSUME Inv, ~astray, Return PROVE Inv'
<1>1. call' = Idle /\ call.at = "return" /\ UNCHANGED <<kernel, sock, addr, server, client, ghosts>>
  BY DEF Return
<1>2. CallOK' /\ SentOnce' /\ CallInv' /\ ~Creating' /\ ~Creating
  BY <1>1 DEF CallOK, SentOnce, CallInv, Creating, Sending, Idle
<1> QED
  BY <1>1, <1>2, CallOnly

-----------------------------------------------------------------------------
(***************************************************************************)
(* Servers are made and freed.                                             *)
(***************************************************************************)
LEMMA IdleCall ==
    ASSUME call' = Idle
    PROVE  CallOK' /\ SentOnce' /\ CallInv' /\ ~Creating'
BY DEF CallOK, SentOnce, CallInv, Creating, Sending, Idle

LEMMA CreatingIs ==
    ASSUME CallOK, CallInv, Creating
    PROVE  /\ call \in Making /\ call.server \in Server /\ server[call.server] # None
           /\ Len(server[call.server].sockets) = 1
           /\ server[call.server].sources = EmptySources
           /\ ~Sending /\ call.at # "data"
BY CallKinds DEF CallInv, Making, Sending

LEMMA FreedInv ==
    ASSUME Inv, ~astray, NEW s \in Server, server[s] # None, lo_server_free(s), call' = Idle,
           call = Idle \/ (Creating /\ call.server = s)
    PROVE  Inv'
<1> DEFINE hs == ToSet(server[s].sockets)
           fds == {h.fd : h \in hs} \ {0}
           p == server[s].proto
<1>1. /\ CallOK /\ TypeInv /\ HandleInv /\ ServerInv /\ ClientInv /\ CallInv /\ AccountInv /\ FrameInv
  BY DEF Inv, Live
<1>2. /\ kernel' = Without(fds) /\ sock' = sock /\ addr' = addr /\ shared' = shared /\ lost' = lost
      /\ server' = [server EXCEPT ![s] = None]
      /\ client' = IF client[p].fd \in fds THEN [client EXCEPT ![p] = NoSock] ELSE client
      /\ astray' = (astray \/ \E f \in fds : kernel[f] # 0 /\ \A h \in hs : h.of # kernel[f])
  BY DEF lo_server_free
<1>3. hs = Kept(s) /\ hs \subseteq Handle /\ fds \subseteq Fd
  <2>1. hs = Kept(s) /\ hs \subseteq Handle
    BY <1>1, KeptHandle DEF Kept
  <2> QED
    BY <2>1 DEF Handle, NoSock
<1> HIDE DEF fds, hs, p
<1>4. /\ \A f \in Fd : kernel'[f] = IF f \in fds THEN 0 ELSE kernel[f]
      /\ kernel' \in [Fd -> 0 .. Len(sock)]
      /\ \A i \in 1 .. Len(sock) : Open(i)' => Open(i)
  BY <1>1, <1>2, WithoutIs
<1>5. TypeInv'
  <2>1. server' \in [Server -> lo_server \cup {None}] /\ client' \in [Proto -> Handle]
    BY <1>1, <1>2 DEF TypeInv, Handle
  <2> QED
    BY <1>1, <1>2, <1>4, <2>1 DEF TypeInv
<1>6. CallOK' /\ SentOnce' /\ CallInv' /\ ~Creating'
  BY IdleCall
<1>7. ASSUME astray' PROVE shared' # {}
  <2>1. PICK h \in hs : h.fd \in fds /\ kernel[h.fd] # 0 /\ h.of # kernel[h.fd]
    BY <1>2, <1>7 DEF fds
  <2>2. h \in Handle /\ Good(h) /\ Wrong(h)
    BY <1>1, <1>3, <2>1 DEF HandleInv, Wrong, Names, fds
  <2> QED
    BY <1>2, <2>2, WrongShares
<1>8. ASSUME ~astray' PROVE Live'
  <2>1. \A f \in fds : kernel[f] = 0 \/ \E h \in hs : h.of = kernel[f]
    BY <1>2, <1>8
  <2>2. /\ \A r \in Server : server'[r] = IF r = s THEN None ELSE server[r]
        /\ \A r \in Server : Kept(r)' = IF r = s THEN {} ELSE Kept(r)
        /\ \A r \in Server : r # s => Own(r)' = Own(r)
    BY <1>1, <1>2 DEF TypeInv, Kept, Own
  <2>3. ASSUME NEW t \in Targets
        PROVE  /\ Held(t)' = Held(t) \/ Held(t)' = NoSock
               /\ (\E f \in Fd : t = ToSource(s, f)) => Held(t)' = NoSock
    <3>1. CASE IsSource(t)
      <4>1. t.server \in Server /\ t.fd \in Fd /\ t = ToSource(t.server, t.fd)
        BY <3>1, TargetIs
      <4> QED
        BY <2>2, <4>1, HeldBySource, TargetIs
    <3>2. CASE ~IsSource(t)
      <4>1. t.addr \in Addr /\ t = ToAddr(t.addr)
        BY <3>2, TargetIs
      <4> QED
        BY <1>2, <3>2, <4>1, HeldByAddr, TargetIs
    <3> QED
      BY <3>1, <3>2
  <2>4. ASSUME NEW t \in Targets, Held(t)'.fd \in fds, kernel[Held(t)'.fd] = Held(t)'.of
        PROVE  Held(t)'.of \in shared'
    <3>1. Held(t)' = Held(t) /\ Held(t).fd \in Fd
      <4>1. NoSock.fd \notin fds
        BY DEF fds, NoSock
      <4> QED
        BY <1>3, <2>3, <2>4, <4>1
    <3>2. Held(t) \in Handle /\ Good(Held(t)) /\ Held(t).of # 0
      BY <1>1, <3>1, HeldHandle, BoundsAssumption DEF HandleInv, Handle, NoSock, Fd
    <3>3. PICK h \in hs : h.of = Held(t).of
      BY <2>1, <2>4, <3>1, <3>2
    <3>4. h.of \in shared \/ t = ToSource(s, h.fd)
      BY <1>1, <1>3, <3>2, <3>3 DEF HandleInv
    <3>5. h \in Handle /\ h # NoSock
      BY <1>3, <3>2, <3>3 DEF NoSock
    <3>6. t # ToSource(s, h.fd)
      BY <2>3, <3>1, <3>2, <3>5 DEF Handle, NoSock
    <3> QED
      BY <1>2, <3>1, <3>3, <3>4, <3>6
  <2>5. ASSUME NEW r \in Server, NEW g \in Kept(r)', g.fd \in fds, kernel[g.fd] = g.of
        PROVE  FALSE
    <3>1. r # s /\ g \in Kept(r) /\ g \in Handle
      BY <1>1, <2>2, <2>5, KeptHandle
    <3>2. g.of # 0
      BY <1>3, <2>5, <3>1, BoundsAssumption DEF Handle, NoSock, Fd
    <3>3. PICK h \in hs : h.of = g.of
      BY <2>1, <2>5, <3>2
    <3> QED
      BY <1>1, <1>3, <3>1, <3>2, <3>3 DEF HandleInv
  <2>6. HandleInv'
    <3>1. \A r \in Server : Kept(r)' \subseteq Kept(r) \cup {NoSock}
      BY <2>2
    <3> QED
      BY <1>1, <1>2, <2>3, <2>4, <2>5, <3>1, Shrinks
  <2>7. ServerInv'
    BY <1>1, <1>2, <2>2 DEF ServerInv, Creating, Idle
  <2>8. ClientInv'
    <3> SUFFICES ASSUME NEW q \in Proto, client'[q].fd # 0
                 PROVE  \E r \in Server : /\ server'[r] # None /\ server'[r].proto = q
                                          /\ Own(r)' = client'[q]
      BY <1>6 DEF ClientInv
    <3>1. client'[q] = client[q] /\ ~(q = p /\ client[p].fd \in fds)
      BY <1>1, <1>2 DEF TypeInv, NoSock
    <3>2. PICK r \in Server : server[r] # None /\ server[r].proto = q /\ Own(r) = client[q]
      BY <1>1, <3>1 DEF ClientInv
    <3>3. CASE r = s
      <4>1. Own(s) \in hs /\ q = p /\ Own(s).fd = client[p].fd /\ client[p].fd # 0
        BY <1>1, <1>3, <3>1, <3>2, <3>3, OwnIs DEF p
      <4> QED
        BY <3>1, <4>1 DEF fds
    <3>4. CASE r # s
      BY <2>2, <3>1, <3>2, <3>4
    <3> QED
      BY <3>3, <3>4
  <2>9. AccountInv'
    <3> SUFFICES ASSUME NEW i \in 1 .. Len(sock), Open(i)' PROVE HasOwner(i)'
      BY <1>2 DEF AccountInv
    <3>1. PICK f \in Fd : f \notin fds /\ kernel[f] = i
      BY <1>4 DEF Open
    <3>2. HasOwner(i)
      BY <1>1, <1>4 DEF AccountInv
    <3>3. ASSUME NEW r \in Server, NEW h \in Kept(r), h.of = i PROVE r # s
      <4>1. SUFFICES ASSUME r = s PROVE FALSE
        OBVIOUS
      <4>2. Good(h) /\ h # NoSock
        BY <1>1, <3>3, BoundsAssumption DEF HandleInv, NoSock
      <4>3. h.fd = f /\ h.fd # 0
        BY <3>1, <3>3, <4>2 DEF Good, Fd
      <4> QED
        BY <1>3, <3>1, <3>3, <4>1, <4>3 DEF fds
    <3> QED
      BY <1>2, <2>2, <3>2, <3>3 DEF HasOwner
  <2>10. FrameInv'
    <3>1. ~(call.at = "data")
      BY <1>1, CallKinds DEF Creating, Idle
    <3> QED
      BY <1>1, <1>2, <2>3, <3>1 DEF FrameInv, NoSock
  <2> QED
    BY <1>6, <2>6, <2>7, <2>8, <2>9, <2>10 DEF Live
<1> QED
  BY <1>5, <1>6, <1>7, <1>8 DEF Inv

LEMMA FreesInv ==
    ASSUME Inv, ~astray,
           \/ \E s \in Server : FreeServer(s)
           \/ OpenServerFails \/ BindFails \/ lo_server_join_multicast_group
           \/ BindTaken /\ ~(call.tries + 1 < MaxTries)
    PROVE  Inv'
<1>1. CASE \E s \in Server : FreeServer(s)
  BY <1>1, FreedInv DEF FreeServer
<1>2. CASE \/ OpenServerFails \/ BindFails \/ lo_server_join_multicast_group
           \/ BindTaken /\ ~(call.tries + 1 < MaxTries)
  <2>1. Creating /\ lo_server_free(call.server) /\ call' = Idle
    BY <1>2 DEF OpenServerFails, BindFails, lo_server_join_multicast_group, BindTaken, Creating
  <2>2. call.server \in Server /\ server[call.server] # None
    BY <2>1, CreatingIs DEF Inv, Live
  <2> QED
    BY <2>1, <2>2, FreedInv
<1> QED
  BY <1>1, <1>2

LEMMA AllTargets ==
    ASSUME NEW t \in Targets
    PROVE  \/ \E a \in Addr : t = ToAddr(a)
           \/ \E s \in Server, f \in Fd : t = ToSource(s, f)
BY DEF Targets

\* The server is another one, or none, with no source and no socket but NoSock.
LEMMA EmptiedInv ==
    ASSUME Inv, ~astray, NEW s \in Server, NEW new \in lo_server \cup {None},
           server' = [server EXCEPT ![s] = new],
           new # None => /\ new.sockets = <<NoSock>> /\ new.sources = EmptySources
                         /\ call'.at = "socket()" /\ call'.server = s,
           server[s] # None =>
              /\ Creating /\ call.server = s
              /\ \A h \in Kept(s) : h.of \in lost',
           lost \subseteq lost', lost' \subseteq Nat,
           UNCHANGED <<kernel, sock, addr, client, shared, astray>>,
           call.at # "data", \A r \in Server : Own(r).fd = 0 /\ server[r] # None => r = s,
           Creating => call.server = s, Creating' => call'.server = s,
           CallOK', SentOnce', CallInv'
    PROVE  Inv'
<1>1. /\ CallOK /\ TypeInv /\ HandleInv /\ ServerInv /\ ClientInv /\ CallInv /\ AccountInv /\ FrameInv
  BY DEF Inv, Live
<1>2. /\ kernel' = kernel /\ sock' = sock /\ addr' = addr /\ client' = client
      /\ shared' = shared /\ astray' = astray
  OBVIOUS
<1>3. \A r \in Server : server'[r] = IF r = s THEN new ELSE server[r]
  BY <1>1 DEF TypeInv
<1>4. TypeInv'
  BY <1>1, <1>2 DEF TypeInv
<1>5. /\ \A r \in Server : r # s => Kept(r)' = Kept(r) /\ Own(r)' = Own(r)
      /\ Kept(s)' \subseteq {NoSock}
      /\ new # None => Own(s)' = NoSock
  <2>1. new # None => ToSet(new.sockets) = {NoSock} /\ new.sockets[1] = NoSock
    BY DEF ToSet
  <2> QED
    BY <1>3, <2>1 DEF Kept, Own
<1>6. ASSUME NEW t \in Targets PROVE Held(t)' \in {Held(t), NoSock}
  <2>1. CASE \E a \in Addr : t = ToAddr(a)
    BY <1>2, <2>1, HeldByAddr
  <2>2. CASE \E r \in Server, f \in Fd : t = ToSource(r, f)
    BY <1>3, <2>2, HeldBySource DEF EmptySources
  <2> QED
    BY <2>1, <2>2, AllTargets
<1>7. HandleInv'
  <2>1. kernel' = Without({})
    BY <1>1, <1>2 DEF TypeInv, Without
  <2> QED
    BY <1>1, <1>2, <1>5, <1>6, <2>1, Shrinks
<1>8. ServerInv'
  <2> SUFFICES ASSUME NEW r \in Server, server'[r] # None
               PROVE  /\ TableOK(server'[r]) /\ Own(r)'.of \notin shared'
                      /\ Own(r)'.fd = 0 => call'.at = "socket()" /\ call'.server = r
    BY DEF ServerInv
  <2>1. CASE r = s
    <3>1. server'[s] = new /\ new # None /\ Own(s)' = NoSock
      BY <1>3, <1>5, <2>1
    <3>2. TableOK(new)
      BY <3>1 DEF TableOK, Fits, NoSock
    <3>3. NoSock.of \notin shared'
      BY <1>4 DEF TypeInv, NoSock
    <3> QED
      BY <2>1, <3>1, <3>2, <3>3
  <2>2. CASE r # s
    BY <1>1, <1>2, <1>3, <1>5, <2>2 DEF ServerInv
  <2> QED
    BY <2>1, <2>2
<1>9. ClientInv'
  <2> SUFFICES ASSUME NEW q \in Proto, client[q].fd # 0
               PROVE  \E r \in Server : /\ server'[r] # None /\ server'[r].proto = q
                                        /\ Own(r)' = client[q] /\ r # s
    BY <1>2 DEF ClientInv
  <2>1. PICK r \in Server : /\ server[r] # None /\ server[r].proto = q /\ Own(r) = client[q]
                            /\ ~(Creating /\ call.server = r)
    BY <1>1 DEF ClientInv
  <2> QED
    BY <1>3, <1>5, <2>1
<1>10. AccountInv'
  <2> SUFFICES ASSUME NEW i \in 1 .. Len(sock), Open(i) PROVE HasOwner(i)'
    BY <1>2 DEF AccountInv, Open
  <2>1. HasOwner(i)
    BY <1>1 DEF AccountInv
  <2>2. Kept(s) # {} => server[s] # None
    BY DEF Kept
  <2> QED
    BY <1>2, <1>5, <2>1, <2>2 DEF HasOwner
<1>11. FrameInv'
  BY <1>1, <1>2, <1>6 DEF FrameInv, NoSock
<1> QED
  BY <1>1, <1>2, <1>4, <1>7, <1>8, <1>9, <1>10, <1>11 DEF Inv, Live

LEMMA lo_server_newInv ==
    ASSUME Inv, ~astray, NEW s \in Server, NEW p \in Proto, lo_server_new(s, p)
    PROVE  Inv'
<1>1. /\ CallOK /\ TypeInv /\ ServerInv
  BY DEF Inv, Live
<1> DEFINE new == [proto |-> p, sockets |-> <<NoSock>>, sources |-> EmptySources]
<1>2. /\ call = Idle /\ server[s] = None /\ server' = [server EXCEPT ![s] = new]
      /\ call' = [at |-> "socket()", server |-> s, tries |-> 0]
      /\ UNCHANGED <<kernel, sock, addr, client, shared, lost, astray>>
  BY DEF lo_server_new, ghosts
<1>3. new \in lo_server
  BY DEF lo_server, Handle, EmptySources
<1>4. ~Creating /\ call' \in Making /\ call.at # "data"
  BY <1>2 DEF Creating, Making, Idle
<1>5. \A r \in Server : server[r] # None => Own(r).fd # 0
  BY <1>1, <1>4 DEF ServerInv, Creating
<1>6. server'[s] = new /\ new # None
  BY <1>1, <1>2, <1>3, NoneIsNot DEF TypeInv
<1>7. CallOK' /\ SentOnce' /\ CallInv'
  <2>1. Own(s)' = NoSock
    BY <1>6 DEF Own
  <2> QED
    BY <1>2, <1>4, <1>6, <2>1 DEF CallOK, SentOnce, CallInv, Creating, Sending
<1> QED
  BY <1>1, <1>2, <1>3, <1>4, <1>5, <1>7, EmptiedInv DEF TypeInv

LEMMA HandleNumbers ==
    ASSUME NEW h \in Handle
    PROVE  h.of \in Nat /\ h.fd \in Nat /\ (h # NoSock => h.of # 0 /\ h.fd \in Fd)
BY BoundsAssumption DEF Handle, NoSock, Fd

LEMMA BindTakenInv ==
    ASSUME Inv, ~astray, BindTaken, call.tries + 1 < MaxTries
    PROVE  Inv'
<1>1. CallOK /\ TypeInv /\ ServerInv /\ CallInv /\ Creating
  BY DEF Inv, Live, BindTaken, Creating
<1>2. PICK s \in Server : s = call.server
  BY <1>1, CreatingIs
<1> DEFINE new == [server[s] EXCEPT !.sockets = [server[s].sockets EXCEPT ![1] = NoSock]]
<1>3. /\ call.at = "bind" /\ server' = [server EXCEPT ![s] = new]
      /\ call' = [call EXCEPT !.at = "socket()", !.tries = call.tries + 1]
      /\ lost' = lost \cup {Own(s).of}
      /\ UNCHANGED <<kernel, sock, addr, client, shared, astray>>
  BY <1>2 DEF BindTaken, Own
<1>4. /\ server[s] \in lo_server /\ server[s].sockets \in Seq(Handle) /\ Len(server[s].sockets) = 1
      /\ server[s].sources = EmptySources /\ call \in Making
  BY <1>1, <1>2, CreatingIs, TableIs DEF TypeInv, Tables
<1>5. [server[s].sockets EXCEPT ![1] = NoSock] = <<NoSock>>
  BY <1>4
<1>6. new \in lo_server /\ new.sockets = <<NoSock>> /\ new.sources = EmptySources
  BY <1>4, <1>5 DEF lo_server, Handle
<1> HIDE DEF new
<1>7. Kept(s) = {Own(s)} /\ Own(s) \in Handle
  BY <1>1, <1>2, <1>4, CreatingIs DEF Kept, Own, ToSet
<1>8. call' \in Making /\ call'.at = "socket()" /\ call'.server = s
  <2>1. PICK n : n = call.tries + 1
    OBVIOUS
  <2>2. n \in Nat
    BY <1>4, <2>1 DEF Making
  <2>3. call' = [call EXCEPT !.at = "socket()", !.tries = n]
    BY <1>3, <2>1
  <2> QED
    BY <1>2, <1>4, <2>2, <2>3 DEF Making
<1>9. \A r \in Server : Own(r).fd = 0 /\ server[r] # None => r = s
  BY <1>1, <1>2 DEF ServerInv
<1>10. server'[s] = new /\ new # None
  BY <1>1, <1>3, <1>6, NoneIsNot DEF TypeInv
<1>11. CallOK' /\ SentOnce' /\ CallInv'
  <2>1. Own(s)' = NoSock
    BY <1>6, <1>10 DEF Own
  <2> QED
    BY <1>6, <1>8, <1>10, <2>1 DEF CallOK, SentOnce, CallInv, Creating, Sending
<1>12. lost \subseteq lost' /\ lost' \subseteq Nat /\ \A h \in Kept(s) : h.of \in lost'
  BY <1>1, <1>3, <1>7, HandleNumbers DEF TypeInv
<1> QED
  BY <1>1, <1>2, <1>3, <1>6, <1>8, <1>9, <1>11, <1>12, EmptiedInv

LEMMA IfaceUnknownInv ==
    ASSUME Inv, ~astray, IfaceUnknown
    PROVE  Inv'
<1>1. CallOK /\ TypeInv /\ ServerInv /\ CallInv /\ Creating
  BY DEF Inv, Live, IfaceUnknown, Creating
<1>2. PICK s \in Server : s = call.server
  BY <1>1, CreatingIs
<1>3. /\ call.at = "bind" /\ server' = [server EXCEPT ![s] = None] /\ call' = Idle
      /\ lost' = lost \cup {Own(s).of}
      /\ UNCHANGED <<kernel, sock, addr, client, shared, astray>>
  BY <1>2 DEF IfaceUnknown, Own
<1>4. server[s].sockets \in Seq(Handle) /\ Len(server[s].sockets) = 1
  BY <1>1, <1>2, CreatingIs, TableIs DEF TypeInv, Tables
<1>5. Kept(s) = {Own(s)} /\ Own(s) \in Handle
  BY <1>1, <1>2, <1>4, CreatingIs DEF Kept, Own, ToSet
<1>6. \A r \in Server : Own(r).fd = 0 /\ server[r] # None => r = s
  BY <1>1, <1>2 DEF ServerInv
<1>7. lost \subseteq lost' /\ lost' \subseteq Nat /\ \A h \in Kept(s) : h.of \in lost'
  BY <1>1, <1>3, <1>5, HandleNumbers DEF TypeInv
<1> QED
  BY <1>1, <1>2, <1>3, <1>6, <1>7, EmptiedInv, IdleCall

LEMMA BindOkInv ==
    ASSUME Inv, ~astray, BindOk
    PROVE  Inv'
<1>1. /\ CallOK /\ TypeInv /\ HandleInv /\ ServerInv /\ ClientInv /\ CallInv /\ AccountInv /\ FrameInv
      /\ Creating
  BY DEF Inv, Live, BindOk, Creating
<1>2. PICK s \in Server : s = call.server /\ server[s] # None
  BY <1>1, CreatingIs
<1>3. PICK p \in Proto : p = server[s].proto
  BY <1>1, <1>2, TableIs DEF TypeInv, Tables
<1>4. /\ call.at = "bind" /\ call' = Idle /\ client' = [client EXCEPT ![p] = Own(s)]
      /\ kernel' = kernel /\ sock' = sock /\ addr' = addr /\ server' = server
      /\ shared' = shared /\ lost' = lost /\ astray' = astray
  BY <1>2, <1>3 DEF BindOk, Own, ghosts
<1>5. TypeInv'
  <2>1. Own(s) \in Handle
    BY <1>1, <1>2, OwnIs
  <2> QED
    BY <1>1, <1>4, <2>1 DEF TypeInv
<1>6. CallOK' /\ SentOnce' /\ CallInv' /\ ~Creating'
  BY <1>4, IdleCall
<1>7. \A t \in Targets : Held(t)' = Held(t)
  BY <1>4 DEF Held, InUse, Target
<1>8. \A r \in Server : Kept(r)' = Kept(r) /\ Own(r)' = Own(r)
  BY <1>4 DEF Kept, Own
<1>9. \A h : Good(h)' <=> Good(h)
  BY <1>4 DEF Good
<1>10. HandleInv'
  BY <1>1, <1>4, <1>7, <1>8, <1>9 DEF HandleInv
<1>11. ServerInv'
  BY <1>1, <1>4, <1>8 DEF ServerInv
<1>12. ClientInv'
  BY <1>1, <1>2, <1>3, <1>4, <1>6, <1>8 DEF ClientInv, TypeInv
<1>13. AccountInv'
  BY <1>1, <1>4, <1>8 DEF AccountInv, HasOwner, Open
<1>14. FrameInv'
  BY <1>1, <1>4, <1>7 DEF FrameInv
<1> QED
  BY <1>4, <1>5, <1>6, <1>10, <1>11, <1>12, <1>13, <1>14 DEF Inv, Live

-----------------------------------------------------------------------------
(***************************************************************************)
(* A socket is opened.                                                     *)
(***************************************************************************)
LEMMA OpensIs ==
    ASSUME TypeInv, NEW stream, NEW nonblock \in BOOLEAN, Opens(stream, nonblock)
    PROVE  /\ sock' \in Seq(Socket) /\ Len(sock') = Len(sock) + 1 /\ Len(sock') <= MaxOpens
           /\ kernel' \in [Fd -> 0 .. Len(sock')]
           /\ \A i \in 1 .. Len(sock) : sock'[i] = sock[i] /\ (Open(i)' => Open(i))
           /\ sock'[Len(sock) + 1].wire = "whole"
<1>1. /\ NewHandle.fd = NextFd /\ NextFd \in Fd /\ kernel[NextFd] = 0
      /\ Len(sock) + 1 \in 1 .. MaxOpens /\ Len(sock) \in Nat
  BY NewHandleIs DEF Opens, TypeInv
<1> DEFINE new == [nonblock |-> nonblock, wire |-> "whole", peer |-> IF stream THEN "up" ELSE "none"]
<1>2. new \in Socket /\ new.wire = "whole"
  BY DEF Socket
<1>3. sock' = Append(sock, new) /\ kernel' = [kernel EXCEPT ![NextFd] = Len(sock) + 1]
  BY DEF Opens
<1> HIDE DEF new
<1>4. sock \in Seq(Socket) /\ kernel \in [Fd -> 0 .. Len(sock)]
  BY DEF TypeInv
<1>5. /\ sock' \in Seq(Socket) /\ Len(sock') = Len(sock) + 1 /\ sock'[Len(sock) + 1] = new
      /\ \A i \in 1 .. Len(sock) : sock'[i] = sock[i]
  BY <1>2, <1>3, <1>4
<1>6. kernel' \in [Fd -> 0 .. Len(sock')]
  BY <1>1, <1>3, <1>4, <1>5
<1>7. \A i \in 1 .. Len(sock) : Open(i)' => Open(i)
  BY <1>1, <1>3, <1>4 DEF Open
<1> QED
  BY <1>1, <1>2, <1>5, <1>6, <1>7

LEMMA OpensFrame ==
    ASSUME TypeInv, FrameInv, NEW stream, NEW nonblock \in BOOLEAN, Opens(stream, nonblock),
           call.at # "data", NEW n, n.of = Len(sock) + 1,
           \A t \in Targets : Held(t)' \in {Held(t), n}
    PROVE  FrameInv'
<1>1. /\ Len(sock') = Len(sock) + 1 /\ Len(sock) \in Nat
      /\ \A i \in 1 .. Len(sock) : sock'[i] = sock[i]
      /\ sock'[Len(sock) + 1].wire = "whole"
  BY OpensIs DEF TypeInv
<1> SUFFICES ASSUME NEW i \in 1 .. Len(sock) + 1, ~sock'[i].nonblock
             PROVE  /\ sock'[i].wire # "torn"
                    /\ sock'[i].wire = "cut" => sock'[i].peer = "reset"
                    /\ sock'[i].wire = "prefix" => \A t \in Targets : Held(t)'.of # i
  BY <1>1 DEF FrameInv
<1>2. CASE i = Len(sock) + 1
  BY <1>1, <1>2
<1>3. CASE i \in 1 .. Len(sock)
  BY <1>1, <1>3 DEF FrameInv
<1> QED
  BY <1>1, <1>2, <1>3

LEMMA OpenServerSocketInv ==
    ASSUME Inv, ~astray, OpenServerSocket
    PROVE  Inv'
<1>1. /\ CallOK /\ TypeInv /\ HandleInv /\ ServerInv /\ ClientInv /\ CallInv /\ AccountInv /\ FrameInv
      /\ Creating
  BY DEF Inv, Live, OpenServerSocket, Creating
<1>2. PICK s \in Server, n \in Handle : s = call.server /\ n = NewHandle
  BY <1>1, CreatingIs, NewHandleIs DEF OpenServerSocket, Opens
<1> DEFINE new == [server[s] EXCEPT !.sockets = [server[s].sockets EXCEPT ![1] = n]]
<1>3. /\ call.at = "socket()" /\ Opens(FALSE, FALSE) /\ server' = [server EXCEPT ![s] = new]
      /\ call' = [call EXCEPT !.at = "bind"]
      /\ addr' = addr /\ client' = client /\ shared' = shared /\ lost' = lost /\ astray' = astray
  BY <1>2 DEF OpenServerSocket, ghosts
<1>4. /\ server[s] \in lo_server /\ server[s].sockets \in Seq(Handle) /\ Len(server[s].sockets) = 1
      /\ server[s].sources = EmptySources /\ call \in Making
  BY <1>1, <1>2, CreatingIs, TableIs DEF TypeInv, Tables
<1>5. [server[s].sockets EXCEPT ![1] = n] = <<n>>
  BY <1>4
<1>6. new \in lo_server /\ new.sockets = <<n>> /\ new.sources = EmptySources /\ new.proto = server[s].proto
  BY <1>4, <1>5 DEF lo_server
<1> HIDE DEF new
<1>7. /\ \A r \in Server : server'[r] = IF r = s THEN new ELSE server[r]
      /\ new # None
  BY <1>1, <1>3, <1>6, NoneIsNot DEF TypeInv
<1>8. /\ n.of = Len(sock) + 1 /\ n.fd \in Fd /\ n.fd # 0 /\ Len(sock) \in Nat
      /\ shared \subseteq 1 .. Len(sock)
  BY <1>1, <1>2, <1>3, NewHandleIs DEF Opens, Fd, TypeInv
<1>9. /\ sock' \in Seq(Socket) /\ Len(sock') = Len(sock) + 1 /\ Len(sock') <= MaxOpens
      /\ kernel' \in [Fd -> 0 .. Len(sock')]
      /\ \A i \in 1 .. Len(sock) : sock'[i] = sock[i] /\ (Open(i)' => Open(i))
      /\ sock'[Len(sock) + 1].wire = "whole"
  BY <1>1, <1>3, OpensIs
<1>10. TypeInv'
  <2>1. server' \in [Server -> lo_server \cup {None}]
    BY <1>1, <1>3, <1>6 DEF TypeInv
  <2> QED
    BY <1>1, <1>3, <1>8, <1>9, <2>1 DEF TypeInv
<1>11. call' \in Making /\ call'.at = "bind" /\ call'.server = s
  BY <1>2, <1>3, <1>4 DEF Making
<1>12. /\ \A r \in Server : r # s => Kept(r)' = Kept(r) /\ Own(r)' = Own(r)
       /\ Kept(s)' = {n} /\ Own(s)' = n
       /\ Kept(s) = {Own(s)} /\ Own(s) = NoSock
  <2>1. ToSet(new.sockets) = {n} /\ new.sockets[1] = n
    BY <1>6 DEF ToSet
  <2>2. Own(s) = NoSock /\ server[s] # None
    BY <1>1, <1>2, <1>3, CreatingIs DEF CallInv
  <2>3. ToSet(server[s].sockets) = {Own(s)}
    BY <1>4 DEF ToSet, Own
  <2> QED
    BY <1>7, <2>1, <2>2, <2>3 DEF Kept, Own
<1>13. ASSUME NEW t \in Targets PROVE Held(t)' = Held(t) /\ Held(t) # n
  <2>1. Held(t)' = Held(t)
    <3>1. CASE \E a \in Addr : t = ToAddr(a)
      BY <1>3, <3>1, HeldByAddr
    <3>2. CASE \E r \in Server, f \in Fd : t = ToSource(r, f)
      BY <1>4, <1>6, <1>7, <3>2, HeldBySource DEF EmptySources
    <3> QED
      BY <3>1, <3>2, AllTargets
  <2>2. Held(t).of \in 0 .. Len(sock)
    BY <1>1, HeldHandle, GoodBound DEF HandleInv
  <2> QED
    BY <1>8, <2>1, <2>2
<1>14. \A r \in Server : r # s => n \notin Kept(r)
  <2> SUFFICES ASSUME NEW r \in Server, n \in Kept(r) PROVE FALSE
    OBVIOUS
  <2>1. Good(n)
    BY <1>1 DEF HandleInv
  <2> QED
    BY <1>1, <1>8, <2>1, GoodBound
<1>15. HandleInv'
  <2>1. /\ \A t \in Targets : Held(t)' \in {Held(t), n} /\ Held(t)' # n
        /\ \A r \in Server : Kept(r)' \subseteq Kept(r) \cup {n}
        /\ \A r \in Server : n \in Kept(r)' => r = s
    BY <1>12, <1>13, <1>14
  <2>2. n = NewHandle
    BY <1>2
  <2> QED
    BY <1>1, <1>3, <2>1, <2>2, Grows
<1>16. ServerInv'
  <2> SUFFICES ASSUME NEW r \in Server, server'[r] # None
               PROVE  /\ TableOK(server'[r]) /\ Own(r)'.of \notin shared'
                      /\ Own(r)'.fd # 0
    BY DEF ServerInv
  <2>1. CASE r = s
    <3>1. TableOK(new)
      BY <1>6, <1>8 DEF TableOK, Fits, EmptySources
    <3> QED
      BY <1>3, <1>7, <1>8, <1>12, <2>1, <3>1
  <2>2. CASE r # s
    BY <1>1, <1>2, <1>3, <1>7, <1>12, <2>2 DEF ServerInv
  <2> QED
    BY <2>1, <2>2
<1>17. ClientInv'
  <2> SUFFICES ASSUME NEW q \in Proto, client[q].fd # 0
               PROVE  \E r \in Server : /\ server'[r] # None /\ server'[r].proto = q
                                        /\ Own(r)' = client[q] /\ r # s
    BY <1>3, <1>11 DEF ClientInv
  <2>1. PICK r \in Server : /\ server[r] # None /\ server[r].proto = q /\ Own(r) = client[q]
                            /\ ~(Creating /\ call.server = r)
    BY <1>1 DEF ClientInv
  <2> QED
    BY <1>1, <1>2, <1>7, <1>12, <2>1
<1>18. AccountInv'
  <2> SUFFICES ASSUME NEW i \in 1 .. Len(sock) + 1, Open(i)' PROVE HasOwner(i)'
    BY <1>9 DEF AccountInv
  <2>1. CASE i = n.of
    BY <1>12, <2>1 DEF HasOwner
  <2>2. CASE i # n.of
    <3>1. i \in 1 .. Len(sock)
      BY <1>8, <2>2
    <3>2. HasOwner(i)
      BY <1>1, <1>9, <3>1 DEF AccountInv
    <3> QED
      BY <1>3, <1>12, <3>1, <3>2 DEF HasOwner, NoSock
  <2> QED
    BY <2>1, <2>2
<1>19. FrameInv'
  BY <1>1, <1>3, <1>8, <1>13, OpensFrame
<1>20. CallOK' /\ SentOnce' /\ CallInv'
  BY <1>6, <1>7, <1>11 DEF CallOK, SentOnce, CallInv, Creating, Sending
<1> QED
  BY <1>3, <1>10, <1>15, <1>16, <1>17, <1>18, <1>19, <1>20 DEF Inv, Live

\* The new socket is added to a server.
LEMMA AddedIs ==
    ASSUME TypeInv, HandleInv, ServerInv, NEW s \in Server, server[s] # None, Own(s).fd # 0, CanOpen,
           NEW n, n = NewHandle, NEW a \in Source, a.sock = n,
           NEW add, add = lo_server_add_socket(server, s, n, a)
    PROVE  /\ add \in Tables /\ add[s] # None /\ \A r \in Server \ {s} : add[r] = server[r]
           /\ add[s].proto = server[s].proto
           /\ add[s].sources = [server[s].sources EXCEPT ![n.fd] = a]
           /\ ToSet(add[s].sockets) = Kept(s) \cup {n}
           /\ add[s].sockets[1] = Own(s)
           /\ TableOK(add[s])
<1>1. /\ n \in Handle /\ n.fd = NextFd /\ NextFd \in Fd /\ kernel[NextFd] = 0
      /\ n.of = Len(sock) + 1 /\ Len(sock) \in Nat
  BY NewHandleIs DEF TypeInv
<1>2. n.fd # Own(s).fd
  BY <1>1, OwnIs
<1>3. ToSet(server[s].sockets) = Kept(s) /\ server[s].sockets[1] = Own(s)
  BY DEF Kept, Own
<1>4. ASSUME NEW g \in Kept(s) PROVE g.of < n.of
  <2>1. g \in Handle /\ Good(g)
    BY KeptHandle DEF HandleInv
  <2>2. g.of \in 0 .. Len(sock)
    BY <2>1, GoodBound
  <2> QED
    BY <1>1, <2>2
<1>5. server \in Tables /\ TableOK(server[s])
  BY DEF TypeInv, Tables, ServerInv
<1>6. n.fd \in Fd /\ n.fd # server[s].sockets[1].fd /\ \A g \in ToSet(server[s].sockets) : g.of < n.of
  BY <1>1, <1>2, <1>3, <1>4
<1>7. Added(server, s, n, a, add)
  BY <1>1, <1>5, <1>6, AddSocketIs
<1> QED
  BY <1>3, <1>7 DEF Added

LEMMA AcceptInv ==
    ASSUME Inv, ~astray, NEW s \in Server, Accept(s)
    PROVE  Inv'
<1>1. /\ CallOK /\ TypeInv /\ HandleInv /\ ServerInv /\ ClientInv /\ CallInv /\ AccountInv /\ FrameInv
  BY DEF Inv, Live
<1>2. PICK n \in Handle : n = NewHandle
  BY <1>1, NewHandleIs DEF Accept, Opens
<1> DEFINE a == lo_address_init_with_sockaddr(n)
<1>3. /\ call = Idle /\ Opens(TRUE, TRUE) /\ CanOpen /\ server[s] # None
      /\ server' = lo_server_add_socket(server, s, n, a)
      /\ addr' = addr /\ client' = client /\ call' = Idle
      /\ shared' = shared /\ lost' = lost /\ astray' = astray
  BY <1>2 DEF Accept, Opens, ghosts
<1>4. a \in Source /\ a.sock = n
  BY <1>2 DEF lo_address_init_with_sockaddr, Source, Proto
<1> HIDE DEF a
<1>5. /\ n.of = Len(sock) + 1 /\ n.fd \in Fd /\ Len(sock) \in Nat /\ shared \subseteq 1 .. Len(sock)
  BY <1>1, <1>2, <1>3, NewHandleIs DEF TypeInv
<1>6. \A r \in Server : server[r] # None => Own(r).fd # 0
  BY <1>1, <1>3 DEF ServerInv, Idle
<1>7. /\ server' \in Tables /\ server'[s] # None /\ \A r \in Server \ {s} : server'[r] = server[r]
      /\ server'[s].proto = server[s].proto
      /\ server'[s].sources = [server[s].sources EXCEPT ![n.fd] = a]
      /\ ToSet(server'[s].sockets) = Kept(s) \cup {n}
      /\ server'[s].sockets[1] = Own(s)
      /\ TableOK(server'[s])
  BY <1>1, <1>2, <1>3, <1>4, <1>6, AddedIs
<1>8. /\ sock' \in Seq(Socket) /\ Len(sock') = Len(sock) + 1 /\ Len(sock') <= MaxOpens
      /\ kernel' \in [Fd -> 0 .. Len(sock')]
      /\ \A i \in 1 .. Len(sock) : sock'[i] = sock[i] /\ (Open(i)' => Open(i))
  BY <1>1, <1>3, OpensIs
<1>9. TypeInv'
  BY <1>1, <1>3, <1>5, <1>7, <1>8 DEF TypeInv, Tables
<1>10. /\ \A r \in Server : Kept(r)' = IF r = s THEN Kept(s) \cup {n} ELSE Kept(r)
       /\ \A r \in Server : Own(r)' = Own(r)
  BY <1>7 DEF Kept, Own
<1>11. ASSUME NEW t \in Targets PROVE Held(t)' = IF t = ToSource(s, n.fd) THEN n ELSE Held(t)
  <2>1. CASE \E b \in Addr : t = ToAddr(b)
    BY <1>3, <1>5, <2>1, HeldByAddr, TargetIs
  <2>2. CASE \E r \in Server, f \in Fd : t = ToSource(r, f)
    <3>1. PICK r \in Server, f \in Fd : t = ToSource(r, f)
      BY <2>2
    <3>2. CASE r = s
      <4>1. server[s].sources \in [Fd -> Source \cup {None}]
        BY <1>1, <1>3, TableIs DEF TypeInv, Tables
      <4>2. server'[s].sources[f] = IF f = n.fd THEN a ELSE server[s].sources[f]
        BY <1>5, <1>7, <4>1
      <4>3. a # None
        BY <1>4, NoneIsNot
      <4>4. t = ToSource(s, n.fd) <=> f = n.fd
        BY <1>5, <3>1, <3>2, TargetIs
      <4>5. Held(t)' = IF server'[s].sources[f] # None THEN server'[s].sources[f].sock ELSE NoSock
        BY <1>7, <3>1, <3>2, HeldBySource
      <4>6. Held(t) = IF server[s].sources[f] # None THEN server[s].sources[f].sock ELSE NoSock
        BY <1>3, <3>1, <3>2, HeldBySource
      <4> QED
        BY <1>4, <4>2, <4>3, <4>4, <4>5, <4>6
    <3>3. CASE r # s
      BY <1>5, <1>7, <3>1, <3>3, HeldBySource, TargetIs
    <3> QED
      BY <3>2, <3>3
  <2> QED
    BY <2>1, <2>2, AllTargets
<1>12. /\ \A t \in Targets : Held(t) # n
       /\ \A r \in Server : n \notin Kept(r)
  BY <1>1, <1>2, <1>5, GoodBound DEF HandleInv
<1>13. HandleInv'
  <2>1. /\ \A t \in Targets : Held(t)' \in {Held(t), n} /\ (Held(t)' = n => t = ToSource(s, n.fd))
        /\ \A r \in Server : Kept(r)' \subseteq Kept(r) \cup {n} /\ (n \in Kept(r)' => r = s)
    BY <1>10, <1>11, <1>12
  <2> QED
    BY <1>1, <1>2, <1>3, <2>1, Grows
<1>14. ServerInv'
  BY <1>1, <1>3, <1>6, <1>7, <1>10 DEF ServerInv
<1>15. ClientInv'
  BY <1>1, <1>3, <1>7, <1>10, IdleCall DEF ClientInv
<1>16. AccountInv'
  <2> SUFFICES ASSUME NEW i \in 1 .. Len(sock) + 1, Open(i)' PROVE HasOwner(i)'
    BY <1>8 DEF AccountInv
  <2>1. CASE i = n.of
    BY <1>10, <2>1 DEF HasOwner
  <2>2. CASE i # n.of
    <3>1. i \in 1 .. Len(sock)
      BY <1>5, <2>2
    <3>2. HasOwner(i)
      BY <1>1, <1>8, <3>1 DEF AccountInv
    <3> QED
      BY <1>3, <1>10, <3>2 DEF HasOwner
  <2> QED
    BY <2>1, <2>2
<1>17. FrameInv'
  BY <1>1, <1>3, <1>5, <1>11, OpensFrame DEF Idle
<1> QED
  BY <1>3, <1>9, <1>13, <1>14, <1>15, <1>16, <1>17, IdleCall, Zenon DEF Inv, Live

\* The tables after a socket was created for the target: n was added to the sending
\* server if it lends, and whose sources are the target's, or under n's number, has n.
Created(srv, n) ==
    /\ srv \in Tables
    /\ \A r \in Server : srv[r] = None <=> server[r] = None
    /\ \A r \in Server : server[r] # None =>
          /\ srv[r].proto = server[r].proto /\ srv[r].sockets[1] = Own(r) /\ TableOK(srv[r])
          /\ ToSet(srv[r].sockets) = IF Lends /\ r = call.from THEN Kept(r) \cup {n} ELSE Kept(r)

\* What a source of the tables has.
SourceSock(srv, r, f) ==
    IF srv[r] # None /\ srv[r].sources[f] # None THEN srv[r].sources[f].sock ELSE NoSock

\* The tables after a socket was created, and the sources in them.
CreatedFor(srv, n) ==
    /\ Created(srv, n)
    /\ \A r \in Server, f \in Fd :
          SourceSock(srv, r, f) = IF call.to = ToSource(r, f) \/ (Lends /\ r = call.from /\ f = n.fd)
                                  THEN n ELSE SourceSock(server, r, f)
    /\ IsSource(call.to) => /\ srv[call.to.server].sources[call.to.fd] # None
                            /\ srv[call.to.server].sources[call.to.fd].proto = Target(call.to).proto

LEMMA LentIs ==
    ASSUME TypeInv, HandleInv, ServerInv, CallOK, CallInv, Sending, CanOpen, NEW n, n = NewHandle,
           NEW a, a = lo_address_copy([Target(call.to) EXCEPT !.sock = n]),
           NEW mid, mid = IF Lends THEN lo_server_add_socket(server, call.from, n, a) ELSE server
    PROVE  /\ Created(mid, n)
           /\ \A r \in Server, f \in Fd :
                 /\ SourceSock(mid, r, f) = IF Lends /\ r = call.from /\ f = n.fd THEN n
                                            ELSE SourceSock(server, r, f)
                 /\ server[r] # None /\ server[r].sources[f] # None =>
                       mid[r].sources[f] = server[r].sources[f]
<1>1. /\ call.from \in Server \cup {None} /\ ~Creating
      /\ call.from # None => server[call.from] # None
  BY SendingIs
<1>2. server \in Tables /\ \A r \in Server : server[r] # None => TableOK(server[r])
  BY DEF TypeInv, Tables, ServerInv
<1>3. CASE ~Lends
  <2>1. mid = server
    BY <1>3
  <2> QED
    BY <1>2, <1>3, <2>1 DEF Created, Own, Kept
<1>4. CASE Lends
  <2>1. PICK s \in Server : s = call.from /\ server[s] # None
    BY <1>1, <1>4, NoneIsNot DEF Lends
  <2>2. n.fd \in Fd /\ n.fd = NextFd /\ server[s].sources[n.fd] = None
    BY <1>4, <2>1, NewHandleIs DEF Lends
  <2>3. a \in Source /\ a.sock = n /\ a # None
    <3>1. Held(call.to) = Target(call.to).sock /\ InUse(call.to) /\ call.to \in Targets
      BY SendingIs
    <3>2. Target(call.to) \in lo_address \cup Source
      <4>1. CASE IsSource(call.to)
        <5>1. /\ call.to.server \in Server /\ call.to.fd \in Fd /\ server[call.to.server] # None
              /\ server[call.to.server].sources[call.to.fd] # None
          BY <3>1, <4>1, TargetIs DEF InUse
        <5>2. server[call.to.server].sources \in [Fd -> Source \cup {None}]
          BY <1>2, <5>1, TableIs
        <5> QED
          BY <4>1, <5>1, <5>2 DEF Target
      <4>2. CASE ~IsSource(call.to)
        BY <3>1, <4>2, TargetIs DEF InUse, Target, TypeInv
      <4> QED
        BY <4>1, <4>2
    <3>3. n \in Handle /\ IsTcp
      BY <1>4, NewHandleIs DEF Lends
    <3>4. a = [sock |-> n, proto |-> "tcp"]
      BY <3>2, <3>3 DEF lo_address_copy, IsTcp, lo_address, Source
    <3>5. a \in Source /\ a.sock = n
      BY <3>3, <3>4 DEF Source, Proto
    <3> QED
      BY <3>5, NoneIsNot
  <2>4. mid = lo_server_add_socket(server, s, n, a)
    BY <1>4, <2>1
  <2>5. Own(s).fd # 0
    BY <1>1, <2>1 DEF ServerInv, Creating
  <2>6. /\ mid \in Tables /\ mid[s] # None /\ \A r \in Server \ {s} : mid[r] = server[r]
        /\ mid[s].proto = server[s].proto
        /\ mid[s].sources = [server[s].sources EXCEPT ![n.fd] = a]
        /\ ToSet(mid[s].sockets) = Kept(s) \cup {n}
        /\ mid[s].sockets[1] = Own(s)
        /\ TableOK(mid[s])
    BY <2>1, <2>3, <2>4, <2>5, AddedIs, SMTT(20)
  <2>7. server[s].sources \in [Fd -> Source \cup {None}]
    BY <1>2, <2>1, TableIs
  <2>8. \A f \in Fd : mid[s].sources[f] = IF f = n.fd THEN a ELSE server[s].sources[f]
    BY <2>2, <2>6, <2>7
  <2>9. Created(mid, n)
    <3>1. \A r \in Server : mid[r] = None <=> server[r] = None
      BY <2>1, <2>6
    <3>2. ASSUME NEW r \in Server, server[r] # None
          PROVE  /\ mid[r].proto = server[r].proto /\ mid[r].sockets[1] = Own(r) /\ TableOK(mid[r])
                 /\ ToSet(mid[r].sockets) = IF Lends /\ r = call.from THEN Kept(r) \cup {n} ELSE Kept(r)
      <4>1. CASE r = s
        BY <1>4, <2>1, <2>6, <4>1
      <4>2. CASE r # s
        BY <1>2, <2>1, <2>6, <3>2, <4>2 DEF Own, Kept
      <4> QED
        BY <4>1, <4>2
    <3> QED
      BY <2>6, <3>1, <3>2 DEF Created
  <2>10. ASSUME NEW r \in Server, NEW f \in Fd
         PROVE  /\ SourceSock(mid, r, f) = IF Lends /\ r = call.from /\ f = n.fd THEN n
                                           ELSE SourceSock(server, r, f)
                /\ server[r] # None /\ server[r].sources[f] # None =>
                      mid[r].sources[f] = server[r].sources[f]
    <3>1. CASE r = s
      BY <1>4, <2>1, <2>2, <2>3, <2>6, <2>8, <3>1 DEF SourceSock
    <3>2. CASE r # s
      BY <2>1, <2>6, <3>2 DEF SourceSock
    <3> QED
      BY <3>1, <3>2
  <2> QED
    BY <2>9, <2>10
<1> QED
  BY <1>3, <1>4

LEMMA CreatedIs ==
    ASSUME TypeInv, HandleInv, ServerInv, CallOK, CallInv, Sending, CanOpen, NEW n, n = NewHandle,
           NEW a, a = lo_address_copy([Target(call.to) EXCEPT !.sock = n]),
           server' = ServerSet(IF Lends THEN lo_server_add_socket(server, call.from, n, a)
                               ELSE server, call.to, n)
    PROVE  CreatedFor(server', n)
<1>1. PICK mid : mid = IF Lends THEN lo_server_add_socket(server, call.from, n, a) ELSE server
  OBVIOUS
<1>2. /\ Created(mid, n)
      /\ \A r \in Server, f \in Fd :
            /\ SourceSock(mid, r, f) = IF Lends /\ r = call.from /\ f = n.fd THEN n
                                       ELSE SourceSock(server, r, f)
            /\ server[r] # None /\ server[r].sources[f] # None =>
                  mid[r].sources[f] = server[r].sources[f]
  BY <1>1, LentIs
<1>3. server' = ServerSet(mid, call.to, n)
  BY <1>1
<1>4. CASE ~IsSource(call.to)
  <2>1. server' = mid
    BY <1>3, <1>4 DEF ServerSet
  <2>2. \A r \in Server, f \in Fd : call.to # ToSource(r, f)
    BY <1>4, TargetIs
  <2>3. /\ Created(server', n)
        /\ \A r \in Server, f \in Fd :
              SourceSock(server', r, f) = IF Lends /\ r = call.from /\ f = n.fd THEN n
                                          ELSE SourceSock(server, r, f)
    BY <1>2, <2>1, Zenon
  <2> QED
    BY <1>4, <2>2, <2>3, Zenon DEF CreatedFor
<1>5. CASE IsSource(call.to)
  <2>1. PICK s \in Server, g \in Fd :
           /\ call.to = ToSource(s, g) /\ call.to.server = s /\ call.to.fd = g
    BY <1>5, SendingIs, TargetIs
  <2>2. server[s] # None /\ server[s].sources[g] # None /\ Target(call.to) = server[s].sources[g]
    BY <1>5, <2>1, SendingIs DEF InUse, Target
  <2>3. mid \in Tables /\ mid[s] # None /\ TableOK(mid[s]) /\ mid[s].sources[g] = server[s].sources[g]
    BY <1>2, <2>2 DEF Created
  <2>4. n \in Handle /\ n.of = Len(sock) + 1 /\ Len(sock) \in Nat
    BY NewHandleIs DEF TypeInv
  <2>5. \A h \in ToSet(mid[s].sockets) : h.of <= n.of
    <3>1. ToSet(mid[s].sockets) \subseteq Kept(s) \cup {n} /\ n.of <= n.of
      <4>1. ToSet(mid[s].sockets) = IF Lends /\ s = call.from THEN Kept(s) \cup {n} ELSE Kept(s)
        BY <1>2, <2>2 DEF Created
      <4> QED
        BY <2>4, <4>1
    <3> SUFFICES ASSUME NEW h \in Kept(s) PROVE h.of <= n.of
      BY <3>1
    <3>2. h \in Handle /\ Good(h)
      BY KeptHandle DEF HandleInv
    <3> QED
      BY <2>4, <3>2, GoodBound
  <2>6. /\ server' \in Tables /\ server'[s] # None /\ \A r \in Server \ {s} : server'[r] = mid[r]
        /\ server'[s].proto = mid[s].proto
        /\ server'[s].sources = [mid[s].sources EXCEPT ![g].sock = n]
        /\ server'[s].sources[g] # None /\ server'[s].sources[g].sock = n
        /\ server'[s].sources[g].proto = mid[s].sources[g].proto
        /\ server'[s].sockets = mid[s].sockets
        /\ TableOK(server'[s])
    <3>1. server' = ServerSet(mid, ToSource(s, g), n)
      BY <1>3, <2>1
    <3>2. SourceSet(mid, s, g, n, server')
      BY <2>2, <2>3, <2>4, <2>5, <3>1, SourceSetIs
    <3> QED
      BY <2>3, <3>2 DEF SourceSet
  <2>7. Created(server', n)
    <3>1. \A r \in Server : server'[r] = None <=> server[r] = None
      <4>1. \A r \in Server : mid[r] = None <=> server[r] = None
        BY <1>2, Zenon DEF Created
      <4>2. \A r \in Server : r # s => server'[r] = mid[r]
        BY <2>6, Zenon
      <4>3. server'[s] # None /\ server[s] # None
        BY <2>2, <2>6, Zenon
      <4>4. ASSUME NEW r \in Server PROVE server'[r] = None <=> server[r] = None
        <5>1. CASE r = s
          BY <4>3, <5>1, Zenon
        <5>2. CASE r # s
          BY <4>1, <4>2, <5>2, Zenon
        <5> QED
          BY <5>1, <5>2, Zenon
      <4> QED
        BY <4>4, Zenon
    <3>2. ASSUME NEW r \in Server, server[r] # None
          PROVE  /\ server'[r].proto = mid[r].proto /\ server'[r].sockets = mid[r].sockets
                 /\ TableOK(server'[r])
      <4>1. CASE r = s
        BY <2>6, <4>1
      <4>2. CASE r # s
        <5>1. TableOK(mid[r])
          BY <1>2, <3>2, Zenon DEF Created
        <5>2. server'[r] = mid[r]
          BY <2>6, <4>2, Zenon
        <5> QED
          BY <5>1, <5>2, Zenon
      <4> QED
        BY <4>1, <4>2
    <3>3. \A r \in Server : server[r] # None =>
             /\ mid[r].proto = server[r].proto /\ mid[r].sockets[1] = Own(r)
             /\ ToSet(mid[r].sockets) = IF Lends /\ r = call.from THEN Kept(r) \cup {n} ELSE Kept(r)
      BY <1>2 DEF Created
    <3>4. ASSUME NEW r \in Server, server[r] # None
          PROVE  /\ server'[r].proto = server[r].proto /\ server'[r].sockets[1] = Own(r)
                 /\ TableOK(server'[r])
                 /\ ToSet(server'[r].sockets) = IF Lends /\ r = call.from THEN Kept(r) \cup {n} ELSE Kept(r)
      BY <3>2, <3>3, <3>4
    <3>5. server' \in Tables
      BY <2>6
    <3> QED
      BY <3>1, <3>4, <3>5, Zenon DEF Created
  <2>8. ASSUME NEW r \in Server, NEW f \in Fd
        PROVE  SourceSock(server', r, f) = IF call.to = ToSource(r, f) \/ (Lends /\ r = call.from /\ f = n.fd)
                                           THEN n ELSE SourceSock(server, r, f)
    <3>1. call.to = ToSource(r, f) <=> r = s /\ f = g
      BY <2>1, TargetIs
    <3>2. CASE r = s /\ f = g
      BY <2>6, <3>1, <3>2 DEF SourceSock
    <3>3. CASE r = s /\ f # g
      <4>1. mid[s].sources \in [Fd -> Source \cup {None}]
        BY <2>3, TableIs
      <4>2. server'[s].sources[f] = mid[s].sources[f]
        BY <2>6, <3>3, <4>1
      <4>3. SourceSock(server', r, f) = SourceSock(mid, r, f)
        BY <2>3, <2>6, <3>3, <4>2 DEF SourceSock
      <4> QED
        BY <1>2, <3>1, <3>3, <4>3
    <3>4. CASE r # s
      <4>1. SourceSock(server', r, f) = SourceSock(mid, r, f)
        BY <2>6, <3>4 DEF SourceSock
      <4> QED
        BY <1>2, <3>1, <3>4, <4>1
    <3> QED
      BY <3>2, <3>3, <3>4
  <2>9. /\ server'[call.to.server].sources[call.to.fd] # None
        /\ server'[call.to.server].sources[call.to.fd].proto = Target(call.to).proto
    <3>1. server'[s].sources[g] # None
      BY <2>6, Zenon
    <3>2. server'[s].sources[g].proto = Target(call.to).proto
      BY <2>2, <2>3, <2>6, Zenon
    <3>3. call.to.server = s /\ call.to.fd = g
      BY <2>1, Zenon
    <3> QED
      BY <3>1, <3>2, <3>3
  <2> QED
    BY <2>7, <2>8, <2>9, Zenon DEF CreatedFor
<1> QED
  BY <1>4, <1>5

LEMMA create_socketInv == ASSUME Inv, ~astray, create_socket PROVE Inv'
<1>1. /\ CallOK /\ TypeInv /\ HandleInv /\ ServerInv /\ ClientInv /\ CallInv /\ AccountInv /\ FrameInv
      /\ Sending
  BY DEF Inv, Live, create_socket, Sending
<1>2. PICK n \in Handle, to \in Targets, from \in Server \cup {None} :
         n = NewHandle /\ to = call.to /\ from = call.from
  BY <1>1, NewHandleIs, SendingIs DEF create_socket, Opens
<1>3. PICK a : a = lo_address_copy([Target(call.to) EXCEPT !.sock = n])
  OBVIOUS
<1>4. /\ call.at = "send_data" /\ Opens(IsTcp, Lends) /\ CanOpen
      /\ server' = ServerSet(IF Lends THEN lo_server_add_socket(server, call.from, n, a)
                             ELSE server, call.to, n)
      /\ shared' = IF Lends THEN shared \cup {n.of} ELSE shared
      /\ lost' = IF Lends \/ Owned(call.to) THEN lost ELSE lost \cup {n.of}
      /\ client' = client /\ astray' = astray
  BY <1>2, <1>3 DEF create_socket, Opens
<1>5. /\ call' = [call EXCEPT !.using = n, !.at = IF IsTcp THEN "prefix" ELSE "data"]
      /\ addr' = IF IsSource(to) THEN addr
                 ELSE LET b == addr[to.addr] IN
                      [addr EXCEPT ![to.addr] = [b EXCEPT !.sock = n, !.own = b.own /\ ~Lends]]
  BY <1>2 DEF create_socket
<1>6. /\ n.of = Len(sock) + 1 /\ n.fd \in Fd /\ n.fd # 0 /\ Len(sock) \in Nat /\ shared \subseteq 1 .. Len(sock)
      /\ n.fd = NextFd
  BY <1>1, <1>2, <1>4, NewHandleIs DEF TypeInv, Fd
<1>7. Held(to) = NoSock /\ InUse(to) /\ Chosen.fd = 0 /\ ~Creating
  BY <1>1, <1>2, SendingIs, ChosenIs DEF create_socket
<1>8. /\ Created(server', n)
      /\ \A r \in Server, f \in Fd :
            SourceSock(server', r, f) = IF to = ToSource(r, f) \/ (Lends /\ r = from /\ f = n.fd)
                                        THEN n ELSE SourceSock(server, r, f)
      /\ IsSource(to) => server'[to.server].sources[to.fd] # None
             /\ server'[to.server].sources[to.fd].proto = Target(to).proto
  <2>1. CreatedFor(server', n)
    BY <1>1, <1>2, <1>3, <1>4, CreatedIs
  <2> QED
    BY <1>2, <2>1, Zenon DEF CreatedFor
<1>9. Lends => from \in Server /\ server[from] # None
  BY <1>1, <1>2, SendingIs, NoneIsNot DEF Lends
<1>10. \A r \in Server : /\ Own(r)' = Own(r) \/ server[r] = None
                         /\ Kept(r)' = IF Lends /\ r = from THEN Kept(r) \cup {n} ELSE Kept(r)
  BY <1>2, <1>8, <1>9 DEF Created, Own, Kept
<1>11. /\ sock' \in Seq(Socket) /\ Len(sock') = Len(sock) + 1 /\ Len(sock') <= MaxOpens
       /\ kernel' \in [Fd -> 0 .. Len(sock')]
       /\ \A i \in 1 .. Len(sock) : sock'[i] = sock[i] /\ (Open(i)' => Open(i))
  <2>1. Lends \in BOOLEAN
    BY DEF Lends, IsTcp
  <2> QED
    BY <1>1, <1>4, <2>1, OpensIs
<1>12. ~IsSource(to) => /\ to.addr \in Addr /\ to = ToAddr(to.addr) /\ addr[to.addr] # None
                        /\ addr[to.addr] \in lo_address /\ addr[to.addr].sock = NoSock
                        /\ Target(to) = addr[to.addr]
  BY <1>1, <1>2, <1>7, TargetIs DEF InUse, Held, Target, TypeInv
<1>13. \A b \in Addr : IF to = ToAddr(b)
                       THEN /\ addr'[b] \in lo_address /\ addr'[b] # None /\ addr'[b].sock = n
                            /\ addr'[b].own = (addr[b].own /\ ~Lends) /\ addr'[b].proto = addr[b].proto
                       ELSE addr'[b] = addr[b]
  <2> SUFFICES ASSUME NEW b \in Addr
               PROVE  IF to = ToAddr(b)
                      THEN /\ addr'[b] \in lo_address /\ addr'[b] # None /\ addr'[b].sock = n
                           /\ addr'[b].own = (addr[b].own /\ ~Lends) /\ addr'[b].proto = addr[b].proto
                      ELSE addr'[b] = addr[b]
    OBVIOUS
  <2>1. CASE to = ToAddr(b)
    <3>1. ~IsSource(to) /\ to.addr = b
      BY <2>1, TargetIs
    <3>2. addr' = [addr EXCEPT ![b] = [addr[b] EXCEPT !.sock = n, !.own = addr[b].own /\ ~Lends]]
      BY <1>5, <3>1
    <3>3. addr'[b] = [addr[b] EXCEPT !.sock = n, !.own = addr[b].own /\ ~Lends]
      BY <1>1, <3>2 DEF TypeInv
    <3>4. (addr[b].own /\ ~Lends) \in BOOLEAN
      OBVIOUS
    <3>5. addr[b] \in lo_address
      BY <1>12, <3>1
    <3>6. /\ addr'[b] \in lo_address /\ addr'[b].sock = n
          /\ addr'[b].own = (addr[b].own /\ ~Lends) /\ addr'[b].proto = addr[b].proto
      BY <3>3, <3>4, <3>5 DEF lo_address
    <3> QED
      BY <2>1, <3>6, NoneIsNot
  <2>2. CASE to # ToAddr(b)
    <3>1. IsSource(to) \/ to.addr # b
      BY <1>12, <2>2
    <3> QED
      BY <1>1, <1>5, <2>2, <3>1 DEF TypeInv
  <2> QED
    BY <2>1, <2>2
<1>14. TypeInv'
  <2>1. addr' \in [Addr -> lo_address \cup {None}]
    <3>1. DOMAIN addr' = Addr /\ addr' = [b \in Addr |-> addr'[b]]
      BY <1>1, <1>5 DEF TypeInv
    <3>2. \A b \in Addr : addr'[b] \in lo_address \cup {None}
      BY <1>1, <1>13 DEF TypeInv
    <3> QED
      BY <3>1, <3>2
  <2>2. server' \in [Server -> lo_server \cup {None}]
    BY <1>8 DEF Created, Tables
  <2>3. shared' \subseteq 1 .. Len(sock') /\ lost' \subseteq Nat /\ client' \in [Proto -> Handle]
    <3>1. n.of \in 1 .. Len(sock') /\ n.of \in Nat /\ 1 .. Len(sock) \subseteq 1 .. Len(sock')
      BY <1>6, <1>11
    <3>2. shared' \subseteq shared \cup {n.of} /\ lost' \subseteq lost \cup {n.of}
      BY <1>4
    <3> QED
      BY <1>1, <1>4, <3>1, <3>2 DEF TypeInv
  <2> QED
    BY <1>11, <2>1, <2>2, <2>3 DEF TypeInv
<1>15. /\ call' \in Sends /\ call'.to = to /\ call'.from = from /\ call'.using = n
       /\ call'.at = IF IsTcp THEN "prefix" ELSE "data"
  <2>1. call \in Sends
    BY <1>1, SendingIs
  <2> QED
    BY <1>2, <1>5, <2>1 DEF Sends
<1>16. CallOK' /\ SentOnce' /\ ~Creating' /\ call'.at # "socket()"
  BY <1>15 DEF CallOK, SentOnce, Creating
<1> DEFINE Has(t) == t = to \/ (Lends /\ t = ToSource(from, n.fd))
<1>17. \A t \in Targets : Held(t)' = IF Has(t) THEN n ELSE Held(t)
  <2> SUFFICES ASSUME NEW t \in Targets PROVE Held(t)' = IF Has(t) THEN n ELSE Held(t)
    OBVIOUS
  <2>1. CASE \E b \in Addr : t = ToAddr(b)
    <3>1. PICK b \in Addr : t = ToAddr(b)
      BY <2>1
    <3>2. Lends => t # ToSource(from, n.fd)
      BY <1>6, <1>9, <3>1, TargetIs
    <3> QED
      BY <1>13, <3>1, <3>2, HeldByAddr
  <2>2. CASE \E r \in Server, f \in Fd : t = ToSource(r, f)
    <3>1. PICK r \in Server, f \in Fd : t = ToSource(r, f)
      BY <2>2
    <3>2. Held(t) = SourceSock(server, r, f) /\ Held(t)' = SourceSock(server', r, f)
      BY <3>1, HeldBySource DEF SourceSock
    <3>3. Lends => (t = ToSource(from, n.fd) <=> r = from /\ f = n.fd)
      BY <1>6, <1>9, <3>1, TargetIs
    <3> QED
      BY <1>8, <3>1, <3>2, <3>3
  <2> QED
    BY <2>1, <2>2, AllTargets
<1>18. /\ \A t \in Targets : Held(t) # n
       /\ \A r \in Server : n \notin Kept(r)
  BY <1>1, <1>2, <1>6, GoodBound DEF HandleInv
<1>19. HandleInv'
  <2>1. /\ \A t \in Targets : Held(t)' \in {Held(t), n} /\ (Held(t)' = n => Has(t))
        /\ \A r \in Server : Kept(r)' \subseteq Kept(r) \cup {n} /\ (n \in Kept(r)' => Lends /\ r = from)
    BY <1>10, <1>17, <1>18
  <2>2. Lends => n.of \in shared'
    BY <1>4
  <2>3. shared \subseteq shared'
    BY <1>4
  <2> HIDE DEF Has
  <2>4. \A t, u \in Targets : t # u /\ Held(t)' = n /\ Held(u)' = n => n.of \in shared' /\ Lends
    BY <2>1, <2>2 DEF Has
  <2> QED
    BY <1>1, <1>2, <1>4, <2>1, <2>2, <2>3, <2>4, Grows
<1>20. ServerInv'
  <2> SUFFICES ASSUME NEW r \in Server, server'[r] # None
               PROVE  /\ TableOK(server'[r]) /\ Own(r)'.of \notin shared'
                      /\ Own(r)'.fd # 0
    BY DEF ServerInv
  <2>1. server[r] # None /\ TableOK(server'[r]) /\ Own(r)' = Own(r)
    BY <1>8, <1>10 DEF Created
  <2>2. Own(r).fd # 0 /\ Own(r).of \notin shared /\ Own(r).of \in 1 .. Len(sock)
    BY <1>1, <1>7, <2>1, OwnIs DEF ServerInv, Creating
  <2> QED
    BY <1>4, <1>6, <2>1, <2>2
<1>21. ClientInv'
  <2> SUFFICES ASSUME NEW q \in Proto, client[q].fd # 0
               PROVE  \E r \in Server : /\ server'[r] # None /\ server'[r].proto = q
                                        /\ Own(r)' = client[q]
    BY <1>4, <1>16 DEF ClientInv
  <2>1. PICK r \in Server : server[r] # None /\ server[r].proto = q /\ Own(r) = client[q]
    BY <1>1 DEF ClientInv
  <2> QED
    BY <1>8, <1>10, <2>1 DEF Created
<1>22. CallInv'
  <2>1. Target(to).proto' = Target(to).proto /\ InUse(to)' /\ Target(to)'.sock = n
    <3>1. CASE IsSource(to)
      <4>1. to.server \in Server /\ to.fd \in Fd /\ to = ToSource(to.server, to.fd) /\ server[to.server] # None
        BY <1>2, <1>7, <3>1, TargetIs DEF InUse
      <4>2. server'[to.server] # None /\ SourceSock(server', to.server, to.fd) = n
        BY <1>8, <4>1 DEF Created
      <4> QED
        BY <1>8, <3>1, <4>2 DEF Target, InUse, SourceSock
    <3>2. CASE ~IsSource(to)
      BY <1>12, <1>13, <3>2 DEF Target, InUse
    <3> QED
      BY <3>1, <3>2
  <2>2. IsTcp' <=> IsTcp
    BY <1>2, <1>15, <2>1 DEF IsTcp
  <2>3. Good(n)'
    BY <1>1, <1>2, <1>19, <1>17 DEF HandleInv
  <2>4. from # None => server'[from] # None
    BY <1>1, <1>2, <1>8, SendingIs DEF Created
  <2> QED
    BY <1>6, <1>15, <1>16, <2>1, <2>2, <2>3, <2>4 DEF CallInv
<1>23. AccountInv'
  <2> SUFFICES ASSUME NEW i \in 1 .. Len(sock) + 1, Open(i)' PROVE HasOwner(i)'
    BY <1>11 DEF AccountInv
  <2>1. CASE i = n.of
    <3>1. CASE Lends
      BY <1>9, <1>10, <2>1, <3>1 DEF HasOwner
    <3>2. CASE ~Lends /\ Owned(call.to)
      BY <1>2, <1>12, <1>13, <2>1, <3>2 DEF HasOwner, Owned
    <3>3. CASE ~Lends /\ ~Owned(call.to)
      BY <1>4, <2>1, <3>3 DEF HasOwner
    <3> QED
      BY <3>1, <3>2, <3>3
  <2>2. CASE i # n.of
    <3>1. i \in 1 .. Len(sock)
      BY <1>6, <2>2
    <3>2. HasOwner(i)
      BY <1>1, <1>11, <3>1 DEF AccountInv
    <3>3. CASE i \in lost
      BY <1>4, <3>3 DEF HasOwner
    <3>4. CASE \E b \in Addr : addr[b] # None /\ addr[b].own /\ addr[b].sock.of = i
      <4>1. PICK b \in Addr : addr[b] # None /\ addr[b].own /\ addr[b].sock.of = i
        BY <3>4
      <4>2. to # ToAddr(b)
        BY <1>12, <3>1, <4>1, TargetIs DEF NoSock
      <4> QED
        BY <1>13, <4>1, <4>2 DEF HasOwner
    <3>5. CASE \E r \in Server : \E h \in Kept(r) : h.of = i
      BY <1>10, <3>5 DEF HasOwner
    <3> QED
      BY <3>2, <3>3, <3>4, <3>5 DEF HasOwner
  <2> QED
    BY <2>1, <2>2
<1>24. FrameInv'
  <2>1. Lends \in BOOLEAN
    BY DEF Lends, IsTcp
  <2>2. \A t \in Targets : Held(t)' \in {Held(t), n}
    BY <1>17
  <2> QED
    BY <1>1, <1>4, <1>6, <2>1, <2>2, OpensFrame
<1> QED
  BY <1>4, <1>14, <1>16, <1>19, <1>20, <1>21, <1>22, <1>23, <1>24 DEF Inv, Live

-----------------------------------------------------------------------------
(***************************************************************************)
(* A socket is closed and its entry deleted.                               *)
(***************************************************************************)
\* The tables with fewer sockets and sources than the servers' have.
Shrunk(srv) ==
    /\ srv \in Tables
    /\ \A r \in Server : srv[r] = None <=> server[r] = None
    /\ \A r \in Server : server[r] # None =>
          /\ srv[r].proto = server[r].proto /\ srv[r].sockets[1] = Own(r) /\ TableOK(srv[r])
          /\ ToSet(srv[r].sockets) \subseteq Kept(r)

LEMMA ShrunkIs ==
    ASSUME TypeInv, HandleInv, ServerInv, NEW s \in Server, server[s] # None,
           NEW k \in 2 .. Len(server[s].sockets), NEW h, h = server[s].sockets[k],
           NEW del, del = lo_server_del_socket(server, s, k)
    PROVE  /\ Shrunk(del)
           /\ h \in Kept(s) /\ h \in Handle /\ h.fd \in Fd /\ Good(h)
           /\ ToSet(del[s].sockets) = Kept(s) \ {h}
           /\ \A r \in Server : r # s => del[r] = server[r]
           /\ \A f \in Fd : del[s].sources[f] = IF f = h.fd THEN None ELSE server[s].sources[f]
           /\ \A g \in Kept(s) : g.of = h.of => g = h
<1>1. /\ server \in Tables /\ TableOK(server[s]) /\ server[s].sockets \in Seq(Handle)
      /\ server[s].sources \in [Fd -> Source \cup {None}]
  BY TableIs DEF TypeInv, Tables, ServerInv
<1>2. Removed(server, s, h, del)
  BY <1>1, DelSocketIs
<1>3. Kept(s) = {server[s].sockets[j] : j \in 1 .. Len(server[s].sockets)} /\ Len(server[s].sockets) \in Nat
  BY <1>1 DEF Kept, ToSet
<1>4. h \in Kept(s) /\ h \in Handle /\ h.fd # 0 /\ Good(h)
  <2>1. h \in Kept(s)
    BY <1>3
  <2>2. h.fd # 0
    BY <1>1, Zenon DEF TableOK, Fits
  <2> QED
    BY <2>1, <2>2, KeptHandle DEF HandleInv
<1>5. h.fd \in Fd
  BY <1>4 DEF Handle, NoSock
<1>6. \A g \in Kept(s) : g.of = h.of => g = h
  <2>1. \A i, j \in 1 .. Len(server[s].sockets) :
           server[s].sockets[i].of = server[s].sockets[j].of => i = j
    BY <1>1, Zenon DEF TableOK, Fits
  <2>2. k \in 1 .. Len(server[s].sockets)
    BY <1>3
  <2> SUFFICES ASSUME NEW j \in 1 .. Len(server[s].sockets), server[s].sockets[j].of = h.of
               PROVE  server[s].sockets[j] = h
    BY <1>3
  <2> QED
    BY <2>1, <2>2, Zenon
<1>7. /\ ToSet(del[s].sockets) = Kept(s) \ {h}
      /\ \A r \in Server : r # s => del[r] = server[r]
  BY <1>2 DEF Removed, Kept
<1>8. \A f \in Fd : del[s].sources[f] = IF f = h.fd THEN None ELSE server[s].sources[f]
  BY <1>1, <1>2, <1>5 DEF Removed
<1>9. Shrunk(del)
  <2>1. del \in Tables /\ \A r \in Server : del[r] = None <=> server[r] = None
    BY <1>2 DEF Removed
  <2>2. ASSUME NEW r \in Server, server[r] # None
        PROVE  /\ del[r].proto = server[r].proto /\ del[r].sockets[1] = Own(r) /\ TableOK(del[r])
               /\ ToSet(del[r].sockets) \subseteq Kept(r)
    <3>1. CASE r = s
      BY <1>2, <1>7, <3>1 DEF Removed, Own
    <3>2. CASE r # s
      BY <1>2, <2>2, <3>2 DEF Removed, Own, Kept, ServerInv
    <3> QED
      BY <3>1, <3>2
  <2> QED
    BY <2>1, <2>2 DEF Shrunk
<1> QED
  BY <1>4, <1>5, <1>6, <1>7, <1>8, <1>9

\* What a target holds when tables have shrunk.
LEMMA HeldIsSource ==
    ASSUME NEW s \in Server, NEW f \in Fd
    PROVE  /\ Held(ToSource(s, f)) = SourceSock(server, s, f)
           /\ Held(ToSource(s, f))' = SourceSock(server', s, f)
BY HeldBySource DEF SourceSock

\* Invariants that only need that the tables have shrunk.
LEMMA ShrunkInv ==
    ASSUME TypeInv, HandleInv, ServerInv, ClientInv, Shrunk(server'), client' = client,
           ~Creating, ~Creating', shared \subseteq shared',
           \A s \in Server : server[s] # None => Own(s).of \notin shared'
    PROVE  /\ ServerInv' /\ ClientInv'
           /\ \A s \in Server : Kept(s)' \subseteq Kept(s)
           /\ \A s \in Server : server[s] # None => Own(s)' = Own(s)
<1>1. \A s \in Server : server[s] # None => Own(s)' = Own(s) /\ Own(s).fd # 0
  BY DEF Shrunk, Own, ServerInv, Creating
<1>2. \A s \in Server : Kept(s)' \subseteq Kept(s)
  BY DEF Shrunk, Kept
<1>3. ServerInv'
  BY <1>1 DEF ServerInv, Shrunk
<1>4. ClientInv'
  BY <1>1 DEF ClientInv, Shrunk
<1> QED
  BY <1>1, <1>2, <1>3, <1>4

LEMMA RecvEndsInv ==
    ASSUME Inv, ~astray, NEW s \in Server, RecvEnds(s)
    PROVE  Inv'
<1>1. /\ CallOK /\ TypeInv /\ HandleInv /\ ServerInv /\ ClientInv /\ CallInv /\ AccountInv /\ FrameInv
  BY DEF Inv, Live
<1>2. PICK k \in 2 .. Len(server[s].sockets) :
         /\ kernel' = Without({server[s].sockets[k].fd})
         /\ server' = lo_server_del_socket(server, s, k)
         /\ astray' = (astray \/ Wrong(server[s].sockets[k]))
  BY DEF RecvEnds
<1>3. PICK h : h = server[s].sockets[k]
  OBVIOUS
<1>4. /\ call = Idle /\ server[s] # None /\ sock' = sock /\ addr' = addr /\ client' = client
      /\ call' = Idle /\ shared' = shared /\ lost' = lost
      /\ kernel' = Without({h.fd}) /\ (astray' <=> Wrong(h))
  BY <1>2, <1>3 DEF RecvEnds
<1>5. /\ Shrunk(server')
      /\ h \in Kept(s) /\ h \in Handle /\ h.fd \in Fd /\ Good(h)
      /\ ToSet(server'[s].sockets) = Kept(s) \ {h}
      /\ \A r \in Server : r # s => server'[r] = server[r]
      /\ \A f \in Fd : server'[s].sources[f] = IF f = h.fd THEN None ELSE server[s].sources[f]
      /\ \A g \in Kept(s) : g.of = h.of => g = h
  BY <1>1, <1>2, <1>3, <1>4, ShrunkIs
<1>6. /\ \A f \in Fd : kernel'[f] = IF f = h.fd THEN 0 ELSE kernel[f]
      /\ kernel' \in [Fd -> 0 .. Len(sock)]
      /\ \A i \in 1 .. Len(sock) : Open(i)' => Open(i)
  <2>1. PICK F : F = {h.fd}
    OBVIOUS
  <2>2. TypeInv /\ kernel' = Without(F) /\ sock' = sock
    BY <1>1, <1>4, <2>1
  <2>3. /\ \A f \in Fd : kernel'[f] = IF f \in F THEN 0 ELSE kernel[f]
        /\ kernel' \in [Fd -> 0 .. Len(sock)]
        /\ \A i \in 1 .. Len(sock) : Open(i)' => Open(i)
    BY <2>2, WithoutIs
  <2> QED
    BY <2>1, <2>3
<1>7. TypeInv'
  <2>1. server' \in [Server -> lo_server \cup {None}]
    BY <1>5 DEF Shrunk, Tables
  <2> QED
    BY <1>1, <1>4, <1>6, <2>1 DEF TypeInv
<1>8. CallOK' /\ SentOnce' /\ CallInv' /\ ~Creating' /\ ~Creating /\ call.at # "data"
  BY <1>4, IdleCall DEF Creating, Idle
<1>9. ASSUME astray' PROVE shared' # {}
  BY <1>4, <1>5, <1>9, WrongShares
<1>10. ASSUME ~astray' PROVE Live'
  <2>1. kernel[h.fd] \in {0, h.of}
    BY <1>4, <1>5, <1>10 DEF Wrong, Names, Fd
  <2>2. /\ ServerInv' /\ ClientInv'
        /\ \A r \in Server : Kept(r)' \subseteq Kept(r)
    BY <1>1, <1>4, <1>5, <1>8, ShrunkInv, OwnIs
  <2>3. Kept(s)' = Kept(s) \ {h} /\ \A r \in Server : r # s => Kept(r)' = Kept(r)
    BY <1>4, <1>5 DEF Kept, Shrunk
  <2>4. ASSUME NEW t \in Targets
        PROVE  Held(t)' = IF t = ToSource(s, h.fd) THEN NoSock ELSE Held(t)
    <3>1. CASE \E b \in Addr : t = ToAddr(b)
      BY <1>4, <1>5, <3>1, HeldByAddr, TargetIs
    <3>2. CASE \E r \in Server, f \in Fd : t = ToSource(r, f)
      <4>1. PICK r \in Server, f \in Fd : t = ToSource(r, f)
        BY <3>2
      <4>2. t = ToSource(s, h.fd) <=> r = s /\ f = h.fd
        BY <1>5, <4>1, TargetIs
      <4>3. SourceSock(server', r, f) = IF r = s /\ f = h.fd THEN NoSock ELSE SourceSock(server, r, f)
        BY <1>4, <1>5 DEF SourceSock, Shrunk
      <4> QED
        BY <4>1, <4>2, <4>3, HeldIsSource
    <3> QED
      BY <3>1, <3>2, AllTargets
  <2>5. ASSUME NEW t \in Targets, Held(t)'.fd = h.fd, kernel[h.fd] = Held(t)'.of
        PROVE  Held(t)'.of \in shared'
    <3>1. Held(t)' = Held(t) /\ t # ToSource(s, h.fd) /\ Held(t) # NoSock
      BY <1>5, <2>4, <2>5 DEF NoSock, Fd
    <3>2. Held(t).of = h.of /\ h.of # 0
      BY <1>1, <2>1, <2>5, <3>1, HeldHandle, HandleNumbers
    <3> QED
      BY <1>1, <1>4, <1>5, <3>1, <3>2 DEF HandleInv
  <2>6. ASSUME NEW r \in Server, NEW g \in Kept(r)', g.fd = h.fd, kernel[h.fd] = g.of
        PROVE  FALSE
    <3>1. g \in Kept(r) /\ g # NoSock /\ g \in Handle
      BY <1>1, <1>5, <2>2, <2>6, KeptHandle DEF NoSock, Fd
    <3>2. g.of = h.of /\ h.of # 0
      BY <2>1, <2>6, <3>1, HandleNumbers
    <3>3. r = s
      BY <1>1, <1>5, <3>1, <3>2 DEF HandleInv
    <3> QED
      BY <1>5, <2>3, <2>6, <3>1, <3>2, <3>3
  <2>7. HandleInv'
    <3>1. /\ \A t \in Targets : Held(t)' \in {Held(t), NoSock}
          /\ \A r \in Server : Kept(r)' \subseteq Kept(r) \cup {NoSock}
      BY <2>2, <2>4
    <3> QED
      BY <1>1, <1>4, <2>5, <2>6, <3>1, Shrinks
  <2>8. AccountInv'
    <3> SUFFICES ASSUME NEW i \in 1 .. Len(sock), Open(i)' PROVE HasOwner(i)'
      BY <1>4 DEF AccountInv
    <3>1. PICK f \in Fd : f # h.fd /\ kernel[f] = i
      BY <1>6 DEF Open
    <3>2. i # h.of
      BY <1>5, <3>1 DEF Good, NoSock
    <3>3. HasOwner(i)
      BY <1>1, <1>6 DEF AccountInv
    <3> QED
      BY <1>4, <2>3, <3>2, <3>3 DEF HasOwner
  <2>9. FrameInv'
    BY <1>1, <1>4, <1>8, <2>4 DEF FrameInv, NoSock
  <2> QED
    BY <1>8, <2>2, <2>7, <2>8, <2>9 DEF Live
<1> QED
  BY <1>7, <1>8, <1>9, <1>10 DEF Inv

-----------------------------------------------------------------------------
(***************************************************************************)
(* Addresses come and go, and peers leave.                                 *)
(***************************************************************************)
LEMMA ServersSame ==
    ASSUME ServerInv, ClientInv, server' = server, client' = client, shared' = shared,
           call' = call \/ (~Creating /\ ~Creating')
    PROVE  /\ ServerInv' /\ ClientInv'
           /\ \A s \in Server : Kept(s)' = Kept(s) /\ Own(s)' = Own(s)
<1>1. \A s \in Server : Kept(s)' = Kept(s) /\ Own(s)' = Own(s)
  BY DEF Kept, Own
<1>2. CASE call' = call
  BY <1>1, <1>2 DEF ServerInv, ClientInv, Creating
<1>3. CASE ~Creating /\ ~Creating'
  <2>1. \A s \in Server : server[s] # None => Own(s).fd # 0
    BY <1>3 DEF ServerInv, Creating
  <2> QED
    BY <1>1, <1>3, <2>1 DEF ServerInv, ClientInv
<1> QED
  BY <1>1, <1>2, <1>3

LEMMA AddrHeld ==
    ASSUME NEW a \in Addr, server' = server,
           \A b \in Addr : b # a => addr'[b] = addr[b]
    PROVE  \A t \in Targets : t # ToAddr(a) => Held(t)' = Held(t)
<1> SUFFICES ASSUME NEW t \in Targets, t # ToAddr(a) PROVE Held(t)' = Held(t)
  OBVIOUS
<1>1. CASE \E b \in Addr : t = ToAddr(b)
  BY <1>1, HeldByAddr
<1>2. CASE \E r \in Server, f \in Fd : t = ToSource(r, f)
  BY <1>2, HeldBySource
<1> QED
  BY <1>1, <1>2, AllTargets

LEMMA lo_address_newInv ==
    ASSUME Inv, ~astray, NEW a \in Addr, NEW p \in Proto, lo_address_new(a, p)
    PROVE  Inv'
<1>1. /\ CallOK /\ TypeInv /\ HandleInv /\ ServerInv /\ ClientInv /\ CallInv /\ AccountInv /\ FrameInv
  BY DEF Inv, Live
<1> DEFINE new == [proto |-> p, sock |-> NoSock, own |-> TRUE]
<1>2. /\ call = Idle /\ call' = Idle /\ addr[a] = None /\ addr' = [addr EXCEPT ![a] = new]
      /\ kernel' = kernel /\ sock' = sock /\ server' = server /\ client' = client
      /\ shared' = shared /\ lost' = lost /\ astray' = astray
  BY DEF lo_address_new, ghosts
<1>3. new \in lo_address /\ new.sock = NoSock
  BY DEF lo_address, Handle
<1> HIDE DEF new
<1>4. \A b \in Addr : addr'[b] = IF b = a THEN new ELSE addr[b]
  BY <1>1, <1>2 DEF TypeInv
<1>5. TypeInv'
  BY <1>1, <1>2, <1>3 DEF TypeInv
<1>6. CallOK' /\ SentOnce' /\ CallInv' /\ ~Creating' /\ ~Creating /\ call.at # "data"
  BY <1>2, IdleCall DEF Creating, Idle
<1>7. ServerInv' /\ ClientInv' /\ \A s \in Server : Kept(s)' = Kept(s)
  BY <1>1, <1>2, <1>6, ServersSame
<1>8. \A t \in Targets : Held(t)' \in {Held(t), NoSock}
  BY <1>2, <1>3, <1>4, AddrHeld, HeldByAddr
<1>9. HandleInv'
  <2>1. kernel' = Without({})
    BY <1>1, <1>2 DEF TypeInv, Without
  <2> QED
    BY <1>1, <1>2, <1>7, <1>8, <2>1, Shrinks
<1>10. AccountInv'
  <2>1. \A i \in 1 .. Len(sock) : Open(i)' => Open(i)
    BY <1>2 DEF Open
  <2> QED
    BY <1>1, <1>2, <1>4, <1>7, <2>1 DEF AccountInv, HasOwner
<1>11. FrameInv'
  BY <1>1, <1>2, <1>6, <1>8 DEF FrameInv, NoSock
<1> QED
  BY <1>1, <1>2, <1>5, <1>6, <1>7, <1>9, <1>10, <1>11 DEF Inv, Live

LEMMA lo_address_freeInv ==
    ASSUME Inv, ~astray, NEW a \in Addr, lo_address_free(a)
    PROVE  Inv'
<1>1. /\ CallOK /\ TypeInv /\ HandleInv /\ ServerInv /\ ClientInv /\ CallInv /\ AccountInv /\ FrameInv
  BY DEF Inv, Live
<1>2. PICK h : h = addr[a].sock
  OBVIOUS
<1> DEFINE F == IF addr[a].own THEN {h.fd} \ {0} ELSE {}
<1>3. /\ call = Idle /\ call' = Idle /\ addr[a] # None /\ addr' = [addr EXCEPT ![a] = None]
      /\ sock' = sock /\ server' = server /\ client' = client
      /\ shared' = shared /\ lost' = lost
  BY DEF lo_address_free
<1>4. h = Held(ToAddr(a)) /\ h \in Handle /\ Good(h) /\ addr[a] \in lo_address /\ ToAddr(a) \in Targets
  <2>1. addr[a] \in lo_address /\ h \in Handle
    BY <1>1, <1>2, <1>3 DEF TypeInv, lo_address
  <2>2. h = Held(ToAddr(a)) /\ ToAddr(a) \in Targets
    BY <1>2, <1>3, HeldByAddr, TargetIs
  <2> QED
    BY <1>1, <2>1, <2>2 DEF HandleInv
<1>5. F \subseteq Fd /\ kernel' = Without(F) /\ (astray' <=> addr[a].own /\ Wrong(h))
  <2>1. CASE addr[a].own
    <3>1. kernel' = Without({h.fd}) /\ (astray' <=> Wrong(h))
      BY <1>2, <2>1 DEF lo_address_free
    <3>2. Without({h.fd}) = Without(F)
      BY <2>1 DEF Without, Fd
    <3> QED
      BY <1>4, <2>1, <3>1, <3>2 DEF Handle, NoSock
  <2>2. CASE ~addr[a].own
    <3>1. kernel' = kernel /\ astray' = astray
      BY <1>2, <2>2 DEF lo_address_free
    <3>2. Without(F) = kernel
      BY <1>1, <2>2 DEF Without, TypeInv
    <3> QED
      BY <2>2, <3>1, <3>2
  <2> QED
    BY <2>1, <2>2
<1>6. /\ \A f \in Fd : kernel'[f] = IF f \in F THEN 0 ELSE kernel[f]
      /\ kernel' \in [Fd -> 0 .. Len(sock)]
      /\ \A i \in 1 .. Len(sock) : Open(i)' => Open(i)
  BY <1>1, <1>3, <1>5, WithoutIs
<1>7. TypeInv'
  BY <1>1, <1>3, <1>6 DEF TypeInv
<1>8. CallOK' /\ SentOnce' /\ CallInv' /\ ~Creating' /\ ~Creating /\ call.at # "data"
  BY <1>3, IdleCall DEF Creating, Idle
<1>9. ASSUME astray' PROVE shared' # {}
  BY <1>3, <1>4, <1>5, <1>9, WrongShares
<1>10. ASSUME ~astray' PROVE Live'
  <2>1. F # {} => F = {h.fd} /\ h.fd # 0 /\ kernel[h.fd] \in {0, h.of} /\ h.of # 0
    <3>1. CASE F # {}
      <4>1. addr[a].own /\ h.fd # 0 /\ F = {h.fd}
        BY <3>1
      <4>2. ~Wrong(h)
        BY <1>5, <1>10, <4>1
      <4> QED
        BY <1>4, <4>1, <4>2, HandleNumbers DEF Wrong, Names, NoSock
    <3> QED
      BY <3>1
  <2> HIDE DEF F
  <2>2. ServerInv' /\ ClientInv' /\ \A s \in Server : Kept(s)' = Kept(s)
    BY <1>1, <1>3, <1>8, ServersSame
  <2>3. \A t \in Targets : Held(t)' = IF t = ToAddr(a) THEN NoSock ELSE Held(t)
    <3>1. \A b \in Addr : addr'[b] = IF b = a THEN None ELSE addr[b]
      BY <1>1, <1>3 DEF TypeInv
    <3> QED
      BY <1>3, <3>1, AddrHeld, HeldByAddr
  <2>4. 0 \notin F
    BY <2>1
  <2>5. ASSUME NEW t \in Targets, Held(t)'.fd \in F, kernel[Held(t)'.fd] = Held(t)'.of
        PROVE  Held(t)'.of \in shared'
    <3>1. Held(t)' = Held(t) /\ t # ToAddr(a) /\ Held(t) # NoSock
      BY <2>3, <2>4, <2>5 DEF NoSock
    <3>2. Held(t).of = h.of /\ h.of # 0
      BY <1>1, <2>1, <2>5, <3>1, HeldHandle, HandleNumbers
    <3> QED
      BY <1>1, <1>3, <1>4, <3>1, <3>2 DEF HandleInv
  <2>6. ASSUME NEW s \in Server, NEW g \in Kept(s)', g.fd \in F, kernel[g.fd] = g.of
        PROVE  g.of \in shared'
    <3>1. g \in Kept(s) /\ g \in Handle /\ g # NoSock
      BY <1>1, <2>2, <2>4, <2>6, KeptHandle DEF NoSock
    <3>2. g.of = h.of /\ h.of # 0
      BY <2>1, <2>6, <3>1, HandleNumbers
    <3>3. ToAddr(a) # ToSource(s, g.fd)
      BY <2>1, <2>6, <1>4, <1>5, TargetIs
    <3> QED
      BY <1>1, <1>3, <1>4, <3>1, <3>2, <3>3 DEF HandleInv
  <2>7. HandleInv'
    <3>1. /\ \A t \in Targets : Held(t)' \in {Held(t), NoSock}
          /\ \A r \in Server : Kept(r)' \subseteq Kept(r) \cup {NoSock}
      BY <2>2, <2>3
    <3> QED
      BY <1>1, <1>3, <1>5, <2>5, <2>6, <3>1, Shrinks
  <2>8. AccountInv'
    <3> SUFFICES ASSUME NEW i \in 1 .. Len(sock), Open(i)' PROVE HasOwner(i)'
      BY <1>3 DEF AccountInv
    <3>1. PICK f \in Fd : f \notin F /\ kernel[f] = i
      BY <1>6 DEF Open
    <3>2. HasOwner(i)
      BY <1>1, <1>6 DEF AccountInv
    <3>3. addr[a].own => h.of # i
      <4> SUFFICES ASSUME addr[a].own, h.of = i PROVE FALSE
        OBVIOUS
      <4>1. h # NoSock
        BY DEF NoSock
      <4>2. h.fd = f /\ h.fd # 0
        BY <1>4, <3>1, <4>1, HandleNumbers DEF Good, Fd
      <4> QED
        BY <3>1, <4>2 DEF F
    <3>4. \A b \in Addr : addr'[b] = IF b = a THEN None ELSE addr[b]
      BY <1>1, <1>3 DEF TypeInv
    <3> QED
      BY <1>2, <1>3, <2>2, <3>2, <3>3, <3>4 DEF HasOwner
  <2>9. FrameInv'
    BY <1>1, <1>3, <1>8, <2>3 DEF FrameInv, NoSock
  <2> QED
    BY <1>8, <2>2, <2>7, <2>8, <2>9 DEF Live
<1> QED
  BY <1>7, <1>8, <1>9, <1>10 DEF Inv

LEMMA SocketChanges ==
    ASSUME TypeInv, NEW i \in 1 .. Len(sock), NEW new \in Socket, sock' = [sock EXCEPT ![i] = new]
    PROVE  /\ sock' \in Seq(Socket) /\ Len(sock') = Len(sock)
           /\ \A j \in 1 .. Len(sock) : sock'[j] = IF j = i THEN new ELSE sock[j]
BY DEF TypeInv

LEMMA SocketSame ==
    ASSUME Inv, ~astray, NEW i \in 1 .. Len(sock), NEW new \in Socket, sock' = [sock EXCEPT ![i] = new],
           new.nonblock = sock[i].nonblock, UNCHANGED <<kernel, addr, server, client, shared, lost>>,
           call' = call \/ (~Creating /\ ~Creating')
    PROVE  /\ TypeInv' /\ HandleInv' /\ ServerInv' /\ ClientInv' /\ AccountInv'
           /\ \A t \in Targets : Held(t)' = Held(t)
<1>1. /\ TypeInv /\ HandleInv /\ ServerInv /\ ClientInv /\ AccountInv
  BY DEF Inv, Live
<1>2. /\ sock' \in Seq(Socket) /\ Len(sock') = Len(sock)
      /\ \A j \in 1 .. Len(sock) : sock'[j] = IF j = i THEN new ELSE sock[j]
  BY <1>1, SocketChanges
<1>3. TypeInv'
  BY <1>1, <1>2 DEF TypeInv
<1>4. ServerInv' /\ ClientInv' /\ \A s \in Server : Kept(s)' = Kept(s)
  BY <1>1, ServersSame
<1>5. \A t \in Targets : Held(t)' = Held(t)
  BY DEF Held, InUse, Target
<1>6. HandleInv'
  <2>1. kernel' = Without({})
    BY <1>1 DEF TypeInv, Without
  <2> QED
    BY <1>1, <1>2, <1>4, <1>5, <2>1, Shrinks
<1>7. AccountInv'
  BY <1>1, <1>2, <1>4 DEF AccountInv, HasOwner, Open
<1> QED
  BY <1>3, <1>4, <1>5, <1>6, <1>7

LEMMA PeerLeavesInv ==
    ASSUME Inv, ~astray, NEW i \in 1 .. Len(sock), PeerLeaves(i)
    PROVE  Inv'
<1>1. /\ CallOK /\ TypeInv /\ HandleInv /\ CallInv /\ FrameInv /\ SentOnce
  BY DEF Inv, Live
<1> DEFINE new == [sock[i] EXCEPT !.peer = "left"]
<1>2. sock[i] \in Socket
  BY <1>1 DEF TypeInv
<1>3. /\ sock' = [sock EXCEPT ![i] = new] /\ sock[i].peer = "up"
      /\ kernel' = kernel /\ addr' = addr /\ server' = server /\ client' = client /\ call' = call
      /\ shared' = shared /\ lost' = lost /\ astray' = astray
  BY DEF PeerLeaves, ghosts
<1>4. new \in Socket /\ new.nonblock = sock[i].nonblock /\ new.wire = sock[i].wire
  BY <1>2 DEF Socket
<1> HIDE DEF new
<1>5. /\ TypeInv' /\ HandleInv' /\ ServerInv' /\ ClientInv' /\ AccountInv'
      /\ \A t \in Targets : Held(t)' = Held(t)
  BY <1>3, <1>4, SocketSame
<1>6. Len(sock') = Len(sock) /\ \A j \in 1 .. Len(sock) : sock'[j] = IF j = i THEN new ELSE sock[j]
  BY <1>1, <1>3, <1>4, SocketChanges
<1>7. CallOK' /\ SentOnce'
  BY <1>1, <1>3 DEF CallOK, SentOnce
<1>8. CallInv'
  BY <1>1, <1>3, <1>6 DEF CallInv, Creating, Sending, InUse, IsTcp, Target, Own, Good
<1>9. FrameInv'
  <2>1. IsTcp' <=> IsTcp
    BY <1>3 DEF IsTcp, Target
  <2> QED
    BY <1>1, <1>3, <1>4, <1>5, <1>6, <2>1 DEF FrameInv
<1> QED
  BY <1>1, <1>3, <1>5, <1>7, <1>8, <1>9 DEF Inv, Live

-----------------------------------------------------------------------------
(***************************************************************************)
(* What send() does with a part of a frame.                                *)
(***************************************************************************)
Writing == call.at \in {"prefix", "data"} /\ CanWrite

LEMMA SinkIs ==
    ASSUME Inv, ~astray, Writing
    PROVE  /\ Sending /\ ~Creating /\ call \in Sends
           /\ Sink \in 1 .. Len(sock) /\ sock[Sink] \in Socket
           /\ Wrong(call.using) => shared # {}
           /\ ~Wrong(call.using) /\ ~sock[Sink].nonblock =>
                 /\ Sink = call.using.of /\ sock[Sink].wire \in {"whole", "prefix"}
                 /\ call.at = "prefix" => sock[Sink].wire = "whole"
                 /\ ~IsTcp /\ sock[Sink].wire = "prefix" => \A t \in Targets : Held(t).of # Sink
<1>1. CallOK /\ TypeInv /\ CallInv /\ FrameInv /\ Sending
  BY DEF Inv, Live, Writing, Sending
<1>2. ~Creating /\ call \in Sends /\ call.to \in Targets /\ Held(call.to) = Target(call.to).sock
  BY <1>1, SendingIs
<1>3. call.using \in Handle /\ Good(call.using) /\ call.using.fd # 0
  BY <1>1, <1>2 DEF Sends, CallInv, Writing
<1>4. call.using.fd \in Fd /\ Sink = kernel[call.using.fd] /\ Sink # 0
  BY <1>3, HandleNumbers DEF Sink, Names, Writing, CanWrite, NoSock
<1>5. Sink \in 1 .. Len(sock)
  BY <1>1, <1>4 DEF TypeInv
<1>6. sock[Sink] \in Socket
  BY <1>1, <1>5 DEF TypeInv
<1>7. Wrong(call.using) => shared # {}
  BY <1>3, WrongShares
<1>8. ASSUME ~Wrong(call.using), ~sock[Sink].nonblock
      PROVE  /\ Sink = call.using.of /\ sock[Sink].wire \in {"whole", "prefix"}
             /\ call.at = "prefix" => sock[Sink].wire = "whole"
             /\ ~IsTcp /\ sock[Sink].wire = "prefix" => \A t \in Targets : Held(t).of # Sink
  <2>1. Sink = call.using.of
    BY <1>4, <1>8 DEF Wrong, Sink
  <2>2. /\ sock[Sink].wire # "torn" /\ (sock[Sink].wire = "cut" => sock[Sink].peer = "reset")
        /\ sock[Sink].wire = "prefix" =>
              \/ call.at = "data" /\ IsTcp /\ call.using.of = Sink
              \/ \A t \in Targets : Held(t).of # Sink
    BY <1>1, <1>5, <1>8 DEF FrameInv
  <2>3. sock[Sink].peer # "reset"
    BY DEF Writing, CanWrite
  <2>4. sock[Sink].wire \in {"whole", "prefix"}
    BY <1>6, <2>2, <2>3 DEF Socket
  <2>5. ASSUME call.at = "prefix" PROVE sock[Sink].wire # "prefix"
    <3>1. Held(call.to).of = Sink
      BY <1>1, <1>2, <2>1, <2>5 DEF CallInv
    <3> QED
      BY <1>2, <2>2, <2>5, <3>1
  <2> QED
    BY <2>1, <2>2, <2>4, <2>5
<1> QED
  BY <1>1, <1>2, <1>5, <1>6, <1>7, <1>8

LEMMA WroteInv ==
    ASSUME Inv, ~astray, Writing, NEW new \in Socket, sock' = [sock EXCEPT ![Sink] = new],
           new.nonblock = sock[Sink].nonblock, astray' = (astray \/ Wrong(call.using)),
           UNCHANGED <<kernel, addr, server, client, shared, lost>>,
           CallOK', SentOnce', CallInv', ~Creating',
           ~Wrong(call.using) /\ ~new.nonblock =>
              /\ new.wire # "torn" /\ (new.wire = "cut" => new.peer = "reset")
              /\ new.wire = "prefix" =>
                    \/ call'.at = "data" /\ IsTcp' /\ call'.using.of = Sink
                    \/ \A t \in Targets : Held(t).of # Sink
    PROVE  Inv'
<1>1. /\ ~Creating /\ TypeInv /\ FrameInv /\ Sink \in 1 .. Len(sock)
      /\ Wrong(call.using) => shared # {}
  BY SinkIs DEF Inv, Live
<1>2. PICK i \in 1 .. Len(sock) : i = Sink
  BY <1>1
<1>3. /\ TypeInv' /\ HandleInv' /\ ServerInv' /\ ClientInv' /\ AccountInv'
      /\ \A t \in Targets : Held(t)' = Held(t)
  BY <1>1, <1>2, SocketSame
<1>4. Len(sock') = Len(sock) /\ \A j \in 1 .. Len(sock) : sock'[j] = IF j = i THEN new ELSE sock[j]
  BY <1>1, <1>2, SocketChanges
<1>5. ASSUME ~Wrong(call.using) PROVE FrameInv'
  <2> SUFFICES ASSUME NEW j \in 1 .. Len(sock), ~sock'[j].nonblock
               PROVE  /\ sock'[j].wire # "torn"
                      /\ sock'[j].wire = "cut" => sock'[j].peer = "reset"
                      /\ sock'[j].wire = "prefix" =>
                            \/ call'.at = "data" /\ IsTcp' /\ call'.using.of = j
                            \/ \A t \in Targets : Held(t)'.of # j
    BY <1>4 DEF FrameInv
  <2>1. CASE j = i
    BY <1>2, <1>3, <1>4, <1>5, <2>1
  <2>2. CASE j # i
    <3>1. Sink = call.using.of
      BY <1>5 DEF Wrong, Sink, Writing, CanWrite
    <3> QED
      BY <1>1, <1>2, <1>3, <1>4, <2>2, <3>1 DEF FrameInv
  <2> QED
    BY <2>1, <2>2
<1>6. astray' <=> Wrong(call.using)
  BY DEF Wrong
<1> QED
  BY <1>1, <1>3, <1>5, <1>6 DEF Inv, Live

\* The data follows the prefix.
LEMMA GoesOn ==
    ASSUME CallOK, TypeInv, CallInv, call.at = "prefix", Len(sock') = Len(sock),
           UNCHANGED <<kernel, addr, server, client, shared, lost>>,
           NEW short \in BOOLEAN, call' = [call EXCEPT !.at = "data", !.short = short]
    PROVE  /\ CallOK' /\ SentOnce' /\ CallInv' /\ ~Creating' /\ call'.at = "data"
           /\ call'.using = call.using /\ IsTcp /\ IsTcp'
<1>1. Sending /\ call \in Sends
  BY SendingIs DEF Sending
<1>2. call' \in Sends /\ call'.at = "data" /\ call'.to = call.to /\ call'.from = call.from /\ call'.using = call.using
  BY <1>1 DEF Sends
<1>3. CallOK' /\ SentOnce' /\ ~Creating'
  BY <1>2 DEF CallOK, SentOnce, Creating
<1>4. IsTcp /\ IsTcp'
  BY <1>2 DEF CallInv, IsTcp, Target
<1>5. CallInv'
  BY <1>1, <1>2, <1>3, <1>4 DEF CallInv, Sending, InUse, Target, Good, Creating
<1> QED
  BY <1>2, <1>3, <1>4, <1>5

LEMMA PrefixInv == ASSUME Inv, ~astray, SendPrefix PROVE Inv'
<1>1. Writing /\ call.at = "prefix" /\ CallOK /\ TypeInv /\ CallInv
  BY DEF Inv, Live, SendPrefix, Writes, Writing
<1>2. /\ Sink \in 1 .. Len(sock) /\ sock[Sink] \in Socket /\ call \in Sends
      /\ ~Wrong(call.using) /\ ~sock[Sink].nonblock => Sink = call.using.of /\ sock[Sink].wire = "whole"
  BY <1>1, SinkIs
<1> DEFINE new == [sock[Sink] EXCEPT !.wire = Wire("prefix", "prefix")]
<1>3. /\ sock' = [sock EXCEPT ![Sink] = new] /\ call' = [call EXCEPT !.at = "data"]
      /\ astray' = (astray \/ Wrong(call.using))
      /\ UNCHANGED <<kernel, addr, server, client, shared, lost>>
  BY DEF SendPrefix, Writes
<1>4. /\ new \in Socket /\ new.nonblock = sock[Sink].nonblock /\ new.wire \in {"prefix", "torn"}
      /\ sock[Sink].wire = "whole" => new.wire = "prefix"
  BY <1>2 DEF Socket, Wire
<1> HIDE DEF new
<1>5. Len(sock') = Len(sock)
  BY <1>1, <1>2, <1>3, <1>4, SocketChanges
<1>6. call.short \in BOOLEAN /\ call' = [call EXCEPT !.at = "data", !.short = call.short]
  BY <1>2, <1>3 DEF Sends
<1>7. /\ CallOK' /\ SentOnce' /\ CallInv' /\ ~Creating' /\ call'.at = "data"
      /\ call'.using = call.using /\ IsTcp'
  BY <1>1, <1>3, <1>5, <1>6, GoesOn
<1> QED
  BY <1>1, <1>2, <1>3, <1>4, <1>7, WroteInv

LEMMA PrefixShortInv == ASSUME Inv, ~astray, SendPrefixShort PROVE Inv'
<1>1. Writing /\ call.at = "prefix" /\ CallOK /\ TypeInv /\ CallInv
  BY DEF Inv, Live, SendPrefixShort, WritesShort, Writing
<1>2. /\ Sink \in 1 .. Len(sock) /\ sock[Sink] \in Socket
      /\ ~Wrong(call.using) /\ ~sock[Sink].nonblock => Sink = call.using.of /\ sock[Sink].wire = "whole"
  BY <1>1, SinkIs
<1> DEFINE new == [sock[Sink] EXCEPT !.wire = Wire("prefix", "cut"),
                                     !.peer = IF sock[Sink].nonblock THEN sock[Sink].peer ELSE "reset"]
<1>3. /\ sock' = [sock EXCEPT ![Sink] = new] /\ call' = [call EXCEPT !.at = "data", !.short = TRUE]
      /\ astray' = (astray \/ Wrong(call.using))
      /\ UNCHANGED <<kernel, addr, server, client, shared, lost>>
  BY DEF SendPrefixShort, WritesShort
<1>4. /\ new \in Socket /\ new.nonblock = sock[Sink].nonblock /\ new.wire \in {"cut", "torn"}
      /\ sock[Sink].wire = "whole" => new.wire = "cut"
      /\ ~new.nonblock => new.peer = "reset"
  BY <1>2 DEF Socket, Wire
<1> HIDE DEF new
<1>5. Len(sock') = Len(sock)
  BY <1>1, <1>2, <1>3, <1>4, SocketChanges
<1>6. CallOK' /\ SentOnce' /\ CallInv' /\ ~Creating'
  BY <1>1, <1>3, <1>5, GoesOn
<1> QED
  BY <1>1, <1>2, <1>3, <1>4, <1>6, WroteInv

\* The call returns.
LEMMA Done ==
    ASSUME NEW wrote \in {0, 1}, NEW short \in BOOLEAN, call' = Returns("ok", wrote, short),
           short => wrote = 0, ~short => wrote = 1
    PROVE  CallOK' /\ SentOnce' /\ CallInv' /\ ~Creating'
<1>1. call' \in Returned /\ call'.at = "return" /\ call'.ret = "ok" /\ call'.wrote = wrote /\ call'.short = short
  BY DEF Returns, Returned
<1> QED
  BY <1>1 DEF CallOK, SentOnce, CallInv, Creating, Sending

LEMMA SendDataInv == ASSUME Inv, ~astray, SendData PROVE Inv'
<1>1. Writing /\ call.at = "data" /\ CallOK /\ TypeInv /\ CallInv
  BY DEF Inv, Live, SendData, Writes, Writing
<1>2. /\ Sink \in 1 .. Len(sock) /\ sock[Sink] \in Socket /\ call \in Sends
      /\ ~Wrong(call.using) /\ ~sock[Sink].nonblock =>
            /\ Sink = call.using.of /\ sock[Sink].wire \in {"whole", "prefix"}
            /\ ~IsTcp /\ sock[Sink].wire = "prefix" => \A t \in Targets : Held(t).of # Sink
  BY <1>1, SinkIs
<1> DEFINE new == [sock[Sink] EXCEPT !.wire = Wire("data", IF IsTcp THEN "whole" ELSE sock[Sink].wire)]
<1>3. /\ sock' = [sock EXCEPT ![Sink] = new]
      /\ call' = Returns("ok", IF call.short THEN call.wrote ELSE call.wrote + 1, call.short)
      /\ astray' = (astray \/ Wrong(call.using))
      /\ UNCHANGED <<kernel, addr, server, client, shared, lost>>
  BY DEF SendData, Writes
<1>4. /\ new \in Socket /\ new.nonblock = sock[Sink].nonblock
      /\ sock[Sink].wire \in {"whole", "prefix"} =>
            new.wire = IF IsTcp THEN "whole" ELSE sock[Sink].wire
  BY <1>2 DEF Socket, Wire
<1> HIDE DEF new
<1>5. CallOK' /\ SentOnce' /\ CallInv' /\ ~Creating'
  <2>1. call.wrote = 0 /\ call.short \in BOOLEAN
    BY <1>2 DEF Sends
  <2>2. call' = Returns("ok", IF call.short THEN 0 ELSE 1, call.short)
    BY <1>3, <2>1
  <2> QED
    BY <2>1, <2>2, Done
<1> QED
  BY <1>1, <1>2, <1>3, <1>4, <1>5, WroteInv

LEMMA SendDataShortInv == ASSUME Inv, ~astray, SendDataShort PROVE Inv'
<1>1. Writing /\ call.at = "data" /\ CallOK /\ TypeInv /\ CallInv
  BY DEF Inv, Live, SendDataShort, WritesShort, Writing
<1>2. /\ Sink \in 1 .. Len(sock) /\ sock[Sink] \in Socket /\ call \in Sends
      /\ ~Wrong(call.using) /\ ~sock[Sink].nonblock => sock[Sink].wire \in {"whole", "prefix"}
  BY <1>1, SinkIs
<1> DEFINE new == [sock[Sink] EXCEPT !.wire = Wire("data", "cut"),
                                     !.peer = IF sock[Sink].nonblock THEN sock[Sink].peer ELSE "reset"]
<1>3. /\ sock' = [sock EXCEPT ![Sink] = new] /\ call' = Returns("ok", call.wrote, TRUE)
      /\ astray' = (astray \/ Wrong(call.using))
      /\ UNCHANGED <<kernel, addr, server, client, shared, lost>>
  BY DEF SendDataShort, WritesShort
<1>4. /\ new \in Socket /\ new.nonblock = sock[Sink].nonblock
      /\ sock[Sink].wire \in {"whole", "prefix"} => new.wire = "cut"
      /\ ~new.nonblock => new.peer = "reset"
  BY <1>2 DEF Socket, Wire
<1> HIDE DEF new
<1>5. CallOK' /\ SentOnce' /\ CallInv' /\ ~Creating'
  <2>1. call.wrote = 0
    BY <1>2 DEF Sends
  <2> QED
    BY <1>3, <2>1, Done
<1> QED
  BY <1>1, <1>2, <1>3, <1>4, <1>5, WroteInv

-----------------------------------------------------------------------------
(***************************************************************************)
(* A send on a stream fails.                                               *)
(***************************************************************************)
Failing == call.at \in {"prefix", "data"} /\ IsTcp

LEMMA FailingIs ==
    ASSUME Inv, ~astray, Failing
    PROVE  /\ CallOK /\ TypeInv /\ SentOnce /\ HandleInv /\ ServerInv /\ ClientInv /\ CallInv
           /\ AccountInv /\ FrameInv
           /\ Sending /\ ~Creating /\ call.to \in Targets /\ call.from \in Server \cup {None}
           /\ InUse(call.to) /\ call.using = Target(call.to).sock /\ Held(call.to) = Target(call.to).sock
           /\ call.from # None => server[call.from] # None
           /\ Held(call.to) \in Handle /\ Good(Held(call.to)) /\ Held(call.to) # NoSock
           /\ Held(call.to).fd \in Fd /\ Held(call.to).of \in 1 .. Len(sock)
<1>1. /\ CallOK /\ TypeInv /\ SentOnce /\ HandleInv /\ ServerInv /\ ClientInv /\ CallInv
      /\ AccountInv /\ FrameInv /\ Sending
  BY DEF Inv, Live, Failing, Sending
<1>2. /\ call.to \in Targets /\ call.from \in Server \cup {None} /\ ~Creating
      /\ InUse(call.to) /\ Held(call.to) = Target(call.to).sock
      /\ call.from # None => server[call.from] # None
  BY <1>1, SendingIs
<1>3. call.using.fd # 0 /\ call.using = Target(call.to).sock
  BY <1>1 DEF CallInv, Failing
<1>4. Held(call.to) \in Handle /\ Good(Held(call.to)) /\ Held(call.to).fd # 0
  BY <1>1, <1>2, <1>3, HeldHandle DEF HandleInv
<1>5. Held(call.to) # NoSock
  BY <1>4 DEF NoSock
<1>6. Held(call.to).fd \in Fd /\ Held(call.to).of \in 1 .. Len(sock)
  BY <1>4, <1>5 DEF Good
<1> QED
  BY <1>1, <1>2, <1>3, <1>4, <1>5, <1>6

\* Whatever entry is deleted, tables remain.
LEMMA DelTables ==
    ASSUME NEW srv \in Tables, NEW s \in Server, srv[s] # None,
           NEW k \in 1 .. Len(srv[s].sockets), NEW del, del = lo_server_del_socket(srv, s, k)
    PROVE  /\ del \in Tables /\ del[s] # None /\ \A r \in Server \ {s} : del[r] = srv[r]
           /\ \A f \in Fd : del[s].sources[f] = IF f = srv[s].sockets[k].fd THEN None
                                                ELSE srv[s].sources[f]
<1> DEFINE q == srv[s].sockets
           w == RemoveAt(q, k)
           t == [srv[s].sources EXCEPT ![q[k].fd] = None]
           u == [srv[s] EXCEPT !.sources = t, !.sockets = w]
<1>1. /\ srv[s] \in lo_server /\ q \in Seq(Handle) /\ srv[s].sources \in [Fd -> Source \cup {None}]
  BY TableIs
<1>2. w \in Seq(Handle)
  BY <1>1, RemoveAtProperties
<1>3. /\ t \in [Fd -> Source \cup {None}]
      /\ \A f \in Fd : t[f] = IF f = q[k].fd THEN None ELSE srv[s].sources[f]
  BY <1>1
<1>4. del = [srv EXCEPT ![s] = u]
  BY DEF lo_server_del_socket
<1> HIDE DEF t, w
<1>5. u \in lo_server /\ u.sources = t
  BY <1>1, <1>2, <1>3 DEF lo_server
<1> HIDE DEF u
<1>6. del \in Tables /\ del[s] = u /\ \A r \in Server \ {s} : del[r] = srv[r]
  BY <1>4, <1>5 DEF Tables
<1> QED
  BY <1>3, <1>5, <1>6, NoneIsNot

LEMMA DeletedTables ==
    ASSUME Inv, ~astray, Failing, NEW fd, NEW mid, mid = Deleted(fd)
    PROVE  /\ mid \in Tables /\ \A r \in Server : mid[r] = None <=> server[r] = None
           /\ \A r \in Server, f \in Fd : server[r] # None =>
                 \/ mid[r].sources[f] = server[r].sources[f]
                 \/ mid[r].sources[f] = None /\ r = call.from /\ f = fd
<1>1. /\ server \in Tables /\ TypeInv /\ call.from \in Server \cup {None}
      /\ call.from # None => server[call.from] # None
  BY FailingIs DEF TypeInv, Tables
<1>2. CASE mid = server
  BY <1>1, <1>2
<1>3. CASE mid # server
  <2>1. call.from # None /\ call.from \in Server /\ server[call.from] # None
    BY <1>1, <1>3 DEF Deleted
  <2>2. PICK k \in 1 .. Len(server[call.from].sockets) :
           /\ server[call.from].sockets[k].fd = fd
           /\ mid = lo_server_del_socket(server, call.from, k)
    BY <1>1, <1>3, <2>1, DeletedIs
  <2>3. /\ mid \in Tables /\ mid[call.from] # None /\ \A r \in Server \ {call.from} : mid[r] = server[r]
        /\ \A f \in Fd : mid[call.from].sources[f] = IF f = fd THEN None
                                                     ELSE server[call.from].sources[f]
    BY <1>1, <2>1, <2>2, DelTables
  <2> QED
    BY <2>1, <2>3
<1> QED
  BY <1>2, <1>3

\* The entry is another than the server's own socket, and its source on file is not older.
LEMMA DeletedShrunk ==
    ASSUME Inv, ~astray, Failing, NEW h, h = Held(call.to), ~Wrong(h) \/ Wiped,
           NEW mid, mid = Deleted(h.fd)
    PROVE  /\ Shrunk(mid)
           /\ \A r \in Server : \A g \in Kept(r) : g \notin ToSet(mid[r].sockets) =>
                 /\ r = call.from /\ g.fd = h.fd
                 /\ LET a == server[r].sources[h.fd] IN a # None => a.sock = NoSock \/ a.sock.of >= g.of
<1>1. /\ TypeInv /\ HandleInv /\ ServerInv /\ ~Creating
      /\ call.to \in Targets /\ InUse(call.to) /\ h = Target(call.to).sock
      /\ call.from \in Server \cup {None}
      /\ call.from # None => server[call.from] # None
      /\ Good(h) /\ h # NoSock /\ h.fd \in Fd /\ h.of \in 1 .. Len(sock)
  BY FailingIs
<1>2. server \in Tables /\ \A r \in Server : server[r] # None => TableOK(server[r])
  BY <1>1 DEF TypeInv, Tables, ServerInv
<1>3. CASE mid = server
  BY <1>2, <1>3 DEF Shrunk, Own, Kept
<1>4. CASE mid # server
  <2>1. PICK s \in Server : s = call.from /\ server[s] # None /\ call.from # None
    BY <1>1, <1>4 DEF Deleted
  <2>2. PICK k \in 1 .. Len(server[s].sockets) :
           server[s].sockets[k].fd = h.fd /\ mid = lo_server_del_socket(server, s, k)
    BY <1>1, <1>4, <2>1, DeletedIs
  <2>3. k # 1
    <3> SUFFICES ASSUME k = 1 PROVE FALSE
      OBVIOUS
    <3>1. Own(s).fd = h.fd /\ Own(s).fd # 0
      BY <1>1, <2>2 DEF Own, Fd
    <3>2. /\ kernel[h.fd] = Own(s).of /\ Own(s).of \in 1 .. Len(sock) /\ Own(s).of # h.of
          /\ server[s].sources[h.fd] = None
      BY <1>1, <2>1, <3>1, OwnIs
    <3>3. Wrong(h)
      BY <3>1, <3>2 DEF Wrong, Names
    <3>4. Wiped
      BY <3>3
    <3>5. /\ IsSource(call.to) /\ mid[call.to.server].sources[call.to.fd] = None
          /\ call.to.server \in Server /\ call.to.fd \in Fd
      BY <1>1, <3>4, TargetIs DEF Wiped
    <3>6. call.to.fd = h.fd /\ call.to.server = s
      BY <1>1, <2>1, <3>5, DeletedTables DEF InUse
    <3> QED
      BY <1>1, <3>2, <3>5, <3>6 DEF InUse
  <2>4. k \in 2 .. Len(server[s].sockets)
    BY <2>3
  <2>5. PICK e : e = server[s].sockets[k]
    OBVIOUS
  <2>6. /\ Shrunk(mid) /\ ToSet(mid[s].sockets) = Kept(s) \ {e}
        /\ \A r \in Server : r # s => mid[r] = server[r]
    BY <1>1, <2>1, <2>2, <2>4, <2>5, ShrunkIs
  <2>7. LET a == server[s].sources[h.fd] IN a # None => a.sock = NoSock \/ a.sock.of >= e.of
    <3>1. TableOK(server[s])
      BY <1>2, <2>1
    <3>2. LET a == server[s].sources[server[s].sockets[k].fd]
          IN  a # None => a.sock = NoSock \/ a.sock.of >= server[s].sockets[k].of
      BY <2>4, <3>1, Zenon DEF TableOK, Fits
    <3>3. server[s].sockets[k].fd = h.fd
      BY <2>2
    <3> QED
      BY <2>5, <3>2, <3>3, Zenon
  <2>8. ASSUME NEW r \in Server, NEW g \in Kept(r), g \notin ToSet(mid[r].sockets)
        PROVE  r = s /\ g = e
    BY <2>6, <2>8 DEF Kept
  <2> QED
    BY <2>1, <2>2, <2>5, <2>6, <2>7, <2>8
<1> QED
  BY <1>3, <1>4

\* What a failure keeps: the target has lost its socket, and no one else held one that
\* is closed, unless it was shared.
LEMMA FailsInv ==
    ASSUME Inv, ~astray, Failing, NEW to, to = call.to, NEW h, h = Held(to), NEW F, kernel' = Without(F),
           F = {} \/ (F = {h.fd} /\ ~Wrong(h)),
           Shrunk(server'), sock' = sock, client' = client,
           \A t \in Targets : Held(t)' \in {Held(t), NoSock}, Held(to)' = NoSock,
           shared \subseteq shared', shared' \subseteq shared \cup {h.of},
           F # {} /\ IsSource(to) => h.of \in shared',
           CallOK', SentOnce', ~Creating'
    PROVE  HandleInv' /\ ServerInv' /\ ClientInv' /\ FrameInv'
<1>1. /\ TypeInv /\ HandleInv /\ ServerInv /\ ClientInv /\ FrameInv /\ ~Creating /\ to \in Targets
      /\ call.using = h /\ h \in Handle /\ Good(h) /\ h # NoSock
      /\ h.fd \in Fd /\ h.of \in 1 .. Len(sock)
  BY FailingIs
<1>2. \A s \in Server : server[s] # None => Own(s).of \notin shared'
  <2> SUFFICES ASSUME NEW s \in Server, server[s] # None PROVE Own(s).of # h.of /\ Own(s).of \notin shared
    OBVIOUS
  <2>1. Own(s).fd # 0
    BY <1>1 DEF ServerInv, Creating
  <2> QED
    BY <1>1, <2>1, OwnIs
<1>3. /\ ServerInv' /\ ClientInv'
      /\ \A s \in Server : Kept(s)' \subseteq Kept(s)
  BY <1>1, <1>2, ShrunkInv
<1>4. F # {} => F = {h.fd} /\ kernel[h.fd] \in {0, h.of}
  BY <1>1 DEF Wrong, Names, Fd
<1>5. \A t \in Targets : Held(t)'.of = h.of => Held(t)' = Held(t) /\ t # to /\ h.of \in shared /\ sock[h.of].nonblock
  BY <1>1 DEF HandleInv, NoSock
<1>6. ASSUME NEW t \in Targets, Held(t)'.fd \in F, kernel[Held(t)'.fd] = Held(t)'.of
      PROVE  Held(t)'.of \in shared'
  <2>1. F = {h.fd} /\ Held(t)' = Held(t) /\ Held(t) # NoSock
    BY <1>1, <1>4, <1>6 DEF NoSock, Fd
  <2>2. Held(t).of = h.of
    BY <1>1, <1>4, <1>6, <2>1, HeldHandle, HandleNumbers
  <2> QED
    BY <1>5, <2>1, <2>2
<1>7. ASSUME NEW s \in Server, NEW g \in Kept(s)', g.fd \in F, kernel[g.fd] = g.of
      PROVE  g.of \in shared'
  <2>1. F = {h.fd} /\ g \in Kept(s) /\ g \in Handle /\ g # NoSock
    BY <1>1, <1>3, <1>4, <1>7, KeptHandle DEF NoSock, Fd
  <2>2. g.of = h.of /\ g.of # 0
    BY <1>4, <1>7, <2>1, HandleNumbers
  <2>3. h.of \in shared \/ to = ToSource(s, g.fd)
    BY <1>1, <2>1, <2>2 DEF HandleInv
  <2>4. g.fd \in Fd
    BY <1>1, <2>1, <1>7
  <2> QED
    BY <2>1, <2>2, <2>3, <2>4, TargetIs
<1>8. HandleInv'
  <2>1. \A s \in Server : Kept(s)' \subseteq Kept(s) \cup {NoSock}
    BY <1>3
  <2> QED
    BY <1>1, <1>6, <1>7, <2>1, Shrinks
<1>9. FrameInv'
  <2> SUFFICES ASSUME NEW i \in 1 .. Len(sock), ~sock[i].nonblock
               PROVE  /\ sock[i].wire # "torn" /\ (sock[i].wire = "cut" => sock[i].peer = "reset")
                      /\ sock[i].wire = "prefix" => \A t \in Targets : Held(t)'.of # i
    BY DEF FrameInv
  <2>1. /\ sock[i].wire # "torn" /\ (sock[i].wire = "cut" => sock[i].peer = "reset")
        /\ sock[i].wire = "prefix" => h.of = i \/ \A t \in Targets : Held(t).of # i
    BY <1>1 DEF FrameInv
  <2>2. ASSUME h.of = i, NEW t \in Targets PROVE Held(t)'.of # i
    BY <1>5, <2>2
  <2>3. ASSUME \A t \in Targets : Held(t).of # i, NEW t \in Targets PROVE Held(t)'.of # i
    BY <2>3 DEF NoSock
  <2> QED
    BY <2>1, <2>2, <2>3
<1> QED
  BY <1>3, <1>8, <1>9

LEMMA WipedFailsInv == ASSUME Inv, ~astray, WipedFails PROVE Inv'
<1>1. Failing
  BY DEF WipedFails, Failing
<1>2. PICK to, h : to = call.to /\ h = Held(to)
  OBVIOUS
<1>3. /\ CallOK /\ TypeInv /\ HandleInv /\ ServerInv /\ AccountInv /\ Sending /\ ~Creating
      /\ to \in Targets /\ InUse(call.to) /\ h = Target(call.to).sock
      /\ h \in Handle /\ Good(h) /\ h # NoSock /\ h.fd \in Fd /\ h.of \in 1 .. Len(sock)
  BY <1>1, <1>2, FailingIs
<1>4. /\ server' = Deleted(h.fd) /\ lost' = lost \cup {h.of} /\ Failed(None) /\ Wiped
      /\ kernel' = kernel /\ sock' = sock /\ addr' = addr /\ client' = client
      /\ shared' = shared /\ astray' = astray
  BY <1>3 DEF WipedFails
<1>5. /\ Shrunk(server')
      /\ \A r \in Server : \A g \in Kept(r) : g \notin ToSet(server'[r].sockets) =>
            /\ r = call.from /\ g.fd = h.fd
            /\ LET a == server[r].sources[h.fd] IN a # None => a.sock = NoSock \/ a.sock.of >= g.of
  BY <1>1, <1>2, <1>4, DeletedShrunk
<1>6. /\ server' \in Tables /\ \A r \in Server : server'[r] = None <=> server[r] = None
      /\ \A r \in Server, f \in Fd : server[r] # None =>
            \/ server'[r].sources[f] = server[r].sources[f]
            \/ server'[r].sources[f] = None /\ r = call.from /\ f = h.fd
  BY <1>1, <1>4, DeletedTables
<1>7. PICK s \in Server : /\ to = ToSource(s, h.fd) /\ s = call.from /\ server[s] # None
                          /\ server'[s].sources[h.fd] = None
                          /\ server[s].sources[h.fd] # None /\ server[s].sources[h.fd].sock = h
  <2>1. /\ IsSource(call.to) /\ server'[call.to.server].sources[call.to.fd] = None
        /\ call.to.server \in Server /\ call.to.fd \in Fd
        /\ call.to = ToSource(call.to.server, call.to.fd)
    BY <1>2, <1>3, <1>4, TargetIs DEF Wiped
  <2>2. server[call.to.server] # None /\ server[call.to.server].sources[call.to.fd] # None
    BY <1>2, <1>3, <2>1 DEF InUse
  <2>3. call.to.server = call.from /\ call.to.fd = h.fd
    BY <1>6, <2>1, <2>2
  <2> QED
    BY <1>2, <1>3, <2>1, <2>2, <2>3 DEF Target
<1>8. /\ CallOK' /\ SentOnce' /\ ~Creating' /\ call'.at = "return"
  BY <1>3, <1>4, FailedIs, NoneIsNot
<1>9. TypeInv'
  BY <1>3, <1>4, <1>6 DEF TypeInv, Tables
<1>10. ASSUME NEW t \in Targets PROVE Held(t)' \in {Held(t), NoSock}
  <2>1. CASE \E b \in Addr : t = ToAddr(b)
    BY <1>4, <2>1, HeldByAddr
  <2>2. CASE \E r \in Server, f \in Fd : t = ToSource(r, f)
    BY <1>6, <2>2, HeldBySource
  <2> QED
    BY <2>1, <2>2, AllTargets
<1>11. Held(to)' = NoSock
  BY <1>3, <1>7, HeldBySource
<1>12. HandleInv' /\ ServerInv' /\ ClientInv' /\ FrameInv'
  <2>1. kernel' = Without({})
    BY <1>3, <1>4 DEF TypeInv, Without
  <2> QED
    BY <1>1, <1>2, <1>4, <1>5, <1>8, <1>10, <1>11, <2>1, FailsInv
<1>13. CallInv'
  BY <1>8 DEF CallInv, Creating, Sending
<1>14. AccountInv'
  <2> SUFFICES ASSUME NEW i \in 1 .. Len(sock), Open(i)', i # h.of PROVE HasOwner(i)'
    BY <1>4 DEF AccountInv, HasOwner
  <2>1. PICK f \in Fd : kernel[f] = i
    BY <1>4 DEF Open
  <2>2. HasOwner(i)
    BY <1>3, <2>1 DEF AccountInv, Open
  <2>3. ASSUME NEW r \in Server, NEW g \in Kept(r), g.of = i PROVE g \in Kept(r)'
    <3> SUFFICES ASSUME g \notin ToSet(server'[r].sockets) PROVE FALSE
      BY <1>6 DEF Kept
    <3>1. g.fd = h.fd
      BY <1>5
    <3>2. g \in Handle /\ Good(g) /\ g # NoSock
      BY <1>3, <2>3, KeptHandle DEF HandleInv, NoSock
    <3>3. kernel[h.fd] = i
      BY <2>1, <2>3, <3>1, <3>2 DEF Good
    <3>4. i > h.of
      BY <1>3, <3>3 DEF Good
    <3>5. r = s
      BY <1>5, <1>7
    <3>6. h = NoSock \/ h.of >= i
      BY <1>5, <1>7, <2>3, <3>5
    <3> QED
      BY <1>3, <3>4, <3>6
  <2> QED
    BY <1>4, <2>2, <2>3 DEF HasOwner
<1> QED
  BY <1>4, <1>8, <1>9, <1>12, <1>13, <1>14 DEF Inv, Live

\* The tables set after a send on a stream has failed, which were mid without the
\* socket of the target to.
SetsBack(set, mid, to) ==
    /\ set \in Tables /\ \A r \in Server : set[r] = None <=> server[r] = None
    /\ \A r \in Server : server[r] # None =>
          /\ set[r].proto = mid[r].proto /\ set[r].sockets = mid[r].sockets
          /\ TableOK(mid[r]) => TableOK(set[r])
    /\ \A r \in Server, f \in Fd : SourceSock(set, r, f) \in {SourceSock(server, r, f), NoSock}
    /\ IsSource(to) => /\ set[to.server].sources[to.fd] # None
                       /\ set[to.server].sources[to.fd].sock = NoSock

LEMMA FailedTables ==
    ASSUME Inv, ~astray, Failing, ~Wiped, NEW to, to = call.to, NEW h, h = Held(to),
           NEW mid, mid = Deleted(h.fd), NEW set, set = ServerSet(mid, to, NoSock)
    PROVE  SetsBack(set, mid, to)
<1>1. to \in Targets /\ InUse(to) /\ h = Target(to).sock
  BY FailingIs
<1>2. /\ mid \in Tables /\ \A r \in Server : mid[r] = None <=> server[r] = None
      /\ \A r \in Server, f \in Fd : server[r] # None =>
            mid[r].sources[f] = server[r].sources[f] \/ mid[r].sources[f] = None
  BY DeletedTables
<1>3. \A r \in Server, f \in Fd : SourceSock(mid, r, f) \in {SourceSock(server, r, f), NoSock}
  BY <1>2 DEF SourceSock
<1>4. CASE ~IsSource(to)
  <2>1. set = mid
    BY <1>4 DEF ServerSet
  <2> QED
    BY <1>2, <1>3, <1>4, <2>1, Zenon DEF SetsBack
<1>5. CASE IsSource(to)
  <2>1. PICK s \in Server, f \in Fd : to = ToSource(s, f) /\ s = to.server /\ f = to.fd
    BY <1>1, <1>5, TargetIs
  <2>2. mid[s] # None /\ mid[s].sources[f] # None
    BY <1>1, <1>2, <1>5, <2>1 DEF InUse, Wiped
  <2>3. mid \in Tables /\ NoSock \in Handle /\ set = ServerSet(mid, ToSource(s, f), NoSock)
    BY <1>2, <2>1 DEF Handle
  <2>4. /\ set \in Tables /\ set[s] # None /\ \A r \in Server \ {s} : set[r] = mid[r]
        /\ set[s].proto = mid[s].proto /\ set[s].sockets = mid[s].sockets
        /\ set[s].sources[f] # None /\ set[s].sources[f].sock = NoSock
        /\ \A g \in Fd : g # f => set[s].sources[g] = mid[s].sources[g]
        /\ TableOK(mid[s]) => TableOK(set[s])
    <3>1. SourceSet(mid, s, f, NoSock, set)
      BY <2>2, <2>3, SourceSetIs
    <3> QED
      BY <3>1 DEF SourceSet
  <2>5. \A r \in Server : set[r] = None <=> server[r] = None
    BY <1>2, <2>2, <2>4
  <2>6. ASSUME NEW r \in Server, NEW g \in Fd
        PROVE  SourceSock(set, r, g) \in {SourceSock(server, r, g), NoSock}
    <3>1. SourceSock(set, r, g) = IF r = s /\ g = f THEN NoSock ELSE SourceSock(mid, r, g)
      BY <2>2, <2>4 DEF SourceSock
    <3> QED
      BY <1>3, <3>1
  <2>7. \A r \in Server : server[r] # None =>
           /\ set[r].proto = mid[r].proto /\ set[r].sockets = mid[r].sockets
           /\ TableOK(mid[r]) => TableOK(set[r])
    <3> SUFFICES ASSUME NEW r \in Server
                 PROVE  /\ set[r].proto = mid[r].proto /\ set[r].sockets = mid[r].sockets
                        /\ TableOK(mid[r]) => TableOK(set[r])
      BY Zenon
    <3>1. CASE r = s
      BY <2>4, <3>1, Zenon
    <3>2. CASE r # s
      BY <2>4, <3>2, Zenon
    <3> QED
      BY <3>1, <3>2, Zenon
  <2>8. set[to.server].sources[to.fd] # None /\ set[to.server].sources[to.fd].sock = NoSock
    BY <2>1, <2>4, Zenon
  <2> QED
    BY <2>4, <2>5, <2>6, <2>7, <2>8, Zenon DEF SetsBack
<1> QED
  BY <1>4, <1>5

LEMMA StreamFailsInv == ASSUME Inv, ~astray, StreamFails PROVE Inv'
<1>1. Failing /\ ~Wiped
  BY DEF StreamFails, Failing
<1>2. PICK to, h : to = call.to /\ h = Held(to)
  OBVIOUS
<1>3. /\ CallOK /\ TypeInv /\ HandleInv /\ AccountInv /\ Sending /\ ~Creating
      /\ to \in Targets /\ InUse(to) /\ h = Target(to).sock
      /\ call.from \in Server \cup {None} /\ (call.from # None => server[call.from] # None)
      /\ h \in Handle /\ Good(h) /\ h # NoSock /\ h.fd \in Fd /\ h.of \in 1 .. Len(sock)
  BY <1>1, <1>2, FailingIs
<1>4. PICK mid : mid = Deleted(h.fd)
  OBVIOUS
<1>5. /\ kernel' = Without({h.fd}) /\ addr' = AddrSet(to, NoSock) /\ server' = ServerSet(mid, to, NoSock)
      /\ shared' = IF IsSource(to) THEN shared \cup {h.of} ELSE shared
      /\ (astray' <=> Wrong(h)) /\ Failed("tcp")
      /\ sock' = sock /\ client' = client /\ lost' = lost
  BY <1>2, <1>3, <1>4 DEF StreamFails
<1>6. /\ server' \in Tables /\ \A r \in Server : server'[r] = None <=> server[r] = None
      /\ \A r \in Server : server[r] # None =>
            /\ server'[r].proto = mid[r].proto /\ server'[r].sockets = mid[r].sockets
            /\ TableOK(mid[r]) => TableOK(server'[r])
      /\ \A r \in Server, f \in Fd : SourceSock(server', r, f) \in {SourceSock(server, r, f), NoSock}
      /\ IsSource(to) => /\ server'[to.server].sources[to.fd] # None
                         /\ server'[to.server].sources[to.fd].sock = NoSock
  <2>1. SetsBack(server', mid, to)
    BY <1>1, <1>2, <1>4, <1>5, FailedTables
  <2> QED
    BY <2>1, Zenon DEF SetsBack
<1>7. /\ \A f \in Fd : kernel'[f] = IF f = h.fd THEN 0 ELSE kernel[f]
      /\ kernel' \in [Fd -> 0 .. Len(sock)]
      /\ \A i \in 1 .. Len(sock) : Open(i)' => Open(i)
  <2>1. TypeInv /\ kernel' = Without({h.fd}) /\ sock' = sock
    BY <1>3, <1>5
  <2>2. /\ \A f \in Fd : kernel'[f] = IF f \in {h.fd} THEN 0 ELSE kernel[f]
        /\ kernel' \in [Fd -> 0 .. Len(sock)]
        /\ \A i \in 1 .. Len(sock) : Open(i)' => Open(i)
    <3>1. PICK F : F = {h.fd}
      OBVIOUS
    <3>2. kernel' = Without(F)
      BY <2>1, <3>1
    <3> QED
      BY <2>1, <3>1, <3>2, WithoutIs
  <2> QED
    BY <2>2, Zenon
<1>8. /\ addr' \in [Addr -> lo_address \cup {None}]
      /\ \A b \in Addr : /\ addr'[b] = None <=> addr[b] = None
                         /\ addr[b] # None => /\ addr'[b].own = addr[b].own
                                              /\ addr'[b].sock = IF to = ToAddr(b) THEN NoSock
                                                                 ELSE addr[b].sock
  <2>1. CASE IsSource(to)
    <3>1. addr' = addr /\ \A b \in Addr : to # ToAddr(b)
      BY <1>5, <2>1, TargetIs DEF AddrSet
    <3> QED
      BY <1>3, <3>1 DEF TypeInv
  <2>2. CASE ~IsSource(to)
    <3>1. PICK a \in Addr : to = ToAddr(a) /\ to.addr = a /\ addr[a] # None
      BY <1>3, <2>2, TargetIs DEF InUse
    <3>2. addr[a] \in lo_address /\ addr' = [addr EXCEPT ![a].sock = NoSock]
      BY <1>3, <1>5, <2>2, <3>1 DEF TypeInv, AddrSet
    <3>3. PICK new : new = [addr[a] EXCEPT !.sock = NoSock]
      OBVIOUS
    <3>4. new \in lo_address /\ new.sock = NoSock /\ new.own = addr[a].own
      BY <3>2, <3>3 DEF lo_address, Handle
    <3>5. \A b \in Addr : addr'[b] = IF b = a THEN new ELSE addr[b]
      BY <1>3, <3>2, <3>3 DEF TypeInv
    <3>6. \A b \in Addr : to = ToAddr(b) <=> b = a
      BY <3>1, TargetIs
    <3>7. addr' \in [Addr -> lo_address \cup {None}]
      BY <1>3, <3>2, <3>3, <3>4 DEF TypeInv
    <3> QED
      BY <3>1, <3>4, <3>5, <3>6, <3>7, NoneIsNot
  <2> QED
    BY <2>1, <2>2
<1>9. CallOK' /\ SentOnce' /\ ~Creating'
  BY <1>3, <1>5, FailedIs
<1>10. \/ call'.at = "return"
       \/ call'.at = "send_data" /\ call'.to = to /\ call'.from = call.from
  BY <1>2, <1>3, <1>5, FailedIs
<1>11. TypeInv'
  BY <1>3, <1>5, <1>6, <1>7, <1>8 DEF TypeInv, Tables
<1>12. ASSUME NEW t \in Targets
       PROVE  Held(t)' \in {Held(t), NoSock} /\ (t = to => Held(t)' = NoSock)
  <2>1. CASE \E b \in Addr : t = ToAddr(b)
    BY <1>8, <2>1, HeldByAddr
  <2>2. CASE \E r \in Server, f \in Fd : t = ToSource(r, f)
    <3>1. PICK r \in Server, f \in Fd : t = ToSource(r, f) /\ IsSource(t) /\ t.server = r /\ t.fd = f
      BY <2>2, TargetIs
    <3>2. Held(t)' = SourceSock(server', r, f) /\ Held(t) = SourceSock(server, r, f)
      BY <3>1, HeldIsSource
    <3>3. t = to => SourceSock(server', r, f) = NoSock
      BY <1>6, <3>1 DEF SourceSock
    <3> QED
      BY <1>6, <3>2, <3>3
  <2> QED
    BY <2>1, <2>2, AllTargets
<1>13. CallInv'
  <2>1. InUse(to)'
    <3>1. CASE IsSource(to)
      BY <1>3, <1>6, <3>1, TargetIs DEF InUse
    <3>2. CASE ~IsSource(to)
      BY <1>3, <1>8, <3>2, TargetIs DEF InUse
    <3> QED
      BY <3>1, <3>2
  <2> QED
    BY <1>3, <1>6, <1>9, <1>10, <2>1 DEF CallInv, Creating, Sending, InUse
<1>14. ASSUME astray' PROVE shared' # {}
  BY <1>3, <1>5, <1>14, WrongShares
<1>15. ASSUME ~astray' PROVE Live'
  <2>1. ~Wrong(h)
    BY <1>5, <1>15
  <2>2. /\ Shrunk(mid)
        /\ \A r \in Server : \A g \in Kept(r) : g \notin ToSet(mid[r].sockets) => g.fd = h.fd
    BY <1>1, <1>2, <1>4, <2>1, DeletedShrunk
  <2>3. Shrunk(server')
    BY <1>6, <2>2 DEF Shrunk
  <2>4. HandleInv' /\ ServerInv' /\ ClientInv' /\ FrameInv'
    <3>1. /\ \A t \in Targets : Held(t)' \in {Held(t), NoSock}
          /\ Held(to)' = NoSock
      BY <1>3, <1>12
    <3>2. /\ shared \subseteq shared' /\ shared' \subseteq shared \cup {h.of}
          /\ IsSource(to) => h.of \in shared'
      BY <1>5
    <3> QED
      BY <1>1, <1>2, <1>5, <1>9, <2>1, <2>3, <3>1, <3>2, FailsInv
  <2>5. AccountInv'
    <3> SUFFICES ASSUME NEW i \in 1 .. Len(sock), Open(i)' PROVE HasOwner(i)'
      BY <1>5 DEF AccountInv
    <3>1. PICK f \in Fd : f # h.fd /\ kernel[f] = i
      BY <1>7 DEF Open
    <3>2. h.of # i
      BY <1>3, <3>1 DEF Good
    <3>3. HasOwner(i)
      BY <1>3, <1>7 DEF AccountInv
    <3>4. ASSUME NEW b \in Addr, addr[b] # None, addr[b].sock.of = i PROVE addr'[b].sock.of = i
      <4>1. to # ToAddr(b)
        BY <1>2, <3>2, <3>4, HeldByAddr
      <4> QED
        BY <1>8, <3>4, <4>1
    <3>5. ASSUME NEW r \in Server, NEW g \in Kept(r), g.of = i PROVE g \in Kept(r)'
      <4>1. Good(g) /\ g # NoSock
        BY <1>3, <3>5 DEF HandleInv, NoSock
      <4>2. g.fd # h.fd
        BY <3>1, <3>5, <4>1 DEF Good
      <4>3. g \in ToSet(mid[r].sockets)
        BY <2>2, <4>2
      <4> QED
        BY <1>6, <4>3 DEF Kept
    <3> QED
      BY <1>5, <1>8, <3>3, <3>4, <3>5 DEF HasOwner
  <2> QED
    BY <1>13, <2>4, <2>5 DEF Live
<1> QED
  BY <1>9, <1>11, <1>14, <1>15 DEF Inv

-----------------------------------------------------------------------------
(***************************************************************************)
(* Every step keeps the invariants.                                        *)
(***************************************************************************)
LEMMA InitInv == ASSUME Init PROVE Inv
<1>1. /\ kernel = [f \in Fd |-> 0] /\ sock = <<>> /\ addr = [a \in Addr |-> None]
      /\ server = [s \in Server |-> None] /\ client = [p \in Proto |-> NoSock] /\ call = Idle
      /\ shared = {} /\ lost = {} /\ ~astray
  BY DEF Init
<1>2. CallOK /\ SentOnce /\ CallInv /\ ~Creating
  BY <1>1 DEF CallOK, SentOnce, CallInv, Creating, Sending, Idle
<1>3. sock \in Seq(Socket) /\ Len(sock) = 0
  BY <1>1
<1>4. NoSock \in Handle /\ NoSock.fd = 0 /\ NoSock.of = 0
  BY DEF Handle, NoSock
<1>5. TypeInv
  BY <1>1, <1>3, <1>4, BoundsAssumption DEF TypeInv
<1>6. \A t \in Targets : Held(t) = NoSock
  BY <1>1, HeldByAddr, HeldBySource, AllTargets
<1>7. \A s \in Server : Kept(s) = {} /\ server[s] = None
  BY <1>1 DEF Kept
<1>8. HandleInv
  BY <1>4, <1>6, <1>7 DEF HandleInv, Good
<1>9. ServerInv /\ ClientInv
  BY <1>1, <1>4, <1>7 DEF ServerInv, ClientInv
<1>10. AccountInv /\ FrameInv
  BY <1>3 DEF AccountInv, FrameInv
<1> QED
  BY <1>1, <1>2, <1>5, <1>8, <1>9, <1>10 DEF Inv, Live

LEMMA SendsInv ==
    ASSUME Inv, ~astray, NEW again \in BOOLEAN, NEW from \in Server \cup {None},
           \/ \E a \in Addr : Send(a, from, again)
           \/ \E s \in Server, f \in Fd : Reply(s, f, from, again)
    PROVE  Inv'
<1>1. ASSUME NEW a \in Addr, Send(a, from, again) PROVE Inv'
  <2>1. ToAddr(a) \in Targets /\ InUse(ToAddr(a))
    BY <1>1, TargetIs DEF Send, InUse
  <2> QED
    BY <1>1, <2>1, StartsInv DEF Send
<1>2. ASSUME NEW s \in Server, NEW f \in Fd, Reply(s, f, from, again) PROVE Inv'
  <2>1. ToSource(s, f) \in Targets /\ InUse(ToSource(s, f))
    BY <1>2, TargetIs DEF Reply, InUse
  <2>2. from # None => server[from] # None
    BY <1>2 DEF Reply
  <2> QED
    BY <1>2, <2>1, <2>2, StartsInv DEF Reply
<1> QED
  BY <1>1, <1>2

\* The steps of a call that sends.
LEMMA SendingInv ==
    ASSUME Inv, ~astray,
           \/ TooLong \/ Unresolved \/ ChooseSocket \/ create_socket \/ CreateFails
           \/ SendPrefix \/ SendPrefixShort \/ SkipPrefix
           \/ SendData \/ SendDataShort
           \/ DatagramFails \/ StreamFails \/ WipedFails
           \/ Return
    PROVE  Inv'
<1>1. CASE TooLong \/ Unresolved \/ CreateFails
  BY <1>1, NotSentInv DEF TooLong, Unresolved, CreateFails, NotSent, Sending
<1>2. CASE DatagramFails
  BY <1>2, NotSentInv DEF DatagramFails, Sending
<1> QED
  BY <1>1, <1>2, ChooseSocketInv, create_socketInv, PrefixInv, PrefixShortInv, SkipPrefixInv,
     SendDataInv, SendDataShortInv, StreamFailsInv, WipedFailsInv, ReturnInv

LEMMA NextInv == ASSUME Inv, [Next]_vars PROVE Inv'
<1>1. CASE UNCHANGED vars
  <2>1. /\ kernel' = kernel /\ sock' = sock /\ addr' = addr /\ server' = server /\ client' = client
        /\ call' = call /\ shared' = shared /\ lost' = lost /\ astray' = astray
    BY <1>1 DEF vars
  <2>2. CallOK' /\ TypeInv' /\ SentOnce'
    BY <2>1 DEF Inv, CallOK, TypeInv, SentOnce
  <2>3. HandleInv' <=> HandleInv
    BY <2>1 DEF HandleInv, Held, InUse, Target, Kept, Good
  <2>4. (ServerInv' <=> ServerInv) /\ (ClientInv' <=> ClientInv)
    BY <2>1 DEF ServerInv, ClientInv, Own, Creating
  <2>5. CallInv' <=> CallInv
    BY <2>1 DEF CallInv, Creating, Sending, InUse, IsTcp, Target, Own, Good
  <2>6. AccountInv' <=> AccountInv
    BY <2>1 DEF AccountInv, HasOwner, Kept, Open
  <2>7. FrameInv' <=> FrameInv
    BY <2>1 DEF FrameInv, IsTcp, Target, Held, InUse
  <2> QED
    BY <2>1, <2>2, <2>3, <2>4, <2>5, <2>6, <2>7 DEF Inv, Live
<1>2. CASE Next
  <2> SUFFICES ASSUME ~astray, Step PROVE Inv'
    BY <1>2 DEF Next
  <2>1. CASE \E i \in 1 .. Len(sock) : PeerLeaves(i)
    BY <2>1, PeerLeavesInv
  <2>2. CASE \E s \in Server :
                \/ \E p \in Proto : lo_server_new(s, p)
                \/ FreeServer(s) \/ Accept(s) \/ RecvEnds(s)
    BY <2>2, lo_server_newInv, FreesInv, AcceptInv, RecvEndsInv
  <2>3. CASE OpenServerSocket \/ BindOk \/ IfaceUnknown
    BY <2>3, OpenServerSocketInv, BindOkInv, IfaceUnknownInv
  <2>4. CASE OpenServerFails \/ BindTaken \/ BindFails \/ lo_server_join_multicast_group
    BY <2>4, FreesInv, BindTakenInv
  <2>5. CASE \E a \in Addr :
                \/ \E p \in Proto : lo_address_new(a, p)
                \/ lo_address_free(a)
    BY <2>5, lo_address_newInv, lo_address_freeInv
  <2>6. CASE \E again \in BOOLEAN, from \in Server \cup {None} :
                \/ \E a \in Addr : Send(a, from, again)
                \/ \E s \in Server, f \in Fd : Reply(s, f, from, again)
    BY <2>6, SendsInv
  <2>7. CASE \/ TooLong \/ Unresolved \/ ChooseSocket \/ create_socket \/ CreateFails
             \/ SendPrefix \/ SendPrefixShort \/ SkipPrefix
             \/ SendData \/ SendDataShort
             \/ DatagramFails \/ StreamFails \/ WipedFails
             \/ Return
    BY <2>7, SendingInv
  <2> QED
    BY <2>1, <2>2, <2>3, <2>4, <2>5, <2>6, <2>7 DEF Step
<1> QED
  BY <1>1, <1>2

LEMMA InvHolds == Spec => []Inv
<1>1. Init => Inv
  BY InitInv
<1>2. Inv /\ [Next]_vars => Inv'
  BY NextInv
<1> QED
  BY <1>1, <1>2, PTL DEF Spec

-----------------------------------------------------------------------------
(***************************************************************************)
(* The properties.                                                         *)
(***************************************************************************)
\* The types of the state: what lo_address, lo_server and the global client sockets
\* can have in them (lo_types_internal.h), in every state of every behaviour.
THEOREM Types == Spec => [](CallOK /\ TypeInv)
<1>1. Inv => CallOK /\ TypeInv
  BY DEF Inv
<1> QED
  BY <1>1, InvHolds, PTL

\* lo_send_message_from and lo_send_bundle_from (send.c): a call that fails has put no
\* whole message on the wire, one that succeeds exactly one, even when it had to try
\* twice, unless send() took a part only.
THEOREM SendsOnce == Spec => []SentOnce
<1>1. Inv => SentOnce
  BY DEF Inv
<1> QED
  BY <1>1, InvHolds, PTL

\* send_data (send.c) and the closing of sockets (server.c, address.c): a descriptor
\* that an address, a server or a source on file keeps is open and the same socket,
\* unless that socket was shared; servers keep their own socket; the global client
\* sockets are sockets of live servers.
THEOREM HoldersAreRight == Spec => []HeldIsOpen
<1>1. ASSUME Inv PROVE HeldIsOpen
  <2>1. CASE astray
    BY <1>1, <2>1 DEF Inv, HeldIsOpen
  <2>2. CASE ~astray
    <3>1. TypeInv /\ HandleInv /\ ServerInv /\ ClientInv
      BY <1>1, <2>2 DEF Inv, Live
    <3>2. ASSUME NEW h, Good(h) PROVE Holds(h)
      BY <3>2, BoundsAssumption DEF Good, Holds, Names, NoSock, Fd
    <3>3. \A a \in Addr : addr[a] # None => Holds(addr[a].sock)
      BY <3>1, <3>2, HeldByAddr, TargetIs DEF HandleInv
    <3>4. ASSUME NEW s \in Server, server[s] # None
          PROVE  /\ server[s].sockets # <<>>
                 /\ \A k \in 1 .. Len(server[s].sockets) : Holds(server[s].sockets[k])
                 /\ \A f \in Fd : server[s].sources[f] # None => Holds(server[s].sources[f].sock)
      <4>1. server[s].sockets # <<>>
        BY <3>1, <3>4 DEF ServerInv, TableOK, Fits
      <4>2. \A k \in 1 .. Len(server[s].sockets) : server[s].sockets[k] \in Kept(s)
        BY <3>4 DEF Kept, ToSet
      <4>3. \A f \in Fd : server[s].sources[f] # None => Holds(server[s].sources[f].sock)
        BY <3>1, <3>2, <3>4, HeldBySource, TargetIs DEF HandleInv
      <4> QED
        BY <3>1, <3>2, <4>1, <4>2, <4>3 DEF HandleInv
    <3>5. \A p \in Proto : client[p].fd # 0 =>
             \E s \in Server : server[s] # None /\ server[s].proto = p
                               /\ server[s].sockets[1] = client[p]
      BY <3>1 DEF ClientInv, Own
    <3> QED
      BY <2>2, <3>3, <3>4, <3>5 DEF HeldIsOpen
  <2> QED
    BY <2>1, <2>2
<1>2. Inv => HeldIsOpen
  BY <1>1
<1> QED
  BY <1>2, InvHolds, PTL

\* create_socket, lo_server_add_socket, lo_server_del_socket and lo_server_free: an open
\* socket has an address that owns it or a server that keeps it, unless it was dropped
\* in one of the ways that lost counts.
THEOREM SocketsHaveOwners == Spec => []AccountedFor
<1>1. ASSUME Inv PROVE AccountedFor
  <2>1. CASE astray
    BY <2>1 DEF AccountedFor
  <2>2. CASE ~astray
    <3>1. AccountInv
      BY <1>1, <2>2 DEF Inv, Live
    <3>2. \A s \in Server : \A h \in Kept(s) : server[s] # None /\ h \in ToSet(server[s].sockets)
      BY DEF Kept
    <3> QED
      BY <3>1, <3>2 DEF AccountInv, HasOwner, AccountedFor
  <2> QED
    BY <2>1, <2>2
<1>2. Inv => AccountedFor
  BY <1>1
<1> QED
  BY <1>2, InvHolds, PTL

\* The prefix and the data that send_data (send.c) writes with two calls of send(): nothing
\* follows a frame that was cut short, unless the socket is non-blocking.
THEOREM BlockingFramesWhole == Spec => []FramesWhole
<1>1. ASSUME Inv PROVE FramesWhole
  BY <1>1 DEF Inv, Live, FrameInv, FramesWhole
<1>2. Inv => FramesWhole
  BY <1>1
<1> QED
  BY <1>2, InvHolds, PTL
================================================================================
