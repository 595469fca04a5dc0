------------------------- MODULE LoStreamServerProofs -------------------------
(***************************************************************************)
(* Proofs about LoStreamServer, for any number of clients and messages and *)
(* any size of the buffers: the table of sockets, the descriptors and the  *)
(* addresses kept under them agree, each stream is reassembled in step     *)
(* however it is split, a method is told the peer that sent the message,   *)
(* the second poll waits in vain only after accepting a connection, and    *)
(* the doubling of a buffer does not end only for a long message.          *)
(*                                                                         *)
(* FlattenSeq and BufferSize are recursive functions. What is proved of    *)
(* them is proved by induction, as the absence of a least counterexample.  *)
(***************************************************************************)
EXTENDS LoStreamServer, LoSequenceLemmas, FiniteSetTheorems

--------------------------------------------------------------------------------
(***************************************************************************)
(* The inductive invariants.                                               *)
(***************************************************************************)
\* A connection waits in the backlog once, or is in the table, or neither.
BacklogInv ==
    /\ \A i, j \in 1 .. Len(backlog) : i # j => backlog[i] # backlog[j]
    /\ \A i \in 1 .. Len(backlog) : fd[backlog[i]] = 0 /\ client[backlog[i]] # "idle"
    /\ \A c \in Conn : client[c] = "idle" => fd[c] = 0

\* The message in hand was read from a socket of the table, and sock says which.
\* The loop is past that one.
HandInv == data # <<>> =>
    /\ pc \in {"scan", "spin", "undefined"} /\ sock # 0
    /\ \E i \in 1 .. N : fd[sockets[i]] = sock /\ \A r \in ready : r < i

TableInv == TableMatches /\ BacklogInv /\ HandInv /\ 0 \notin failed

\* Between lo_server_recv's poll and the next one there is a socket to read.
RawInv == pc = "raw" => accepted \/ Ready # {}

\* The buffer of a socket that is yet to be read holds no whole message, and one
\* that is doubled for ever has no size.
ScanInv ==
    /\ pc \in {"scan", "spin"} =>
          \A i \in ready \ {0} : lo_server_buffer_contains_msg(contexts[i].data) = 0
    /\ pc = "spin" => ready # {} /\ Scan # 0 /\ Size = 0

\* What a client sends after its first k messages.
Rest(c, k) == FlattenSeq([n \in 1 .. Len(Length[c]) - k |->
                            [j \in 1 .. Length[c][n + k] |-> <<<<c, n + k>>, j>>]])

\* A buffer of c begins with a message of c, the first that was not taken.
BufferOK(c, buffer) == \E k \in 0 .. Len(Length[c]) :
    /\ Len(buffer) <= Len(Rest(c, k)) /\ buffer = SubSeq(Rest(c, k), 1, Len(buffer))
    /\ client[c] # "reset" => /\ Taken(c) = 1 .. k
                              /\ buffer \o wire[c] \o unsent[c] = Rest(c, k)

\* Each socket has its own buffer, and a connection to come has none.
BuffersInv ==
    /\ \A i \in 1 .. N : BufferOK(sockets[i], contexts[i].data)
    /\ \A c \in Conn : client[c] = "idle" \/ (\E i \in 1 .. Len(backlog) : backlog[i] = c)
                            => BufferOK(c, <<>>)

\* The message in hand is of the socket it was read from.
OriginInv == data # <<>> => fd[data[1][1][1]] = sock

\* Until a socket is removed while a later one has data.
StreamInv == shifted \/ (BuffersInv /\ OriginInv /\ SourceIsPeer)

\* A connection that is lost has nothing left to receive.
ResetInv == \A c \in Conn : client[c] = "reset" => wire[c] = <<>>

\* The event is the message there is one event for.
EventInv == event = NoEvent \/ event.msg \in Later

--------------------------------------------------------------------------------
(***************************************************************************)
(* Messages and their units.                                               *)
(***************************************************************************)
Units(c, k) == [j \in 1 .. Length[c][k] |-> <<<<c, k>>, j>>]

LEMMA Lengths ==
    ASSUME NEW c \in Conn
    PROVE  /\ Len(Length[c]) \in Nat
           /\ \A k \in 1 .. Len(Length[c]) :
                 /\ Length[c][k] \in Nat \ {0, 1} /\ <<c, k>> \in Message
                 /\ \A j \in 1 .. Length[c][k] : <<<<c, k>>, j>> \in Unit
<1>1. Length[c] \in Seq(Nat \ {0, 1})
  BY ConnAssumption
<1>2. \A k \in 1 .. Len(Length[c]) : Length[c][k] \in Nat \ {0, 1} /\ <<c, k>> \in Message
  BY <1>1 DEF Message
<1>3. ASSUME NEW k \in 1 .. Len(Length[c]), NEW j \in 1 .. Length[c][k]
      PROVE  <<<<c, k>>, j>> \in Unit
  BY <1>2 DEF Unit
<1> QED
  BY <1>1, <1>2, <1>3

LEMMA UnitIs ==
    ASSUME NEW u \in Unit
    PROVE  /\ u[1] \in Message /\ u[1][1] \in Conn /\ u[1][2] \in 1 .. Len(Length[u[1][1]])
           /\ u[1] = <<u[1][1], u[1][2]>> /\ u[2] \in 1 .. Length[u[1][1]][u[1][2]]
<1>1. PICK m \in Message : u \in {m} \X (1 .. Length[m[1]][m[2]])
  BY DEF Unit
<1>2. PICK c \in Conn : m \in {c} \X (1 .. Len(Length[c]))
  BY DEF Message
<1> QED
  BY <1>1, <1>2

LEMMA UnitsSeq ==
    ASSUME NEW c \in Conn, NEW k \in 1 .. Len(Length[c])
    PROVE  /\ Units(c, k) \in Seq(Unit) /\ Len(Units(c, k)) = Length[c][k]
           /\ \A j \in 1 .. Length[c][k] : Units(c, k)[j] = <<<<c, k>>, j>>
<1>1. PICK l \in Nat : l = Length[c][k]
  BY Lengths
<1>2. Units(c, k) = [j \in 1 .. l |-> <<<<c, k>>, j>>] /\ \A j \in 1 .. l : <<<<c, k>>, j>> \in Unit
  BY <1>1, Lengths DEF Units
<1>3. Units(c, k) \in [1 .. l -> Unit]
  BY <1>2
<1>4. Units(c, k) \in Seq(Unit) /\ Len(Units(c, k)) = l
  BY <1>1, <1>2, <1>3
<1> QED
  BY <1>1, <1>2, <1>4

\* What a client has yet to send, message by message.
LEMMA RestIs ==
    ASSUME NEW c \in Conn, NEW k \in 0 .. Len(Length[c])
    PROVE  /\ Rest(c, k) \in Seq(Unit)
           /\ k = Len(Length[c]) => Rest(c, k) = <<>>
           /\ k < Len(Length[c]) => Rest(c, k) = Units(c, k + 1) \o Rest(c, k + 1)
<1> DEFINE q(l) == [n \in 1 .. Len(Length[c]) - l |-> Units(c, n + l)]
<1>1. ASSUME NEW l \in 0 .. Len(Length[c])
      PROVE  /\ q(l) \in Seq(Seq(Unit)) /\ Len(q(l)) = Len(Length[c]) - l
             /\ \A n \in 1 .. Len(Length[c]) - l : q(l)[n] = Units(c, n + l)
  <2>1. \A n \in 1 .. Len(Length[c]) - l : Units(c, n + l) \in Seq(Unit)
    BY Lengths, UnitsSeq
  <2> QED
    BY <2>1, Lengths
<1>2. Rest(c, k) = FlattenSeq(q(k)) /\ Rest(c, k + 1) = FlattenSeq(q(k + 1))
  BY DEF Rest, Units
<1> HIDE DEF q
<1>3. CASE k = Len(Length[c])
  <2>1. q(k) = <<>> /\ Len(q(k)) = 0
    BY <1>1, <1>3, Lengths
  <2> QED
    BY <1>2, <1>3, <2>1, Lengths DEF FlattenSeq
<1>4. CASE k < Len(Length[c])
  <2>1. k + 1 \in 0 .. Len(Length[c])
    BY <1>4, Lengths
  <2>2. /\ Len(q(k)) # 0 /\ Len(q(k + 1)) = Len(q(k)) - 1 /\ q(k)[1] = Units(c, k + 1)
        /\ \A i \in 1 .. Len(q(k + 1)) : q(k + 1)[i] = q(k)[i + 1]
    <3>1. PICK n \in Nat : n = Len(Length[c])
      BY Lengths
    <3>2. k < n /\ k \in Nat /\ 1 \in 1 .. n - k /\ n - (k + 1) = (n - k) - 1 /\ 1 + k = k + 1
      BY <1>4, <3>1
    <3>3. \A i \in 1 .. n - (k + 1) : i + 1 \in 1 .. n - k /\ (i + 1) + k = i + (k + 1)
      BY <3>2
    <3>4. /\ Len(q(k)) = n - k /\ Len(q(k + 1)) = n - (k + 1)
          /\ \A i \in 1 .. n - k : q(k)[i] = Units(c, i + k)
          /\ \A i \in 1 .. n - (k + 1) : q(k + 1)[i] = Units(c, i + (k + 1))
      BY <1>1, <2>1, <3>1
    <3> QED
      BY <3>2, <3>3, <3>4
  <2>3. /\ FlattenSeq(q(k)) \in Seq(Unit)
        /\ FlattenSeq(q(k)) = q(k)[1] \o FlattenSeq(q(k + 1))
    BY <1>1, <2>1, <2>2, FlattenSeqFirst
  <2> QED
    BY <1>2, <1>4, <2>2, <2>3, Lengths
<1> QED
  BY <1>3, <1>4, Lengths

LEMMA StreamIs ==
    ASSUME NEW c \in Conn
    PROVE  Stream(c) = Rest(c, 0) /\ Stream(c) \in Seq(Unit)
<1>1. Len(Length[c]) - 0 = Len(Length[c]) /\ \A n \in 1 .. Len(Length[c]) : n + 0 = n
  BY Lengths
<1>2. Stream(c) = Rest(c, 0)
  BY <1>1 DEF Stream, Rest
<1>3. 0 \in 0 .. Len(Length[c])
  BY Lengths
<1> QED
  BY <1>2, <1>3, RestIs

--------------------------------------------------------------------------------
(***************************************************************************)
(* The size of a buffer.                                                   *)
(***************************************************************************)
Double(z) == IF 2 * z > MaxBuffer THEN MaxBuffer ELSE 2 * z
Enough(z, used) == z - used >= z \div 2
Grown(g, z, used) == IF Enough(z, used) THEN z ELSE IF z = MaxBuffer THEN 0 ELSE g[Double(z)]

LEMMA DoubleIs ==
    ASSUME NEW z \in 1 .. MaxBuffer, z # MaxBuffer
    PROVE  Double(z) \in z + 1 .. MaxBuffer /\ Double(z) \in 1 .. MaxBuffer
BY BufferAssumption DEF Double

LEMMA GrownExists ==
    ASSUME NEW used \in Nat
    PROVE  \E g : g = [z \in 1 .. MaxBuffer |-> Grown(g, z, used)]
<1> DEFINE M == MaxBuffer
           From(g, m) == /\ g \in [1 .. M -> 0 .. M]
                         /\ \A z \in 1 .. M : z > M - m => g[z] = Grown(g, z, used)
           Bad == {m \in 1 .. M : ~ \E g : From(g, m)}
<1>1. M \in Nat \ {0}
  BY BufferAssumption
<1>2. Bad = {}
  <2> SUFFICES ASSUME Bad # {} PROVE FALSE
    OBVIOUS
  <2>1. Bad \in SUBSET (1 .. M)
    OBVIOUS
  <2>2. PICK m \in Bad : m - 1 \notin Bad /\ (m # 1 => m - 1 \in 1 .. M)
    BY <1>1, <2>1, LeastBad
  <2>3. m \in 1 .. M /\ ~ \E g : From(g, m)
    OBVIOUS
  <2>4. m # 1 => \E g : From(g, m - 1)
    BY <2>2
  <2> HIDE DEF Bad, M
  <2>5. PICK g \in [1 .. M -> 0 .. M] : \A z \in 1 .. M : z > M - (m - 1) => g[z] = Grown(g, z, used)
    <3>1. CASE m = 1
      <4>1. [z \in 1 .. M |-> 0] \in [1 .. M -> 0 .. M]
        BY <1>1
      <4>2. \A z \in 1 .. M : ~(z > M - (m - 1))
        BY <1>1, <3>1
      <4> QED
        BY <4>1, <4>2
    <3> QED
      BY <2>4, <3>1
  <2> DEFINE x == M - m + 1
             h == [g EXCEPT ![x] = Grown(g, x, used)]
  <2>6. x \in 1 .. M
    BY <1>1, <2>3
  <2>7. Grown(g, x, used) \in 0 .. M
    BY <1>1, <2>6, DoubleIs DEF Grown, M
  <2>8. h \in [1 .. M -> 0 .. M] /\ h[x] = Grown(g, x, used) /\ \A z \in 1 .. M : z # x => h[z] = g[z]
    BY <2>6, <2>7
  <2> HIDE DEF h
  <2>9. ASSUME NEW z \in 1 .. M, z > M - m PROVE h[z] = Grown(h, z, used)
    <3>1. z = M \/ (Double(z) \in 1 .. M /\ Double(z) # x)
      <4> SUFFICES ASSUME z # M PROVE Double(z) \in 1 .. M /\ Double(z) # x
        OBVIOUS
      <4>1. Double(z) \in z + 1 .. M /\ Double(z) \in 1 .. M
        BY DoubleIs DEF M
      <4> QED
        BY <1>1, <2>3, <2>9, <4>1
    <3>2. Grown(h, z, used) = Grown(g, z, used)
      BY <2>8, <3>1 DEF Grown, M
    <3>3. CASE z = x
      BY <2>8, <3>2, <3>3
    <3>4. CASE z # x
      <4>1. z > M - (m - 1)
        BY <1>1, <2>3, <2>9, <3>4
      <4> QED
        BY <2>5, <2>8, <3>2, <3>4, <4>1
    <3> QED
      BY <3>3, <3>4
  <2> QED
    BY <2>3, <2>8, <2>9
<1>3. PICK g : From(g, M)
  <2>1. M \in 1 .. M
    BY <1>1
  <2> QED
    BY <1>2, <2>1
<1>4. \A z \in 1 .. M : g[z] = Grown(g, z, used)
  BY <1>1, <1>3
<1>5. g = [z \in 1 .. M |-> Grown(g, z, used)]
  BY <1>3, <1>4
<1> QED
  BY <1>5

\* A buffer is given a size of which half is free, or none because the largest one
\* has not half of it free.
LEMMA BufferSizeIs ==
    ASSUME NEW size \in 0 .. MaxBuffer, NEW used \in Nat
    PROVE  LET s == BufferSize(size, used)
           IN  /\ s \in 0 .. MaxBuffer
               /\ s # 0 => Enough(s, used)
               /\ s = 0 => ~Enough(MaxBuffer, used)
<1> DEFINE M == MaxBuffer
           g == CHOOSE f : f = [z \in 1 .. M |-> Grown(f, z, used)]
           OK(s) == /\ s \in 0 .. M
                    /\ s # 0 => Enough(s, used)
                    /\ s = 0 => ~Enough(M, used)
           Bad == {m \in 1 .. M : ~OK(g[M - m + 1])}
<1>1. M \in Nat \ {0} /\ 2 * MinBuffer \in 1 .. M
  BY BufferAssumption
<1>2. g = [z \in 1 .. M |-> Grown(g, z, used)]
  BY GrownExists
<1>3. BufferSize(size, used) = IF size = 0 THEN g[2 * MinBuffer] ELSE g[size]
  BY DEF BufferSize, Grown, Enough, Double
<1> HIDE DEF g
<1>4. Bad = {}
  <2> SUFFICES ASSUME Bad # {} PROVE FALSE
    OBVIOUS
  <2>1. Bad \in SUBSET (1 .. M)
    OBVIOUS
  <2>2. PICK m \in Bad : \A k \in Bad : m <= k
    <3>1. Bad \in SUBSET Nat
      BY <2>1
    <3> QED
      BY <3>1, LeastNat
  <2>3. m \in 1 .. M /\ ~OK(g[M - m + 1])
    OBVIOUS
  <2>4. PICK z \in 1 .. M : z = M - m + 1
    BY <1>1, <2>3
  <2>5. \A y \in z + 1 .. M : OK(g[y])
    <3> SUFFICES ASSUME NEW y \in z + 1 .. M, ~OK(g[y]) PROVE FALSE
      OBVIOUS
    <3>1. PICK k \in 1 .. M : k = M - y + 1 /\ k < m /\ M - k + 1 = y
      BY <1>1, <2>3, <2>4
    <3>2. k \in Bad
      BY <3>1
    <3> QED
      BY <2>2, <2>3, <3>1, <3>2
  <2> HIDE DEF Bad
  <2>6. g[z] = Grown(g, z, used)
    BY <1>2, <2>4
  <2>7. ~OK(g[z])
    BY <2>3, <2>4
  <2>8. CASE Enough(z, used)
    BY <1>1, <2>6, <2>7, <2>8 DEF Grown
  <2>9. CASE ~Enough(z, used) /\ z = M
    BY <1>1, <2>6, <2>7, <2>9 DEF Grown
  <2>10. CASE ~Enough(z, used) /\ z # M
    <3>1. g[z] = g[Double(z)]
      BY <2>6, <2>10 DEF Grown
    <3> QED
      BY <2>5, <2>7, <2>10, <3>1, DoubleIs
  <2> QED
    BY <2>8, <2>9, <2>10
<1>5. \A z \in 1 .. M : OK(g[z])
  <2> SUFFICES ASSUME NEW z \in 1 .. M PROVE OK(g[z])
    OBVIOUS
  <2>1. M - z + 1 \in 1 .. M /\ M - (M - z + 1) + 1 = z
    BY <1>1
  <2>2. OK(g[M - (M - z + 1) + 1])
    BY <1>4, <2>1
  <2> HIDE DEF OK
  <2> QED
    BY <2>1, <2>2
<1> QED
  BY <1>1, <1>3, <1>5

--------------------------------------------------------------------------------
(***************************************************************************)
(* What the buffers contain.                                               *)
(***************************************************************************)
LEMMA ContainsIs ==
    ASSUME NEW d \in Seq(Unit)
    PROVE  /\ lo_server_buffer_contains_msg(d) \in 0 .. Len(d)
           /\ lo_server_buffer_contains_msg(d) # 0 =>
                 /\ d # <<>> /\ d[1] \in Unit /\ d[1][2] = 1
                 /\ lo_server_buffer_contains_msg(d) = Length[d[1][1][1]][d[1][1][2]]
<1>1. d # <<>> => 1 \in 1 .. Len(d) /\ d[1] \in Unit
  OBVIOUS
<1>2. d # <<>> => Length[d[1][1][1]][d[1][1][2]] \in Nat
  BY <1>1, UnitIs, Lengths
<1>3. Len(d) \in Nat
  OBVIOUS
<1>4. CASE d # <<>> /\ d[1][2] = 1 /\ Length[d[1][1][1]][d[1][1][2]] <= Len(d)
  <2> DEFINE length == Length[d[1][1][1]][d[1][1][2]]
  <2>1. lo_server_buffer_contains_msg(d) = length
    BY <1>4, Zenon DEF lo_server_buffer_contains_msg
  <2>2. length \in Nat /\ length <= Len(d)
    BY <1>2, <1>4
  <2>3. length \in 0 .. Len(d)
    <3> HIDE DEF length
    <3> QED
      BY <1>3, <2>2
  <2> QED
    BY <1>1, <1>4, <2>1, <2>3, Zenon
<1>5. CASE ~(d # <<>> /\ d[1][2] = 1 /\ Length[d[1][1][1]][d[1][1][2]] <= Len(d))
  <2>1. lo_server_buffer_contains_msg(d) = 0
    BY <1>5, Zenon DEF lo_server_buffer_contains_msg
  <2> QED
    BY <1>3, <2>1
<1> QED
  BY <1>4, <1>5, Zenon

\* A message that is taken from a buffer is not empty.
LEMMA FirstMessageIs ==
    ASSUME NEW d \in Seq(Unit)
    PROVE  /\ FirstMessage(d) \in Seq(Unit) /\ Leftover(d) \in Seq(Unit)
           /\ FirstMessage(d) = <<>> <=> lo_server_buffer_contains_msg(d) = 0
           /\ FirstMessage(d) # <<>> => FirstMessage(d)[1] = d[1] /\ d[1] \in Unit
<1>1. PICK n \in 0 .. Len(d) : n = lo_server_buffer_contains_msg(d)
  BY ContainsIs
<1>2. FirstMessage(d) = SubSeq(d, 1, n) /\ Leftover(d) = SubSeq(d, n + 1, Len(d))
  BY <1>1 DEF FirstMessage, Leftover
<1>3. SubSeq(d, 1, n) \in Seq(Unit) /\ SubSeq(d, n + 1, Len(d)) \in Seq(Unit)
  OBVIOUS
<1>4. CASE n = 0
  <2>1. SubSeq(d, 1, 0) = <<>>
    OBVIOUS
  <2> QED
    BY <1>1, <1>2, <1>3, <1>4, <2>1
<1>5. CASE n # 0
  <2>1. SubSeq(d, 1, n) # <<>> /\ SubSeq(d, 1, n)[1] = d[1] /\ d[1] \in Unit
    <3>1. 1 \in 1 .. n /\ 1 \in 1 .. Len(d) /\ Len(SubSeq(d, 1, n)) = n
      BY <1>5
    <3> QED
      BY <1>5, <3>1
  <2> QED
    BY <1>1, <1>2, <1>3, <1>5, <2>1
<1> QED
  BY <1>4, <1>5

--------------------------------------------------------------------------------
(***************************************************************************)
(* The table, part by part.                                                *)
(***************************************************************************)
PeersOK ==
    /\ client \in [Conn -> {"idle", "open", "closed", "reset"}]
    /\ unsent \in [Conn -> Seq(Unit)] /\ wire \in [Conn -> Seq(Unit)]
    /\ backlog \in Seq(Conn)

SocketsOK ==
    /\ fd \in [Conn -> {0} \cup Fd]
    /\ sockets \in Seq(Conn) /\ N <= Cardinality(Conn)
    /\ sources \in [Fd -> Conn \cup {NoConn}]
    /\ \A i, j \in 1 .. N : i # j => sockets[i] # sockets[j] /\ fd[sockets[i]] # fd[sockets[j]]
    /\ \A c \in Conn : fd[c] # 0 <=> \E i \in 1 .. N : sockets[i] = c
    /\ \A f \in Fd : sources[f] = NoConn <=> \A c \in Conn : fd[c] # f
    /\ \A i \in 1 .. N : sources[fd[sockets[i]]] = sockets[i]

ContextsOK == contexts \in [1 .. Cardinality(Conn) -> [size : 0 .. MaxBuffer, data : Seq(Unit)]]

MessagesOK ==
    /\ event \in {NoEvent} \cup [msg : Message, sock : Fd, due : BOOLEAN]
    /\ data \in Seq(Unit)
    /\ handled \subseteq [msg : Message, src : Conn \cup {NoConn}, connected : BOOLEAN]
    /\ dropped \subseteq Message

PlaceOK ==
    /\ errno \in BOOLEAN /\ accepted \in BOOLEAN /\ shifted \in BOOLEAN
    /\ pc \in {"app", "wait", "poll", "raw", "scan", "spin", "undefined"}
    /\ ready \subseteq 0 .. N /\ failed \subseteq Nat \ {0} /\ sock \in {0} \cup Fd

LEMMA TableParts ==
    TableInv <=> /\ PeersOK /\ SocketsOK /\ ContextsOK /\ MessagesOK /\ PlaceOK
                 /\ BacklogInv /\ HandInv
BY DEF TableInv, TableMatches, TypeOK, PeersOK, SocketsOK, ContextsOK, MessagesOK, PlaceOK

LEMMA TablePartsNext ==
    TableInv' <=> /\ PeersOK' /\ SocketsOK' /\ ContextsOK' /\ MessagesOK' /\ PlaceOK'
                  /\ BacklogInv' /\ HandInv'
BY DEF TableInv, TableMatches, TypeOK, PeersOK, SocketsOK, ContextsOK, MessagesOK, PlaceOK

LEMMA Sizes ==
    /\ Cardinality(Conn) \in Nat /\ Fd = 1 .. Cardinality(Conn) /\ Fd \subseteq Nat \ {0}
    /\ IsFiniteSet(Conn) /\ IsFiniteSet(Fd) /\ Cardinality(Fd) = Cardinality(Conn)
    /\ NoConn \notin Conn
<1>1. Cardinality(Conn) \in Nat /\ IsFiniteSet(Conn) /\ NoConn \notin Conn
  BY ConnAssumption, FS_CardinalityType
<1>2. IsFiniteSet(1 .. Cardinality(Conn)) /\ Cardinality(1 .. Cardinality(Conn)) = Cardinality(Conn)
  BY <1>1, FS_Interval
<1> QED
  BY <1>1, <1>2 DEF Fd

\* The sockets of the table.
LEMMA SocketIs ==
    ASSUME SocketsOK, NEW i \in 1 .. N
    PROVE  /\ sockets[i] \in Conn /\ fd[sockets[i]] \in Fd /\ N \in Nat /\ i \in 1 .. Cardinality(Conn)
           /\ sources[fd[sockets[i]]] = sockets[i]
<1>1. sockets[i] \in Conn /\ N \in Nat
  BY DEF SocketsOK, N
<1>2. fd[sockets[i]] # 0 /\ fd[sockets[i]] \in {0} \cup Fd
  BY <1>1 DEF SocketsOK
<1> QED
  BY <1>1, <1>2, Sizes DEF SocketsOK

\* There is room in the table, and a descriptor, for a connection that waits.
LEMMA Room ==
    ASSUME SocketsOK, NEW c \in Conn, fd[c] = 0
    PROVE  /\ N + 1 <= Cardinality(Conn) /\ N + 1 \in 1 .. Cardinality(Conn)
           /\ FreeFd \in Fd /\ \A b \in Conn : fd[b] # FreeFd
<1> DEFINE Others == Conn \ {c}
<1>1. IsFiniteSet(Others) /\ Cardinality(Others) = Cardinality(Conn) - 1
  BY Sizes, FS_RemoveElement
<1>2. Cardinality(Conn) \in Nat /\ N \in Nat
  BY Sizes DEF SocketsOK, N
<1>3. N < Cardinality(Conn)
  <2> SUFFICES ASSUME N >= Cardinality(Conn) PROVE FALSE
    BY <1>2
  <2>1. IsFiniteSet(1 .. N) /\ Cardinality(1 .. N) = N
    BY <1>2, FS_Interval
  <2>2. sockets \in [1 .. N -> Others]
    <3>1. \A i \in 1 .. N : sockets[i] \in Others
      BY DEF SocketsOK, N
    <3>2. sockets \in [1 .. N -> Conn]
      BY DEF SocketsOK, N
    <3> QED
      BY <3>1, <3>2
  <2>3. Cardinality(Others) < Cardinality(1 .. N)
    BY <1>1, <1>2, <2>1
  <2>4. \E i, j \in 1 .. N : i # j /\ sockets[i] = sockets[j]
    <3>1. PICK S, T, s : S = 1 .. N /\ T = Others /\ s = sockets
      OBVIOUS
    <3>2. IsFiniteSet(S) /\ IsFiniteSet(T) /\ Cardinality(T) < Cardinality(S) /\ s \in [S -> T]
      BY <1>1, <2>1, <2>2, <2>3, <3>1
    <3>3. \E i, j \in S : i # j /\ s[i] = s[j]
      BY <3>2, FS_PigeonHole
    <3> QED
      BY <3>1, <3>3
  <2> QED
    BY <2>4 DEF SocketsOK
<1>4. \E f \in Fd : \A b \in Conn : fd[b] # f
  <2> SUFFICES ASSUME \A f \in Fd : \E b \in Conn : fd[b] = f PROVE FALSE
    OBVIOUS
  <2> DEFINE owner == [f \in Fd |-> CHOOSE b \in Conn : fd[b] = f]
  <2>1. \A f \in Fd : owner[f] \in Conn /\ fd[owner[f]] = f /\ f # 0
    BY Sizes
  <2>2. owner \in [Fd -> Others]
    BY <2>1
  <2>3. Cardinality(Others) < Cardinality(Fd)
    BY <1>1, <1>2, Sizes
  <2> HIDE DEF owner
  <2>4. \E f, g \in Fd : f # g /\ owner[f] = owner[g]
    BY <1>1, <2>2, <2>3, Sizes, FS_PigeonHole
  <2> QED
    BY <2>1, <2>4
<1>5. PICK f \in Fd : /\ \A b \in Conn : fd[b] # f
                      /\ \A g \in 1 .. f - 1 : \E b \in Conn : fd[b] = g
  <2> DEFINE Free == {f \in Fd : \A b \in Conn : fd[b] # f}
  <2>1. Free \in SUBSET Nat /\ Free # {}
    BY <1>4, Sizes
  <2>2. PICK f \in Free : \A g \in Free : f <= g
    BY <2>1, LeastNat
  <2>3. \A g \in 1 .. f - 1 : g \in Fd /\ ~(f <= g)
    BY <2>1, Sizes
  <2> QED
    BY <2>2, <2>3
<1>6. FreeFd \in Fd /\ \A b \in Conn : fd[b] # FreeFd
  BY <1>5 DEF FreeFd
<1> QED
  BY <1>2, <1>3, <1>6

LEMMA TableUnchanged ==
    ASSUME PeersOK, SocketsOK, ContextsOK, BacklogInv, UNCHANGED <<peers, table>>
    PROVE  PeersOK' /\ SocketsOK' /\ ContextsOK' /\ BacklogInv' /\ N' = N
<1>1. UNCHANGED <<client, unsent, wire, backlog>> /\ UNCHANGED <<fd, sockets, contexts, sources>>
  BY DEF peers, table
<1>2. N' = N
  BY <1>1 DEF N
<1>3. PeersOK' /\ ContextsOK'
  BY <1>1 DEF PeersOK, ContextsOK
<1>4. SocketsOK'
  BY <1>1, <1>2 DEF SocketsOK
<1>5. BacklogInv'
  BY <1>1 DEF BacklogInv
<1> QED
  BY <1>2, <1>3, <1>4, <1>5

\* Accepting a connection that waits (lo_server_add_socket).
LEMMA AcceptKeeps ==
    ASSUME PeersOK, SocketsOK, ContextsOK, BacklogInv, Accept, UNCHANGED <<client, unsent, wire>>
    PROVE  /\ PeersOK' /\ SocketsOK' /\ ContextsOK' /\ BacklogInv'
           /\ Head(backlog) \in Conn /\ Head(backlog) = backlog[1] /\ fd[Head(backlog)] = 0
           /\ N' = N + 1 /\ sockets'[N + 1] = Head(backlog) /\ fd'[Head(backlog)] \in Fd
           /\ contexts' = [contexts EXCEPT ![N + 1] = EmptyContext] /\ N + 1 \in 1 .. Cardinality(Conn)
           /\ \A i \in 1 .. N : sockets'[i] = sockets[i]
           /\ \A c \in Conn : c # Head(backlog) => fd'[c] = fd[c]
           /\ backlog' \in Seq(Conn) /\ Len(backlog') = Len(backlog) - 1
           /\ \A i \in 1 .. Len(backlog') : backlog'[i] = backlog[i + 1]
<1> DEFINE c == Head(backlog)
<1>1. /\ Len(backlog) \in Nat \ {0} /\ 1 \in 1 .. Len(backlog) /\ c = backlog[1] /\ c \in Conn
      /\ fd[c] = 0 /\ client[c] # "idle"
  BY DEF Accept, PeersOK, BacklogInv
<1>2. /\ N + 1 <= Cardinality(Conn) /\ N + 1 \in 1 .. Cardinality(Conn)
      /\ FreeFd \in Fd /\ \A b \in Conn : fd[b] # FreeFd
  BY <1>1, Room
<1>3. /\ sockets' = Append(sockets, c) /\ contexts' = [contexts EXCEPT ![N + 1] = EmptyContext]
      /\ sources' = [sources EXCEPT ![FreeFd] = c] /\ fd' = [fd EXCEPT ![c] = FreeFd]
      /\ backlog' = Tail(backlog)
  BY DEF Accept, lo_server_add_socket
<1>4. /\ sockets' \in Seq(Conn) /\ N \in Nat /\ N' = N + 1 /\ sockets'[N + 1] = c
      /\ \A i \in 1 .. N : sockets'[i] = sockets[i] /\ sockets[i] \in Conn
  <2>1. sockets \in Seq(Conn) /\ N = Len(sockets) /\ N' = Len(sockets')
    BY DEF SocketsOK, N
  <2> QED
    BY <1>1, <1>3, <2>1, AppendProperties
<1>5. fd[c] = 0 /\ 0 \notin Fd /\ FreeFd # 0
  BY <1>1, <1>2, Sizes
<1> HIDE DEF c
<1>6. /\ fd' \in [Conn -> {0} \cup Fd] /\ fd'[c] = FreeFd /\ \A b \in Conn : b # c => fd'[b] = fd[b]
  BY <1>1, <1>2, <1>3 DEF SocketsOK
<1>7. /\ sources' \in [Fd -> Conn \cup {NoConn}] /\ sources'[FreeFd] = c
      /\ \A f \in Fd : f # FreeFd => sources'[f] = sources[f]
  BY <1>1, <1>2, <1>3 DEF SocketsOK
<1>8. /\ backlog' \in Seq(Conn) /\ Len(backlog') = Len(backlog) - 1
      /\ \A i \in 1 .. Len(backlog') : backlog'[i] = backlog[i + 1] /\ i + 1 \in 1 .. Len(backlog)
  BY <1>1, <1>3, HeadTailProperties DEF PeersOK
<1>9. PeersOK'
  BY <1>8 DEF PeersOK
<1>10. ContextsOK'
  <2>1. EmptyContext \in [size : 0 .. MaxBuffer, data : Seq(Unit)]
    BY BufferAssumption DEF EmptyContext
  <2> QED
    BY <1>2, <1>3, <2>1 DEF ContextsOK
<1>11. \A i \in 1 .. N : /\ sockets[i] # c /\ fd[sockets[i]] \in Fd /\ fd[sockets[i]] # FreeFd
                         /\ sources[fd[sockets[i]]] = sockets[i]
  <2> TAKE i \in 1 .. N
  <2>1. sockets[i] \in Conn /\ fd[sockets[i]] \in Fd /\ sources[fd[sockets[i]]] = sockets[i]
    BY SocketIs
  <2> QED
    BY <1>2, <1>5, <2>1
<1>12. SocketsOK'
  <2>1. ASSUME NEW i \in 1 .. N', NEW j \in 1 .. N', i # j
        PROVE  sockets'[i] # sockets'[j] /\ fd'[sockets'[i]] # fd'[sockets'[j]]
    <3>1. (i = N + 1 \/ i \in 1 .. N) /\ (j = N + 1 \/ j \in 1 .. N)
      BY <1>4
    <3>2. \A k, l \in 1 .. N : k # l => sockets[k] # sockets[l] /\ fd[sockets[k]] # fd[sockets[l]]
      BY DEF SocketsOK
    <3> QED
      BY <1>4, <1>6, <1>11, <2>1, <3>1, <3>2
  <2>2. ASSUME NEW b \in Conn
        PROVE  fd'[b] # 0 <=> \E i \in 1 .. N' : sockets'[i] = b
    <3>1. fd[b] # 0 <=> \E i \in 1 .. N : sockets[i] = b
      BY DEF SocketsOK
    <3>2. (\E i \in 1 .. N' : sockets'[i] = b) <=> b = c \/ \E i \in 1 .. N : sockets[i] = b
      BY <1>4
    <3> QED
      BY <1>1, <1>5, <1>6, <3>1, <3>2
  <2>3. ASSUME NEW f \in Fd
        PROVE  sources'[f] = NoConn <=> \A b \in Conn : fd'[b] # f
    <3>1. sources[f] = NoConn <=> \A b \in Conn : fd[b] # f
      BY DEF SocketsOK
    <3> QED
      BY <1>1, <1>5, <1>6, <1>7, <3>1, Sizes
  <2>4. ASSUME NEW i \in 1 .. N' PROVE sources'[fd'[sockets'[i]]] = sockets'[i]
    <3>1. i = N + 1 \/ i \in 1 .. N
      BY <1>4
    <3> QED
      BY <1>4, <1>6, <1>7, <1>11, <3>1
  <2>5. N' <= Cardinality(Conn)
    BY <1>2, <1>4
  <2> QED
    BY <1>4, <1>6, <1>7, <2>1, <2>2, <2>3, <2>4, <2>5 DEF SocketsOK
<1>13. BacklogInv'
  <2>1. \A i, j \in 1 .. Len(backlog') : i # j => backlog'[i] # backlog'[j]
    BY <1>1, <1>8 DEF BacklogInv
  <2>2. ASSUME NEW i \in 1 .. Len(backlog')
        PROVE  fd'[backlog'[i]] = 0 /\ client'[backlog'[i]] # "idle"
    <3>1. backlog'[i] # c /\ backlog'[i] \in Conn
      <4>1. backlog'[i] = backlog[i + 1] /\ i + 1 \in 1 .. Len(backlog) /\ i + 1 # 1
        BY <1>1, <1>8
      <4>2. backlog'[i] \in Conn
        BY <1>8
      <4> QED
        BY <1>1, <4>1, <4>2 DEF BacklogInv
    <3> QED
      BY <1>6, <1>8, <3>1 DEF BacklogInv
  <2>3. \A b \in Conn : client'[b] = "idle" => fd'[b] = 0
    BY <1>1, <1>6 DEF BacklogInv
  <2> QED
    BY <2>1, <2>2, <2>3 DEF BacklogInv
<1> QED
  BY <1>1, <1>2, <1>3, <1>4, <1>6, <1>8, <1>9, <1>10, <1>12, <1>13 DEF c

\* Closing and removing a socket.
LEMMA RemoveAtIs ==
    ASSUME NEW S, NEW s \in Seq(S), NEW i \in 1 .. Len(s)
    PROVE  /\ RemoveAt(s, i) \in Seq(S) /\ Len(RemoveAt(s, i)) = Len(s) - 1
           /\ \A j \in 1 .. Len(s) - 1 : RemoveAt(s, i)[j] = IF j < i THEN s[j] ELSE s[j + 1]
<1> DEFINE x == SubSeq(s, 1, i - 1)
           y == SubSeq(s, i + 1, Len(s))
<1>1. Len(s) \in Nat /\ i \in Nat
  OBVIOUS
<1>2. /\ x \in Seq(S) /\ y \in Seq(S) /\ Len(x) = i - 1 /\ Len(y) = Len(s) - i
      /\ \A j \in 1 .. i - 1 : x[j] = s[j]
      /\ \A j \in 1 .. Len(s) - i : y[j] = s[i + j]
  <2>1. /\ x \in Seq(S) /\ Len(x) = i - 1 /\ \A j \in 1 .. i - 1 : x[j] = s[j]
    OBVIOUS
  <2>2. y \in Seq(S)
    OBVIOUS
  <2>3. Len(y) = Len(s) - i /\ \A j \in 1 .. Len(s) - i : y[j] = s[i + j]
    <3>1. i + 1 \in 1 .. Len(s) + 1 /\ Len(s) - (i + 1) + 1 = Len(s) - i
      BY <1>1
    <3>2. y = [j \in 1 .. Len(s) - i |-> s[j + (i + 1) - 1]]
      BY <1>1, <3>1
    <3> QED
      BY <1>1, <3>2
  <2> QED
    BY <2>1, <2>2, <2>3
<1> HIDE DEF x, y
<1>3. RemoveAt(s, i) = x \o y
  BY DEF RemoveAt, x, y
<1>4. /\ x \o y \in Seq(S) /\ Len(x \o y) = Len(x) + Len(y)
      /\ \A j \in 1 .. Len(x) + Len(y) : (x \o y)[j] = IF j <= Len(x) THEN x[j] ELSE y[j - Len(x)]
  BY <1>2, ConcatProperties
<1>5. ASSUME NEW j \in 1 .. Len(s) - 1
      PROVE  (x \o y)[j] = IF j < i THEN s[j] ELSE s[j + 1]
  <2>1. j \in 1 .. Len(x) + Len(y) /\ (j <= Len(x) <=> j < i)
    BY <1>1, <1>2
  <2>2. CASE j < i
    BY <1>1, <1>2, <1>4, <2>1, <2>2
  <2>3. CASE ~(j < i)
    <3>1. j - (i - 1) \in 1 .. Len(s) - i /\ i + (j - (i - 1)) = j + 1
      BY <1>1, <2>3
    <3> QED
      BY <1>2, <1>4, <2>1, <2>3, <3>1
  <2> QED
    BY <2>2, <2>3
<1> QED
  BY <1>1, <1>2, <1>3, <1>4, <1>5

LEMMA DelKeeps ==
    ASSUME PeersOK, SocketsOK, ContextsOK, BacklogInv, NEW i \in 1 .. N, lo_server_del_socket(i),
           UNCHANGED peers
    PROVE  /\ SocketsOK' /\ ContextsOK' /\ BacklogInv'
           /\ N' = N - 1 /\ shifted' \in BOOLEAN
           /\ \A j \in 1 .. N - 1 : sockets'[j] = IF j < i THEN sockets[j] ELSE sockets[j + 1]
           /\ fd'[sockets[i]] = 0 /\ \A c \in Conn : c # sockets[i] => fd'[c] = fd[c]
<1> DEFINE c == sockets[i]
           At(j) == IF j < i THEN j ELSE j + 1
<1>1. /\ c \in Conn /\ fd[c] \in Fd /\ N \in Nat /\ i \in 1 .. Cardinality(Conn) /\ sources[fd[c]] = c
      /\ i \in Nat
  BY SocketIs
<1>2. /\ sockets' = RemoveAt(sockets, i) /\ contexts' = [contexts EXCEPT ![i] = EmptyContext]
      /\ sources' = [sources EXCEPT ![fd[c]] = NoConn] /\ fd' = [fd EXCEPT ![c] = 0]
      /\ shifted' = (shifted \/ \E j \in i + 1 .. N : contexts[j].data # <<>>)
  BY DEF lo_server_del_socket
<1>3. /\ sockets' \in Seq(Conn) /\ N' = N - 1
      /\ \A j \in 1 .. N - 1 : sockets'[j] = IF j < i THEN sockets[j] ELSE sockets[j + 1]
  <2>1. sockets \in Seq(Conn) /\ N = Len(sockets) /\ N' = Len(sockets')
    BY DEF SocketsOK, N
  <2>2. PICK s \in Seq(Conn) : s = sockets
    BY <2>1
  <2>3. PICK k \in 1 .. Len(s) : k = i
    BY <2>1, <2>2
  <2>4. /\ RemoveAt(s, k) \in Seq(Conn) /\ Len(RemoveAt(s, k)) = Len(s) - 1
        /\ \A j \in 1 .. Len(s) - 1 : RemoveAt(s, k)[j] = IF j < k THEN s[j] ELSE s[j + 1]
    BY RemoveAtIs
  <2> QED
    BY <1>2, <2>1, <2>2, <2>3, <2>4
<1>4. \A j \in 1 .. N - 1 : At(j) \in 1 .. N /\ At(j) # i /\ sockets'[j] = sockets[At(j)]
  BY <1>1, <1>3
<1>5. \A k \in 1 .. N : k # i => \E j \in 1 .. N - 1 : At(j) = k
  <2> SUFFICES ASSUME NEW k \in 1 .. N, k # i PROVE \E j \in 1 .. N - 1 : At(j) = k
    OBVIOUS
  <2>1. CASE k < i
    <3>1. k \in 1 .. N - 1 /\ At(k) = k
      BY <1>1, <2>1
    <3> QED
      BY <3>1
  <2>2. CASE ~(k < i)
    <3>1. k - 1 \in 1 .. N - 1 /\ At(k - 1) = k
      BY <1>1, <2>2
    <3> QED
      BY <3>1
  <2> QED
    BY <2>1, <2>2
<1>6. \A j, k \in 1 .. N - 1 : j # k => At(j) # At(k)
  BY <1>1
<1> HIDE DEF c, At
<1>7. /\ fd' \in [Conn -> {0} \cup Fd] /\ fd'[c] = 0 /\ \A b \in Conn : b # c => fd'[b] = fd[b]
  BY <1>1, <1>2 DEF SocketsOK
<1>8. /\ sources' \in [Fd -> Conn \cup {NoConn}] /\ sources'[fd[c]] = NoConn
      /\ \A f \in Fd : f # fd[c] => sources'[f] = sources[f]
  BY <1>1, <1>2 DEF SocketsOK
<1>9. \A k \in 1 .. N : /\ sockets[k] \in Conn /\ fd[sockets[k]] \in Fd
                        /\ sources[fd[sockets[k]]] = sockets[k]
  BY SocketIs
<1>10. \A k, l \in 1 .. N : k # l => sockets[k] # sockets[l] /\ fd[sockets[k]] # fd[sockets[l]]
  BY DEF SocketsOK
<1>11. \A k \in 1 .. N : k # i => sockets[k] # c /\ fd[sockets[k]] # fd[c]
  BY <1>10 DEF c
<1>12. SocketsOK'
  <2>1. ASSUME NEW j \in 1 .. N', NEW k \in 1 .. N', j # k
        PROVE  sockets'[j] # sockets'[k] /\ fd'[sockets'[j]] # fd'[sockets'[k]]
    BY <1>3, <1>4, <1>6, <1>7, <1>9, <1>10, <1>11, <2>1
  <2>2. ASSUME NEW b \in Conn
        PROVE  fd'[b] # 0 <=> \E j \in 1 .. N' : sockets'[j] = b
    <3>1. fd[b] # 0 <=> \E k \in 1 .. N : sockets[k] = b
      BY DEF SocketsOK
    <3>2. CASE b = c
      BY <1>3, <1>4, <1>7, <1>11, <3>2
    <3>3. CASE b # c
      <4>1. (\E j \in 1 .. N' : sockets'[j] = b) <=> \E k \in 1 .. N : sockets[k] = b
        <5>1. ASSUME NEW k \in 1 .. N, sockets[k] = b PROVE \E j \in 1 .. N' : sockets'[j] = b
          <6>1. PICK j \in 1 .. N - 1 : At(j) = k
            BY <1>5, <3>3, <5>1 DEF c
          <6> QED
            BY <1>3, <1>4, <5>1, <6>1
        <5> QED
          BY <1>3, <1>4, <5>1
      <4> QED
        BY <1>7, <3>1, <3>3, <4>1
    <3> QED
      BY <3>2, <3>3
  <2>3. ASSUME NEW f \in Fd
        PROVE  sources'[f] = NoConn <=> \A b \in Conn : fd'[b] # f
    <3>1. sources[f] = NoConn <=> \A b \in Conn : fd[b] # f
      BY DEF SocketsOK
    <3>2. CASE f = fd[c]
      <4>1. ASSUME NEW b \in Conn, b # c PROVE fd[b] # fd[c]
        <5> SUFFICES ASSUME fd[b] = fd[c] PROVE FALSE
          OBVIOUS
        <5>1. fd[b] # 0
          BY <1>1, Sizes
        <5>2. PICK k \in 1 .. N : sockets[k] = b
          BY <5>1 DEF SocketsOK
        <5> QED
          BY <1>11, <4>1, <5>2 DEF c
      <4>2. f # 0
        BY Sizes
      <4> QED
        BY <1>7, <1>8, <3>2, <4>1, <4>2
    <3>3. CASE f # fd[c]
      <4>1. f # 0
        BY Sizes
      <4> QED
        BY <1>1, <1>7, <1>8, <3>1, <3>3, <4>1
    <3> QED
      BY <3>2, <3>3
  <2>4. ASSUME NEW j \in 1 .. N' PROVE sources'[fd'[sockets'[j]]] = sockets'[j]
    BY <1>3, <1>4, <1>7, <1>8, <1>9, <1>11
  <2>5. N' <= Cardinality(Conn)
    BY <1>1, <1>3, Sizes DEF SocketsOK
  <2> QED
    BY <1>3, <1>7, <1>8, <2>1, <2>2, <2>3, <2>4, <2>5 DEF SocketsOK
<1>13. ContextsOK'
  <2>1. EmptyContext \in [size : 0 .. MaxBuffer, data : Seq(Unit)]
    BY BufferAssumption DEF EmptyContext
  <2> QED
    BY <1>1, <1>2, <2>1 DEF ContextsOK
<1>14. BacklogInv'
  <2>1. UNCHANGED <<client, backlog>> /\ \A b \in Conn : fd[b] = 0 => fd'[b] = 0
    BY <1>7 DEF peers
  <2>2. \A k \in 1 .. Len(backlog) : backlog[k] \in Conn
    BY DEF PeersOK
  <2> QED
    BY <2>1, <2>2 DEF BacklogInv
<1>15. shifted' \in BOOLEAN
  BY <1>2
<1> QED
  BY <1>3, <1>7, <1>12, <1>13, <1>14, <1>15 DEF c

\* A message is given to its method, or to the queue.
LEMMA DispatchData ==
    ASSUME SocketsOK, MessagesOK, NEW d \in Seq(Unit), d # <<>>, NEW s \in Fd, dispatch_data(d, s)
    PROVE  /\ event' \in {NoEvent} \cup [msg : Message, sock : Fd, due : BOOLEAN]
           /\ handled' \subseteq [msg : Message, src : Conn \cup {NoConn}, connected : BOOLEAN]
           /\ pc' = "app"
<1>1. d[1][1] \in Message
  BY UnitIs
<1>2. sources[s] \in Conn \cup {NoConn}
  BY DEF SocketsOK
<1>3. pc' = "app"
  BY DEF dispatch_data
<1>4. CASE d[1][1] \notin Later /\ Handle(d[1][1], s, TRUE) /\ UNCHANGED event
  <2>1. [msg |-> d[1][1], src |-> sources[s], connected |-> TRUE]
          \in [msg : Message, src : Conn \cup {NoConn}, connected : BOOLEAN]
    BY <1>1, <1>2
  <2> QED
    BY <1>3, <1>4, <2>1 DEF Handle, MessagesOK
<1>5. CASE event' = [msg |-> d[1][1], sock |-> s, due |-> FALSE] /\ UNCHANGED handled
  BY <1>1, <1>3, <1>5 DEF MessagesOK
<1> QED
  BY <1>4, <1>5 DEF dispatch_data

LEMMA DispatchQueued ==
    ASSUME SocketsOK, MessagesOK, event.due, dispatch_queued
    PROVE  /\ event' \in {NoEvent} \cup [msg : Message, sock : Fd, due : BOOLEAN]
           /\ handled' \subseteq [msg : Message, src : Conn \cup {NoConn}, connected : BOOLEAN]
           /\ pc' = "app"
<1>1. event \in [msg : Message, sock : Fd, due : BOOLEAN]
  BY DEF MessagesOK, NoEvent
<1>2. sources[event.sock] \in Conn \cup {NoConn}
  BY <1>1 DEF SocketsOK
<1>3. [msg |-> event.msg, src |-> sources[event.sock], connected |-> fd[event.msg[1]] = event.sock]
        \in [msg : Message, src : Conn \cup {NoConn}, connected : BOOLEAN]
  BY <1>1, <1>2
<1> QED
  BY <1>3 DEF dispatch_queued, Handle, MessagesOK

\* The buffer whose message is dispatched: the first that holds one.
LEMMA WholeIs ==
    ASSUME SocketsOK, ContextsOK, DispatchBuffered
    PROVE  \E i \in 1 .. N :
              /\ contexts[i].data \in Seq(Unit) /\ contexts[i].size \in 0 .. MaxBuffer
              /\ lo_server_buffer_contains_msg(contexts[i].data) > 0
              /\ FirstMessage(contexts[i].data) \in Seq(Unit) /\ FirstMessage(contexts[i].data) # <<>>
              /\ dispatch_data(FirstMessage(contexts[i].data), fd[sockets[i]])
              /\ contexts' = [contexts EXCEPT ![i].data = Leftover(@)]
              /\ UNCHANGED <<peers, fd, sockets, sources>>
<1> DEFINE i == CHOOSE k \in Whole : \A j \in Whole : k <= j
<1>1. Whole \in SUBSET Nat /\ Whole # {} /\ N \in Nat
  BY DEF Whole, DispatchBuffered, SocketsOK, N
<1>2. i \in Whole
  BY <1>1, LeastNat
<1>3. /\ dispatch_data(FirstMessage(contexts[i].data), fd[sockets[i]])
      /\ contexts' = [contexts EXCEPT ![i].data = Leftover(@)]
      /\ UNCHANGED <<peers, fd, sockets, sources>>
  BY DEF DispatchBuffered
<1> HIDE DEF i
<1>4. i \in 1 .. N /\ lo_server_buffer_contains_msg(contexts[i].data) > 0
  BY <1>2 DEF Whole
<1>5. contexts[i] \in [size : 0 .. MaxBuffer, data : Seq(Unit)]
  BY <1>4, SocketIs DEF ContextsOK
<1>6. FirstMessage(contexts[i].data) \in Seq(Unit) /\ FirstMessage(contexts[i].data) # <<>>
  BY <1>4, <1>5, FirstMessageIs
<1> QED
  BY <1>3, <1>4, <1>5, <1>6

LEMMA BufferedKeeps ==
    ASSUME TableInv, data = <<>>, DispatchBuffered, UNCHANGED <<errno, scan, dropped, accepted, shifted>>
    PROVE  TableInv'
<1>1. PeersOK /\ SocketsOK /\ ContextsOK /\ MessagesOK /\ PlaceOK /\ BacklogInv /\ HandInv
  BY TableParts
<1>2. PICK i \in 1 .. N :
        /\ contexts[i].data \in Seq(Unit) /\ contexts[i].size \in 0 .. MaxBuffer
        /\ FirstMessage(contexts[i].data) \in Seq(Unit) /\ FirstMessage(contexts[i].data) # <<>>
        /\ dispatch_data(FirstMessage(contexts[i].data), fd[sockets[i]])
        /\ contexts' = [contexts EXCEPT ![i].data = Leftover(@)]
        /\ UNCHANGED <<peers, fd, sockets, sources>>
  BY <1>1, WholeIs
<1>3. fd[sockets[i]] \in Fd /\ i \in 1 .. Cardinality(Conn)
  BY <1>1, SocketIs
<1>4. /\ event' \in {NoEvent} \cup [msg : Message, sock : Fd, due : BOOLEAN]
      /\ handled' \subseteq [msg : Message, src : Conn \cup {NoConn}, connected : BOOLEAN]
      /\ pc' = "app"
  BY <1>1, <1>2, <1>3, DispatchData
<1>5. contexts' = [contexts EXCEPT ![i] =
                       [size |-> contexts[i].size, data |-> Leftover(contexts[i].data)]]
  <2>1. contexts[i] \in [size : 0 .. MaxBuffer, data : Seq(Unit)]
    BY <1>1, <1>3 DEF ContextsOK
  <2>2. contexts' = [contexts EXCEPT ![i] = [contexts[i] EXCEPT !.data = Leftover(contexts[i].data)]]
    BY <1>2
  <2>3. \A x : [contexts[i] EXCEPT !.data = x] = [size |-> contexts[i].size, data |-> x]
    BY <2>1
  <2> QED
    BY <2>2, <2>3
<1>6. ContextsOK'
  <2>1. Leftover(contexts[i].data) \in Seq(Unit)
    BY <1>2, FirstMessageIs
  <2> QED
    BY <1>1, <1>2, <1>3, <1>5, <2>1 DEF ContextsOK
<1>7. PeersOK' /\ SocketsOK' /\ BacklogInv' /\ N' = N
  BY <1>1, <1>2 DEF PeersOK, SocketsOK, BacklogInv, N, peers
<1>8. MessagesOK'
  BY <1>1, <1>4 DEF MessagesOK, scan
<1>9. PlaceOK' /\ HandInv'
  BY <1>1, <1>2, <1>4, <1>7 DEF PlaceOK, HandInv, scan
<1> QED
  BY <1>6, <1>7, <1>8, <1>9, TablePartsNext

\* Steps that change no socket, buffer or message.
LEMMA WaitsKeep ==
    ASSUME TableInv, UNCHANGED <<peers, table, event, handled, errno, dropped, shifted>>,
           pc' \in {"app", "wait", "poll", "raw", "scan", "spin", "undefined"}, accepted' \in BOOLEAN,
           \/ UNCHANGED scan /\ (data = <<>> \/ pc' \in {"scan", "spin", "undefined"})
           \/ data' = <<>> /\ ready' \subseteq 0 .. N /\ failed' \subseteq Nat \ {0} /\ sock' \in {0} \cup Fd
    PROVE  TableInv'
<1>1. PeersOK /\ SocketsOK /\ ContextsOK /\ MessagesOK /\ PlaceOK /\ BacklogInv /\ HandInv
  BY TableParts
<1>2. PeersOK' /\ SocketsOK' /\ ContextsOK' /\ BacklogInv' /\ N' = N
  BY <1>1, TableUnchanged
<1>3. MessagesOK'
  <2>1. data' = data \/ data' = <<>>
    BY DEF scan
  <2>2. data' \in Seq(Unit)
    <3>1. data \in Seq(Unit) /\ <<>> \in Seq(Unit)
      BY <1>1 DEF MessagesOK
    <3> QED
      BY <2>1, <3>1
  <2> QED
    BY <1>1, <2>2 DEF MessagesOK
<1>4. PlaceOK' /\ HandInv'
  BY <1>1, <1>2 DEF PlaceOK, HandInv, scan, table
<1> QED
  BY <1>2, <1>3, <1>4, TablePartsNext

LEMMA QueuedKeeps ==
    ASSUME TableInv, data = <<>>, event.due, dispatch_queued,
           UNCHANGED <<peers, table, errno, scan, dropped, accepted, shifted>>
    PROVE  TableInv'
<1>1. PeersOK /\ SocketsOK /\ ContextsOK /\ MessagesOK /\ PlaceOK /\ BacklogInv /\ HandInv
  BY TableParts
<1>2. /\ event' \in {NoEvent} \cup [msg : Message, sock : Fd, due : BOOLEAN]
      /\ handled' \subseteq [msg : Message, src : Conn \cup {NoConn}, connected : BOOLEAN]
      /\ pc' = "app"
  BY <1>1, DispatchQueued
<1>3. PeersOK' /\ SocketsOK' /\ ContextsOK' /\ BacklogInv' /\ N' = N
  BY <1>1, TableUnchanged
<1>4. MessagesOK' /\ PlaceOK' /\ HandInv'
  BY <1>1, <1>2, <1>3 DEF MessagesOK, PlaceOK, HandInv, scan, table
<1> QED
  BY <1>3, <1>4, TablePartsNext

LEMMA RecvKeeps ==
    ASSUME TableInv, data = <<>>, Recv, UNCHANGED <<errno, scan, dropped, accepted, shifted>>
    PROVE  TableInv'
<1>1. CASE event.due /\ dispatch_queued /\ UNCHANGED <<peers, table>>
  BY <1>1, QueuedKeeps
<1>2. CASE DispatchBuffered
  BY <1>2, BufferedKeeps
<1>3. CASE pc' = "poll" /\ UNCHANGED <<peers, table, event, handled>>
  <2>1. accepted' \in BOOLEAN
    BY TableParts DEF PlaceOK
  <2> QED
    BY <1>3, <2>1, WaitsKeep
<1> QED
  BY <1>1, <1>2, <1>3 DEF Recv

\* The socket the loop looks at is the last one left.
LEMMA ScanIs ==
    ASSUME SocketsOK, PlaceOK, ready # {}
    PROVE  /\ N \in Nat /\ Scan \in ready /\ Scan \in 0 .. N
           /\ \A r \in ready \ {Scan} : r < Scan
           /\ Reading => Scan \in 1 .. N /\ Peer = sockets[Scan]
<1>1. N \in Nat /\ ready \in SUBSET (0 .. N)
  BY DEF SocketsOK, N, PlaceOK
<1>2. \E i \in ready : \A j \in ready : j <= i
  BY <1>1, GreatestNat
<1>3. Scan \in ready /\ \A j \in ready : j <= Scan
  BY <1>2 DEF Scan
<1>4. \A r \in ready \ {Scan} : r < Scan
  BY <1>1, <1>3
<1>5. Reading => Scan # 0
  BY DEF Reading
<1> QED
  BY <1>1, <1>3, <1>4, <1>5 DEF Peer

\* The buffer that is read into, its size, and the descriptor it is read from.
LEMMA ReadingIs ==
    ASSUME SocketsOK, ContextsOK, PlaceOK, Reading
    PROVE  /\ N \in Nat /\ Scan \in ready /\ Scan \in 1 .. N /\ Scan \in 1 .. Cardinality(Conn)
           /\ \A r \in ready \ {Scan} : r < Scan
           /\ Peer = sockets[Scan] /\ Peer \in Conn /\ fd[Peer] \in Fd
           /\ contexts[Scan] \in [size : 0 .. MaxBuffer, data : Seq(Unit)]
           /\ Size \in 0 .. MaxBuffer /\ (Size # 0 => Left \in Nat /\ Enough(Size, Len(contexts[Scan].data)))
           /\ Size = 0 => ~Enough(MaxBuffer, Len(contexts[Scan].data))
<1>1. /\ N \in Nat /\ Scan \in ready /\ Scan \in 1 .. N /\ Peer = sockets[Scan]
      /\ \A r \in ready \ {Scan} : r < Scan
  BY ScanIs DEF Reading, Scanning
<1>2. Peer \in Conn /\ fd[Peer] \in Fd /\ Scan \in 1 .. Cardinality(Conn)
  BY <1>1, SocketIs
<1>3. contexts[Scan] \in [size : 0 .. MaxBuffer, data : Seq(Unit)]
  BY <1>2 DEF ContextsOK
<1>4. PICK used \in Nat, size \in 0 .. MaxBuffer : used = Len(contexts[Scan].data) /\ size = contexts[Scan].size
  BY <1>3
<1>5. Size = BufferSize(size, used) /\ Left = Size - used
  BY <1>4 DEF Size, Left
<1>6. /\ Size \in 0 .. MaxBuffer
      /\ Size # 0 => Enough(Size, used)
      /\ Size = 0 => ~Enough(MaxBuffer, used)
  BY <1>5, BufferSizeIs
<1>7. Size # 0 => Left \in Nat
  BY <1>5, <1>6, BufferAssumption DEF Enough
<1> QED
  BY <1>1, <1>2, <1>3, <1>4, <1>6, <1>7

LEMMA DroppedIs ==
    ASSUME MessagesOK
    PROVE  Dropped \subseteq Message
<1>1. data # <<>> => data[1] \in Unit
  BY DEF MessagesOK
<1>2. data # <<>> => data[1][1] \in Message
  BY <1>1, UnitIs
<1> QED
  BY <1>2 DEF Dropped, MessagesOK

\* Removing the socket the loop looks at leaves the ones it has not come to.
LEMMA DelScanKeeps ==
    ASSUME TableInv, Scanning, Scan # 0, lo_server_del_socket(Scan), UNCHANGED <<peers, event, handled>>,
           ready' = ready \ {Scan}, failed' = failed, pc' = pc, accepted' = accepted, errno' \in BOOLEAN,
           \/ UNCHANGED <<data, sock, dropped>>
           \/ Begin
    PROVE  TableInv'
<1>1. PeersOK /\ SocketsOK /\ ContextsOK /\ MessagesOK /\ PlaceOK /\ BacklogInv /\ HandInv
  BY TableParts
<1>2. N \in Nat /\ Scan \in ready /\ Scan \in 1 .. N /\ \A r \in ready \ {Scan} : r < Scan
  BY <1>1, ScanIs DEF Scanning
<1>3. /\ SocketsOK' /\ ContextsOK' /\ BacklogInv' /\ N' = N - 1 /\ shifted' \in BOOLEAN
      /\ \A j \in 1 .. N - 1 : sockets'[j] = IF j < Scan THEN sockets[j] ELSE sockets[j + 1]
      /\ fd'[sockets[Scan]] = 0 /\ \A c \in Conn : c # sockets[Scan] => fd'[c] = fd[c]
  BY <1>1, <1>2, DelKeeps
<1>4. PeersOK'
  BY <1>1 DEF PeersOK, peers
<1>5. Peer = sockets[Scan] /\ fd[Peer] \in Fd
  BY <1>1, <1>2, SocketIs DEF Peer
<1>6. (UNCHANGED data \/ data' = <<>>) /\ sock' \in {0} \cup Fd /\ dropped' \subseteq Message
  BY <1>1, <1>5, DroppedIs DEF Begin, PlaceOK, MessagesOK
<1>7. MessagesOK'
  <2>1. <<>> \in Seq(Unit) /\ data \in Seq(Unit)
    BY <1>1 DEF MessagesOK
  <2>2. data' \in Seq(Unit)
    BY <1>6, <2>1
  <2> QED
    BY <1>1, <1>6, <2>2 DEF MessagesOK
<1>8. PlaceOK'
  <2>1. ready \subseteq 0 .. N
    BY <1>1 DEF PlaceOK
  <2>2. ready' \subseteq 0 .. N - 1
    BY <1>2, <2>1
  <2> QED
    BY <1>1, <1>3, <1>6, <2>2 DEF PlaceOK
<1>9. HandInv'
  <2> SUFFICES ASSUME data' # <<>> PROVE HandInv'
    BY DEF HandInv
  <2>1. UNCHANGED <<data, sock>>
    BY DEF Begin
  <2>2. sock # 0 /\ pc' \in {"scan", "spin", "undefined"}
    BY <1>1, <2>1 DEF HandInv
  <2>3. PICK i \in 1 .. N : fd[sockets[i]] = sock /\ \A r \in ready : r < i
    BY <1>1, <2>1 DEF HandInv
  <2>4. i - 1 \in 1 .. N - 1 /\ Scan < i /\ ~(i - 1 < Scan) /\ i # Scan
    BY <1>2, <2>3
  <2>5. sockets'[i - 1] = sockets[i]
    BY <1>2, <1>3, <2>4
  <2>6. sockets[i] # sockets[Scan] /\ sockets[i] \in Conn
    BY <1>1, <1>2, <2>4, SocketIs DEF SocketsOK
  <2>7. fd'[sockets'[i - 1]] = sock'
    BY <1>3, <2>1, <2>3, <2>5, <2>6
  <2>8. \A r \in ready' : r < i - 1
    <3>1. \A r \in ready' : r \in 0 .. N /\ r < Scan
      BY <1>1, <1>2 DEF PlaceOK
    <3> QED
      BY <1>2, <2>4, <3>1
  <2> QED
    BY <1>3, <2>1, <2>2, <2>4, <2>7, <2>8 DEF HandInv
<1> QED
  BY <1>3, <1>4, <1>7, <1>8, <1>9, TablePartsNext

\* recv returns data.
LEMMA ReadDataKeeps ==
    ASSUME TableInv, ReadData
    PROVE  TableInv'
<1>1. PeersOK /\ SocketsOK /\ ContextsOK /\ MessagesOK /\ PlaceOK /\ BacklogInv /\ HandInv
  BY TableParts
<1> DEFINE n == IF Len(wire[Peer]) < Left THEN Len(wire[Peer]) ELSE Left
           all == contexts[Scan].data \o SubSeq(wire[Peer], 1, n)
           whole == lo_server_buffer_contains_msg(all) > 0
           kept == IF whole THEN Leftover(all) ELSE all
<1>2. /\ N \in Nat /\ Scan \in ready /\ Scan \in 1 .. N /\ Scan \in 1 .. Cardinality(Conn)
      /\ \A r \in ready \ {Scan} : r < Scan
      /\ Peer = sockets[Scan] /\ Peer \in Conn /\ fd[Peer] \in Fd
      /\ contexts[Scan].data \in Seq(Unit)
      /\ Size \in 0 .. MaxBuffer /\ Left \in Nat
  BY <1>1, ReadingIs DEF ReadData
<1>3. /\ wire' = [wire EXCEPT ![Peer] = SubSeq(@, n + 1, Len(@))]
      /\ contexts' = [contexts EXCEPT ![Scan] = [size |-> Size, data |-> kept]]
      /\ data' = FirstMessage(all)
      /\ ready' = IF ~whole /\ n = Left THEN ready ELSE ready \ {Scan}
      /\ dropped' = Dropped /\ sock' = fd[Peer]
      /\ UNCHANGED <<client, unsent, backlog, fd, sockets, sources, event, errno, pc, failed,
                     handled, accepted, shifted>>
  BY DEF ReadData
<1>4. wire[Peer] \in Seq(Unit) /\ n \in 0 .. Len(wire[Peer])
  BY <1>1, <1>2 DEF PeersOK
<1> HIDE DEF n
<1>5. SubSeq(wire[Peer], n + 1, Len(wire[Peer])) \in Seq(Unit) /\ SubSeq(wire[Peer], 1, n) \in Seq(Unit)
  BY <1>4
<1>6. all \in Seq(Unit)
  BY <1>2, <1>5, ConcatProperties
<1> HIDE DEF all
<1>7. /\ FirstMessage(all) \in Seq(Unit) /\ kept \in Seq(Unit)
      /\ FirstMessage(all) = <<>> <=> ~whole
  <2>1. PICK d \in Seq(Unit) : d = all
    BY <1>6
  <2>2. lo_server_buffer_contains_msg(d) \in 0 .. Len(d)
    BY ContainsIs
  <2>3. /\ FirstMessage(d) \in Seq(Unit) /\ Leftover(d) \in Seq(Unit)
        /\ FirstMessage(d) = <<>> <=> lo_server_buffer_contains_msg(d) = 0
    BY FirstMessageIs
  <2> QED
    BY <2>1, <2>2, <2>3
<1> HIDE DEF whole, kept
<1>8. PeersOK'
  BY <1>1, <1>2, <1>3, <1>5 DEF PeersOK
<1>9. SocketsOK' /\ BacklogInv' /\ N' = N
  BY <1>1, <1>3 DEF SocketsOK, BacklogInv, N
<1>10. ContextsOK'
  BY <1>1, <1>2, <1>3, <1>7 DEF ContextsOK
<1>11. MessagesOK'
  BY <1>1, <1>3, <1>7, DroppedIs DEF MessagesOK
<1>12. PlaceOK'
  BY <1>1, <1>2, <1>3, <1>9 DEF PlaceOK
<1>13. HandInv'
  <2> SUFFICES ASSUME data' # <<>>
               PROVE  sock' # 0 /\ \E i \in 1 .. N' : fd'[sockets'[i]] = sock' /\ \A r \in ready' : r < i
    BY <1>3 DEF HandInv, ReadData, Reading, Scanning
  <2>1. ready' = ready \ {Scan}
    BY <1>3, <1>7
  <2> QED
    BY <1>2, <1>3, <1>9, <2>1, Sizes
<1> QED
  BY <1>8, <1>9, <1>10, <1>11, <1>12, <1>13, TablePartsNext

\* recv returns none, and the socket stays in the table.
LEMMA ReadNoneKeeps ==
    ASSUME TableInv, Reading, contexts' = [contexts EXCEPT ![Scan].size = Size], ready' = ready \ {Scan}, Begin,
           errno' \in BOOLEAN,
           UNCHANGED <<peers, fd, sockets, sources, event, pc, failed, handled, accepted, shifted>>
    PROVE  TableInv'
<1>1. PeersOK /\ SocketsOK /\ ContextsOK /\ MessagesOK /\ PlaceOK /\ BacklogInv /\ HandInv
  BY TableParts
<1>2. /\ Scan \in 1 .. Cardinality(Conn) /\ fd[Peer] \in Fd /\ Size \in 0 .. MaxBuffer
      /\ contexts[Scan] \in [size : 0 .. MaxBuffer, data : Seq(Unit)]
  BY <1>1, ReadingIs
<1>3. PeersOK' /\ SocketsOK' /\ BacklogInv' /\ N' = N
  BY <1>1 DEF PeersOK, SocketsOK, BacklogInv, N, peers
<1>4. ContextsOK'
  <2>1. contexts' = [contexts EXCEPT ![Scan] = [contexts[Scan] EXCEPT !.size = Size]]
    OBVIOUS
  <2>2. [contexts[Scan] EXCEPT !.size = Size] \in [size : 0 .. MaxBuffer, data : Seq(Unit)]
    BY <1>2
  <2> QED
    BY <1>1, <1>2, <2>1, <2>2 DEF ContextsOK
<1>5. MessagesOK'
  <2>1. data' \in Seq(Unit)
    BY DEF Begin
  <2> QED
    BY <1>1, <2>1, DroppedIs DEF MessagesOK, Begin
<1>6. PlaceOK' /\ HandInv'
  BY <1>1, <1>2, <1>3 DEF PlaceOK, HandInv, Begin
<1> QED
  BY <1>3, <1>4, <1>5, <1>6, TablePartsNext

LEMMA InitTableInv == Init => TableInv
<1> SUFFICES ASSUME Init PROVE TableInv
  OBVIOUS
<1>1. PeersOK
  BY StreamIs DEF Init, PeersOK
<1>2. N = 0 /\ 1 .. N = {}
  BY DEF Init, N
<1>3. SocketsOK
  <2>1. fd \in [Conn -> {0} \cup Fd] /\ sockets \in Seq(Conn) /\ sources \in [Fd -> Conn \cup {NoConn}]
    BY DEF Init
  <2>2. N <= Cardinality(Conn)
    BY <1>2, Sizes
  <2>3. \A f \in Fd : sources[f] = NoConn /\ f # 0
    BY Sizes DEF Init
  <2>4. \A c \in Conn : fd[c] = 0
    BY DEF Init
  <2> QED
    BY <1>2, <2>1, <2>2, <2>3, <2>4 DEF SocketsOK
<1>4. ContextsOK
  BY BufferAssumption DEF Init, ContextsOK, EmptyContext
<1>5. MessagesOK
  BY DEF Init, MessagesOK
<1>6. PlaceOK
  BY DEF Init, PlaceOK
<1>7. BacklogInv /\ HandInv
  BY DEF Init, BacklogInv, HandInv
<1> QED
  BY <1>1, <1>3, <1>4, <1>5, <1>6, <1>7, TableParts

\* What the clients do.
LEMMA ClientsKeep ==
    ASSUME TableInv, Clients
    PROVE  TableInv'
<1>1. PeersOK /\ SocketsOK /\ ContextsOK /\ MessagesOK /\ PlaceOK /\ BacklogInv /\ HandInv
  BY TableParts
<1>2. PICK c \in Conn : Connect(c) \/ Send(c) \/ Close(c) \/ Reset(c)
  BY DEF Clients
<1>3. UNCHANGED <<table, event, errno, pc, scan, handled, dropped, accepted, shifted>>
  BY DEF Clients
<1>4. SocketsOK' /\ ContextsOK' /\ MessagesOK' /\ PlaceOK' /\ HandInv'
  BY <1>1, <1>3 DEF SocketsOK, N, ContextsOK, MessagesOK, PlaceOK, HandInv, table, scan
<1>5. UNCHANGED fd
  BY <1>3 DEF table
<1>6. CASE Connect(c)
  <2>1. /\ client[c] = "idle" /\ client' = [client EXCEPT ![c] = "open"] /\ fd[c] = 0
        /\ backlog' = Append(backlog, c) /\ UNCHANGED <<unsent, wire>>
    BY <1>1, <1>6 DEF Connect, BacklogInv
  <2>2. /\ backlog' \in Seq(Conn) /\ Len(backlog) \in Nat /\ Len(backlog') = Len(backlog) + 1
        /\ backlog'[Len(backlog) + 1] = c
        /\ \A i \in 1 .. Len(backlog) : backlog'[i] = backlog[i] /\ backlog[i] \in Conn /\ backlog[i] # c
    BY <1>1, <2>1, AppendProperties DEF PeersOK, BacklogInv
  <2>3. client' \in [Conn -> {"idle", "open", "closed", "reset"}] /\ client'[c] = "open"
        /\ \A b \in Conn : b # c => client'[b] = client[b]
    BY <1>1, <2>1 DEF PeersOK
  <2>4. PeersOK'
    BY <1>1, <2>1, <2>2, <2>3 DEF PeersOK
  <2>5. \A i \in 1 .. Len(backlog') : i = Len(backlog) + 1 \/ i \in 1 .. Len(backlog)
    BY <2>2
  <2>6. BacklogInv'
    <3>1. \A i, j \in 1 .. Len(backlog') : i # j => backlog'[i] # backlog'[j]
      BY <1>1, <2>2, <2>5 DEF BacklogInv
    <3>2. \A i \in 1 .. Len(backlog') : fd'[backlog'[i]] = 0 /\ client'[backlog'[i]] # "idle"
      BY <1>1, <1>5, <2>1, <2>2, <2>3, <2>5 DEF BacklogInv
    <3>3. \A b \in Conn : client'[b] = "idle" => fd'[b] = 0
      BY <1>1, <1>5, <2>3 DEF BacklogInv
    <3> QED
      BY <3>1, <3>2, <3>3 DEF BacklogInv
  <2> QED
    BY <1>4, <2>4, <2>6, TablePartsNext
<1>7. CASE Send(c)
  <2>1. PICK n \in 1 .. Len(unsent[c]) :
          /\ wire' = [wire EXCEPT ![c] = @ \o SubSeq(unsent[c], 1, n)]
          /\ unsent' = [unsent EXCEPT ![c] = SubSeq(@, n + 1, Len(@))]
          /\ UNCHANGED <<client, backlog>>
    BY <1>7 DEF Send
  <2>2. unsent[c] \in Seq(Unit) /\ wire[c] \in Seq(Unit)
    BY <1>1 DEF PeersOK
  <2>3. SubSeq(unsent[c], 1, n) \in Seq(Unit) /\ SubSeq(unsent[c], n + 1, Len(unsent[c])) \in Seq(Unit)
    BY <2>2
  <2>4. wire[c] \o SubSeq(unsent[c], 1, n) \in Seq(Unit)
    BY <2>2, <2>3, ConcatProperties
  <2>5. PeersOK'
    BY <1>1, <2>1, <2>3, <2>4 DEF PeersOK
  <2>6. BacklogInv'
    BY <1>1, <1>5, <2>1 DEF BacklogInv
  <2> QED
    BY <1>4, <2>5, <2>6, TablePartsNext
<1>8. CASE Close(c) \/ Reset(c)
  <2>1. /\ client[c] # "idle" /\ client'[c] # "idle" /\ \A b \in Conn : b # c => client'[b] = client[b]
        /\ UNCHANGED backlog /\ client' \in [Conn -> {"idle", "open", "closed", "reset"}]
    BY <1>1, <1>8 DEF Close, Reset, PeersOK
  <2>2. unsent' \in [Conn -> Seq(Unit)] /\ wire' \in [Conn -> Seq(Unit)]
    <3>1. unsent \in [Conn -> Seq(Unit)] /\ wire \in [Conn -> Seq(Unit)] /\ <<>> \in Seq(Unit)
      BY <1>1 DEF PeersOK
    <3>2. CASE Close(c)
      BY <3>1, <3>2 DEF Close
    <3>3. CASE Reset(c)
      BY <3>1, <3>3 DEF Reset
    <3> QED
      BY <1>8, <3>2, <3>3
  <2>3. PeersOK'
    BY <1>1, <2>1, <2>2 DEF PeersOK
  <2>4. BacklogInv'
    <3>1. \A i \in 1 .. Len(backlog) : backlog[i] \in Conn
      BY <1>1 DEF PeersOK
    <3> QED
      BY <1>1, <1>5, <2>1, <3>1 DEF BacklogInv
  <2> QED
    BY <1>4, <2>3, <2>4, TablePartsNext
<1> QED
  BY <1>2, <1>6, <1>7, <1>8

LEMMA AcceptTable ==
    ASSUME TableInv, Accept, UNCHANGED <<client, unsent, wire, event, errno, handled, shifted>>,
           pc' \in {"wait", "raw"}, accepted' \in BOOLEAN, dropped' \subseteq Message,
           \/ UNCHANGED scan /\ data = <<>>
           \/ data' = <<>> /\ ready' = {} /\ failed' = {} /\ sock' = fd'[Head(backlog)]
    PROVE  TableInv'
<1>1. PeersOK /\ SocketsOK /\ ContextsOK /\ MessagesOK /\ PlaceOK /\ BacklogInv /\ HandInv
  BY TableParts
<1>2. /\ PeersOK' /\ SocketsOK' /\ ContextsOK' /\ BacklogInv' /\ N' = N + 1 /\ N \in Nat
      /\ fd'[Head(backlog)] \in Fd
  <2>1. /\ PeersOK' /\ SocketsOK' /\ ContextsOK' /\ BacklogInv' /\ N' = N + 1
        /\ fd'[Head(backlog)] \in Fd
    BY <1>1, AcceptKeeps
  <2>2. N \in Nat
    BY <1>1 DEF SocketsOK, N
  <2> QED
    BY <2>1, <2>2
<1>4. MessagesOK'
  <2>1. data \in Seq(Unit) /\ <<>> \in Seq(Unit) /\ (data' = data \/ data' = <<>>)
    BY <1>1 DEF MessagesOK, scan
  <2> QED
    BY <1>1, <2>1 DEF MessagesOK
<1>5. PlaceOK'
  <2>1. ready' \subseteq 0 .. N /\ failed' \subseteq Nat \ {0} /\ sock' \in {0} \cup Fd
    BY <1>1, <1>2 DEF PlaceOK, scan
  <2>2. 0 .. N \subseteq 0 .. N'
    BY <1>2
  <2> QED
    BY <1>1, <2>1, <2>2 DEF PlaceOK
<1>6. HandInv'
  BY DEF HandInv, scan
<1> QED
  BY <1>2, <1>4, <1>5, <1>6, TablePartsNext

LEMMA NextTableInv == TableInv /\ [Next]_vars => TableInv'
<1> SUFFICES ASSUME TableInv, [Next]_vars PROVE TableInv'
  OBVIOUS
<1> DEFINE PCs == {"app", "wait", "poll", "raw", "scan", "spin", "undefined"}
<1>1. PeersOK /\ SocketsOK /\ ContextsOK /\ MessagesOK /\ PlaceOK /\ BacklogInv /\ HandInv
  BY TableParts
<1>2. pc \in PCs /\ accepted \in BOOLEAN /\ errno \in BOOLEAN
  BY <1>1 DEF PlaceOK
<1>3. pc \in {"app", "wait", "poll", "raw"} => data = <<>>
  BY <1>1 DEF HandInv
<1>4. CASE lo_server_recv
  BY <1>4, <1>3, RecvKeeps DEF lo_server_recv
<1>5. CASE lo_server_recv_noblock
  <2>1. CASE Recv
    BY <1>5, <1>3, <2>1, RecvKeeps DEF lo_server_recv_noblock
  <2>2. CASE pc' = "wait" /\ UNCHANGED <<peers, table, event, handled>>
    BY <1>2, <1>5, <1>3, <2>2, WaitsKeep DEF lo_server_recv_noblock
  <2> QED
    BY <1>5, <2>1, <2>2 DEF lo_server_recv_noblock
<1>6. CASE WaitAccept
  <2>1. dropped' \subseteq Message /\ pc' = "wait"
    BY <1>1, <1>6 DEF WaitAccept, MessagesOK
  <2> QED
    BY <1>2, <1>6, <1>3, <2>1, AcceptTable DEF WaitAccept
<1>7. CASE WaitReady
  BY <1>7, <1>3, RecvKeeps DEF WaitReady
<1>8. CASE WaitNothing \/ PollFailed
  BY <1>2, <1>8, <1>3, WaitsKeep DEF WaitNothing, PollFailed
<1>9. CASE PollTimeout
  BY <1>9, <1>3, QueuedKeeps DEF PollTimeout
<1>10. CASE PollReady
  <2>1. ready' \subseteq 0 .. N /\ failed' \subseteq Nat \ {0} /\ sock' \in {0} \cup Fd
    BY <1>1, <1>10 DEF PollReady, PlaceOK
  <2> QED
    BY <1>2, <1>10, <2>1, WaitsKeep DEF PollReady
<1>11. CASE RawBuffered
  BY <1>11, <1>3, BufferedKeeps DEF RawBuffered
<1>12. CASE RawPoll
  <2>1. Ready \subseteq 0 .. N /\ Failed \subseteq Nat \ {0}
    BY <1>1 DEF Ready, Failed, SocketsOK, N
  <2>2. PeersOK' /\ SocketsOK' /\ ContextsOK' /\ BacklogInv' /\ N' = N
    BY <1>1, <1>12, TableUnchanged DEF RawPoll
  <2>3. MessagesOK' /\ PlaceOK'
    BY <1>1, <1>12, <2>1, <2>2 DEF RawPoll, MessagesOK, PlaceOK
  <2>4. HandInv'
    BY <1>12, <1>3 DEF RawPoll, HandInv
  <2> QED
    BY <2>2, <2>3, <2>4, TablePartsNext
<1>13. CASE ScanFailed
  <2>1. Scan # 0
    BY <1>1, <1>13 DEF ScanFailed, PlaceOK
  <2> QED
    BY <1>2, <1>13, <2>1, DelScanKeeps DEF ScanFailed
<1>14. CASE ScanAccept
  <2>1. dropped' \subseteq Message
    BY <1>1, <1>14, DroppedIs DEF ScanAccept
  <2> QED
    BY <1>2, <1>14, <2>1, AcceptTable DEF ScanAccept
<1>15. CASE ScanEnd
  <2>1. PeersOK' /\ SocketsOK' /\ ContextsOK' /\ BacklogInv' /\ N' = N
    BY <1>1, <1>15, TableUnchanged DEF ScanEnd
  <2>2. /\ event' \in {NoEvent} \cup [msg : Message, sock : Fd, due : BOOLEAN]
        /\ handled' \subseteq [msg : Message, src : Conn \cup {NoConn}, connected : BOOLEAN]
        /\ pc' = "app"
    <3>1. CASE data = <<>> /\ pc' = "app" /\ UNCHANGED <<event, handled>>
      BY <1>1, <3>1 DEF MessagesOK
    <3>2. CASE data # <<>> /\ dispatch_data(data, sock)
      <4>1. data \in Seq(Unit) /\ sock \in Fd
        BY <1>1, <3>2 DEF MessagesOK, HandInv, PlaceOK
      <4> QED
        BY <1>1, <3>2, <4>1, DispatchData
    <3> QED
      BY <1>15, <3>1, <3>2 DEF ScanEnd
  <2>3. data' = <<>> /\ failed' = {} /\ sock' = 0 /\ UNCHANGED <<table, errno, ready, dropped, accepted, shifted>>
    BY <1>15 DEF ScanEnd
  <2>4. MessagesOK' /\ PlaceOK' /\ HandInv'
    BY <1>1, <2>1, <2>2, <2>3 DEF MessagesOK, PlaceOK, HandInv
  <2> QED
    BY <2>1, <2>4, TablePartsNext
<1>16. CASE ReadSpin \/ AcceptFails
  BY <1>2, <1>16, WaitsKeep DEF ReadSpin, AcceptFails
<1>17. CASE ReadData
  BY <1>17, ReadDataKeeps
<1>18. CASE ReadAgain
  BY <1>18, ReadNoneKeeps DEF ReadAgain
<1>19. CASE ReadStale
  BY <1>2, <1>19, ReadNoneKeeps DEF ReadStale
<1>20. CASE ReadEnd
  <2>1. Scanning /\ Scan # 0 /\ errno' \in BOOLEAN
    BY <1>2, <1>20 DEF ReadEnd, Reading
  <2> QED
    BY <1>20, <2>1, DelScanKeeps DEF ReadEnd
<1>21. CASE Clients
  BY <1>21, ClientsKeep
<1>22. CASE Due
  <2>1. event \in [msg : Message, sock : Fd, due : BOOLEAN]
    BY <1>1, <1>22 DEF Due, MessagesOK
  <2>2. event' \in [msg : Message, sock : Fd, due : BOOLEAN]
    BY <1>22, <2>1 DEF Due
  <2>3. PeersOK' /\ SocketsOK' /\ ContextsOK' /\ BacklogInv' /\ N' = N
    BY <1>1, <1>22, TableUnchanged DEF Due
  <2>4. MessagesOK' /\ PlaceOK' /\ HandInv'
    BY <1>1, <1>22, <2>2, <2>3 DEF Due, MessagesOK, PlaceOK, HandInv, scan, table
  <2> QED
    BY <2>3, <2>4, TablePartsNext
<1>23. CASE UNCHANGED vars
  <2>1. accepted' \in BOOLEAN /\ pc' \in PCs /\ (data = <<>> \/ pc' \in {"scan", "spin", "undefined"})
    BY <1>1, <1>2, <1>23 DEF vars, HandInv
  <2> QED
    BY <1>23, <2>1, WaitsKeep DEF vars
<1> QED
  BY <1>4, <1>5, <1>6, <1>7, <1>8, <1>9, <1>10, <1>11, <1>12, <1>13, <1>14, <1>15, <1>16,
     <1>17, <1>18, <1>19, <1>20, <1>21, <1>22, <1>23 DEF Next, Server

LEMMA SpecTableInv == Spec => []TableInv
BY InitTableInv, NextTableInv, PTL DEF Spec

\* The table, the descriptors and the addresses agree, whatever connects, sends,
\* closes and fails, and whatever is accepted and removed.
THEOREM TableStaysMatched == Spec => []TableMatches
<1>1. TableInv => TableMatches
  BY DEF TableInv
<1> QED
  BY <1>1, SpecTableInv, PTL

--------------------------------------------------------------------------------
(***************************************************************************)
(* The second poll of lo_server_recv.                                      *)
(***************************************************************************)
\* What poll would report, it reports until the server has received it.
LEMMA ReadyStays ==
    ASSUME TableInv, Clients
    PROVE  Ready # {} => Ready' # {}
<1>1. PeersOK /\ SocketsOK
  BY TableParts
<1>2. PICK c \in Conn : Connect(c) \/ Send(c) \/ Close(c) \/ Reset(c)
  BY DEF Clients
<1>3. UNCHANGED <<fd, sockets, contexts, sources>> /\ N' = N
  BY DEF Clients, table, N
<1>4. backlog # <<>> => backlog' # <<>>
  <2>1. \A q \in Seq(Conn) : Append(q, c) # <<>>
    BY AppendProperties
  <2>2. Append(backlog, c) # <<>>
    BY <1>1, <2>1 DEF PeersOK
  <2> QED
    BY <1>2, <2>2 DEF Connect, Send, Close, Reset
<1>5. ASSUME NEW b \in Conn, Readable(b) PROVE Readable(b)'
  <2>1. CASE Connect(c)
    <3>1. wire' = wire /\ (client[b] # "idle" => client'[b] = client[b])
      BY <1>1, <2>1 DEF Connect, PeersOK
    <3> QED
      BY <1>5, <3>1 DEF Readable
  <2>2. CASE Send(c)
    <3>1. PICK n \in 1 .. Len(unsent[c]) :
            wire' = [wire EXCEPT ![c] = @ \o SubSeq(unsent[c], 1, n)] /\ client' = client
      BY <2>2 DEF Send
    <3>2. wire[c] \in Seq(Unit) /\ unsent[c] \in Seq(Unit)
      BY <1>1 DEF PeersOK
    <3>3. SubSeq(unsent[c], 1, n) \in Seq(Unit)
      BY <3>2
    <3>4. wire[c] # <<>> => wire[c] \o SubSeq(unsent[c], 1, n) # <<>>
      BY <3>2, <3>3, ConcatProperties, EmptySeq
    <3>5. wire[b] # <<>> => wire'[b] # <<>>
      BY <1>1, <3>1, <3>4 DEF PeersOK
    <3> QED
      BY <1>5, <3>1, <3>5 DEF Readable
  <2>3. CASE Close(c)
    BY <1>1, <1>5, <2>3 DEF Close, Readable, PeersOK
  <2>4. CASE Reset(c)
    BY <1>1, <1>5, <2>4 DEF Reset, Readable, PeersOK
  <2> QED
    BY <1>2, <2>1, <2>2, <2>3, <2>4
<1>6. \A i \in 1 .. N : sockets[i] \in Conn
  BY <1>1, SocketIs
<1>7. ASSUME NEW i \in Ready PROVE i \in Ready'
  <2>1. CASE i \in 1 .. N /\ Readable(sockets[i])
    <3>1. Readable(sockets[i])'
      <4>1. PICK b \in Conn : b = sockets[i] /\ b = sockets'[i]
        BY <1>3, <1>6, <2>1
      <4>2. Readable(b) /\ Readable(b)'
        BY <1>5, <2>1, <4>1
      <4> QED
        BY <4>1, <4>2 DEF Readable
    <3> QED
      BY <1>3, <2>1, <3>1 DEF Ready
  <2>2. CASE i = 0 /\ backlog # <<>>
    BY <1>4, <2>2 DEF Ready
  <2> QED
    BY <1>7, <2>1, <2>2 DEF Ready
<1> QED
  BY <1>7

LEMMA ReadyUnchanged ==
    ASSUME UNCHANGED <<peers, table>>
    PROVE  Ready' = Ready
BY DEF Ready, Readable, N, peers, table

LEMMA NextRawInv == TableInv /\ RawInv /\ [Next]_vars => RawInv'
<1> SUFFICES ASSUME TableInv, RawInv, [Next]_vars, pc' = "raw" PROVE accepted' \/ Ready' # {}
  BY DEF RawInv
<1>1. CASE PollReady
  BY <1>1, ReadyUnchanged DEF PollReady
<1>2. CASE ScanAccept
  BY <1>2 DEF ScanAccept
<1>3. CASE Clients
  BY <1>3, ReadyStays DEF Clients, RawInv
<1>4. CASE Due
  BY <1>4, ReadyUnchanged DEF Due, RawInv
<1>5. CASE UNCHANGED vars
  BY <1>5, ReadyUnchanged DEF vars, RawInv
<1>6. CASE \/ lo_server_recv \/ lo_server_recv_noblock \/ WaitReady \/ PollTimeout \/ RawBuffered
  BY <1>6 DEF lo_server_recv, lo_server_recv_noblock, WaitReady, PollTimeout, RawBuffered, Recv,
     DispatchBuffered, dispatch_data, dispatch_queued
<1>7. CASE \/ WaitAccept \/ WaitNothing \/ PollFailed \/ RawPoll \/ ScanFailed \/ ScanEnd \/ AcceptFails
  BY <1>7 DEF WaitAccept, WaitNothing, PollFailed, RawPoll, ScanFailed, Scanning, ScanEnd, AcceptFails,
     dispatch_data
<1>8. CASE \/ ReadSpin \/ ReadData \/ ReadAgain \/ ReadStale \/ ReadEnd
  BY <1>8 DEF ReadSpin, ReadData, ReadAgain, ReadStale, ReadEnd, Reading, Scanning
<1> QED
  BY <1>1, <1>2, <1>3, <1>4, <1>5, <1>6, <1>7, <1>8 DEF Next, Server

\* Between its two polls lo_server_recv can only find nothing to read when it has
\* accepted a connection: so only then may it block in the second one.
THEOREM SecondPollWaits == Spec => []BlocksOnlyAfterAccept
<1>1. Init => RawInv
  BY DEF Init, RawInv
<1>2. Spec => []RawInv
  BY <1>1, NextRawInv, SpecTableInv, PTL DEF Spec
<1>3. RawInv => BlocksOnlyAfterAccept
  BY DEF RawInv, BlocksOnlyAfterAccept
<1> QED
  BY <1>2, <1>3, PTL

--------------------------------------------------------------------------------
(***************************************************************************)
(* Streams.                                                                *)
(***************************************************************************)
\* d is what r begins with.
Begins(S, d, r) == \E w \in Seq(S) : d \o w = r

LEMMA PrefixIs ==
    ASSUME NEW S, NEW d \in Seq(S), NEW r \in Seq(S), Len(d) <= Len(r), d = SubSeq(r, 1, Len(d))
    PROVE  Begins(S, d, r)
<1>1. Len(d) \in 0 .. Len(r) /\ Len(r) \in 0 .. Len(r) /\ 1 \in 1 .. Len(r) + 1
  OBVIOUS
<1>2. PICK n \in 0 .. Len(r) : n = Len(d)
  BY <1>1
<1>3. SubSeq(r, 1, n) \o SubSeq(r, n + 1, Len(r)) = SubSeq(r, 1, Len(r))
  <2>1. 1 \in 1 .. Len(r) + 1 /\ n \in 1 - 1 .. Len(r) /\ Len(r) \in n .. Len(r)
    BY <1>1
  <2> QED
    BY <2>1, ConcatAdjacentSubSeq
<1>4. SubSeq(r, 1, Len(r)) = r
  BY SubSeqFull
<1>5. SubSeq(r, n + 1, Len(r)) \in Seq(S)
  BY <1>2
<1>6. d \o SubSeq(r, n + 1, Len(r)) = r
  BY <1>2, <1>3, <1>4, Zenon
<1> QED
  BY <1>5, <1>6, Zenon DEF Begins

LEMMA PrefixOf ==
    ASSUME NEW S, NEW d \in Seq(S), NEW w \in Seq(S)
    PROVE  /\ d \o w \in Seq(S) /\ Len(d) <= Len(d \o w)
           /\ d = SubSeq(d \o w, 1, Len(d))
<1>1. d \o w \in Seq(S) /\ Len(d \o w) = Len(d) + Len(w)
  BY ConcatProperties
<1>2. CASE d = <<>>
  <2>1. SubSeq(d \o w, 1, 0) = <<>> /\ Len(d) = 0
    BY <1>1, <1>2
  <2> QED
    BY <1>1, <1>2, <2>1
<1>3. CASE d # <<>>
  <2>1. 1 \in 1 .. Len(d) /\ Len(d) \in 1 .. Len(d)
    BY <1>3
  <2>2. SubSeq(d \o w, 1, Len(d)) = SubSeq(d, 1, Len(d))
    BY <2>1, SubSeqOfConcat1
  <2>3. SubSeq(d, 1, Len(d)) = d
    BY SubSeqFull
  <2> QED
    BY <1>1, <2>2, <2>3
<1> QED
  BY <1>2, <1>3

LEMMA Associates == \A x, y, z \in Seq(Unit) : (x \o y) \o z = x \o (y \o z)
BY ConcatAssociative

LEMMA Cancels == \A x, y, z \in Seq(Unit) : x \o y = x \o z => y = z
BY ConcatSimplifications

\* What begins with x goes on with the rest.
LEMMA ConcatCut ==
    ASSUME NEW a \in Seq(Unit), NEW b \in Seq(Unit), NEW x \in Seq(Unit), NEW y \in Seq(Unit),
           a \o b = x \o y, Len(x) <= Len(a)
    PROVE  SubSeq(a, Len(x) + 1, Len(a)) \o b = y
<1>1. PICK n \in 0 .. Len(a) : n = Len(x)
  OBVIOUS
<1> DEFINE r == SubSeq(a, n + 1, Len(a))
           h == SubSeq(a, 1, n)
<1>2. r \in Seq(Unit) /\ h \in Seq(Unit) /\ Len(h) = n /\ \A i \in 1 .. n : h[i] = a[i]
  BY <1>1
<1>3. h = x
  <2>1. \A i \in 1 .. n : a[i] = x[i]
    <3> TAKE i \in 1 .. n
    <3>1. i <= Len(a) /\ i <= Len(x) /\ i \in 1 .. Len(a) + Len(b) /\ i \in 1 .. Len(x) + Len(y)
      BY <1>1
    <3>2. (a \o b)[i] = a[i]
      BY <3>1, ConcatProperties
    <3>3. (x \o y)[i] = x[i]
      BY <3>1, ConcatProperties
    <3> QED
      BY <3>2, <3>3
  <2>2. Len(h) = Len(x) /\ \A i \in 1 .. Len(h) : h[i] = x[i]
    BY <1>1, <1>2, <2>1
  <2> HIDE DEF h
  <2> QED
    BY <1>2, <2>2, SeqEqual
<1>4. h \o r = a
  <2>1. 1 \in 1 .. Len(a) + 1 /\ n \in 1 - 1 .. Len(a) /\ Len(a) \in n .. Len(a)
    OBVIOUS
  <2>2. h \o r = SubSeq(a, 1, Len(a))
    BY <2>1, ConcatAdjacentSubSeq
  <2> QED
    BY <2>2, SubSeqFull
<1> HIDE DEF r, h
<1>5. x \o (r \o b) = x \o y
  <2>1. (x \o r) \o b = x \o (r \o b)
    <3>1. x \in Seq(Unit) /\ r \in Seq(Unit) /\ b \in Seq(Unit)
      BY <1>2
    <3> QED
      BY <3>1, Associates, Zenon
  <2> QED
    BY <1>3, <1>4, <2>1
<1>6. r \o b \in Seq(Unit)
  BY <1>2, ConcatProperties
<1>7. r \o b = y
  BY <1>5, <1>6, Cancels
<1> QED
  BY <1>1, <1>7 DEF r

\* The buffer of a connection, with what follows it in the stream.
LEMMA BufferIs ==
    ASSUME PeersOK, NEW c \in Conn, NEW d \in Seq(Unit), BufferOK(c, d)
    PROVE  \E k \in 0 .. Len(Length[c]), w \in Seq(Unit) :
              /\ d \o w = Rest(c, k)
              /\ client[c] # "reset" => Taken(c) = 1 .. k /\ w = wire[c] \o unsent[c]
<1>1. PICK k \in 0 .. Len(Length[c]) :
        /\ Len(d) <= Len(Rest(c, k)) /\ d = SubSeq(Rest(c, k), 1, Len(d))
        /\ client[c] # "reset" => Taken(c) = 1 .. k /\ d \o wire[c] \o unsent[c] = Rest(c, k)
  BY DEF BufferOK
<1>2. Rest(c, k) \in Seq(Unit) /\ wire[c] \in Seq(Unit) /\ unsent[c] \in Seq(Unit)
  BY RestIs DEF PeersOK
<1>3. CASE client[c] # "reset"
  <2>1. (d \o wire[c]) \o unsent[c] = d \o (wire[c] \o unsent[c])
    BY <1>2, Associates
  <2>2. wire[c] \o unsent[c] \in Seq(Unit)
    BY <1>2, ConcatProperties
  <2> QED
    BY <1>1, <1>3, <2>1, <2>2
<1>4. CASE client[c] = "reset"
  <2>1. PICK r \in Seq(Unit) : r = Rest(c, k) /\ Len(d) <= Len(r) /\ d = SubSeq(r, 1, Len(d))
    BY <1>1, <1>2
  <2>2. \E w \in Seq(Unit) : d \o w = r
    <3>1. Begins(Unit, d, r)
      BY <2>1, PrefixIs
    <3> QED
      BY <3>1, Zenon DEF Begins
  <2> QED
    BY <1>4, <2>1, <2>2
<1> QED
  BY <1>3, <1>4

LEMMA BufferIsNext ==
    ASSUME PeersOK', NEW c \in Conn, NEW d \in Seq(Unit), NEW k \in 0 .. Len(Length[c]), NEW w \in Seq(Unit),
           d \o w = Rest(c, k),
           client'[c] # "reset" => Taken(c)' = 1 .. k /\ w = wire'[c] \o unsent'[c]
    PROVE  BufferOK(c, d)'
<1>1. Len(d) <= Len(Rest(c, k)) /\ d = SubSeq(Rest(c, k), 1, Len(d))
  BY PrefixOf
<1>2. wire'[c] \in Seq(Unit) /\ unsent'[c] \in Seq(Unit)
  BY DEF PeersOK
<1>3. (d \o wire'[c]) \o unsent'[c] = d \o (wire'[c] \o unsent'[c])
  BY <1>2, Associates
<1> QED
  BY <1>1, <1>3 DEF BufferOK

\* A buffer begins with the first unit of a message, and when it holds the whole
\* message, what is left of it begins with the next one.
LEMMA MessageIs ==
    ASSUME NEW c \in Conn, NEW k \in 0 .. Len(Length[c]), NEW d \in Seq(Unit), NEW w \in Seq(Unit),
           d # <<>>, d \o w = Rest(c, k)
    PROVE  /\ k + 1 \in 1 .. Len(Length[c]) /\ d[1] = <<<<c, k + 1>>, 1>>
           /\ lo_server_buffer_contains_msg(d) =
                  IF Length[c][k + 1] <= Len(d) THEN Length[c][k + 1] ELSE 0
           /\ lo_server_buffer_contains_msg(d) # 0 => Leftover(d) \o w = Rest(c, k + 1)
<1>1. Len(d) \in Nat \ {0} /\ 1 \in 1 .. Len(d) /\ Len(w) \in Nat
  BY EmptySeq
<1>2. Rest(c, k) # <<>>
  BY <1>1, ConcatProperties, EmptySeq
<1>3. k + 1 \in 1 .. Len(Length[c]) /\ k < Len(Length[c]) /\ k + 1 \in 0 .. Len(Length[c])
  <2>1. k # Len(Length[c])
    BY <1>2, RestIs
  <2> QED
    BY <2>1, Lengths
<1> DEFINE u == Units(c, k + 1)
           y == Rest(c, k + 1)
<1>4. Rest(c, k) = u \o y /\ y \in Seq(Unit)
  <2>1. Rest(c, k) = u \o y
    BY <1>3, RestIs
  <2>2. y \in Seq(Unit)
    BY <1>3, RestIs
  <2> QED
    BY <2>1, <2>2
<1>5. /\ u \in Seq(Unit) /\ Len(u) = Length[c][k + 1] /\ Length[c][k + 1] \in Nat \ {0, 1}
      /\ u[1] = <<<<c, k + 1>>, 1>>
  <2>1. Length[c][k + 1] \in Nat \ {0, 1}
    BY <1>3, Lengths
  <2> QED
    BY <1>3, <2>1, UnitsSeq, SMTT(20)
<1> HIDE DEF u, y
<1>6. d[1] = u[1]
  <2>1. (d \o w)[1] = d[1]
    BY <1>1, ConcatProperties
  <2>2. (u \o y)[1] = u[1]
    <3>2. Len(u) \in Nat /\ 1 <= Len(u)
      BY ONLY <1>5
    <3>3. Len(y) \in Nat
      BY <1>4
    <3>1. 1 \in 1 .. Len(u) + Len(y) /\ 1 <= Len(u)
      BY <3>2, <3>3
    <3> QED
      BY <1>4, <1>5, <3>1, ConcatProperties
  <2> QED
    BY <1>4, <2>1, <2>2
<1>7. lo_server_buffer_contains_msg(d) = IF Length[c][k + 1] <= Len(d) THEN Length[c][k + 1] ELSE 0
  BY <1>5, <1>6 DEF lo_server_buffer_contains_msg
<1>8. ASSUME lo_server_buffer_contains_msg(d) # 0 PROVE Leftover(d) \o w = y
  <2>1. Len(u) <= Len(d) /\ lo_server_buffer_contains_msg(d) = Len(u)
    BY <1>5, <1>7, <1>8
  <2>2. SubSeq(d, Len(u) + 1, Len(d)) \o w = y
    BY <1>4, <1>5, <2>1, ConcatCut
  <2> QED
    BY <2>1, <2>2 DEF Leftover
<1> QED
  BY <1>3, <1>5, <1>6, <1>7, <1>8 DEF y

--------------------------------------------------------------------------------
(***************************************************************************)
(* What was taken from the streams.                                        *)
(***************************************************************************)
Gone == dropped \cup {h.msg : h \in handled} \cup {event.msg} \cup {m \in Message : data # <<>> /\ m = data[1][1]}

LEMMA TakenSame ==
    ASSUME NEW c \in Conn, \A m \in Message : m \in Gone' <=> m \in Gone
    PROVE  Taken(c)' = Taken(c)
<1>1. \A k \in 1 .. Len(Length[c]) : <<c, k>> \in Message
  BY Lengths
<1>2. Taken(c) = {k \in 1 .. Len(Length[c]) : <<c, k>> \in Gone}
  BY <1>1 DEF Taken, Gone
<1>3. Taken(c)' = {k \in 1 .. Len(Length[c]) : <<c, k>> \in Gone'}
  BY <1>1 DEF Taken, Gone
<1> QED
  BY <1>1, <1>2, <1>3

\* One message more is taken, and it is of c.
LEMMA TakenMore ==
    ASSUME NEW c \in Conn, NEW k \in 1 .. Len(Length[c]),
           \A m \in Message : m \in Gone' <=> m \in Gone \/ m = <<c, k>>
    PROVE  /\ Taken(c)' = Taken(c) \cup {k}
           /\ \A b \in Conn : b # c => Taken(b)' = Taken(b)
<1>1. \A b \in Conn : \A j \in 1 .. Len(Length[b]) : <<b, j>> \in Message
  BY Lengths
<1>2. \A b \in Conn : Taken(b) = {j \in 1 .. Len(Length[b]) : <<b, j>> \in Gone}
  BY <1>1 DEF Taken, Gone
<1>3. \A b \in Conn : Taken(b)' = {j \in 1 .. Len(Length[b]) : <<b, j>> \in Gone'}
  BY <1>1 DEF Taken, Gone
<1>4. \A j \in 1 .. Len(Length[c]) : <<c, j>> \in Gone' <=> <<c, j>> \in Gone \/ j = k
  BY <1>1
<1>5. \A b \in Conn \ {c} : \A j \in 1 .. Len(Length[b]) : <<b, j>> \in Gone' <=> <<b, j>> \in Gone
  BY <1>1
<1> QED
  BY <1>2, <1>3, <1>4, <1>5

\* The next message is read: the one in hand, if any, is thrown away.
LEMMA GoneRead ==
    ASSUME MessagesOK, data' \in Seq(Unit), dropped' = Dropped, UNCHANGED <<event, handled>>
    PROVE  \A m \in Message : m \in Gone' <=> m \in Gone \/ (data' # <<>> /\ m = data'[1][1])
<1>1. data # <<>> => data[1][1] \in Message
  BY UnitIs DEF MessagesOK
<1>2. CASE data = <<>>
  BY <1>2 DEF Dropped, Gone
<1>3. CASE data # <<>>
  BY <1>1, <1>3 DEF Dropped, Gone
<1> QED
  BY <1>2, <1>3

LEMMA LaterOne == \A m, n \in Later : m = n
<1> SUFFICES ASSUME NEW m \in Later, NEW n \in Later, m # n PROVE FALSE
  OBVIOUS
<1>1. IsFiniteSet({m, n}) /\ Cardinality({m, n}) = 2
  <2>1. IsFiniteSet({m}) /\ Cardinality({m}) = 1
    BY FS_Singleton
  <2>2. IsFiniteSet({m} \cup {n}) /\ Cardinality({m} \cup {n}) = 2
    BY <2>1, FS_AddElement
  <2>3. {m} \cup {n} = {m, n}
    OBVIOUS
  <2> QED
    BY <2>2, <2>3
<1>2. IsFiniteSet(Later) /\ Cardinality(Later) <= 1
  BY ConnAssumption
<1>3. Cardinality({m, n}) <= Cardinality(Later)
  BY <1>2, FS_Subset
<1>4. Cardinality(Later) \in Nat
  BY <1>2, FS_CardinalityType
<1> QED
  BY <1>1, <1>2, <1>3, <1>4

LEMMA HandledMessages ==
    ASSUME NEW H, NEW m, NEW s, NEW c
    PROVE  {h.msg : h \in H \cup {[msg |-> m, src |-> s, connected |-> c]}} = {h.msg : h \in H} \cup {m}
<1>1. [msg |-> m, src |-> s, connected |-> c].msg = m
  OBVIOUS
<1> DEFINE r == [msg |-> m, src |-> s, connected |-> c]
<1> HIDE DEF r
<1>2. {h.msg : h \in H \cup {r}} = {h.msg : h \in H} \cup {r.msg}
  OBVIOUS
<1> QED
  BY <1>1, <1>2 DEF r

\* A message is dispatched. The event it may replace is of the same message.
LEMMA GoneDispatch ==
    ASSUME MessagesOK, EventInv, NEW d \in Seq(Unit), d # <<>>, NEW s \in Fd, dispatch_data(d, s),
           UNCHANGED dropped, UNCHANGED data \/ (data' = <<>> /\ d = data)
    PROVE  /\ \A m \in Message : m \in Gone' <=> m \in Gone \/ m = d[1][1]
           /\ EventInv'
<1>1. d[1][1] \in Message /\ <<>> \notin Message
  <2>1. d[1][1] \in Message
    BY UnitIs
  <2>2. <<>> \notin Message
    BY DEF Message
  <2> QED
    BY <2>1, <2>2
<1>2. \A m \in Message : (data # <<>> /\ m = data[1][1]) \/ m = d[1][1]
                            <=> (data' # <<>> /\ m = data'[1][1]) \/ m = d[1][1]
  OBVIOUS
<1>3. CASE Handle(d[1][1], s, TRUE) /\ UNCHANGED event
  <2>1. {h.msg : h \in handled'} = {h.msg : h \in handled} \cup {d[1][1]}
    BY <1>3, HandledMessages DEF Handle
  <2>2. \A m \in Message : m \in Gone' <=> m \in Gone \/ m = d[1][1]
    BY <1>2, <1>3, <2>1 DEF Gone
  <2> QED
    BY <1>3, <2>2 DEF EventInv
<1>4. CASE /\ d[1][1] \in Later /\ event' = [msg |-> d[1][1], sock |-> s, due |-> FALSE]
           /\ UNCHANGED handled
  <2>1. event.msg = <<>> \/ event.msg = d[1][1]
    BY <1>4, LaterOne DEF EventInv, NoEvent
  <2>2. event'.msg = d[1][1]
    BY <1>4
  <2>3. \A m \in Message : m \in Gone' <=> m \in Gone \/ m = d[1][1]
    BY <1>1, <1>2, <1>4, <2>1, <2>2 DEF Gone
  <2> QED
    BY <1>4, <2>2, <2>3 DEF EventInv
<1> QED
  BY <1>3, <1>4 DEF dispatch_data

LEMMA GoneQueued ==
    ASSUME dispatch_queued, UNCHANGED <<data, dropped>>
    PROVE  /\ \A m \in Message : m \in Gone' <=> m \in Gone
           /\ EventInv'
<1>1. <<>> \notin Message
  BY DEF Message
<1>2. event' = NoEvent /\ event'.msg = <<>>
  BY DEF dispatch_queued, NoEvent
<1>3. {h.msg : h \in handled'} = {h.msg : h \in handled} \cup {event.msg}
  <2>1. ASSUME NEW m, NEW s, NEW c, Handle(m, s, c)
        PROVE  {h.msg : h \in handled'} = {h.msg : h \in handled} \cup {m}
    BY <2>1, HandledMessages DEF Handle
  <2>2. Handle(event.msg, event.sock, fd[event.msg[1]] = event.sock)
    BY DEF dispatch_queued
  <2> HIDE DEF Handle
  <2> QED
    BY <2>1, <2>2
<1> QED
  BY <1>1, <1>2, <1>3 DEF Gone, EventInv

--------------------------------------------------------------------------------
(***************************************************************************)
(* Streams and buffers stay in step.                                       *)
(***************************************************************************)
LEMMA BufferFrame ==
    ASSUME NEW c \in Conn, NEW d, BufferOK(c, d), Taken(c)' = Taken(c),
           wire'[c] = wire[c], unsent'[c] = unsent[c], client'[c] = client[c]
    PROVE  BufferOK(c, d)'
BY DEF BufferOK

LEMMA BuffersSame ==
    ASSUME PeersOK, SocketsOK, BuffersInv, UNCHANGED <<peers, sockets>>,
           \A i \in 1 .. N : contexts'[i].data = contexts[i].data,
           \A m \in Message : m \in Gone' <=> m \in Gone
    PROVE  BuffersInv'
<1>1. N' = N /\ UNCHANGED <<client, unsent, wire, backlog>>
  BY DEF N, peers
<1>2. ASSUME NEW c \in Conn, NEW d, BufferOK(c, d) PROVE BufferOK(c, d)'
  BY <1>1, <1>2, TakenSame, BufferFrame
<1>3. ASSUME NEW i \in 1 .. N' PROVE BufferOK(sockets[i], contexts[i].data)'
  <2>1. sockets[i] \in Conn /\ BufferOK(sockets[i], contexts[i].data)
    BY <1>1, SocketIs DEF BuffersInv
  <2>2. PICK c \in Conn : c = sockets[i]
    BY <2>1
  <2>3. PICK d : d = contexts[i].data
    OBVIOUS
  <2>4. BufferOK(c, d)'
    BY <1>2, <2>1, <2>2, <2>3
  <2>5. sockets'[i] = c /\ contexts'[i].data = d
    BY <1>1, <2>2, <2>3
  <2> QED
    BY <2>4, <2>5 DEF BufferOK
<1>4. ASSUME NEW c \in Conn, client'[c] = "idle" \/ (\E i \in 1 .. Len(backlog') : backlog'[i] = c)
      PROVE  BufferOK(c, <<>>)'
  BY <1>1, <1>2, <1>4 DEF BuffersInv
<1> QED
  BY <1>3, <1>4 DEF BuffersInv

\* Only the buffer of socket i changes.
LEMMA BuffersOne ==
    ASSUME PeersOK, SocketsOK, BacklogInv, BuffersInv, UNCHANGED <<client, unsent, backlog, sockets>>,
           NEW i \in 1 .. N, NEW d, contexts'[i].data = d, NEW c \in Conn, c = sockets[i],
           \A j \in 1 .. N : j # i => contexts'[j].data = contexts[j].data,
           \A b \in Conn : b # c => wire'[b] = wire[b] /\ Taken(b)' = Taken(b),
           BufferOK(c, d)'
    PROVE  BuffersInv'
<1>1. N' = N
  BY DEF N
<1>2. ASSUME NEW b \in Conn, b # c, NEW e, BufferOK(b, e) PROVE BufferOK(b, e)'
  BY <1>2, BufferFrame
<1>3. ASSUME NEW j \in 1 .. N' PROVE BufferOK(sockets[j], contexts[j].data)'
  <2>1. CASE j = i
    BY <2>1 DEF BufferOK
  <2>2. CASE j # i
    <3>1. sockets[j] \in Conn /\ BufferOK(sockets[j], contexts[j].data)
      BY <1>1, SocketIs DEF BuffersInv
    <3>2. PICK b, e : b \in Conn /\ b = sockets[j] /\ e = contexts[j].data
      BY <3>1
    <3>3. b # c
      BY <1>1, <2>2, <3>2 DEF SocketsOK
    <3>4. BufferOK(b, e)'
      BY <1>2, <3>1, <3>2, <3>3
    <3>5. sockets'[j] = b /\ contexts'[j].data = e
      BY <1>1, <2>2, <3>2
    <3> QED
      BY <3>4, <3>5 DEF BufferOK
  <2> QED
    BY <2>1, <2>2
<1>4. ASSUME NEW b \in Conn, client'[b] = "idle" \/ (\E j \in 1 .. Len(backlog') : backlog'[j] = b)
      PROVE  BufferOK(b, <<>>)'
  <2>1. BufferOK(b, <<>>) /\ fd[b] = 0
    BY <1>4 DEF BuffersInv, BacklogInv
  <2>2. fd[c] # 0
    BY SocketIs, Sizes
  <2> QED
    BY <1>2, <2>1, <2>2
<1> QED
  BY <1>3, <1>4 DEF BuffersInv

\* The message at the head of what a buffer holds is taken from it.
LEMMA BufferTake ==
    ASSUME PeersOK', NEW c \in Conn, NEW k \in 0 .. Len(Length[c]), NEW d \in Seq(Unit), NEW w \in Seq(Unit),
           d \o w = Rest(c, k), lo_server_buffer_contains_msg(d) # 0,
           client[c] # "reset" => Taken(c) = 1 .. k /\ w = wire'[c] \o unsent'[c],
           client'[c] = client[c],
           \A m \in Message : m \in Gone' <=> m \in Gone \/ m = d[1][1]
    PROVE  /\ BufferOK(c, Leftover(d))' /\ d[1][1][1] = c
           /\ \A b \in Conn : b # c => Taken(b)' = Taken(b)
<1>1. d # <<>>
  BY ContainsIs
<1>2. k + 1 \in 1 .. Len(Length[c]) /\ d[1][1] = <<c, k + 1>> /\ Leftover(d) \o w = Rest(c, k + 1)
  <2>1. /\ k + 1 \in 1 .. Len(Length[c]) /\ d[1] = <<<<c, k + 1>>, 1>>
        /\ Leftover(d) \o w = Rest(c, k + 1)
    BY <1>1, MessageIs
  <2> QED
    BY <2>1
<1>3. Taken(c)' = Taken(c) \cup {k + 1} /\ \A b \in Conn : b # c => Taken(b)' = Taken(b)
  BY <1>2, TakenMore
<1>4. client'[c] # "reset" => Taken(c)' = 1 .. k + 1 /\ w = wire'[c] \o unsent'[c]
  <2>1. k \in Nat
    BY Lengths
  <2>2. (1 .. k) \cup {k + 1} = 1 .. k + 1
    BY <2>1
  <2> QED
    BY <1>3, <2>2
<1>5. Leftover(d) \in Seq(Unit) /\ k + 1 \in 0 .. Len(Length[c])
  BY <1>2, FirstMessageIs, Lengths
<1>6. BufferOK(c, Leftover(d))'
  <2>1. PICK e \in Seq(Unit), n \in 0 .. Len(Length[c]) : e = Leftover(d) /\ n = k + 1
    BY <1>5
  <2>2. BufferOK(c, e)'
    BY <1>2, <1>4, <2>1, BufferIsNext
  <2> QED
    BY <2>1, <2>2
<1> QED
  BY <1>2, <1>3, <1>6

--------------------------------------------------------------------------------
(***************************************************************************)
(* Each step, and the streams.                                             *)
(***************************************************************************)
LEMMA SourceOf ==
    ASSUME SocketsOK, NEW c \in Conn, fd[c] # 0
    PROVE  sources[fd[c]] = c
BY DEF SocketsOK

\* Recv of a message, and what becomes of it: from the first buffer that holds one.
LEMMA StreamBuffered ==
    ASSUME TableInv, TableInv', data = <<>>, DispatchBuffered, EventInv, BuffersInv, SourceIsPeer, ~shifted,
           UNCHANGED <<errno, scan, dropped, accepted, shifted>>
    PROVE  BuffersInv' /\ OriginInv' /\ SourceIsPeer' /\ EventInv'
<1>1. PeersOK /\ SocketsOK /\ ContextsOK /\ MessagesOK /\ PlaceOK /\ BacklogInv /\ HandInv /\ PeersOK'
  BY TableParts, TablePartsNext
<1>2. PICK i \in 1 .. N :
        /\ contexts[i].data \in Seq(Unit) /\ contexts[i].size \in 0 .. MaxBuffer
        /\ lo_server_buffer_contains_msg(contexts[i].data) > 0
        /\ FirstMessage(contexts[i].data) \in Seq(Unit) /\ FirstMessage(contexts[i].data) # <<>>
        /\ dispatch_data(FirstMessage(contexts[i].data), fd[sockets[i]])
        /\ contexts' = [contexts EXCEPT ![i].data = Leftover(@)]
        /\ UNCHANGED <<peers, fd, sockets, sources>>
  BY <1>1, WholeIs
<1>3. PICK c \in Conn : c = sockets[i] /\ fd[c] \in Fd /\ sources[fd[c]] = c /\ i \in 1 .. Cardinality(Conn)
  BY <1>1, SocketIs
<1>4. PICK d \in Seq(Unit) : d = contexts[i].data
  BY <1>2
<1>5. UNCHANGED <<client, unsent, wire, backlog>>
  BY <1>2 DEF peers
<1>6. PICK k \in 0 .. Len(Length[c]), w \in Seq(Unit) :
        /\ d \o w = Rest(c, k)
        /\ client[c] # "reset" => Taken(c) = 1 .. k /\ w = wire[c] \o unsent[c]
  <2>1. BufferOK(c, d)
    BY <1>3, <1>4 DEF BuffersInv
  <2> QED
    BY <1>1, <2>1, BufferIs
<1>7. PICK f \in Seq(Unit) : f = FirstMessage(d) /\ f # <<>> /\ dispatch_data(f, fd[c])
  BY <1>2, <1>3, <1>4
<1>8. /\ \A m \in Message : m \in Gone' <=> m \in Gone \/ m = f[1][1]
      /\ EventInv' /\ UNCHANGED <<data, dropped>>
  <2>1. UNCHANGED <<data, dropped>>
    BY DEF scan
  <2> QED
    BY <1>1, <1>3, <1>7, <2>1, GoneDispatch
<1>9. f[1] = d[1] /\ lo_server_buffer_contains_msg(d) # 0
  <2>1. FirstMessage(d)[1] = d[1]
    BY <1>7, FirstMessageIs
  <2> QED
    BY <1>2, <1>4, <1>7, <2>1
<1>10. /\ BufferOK(c, Leftover(d))' /\ d[1][1][1] = c
       /\ \A b \in Conn : b # c => Taken(b)' = Taken(b)
  <2>1. \A m \in Message : m \in Gone' <=> m \in Gone \/ m = d[1][1]
    BY <1>8, <1>9
  <2>2. client'[c] = client[c] /\ wire'[c] = wire[c] /\ unsent'[c] = unsent[c]
    BY <1>5
  <2> QED
    BY ONLY <1>1, <1>6, <1>9, <2>1, <2>2, c \in Conn, d \in Seq(Unit), BufferTake
<1>11. /\ contexts'[i].data = Leftover(d)
       /\ \A j \in 1 .. N : j # i => contexts'[j].data = contexts[j].data
  <2>1. \A j \in 1 .. N : j \in 1 .. Cardinality(Conn)
    BY <1>1, SocketIs
  <2>2. contexts[i] \in [size : 0 .. MaxBuffer, data : Seq(Unit)]
    BY <1>1, <1>3 DEF ContextsOK
  <2> QED
    BY <1>1, <1>2, <1>3, <1>4, <2>1, <2>2 DEF ContextsOK
<1>12. BuffersInv'
  BY <1>1, <1>2, <1>3, <1>5, <1>10, <1>11, BuffersOne
<1>13. SourceIsPeer'
  <2>1. CASE Handle(f[1][1], fd[c], TRUE)
    <3>1. handled' = handled \cup {[msg |-> f[1][1], src |-> c, connected |-> TRUE]}
      BY <1>3, <2>1 DEF Handle
    <3>2. [msg |-> f[1][1], src |-> c, connected |-> TRUE].src = [msg |-> f[1][1], src |-> c, connected |-> TRUE].msg[1]
      BY <1>9, <1>10
    <3> QED
      BY <3>1, <3>2 DEF SourceIsPeer
  <2>2. CASE UNCHANGED handled
    BY <2>2 DEF SourceIsPeer
  <2> QED
    BY <1>7, <2>1, <2>2 DEF dispatch_data
<1>14. OriginInv'
  BY <1>8 DEF OriginInv
<1> QED
  BY <1>8, <1>12, <1>13, <1>14

\* The event that is due.
LEMMA StreamQueued ==
    ASSUME TableInv, TableInv', data = <<>>, event.due, dispatch_queued, BuffersInv, SourceIsPeer, ~shifted,
           UNCHANGED <<peers, table, errno, scan, dropped, accepted, shifted>>
    PROVE  BuffersInv' /\ OriginInv' /\ SourceIsPeer' /\ EventInv'
<1>1. PeersOK /\ SocketsOK /\ ContextsOK /\ MessagesOK /\ PlaceOK /\ BacklogInv /\ HandInv
  BY TableParts
<1>2. UNCHANGED <<data, dropped, sockets, contexts>> /\ UNCHANGED peers
  BY DEF scan, table
<1>3. (\A m \in Message : m \in Gone' <=> m \in Gone) /\ EventInv'
  BY <1>2, GoneQueued
<1>4. BuffersInv'
  BY <1>1, <1>2, <1>3, BuffersSame
<1>5. event.msg \in Message /\ event.sock \in Fd /\ event.msg[1] \in Conn /\ 0 \notin Fd
  <2>1. event \in [msg : Message, sock : Fd, due : BOOLEAN]
    BY <1>1 DEF MessagesOK, NoEvent
  <2>2. \A m \in Message : m[1] \in Conn
    BY DEF Message
  <2> QED
    BY <2>1, <2>2, Sizes
<1>6. fd[event.msg[1]] = event.sock => sources[event.sock] = event.msg[1]
  BY <1>1, <1>5, SourceOf
<1> DEFINE h == [msg |-> event.msg, src |-> sources[event.sock], connected |-> fd[event.msg[1]] = event.sock]
<1>7. handled' = handled \cup {h}
  BY DEF dispatch_queued, Handle
<1>8. h.connected => h.src = h.msg[1]
  BY <1>6
<1> HIDE DEF h
<1>9. SourceIsPeer'
  BY <1>7, <1>8 DEF SourceIsPeer
<1>10. OriginInv'
  BY <1>2 DEF OriginInv
<1> QED
  BY <1>3, <1>4, <1>9, <1>10

\* Steps that change no socket, buffer or message.
LEMMA StreamWaits ==
    ASSUME TableInv, EventInv, BuffersInv, SourceIsPeer, ~shifted, OriginInv,
           UNCHANGED <<peers, table, handled, dropped, shifted>>, event'.msg = event.msg,
           event' = event \/ event # NoEvent,
           \/ UNCHANGED <<data, sock>>
           \/ data = <<>> /\ data' = <<>>
    PROVE  BuffersInv' /\ OriginInv' /\ SourceIsPeer' /\ EventInv'
<1>1. PeersOK /\ SocketsOK
  BY TableParts
<1>2. UNCHANGED <<fd, sockets, contexts>> /\ UNCHANGED data
  BY DEF table
<1>3. Gone' = Gone
  BY <1>2 DEF Gone
<1>4. BuffersInv'
  BY <1>1, <1>2, <1>3, BuffersSame
<1>5. SourceIsPeer' /\ OriginInv' /\ EventInv'
  BY <1>2 DEF SourceIsPeer, OriginInv, EventInv
<1> QED
  BY <1>4, <1>5

LEMMA StreamRecv ==
    ASSUME TableInv, TableInv', data = <<>>, Recv, EventInv, BuffersInv, OriginInv, SourceIsPeer, ~shifted,
           UNCHANGED <<errno, scan, dropped, accepted, shifted>>
    PROVE  BuffersInv' /\ OriginInv' /\ SourceIsPeer' /\ EventInv'
<1>1. CASE event.due /\ dispatch_queued /\ UNCHANGED <<peers, table>>
  BY <1>1, StreamQueued
<1>2. CASE DispatchBuffered
  BY <1>2, StreamBuffered
<1>3. CASE pc' = "poll" /\ UNCHANGED <<peers, table, event, handled>>
  <2>1. UNCHANGED <<data, dropped>>
    BY DEF scan
  <2> QED
    BY <1>3, <2>1, StreamWaits
<1> QED
  BY <1>1, <1>2, <1>3 DEF Recv

\* recv returns data.
LEMMA StreamReadData ==
    ASSUME TableInv, TableInv', ReadData, EventInv, ResetInv, BuffersInv, SourceIsPeer, ~shifted
    PROVE  BuffersInv' /\ OriginInv' /\ SourceIsPeer' /\ EventInv'
<1>1. /\ PeersOK /\ SocketsOK /\ ContextsOK /\ MessagesOK /\ PlaceOK /\ BacklogInv
      /\ PeersOK' /\ MessagesOK'
  BY TableParts, TablePartsNext
<1> DEFINE n == IF Len(wire[Peer]) < Left THEN Len(wire[Peer]) ELSE Left
           all == contexts[Scan].data \o SubSeq(wire[Peer], 1, n)
           whole == lo_server_buffer_contains_msg(all) > 0
           kept == IF whole THEN Leftover(all) ELSE all
<1>2. /\ N \in Nat /\ Scan \in 1 .. N /\ Scan \in 1 .. Cardinality(Conn)
      /\ Peer = sockets[Scan] /\ Peer \in Conn /\ contexts[Scan].data \in Seq(Unit) /\ Left \in Nat
  BY <1>1, ReadingIs DEF ReadData
<1>3. /\ wire' = [wire EXCEPT ![Peer] = SubSeq(@, n + 1, Len(@))]
      /\ contexts' = [contexts EXCEPT ![Scan] = [size |-> Size, data |-> kept]]
      /\ data' = FirstMessage(all)
      /\ dropped' = Dropped /\ sock' = fd[Peer]
      /\ UNCHANGED <<client, unsent, backlog, fd, sockets, event, handled, shifted>>
      /\ wire[Peer] # <<>>
  BY DEF ReadData
<1> DEFINE x == SubSeq(wire[Peer], 1, n)
           y == SubSeq(wire[Peer], n + 1, Len(wire[Peer]))
<1>4. wire[Peer] \in Seq(Unit) /\ unsent[Peer] \in Seq(Unit) /\ n \in 0 .. Len(wire[Peer])
  BY <1>1, <1>2 DEF PeersOK
<1> HIDE DEF n
<1>5. x \in Seq(Unit) /\ y \in Seq(Unit) /\ x \o y = wire[Peer]
  <2>1. x \in Seq(Unit) /\ y \in Seq(Unit)
    BY <1>4
  <2>2. PICK q \in Seq(Unit) : q = wire[Peer]
    BY <1>4
  <2>4. PICK l \in 0 .. Len(q) : l = n
    BY <1>4, <2>2
  <2>3. SubSeq(q, 1, l) \o SubSeq(q, l + 1, Len(q)) = SubSeq(q, 1, Len(q))
    <3>1. 1 \in 1 .. Len(q) + 1 /\ l \in 1 - 1 .. Len(q) /\ Len(q) \in l .. Len(q)
      OBVIOUS
    <3> QED
      BY <3>1, ConcatAdjacentSubSeq
  <2> QED
    BY <2>1, <2>2, <2>3, <2>4, SubSeqFull
<1>6. PICK c \in Conn, d \in Seq(Unit) : c = Peer /\ d = contexts[Scan].data
  BY <1>2
<1>7. client[c] # "reset" /\ client'[c] = client[c]
  BY <1>3, <1>6 DEF ResetInv
<1>8. PICK k \in 0 .. Len(Length[c]) : d \o (wire[c] \o unsent[c]) = Rest(c, k) /\ Taken(c) = 1 .. k
  <2>1. BufferOK(c, d)
    BY <1>2, <1>6 DEF BuffersInv
  <2> QED
    BY <1>1, <1>7, <2>1, BufferIs
<1>9. wire'[c] = y /\ unsent'[c] = unsent[c] /\ \A b \in Conn : b # c => wire'[b] = wire[b]
  BY <1>1, <1>2, <1>3, <1>6 DEF PeersOK
<1>10. all = d \o x
  BY <1>6
<1> HIDE DEF x, y, all
<1> DEFINE w == y \o unsent[c]
<1>11. all \in Seq(Unit) /\ w \in Seq(Unit) /\ all \o w = Rest(c, k)
  <2>1. all \in Seq(Unit) /\ w \in Seq(Unit)
    BY <1>4, <1>5, <1>6, <1>10, ConcatProperties
  <2>2. PICK u \in Seq(Unit) : u = unsent[c] /\ w = y \o u
    BY <1>4, <1>6
  <2>3. (x \o y) \o u = x \o (y \o u)
    BY <1>5, Associates
  <2>4. (d \o x) \o w = d \o (x \o w)
    BY <1>5, <2>1, Associates
  <2> QED
    BY <1>5, <1>6, <1>8, <1>10, <2>1, <2>2, <2>3, <2>4
<1>12. w = wire'[c] \o unsent'[c]
  BY <1>9
<1> HIDE DEF w
<1>13. /\ lo_server_buffer_contains_msg(all) \in Nat
       /\ FirstMessage(all) \in Seq(Unit)
       /\ FirstMessage(all) = <<>> <=> lo_server_buffer_contains_msg(all) = 0
       /\ FirstMessage(all) # <<>> => FirstMessage(all)[1] = all[1]
  <2>1. PICK e \in Seq(Unit) : e = all
    BY <1>11
  <2>2. lo_server_buffer_contains_msg(e) \in 0 .. Len(e) /\ Len(e) \in Nat
    BY ContainsIs
  <2>3. /\ FirstMessage(e) \in Seq(Unit)
        /\ FirstMessage(e) = <<>> <=> lo_server_buffer_contains_msg(e) = 0
        /\ FirstMessage(e) # <<>> => FirstMessage(e)[1] = e[1]
    BY FirstMessageIs
  <2> QED
    BY <2>1, <2>2, <2>3
<1>14. \A m \in Message : m \in Gone' <=> m \in Gone \/ (data' # <<>> /\ m = data'[1][1])
  BY <1>1, <1>3, <1>13, GoneRead
<1>15. contexts'[Scan].data = kept /\ \A j \in 1 .. N : j # Scan => contexts'[j].data = contexts[j].data
  <2>1. \A j \in 1 .. N : j \in 1 .. Cardinality(Conn)
    BY <1>1, SocketIs
  <2> QED
    BY <1>1, <1>2, <1>3, <2>1 DEF ContextsOK
<1>16. /\ \E e \in Seq(Unit) : e = kept /\ BufferOK(c, e)'
       /\ \A b \in Conn : b # c => Taken(b)' = Taken(b)
       /\ data' # <<>> => data'[1][1][1] = c
  <2>1. CASE whole
    <3>1. /\ data' # <<>> /\ data'[1] = all[1] /\ kept = Leftover(all)
          /\ lo_server_buffer_contains_msg(all) # 0
      BY <1>3, <1>13, <2>1
    <3>2. \A m \in Message : m \in Gone' <=> m \in Gone \/ m = all[1][1]
      BY <1>14, <3>1
    <3>3. PICK e \in Seq(Unit), v \in Seq(Unit) : e = all /\ v = w
      BY <1>11
    <3>4. /\ BufferOK(c, Leftover(e))' /\ e[1][1][1] = c
          /\ \A b \in Conn : b # c => Taken(b)' = Taken(b)
      <4>1. /\ e \o v = Rest(c, k) /\ lo_server_buffer_contains_msg(e) # 0
            /\ Taken(c) = 1 .. k /\ v = wire'[c] \o unsent'[c]
            /\ \A m \in Message : m \in Gone' <=> m \in Gone \/ m = e[1][1]
        BY <1>8, <1>11, <1>12, <3>1, <3>2, <3>3
      <4> QED
        BY <1>1, <1>7, <4>1, BufferTake
    <3>5. Leftover(e) \in Seq(Unit) /\ Leftover(e) = kept
      BY <3>1, <3>3, FirstMessageIs
    <3> HIDE DEF kept, BufferOK
    <3> QED
      BY <3>1, <3>3, <3>4, <3>5
  <2>2. CASE ~whole
    <3>1. data' = <<>> /\ kept = all
      BY <1>3, <1>13, <2>2
    <3>2. \A m \in Message : m \in Gone' <=> m \in Gone
      BY <1>14, <3>1
    <3>3. \A b \in Conn : Taken(b)' = Taken(b)
      BY <3>2, TakenSame
    <3>4. PICK e \in Seq(Unit), v \in Seq(Unit) : e = all /\ v = w
      BY <1>11
    <3>5. BufferOK(c, e)'
      BY <1>1, <1>8, <1>11, <1>12, <3>3, <3>4, BufferIsNext
    <3> HIDE DEF kept
    <3> QED
      BY <3>1, <3>3, <3>4, <3>5
  <2> QED
    BY <2>1, <2>2
<1> HIDE DEF kept, whole
<1>17. BuffersInv'
  <2>1. PICK i \in 1 .. N, e \in Seq(Unit) : i = Scan /\ e = kept /\ BufferOK(c, e)'
    BY <1>2, <1>16
  <2>2. /\ contexts'[i].data = e /\ c = sockets[i] /\ UNCHANGED <<client, unsent, backlog, sockets>>
        /\ \A j \in 1 .. N : j # i => contexts'[j].data = contexts[j].data
        /\ \A b \in Conn : b # c => wire'[b] = wire[b] /\ Taken(b)' = Taken(b)
    BY <1>2, <1>3, <1>6, <1>9, <1>15, <1>16, <2>1
  <2> QED
    BY <1>1, <2>1, <2>2, BuffersOne
<1>18. OriginInv'
  BY <1>3, <1>6, <1>16 DEF OriginInv
<1>19. SourceIsPeer' /\ EventInv'
  BY <1>3 DEF SourceIsPeer, EventInv
<1> QED
  BY <1>17, <1>18, <1>19

\* recv returns none, and the socket stays in the table.
LEMMA StreamReadNone ==
    ASSUME TableInv, Reading, contexts' = [contexts EXCEPT ![Scan].size = Size], Begin, EventInv, BuffersInv,
           SourceIsPeer, ~shifted, UNCHANGED <<peers, fd, sockets, event, handled, shifted>>
    PROVE  BuffersInv' /\ OriginInv' /\ SourceIsPeer' /\ EventInv'
<1>1. PeersOK /\ SocketsOK /\ ContextsOK /\ MessagesOK /\ PlaceOK
  BY TableParts
<1>2. \A m \in Message : m \in Gone' <=> m \in Gone
  <2>1. data' = <<>> /\ data' \in Seq(Unit) /\ dropped' = Dropped
    BY DEF Begin
  <2> QED
    BY <1>1, <2>1, GoneRead
<1>3. \A i \in 1 .. N : contexts'[i].data = contexts[i].data
  <2>1. \A j \in 1 .. N : j \in 1 .. Cardinality(Conn)
    BY <1>1, SocketIs
  <2>2. \A j \in 1 .. Cardinality(Conn) : contexts[j] \in [size : 0 .. MaxBuffer, data : Seq(Unit)]
    BY <1>1 DEF ContextsOK
  <2>3. Scan \in 1 .. Cardinality(Conn)
    BY <1>1, ReadingIs
  <2> QED
    BY <1>1, <2>1, <2>2, <2>3 DEF ContextsOK
<1>4. BuffersInv'
  BY <1>1, <1>2, <1>3, BuffersSame
<1> QED
  BY <1>4 DEF Begin, OriginInv, SourceIsPeer, EventInv

\* A socket is removed, and no later one has data: each keeps its buffer.
LEMMA StreamDel ==
    ASSUME TableInv, Scanning, Scan # 0, lo_server_del_socket(Scan), UNCHANGED <<peers, event, handled>>,
           \/ UNCHANGED <<data, sock, dropped>>
           \/ Begin,
           EventInv, BuffersInv, OriginInv, SourceIsPeer, ~shifted'
    PROVE  BuffersInv' /\ OriginInv' /\ SourceIsPeer' /\ EventInv'
<1>1. PeersOK /\ SocketsOK /\ ContextsOK /\ MessagesOK /\ PlaceOK /\ BacklogInv /\ HandInv
  BY TableParts
<1>2. N \in Nat /\ Scan \in ready /\ Scan \in 1 .. N /\ \A r \in ready \ {Scan} : r < Scan
  BY <1>1, ScanIs DEF Scanning
<1>3. /\ N' = N - 1
      /\ \A j \in 1 .. N - 1 : sockets'[j] = IF j < Scan THEN sockets[j] ELSE sockets[j + 1]
      /\ fd'[sockets[Scan]] = 0 /\ \A c \in Conn : c # sockets[Scan] => fd'[c] = fd[c]
  BY <1>1, <1>2, DelKeeps
<1>4. /\ contexts' = [contexts EXCEPT ![Scan] = EmptyContext]
      /\ ~shifted /\ \A j \in Scan + 1 .. N : contexts[j].data = <<>>
  BY DEF lo_server_del_socket
<1>5. \A m \in Message : m \in Gone' <=> m \in Gone
  <2>1. CASE UNCHANGED <<data, dropped>>
    BY <2>1 DEF Gone
  <2>2. CASE Begin
    <3>1. data' = <<>> /\ data' \in Seq(Unit) /\ dropped' = Dropped
      BY <2>2 DEF Begin
    <3> QED
      BY <1>1, <3>1, GoneRead
  <2> QED
    BY <2>1, <2>2
<1>6. UNCHANGED <<client, unsent, wire, backlog>>
  BY DEF peers
<1>7. ASSUME NEW c \in Conn, NEW d, BufferOK(c, d) PROVE BufferOK(c, d)'
  BY <1>5, <1>6, <1>7, TakenSame, BufferFrame
<1>8. \A j \in 1 .. N : contexts'[j] = IF j = Scan THEN EmptyContext ELSE contexts[j]
  <2>1. \A j \in 1 .. N : j \in 1 .. Cardinality(Conn)
    BY <1>1, SocketIs
  <2> QED
    BY <1>1, <1>4, <2>1 DEF ContextsOK
<1>9. ASSUME NEW j \in 1 .. N' PROVE BufferOK(sockets[j], contexts[j].data)'
  <2>1. PICK i \in 1 .. N : i = IF j < Scan THEN j ELSE j + 1
    BY <1>2, <1>3
  <2>2. sockets'[j] = sockets[i] /\ contexts'[j].data = contexts[i].data
    <3>1. CASE j < Scan
      BY <1>2, <1>3, <1>8, <2>1, <3>1
    <3>2. CASE ~(j < Scan)
      <4>1. contexts[i].data = <<>>
        BY <1>2, <1>3, <1>4, <2>1, <3>2
      <4>2. j = Scan \/ j \in Scan + 1 .. N
        BY <1>2, <1>3, <3>2
      <4>3. contexts'[j].data = <<>>
        BY <1>2, <1>3, <1>4, <1>8, <4>2 DEF EmptyContext
      <4> QED
        BY <1>2, <1>3, <2>1, <3>2, <4>1, <4>3
    <3> QED
      BY <3>1, <3>2
  <2>3. PICK c, d : c \in Conn /\ c = sockets[i] /\ d = contexts[i].data
    BY <1>1, SocketIs
  <2>4. BufferOK(c, d)'
    BY <1>7, <2>3 DEF BuffersInv
  <2> QED
    BY <2>2, <2>3, <2>4 DEF BufferOK
<1>10. ASSUME NEW c \in Conn, client'[c] = "idle" \/ (\E i \in 1 .. Len(backlog') : backlog'[i] = c)
       PROVE  BufferOK(c, <<>>)'
  BY <1>6, <1>7, <1>10 DEF BuffersInv
<1>11. BuffersInv'
  BY <1>9, <1>10 DEF BuffersInv
<1>12. OriginInv'
  <2> SUFFICES ASSUME data' # <<>> PROVE fd'[data'[1][1][1]] = sock'
    BY DEF OriginInv
  <2>1. UNCHANGED <<data, sock>> /\ data # <<>>
    BY DEF Begin
  <2>2. fd[data[1][1][1]] = sock /\ sock # 0 /\ data[1][1][1] \in Conn
    <3>1. data[1] \in Unit
      BY <1>1, <2>1 DEF MessagesOK
    <3> QED
      BY <1>1, <2>1, <3>1, UnitIs DEF OriginInv, HandInv
  <2>3. PICK i \in 1 .. N : fd[sockets[i]] = sock /\ \A r \in ready : r < i
    BY <1>1, <2>1 DEF HandInv
  <2>4. data[1][1][1] # sockets[Scan]
    <3>1. i # Scan
      BY <1>2, <2>3
    <3> QED
      BY <1>1, <1>2, <2>2, <2>3, <3>1 DEF SocketsOK
  <2> QED
    BY <1>3, <2>1, <2>2, <2>4
<1>13. SourceIsPeer' /\ EventInv'
  BY <1>4 DEF SourceIsPeer, EventInv
<1> QED
  BY <1>11, <1>12, <1>13

\* A connection is accepted: its buffer is empty.
LEMMA StreamAccept ==
    ASSUME TableInv, Accept, UNCHANGED <<client, unsent, wire, event, handled, shifted>>,
           \/ UNCHANGED scan /\ UNCHANGED dropped /\ data = <<>>
           \/ data' = <<>> /\ dropped' = Dropped,
           EventInv, BuffersInv, SourceIsPeer, ~shifted
    PROVE  BuffersInv' /\ OriginInv' /\ SourceIsPeer' /\ EventInv'
<1>1. PeersOK /\ SocketsOK /\ ContextsOK /\ MessagesOK /\ PlaceOK /\ BacklogInv
  BY TableParts
<1>2. /\ Head(backlog) \in Conn /\ Head(backlog) = backlog[1] /\ N \in Nat
      /\ N' = N + 1 /\ sockets'[N + 1] = Head(backlog)
      /\ contexts' = [contexts EXCEPT ![N + 1] = EmptyContext] /\ N + 1 \in 1 .. Cardinality(Conn)
      /\ \A i \in 1 .. N : sockets'[i] = sockets[i]
      /\ backlog' \in Seq(Conn) /\ Len(backlog') = Len(backlog) - 1
      /\ \A i \in 1 .. Len(backlog') : backlog'[i] = backlog[i + 1]
  <2>1. UNCHANGED <<client, unsent, wire>> /\ N \in Nat
    BY <1>1 DEF SocketsOK, N
  <2> QED
    BY <1>1, <2>1, AcceptKeeps
<1>3. data' = <<>>
  BY DEF scan
<1>4. \A m \in Message : m \in Gone' <=> m \in Gone
  <2>1. CASE dropped' = dropped /\ data = <<>>
    BY <1>3, <2>1 DEF Gone
  <2>2. CASE dropped' = Dropped
    <3>1. data' \in Seq(Unit)
      BY <1>3
    <3> QED
      BY <1>1, <1>3, <2>2, <3>1, GoneRead
  <2> QED
    BY <2>1, <2>2
<1>5. ASSUME NEW c \in Conn, NEW d, BufferOK(c, d) PROVE BufferOK(c, d)'
  BY <1>4, <1>5, TakenSame, BufferFrame
<1>6. Len(backlog) \in Nat \ {0} /\ 1 \in 1 .. Len(backlog)
      /\ \A i \in 1 .. Len(backlog') : i + 1 \in 1 .. Len(backlog)
  <2>1. backlog # <<>>
    BY DEF Accept
  <2> QED
    BY <1>1, <1>2, <2>1 DEF PeersOK
<1>7. ASSUME NEW i \in 1 .. N' PROVE BufferOK(sockets[i], contexts[i].data)'
  <2>1. CASE i = N + 1
    <3>1. PICK c \in Conn : c = Head(backlog)
      BY <1>2
    <3>2. BufferOK(c, <<>>)
      BY <1>2, <1>6, <3>1 DEF BuffersInv
    <3>3. BufferOK(c, <<>>)'
      BY <1>5, <3>2
    <3>4. sockets'[i] = c /\ contexts'[i].data = <<>>
      BY <1>1, <1>2, <2>1, <3>1 DEF ContextsOK, EmptyContext
    <3> QED
      BY <3>3, <3>4 DEF BufferOK
  <2>2. CASE i \in 1 .. N
    <3>1. PICK c, d : c \in Conn /\ c = sockets[i] /\ d = contexts[i].data
      BY <1>1, <2>2, SocketIs
    <3>2. BufferOK(c, d)'
      BY <1>5, <2>2, <3>1 DEF BuffersInv
    <3>3. sockets'[i] = c /\ contexts'[i].data = d
      <4>1. i \in 1 .. Cardinality(Conn) /\ i # N + 1
        BY <1>1, <1>2, <2>2, SocketIs
      <4> QED
        BY <1>1, <1>2, <2>2, <3>1, <4>1 DEF ContextsOK
    <3> QED
      BY <3>2, <3>3 DEF BufferOK
  <2> QED
    BY <1>2, <2>1, <2>2
<1>8. ASSUME NEW c \in Conn, client'[c] = "idle" \/ (\E i \in 1 .. Len(backlog') : backlog'[i] = c)
      PROVE  BufferOK(c, <<>>)'
  <2>1. client[c] = "idle" \/ \E i \in 1 .. Len(backlog) : backlog[i] = c
    BY <1>2, <1>6, <1>8
  <2> QED
    BY <1>5, <2>1 DEF BuffersInv
<1>9. BuffersInv'
  BY <1>7, <1>8 DEF BuffersInv
<1> QED
  BY <1>3, <1>9 DEF OriginInv, SourceIsPeer, EventInv

\* The message in hand is dispatched at the end of the loop.
LEMMA StreamScanEnd ==
    ASSUME TableInv, ScanEnd, EventInv, BuffersInv, OriginInv, SourceIsPeer, ~shifted
    PROVE  BuffersInv' /\ OriginInv' /\ SourceIsPeer' /\ EventInv'
<1>1. PeersOK /\ SocketsOK /\ MessagesOK /\ PlaceOK /\ HandInv
  BY TableParts
<1>2. data' = <<>> /\ UNCHANGED peers /\ UNCHANGED <<fd, sockets, contexts, sources, dropped, shifted>>
  BY DEF ScanEnd, table
<1>3. (\A m \in Message : m \in Gone' <=> m \in Gone) /\ SourceIsPeer' /\ EventInv'
  <2>1. CASE data = <<>> /\ UNCHANGED <<event, handled>>
    BY <1>2, <2>1 DEF Gone, SourceIsPeer, EventInv
  <2>2. CASE data # <<>> /\ dispatch_data(data, sock)
    <3>1. data \in Seq(Unit) /\ sock \in Fd /\ sock # 0
      BY <1>1, <2>2 DEF MessagesOK, PlaceOK, HandInv
    <3>2. data[1] \in Unit
      BY <2>2, <3>1
    <3>3. data[1][1] \in Message /\ data[1][1][1] \in Conn
      BY <3>2, UnitIs
    <3>4. (\A m \in Message : m \in Gone' <=> m \in Gone \/ m = data[1][1]) /\ EventInv'
      BY <1>1, <1>2, <2>2, <3>1, GoneDispatch
    <3>5. sources[sock] = data[1][1][1]
      <4>1. fd[data[1][1][1]] = sock
        BY <2>2 DEF OriginInv
      <4> QED
        BY <1>1, <3>1, <3>3, <4>1, SourceOf
    <3>6. SourceIsPeer'
      <4>1. CASE Handle(data[1][1], sock, TRUE)
        <5> DEFINE h == [msg |-> data[1][1], src |-> sources[sock], connected |-> TRUE]
        <5>1. handled' = handled \cup {h}
          BY <4>1 DEF Handle
        <5>2. h.src = h.msg[1]
          BY <3>5
        <5> HIDE DEF h
        <5> QED
          BY <5>1, <5>2 DEF SourceIsPeer
      <4>2. CASE UNCHANGED handled
        BY <1>2, <4>2 DEF SourceIsPeer
      <4> QED
        BY <2>2, <4>1, <4>2 DEF dispatch_data
    <3>7. data[1][1] \in Gone
      BY <2>2, <3>3 DEF Gone
    <3> QED
      BY <3>4, <3>6, <3>7
  <2> QED
    BY <2>1, <2>2 DEF ScanEnd
<1>4. BuffersInv'
  BY <1>1, <1>2, <1>3, BuffersSame
<1> QED
  BY <1>2, <1>3, <1>4 DEF OriginInv

\* The clients: what one sends moves from one part of its stream to the next.
LEMMA StreamClients ==
    ASSUME TableInv, TableInv', Clients, EventInv, BuffersInv, OriginInv, SourceIsPeer, ~shifted
    PROVE  BuffersInv' /\ OriginInv' /\ SourceIsPeer' /\ EventInv'
<1>1. PeersOK /\ SocketsOK /\ ContextsOK /\ MessagesOK /\ PeersOK'
  BY TableParts, TablePartsNext
<1>2. PICK c \in Conn : Connect(c) \/ Send(c) \/ Close(c) \/ Reset(c)
  BY DEF Clients
<1>3. UNCHANGED <<fd, sockets, contexts, event, handled, dropped, data, sock, shifted>> /\ N' = N
  BY DEF Clients, table, scan, N
<1>4. \A b \in Conn : Taken(b)' = Taken(b)
  <2>1. Gone' = Gone
    BY <1>3 DEF Gone
  <2> QED
    BY <2>1, TakenSame
<1>5. ASSUME NEW b \in Conn, NEW d \in Seq(Unit), BufferOK(b, d) PROVE BufferOK(b, d)'
  <2>1. CASE b # c
    <3>1. wire'[b] = wire[b] /\ unsent'[b] = unsent[b] /\ client'[b] = client[b]
      BY <1>1, <1>2, <2>1 DEF Connect, Send, Close, Reset, PeersOK
    <3> QED
      BY <1>4, <1>5, <3>1, BufferFrame
  <2>2. PICK k \in 0 .. Len(Length[b]), w \in Seq(Unit) :
          /\ d \o w = Rest(b, k)
          /\ client[b] # "reset" => Taken(b) = 1 .. k /\ w = wire[b] \o unsent[b]
    BY <1>1, <1>5, BufferIs
  <2>3. CASE b = c /\ (Connect(c) \/ Close(c))
    <3>1. wire'[b] = wire[b] /\ unsent'[b] = unsent[b] /\ client[b] # "reset"
      BY <2>3 DEF Connect, Close
    <3> QED
      BY <1>1, <1>4, <2>2, <3>1, BufferIsNext
  <2>4. CASE b = c /\ Reset(c)
    <3>1. client'[b] = "reset"
      BY <1>1, <2>4 DEF Reset, PeersOK
    <3> QED
      BY <1>1, <2>2, <3>1, BufferIsNext
  <2>5. CASE b = c /\ Send(c)
    <3>1. PICK n \in 1 .. Len(unsent[c]) :
            /\ wire' = [wire EXCEPT ![c] = @ \o SubSeq(unsent[c], 1, n)]
            /\ unsent' = [unsent EXCEPT ![c] = SubSeq(@, n + 1, Len(@))]
            /\ UNCHANGED client /\ client[c] = "open"
      BY <2>5 DEF Send
    <3>2. PICK q \in Seq(Unit), u \in Seq(Unit) : q = wire[c] /\ u = unsent[c]
      BY <1>1 DEF PeersOK
    <3>3. PICK l \in 1 .. Len(u) : l = n
      BY <3>2
    <3> DEFINE x == SubSeq(u, 1, l)
               y == SubSeq(u, l + 1, Len(u))
    <3>4. x \in Seq(Unit) /\ y \in Seq(Unit) /\ x \o y = u
      <4>1. x \in Seq(Unit) /\ y \in Seq(Unit)
        OBVIOUS
      <4>2. 1 \in 1 .. Len(u) + 1 /\ l \in 1 - 1 .. Len(u) /\ Len(u) \in l .. Len(u)
        OBVIOUS
      <4>3. x \o y = SubSeq(u, 1, Len(u))
        BY <4>2, ConcatAdjacentSubSeq
      <4> QED
        BY <4>1, <4>3, SubSeqFull
    <3>5. wire'[c] = q \o x /\ unsent'[c] = y
      BY <1>1, <3>1, <3>2, <3>3 DEF PeersOK
    <3> HIDE DEF x, y
    <3>6. (q \o x) \o y = q \o (x \o y)
      BY ONLY q \in Seq(Unit), <3>4, Associates, ZenonT(40)
    <3>7. w = wire'[b] \o unsent'[b] /\ Taken(b) = 1 .. k
      BY <2>2, <2>5, <3>1, <3>2, <3>4, <3>5, <3>6
    <3> QED
      BY <1>1, <1>4, <2>2, <3>7, BufferIsNext
  <2> QED
    BY <1>2, <2>1, <2>3, <2>4, <2>5
<1>6. ASSUME NEW b \in Conn, client'[b] = "idle" \/ (\E i \in 1 .. Len(backlog') : backlog'[i] = b)
      PROVE  client[b] = "idle" \/ (\E i \in 1 .. Len(backlog) : backlog[i] = b)
  <2>1. CASE Connect(c)
    <3>1. /\ Len(backlog) \in Nat /\ Len(backlog') = Len(backlog) + 1 /\ backlog'[Len(backlog) + 1] = c
          /\ \A i \in 1 .. Len(backlog) : backlog'[i] = backlog[i]
      BY <1>1, <2>1, AppendProperties DEF Connect, PeersOK
    <3>2. client[c] = "idle" /\ (b # c => client'[b] = client[b])
      BY <1>1, <2>1 DEF Connect, PeersOK
    <3>3. \A i \in 1 .. Len(backlog') : i = Len(backlog) + 1 \/ i \in 1 .. Len(backlog)
      BY <3>1
    <3> QED
      BY <1>6, <3>1, <3>2, <3>3
  <2>2. CASE Send(c)
    BY <1>6, <2>2 DEF Send
  <2>3. CASE Close(c) \/ Reset(c)
    BY <1>1, <1>6, <2>3 DEF Close, Reset, PeersOK
  <2> QED
    BY <1>2, <2>1, <2>2, <2>3
<1>7. ASSUME NEW i \in 1 .. N' PROVE BufferOK(sockets[i], contexts[i].data)'
  <2>1. sockets[i] \in Conn /\ i \in 1 .. Cardinality(Conn)
    BY <1>1, <1>3, SocketIs
  <2>2. PICK b \in Conn, d \in Seq(Unit) : b = sockets[i] /\ d = contexts[i].data
    BY <1>1, <2>1 DEF ContextsOK
  <2>3. BufferOK(b, d)'
    BY <1>3, <1>5, <2>2 DEF BuffersInv
  <2> QED
    BY <1>3, <2>2, <2>3 DEF BufferOK
<1>8. ASSUME NEW b \in Conn, client'[b] = "idle" \/ (\E i \in 1 .. Len(backlog') : backlog'[i] = b)
      PROVE  BufferOK(b, <<>>)'
  <2>1. BufferOK(b, <<>>) /\ <<>> \in Seq(Unit)
    BY <1>6, <1>8 DEF BuffersInv
  <2> QED
    BY <1>5, <2>1
<1>9. BuffersInv'
  BY <1>7, <1>8 DEF BuffersInv
<1> QED
  BY <1>3, <1>9 DEF OriginInv, SourceIsPeer, EventInv

AllInv == TableInv /\ StreamInv /\ EventInv /\ ResetInv

LEMMA InitAllInv == Init => AllInv
<1> SUFFICES ASSUME Init PROVE StreamInv /\ EventInv /\ ResetInv
  BY InitTableInv DEF AllInv
<1>1. EventInv /\ ResetInv /\ OriginInv /\ SourceIsPeer
  BY DEF Init, EventInv, ResetInv, OriginInv, SourceIsPeer
<1>2. N = 0 /\ 1 .. N = {}
  BY DEF Init, N
<1>3. ASSUME NEW c \in Conn PROVE BufferOK(c, <<>>)
  <2>1. Stream(c) = Rest(c, 0) /\ Stream(c) \in Seq(Unit) /\ 0 \in 0 .. Len(Length[c]) /\ <<>> \in Seq(Unit)
    BY StreamIs, Lengths
  <2>2. wire[c] = <<>> /\ unsent[c] = Stream(c)
    BY DEF Init
  <2>3. <<>> \o <<>> = <<>> /\ <<>> \o Stream(c) = Stream(c)
    BY <2>1, ConcatEmptySeq
  <2>4. Taken(c) = {} /\ 1 .. 0 = {}
    BY DEF Taken, Init, NoEvent
  <2>5. Len(<<>>) <= Len(Rest(c, 0)) /\ <<>> = SubSeq(Rest(c, 0), 1, 0) /\ Len(<<>>) = 0
    BY <2>1
  <2> QED
    BY <2>1, <2>2, <2>3, <2>4, <2>5 DEF BufferOK
<1>4. BuffersInv
  BY <1>2, <1>3 DEF BuffersInv
<1> QED
  BY <1>1, <1>4 DEF StreamInv

LEMMA NextEventInv == TableInv /\ EventInv /\ [Next]_vars => EventInv'
<1> SUFFICES ASSUME TableInv, EventInv, [Next]_vars PROVE EventInv'
  OBVIOUS
<1>1. UNCHANGED event => EventInv'
  BY DEF EventInv
<1>2. dispatch_queued => EventInv'
  BY DEF dispatch_queued, EventInv
<1>3. ASSUME NEW d, NEW s, dispatch_data(d, s) PROVE EventInv'
  <2>1. CASE UNCHANGED event
    BY <2>1 DEF EventInv
  <2>2. CASE d[1][1] \in Later /\ event' = [msg |-> d[1][1], sock |-> s, due |-> FALSE]
    <3>1. event'.msg = d[1][1]
      BY <2>2
    <3> QED
      BY <2>2, <3>1 DEF EventInv
  <2> QED
    BY <1>3, <2>1, <2>2 DEF dispatch_data
<1>4. DispatchBuffered => EventInv'
  BY <1>3 DEF DispatchBuffered
<1>5. Recv => EventInv'
  BY <1>1, <1>2, <1>4 DEF Recv
<1>6. CASE Server
  <2> HIDE DEF EventInv
  <2>1. CASE \/ lo_server_recv \/ lo_server_recv_noblock \/ WaitReady \/ PollTimeout \/ RawBuffered \/ ScanEnd
    BY <1>1, <1>2, <1>3, <1>4, <1>5, <2>1 DEF lo_server_recv, lo_server_recv_noblock, WaitReady, PollTimeout,
       RawBuffered, ScanEnd
  <2>2. CASE \/ WaitAccept \/ WaitNothing \/ PollFailed \/ PollReady \/ RawPoll \/ ScanFailed \/ ScanAccept
    BY <1>1, <2>2 DEF WaitAccept, WaitNothing, PollFailed, PollReady, RawPoll, ScanFailed, ScanAccept
  <2>3. CASE \/ ReadSpin \/ ReadData \/ ReadAgain \/ ReadStale \/ ReadEnd \/ AcceptFails
    BY <1>1, <2>3 DEF ReadSpin, ReadData, ReadAgain, ReadStale, ReadEnd, AcceptFails
  <2> QED
    BY <1>6, <2>1, <2>2, <2>3 DEF Server
<1>7. CASE Clients \/ UNCHANGED vars
  BY <1>1, <1>7 DEF Clients, vars
<1>8. CASE Due
  <2>1. event \in [msg : Message, sock : Fd, due : BOOLEAN]
    BY <1>8, TableParts DEF Due, MessagesOK
  <2>2. event'.msg = event.msg
    BY <1>8, <2>1 DEF Due
  <2> QED
    BY <1>8, <2>2 DEF Due, EventInv
<1> QED
  BY <1>6, <1>7, <1>8 DEF Next

LEMMA NextResetInv == TableInv /\ ResetInv /\ [Next]_vars => ResetInv'
<1> SUFFICES ASSUME TableInv, ResetInv, [Next]_vars PROVE ResetInv'
  OBVIOUS
<1>1. PeersOK
  BY TableParts
<1>2. UNCHANGED <<client, wire>> => ResetInv'
  BY DEF ResetInv
<1>3. UNCHANGED peers => ResetInv'
  BY <1>2 DEF peers
<1>4. CASE Server
  <2> HIDE DEF ResetInv
  <2>1. CASE \/ lo_server_recv \/ lo_server_recv_noblock \/ WaitReady \/ PollTimeout \/ RawBuffered
    BY <1>3, <2>1 DEF lo_server_recv, lo_server_recv_noblock, WaitReady, PollTimeout, RawBuffered, Recv,
       DispatchBuffered
  <2>2. CASE \/ WaitAccept \/ WaitNothing \/ PollFailed \/ PollReady \/ RawPoll \/ ScanFailed \/ ScanAccept
             \/ ScanEnd
    BY <1>2, <1>3, <2>2 DEF WaitAccept, WaitNothing, PollFailed, PollReady, RawPoll, ScanFailed, ScanAccept, ScanEnd
  <2>3. CASE \/ ReadSpin \/ ReadAgain \/ ReadStale \/ ReadEnd \/ AcceptFails
    BY <1>3, <2>3 DEF ReadSpin, ReadAgain, ReadStale, ReadEnd, AcceptFails
  <2>4. CASE ReadData
    <3>1. /\ wire[Peer] # <<>> /\ UNCHANGED client
          /\ \A c \in Conn : c # Peer => wire'[c] = wire[c]
      BY <1>1, <2>4 DEF ReadData, PeersOK
    <3> QED
      BY <3>1 DEF ResetInv
  <2> QED
    BY <1>4, <2>1, <2>2, <2>3, <2>4 DEF Server
<1>5. CASE Clients
  <2>1. PICK c \in Conn : Connect(c) \/ Send(c) \/ Close(c) \/ Reset(c)
    BY <1>5 DEF Clients
  <2>2. /\ client'[c] = "reset" => wire'[c] = <<>>
        /\ \A b \in Conn : b # c => client'[b] = client[b] /\ wire'[b] = wire[b]
    BY <1>1, <2>1 DEF Connect, Send, Close, Reset, PeersOK
  <2> QED
    BY <2>2 DEF ResetInv
<1>6. CASE Due \/ UNCHANGED vars
  BY <1>3, <1>6 DEF Due, vars
<1> QED
  BY <1>4, <1>5, <1>6 DEF Next

LEMMA NextAllInv == AllInv /\ [Next]_vars => AllInv'
<1> SUFFICES ASSUME AllInv, [Next]_vars PROVE AllInv'
  OBVIOUS
<1>1. TableInv /\ TableInv' /\ EventInv /\ EventInv' /\ ResetInv /\ ResetInv' /\ StreamInv
  BY NextTableInv, NextEventInv, NextResetInv DEF AllInv
<1> SUFFICES ASSUME ~shifted' PROVE BuffersInv' /\ OriginInv' /\ SourceIsPeer'
  BY <1>1 DEF AllInv, StreamInv
<1>2. PeersOK /\ SocketsOK /\ ContextsOK /\ MessagesOK /\ PlaceOK /\ HandInv
  BY <1>1, TableParts
<1>3. pc \in {"app", "wait", "poll", "raw"} => data = <<>>
  BY <1>2 DEF HandInv
<1> USE <1>1
<1>4. CASE /\ BuffersInv /\ OriginInv /\ SourceIsPeer /\ ~shifted /\ Server
  <2>1. CASE lo_server_recv \/ WaitReady
    BY <1>3, <1>4, <2>1, StreamRecv DEF lo_server_recv, WaitReady
  <2>2. CASE lo_server_recv_noblock
    <3>1. CASE Recv
      BY <1>3, <1>4, <2>2, <3>1, StreamRecv DEF lo_server_recv_noblock
    <3>2. CASE UNCHANGED <<peers, table, event, handled>>
      <4>1. UNCHANGED <<data, sock, dropped, shifted>>
        BY <2>2 DEF lo_server_recv_noblock, scan
      <4> QED
        BY <1>4, <3>2, <4>1, StreamWaits
    <3> QED
      BY <2>2, <3>1, <3>2 DEF lo_server_recv_noblock
  <2>3. CASE WaitAccept
    BY <1>3, <1>4, <2>3, StreamAccept DEF WaitAccept
  <2>4. CASE WaitNothing \/ PollFailed \/ PollReady \/ RawPoll \/ ReadSpin \/ AcceptFails
    <3>1. UNCHANGED <<data, sock>> \/ (data = <<>> /\ data' = <<>>)
      BY <1>3, <2>4 DEF WaitNothing, PollFailed, PollReady, RawPoll, ReadSpin, AcceptFails, scan
    <3>2. UNCHANGED <<peers, table, handled, dropped, shifted, event>>
      BY <2>4 DEF WaitNothing, PollFailed, PollReady, RawPoll, ReadSpin, AcceptFails
    <3> QED
      BY <1>4, <3>1, <3>2, StreamWaits
  <2>5. CASE PollTimeout
    BY <1>3, <1>4, <2>5, StreamQueued DEF PollTimeout
  <2>6. CASE RawBuffered
    BY <1>3, <1>4, <2>6, StreamBuffered DEF RawBuffered
  <2>7. CASE ScanFailed
    <3>1. Scan # 0 /\ Scanning
      BY <1>2, <2>7 DEF ScanFailed, PlaceOK
    <3> QED
      BY <1>4, <2>7, <3>1, StreamDel DEF ScanFailed
  <2>8. CASE ScanAccept
    BY <1>4, <2>8, StreamAccept DEF ScanAccept
  <2>9. CASE ScanEnd
    BY <1>4, <2>9, StreamScanEnd
  <2>10. CASE ReadData
    BY <1>4, <2>10, StreamReadData
  <2>11. CASE ReadAgain \/ ReadStale
    <3>1. /\ Reading /\ contexts' = [contexts EXCEPT ![Scan].size = Size] /\ Begin
          /\ UNCHANGED <<peers, fd, sockets, event, handled, shifted>>
      BY <2>11 DEF ReadAgain, ReadStale
    <3> QED
      BY <1>4, <3>1, StreamReadNone
  <2>12. CASE ReadEnd
    <3>1. Scan # 0 /\ Scanning /\ UNCHANGED <<peers, event, handled>>
      BY <2>12 DEF ReadEnd, Reading
    <3> QED
      BY <1>4, <2>12, <3>1, StreamDel DEF ReadEnd
  <2> QED
    BY <1>4, <2>1, <2>2, <2>3, <2>4, <2>5, <2>6, <2>7, <2>8, <2>9, <2>10, <2>11, <2>12 DEF Server
<1>5. ~shifted
  <2>1. shifted => shifted'
    <3>1. CASE ScanFailed \/ ReadEnd
      BY <3>1 DEF ScanFailed, ReadEnd, lo_server_del_socket
    <3>2. CASE \/ lo_server_recv \/ lo_server_recv_noblock \/ WaitAccept \/ WaitReady \/ WaitNothing
               \/ PollTimeout \/ PollFailed \/ PollReady \/ RawBuffered \/ RawPoll \/ ScanAccept \/ ScanEnd
      BY <3>2 DEF lo_server_recv, lo_server_recv_noblock, WaitAccept, WaitReady, WaitNothing,
         PollTimeout, PollFailed, PollReady, RawBuffered, RawPoll, ScanAccept, ScanEnd
    <3>3. CASE \/ ReadSpin \/ ReadData \/ ReadAgain \/ ReadStale \/ AcceptFails \/ Clients \/ Due
               \/ UNCHANGED vars
      BY <3>3 DEF ReadSpin, ReadData, ReadAgain, ReadStale, AcceptFails, Clients, Due, vars
    <3> QED
      BY <3>1, <3>2, <3>3 DEF Next, Server
  <2> QED
    BY <2>1
<1>6. BuffersInv /\ OriginInv /\ SourceIsPeer
  BY <1>5 DEF StreamInv
<1>7. CASE Clients
  BY <1>5, <1>6, <1>7, StreamClients
<1>8. CASE Due
  <2>1. event \in [msg : Message, sock : Fd, due : BOOLEAN]
    BY <1>2, <1>8 DEF Due, MessagesOK
  <2>2. event'.msg = event.msg /\ event # NoEvent
    BY <1>8, <2>1 DEF Due
  <2>3. UNCHANGED <<data, sock>> /\ UNCHANGED <<peers, table, handled, dropped, shifted>>
    BY <1>8 DEF Due, scan
  <2> QED
    BY <1>5, <1>6, <2>2, <2>3, StreamWaits
<1>9. CASE UNCHANGED vars
  <2>1. UNCHANGED <<data, sock>> /\ UNCHANGED <<peers, table, handled, dropped, shifted, event>>
    BY <1>9 DEF vars, scan
  <2> QED
    BY <1>5, <1>6, <2>1, StreamWaits
<1> QED
  BY <1>4, <1>5, <1>6, <1>7, <1>8, <1>9 DEF Next

LEMMA SpecAllInv == Spec => []AllInv
BY InitAllInv, NextAllInv, PTL DEF Spec

\* Each connection's messages are taken from its stream whole, once and in order,
\* however the stream is cut, until a socket is removed while a later one has data.
THEOREM StreamsStayInStep == Spec => []StreamsInStep
<1>1. AllInv => StreamsInStep
  <2> SUFFICES ASSUME AllInv, ~shifted, NEW i \in 1 .. N, client[sockets[i]] # "reset"
               PROVE  InStep(sockets[i], contexts[i].data)
    BY DEF StreamsInStep
  <2>1. sockets[i] \in Conn /\ BufferOK(sockets[i], contexts[i].data)
    BY TableParts, SocketIs DEF AllInv, StreamInv, BuffersInv
  <2>2. PICK k \in 0 .. Len(Length[sockets[i]]) :
          /\ Taken(sockets[i]) = 1 .. k
          /\ contexts[i].data \o wire[sockets[i]] \o unsent[sockets[i]] = Rest(sockets[i], k)
    BY <2>1 DEF BufferOK
  <2>3. Cardinality(1 .. k) = k
    <3>1. k \in Nat
      BY <2>1, Lengths
    <3> QED
      BY <3>1, FS_Interval
  <2> QED
    BY <2>2, <2>3 DEF InStep, Rest
<1> QED
  BY <1>1, SpecAllInv, PTL

\* A method is told the peer that sent the message.
THEOREM SourceStaysPeer == Spec => []SourceIsPeer
<1>1. AllInv => SourceIsPeer
  BY DEF AllInv, StreamInv, SourceIsPeer
<1> QED
  BY <1>1, SpecAllInv, PTL

--------------------------------------------------------------------------------
(***************************************************************************)
(* The doubling of a buffer.                                               *)
(***************************************************************************)
LEMMA NextScanInv == TableInv /\ ScanInv /\ [Next]_vars => ScanInv'
<1> SUFFICES ASSUME TableInv, ScanInv, [Next]_vars PROVE ScanInv'
  OBVIOUS
<1>1. SocketsOK /\ ContextsOK /\ PlaceOK /\ N \in Nat
  BY TableParts DEF SocketsOK, N
<1>2. \A i \in 1 .. N : i \in 1 .. Cardinality(Conn) /\ contexts[i].data \in Seq(Unit)
  BY <1>1, SocketIs DEF ContextsOK
<1>3. \A r \in ready \ {0} : r \in 1 .. N
  BY <1>1 DEF PlaceOK
<1>4. ASSUME Scanning, Scan # 0, ready' = ready \ {Scan}, pc' = "scan",
             \A j \in 1 .. N : j # Scan => contexts'[j] = contexts[j]
      PROVE  ScanInv'
  BY <1>3, <1>4 DEF ScanInv, Scanning
<1>5. CASE RawPoll
  <2>1. \A i \in Ready \ {0} : i \in 1 .. N /\ i \notin Whole
    BY <1>5 DEF RawPoll, Ready
  <2>2. \A i \in 1 .. N : lo_server_buffer_contains_msg(contexts[i].data) \in Nat
    <3> TAKE i \in 1 .. N
    <3>1. PICK d \in Seq(Unit) : d = contexts[i].data
      BY <1>2
    <3>2. lo_server_buffer_contains_msg(d) \in 0 .. Len(d)
      BY ContainsIs
    <3> QED
      BY <3>1, <3>2
  <2>3. \A i \in Ready \ {0} : lo_server_buffer_contains_msg(contexts[i].data) = 0
    BY <2>1, <2>2 DEF Whole
  <2>4. ready' = Ready /\ pc' = "scan" /\ contexts' = contexts
    BY <1>5 DEF RawPoll, table
  <2> QED
    BY <2>3, <2>4 DEF ScanInv
<1>6. CASE ScanFailed \/ ReadEnd
  <2>1. Scanning /\ Scan # 0 /\ ready' = ready \ {Scan} /\ pc' = pc /\ lo_server_del_socket(Scan)
    BY <1>1, <1>6 DEF ScanFailed, ReadEnd, Reading, PlaceOK
  <2>2. \A j \in 1 .. N : j # Scan => contexts'[j] = contexts[j]
    BY <1>1, <1>2, <2>1 DEF lo_server_del_socket, ContextsOK
  <2> QED
    BY <1>4, <2>1, <2>2 DEF Scanning
<1>7. CASE ReadAgain \/ ReadStale
  <2>1. /\ Scanning /\ Scan # 0 /\ ready' = ready \ {Scan} /\ pc' = pc
        /\ contexts' = [contexts EXCEPT ![Scan].size = Size]
    BY <1>7 DEF ReadAgain, ReadStale, Reading
  <2>2. \A j \in 1 .. N : j # Scan => contexts'[j] = contexts[j]
    BY <1>1, <1>2, <2>1 DEF ContextsOK
  <2> QED
    BY <1>4, <2>1, <2>2 DEF Scanning
<1>8. CASE ReadData
  <2> DEFINE n == IF Len(wire[Peer]) < Left THEN Len(wire[Peer]) ELSE Left
             all == contexts[Scan].data \o SubSeq(wire[Peer], 1, n)
             whole == lo_server_buffer_contains_msg(all) > 0
  <2>1. /\ Scanning /\ Scan # 0 /\ pc' = pc
        /\ contexts' = [contexts EXCEPT ![Scan] =
               [size |-> Size, data |-> IF whole THEN Leftover(all) ELSE all]]
        /\ ready' = IF ~whole /\ n = Left THEN ready ELSE ready \ {Scan}
    BY <1>8 DEF ReadData, Reading
  <2>2. all \in Seq(Unit)
    <3>1. Left \in Nat /\ Peer \in Conn /\ contexts[Scan].data \in Seq(Unit)
      BY <1>1, <1>8, ReadingIs DEF ReadData
    <3>2. wire[Peer] \in Seq(Unit)
      BY <3>1, TableParts DEF PeersOK
    <3>3. n \in 0 .. Len(wire[Peer])
      BY <3>1, <3>2
    <3> HIDE DEF n
    <3>4. SubSeq(wire[Peer], 1, n) \in Seq(Unit)
      BY <3>2, <3>3
    <3> QED
      BY <3>1, <3>4, ConcatProperties
  <2>3. ~whole => lo_server_buffer_contains_msg(all) = 0
    <3>1. PICK d \in Seq(Unit) : d = all
      BY <2>2
    <3>2. lo_server_buffer_contains_msg(d) \in 0 .. Len(d)
      BY ContainsIs
    <3> QED
      BY <3>1, <3>2
  <2> HIDE DEF whole, all, n
  <2>4. \A j \in 1 .. N : j # Scan => contexts'[j] = contexts[j]
    BY <1>1, <1>2, <2>1 DEF ContextsOK
  <2>5. CASE ~whole
    <3>1. Scan \in 1 .. N
      BY <1>1, <1>8, ReadingIs DEF ReadData
    <3>2. contexts'[Scan].data = all
      BY <1>1, <1>2, <2>1, <2>5, <3>1 DEF ContextsOK
    <3> QED
      BY <1>3, <2>1, <2>3, <2>4, <2>5, <3>2 DEF ScanInv, Scanning
  <2>6. CASE whole
    BY <1>4, <2>1, <2>4, <2>6 DEF Scanning
  <2> QED
    BY <2>5, <2>6
<1>9. CASE ReadSpin
  <2>1. /\ Scanning /\ Scan # 0 /\ Size = 0 /\ pc' = "spin"
        /\ UNCHANGED <<contexts, ready>>
    BY <1>9 DEF ReadSpin, Reading, table, scan
  <2>2. Scan' = Scan /\ Size' = Size
    BY <2>1 DEF Scan, Size
  <2> QED
    BY <2>1, <2>2 DEF ScanInv, Scanning
<1>10. CASE Clients \/ Due \/ UNCHANGED vars
  <2>1. UNCHANGED <<contexts, ready, pc>>
    BY <1>10 DEF Clients, Due, vars, table, scan
  <2>2. Scan' = Scan /\ Size' = Size
    BY <2>1 DEF Scan, Size
  <2> QED
    BY <2>1, <2>2 DEF ScanInv
<1>11. CASE pc' \notin {"scan", "spin"}
  BY <1>11 DEF ScanInv
<1>12. CASE \/ lo_server_recv \/ lo_server_recv_noblock \/ WaitReady \/ PollTimeout \/ RawBuffered
  <2>1. pc' \notin {"scan", "spin"}
    BY <1>12 DEF lo_server_recv, lo_server_recv_noblock, WaitReady, PollTimeout, RawBuffered, Recv,
       DispatchBuffered, dispatch_data, dispatch_queued
  <2> QED
    BY <1>11, <2>1
<1>13. CASE \/ WaitAccept \/ WaitNothing \/ PollFailed \/ PollReady \/ ScanAccept \/ ScanEnd \/ AcceptFails
  <2>1. pc' \notin {"scan", "spin"}
    BY <1>13 DEF WaitAccept, WaitNothing, PollFailed, PollReady, ScanAccept, ScanEnd, AcceptFails, dispatch_data
  <2> QED
    BY <1>11, <2>1
<1> QED
  BY <1>5, <1>6, <1>7, <1>8, <1>9, <1>10, <1>12, <1>13 DEF Next, Server

\* The doubling of a buffer does not end only when the message it begins with is
\* longer than half of the largest size and one.
THEOREM SpinsStayLong == Spec => []SpinsOnlyOnLong
<1>1. Init => ScanInv
  BY DEF Init, ScanInv
<1>2. Spec => []ScanInv
  BY <1>1, NextScanInv, SpecTableInv, PTL DEF Spec
<1>3. AllInv /\ ScanInv => SpinsOnlyOnLong
  <2> SUFFICES ASSUME AllInv, ScanInv, pc = "spin", ~shifted
               PROVE  LET m == contexts[Scan].data[1][1]
                      IN  Length[m[1]][m[2]] > MaxBuffer - MaxBuffer \div 2 + 1
    BY DEF SpinsOnlyOnLong
  <2>1. PeersOK /\ SocketsOK /\ ContextsOK /\ PlaceOK
    BY TableParts DEF AllInv
  <2>2. ready # {} /\ Scan # 0 /\ Size = 0
    BY DEF ScanInv
  <2>3. Scan \in ready /\ Scan \in 1 .. N
    BY <2>1, <2>2, ScanIs
  <2>4. PICK c \in Conn : c = sockets[Scan] /\ Scan \in 1 .. Cardinality(Conn)
    BY <2>1, <2>3, SocketIs
  <2>5. PICK d \in Seq(Unit), z \in 0 .. MaxBuffer : d = contexts[Scan].data /\ z = contexts[Scan].size
    BY <2>1, <2>4 DEF ContextsOK
  <2>6. ~Enough(MaxBuffer, Len(d))
    <3>1. BufferSize(z, Len(d)) = 0
      BY <2>2, <2>5 DEF Size
    <3> QED
      BY <3>1, BufferSizeIs
  <2>7. Len(d) \in Nat /\ Len(d) > MaxBuffer - MaxBuffer \div 2 /\ Len(d) > 0
    BY <2>6, BufferAssumption DEF Enough
  <2>8. lo_server_buffer_contains_msg(d) = 0
    BY <2>2, <2>3, <2>5 DEF ScanInv
  <2>9. PICK k \in 0 .. Len(Length[c]), w \in Seq(Unit) : d \o w = Rest(c, k)
    <3>1. BufferOK(c, d)
      BY <2>3, <2>4, <2>5 DEF AllInv, StreamInv, BuffersInv
    <3> QED
      BY <2>1, <3>1, BufferIs
  <2>10. d # <<>>
    BY <2>7
  <2>11. /\ k + 1 \in 1 .. Len(Length[c]) /\ d[1] = <<<<c, k + 1>>, 1>>
         /\ 0 = IF Length[c][k + 1] <= Len(d) THEN Length[c][k + 1] ELSE 0
    BY <2>8, <2>9, <2>10, MessageIs
  <2>12. Length[c][k + 1] \in Nat \ {0}
    BY <2>11, Lengths
  <2>13. Length[c][k + 1] > Len(d)
    BY <2>7, <2>11, <2>12
  <2>14. d[1][1][1] = c /\ d[1][1][2] = k + 1
    BY <2>11
  <2>15. Length[c][k + 1] > MaxBuffer - MaxBuffer \div 2 + 1
    BY <2>7, <2>12, <2>13, BufferAssumption
  <2> QED
    BY <2>5, <2>14, <2>15
<1> QED
  BY <1>2, <1>3, SpecAllInv, PTL
================================================================================
