------------------------------- MODULE LoSlip -------------------------------
(***************************************************************************)
(* A SLIP stream (server.c, send.c): slip_encode ends every message with   *)
(* an END byte and escapes the two special ones; the receiver finds out    *)
(* from the first bytes that the stream is one, decodes what each recv     *)
(* brings into its buffer, a length before each message, and gives the     *)
(* messages to the dispatcher in turn.  The lengths take room of their     *)
(* own, which the code makes while it decodes, and not always in time.     *)
(* How a stream is read at all, and one that counts its messages' bytes,   *)
(* is in LoStreamServer.                                                   *)
(***************************************************************************)
EXTENDS Integers, Sequences, FiniteSets, SequencesExt

CONSTANTS
    Payloads,       \* serialised messages that are sent
    MaxPayloads,    \* bound: messages in a stream
    MaxRecv,        \* bound: bytes that one recv brings
    FirstSize,      \* half the size of a first buffer
    LargestSize     \* LO_MAX_MSG_SIZE

VARIABLES
    sent,       \* the payloads sent so far
    line,       \* the stream they were encoded to
    taken,      \* how much of it was received
    slip,       \* the socket's context, what is in its buffer
    room,       \* and the buffer's size and where the next byte goes
    got,        \* messages given to the dispatcher
    undefined,  \* what put a byte outside the buffers, or "no"
    spare       \* ghost: how much less that recv had brought than it might

slipVars == <<sent, line, taken, slip, room, got, undefined, spare>>

SLIP_END == 192
SLIP_ESC == 219
SLIP_ESC_END == 220
SLIP_ESC_ESC == 221

-----------------------------------------------------------------------------
(* The sender *)

slip_encode(data) ==
    FlattenSeq([i \in DOMAIN data |->
        CASE data[i] = SLIP_ESC -> <<SLIP_ESC, SLIP_ESC_ESC>>
          [] data[i] = SLIP_END -> <<SLIP_ESC, SLIP_ESC_END>>
          [] OTHER -> <<data[i]>>]) \o <<SLIP_END>>

send_data(p) ==
    /\ Len(sent) < MaxPayloads
    /\ sent' = Append(sent, p)
    /\ line' = line \o slip_encode(p)
    /\ UNCHANGED <<taken, slip, room, got, undefined, spare>>

\* Other senders may begin a stream with an END.
BeginWithEnd ==
    /\ line = <<>>
    /\ line' = <<SLIP_END>>
    /\ UNCHANGED <<sent, taken, slip, room, got, undefined, spare>>

-----------------------------------------------------------------------------
(* The receiver.  head is what came before the stream was known to be one, *)
(* out the whole messages in the buffer and part the one after them.       *)

init_context == [is_slip |-> -1, state |-> 0, head |-> <<>>, out |-> <<>>, part |-> <<>>]

Slash == 47
Bun == <<35, 98, 117, 110>>
Text(b) == b = 0 \/ b \in 32..126

\* One END before the first message is put up with.
detect_slip(b) ==
    \/ b[1] = SLIP_END /\ b[2] = Slash /\ Text(b[3]) /\ Text(b[4])
    \/ b[1] = Slash /\ \A i \in 2..4 : Text(b[i])
    \/ SubSeq(b, 1, 4) = Bun

ASSUME BoundsAssumption ==
    /\ MaxPayloads \in Nat /\ MaxRecv \in Nat
    /\ FirstSize \in Nat \ {0} /\ LargestSize \in Nat \ {0}

\* What is sent is a bundle, or a message whose path begins with a slash and goes
\* on in ASCII: others are not known as SLIP by their first four bytes.
ASSUME PayloadAssumption ==
    \A p \in Payloads : p \in Seq(0 .. 255) /\ Len(p) >= 4 /\ p[1] # SLIP_END /\ detect_slip(p)

Unescaped(b) ==
    CASE b = SLIP_ESC_END -> <<SLIP_END>>
      [] b = SLIP_ESC_ESC -> <<SLIP_ESC>>
      [] OTHER -> <<>>

\* Seeded bug: the message is given out, and its bytes stay in the buffer.
EndMessageOnto(c) == [c EXCEPT !.out = Append(@, c.part)]

\* The END of a message: its length is known, and the next one begins.
EndMessage(c) == [c EXCEPT !.out = Append(@, c.part), !.part = <<>>]

\* A turn of slip_decode, or of the loop that calls it again after an END: the
\* n-th byte of a recv is counted and the one at d.from looked at.  Only a plain
\* byte moves from on: an escape, and what is escaped, is looked at again.
DecodeByte(d, bytes, n) ==
    LET b == bytes[d.from]
        c == d.context
    IN  CASE c.state = 0 /\ b = SLIP_END ->
               [context |-> EndMessage(c), from |-> n + 1]
          [] c.state = 0 /\ b = SLIP_ESC ->
               [d EXCEPT !.context.state = 1]
          [] c.state = 0 /\ b \notin {SLIP_END, SLIP_ESC} ->
               [context |-> [c EXCEPT !.part = Append(@, b)], from |-> d.from + 1]
          [] c.state = 1 ->
               [d EXCEPT !.context = [c EXCEPT !.state = 0, !.part = @ \o Unescaped(b)]]

Turns(c, bytes) ==
    LET d[n \in 0 .. Len(bytes)] ==
            IF n = 0 THEN [context |-> c, from |-> 1] ELSE DecodeByte(d[n - 1], bytes, n)
    IN  d

slip_decode(c, bytes) == Turns(c, bytes)[Len(bytes)].context

-----------------------------------------------------------------------------
(* The room for it.  A buffer holds a length of four bytes before each     *)
(* message and one before the next.                                        *)

SizeOfLength == 4

HalfFree(size, used) == size - used >= size \div 2

\* The size a buffer is given before recv: doubled until half of it is free. 0
\* stands for a loop that does not end.
BufferFor(size, used) ==
    LET first == IF size = 0 THEN 2 * FirstSize ELSE size
        grown[z \in 1 .. LargestSize] ==
            IF HalfFree(z, used) THEN z
            ELSE IF z = LargestSize THEN 0
            ELSE grown[IF 2 * z > LargestSize THEN LargestSize ELSE 2 * z]
    IN  IF HalfFree(first, used) THEN first
        ELSE IF first >= LargestSize THEN 0 ELSE grown[first]

\* The buffer after a turn from context c to d, with `rest' bytes to decode.  What
\* the turn put out is behind the buffer's end, or an END finds too little room and
\* has the buffer doubled: realloc may move it, and buffer_after stays behind.
Fill(r, c, d, rest) ==
    LET ended == d.out # c.out
        offset == r.offset + IF ended THEN SizeOfLength ELSE Len(d.part) - Len(c.part)
        tight == ended /\ offset <= r.size /\ rest + SizeOfLength > r.size - offset
    IN  [size |-> IF tight THEN 2 * r.size ELSE r.size,
         offset |-> offset,
         fault |-> IF r.fault # "no" THEN r.fault
                   ELSE IF offset > r.size THEN "heap" ELSE IF tight THEN "moved" ELSE "no"]

\* The buffer, of the given size and filled to offset, after the turns of a recv.
Filled(turns, size, offset, n) ==
    LET r[i \in 0 .. n] ==
            IF i = 0 THEN [size |-> size, offset |-> offset, fault |-> "no"]
            ELSE Fill(r[i - 1], turns[i - 1].context, turns[i].context, n - i)
    IN  r[n]

\* lo_server_buffer_contains_msg.  The length 0 of an empty message says that there
\* is none, for good.
Waiting == slip.out # <<>> /\ Head(slip.out) # <<>>

Size == BufferFor(room.size, room.offset)
buffer_bytes_left == Size - room.offset

\* What k bytes make of the context.  Fewer than four tell nothing and stay at the
\* head of the buffer.  The room for the first message's length is made after them,
\* and the length is stored over them: the message begins with as many zeros.
Found(head) ==
    [slip EXCEPT !.is_slip = IF detect_slip(head) THEN 1 ELSE 0,
                 !.part = [i \in 1..Len(slip.head) |-> 0]]

Decode(c, offset, bytes) ==
    [context |-> slip_decode(c, bytes),
     room |-> Filled(Turns(c, bytes), Size, offset, Len(bytes))]

Kept(c, k) == [context |-> c, room |-> [size |-> Size, offset |-> room.offset + k, fault |-> "no"]]

AfterRecv(k) ==
    LET bytes == SubSeq(line, taken + 1, taken + k)
        head == slip.head \o bytes
    IN  CASE slip.is_slip = 1 -> Decode(slip, room.offset, bytes)
          [] slip.is_slip = -1 /\ Len(head) < 4 -> Kept([slip EXCEPT !.head = head], k)
          [] slip.is_slip = -1 /\ Len(head) >= 4 ->
               IF detect_slip(head) THEN Decode(Found(head), room.offset + SizeOfLength, bytes)
               ELSE Kept(Found(head), k)

\* A stream known to be SLIP is read into a second buffer, four bytes shorter than
\* the number asked for.
Fault(k) ==
    IF slip.is_slip = 1 /\ k > buffer_bytes_left - SizeOfLength THEN "stack"
    ELSE AfterRecv(k).room.fault

CanRecv(k) ==
    /\ slip.is_slip # 0 /\ ~Waiting /\ Size > 0
    /\ k <= Len(line) - taken /\ k <= buffer_bytes_left

\* One recv.  What lies behind the buffers may be nothing's, and realloc may leave
\* the buffer where it is: then it is as if there were room.
Recv(k) ==
    /\ CanRecv(k)
    /\ slip' = AfterRecv(k).context
    /\ room' = [size |-> AfterRecv(k).room.size, offset |-> AfterRecv(k).room.offset]
    /\ taken' = taken + k
    /\ UNCHANGED <<sent, line, got, undefined, spare>>

\* Or nothing is known from there on.
RecvBeyond(k) ==
    /\ CanRecv(k) /\ Fault(k) # "no"
    /\ undefined' = Fault(k)
    /\ spare' = buffer_bytes_left - k - 3 * (Len(AfterRecv(k).context.out) - Len(slip.out))
    /\ UNCHANGED <<sent, line, taken, slip, room, got>>

\* lo_server_buffer_copy_for_dispatch
Dispatch ==
    /\ Waiting
    /\ got' = Append(got, Head(slip.out))
    /\ slip' = [slip EXCEPT !.out = Tail(@)]
    /\ room' = [room EXCEPT !.offset = @ - (Len(Head(slip.out)) + SizeOfLength)]
    /\ UNCHANGED <<sent, line, taken, undefined, spare>>

-----------------------------------------------------------------------------
SlipInit ==
    /\ sent = <<>> /\ line = <<>> /\ taken = 0
    /\ slip = init_context /\ room = [size |-> 0, offset |-> 0] /\ got = <<>>
    /\ undefined = "no" /\ spare = 0

SlipNext ==
    /\ undefined = "no"
    /\ \/ \E p \in Payloads : send_data(p)
       \/ BeginWithEnd
       \/ \E k \in 1..MaxRecv : Recv(k) \/ RecvBeyond(k)
       \/ Dispatch

SlipSpec == SlipInit /\ [][SlipNext]_slipVars

-----------------------------------------------------------------------------
(* Properties *)

Received == SubSeq(line, 1, taken)

\* The messages whose END came, and of which nothing came after an escape.
Plain ==
    LET esc == SelectInSeq(Received, LAMBDA b : b = SLIP_ESC)
        before == IF esc = 0 THEN Received ELSE SubSeq(Received, 1, esc - 1)
    IN  Cardinality({i \in DOMAIN before : before[i] = SLIP_END})

\* The stream did not begin with an END and its first recv told what it is.
KnownAtOnce == slip.head = <<>> /\ Received # <<>> /\ Received[1] # SLIP_END

\* Each message up to the first that has a byte to escape is the one sent, in order
\* and once, and what came of the next one is kept.
Framed ==
    LET all == got \o slip.out IN
    KnownAtOnce =>
        /\ slip.is_slip = 1
        /\ SubSeq(all, 1, Plain) = SubSeq(sent, 1, Plain)
        /\ SLIP_ESC \notin ToSet(Received) =>
             /\ Len(all) = Plain
             /\ slip.part = SubSeq(Received, Len(FlattenSeq(all)) + Plain + 1, taken)

\* The dispatcher is given the messages of a stream, those with bytes to escape and
\* the ones after them excepted, if the stream does not begin with an END and its
\* first recv brings at least four bytes (server.c:1005-1112).  A recv may bring so
\* much that nothing is known from there on, but only one that leaves less than
\* eight of the bytes it asked for, counting three as brought with each END.
SlipFrames == Framed /\ (undefined # "no" => spare < 8)
=============================================================================
