------------------------------- MODULE LoWire -------------------------------
(***************************************************************************)
(* Messages as bytes (message.c, blob.c, bundle.c): how arguments are      *)
(* added to a message, how it is serialised, and how the bytes received    *)
(* are validated and taken apart; bundles, and the coercion of arguments   *)
(* to a method's types (server.c).                                         *)
(*                                                                         *)
(* Memory is a sequence of bytes.  The host is little-endian: an int32 of  *)
(* the host is the network's bytes in reverse.                             *)
(*                                                                         *)
(* The state is a message under construction and, apart from it, a piece   *)
(* of memory that came from the network: the state machine only walks      *)
(* through the inputs that the operators are checked for.                  *)
(***************************************************************************)
EXTENDS Integers, Sequences, FiniteSets, SequencesExt

CONSTANTS
    Paths,              \* paths of messages, as bytes
    Args,               \* type -> what is passed to lo_message_add_*
    Calls,              \* calls of lo_message_add: types and values, as passed
    Words,              \* what memory from the network is made of
    MaxArgs, MaxWords,  \* bounds
    LO_DEF_TYPE_SIZE,   \* first sizes of the buffers (8 and 8 in the code)
    LO_DEF_DATA_SIZE,
    LO_MAX_MSG_SIZE,
    LogPrecision        \* lo_pow2_over's logarithm of 2 is one part in so many too large
                        \* (354670: 0.69315 for 0.6931472)

VARIABLES
    msg,        \* the message: types, data and what is allocated for them
    ret,        \* what the last lo_message_add_* returned
    asked,      \* ghost: the arguments that were to be added
    garbled,    \* ghost: "data" when data without a type was left in the message,
                \* "room" when it was written beyond what is allocated, "other" when
                \* it may hold something else than was asked for
    outgoing,       \* what lo_send and its like have sent
    raw,        \* memory received
    cut         \* bytes of it that are missing at the end

wireVars == <<msg, ret, asked, garbled, outgoing, raw, cut>>

LO_INT32 == 105
LO_FLOAT == 102
LO_STRING == 115
LO_BLOB == 98
LO_INT64 == 104
LO_TIMETAG == 116
LO_DOUBLE == 100
LO_SYMBOL == 83
LO_CHAR == 99
LO_MIDI == 109
LO_TRUE == 84
LO_FALSE == 70
LO_NIL == 78
LO_INFINITUM == 73
Comma == 44
Dollar == 36
Hash == 35
MarkerA == <<239, 190, 173, 222, 239, 190, 173, 222>>
MarkerB == <<35, 170, 11, 240, 35, 170, 11, 240>>
Undefined == -9         \* what C leaves undefined

Empty == {LO_TRUE, LO_FALSE, LO_NIL, LO_INFINITUM}
Four == {LO_INT32, LO_FLOAT, LO_MIDI, LO_CHAR}
Eight == {LO_INT64, LO_TIMETAG, LO_DOUBLE}
lo_string_types == {LO_STRING, LO_SYMBOL}
lo_numerical_types == {LO_INT32, LO_FLOAT, LO_INT64, LO_DOUBLE}
Type == Empty \cup Four \cup Eight \cup lo_string_types \cup {LO_BLOB}

\* Values that lo_message_add_* can be given.
Passable(type, a) ==
    \/ type \in Empty /\ a = <<>>
    \/ type \in Four /\ a \in Seq(0 .. 255) /\ Len(a) = 4
    \/ type \in Eight /\ a \in Seq(0 .. 255) /\ Len(a) = 8
    \/ type \in lo_string_types /\ a \in Seq(1 .. 255)
    \/ type = LO_BLOB /\ a \in Seq(0 .. 255) /\ Len(a) <= LO_MAX_MSG_SIZE

\* What the application passes.  A value of a call is the eight bytes of an entry
\* of the va_list, or what it points to; floats and doubles are in another list.
\* A path that begins with "#" would make a message look like a bundle.
ASSUME WireAssumption ==
    /\ \A path \in Paths : path \in Seq(1 .. 255) /\ path # <<>> /\ path[1] # Hash
    /\ \A type \in DOMAIN Args : \A a \in Args[type] : Passable(type, a)
    /\ \A call \in Calls : /\ call.types \in Seq((1 .. 255) \ {LO_FLOAT, LO_DOUBLE})
                            /\ call.values \in Seq([1 .. 8 -> 1 .. 255])
    /\ \A word \in Words : word \in Seq(0 .. 255)
    /\ LO_DEF_TYPE_SIZE \in Nat /\ LO_DEF_TYPE_SIZE >= 2
    /\ LO_DEF_DATA_SIZE \in Nat \ {0} /\ LogPrecision \in Nat \ {0}
    /\ LO_MAX_MSG_SIZE \in Nat /\ LO_MAX_MSG_SIZE >= 8

-----------------------------------------------------------------------------
(* Memory *)

Drop(s, n) == SubSeq(s, n + 1, Len(s))
Zeros(n) == [i \in 1..n |-> 0]
RoundUp(n) == 4 * ((n + 3) \div 4)

\* The sum of a sequence of sizes.
Total(sizes) ==
    LET sum[i \in 0 .. Len(sizes)] == IF i = 0 THEN 0 ELSE sum[i - 1] + sizes[i]
    IN  sum[Len(sizes)]

\* strlen: the bytes before the first zero.
StrLen(mem) == SelectInSeq(mem, LAMBDA b : b = 0) - 1

lo_strsize(len) == 4 * (len \div 4 + 1)
Padded(s) == s \o Zeros(lo_strsize(Len(s)) - Len(s))

lo_blobsize(n) == RoundUp(4 + n)

\* The length at the head of a blob, in the order of the network; beyond the
\* limit all lengths are alike.
Length32(b) ==
    IF b[1] # 0 \/ b[2] # 0 THEN LO_MAX_MSG_SIZE + 1 ELSE 256 * b[3] + b[4]
Int32(n) == <<0, 0, n \div 256, n % 256>>

lo_arg_size(type, mem) ==
    CASE type \in Empty -> 0
      [] type \in Four -> 4
      [] type \in Eight -> 8
      [] type \in lo_string_types -> lo_strsize(StrLen(mem))
      [] type = LO_BLOB -> lo_blobsize(Length32(Reverse(SubSeq(mem, 1, 4))))

\* lo_arg_host_endian and lo_arg_network_endian, which do the same.
Swapped(type, arg) ==
    CASE type \in {LO_INT32, LO_FLOAT, LO_CHAR, LO_BLOB} ->
            Reverse(SubSeq(arg, 1, 4)) \o Drop(arg, 4)
      [] type = LO_TIMETAG -> Reverse(SubSeq(arg, 1, 4)) \o Reverse(SubSeq(arg, 5, 8))
      [] type \in {LO_INT64, LO_DOUBLE} -> Reverse(arg)
      [] OTHER -> arg

-----------------------------------------------------------------------------
(* Building *)

\* past: how many bytes were written beyond what is allocated for the data.
lo_message_new == [types |-> <<Comma>>, typesize |-> LO_DEF_TYPE_SIZE,
                   data |-> <<>>, datasize |-> 0, past |-> 0]

\* What an argument occupies in the host's memory.
Stored(type, a) ==
    CASE type \in lo_string_types -> Padded(a)
      [] type = LO_BLOB -> Reverse(Int32(Len(a))) \o a \o Zeros(lo_blobsize(Len(a)) - 4 - Len(a))
      [] OTHER -> a

Doubled(a, n) ==
    LET size[i \in 0 .. n] == IF i = 0 THEN a ELSE 2 * size[i - 1]
    IN  size[n]

\* Is a, doubled n times, enough for b in lo_pow2_over's eyes.  Its logarithm of 2
\* is a little large, which makes each doubling a little more than one.
Suffices(a, b, n) == b - Doubled(a, n) <= (n * Doubled(a, n)) \div LogPrecision

\* Doubling until it is enough, in one shift.  b doublings are.
lo_pow2_over(a, b) ==
    Doubled(a, CHOOSE n \in 0 .. b : Suffices(a, b, n) /\ \A k \in 0 .. n - 1 : ~Suffices(a, b, k))

\* Seeded bug: the buffer is doubled once, whatever is needed.
AddDataDoubling(m, bytes) ==
    LET size == IF m.datasize = 0 THEN LO_DEF_DATA_SIZE ELSE m.datasize
        need == Len(m.data) + Len(bytes)
    IN  [m EXCEPT !.data = @ \o bytes, !.datasize = IF need > size THEN 2 * size ELSE size]

lo_message_add_data(m, bytes) ==
    LET size == IF m.datasize = 0 THEN LO_DEF_DATA_SIZE ELSE m.datasize
        need == Len(m.data) + Len(bytes)
        room == lo_pow2_over(size, need)
    IN  [m EXCEPT !.data = @ \o bytes, !.datasize = room,
                  !.past = IF need > room THEN need - room ELSE @]

Full(m) == Len(m.types) + 1 >= m.typesize

lo_message_add_typechar(m, type) ==
    [m EXCEPT !.types = Append(@, type),
              !.typesize = IF Full(m) THEN 2 * @ ELSE @]

Typed(type, a) == [type |-> type, value |-> a]
Building == raw = <<>> /\ outgoing = <<>> /\ garbled = "no" /\ Len(asked) < MaxArgs

\* Memory for the data, if there are any, comes first, then the type, and the value
\* last.
WithArg(m, type, a) ==
    lo_message_add_typechar(
        IF type \in Empty THEN m ELSE lo_message_add_data(m, Stored(type, a)), type)

Add(type, a) ==
    /\ Building
    /\ msg' = WithArg(msg, type, a)
    /\ garbled' = IF msg'.past > 0 THEN "room" ELSE "no"
    /\ asked' = Append(asked, Typed(type, a))
    /\ ret' = 0
    /\ UNCHANGED <<outgoing, raw, cut>>

\* No memory for the data: the message is as it was.
AddDataFails(type) ==
    /\ Building /\ type \notin Empty
    /\ ret' = -1
    /\ UNCHANGED <<msg, asked, garbled, outgoing, raw, cut>>

\* No memory for the type: the data stays, unset and without a type.  Nothing
\* more is added then (bound).
AddTypeFails(type, a) ==
    /\ Building /\ Full(msg)
    /\ msg' = IF type \in Empty THEN msg
              ELSE lo_message_add_data(msg, Zeros(Len(Stored(type, a))))
    /\ garbled' = IF type \in Empty THEN "no" ELSE "data"
    /\ ret' = -1
    /\ UNCHANGED <<asked, outgoing, raw, cut>>

-----------------------------------------------------------------------------
(* lo_message_add: a type string and a list of values that the macro ends   *)
(* with two markers.  Types unknown are skipped, with a -1 in the end; a    *)
(* list not used up to the markers gives -2; after "$$" nothing is checked  *)
(* and 0 returned.  A string taken from the list is compared with the first *)
(* marker: a symbol ends the call then, a string is used all the same.  Of  *)
(* the entries at the end only the lower halves are compared with them.     *)

Values(call) == call.values \o <<MarkerA, MarkerB>> \o [i \in 1..Len(call.types) |-> Zeros(8)]
Marks(v, marker) == SubSeq(v, 1, 4) = SubSeq(marker, 1, 4)
Added(m, r) == [msg |-> m, ret |-> r]

\* The argument that an entry of the list is taken for, or points to.
FromList(type, v) ==
    CASE type \in Empty -> <<>>
      [] type \in {LO_INT32, LO_MIDI} -> SubSeq(v, 1, 4)
      [] type = LO_CHAR -> <<v[1], 0, 0, 0>>
      [] OTHER -> v
Pointers == lo_string_types \cup {LO_BLOB, LO_MIDI}

\* A turn of the loop over the types: those that are left and the next value.
AddTurn(s, types, v) ==
    LET type == Head(types) IN
    IF s.over THEN s
    ELSE IF IsPrefix(<<Dollar, Dollar>>, types) THEN [s EXCEPT !.over = TRUE, !.ret = 0]
    ELSE IF type \notin Type THEN [s EXCEPT !.ret = -1]
    ELSE IF type = LO_SYMBOL /\ v = MarkerA THEN [s EXCEPT !.over = TRUE, !.ret = -2]
    ELSE IF type \in Pointers /\ v \in {MarkerA, MarkerB, Zeros(8)}
         THEN [s EXCEPT !.over = TRUE, !.ret = Undefined]
    ELSE [s EXCEPT !.msg = WithArg(@, type, FromList(type, v)),
                   !.taken = IF type \in Empty THEN @ ELSE @ + 1]

lo_message_add_varargs_internal(m, call) ==
    LET list == Values(call)
        n == Len(call.types)
        turn[i \in 0 .. n] ==
            IF i = 0 THEN [msg |-> m, taken |-> 0, ret |-> 0, over |-> FALSE]
            ELSE LET s == turn[i - 1]
                 IN  AddTurn(s, SubSeq(call.types, i, n), list[s.taken + 1])
        end == turn[n]
    IN  Added(end.msg, IF end.over \/ (/\ Marks(list[end.taken + 1], MarkerA)
                                      /\ Marks(list[end.taken + 2], MarkerB))
                       THEN end.ret ELSE -2)

\* What a call asks for: the types up to "$$", each with the value in its place.
Checked(call) ==
    LET ends == {i \in 1 .. Len(call.types) - 1 :
                    call.types[i] = Dollar /\ call.types[i + 1] = Dollar}
    IN  IF ends = {} THEN call.types ELSE SubSeq(call.types, 1, Min(ends) - 1)
Place(types, i) == Cardinality({k \in 1 .. i : types[k] \in Type \ Empty})
WantedArg(call, i) ==
    LET type == call.types[i]
        place == Place(call.types, i)
    IN  Typed(type, IF type \in Empty \/ place > Len(call.values) THEN <<>>
                    ELSE FromList(type, call.values[place]))
Wanted(call) ==
    LET n == Len(Checked(call))
        want[i \in 0 .. n] ==
            IF i = 0 THEN <<>>
            ELSE IF call.types[i] \in Type THEN Append(want[i - 1], WantedArg(call, i))
            ELSE want[i - 1]
    IN  want[n]

\* The call reports an error, or values are missing and nobody looked.
Astray(call, r) ==
    \/ r # 0
    \/ /\ Checked(call) # call.types
       /\ Place(call.types, Len(Checked(call))) > Len(call.values)

Garbled(call, r) ==
    IF r.msg.past > 0 THEN "room" ELSE IF Astray(call, r.ret) THEN "other" ELSE "no"

lo_message_add(call) ==
    /\ LET r == lo_message_add_varargs_internal(msg, call) IN
       /\ msg' = r.msg
       /\ ret' = r.ret
       /\ garbled' = Garbled(call, r)
    /\ asked' = Wanted(call)
    /\ UNCHANGED <<outgoing, raw, cut>>

-----------------------------------------------------------------------------
(* Serialising *)

ArgsIn(types, mem) ==
    LET end[i \in 0 .. Len(types)] ==
            IF i = 0 THEN 0
            ELSE LET e == end[i - 1] IN e + lo_arg_size(types[i], Drop(mem, e))
    IN  [i \in 1 .. Len(types) |-> SubSeq(mem, end[i - 1] + 1, end[i])]

lo_message_get_argv(m) == ArgsIn(Tail(m.types), m.data)

lo_message_length(m, p) ==
    lo_strsize(Len(p)) + lo_strsize(Len(m.types)) + Len(m.data)

lo_message_serialise(m, p) ==
    LET argv == lo_message_get_argv(m) IN
    Padded(p) \o Padded(m.types)
      \o FlattenSeq([i \in DOMAIN argv |-> Swapped(m.types[i + 1], argv[i])])

\* An element of a bundle, a message with its path or a bundle, is what its own
\* length and serialisation are.
BundleWord == <<35, 98, 117, 110, 100, 108, 101, 0>>

lo_bundle_length(b) == 16 + Total([i \in DOMAIN b.elements |-> b.elements[i].length + 4])

lo_bundle_serialise(b) ==
    BundleWord \o b.ts
      \o FlattenSeq([i \in DOMAIN b.elements |->
                        Int32(b.elements[i].length) \o b.elements[i].bytes])

MessageElement(m, p) ==
    [length |-> lo_message_length(m, p), bytes |-> lo_message_serialise(m, p)]
BundleElement(b) == [length |-> lo_bundle_length(b), bytes |-> lo_bundle_serialise(b)]

-----------------------------------------------------------------------------
(* lo_send, lo_send_timestamped and lo_send_from build a message, alone or in *)
(* a bundle, and send it unless lo_message_add reports something.             *)

lo_send_varargs_internal(m, path) == lo_message_serialise(m, path)

lo_send_timestamped_varargs_internal(m, path, ts) ==
    lo_bundle_serialise([ts |-> ts, elements |-> <<MessageElement(m, path)>>])

LO_TT_IMMEDIATE == <<0, 0, 0, 0, 0, 0, 0, 1>>

lo_send_from_varargs_internal(m, path, ts) ==
    IF ts = LO_TT_IMMEDIATE THEN lo_message_serialise(m, path)
    ELSE lo_send_timestamped_varargs_internal(m, path, ts)

lo_send(call, path) ==
    /\ LET r == lo_message_add_varargs_internal(lo_message_new, call) IN
       /\ ret' = r.ret
       /\ garbled' = Garbled(call, r)
       /\ IF r.ret # 0 THEN UNCHANGED outgoing
          ELSE \/ outgoing' = lo_send_varargs_internal(r.msg, path)
               \/ outgoing' = lo_send_timestamped_varargs_internal(r.msg, path, LO_TT_IMMEDIATE)
               \/ \E ts \in {LO_TT_IMMEDIATE, Zeros(8)} :
                     outgoing' = lo_send_from_varargs_internal(r.msg, path, ts)
    /\ asked' = Wanted(call)
    /\ UNCHANGED <<msg, raw, cut>>

-----------------------------------------------------------------------------
(* Validating: a length, or -1 for any of the errors *)

\* Seeded bug: what follows the zero is not looked at.
ValidateUnpadded(mem) ==
    LET i == StrLen(mem) IN
    IF i < 0 \/ lo_strsize(i) > Len(mem) THEN -1 ELSE lo_strsize(i)

lo_validate_string(mem) ==
    LET i == StrLen(mem) len == lo_strsize(i) IN
    IF i < 0 \/ len > Len(mem) \/ \E k \in i + 1 .. len : mem[k] # 0 THEN -1 ELSE len

\* The code reads the length before it looks at the size of the memory; what
\* it reads beyond the end is refused in any case.
lo_validate_blob(mem) ==
    IF Len(mem) < 4 THEN -1
    ELSE LET dsize == Length32(mem) len == lo_blobsize(dsize) IN
         IF dsize > LO_MAX_MSG_SIZE \/ len > Len(mem)
            \/ \E k \in 5 + dsize .. len : mem[k] # 0
         THEN -1 ELSE len

lo_validate_arg(type, mem) ==
    CASE type \in Empty -> 0
      [] type \in Four -> IF Len(mem) >= 4 THEN 4 ELSE -1
      [] type \in Eight -> IF Len(mem) >= 8 THEN 8 ELSE -1
      [] type \in lo_string_types -> lo_validate_string(mem)
      [] type = LO_BLOB -> lo_validate_blob(mem)
      [] OTHER -> -1

\* The places the loop over the elements comes to; each turn takes the four bytes
\* of a length or more.
ElementsFit(mem) ==
    LET n == Len(mem)
        at[i \in 0 .. n \div 4] ==
            IF i = 0 THEN 0
            ELSE LET p == at[i - 1]
                     elem_len == Length32(SubSeq(mem, p + 1, p + 4))
                 IN  IF p < 0 \/ n - p < 4 THEN p
                     ELSE IF elem_len > n - p - 4 THEN -1
                     ELSE p + 4 + elem_len
    IN  at[n \div 4] = n

lo_validate_bundle(mem) ==
    /\ lo_validate_string(mem) = 8 /\ SubSeq(mem, 1, 8) = BundleWord
    /\ Len(mem) >= 16 /\ ElementsFit(Drop(mem, 16))

lo_get_path(mem) == SubSeq(mem, 1, StrLen(mem))

Refused(error) == [error |-> error]

\* The arguments one by one, or the error.  Bytes left over are an error too.
Deserialised(types, mem) ==
    LET end[i \in 0 .. Len(types)] ==
            IF i = 0 THEN 0
            ELSE LET e == end[i - 1]
                     len == lo_validate_arg(types[i], Drop(mem, e))
                 IN  IF e < 0 \/ len < 0 THEN -1 ELSE e + len
        size == end[Len(types)]
    IN  IF size < 0 THEN Refused("LO_EINVALIDARG")
        ELSE IF size # Len(mem) THEN Refused("LO_ESIZE")
        ELSE [error |-> "none",
              argv |-> [i \in 1 .. Len(types) |->
                           Swapped(types[i], SubSeq(mem, end[i - 1] + 1, end[i]))]]

lo_message_deserialise(mem) ==
    LET n == lo_validate_string(mem)
        rest == Drop(mem, n)
        k == lo_validate_string(rest)
        types == SubSeq(rest, 1, StrLen(rest))
        args == Deserialised(Tail(types), Drop(rest, k))
    IN  CASE mem = <<>> -> Refused("LO_ESIZE")
          [] mem # <<>> /\ n < 0 -> Refused("LO_EINVALIDPATH")
          [] n >= 0 /\ rest = <<>> -> Refused("LO_ENOTYPE")
          [] n >= 0 /\ rest # <<>> /\ k < 0 -> Refused("LO_EINVALIDTYPE")
          [] n >= 0 /\ k >= 0 /\ rest[1] # Comma -> Refused("LO_EBADTYPE")
          [] n >= 0 /\ k >= 0 /\ rest[1] = Comma ->
               IF args.error # "none" THEN args
               ELSE [error |-> "none", argv |-> args.argv, types |-> types, typesize |-> k,
                     data |-> FlattenSeq(args.argv), datasize |-> Len(rest) - k]

-----------------------------------------------------------------------------
(* Coercion *)

lo_can_coerce(a, b) ==
    \/ a = b
    \/ {a, b} \subseteq lo_numerical_types
    \/ {a, b} \subseteq lo_string_types

Coercions(type) == {t \in Type : lo_can_coerce(type, t)}
AppendEach(specs, types) == {Append(spec, t) : spec \in specs, t \in types}

\* The method types that the arguments can be coerced to.
Coercible(types) ==
    LET specs[i \in 0 .. Len(types)] ==
            IF i = 0 THEN {<<>>}
            ELSE AppendEach(specs[i - 1], Coercions(types[i]))
    IN  specs[Len(types)]

\* What lo_coerce writes: the argument as it is, a string up to its zero, or a
\* number of the method's type.
lo_coerce(to, from, arg) ==
    IF to = from THEN Len(arg)
    ELSE IF to \in lo_string_types THEN StrLen(arg) + 1
    ELSE lo_arg_size(to, <<>>)

\* Seeded bug: the size is counted for the types of the message.
CoercedSizeOfMessage(spec, argv) == Total([i \in DOMAIN argv |-> Len(argv[i])])

\* dispatch_method's size of the memory for all of them ...
CoercedSize(spec, argv) == Total([i \in DOMAIN argv |-> lo_arg_size(spec[i], argv[i])])

\* ... and where the i-th is written.
CoercedAt(spec, argv, i) == CoercedSize(SubSeq(spec, 1, i - 1), SubSeq(argv, 1, i - 1))

-----------------------------------------------------------------------------
WireInit ==
    /\ msg = lo_message_new /\ ret = 0 /\ asked = <<>> /\ garbled = "no"
    /\ outgoing = <<>> /\ raw = <<>> /\ cut = 0

\* The memory to take apart, word by word; at last some bytes of it are lost.
Receive ==
    /\ msg = lo_message_new /\ ret = 0 /\ cut = 0 /\ outgoing = <<>>
    /\ \/ /\ Len(raw) < 4 * MaxWords
          /\ \E w \in Words : raw' = raw \o w
          /\ UNCHANGED cut
       \/ raw # <<>> /\ cut' \in 1..3 /\ UNCHANGED raw
    /\ UNCHANGED <<msg, ret, asked, garbled, outgoing>>

WireNext ==
    \/ \E type \in DOMAIN Args : \E a \in Args[type] :
          Add(type, a) \/ AddDataFails(type) \/ AddTypeFails(type, a)
    \/ msg = lo_message_new /\ ret = 0 /\ raw = <<>> /\ outgoing = <<>> /\ \E call \in Calls :
          lo_message_add(call) \/ \E path \in Paths : lo_send(call, path)
    \/ Receive

WireSpec == WireInit /\ [][WireNext]_wireVars

-----------------------------------------------------------------------------
(* Properties *)

\* The arguments of a message in the host's memory, as they were asked for.
HoldsAsked(m) ==
    /\ m.types = <<Comma>> \o [i \in DOMAIN asked |-> asked[i].type]
    /\ m.argv = [i \in DOMAIN asked |-> Stored(asked[i].type, asked[i].value)]

MessageRoundTrip(path) ==
    LET bytes == lo_message_serialise(msg, path)
        back == lo_message_deserialise(bytes)
    IN  /\ Len(msg.types) < msg.typesize /\ Len(msg.data) <= msg.datasize
        /\ Len(bytes) = lo_message_length(msg, path)
        /\ back.error = "none"
        /\ lo_get_path(bytes) = path
        /\ back.types = msg.types /\ back.data = msg.data
        /\ garbled = "no" /\ outgoing = <<>> => HoldsAsked(back)

BundleValid(path) ==
    LET e == MessageElement(msg, path)
        inner == [ts |-> Zeros(8), elements |-> <<e>>]
        outer == [ts |-> Zeros(8), elements |-> <<e, BundleElement(inner), e>>]
        bytes == lo_bundle_serialise(outer)
    IN  Len(bytes) = lo_bundle_length(outer) /\ lo_validate_bundle(bytes)

SentAsAsked ==
    LET bytes == IF lo_validate_bundle(outgoing) THEN Drop(outgoing, 20) ELSE outgoing
    IN  /\ ret = 0 /\ lo_get_path(bytes) \in Paths
        /\ garbled = "no" => HoldsAsked(lo_message_deserialise(bytes))

\* What lo_pow2_over's logarithm leaves out is small: of a size doubled n times, n
\* parts in LogPrecision.
NarrowMiss ==
    \E n \in 0 .. msg.datasize : /\ msg.datasize = Doubled(LO_DEF_DATA_SIZE, n)
                                 /\ msg.past <= (n * msg.datasize) \div LogPrecision

\* A message built by lo_message_add_*, one by one or by lo_message_add, stays
\* within what is allocated for it, unless the rounded logarithm of lo_pow2_over
\* makes its buffer too small, by a few parts in LogPrecision at most
\* (message.c:59-60); short of that it has the length that lo_message_length says
\* when it is serialised, and comes back from lo_message_deserialise with the
\* path, types and values that were asked for; a bundle of it, and of another
\* bundle of it, passes lo_validate_bundle.  This is so too when there was no
\* memory for some argument's data: only a type string that cannot grow leaves
\* data behind that belongs to no argument.  A call of lo_message_add or
\* lo_send that returns 0 added, or sent, just what it was asked to, also when
\* its types and its values do not agree in number, unless "$$" ends the types;
\* lo_send sends nothing otherwise.
BuildRoundTrip ==
    /\ msg.past = 0 \/ NarrowMiss
    /\ garbled \in {"data", "room"}
       \/ \A path \in Paths : MessageRoundTrip(path) /\ BundleValid(path)
    /\ outgoing = <<>> \/ garbled = "room" \/ SentAsAsked

\* Memory that lo_message_deserialise accepts is what lo_message_serialise makes
\* of the message it returns, byte by byte: nothing in it was skipped, no
\* argument reaches beyond the end, and no two pieces of memory mean the same.
AcceptedIsCanonical ==
    LET mem == SubSeq(raw, 1, Len(raw) - cut)
        m == lo_message_deserialise(mem)
    IN  m.error = "none" => lo_message_serialise(m, lo_get_path(mem)) = mem

\* The memory that dispatch_method allocates for coerced arguments holds what
\* lo_coerce writes of each, for every type the method may want.
CoercionFits ==
    garbled \in {"data", "room"} \/
    LET argv == lo_message_get_argv(msg)
        types == Tail(msg.types)
    IN  \A spec \in Coercible(types) : \A i \in DOMAIN argv :
          CoercedAt(spec, argv, i) + lo_coerce(spec[i], types[i], argv[i])
             <= CoercedSize(spec, argv)
=============================================================================
