# liblo in TLA+

liblo is a C implementation of the Open Sound Control protocol. This directory
holds TLA+ models of the parts of it where order, timing and state are hard to
get right, the TLC runs that check them on small instances, and proofs of the
most important facts for every instance. All source paths below are relative to
the repository; line numbers are those of `src/server.c` unless another file is
named.

## The system

| part | state it keeps | operations | hard behaviour | what makes it correct | module |
|---|---|---|---|---|---|
| event queue and receive loop (`src/server.c`) | `queued`, `flags`, `addr`, the socket's buffer | `lo_server_recv`, `lo_server_recv_noblock`, `lo_server_wait`, `lo_server_enable_queue`, `lo_server_dispatch_data`, `dispatch_data`, `queue_data`, `dispatch_queued` | timeouts against arriving datagrams; methods that call back into the server while a bundle or the queue is dispatched | events once, in order, never early, in the end; bundles in order; start and end callbacks nest; the source is the sender | `LoEventQueue` |
| TCP sockets and streams (`src/server.c`) | `sockets`, `contexts`, `sources` | `lo_server_recv_raw_stream`, `..._stream_socket`, `lo_server_add_socket`, `lo_server_del_socket` | split and merged messages, connections that come and go during a pass over the table | each message taken once, whole, in order, from the right peer, in the end | `LoStreamServer` |
| server thread (`src/server_thread.c`), methods (`src/server.c`), error context | `thread`, `active`; the list `first`; a global mutex and context | start, stop, free, `thread_func`; add, delete, `dispatch_method`; `lo_throw`, `lo_error_get_context` | a list shared without a lock, stop from a method, failed start, errors within an error handler | one thread per server, stop returns, the list is what was added, methods called in order and none skipped, what is undefined has a known cause | `LoServerThread` |
| enumeration of methods (`src/server.c`) | the same list | the end of `dispatch_method` | methods that take the request | a client that explores finds every method | `LoEnumeration` |
| sending, addresses, creation of servers (`src/send.c`, `src/address.c`, `src/server.c`) | `socket` and `ownsocket` of an address, a server's `sockets` and `sources`, `lo_client_sockets` | `lo_server_new`, `lo_server_free`, accept, receive, `lo_address_free`, `send_data`, `lo_send_message_from`, `lo_send_bundle_from` | descriptors lent and numbers used again, retries, short sends, every system call failing | a kept descriptor is open and the same socket, an open socket has an owner, frames stay whole, a message is sent once | `LoSockets` |
| bundles and messages (`src/bundle.c`, `src/message.c`) | reference counts, elements | new, add, incref, free, `lo_bundle_free_recursive` | sharing, cycles, frees in any order | counts are right, the library frees nothing that is still held, everything in the end, no cycle | `LoBundle` |
| C++ classes (`lo/lo_cpp.h`) | `_handlers`, the error handler | `add_method`, `del_method`, construction, destruction | destruction of what a thread may still call | a closure that may be called is kept | `LoHandlers` |
| wire format (`src/message.c`, `src/blob.c`, `src/bundle.c`) | a message's `types` and `data` with their allocated sizes | `lo_message_add*`, `lo_send` and its like, serialise, validate, deserialise, coerce | lengths at a boundary, buffers that grow, arguments that do not agree with the types | what was asked for is sent and read back, only canonical memory is accepted | `LoWire` |
| SLIP (`src/server.c`, `src/send.c`) | `is_slip`, `slip_state`, the buffer | `slip_encode`, `detect_slip`, `slip_decode` | escapes, reads cut anywhere | messages come out as they were sent | `LoSlip` |
| patterns (`src/pattern_match.c`) | none | `lo_pattern_match` | backtracking | agrees with the meaning of the tokens | `LoPattern` |
| URLs (`src/address.c`, `src/server.c`) | none | `lo_url_get_*`, `lo_address_new_from_url`, `lo_address_get_url`, `lo_server_get_url` | URLs cut short, IPv6 hosts, files | what is read is what was written | `LoUrl` |

`components` in PROJECT.json says of each part how much of it is modelled.

How they interact: the thread (or the application) calls the receive loop; that
reads a datagram, or lets the stream code take a message out of a buffer; the
message goes through `dispatch_data`, at once to the methods or into the queue,
from where the receive loop later gives it to the methods. Methods are
callbacks, and may call anything again: the queue switch, `lo_server_dispatch_data`,
sending (which adds sockets to the server's table), the method table, the thread's
stop. Nothing is locked except the error context. The hazards this gives rise to
are listed, each at its line, in PROJECT.json.

## What is here

| module | models | remarks |
|---|---|---|
| `LoScheduler` | what the event queue promises | abstract: a set of pending events, fired earliest first |
| `LoEventQueue` | receive loop, bundle dispatch and queue of a datagram server | implements `LoScheduler` |
| `LoEventQueueProofs` | theorems about `LoEventQueue` and `LoScheduler` | all its safety properties and the refinement |
| `LoStreamServer` | the sockets and buffers of a TCP server | one step for each system call |
| `LoStreamServerProofs` | theorems about `LoStreamServer` | all its safety properties |
| `LoServerThread` | server thread, list of methods, error mutex | the composition of the three that share an unlocked server |
| `LoServerThreadProofs` | theorems about `LoServerThread` | all its safety properties |
| `LoSockets` | who opens, keeps, lends and closes descriptors | servers, addresses and senders over one table of numbers |
| `LoSocketsProofs` | theorems about `LoSockets` | all its properties |
| `LoBundle` | reference counts of messages and bundles | one step for each element freed |
| `LoHandlers` | closures of the C++ classes | `del_method` is two steps |
| `LoOwnership` | `LoBundle` and `LoHandlers` side by side | no state in common |
| `LoOwnershipProofs` | theorems about these two | all their properties |
| `LoWire`, `LoSlip`, `LoPattern`, `LoUrl`, `LoEnumeration` | bytes, streams, patterns, URLs, enumeration | operators, checked over all small inputs |
| `LoCodec` | these five side by side | no state in common |
| `LoWireProofs` | theorems about `LoWire` | all its properties |
| `LoCodecProofs` | theorems about `LoSlip`, `LoPattern`, `LoUrl` and `LoEnumeration` | all their properties |
| `LoSequenceLemmas` | | what the proofs share about numbers and sequences |
| `MC...` | instances for TLC | |

### LoEventQueue

`queue` is `s->queued`, `enqueue` the flag LO_SERVER_ENQUEUE, `addr` is `s->addr`,
`inbox` the kernel's buffer of the socket, `pc` and `deadline` the poll the thread
is in. The C stack is explicit: `stack` holds one record for each `dispatch_data`
that is in the loop over a bundle's elements and each `dispatch_queued`, with
their local variables (`now`; `disp_time`, `dispatch_all`, `tailhead`). That is
what lets a method be called in the middle of either, and change the queue under
it. Each step is a piece of code between two points where a method runs, a poll
returns or the clock may move. A queue entry has a number `seq`, which stands
for the identity of its node; `ListFrom(q, n)` is the list from a node on, and so
what `s->queued = tailhead` leaves. When `dispatch_queued` frees a node that a
method has already had freed, `pc` becomes "undefined" and nothing more is said.

What a method does is a parameter: `HandlerCalls[m]` is the set of things the
method that handles `m` may do. The search for methods is taken as one step. Messages
that do not deserialise and bundles that do not validate are the two values
`BadMessage` and `BadBundle`. The clock counts ticks, `Early` is the 0.01 s within
which an event counts as due. An error on the socket (`PollError`) makes the call return.

Time is in whole ticks; a bundle's timetag is compared with a clock that may have moved
since the poll returned, which is the race that matters.

### LoStreamServer

A stream is a sequence of units `<<message, j>>`; unit 1 stands for the four bytes
of the count prefix. Index `i` of `sockets` and `contexts` is index `i` of the C
arrays, and the two are separate, as in the code: `lo_server_del_socket` moves the
first and not the second. `BufferSize` is the loop that doubles a buffer, with
`MaxBuffer` for LO_MAX_MSG_SIZE and 0 for a loop that does not end. `ready` and
`failed` are the results of the poll that the loop of `lo_server_recv_raw_stream`
runs over, `data` and `sock` its local variables. A descriptor is the lowest free
number, so numbers are used again. Between any two steps clients connect, send any
part of what they have to send, close, or are lost. `errno` changes only by a
failing `recv`, the listening socket does not fail, and memory does not run out.

### LoServerThread

Actor 0 is the application's thread, the others are those that
`lo_server_thread_start` creates. `first`, `next` and `method` are the linked list of
methods, node by node, and a node's number is never used again, so that reading a
freed one can be told. `lo_server_thread_stop` is a step each for its test of `active`
(156), for clearing it (`ClearActive`, 158) and for the join (`pthread_join`, 162), by the application
or in a handler, so that two of them may both find it set; `lo_server_thread_start` is one for
the test and the setting, which only the application does, and one for `pthread_create`.
`used` counts what was done of each kind, and one of `Bounds` says how much may be.
A receive returns with nothing, brings a message or an error, or, on a stream server
(`protocol`), blocks (`RecvBlocks`: the poll without a timeout after an accept, 1166, 1224;
the buffer loop that does not end, 981) until a client acts, which none need ever do. A
dispatch that called nothing, or whose last method returned 1, walks the list a second time when the path
ends in a slash (`Enumerate`). `lo_server_add_method` allocates a node (`AddBegin`), goes along
the list one node a step (`AddStep`) and links the node (`AddLink`);
`lo_server_del_method` is one step for each node it looks at, `dispatch_method` one for
each node and two for a call; `op` and `it` are their local pointers. A handler's call ends
when it pleases, and until then it may add, delete and stop. `mutex` and `context`
are `lo_error_context_mutex` and `lo_error_context`. What C leaves undefined
(a freed node read, the server freed under its thread, a join of no thread or a second one) sets
`undefined`, and nothing more is followed. The history variables `clash`,
`underfoot`, `selfStopped` and `createFailed` record what the properties except.

### LoSockets

A descriptor is a number, the lowest that is free; a *handle* is a number with the
socket that it stood for when it was kept, so that one can say that it has gone stale.
Every test in the code uses the number alone, and so does every guard here. `call`
is the call in progress, one at a time, with a step for each system call; peers act
in between. `wire` of a socket says what its stream ends in: whole frames, a
prefix, a frame cut short, or something after that. `lost` and `shared` name the
sockets that the code drops or that two hold, each at the one place in the code where
it happens. Once a stale number has been used for another socket (`astray`) nothing
more is followed.

### LoBundle and LoHandlers

The user of the library is part of `LoBundle`, and may free any object it likes at any
time, also one that a bundle holds: `lo_send_timestamped` itself frees the message first and the bundle,
shallowly, after it (`src/send.c:141-142`, 202-204), and so do the tests (`src/testlo.c:1481`).
`mine` is the number of references the user has to an object; a shallow free
gives it those of the bundle to its elements, and a free beyond what it has makes it negative
(`Overfreed`), until it is made up for. A call that comes to an object that is gone sets
`undefined`, and nothing more is followed. A new object does not come to lie where a bundle
still has a freed one. `lo_bundle_free_recursive` is one
step for each element, and `calls` the stack of its recursion. `lo_bundle_circular` is
defined by reachability; the code's walk with its list of parents is `walk_tree`, and
`WalkFindsCircle` says that the two agree. The definition is what the other proofs use.

`LoHandlers` follows one C++ `Server` or `ServerThread` from its construction to
its end: the methods liblo has, the closures filed under "path,types", and the order in
which `del_method` and the destructors take the two apart. The methods, and the
closures under one key, are sets: no property is about their order. `CppSpec` is its
specification.

### LoWire, LoSlip, LoPattern, LoUrl, LoEnumeration

Their operators carry the names of the functions they stand for, and the state
machine only walks through inputs. `LoWire` has memory as bytes, on a little-endian
host; `Args`, `Calls` and `Words` are the arguments, the calls of `lo_message_add`
and the words of which memory from the network is made. A value of a call is the eight
bytes of its `va_list` entry, of which a type takes what it needs; those of the end-of-list
markers are compared as the code does, an `int` with the lower half of the marker. Each
element of a bundle is a record of its `length` and its `bytes`, as in `b->elmnts`. `Int32`
has in its third byte what the two upper bytes of a length hold, so that lengths have no
bound. A failure of memory is followed in `lo_message_add_string` and its like and not within
a call of `lo_message_add`. `lo_pow2_over` is the macro that is compiled, with
its rounded logarithm: `LogPrecision` says by how much 0.69315 is larger than log 2
(1/354670), and a message has in `past` by how many bytes its data were written beyond the buffer.
`LoSlip` has a line of bytes
that `recv` cuts anywhere, and beside what the buffer holds its size and the place of the
next byte (`room`). `Fill` is what each turn of `slip_decode` makes of them: at an END four bytes
are taken for the next length, and the buffer is doubled when the rest of the recv would
not fit (1097). If it is, if a byte is put behind the buffer, or if a recv brings more than the
memory it is read to (1013: four bytes less than is asked for), then `RecvBeyond` ends the behaviour in
`undefined`, and `Recv` goes on as if there had been room, which is as possible. `LoPattern` writes a pattern token by token and a string,
and compares `lo_pattern_match` on the text with `Matches`, the meaning of the tokens.
The pointers of the code are places in the two texts. What it finds from a place of the
pattern on is the set of places of the string from which on that matches, and
the recursive call that `*` and `{` make is a look at that set; the loops over a set in brackets
and a list in braces are recursive functions of the place, too. Patterns that are not well
formed (`PatternAssumption`) are left out: the code would read behind their end.
`LoUrl` has `sscanf` with its three results; a URL that ends in the middle of a format
gives EOF, which the code takes for success, and so memory that was never set.
`LoEnumeration` asks a server for the names below each path.

## Runs

| run | expected | question |
|---|---|---|
| `event_queue` | pass | Do events come once, in order, never early, promptly and in the end, and bundles in order, when the application and the methods of messages that were not queued call back into the server? |
| `event_queue_reentrant` | pass | What is left when methods of queued messages do so too: the order of the queue, and nothing early. |
| `event_queue_lost` | violation of `NothingLost` | The method of a queued message dispatches a bundle of the future: its event is lost, because `tailhead` was read before the call (1939). |
| `event_queue_source` | violation of `SourceIsSender` | A queued message is attributed to the peer whose datagram came last (1741). |
| `event_queue_nesting` | violation of `BundleCallbacksNest` | A bundle with a bad element gets a start and no end callback (1647). |
| `stream_server` | pass | Are streams reassembled and served, and is the table right, whatever clients do between two system calls? |
| `stream_dropped` | violation of `NothingDropped` | Two sockets ready in one pass: the first one's message is cleared (966). |
| `stream_buffers` | violation of `WaitingSeen` | A connection closes below one with buffered data: the buffer is no longer its own (1594). |
| `server_thread` | pass | A thread that dispatches while the application and its methods add, delete, stop, start and free: or have errors, within each other too: what stays defined, what is called, is there one thread, whose context does an error handler get, does stop return? |
| `sockets` | pass | Two addresses and two servers that open, lend, use again and close descriptors while calls fail: what goes stale, leaks, is cut, is sent twice? |
| `ownership` | pass | Is everything freed once and in the end, is no bundle inside itself, is a closure that may be called kept? |
| `codec` | pass | Do the pure parts agree with their reference definitions? |

`event_queue` checks `TypeOK`, `ExactlyOnce` (nothing lost and nothing repeated),
`BundleOrder`, `PromptDespiteTraffic`, `EventuallyFired`, and `RefinesScheduler`,
the refinement of `LoScheduler` with `pending` mapped to the entries whose method
has not been called. `event_queue_reentrant` checks `QueueOrdered` and `NeverEarly`.

`stream_server` checks `TableMatches` (sockets, descriptors and sources agree, and are
well typed), `StreamsInStep` (each stream is cut into whole messages, in order, none
skipped), `SourceIsPeer`, `BlocksOnlyAfterAccept` (the poll without timeout can only
block after an accept: then the event queue waits for traffic), `SpinsOnlyOnLong`
(only a message of more than half the limit can hang the buffer loop),
`EventuallyTaken` and `ClosedIsRemoved`. Several of these say exactly when the code
is right and name the case when it is not: `shifted` (a socket removed below one with
data), a message `dropped`, an `errno` left over from an earlier call, a connection
whose failure poll reports as POLLERR alone (every later receive then returns 0
before it could be removed), and, for `SourceIsPeer`, a queued message whose descriptor is
closed or another's by the time it is dispatched. The two violation runs show the first two.

`server_thread` checks `ListIsRegistered` (the pointers hold what was added and not
deleted), `CalledInOrder` and `NoneSkipped` for every dispatch, `OneThread`,
`UndefinedIsNamed`, `ContextIsThrowers` and the liveness of `StopReturns`. They hold but for causes that are named in them: two actors changing the list
at once, a method deleted while a dispatch is at it, a method that stops its own thread
(`pthread_join` fails at once, `active` is 0: a start then makes a second thread, a
free takes the server from under the first, and the method, if it stops again, and the
application may both find `active` set and join the second thread twice), a
`pthread_create` that failed (`active` stays 1, and a stop joins nothing), an error handler that
causes another error or stops the thread while it has the mutex, and, for `StopReturns`, a
stream server's thread that is in the poll without a timeout (`Deaf`): it goes on only
when a client acts.

`sockets` checks `HeldIsOpen`, `AccountedFor`, `FramesWhole` and `SentOnce`. What they
except is what the code does: a socket lent to a server is closed by either of the
two holders and the other's number goes stale; a port found taken, an unknown
interface, an answer that failed and an address that lent its socket before leave a
socket open that nobody will close; a short send on a non-blocking socket is followed
by the next frame.

`ownership` checks `TypeOK`, `CountsMatch`, `NoDangling`, `Acyclic`, `WalkFindsCircle`
and `NothingLeaks` of bundles. `NoDangling` says who is to blame for a freed object in a
bundle, or for a use of one: the user who freed it once too often, and never a free of
another bundle that shared it. `CallbacksKept` of closures excepts a dispatch between the two halves of `del_method`, methods added with NULL and
deleted with an empty string or the reverse, and a creation that fails in the two
constructors that use the error context unseen.

`codec` checks `BuildRoundTrip` (within what is allocated, but for the error of the
rounded logarithm, `NarrowMiss`), `AcceptedIsCanonical`, `CoercionFits`, `SlipFrames` (up
to the first byte to be escaped: `slip_decode` does not advance past it; and until a recv that
leaves less than eight of the bytes it asked for, counting three as brought with each END, which
may put bytes outside the buffers),
`PatternAgrees` (but for lists in braces that do not end the pattern or have
alternatives of different lengths), `UrlReadsBack` (but for an IPv6 address with a digit
after its first colon, whose digits are taken for the port) and
`EnumerationFindsAll`.

Bounds. `event_queue`: clock 0..4 with timetags 0, 2 and 3, so that a bundle can be
past, due or in the future when it comes, and events of one timetag come from different
bundles; one datagram in the socket buffer at a time, any order of arrival, invalid
ones without end; `PollCap` 2 and `MaxDelay` 3, so that both caps matter. Bundles: a
flat one, one with a nested bundle, a bad bundle and a bad message, an immediate one,
and one that a method or the application dispatches. Stack depth 6 (4 in the reentrant
run, where recursion has no end): larger than any nesting the non-reentrant run
reaches, so the bound cuts nothing there. Streams: two clients, messages of 2, 2 and 6
units, buffers of 4 and 8 units: two messages fit in a buffer, one message needs it
doubled, fills it exactly (so that recv is repeated), and is longer than half of the
largest. Threads: two methods from the start, two starts
(so that there can be two threads), and either (`Bounds`) one message, one deletion and a third method, or
two messages and three errors (so that one is thrown within the other while a third is): lists and
errors have no state in common but the actors. Sockets: three descriptors and three sockets in all, so that
a number is used again for another socket; two attempts at a port. Bundles: three, since
a circle of two is found by a look at neighbours and one of three is not, two elements
each and up to three references (bundles are symmetric). Closures: three. Codec: three arguments in buffers that begin at
3 and 4 bytes, so that both grow, types and values that agree and do not, and `LogPrecision` 4, with which the rounded logarithm falls
short of buffers as small as these (with the code's 354670 it first does at 131073 bytes, 131072 of
which are allocated); five words of
memory with up to three bytes cut off; two SLIP messages, each of which may have
escapes, reads of up to 16 bytes, and buffers that begin at 12 bytes (`FirstSize` 6) and end at 64, so that
all three ways to write outside them occur; patterns of three tokens and strings of four
characters; names of six symbols, which holds an IPv6 address with a digit in
any group; three methods.

Fairness. The thread keeps calling the receive functions and goes on in what it
called (`thread_func` of `src/server_thread.c` does nothing else; `Application`, `Poll`,
`Run`, `Server`, `RunThread`, which may lead into a receive that blocks), and time passes (`Tick`, `Due`). Strong fairness of
`WaitReady \/ WaitTimeout` says that the socket does not report an error at every single
poll. In `LoServerThread` an actor also goes on in a list operation, a join that can
return, a mutex that is free and an error handler, which is to say that handlers
return; nobody need ever ask for anything. Clients and the network owe nothing: no
datagram, connection or byte need ever come, and so nothing gets a blocked thread out
of its poll (`ClientActs` is not fair).

Deadlock is not checked where stopping is right: after undefined behaviour, when
all clients are done and the server sleeps in a poll without timeout, when the
thread's owner has freed it or a handler waits for its own mutex, and when inputs or
sockets are used up.

## Proofs

Every theorem is for all values of the constants that the module's named assumptions
allow. Those only say of what kind a constant is and that a bound is a number, except that
a poll is longer than the 0.01 s within which an event is due, that the largest buffer is
at least twice the smallest, that at most one event of the future is followed beside the
streams (`ConnAssumption`), that a thread may be created, that NULL is no path, and, of the
pure parts, what the application passes: values that the `lo_message_add_*` functions can be given
and paths that are not empty and do not begin as a bundle does (`WireAssumption`; type strings and the
values of calls may be anything), payloads that `detect_slip` would know (`PayloadAssumption`),
ports that are numbers (`TextAssumption`). What more a theorem assumes is a hypothesis in its
statement. Each component with a state has an
inductive invariant, and the proof one lemma or step for each action.

### LoEventQueueProofs: the queue and the abstract scheduler

- `TypeCorrect`: `Spec => []TypeOK`;
- `QueueIsOrdered`: `Spec => []QueueOrdered`, by timetag and then by arrival;
- `NothingEarly`: `Spec => NeverEarly`;
- `TrafficWaits`: `Spec => []PromptDespiteTraffic`, whatever methods do;
- `DispatchedOnce`: `NoReentry` implies `Spec => []ExactlyOnce`;
- `ImplementsScheduler`: `NoReentry` implies `Spec => RefinesScheduler`: every step of the
  receive loop, of bundles and of the queue is a step of `LoScheduler` or a stutter;
- `DispatchedInOrder`: `NoReentry` and `OnePlace` imply `Spec => []BundleOrder`.

The inductive invariant is `IInv`: `TypeOK`, `QueueOrdered`, and three facts without
which these are not inductive. `SeqBounded`: no number in the queue exceeds the last
one given out, so a new entry comes after those of its timetag. `FramesDue`: the
`disp_time` of every activation of `dispatch_queued` that is not a flush was due when
it began, and the clock does not go back. `FramesCalled`: an activation about to
call a method is the innermost, and the head of the queue is at or before its
`disp_time` - true however deep methods nest, because the loop tests the head after
every call. With those the event fired is due, and cutting the list at `tailhead`,
even at a stale one, leaves an ordered list. The proof has one lemma for each operation
on sequences (`InsertAtProperties`, the push and the pop of a frame, `ListFrom` as a
suffix) and one for the position `queue_data` chooses.

`NoReentry` is about the methods of messages that may be queued: they may switch the queue
on or off (without a flush), but do not flush it and dispatch no bundle. It cannot be
dropped: `event_queue_lost` loses an event when one does. Methods of all other messages
and the application may do anything. `OnePlace` says that a message of a flat bundle is in no
other place, so that the one dispatched can be told by its name. `MCLoEventQueue` assumes
both of its constants (the first for the calls of `event_queue` and not for
those of `event_queue_reentrant`), so TLC evaluates that they can be met.

`PromptInv` needs that an event that was due when a datagram was read stays at the head of
the queue until a method is called. `OnceInv` says, beside that queue numbers are
distinct, that nothing is dispatched within an activation of `dispatch_queued`
(`QueuedInnermost`; a flush within another would break it) and that across its call the
head of the queue is still the entry it called for and `tailhead` is still the next one
(`CallsHead`). This is what makes `s->queued = tailhead` (1948) remove one entry and no
more. `OrderInv` says of each queued message of a flat bundle that what stands before it
in the bundle was dispatched or is in the queue before it (`QueueInOrder`), and of each
activation that so it is of the elements it is past (`FramesInOrder`); only the innermost
activation can have queued some.

### LoStreamServerProofs

All safety properties of the module, for any finite number of clients and any messages:

- `TableStaysMatched` (`TableMatches`), `SecondPollWaits` (`BlocksOnlyAfterAccept`),
  `StreamsStayInStep` (`StreamsInStep`), `SourceStaysPeer` (`SourceIsPeer`),
  `SpinsStayLong` (`SpinsOnlyOnLong`).

`TableInv` adds to `TableMatches` that a connection waits in the backlog or is in the table
(`BacklogInv`, so that `accept` gives a socket that is not there) and that a message in
hand came from a socket that the table has and the loop is past (`HandInv`, so that
removing the failed sockets cannot change where it is said to come from). `StreamInv` is
what reassembly rests on: for each socket there is a `k` such that the
methods had the client's first `k` messages, and what is in the buffer, on the wire and
not sent yet is, one after the other, the rest (`BufferOK`). It holds until `shifted`, and
`RawInv`, `ScanInv`, `ResetInv` and `EventInv` are the facts about control that it
and the others need. `FlattenSeq` (of the community modules) and `BufferSize` are recursive
functions over the natural numbers; what is needed of them is proved as the
absence of a least counterexample (`LeastNat`, from `WFMin`), so without an induction theorem.

### LoServerThreadProofs

All safety properties of the module:

- `ContextStays` (`ContextIsThrowers`), `ServerHasOneThread` (`OneThread`),
  `PointersHoldTheList` (`ListIsRegistered`), `MethodsCalledInOrder` (`CalledInOrder`),
  `MethodsNotSkipped` (`NoneSkipped`), `UndefinedHasCauses` (`UndefinedIsNamed`).

`TInv` has the types, that the mutex's holder is the one in an error handler, and where a
method was called. `SoloInv` says that until a method stops its own thread the only thread
that runs is `thread`, and that when the server is not active the application is about to wait
for it or does; `JoinInv`, that what is joined was created and is joined by nobody else. `ListInv` says that the pointers hold
the registered methods (`Linked`), in the order of their numbers, and that each operation
in progress is where its local pointers say (`OpOK`), until two actors change the list at
once. `WalkInv`, on top of that, says of a dispatch that it is at a node of the list, or at
one deleted under it, and that it has called exactly what it should of the nodes before
(`WalkOK`): since nodes are added at the end and numbered in that order, `n > it[t]` tells
what is still to come. `UndefinedHasCauses` rests on all of them.

### LoSocketsProofs

All properties of the module, for any number of addresses, servers and descriptors:

- `Types`: the types of the tables and of the call in progress;
- `SendsOnce` (`SentOnce`), `HoldersAreRight` (`HeldIsOpen`), `SocketsHaveOwners`
  (`AccountedFor`), `BlockingFramesWhole` (`FramesWhole`).

The inductive invariant is `Inv`: the types, `SentOnce`, and `Live` until a stale number has
been used for another socket (`astray`; then some socket had two holders, and nothing more
is said). In `Live`, `HandleInv` says who may hold the same handle: two targets only a
shared socket that does not block, a target and a server's table only a shared one or
the table's own source for it, two servers none. From that a `close` is known to
make stale only handles of shared sockets. `ServerInv` describes a table (its own socket comes first
and is nobody's source, numbers are distinct, a source on file is not older than its socket),
`ClientInv` the global client sockets, `CallInv` the call in progress, `AccountInv` an
owner for each open socket that was not dropped, `FrameInv` how the stream of a
blocking socket ends: in half a frame only once the peer is gone, in a prefix only during the
call that sends it or after its holder gave it up.

### LoOwnershipProofs: bundles and closures

Of `LoBundle`, for all finite disjoint sets of bundles and messages and all bounds:

- `TypeCorrect`: `Spec => []TypeOK`;
- `CountsCorrect`: `Spec => []CountsMatch`, a count is that of the references;
- `DanglingIsOverfreed`: `Spec => []NoDangling`, a bundle holds what is freed only if the user
  freed it beyond its references;
- `NeverCircular`: `Spec => []Acyclic`, so that every recursion over bundles ends;
- `WalkAgrees`: `Spec => []WalkFindsCircle`, the code's search for a circle is right;
- `NoLeak`: `Spec => []NothingLeaks`.

The inductive invariant is `Inv`: `TypeOK`, `Shape` (a bundle that is not being freed has
released nothing, a free one has no elements), `Counted`, `Acyclic` and `Blamed`.
None of them is inductive alone. `References` in `Counted` extends `CountsMatch` to what is freed: there
the references of the user and the places where the object is held add up to none, so that an
object that is held has been freed beyond the user's references, as often as it is held. `Held` says
that what is in use and held has a count above 0, so that a bundle that lets go of an
element takes it to 0 and not below; that nothing is
circular tells that the element a recursive free comes to is not a bundle it is
already freeing. Each action has a lemma for `Typed` and one for `Counted`; the
cardinality of `Holders` grows or shrinks by the one place that the action adds or
releases. `AddAcyclic` is by the set of bundles reached from the one added to.

`WalkAgrees` needs no invariant: `walk_tree` agrees with `lo_bundle_circular` whatever
bundles hold, circles included (`WalkIsCircular`). `walk_tree` is a recursive function of the
set of parents. What leads to a parent or to a circle satisfies its recursion (`FindsStep`), so the
function exists, and no other does: of the sets of parents for which
another would differ one would be largest (`WFMin` over the order of subsets), and
the recursion goes to larger ones only.

Of `LoHandlers`:

- `KeepsCallbacks`: `CppSpec => []CallbacksKept`, for any paths, types and number of closures.

`KeptInv` says that each closure is filed under one key and not destroyed, and a method's
under its own key or destroyed (`FiledInv`), that the error handler is kept while there is
a server (`ErrorInv`), and that a method whose closure is gone has an ambiguous key
or is the one that `del_method` is about to delete (`GoneInv`).

### LoCodecProofs: SLIP, address patterns, URLs and enumeration

- `SlipFramed`: `SlipSpec => []SlipFrames`, for payloads of any length and content, any number of
  them, reads cut anywhere and buffers of any size: as long as nothing was written outside the
  buffers, and with a bound on the reads that can;
- `PatternsAgree`: `PatternSpec => []PatternAgrees`, for patterns of any number of tokens, any sets
  and lists (the one at the end with alternatives of one length), and any string;
- `UrlsReadBack`: `UrlSpec => []UrlReadsBack`, for names and ports of any length;
- `ClientFindsAll`: `EnumSpec => []EnumerationFindsAll`, for any paths and any number of methods.

`SlipInv` (theorem `SlipInvariant`) says of the stream where each message ends in it (`Ends`), and of
what `slip_decode` has made of the bytes taken so far that it is the messages that end there and the part
of the next one (`Whole`), until the first byte to be escaped was met (`Broken`: from
then on the messages before it have been given out, and that is all). `slip_decode` is a recursive
function of the number of bytes looked at; `DecodeByteGood` is its step, with the four
cases of the code's `switch`. For the room, `FilledIs` says that a recv whose
bytes get outside the buffer leaves less than four bytes of it free, if three more are counted
for each END, and `FillFits` is its step: a turn takes a byte of the recv and at most one of the buffer, or,
at an END, four. `RoomIs` adds the four bytes of the first length, or of the memory that is
too short, and `RoomStep` carries the bound to every state. The first four bytes, which are looked at before there is a
message to put them in, are the case `slip.head # <<>>` when they come in
pieces, and a stream that begins with an END is not promised anything.

`PatternsAgree` needs no invariant but that tokens and characters are what they should be.
Each loop of `lo_pattern_match` is a function of the place in the pattern whose value is
made of those at later places; there is one such function and no other (`DownExists`,
`DownUnique`: of the places where two differ, the last has no reason to). Each token
has its place in the text (`Laid`, `PatternLaid`), and the proof goes from the last token to the first
(`PatternRead`): what the code finds from a token's place on are the places where a
piece for it can begin that is followed by what the rest matches. `PlainStep` is that step
for a character and `?`, `MatchSetIs` for a set, whose ranges are read one after the other
(`SetReadFrom`), `StarStep` for a star, when the code skips the stars that follow it, and
`MatchBraceIs` for a list, alternative by alternative (`ListGoes`). There the condition of the
property is needed: when an alternative has matched and the string goes on, the code
skips one character too many, which is harmless because no other alternative of that length
could match up to the end of the string.

`UrlsReadBack` has a lemma for each kind of URL and each conversion of `sscanf` that
reads it: how many symbols a set spans, and what is left after the literal text.

The list of names in a reply is a recursive function of the number of methods looked at.
`NamesOK` says what it is after `i` of them: the names of the listed ones, each once, and
before a name those of all methods before the first that has it, which gives the order.
`AddNameKeeps` is the step, `NamesAre` the induction, by the absence of a least
counterexample. `UnderIs` says that a name without a slash stands for
exactly the paths of which it is the next name. `PathAssumption` has NULL as a sequence without a
slash, so that it is below no path (`NullIsNotBelow`).

### LoWireProofs: the wire format

For any paths, arguments, calls and memory, of every length:

- `RoundTrip`: `WireSpec => []BuildRoundTrip`: what was built, and sent, is read back as it
  was asked for, and is within its buffer up to the error of `lo_pow2_over`'s logarithm;
- `AcceptedOnce`: `WireSpec => []AcceptedIsCanonical`: memory that is accepted is what
  would be serialised from what was read of it;
- `CoercedFit`: `WireSpec => []CoercionFits`: an argument that is coerced has room.

A message is held as its types and the memory of its arguments one after the other.
`Built(m, args)` says that it holds exactly `args`, each stored as `Stored` has it. Such a memory is cut
again where it was put together: `ArgEnds` are the ends of the arguments that the reading
loop finds, and `ArgsOf` says that they are the arguments. Underneath are the sizes of the types
(`Whole`: an argument that has the size its type and its length field say; `Legal`: one
that validation accepts; both say the same of canonical memory), the two orders of bytes, of which
each undoes the other, and the rounding to four bytes.

For `RoundTrip`, `CallBuilds` follows `lo_message_add_varargs_internal` turn by turn: after each
character of the type string the message holds what was wanted up to there, unless the
caller's types and values disagree (`Astray`, `garbled`). `MessageReturns` and `BundleReturns` are
that `lo_message_deserialise` of the serialised message, and the walk over the elements of a bundle,
give back what was put in; `SendingReturns` that each of the ways to send makes one of those. The
inductive invariant is `WireInv`: the message in progress holds the arguments
asked for (`HeldInv`), and what is going out was serialised from a message that does (`SentInv`).
`garbled = "data"`, an argument in the data without its type, is excepted, since nothing is true of it then,
and so is `"room"`, data written beyond the buffer, of which C says nothing. `MissIsNarrow` is
that this is so by no more than the size, times the number of its doublings, over `LogPrecision`.

For `AcceptedOnce` nothing is needed of the state but that memory is made of bytes (`RawInv`); the
proof takes a deserialisation that succeeded through the same checks as the code, from the end of the
path, the type string and its padding to the last argument, and puts what was read together again.

The recursive functions over the arguments, elements and characters are all of one form, a value made of the
previous one (`Iterates`), and are shown to exist and to be unique once.

### LoSequenceLemmas

Induction as the absence of a least counterexample (`LeastNat`, `LeastBadAfter0`), the largest
member of a bounded set, and `FlattenSeq` by the places of its pieces: how long the whole is, which
piece a position is in, and that flattening determines the pieces if their lengths do. It declares no
constant, and the proofs about `LoStreamServer`, `LoCodec` and `LoWire` rest on it.

### Only model-checked

Every invariant and action property that a passing run checks is proved. Only
model-checked are the liveness properties (`EventuallyFired`, `EventuallyTaken`,
`ClosedIsRemoved`, `StopReturns`), which need fairness and ENABLED, and the
violations, for which TLC shows a behaviour.

## What the models show of the code

Beside the five violation runs, the exceptions in the properties above stand for
behaviour a reader of the code may want to know of:

- after an accept `lo_server_recv` and `lo_server_recv_noblock` poll without a timeout, and a stop of
  the thread waits with them until some client acts (1166, 1224);
- a queued message of a connection that was closed is said to come from who has its
  descriptor by then (1726), and a connection whose failure poll reports as POLLERR alone keeps
  all others from being read (1443);
- `lo_pow2_over` allocates too little for data just above a large power of two times
  the first size, such as 131072 bytes for 131073 to 131076 (`src/message.c:59`);
- when the buffer of a SLIP stream is reallocated, what is decoded next goes to the old one
  (1100), and a byte that was escaped is lost (850);
- the port read from the URL of an IPv6 address with a digit after its first colon, such as
  `osc.udp://[1:1::]:11/`, is that digit (`src/address.c:414`);
- an address, or a server, that is made from a URL without a port has a port read from
  memory that was never written (`src/address.c:414`; `sscanf` returns EOF);
- a C++ `del_method` given `""` destroys closures of methods that it does not delete
  if they were added with NULL (`lo/lo_cpp.h:478`);
- a method that stops its own server thread leaves it running with `active` 0
  (`src/server_thread.c:158`), and a `pthread_create` that fails leaves `active` 1 (135);
- a port that is taken costs a descriptor for each attempt (560), and an unknown
  multicast interface the whole server (678);
- a method that stops its own server thread and, after a restart, stops it again may join
  the new thread at the same time as the application (`src/server_thread.c:156`, 158, 162);
- a recv of a SLIP stream may bring four bytes more than the memory it is read to has (1013),
  and a message that ends in the last four bytes of its buffer has the next length written behind it
  (1087-1089);
- a SLIP stream stops for good at an empty message (922);
- a list in braces that does not end the pattern, or has alternatives of different lengths, may hide
  a match or make one up: `{a,ab}` does not match `ab` (`src/pattern_match.c:218`);
- a type string that cannot grow leaves the argument's data in the message without a
  type (`src/message.c:475`).

## Not modelled

The build with select, Windows and IPv6 are variants of the same operations. Name
resolution, interface lookup, socket options and printing are system calls and string
work without lasting state; timetags are arithmetic in floating point, and the values
of coerced numbers likewise: models count time in ticks and coercion in bytes. The
recursion without end when a queued method flushes the queue is cut by `MaxDepth`. Order
inside a bundle that contains bundles is not promised when methods switch the queue
between them: `BundleOrder` speaks of flat ones. `LoSockets` has one thread; what a server
thread does to the table of sockets while the application sends is not followed, and
neither are pointers into `s->sources` when that is reallocated; a blocking send is
whole or fails: that a signal may cut it short, so that the next frame follows a part of one, is not in it.
`LoUrl` does not have the sizes of the buffers that are written to, and neither does `slip_encode` in
`LoSlip`. What a program does after it wrote outside its memory is not followed anywhere. `LO_UNIX` sockets are in `LoUrl`
only. Text of patterns that is not well formed is not in `LoPattern`. The C++ classes
`Address` and `Blob`, whose implicit copies would free twice, and methods that only
forward, are left out.

## Plan

1. done: the models of all the parts above, and the proofs of every safety property.
2. The liveness properties stay with TLC.
