---------------------------- MODULE LoServerThread ----------------------------
(***************************************************************************)
(* A lo_server_thread: the application's thread, which starts, stops and   *)
(* frees it, the threads it creates, the list of methods they walk without *)
(* a lock while methods and the application change it, and the mutex that  *)
(* lo_throw holds around the error handler (server_thread.c; server.c:     *)
(* dispatch_method, lo_server_add_method, lo_server_del_method, lo_throw). *)
(*                                                                         *)
(* The list is one of nodes and pointers, and a walk takes one node a      *)
(* step. A node's number is never used again, so a node in `freed' that is *)
(* read is a use of freed memory. Handlers are the application's: a method *)
(* may add and delete methods and stop the thread, an error handler may    *)
(* stop the thread or cause another error, and both return in the end.     *)
(***************************************************************************)
EXTENDS Integers, Sequences, FiniteSets, SequencesExt

CONSTANTS
    Method,         \* methods that may be added: [path |-> , typespec |-> ]
    Target,         \* paths of messages, and of deletions
    Pattern,        \* those of Target that are patterns
    Listing,        \* those that end in a slash: requests for the names below
    Matches,        \* Matches[p]: the paths of methods that p is or matches
    NoPath,         \* NULL for a path or a typespec
    Types,          \* typespecs that the types of a message are, or coerce to
    Initial,        \* the lists of methods there may be before the thread is started
    MaxThreads, MaxNodes,   \* bounds
    Bounds          \* bounds on how often each thing is done: one of these records

ASSUME ThreadAssumption ==
    /\ Pattern \subseteq Target /\ Listing \subseteq Target /\ NoPath \notin Target
    /\ MaxThreads \in Nat \ {0} /\ MaxNodes \in Nat
    /\ \A l \in Initial : l \in Seq(Method) /\ Len(l) <= MaxNodes

App == 0                            \* the application's thread
Thread == 1 .. MaxThreads           \* those lo_server_thread_start creates
Actor == {App} \cup Thread
Node == 1 .. MaxNodes               \* 0 is NULL

VARIABLES
    protocol,           \* of the server: "udp" or "tcp"
    active, thread,     \* st->active, st->thread (0: no thread's)
    allocated, freed,   \* how many nodes there ever were, numbered so; those freed
    first, next, method,    \* s->first and, of each node, its next and what it is
    mutex, context,     \* who holds lo_error_context_mutex; lo_error_context
    pc,                 \* what each actor does
    joins,              \* the thread it waits for
    op,                 \* the list operation it is in, if any
    it, ret, message    \* the node dispatch_method is at, its ret, its message's path

\* History, for the properties, and the bounds.
VARIABLES
    registered,     \* the methods added and not deleted, in the order of adding
    calls, known,   \* of each dispatch: nodes called, and those registered as it began
    clash,          \* have two actors changed the list at once
    underfoot,      \* was a node deleted while a dispatch was at it
    selfStopped,    \* has a handler cleared active
    createFailed,   \* has pthread_create failed
    undefined,      \* what was done that C leaves undefined: "no", or what
    used            \* how many messages, adds, deletes, throws and starts there were

lifecycle == <<protocol, active, thread, joins, selfStopped, createFailed>>
list == <<first, next, method, allocated, freed, registered, op, clash, underfoot>>
dispatch == <<it, ret, message, calls, known>>
errors == <<mutex, context>>
vars == <<lifecycle, list, dispatch, errors, pc, undefined, used>>

None == [kind |-> "none"]
Running(t) == pc[t] \notin {"none", "exited", "joined"}
Use(k) == used' = [used EXCEPT ![k] = @ + 1]
Within(k) == \E bound \in Bounds : /\ \A j \in DOMAIN used : used[j] <= bound[j]
                                  /\ used[k] < bound[k]

--------------------------------------------------------------------------------
(***************************************************************************)
(* The thread.                                                             *)
(***************************************************************************)
NewThread == CHOOSE t \in Thread : pc[t] = "none"

\* Seeded bug: a thread is created whether or not there is one.
StartAlways ==
    /\ pc[App] = "idle" /\ Within("starts")
    /\ active' = TRUE
    /\ pc' = [pc EXCEPT ![App] = "starting"]
    /\ Use("starts")
    /\ UNCHANGED <<list, dispatch, errors, protocol, thread, joins, selfStopped, createFailed,
                   undefined>>

\* lo_server_thread_start when it has something to do, to pthread_create. (Nobody
\* else sets active, so that its test and its setting need not be apart.)
lo_server_thread_start ==
    /\ pc[App] = "idle" /\ Within("starts")
    /\ ~active
    /\ active' = TRUE
    /\ pc' = [pc EXCEPT ![App] = "starting"]
    /\ Use("starts")
    /\ UNCHANGED <<list, dispatch, errors, protocol, thread, joins, selfStopped, createFailed,
                   undefined>>

\* When it fails, active stays and st->thread is as it was or nothing.
pthread_create ==
    /\ pc[App] = "starting"
    /\ \/ /\ \E t \in Thread : pc[t] = "none"
          /\ thread' = NewThread
          /\ pc' = [pc EXCEPT ![App] = "idle", ![NewThread] = "loop"]
          /\ UNCHANGED createFailed
       \/ /\ createFailed' = TRUE
          /\ thread' \in {thread, 0}
          /\ pc' = [pc EXCEPT ![App] = "idle"]
    /\ UNCHANGED <<list, dispatch, errors, protocol, active, joins, selfStopped, undefined, used>>

\* lo_server_thread_stop, by the application or in a handler, finds active set, ...
lo_server_thread_stop(x) ==
    /\ pc[x] \in {"idle", "call", "error"} /\ op[x] = None
    /\ active
    /\ pc' = [pc EXCEPT ![x] = "stopping"]
    /\ UNCHANGED <<list, dispatch, errors, lifecycle, undefined, used>>

\* ... clears it, ...
ClearActive(x) ==
    /\ pc[x] = "stopping"
    /\ active' = FALSE
    /\ selfStopped' = (selfStopped \/ x \in Thread)
    /\ pc' = [pc EXCEPT ![x] = "cleared"]
    /\ UNCHANGED <<list, dispatch, errors, protocol, thread, joins, createFailed, undefined, used>>

\* (where x goes on after it)
Stopped(x) == IF mutex = x THEN "error" ELSE IF x = App THEN "idle" ELSE "call"

\* ... and calls pthread_join(st->thread): at once an error from the thread itself,
\* and undefined when there is no such thread or another one waits for it or has.
pthread_join(x) ==
    /\ pc[x] = "cleared"
    /\ IF thread = x /\ x # App
       THEN pc' = [pc EXCEPT ![x] = Stopped(x)] /\ UNCHANGED <<joins, undefined>>
       ELSE IF thread = 0 \/ pc[thread] = "joined"
               \/ \E y \in Actor : pc[y] = "joining" /\ joins[y] = thread
       THEN undefined' = "join" /\ UNCHANGED <<pc, joins>>
       ELSE /\ pc' = [pc EXCEPT ![x] = "joining"]
            /\ joins' = [joins EXCEPT ![x] = thread]
            /\ UNCHANGED undefined
    /\ UNCHANGED <<list, dispatch, errors, protocol, active, thread, selfStopped, createFailed, used>>

JoinReturns(x) ==
    /\ pc[x] = "joining" /\ pc[joins[x]] = "exited"
    /\ pc' = [pc EXCEPT ![x] = Stopped(x), ![joins[x]] = "joined"]
    /\ joins' = [joins EXCEPT ![x] = 0]
    /\ UNCHANGED <<protocol, active, thread, selfStopped, createFailed, list, dispatch, errors,
                   undefined, used>>

\* Seeded bug: the server is freed without a look at active.
FreeRunning ==
    /\ pc[App] = "idle" /\ op[App] = None
    /\ pc' = [pc EXCEPT ![App] = "freed"]
    /\ undefined' = IF \E t \in Thread : Running(t) THEN "memory" ELSE "no"
    /\ UNCHANGED <<lifecycle, list, dispatch, errors, used>>

\* lo_server_thread_free once active is 0 (the stop it begins with when it is not
\* is lo_server_thread_stop). A thread that runs will yet read active.
lo_server_thread_free ==
    /\ pc[App] = "idle" /\ op[App] = None
    /\ ~active
    /\ pc' = [pc EXCEPT ![App] = "freed"]
    /\ undefined' = IF \E t \in Thread : Running(t) THEN "memory" ELSE "no"
    /\ UNCHANGED <<lifecycle, list, dispatch, errors, used>>

\* The loop of thread_func: to lo_server_recv_noblock, or to the end.
thread_func(t) ==
    /\ pc[t] = "loop"
    /\ pc' = [pc EXCEPT ![t] = IF active THEN "recv" ELSE "exited"]
    /\ UNCHANGED <<lifecycle, list, dispatch, errors, undefined, used>>

--------------------------------------------------------------------------------
(***************************************************************************)
(* Receiving and dispatching.                                              *)
(***************************************************************************)
\* lo_server_recv_noblock: nothing within 10 ms, a message, one it throws at, ...
RecvNothing(t) ==
    /\ pc[t] = "recv"
    /\ pc' = [pc EXCEPT ![t] = "loop"]
    /\ UNCHANGED <<lifecycle, list, dispatch, errors, undefined, used>>

\* ... or, on a stream server, a connection, after whose accept it polls without a
\* timeout; and a buffer at its limit, which it then doubles without an end.
RecvBlocks(t) ==
    /\ pc[t] = "recv" /\ protocol = "tcp"
    /\ pc' = [pc EXCEPT ![t] = "blocked"]
    /\ UNCHANGED <<lifecycle, list, dispatch, errors, undefined, used>>

\* A client sends or closes.
ClientActs(t) ==
    /\ pc[t] = "blocked"
    /\ pc' = [pc EXCEPT ![t] = "recv"]
    /\ UNCHANGED <<lifecycle, list, dispatch, errors, undefined, used>>

RecvMessage(t) ==
    /\ pc[t] = "recv" /\ Within("messages")
    /\ \E p \in Target : message' = [message EXCEPT ![t] = p]
    /\ it' = [it EXCEPT ![t] = first] /\ ret' = [ret EXCEPT ![t] = 1]
    /\ calls' = [calls EXCEPT ![t] = <<>>]
    /\ known' = [known EXCEPT ![t] = ToSet(registered)]
    /\ pc' = [pc EXCEPT ![t] = "walk"]
    /\ Use("messages")
    /\ UNCHANGED <<lifecycle, list, errors, undefined>>

\* Is the method of a node called for messages to p: its path NULL, equal or
\* matched, and its typespec NULL or one of the message's.
Called(m, p) == /\ m.path = NoPath \/ m.path \in Matches[p]
                /\ m.typespec \in {NoPath} \cup Types

\* Does the walk end after a method that returned r.
Stops(p, r) == r = 0 /\ p \notin Pattern

\* Seeded bug: a method that is not called ends the walk.
VisitEnds(t) ==
    /\ pc[t] = "walk" /\ it[t] # 0 /\ it[t] \notin freed
    /\ IF Called(method[it[t]], message[t])
       THEN /\ pc' = [pc EXCEPT ![t] = "call"]
            /\ calls' = [calls EXCEPT ![t] = Append(@, it[t])]
            /\ UNCHANGED it
       ELSE /\ it' = [it EXCEPT ![t] = 0] /\ UNCHANGED <<pc, calls>>
    /\ UNCHANGED <<lifecycle, list, errors, ret, message, known, undefined, used>>

\* dispatch_method at a node it can read: the handler is called, or it goes on.
Visit(t) ==
    /\ pc[t] = "walk" /\ it[t] # 0 /\ it[t] \notin freed
    /\ IF Called(method[it[t]], message[t])
       THEN /\ pc' = [pc EXCEPT ![t] = "call"]
            /\ calls' = [calls EXCEPT ![t] = Append(@, it[t])]
            /\ UNCHANGED it
       ELSE it' = [it EXCEPT ![t] = next[it[t]]] /\ UNCHANGED <<pc, calls>>
    /\ UNCHANGED <<lifecycle, list, errors, ret, message, known, undefined, used>>

DispatchEnds(t) ==
    /\ pc' = [pc EXCEPT ![t] = "loop"]
    /\ it' = [it EXCEPT ![t] = 0] /\ ret' = [ret EXCEPT ![t] = 1]
    /\ message' = [message EXCEPT ![t] = NoPath]
    /\ known' = [known EXCEPT ![t] = {}] /\ calls' = [calls EXCEPT ![t] = <<>>]
    /\ UNCHANGED undefined

\* Seeded bug: the walk goes on from the start.
ReturnFirst(t) ==
    /\ pc[t] = "call" /\ op[t] = None
    /\ it' = [it EXCEPT ![t] = first]
    /\ pc' = [pc EXCEPT ![t] = "walk"]
    /\ UNCHANGED <<lifecycle, list, errors, ret, message, calls, known, undefined, used>>

\* The handler returns r; it->next is read after it.
Return(t) ==
    /\ pc[t] = "call" /\ op[t] = None
    /\ \E r \in {0, 1} :
          IF Stops(message[t], r) THEN DispatchEnds(t)
          ELSE IF it[t] \in freed THEN undefined' = "node" /\ UNCHANGED <<pc, dispatch>>
          ELSE /\ it' = [it EXCEPT ![t] = next[it[t]]] /\ ret' = [ret EXCEPT ![t] = r]
               /\ pc' = [pc EXCEPT ![t] = "walk"]
               /\ UNCHANGED <<undefined, message, calls, known>>
    /\ UNCHANGED <<lifecycle, list, errors, used>>

\* Is the message answered with the names of the methods below its path.
Enumerates(t) == ret[t] = 1 /\ protocol = "udp" /\ message[t] \in Listing

\* The end of the list, from where an enumeration walks along it again, or a node
\* freed by another thread.
WalkEnds(t) ==
    /\ pc[t] = "walk" /\ it[t] \in {0} \cup freed
    /\ IF it[t] # 0 THEN undefined' = "node" /\ UNCHANGED <<pc, dispatch>>
       ELSE IF Enumerates(t)
       THEN /\ pc' = [pc EXCEPT ![t] = "enumerate"]
            /\ it' = [it EXCEPT ![t] = first]
            /\ calls' = [calls EXCEPT ![t] = <<>>] /\ known' = [known EXCEPT ![t] = {}]
            /\ UNCHANGED <<ret, message, undefined>>
       ELSE DispatchEnds(t)
    /\ UNCHANGED <<lifecycle, list, errors, used>>

\* The walk of an enumeration, which reads each node, and its end: the reply is sent.
Enumerate(t) ==
    /\ pc[t] = "enumerate"
    /\ IF it[t] = 0 THEN DispatchEnds(t)
       ELSE IF it[t] \in freed THEN undefined' = "node" /\ UNCHANGED <<pc, dispatch>>
       ELSE /\ it' = [it EXCEPT ![t] = next[it[t]]]
            /\ UNCHANGED <<pc, ret, message, calls, known, undefined>>
    /\ UNCHANGED <<lifecycle, list, errors, used>>

--------------------------------------------------------------------------------
(***************************************************************************)
(* The list of methods, changed by the application or in a method.         *)
(***************************************************************************)
MayChange(x) == pc[x] \in {"idle", "call"} /\ op[x] = None
Clashes(x) == clash' = (clash \/ \E y \in Actor \ {x} : op[y] # None)

\* lo_server_add_method: a new node, and the start of a walk to the end of the list.
AddBegin(x) ==
    /\ MayChange(x) /\ allocated < MaxNodes /\ Within("adds")
    /\ LET new == allocated + 1
       IN  /\ allocated' = new
           /\ \E m \in Method : method' = [method EXCEPT ![new] = m]
           /\ op' = [op EXCEPT ![x] = [kind |-> IF first = 0 THEN "link" ELSE "add",
                                       node |-> new, last |-> first]]
    /\ Clashes(x)
    /\ Use("adds")
    /\ UNCHANGED <<lifecycle, dispatch, errors, pc, first, next, freed, registered, underfoot,
                   undefined>>

\* One round of the walk: on to the next node, or stay at the last one.
AddStep(x) ==
    /\ op[x].kind = "add"
    /\ LET last == op[x].last
       IN  IF last \in freed THEN undefined' = "node" /\ UNCHANGED op
           ELSE /\ op' = [op EXCEPT ![x] = IF next[last] = 0
                                           THEN [@ EXCEPT !.kind = "link"]
                                           ELSE [@ EXCEPT !.last = next[last]]]
                /\ UNCHANGED undefined
    /\ UNCHANGED <<lifecycle, dispatch, errors, pc, first, next, method, allocated, freed,
                   registered, clash, underfoot, used>>

\* The store that links the new node there.
AddLink(x) ==
    /\ op[x].kind = "link"
    /\ LET new == op[x].node
           last == op[x].last
       IN  /\ registered' = Append(registered, new)
           /\ first' = IF last = 0 THEN new ELSE first
           /\ next' = IF last = 0 THEN next ELSE [next EXCEPT ![last] = new]
           /\ undefined' = IF last \in freed THEN "node" ELSE undefined
    /\ op' = [op EXCEPT ![x] = None]
    /\ UNCHANGED <<lifecycle, dispatch, errors, pc, method, allocated, freed, clash, underfoot,
                   used>>

\* lo_server_del_method of path p and one typespec, to the head of the list.
DelBegin(x) ==
    /\ MayChange(x) /\ Within("deletes")
    /\ first # 0
    /\ \E p \in Target \cup {NoPath}, m \in Method :
          op' = [op EXCEPT ![x] = [kind |-> "del", path |-> p, typespec |-> m.typespec,
                                   it |-> first, prev |-> first]]
    /\ Clashes(x)
    /\ Use("deletes")
    /\ UNCHANGED <<lifecycle, dispatch, errors, pc, first, next, method, allocated, freed,
                   registered, underfoot, undefined>>

\* A NULL path deletes the methods whose path is NULL, and no others.
Deleted(m, o) == /\ IF o.path = NoPath THEN m.path = NoPath ELSE m.path \in Matches[o.path]
                 /\ m.typespec = o.typespec

\* Seeded bug: the head is unlinked like any other node.
UnlinkHead(n, prev) ==
    /\ next' = [next EXCEPT ![prev] = next[n]] /\ UNCHANGED first

Unlink(n, prev) ==
    IF n = first THEN first' = next[n] /\ UNCHANGED next
    ELSE next' = [next EXCEPT ![prev] = next[n]] /\ UNCHANGED first

\* The list s without its node n.
Without(s, n) == IF \E i \in 1 .. Len(s) : s[i] = n
                 THEN RemoveAt(s, CHOOSE i \in 1 .. Len(s) : s[i] = n)
                 ELSE s

\* One round of the loop: prev is left alone when the node goes.
DelStep(x) ==
    /\ op[x].kind = "del"
    /\ LET n == op[x].it
           prev == op[x].prev
           goes == Deleted(method[n], op[x])
       IN  IF n = 0
           THEN /\ op' = [op EXCEPT ![x] = None]
                /\ UNCHANGED <<first, next, freed, registered, underfoot, undefined>>
           ELSE IF n \in freed \/ (goes /\ n # first /\ prev \in freed)
           THEN undefined' = "node" /\ UNCHANGED <<op, first, next, freed, registered, underfoot>>
           ELSE /\ op' = [op EXCEPT ![x].it = next[n], ![x].prev = IF goes THEN prev ELSE n]
                /\ IF goes
                   THEN /\ Unlink(n, prev)
                        /\ freed' = freed \cup {n}
                        /\ registered' = Without(registered, n)
                        /\ underfoot' = (underfoot \/ \E t \in Thread : it[t] = n)
                   ELSE UNCHANGED <<first, next, freed, registered, underfoot>>
                /\ UNCHANGED undefined
    /\ UNCHANGED <<lifecycle, dispatch, errors, pc, method, allocated, clash, used>>

--------------------------------------------------------------------------------
(***************************************************************************)
(* Errors. A thread throws for its server, the application for another.    *)
(***************************************************************************)
Throw(x) ==
    /\ pc[x] \in {"idle", "recv"} /\ op[x] = None /\ Within("throws")
    /\ pc' = [pc EXCEPT ![x] = "throw"]
    /\ Use("throws")
    /\ UNCHANGED <<lifecycle, list, dispatch, errors, undefined>>

ErrorContext(x) == IF x = App THEN "other" ELSE "this"

\* Seeded bug: without the mutex.
EnterFree(x) ==
    /\ pc[x] = "throw"
    /\ mutex' = x /\ context' = ErrorContext(x)
    /\ pc' = [pc EXCEPT ![x] = "error"]
    /\ UNCHANGED <<lifecycle, list, dispatch, undefined, used>>

\* The mutex is free: its holder sets the context and calls the error handler ...
EnterHandler(x) ==
    /\ pc[x] = "throw" /\ mutex = -1
    /\ mutex' = x /\ context' = ErrorContext(x)
    /\ pc' = [pc EXCEPT ![x] = "error"]
    /\ UNCHANGED <<lifecycle, list, dispatch, undefined, used>>

\* ... which may cause another error, whose mutex it waits for itself, ...
NestedThrow(x) ==
    /\ pc[x] = "error" /\ Within("throws")
    /\ pc' = [pc EXCEPT ![x] = "throw"]
    /\ Use("throws")
    /\ UNCHANGED <<lifecycle, list, dispatch, errors, undefined>>

\* Seeded bug: the mutex is not unlocked.
LeaveLocked(x) ==
    /\ pc[x] = "error"
    /\ pc' = [pc EXCEPT ![x] = IF x = App THEN "idle" ELSE "loop"]
    /\ UNCHANGED <<lifecycle, list, dispatch, errors, undefined, used>>

\* ... and returns.
LeaveHandler(x) ==
    /\ pc[x] = "error"
    /\ mutex' = -1
    /\ pc' = [pc EXCEPT ![x] = IF x = App THEN "idle" ELSE "loop"]
    /\ UNCHANGED <<lifecycle, list, dispatch, context, undefined, used>>

--------------------------------------------------------------------------------
Init ==
    /\ protocol \in {"udp", "tcp"}
    /\ active = FALSE /\ thread = 0 /\ joins = [x \in Actor |-> 0]
    /\ \E l \in Initial :
          /\ registered = [n \in 1 .. Len(l) |-> n] /\ freed = {}
          /\ first = IF l = <<>> THEN 0 ELSE 1
          /\ next = [n \in Node |-> IF n < Len(l) THEN n + 1 ELSE 0]
          /\ method = [n \in Node |-> IF n <= Len(l) THEN l[n] ELSE None]
          /\ allocated = Len(l)
    /\ mutex = -1 /\ context = "none"
    /\ pc = [x \in Actor |-> IF x = App THEN "idle" ELSE "none"]
    /\ op = [x \in Actor |-> None]
    /\ it = [t \in Thread |-> 0] /\ ret = [t \in Thread |-> 1]
    /\ message = [t \in Thread |-> NoPath]
    /\ calls = [t \in Thread |-> <<>>] /\ known = [t \in Thread |-> {}]
    /\ clash = FALSE /\ underfoot = FALSE /\ selfStopped = FALSE /\ createFailed = FALSE
    /\ undefined = "no"
    /\ used = [messages |-> 0, adds |-> 0, deletes |-> 0, throws |-> 0, starts |-> 0]

\* What an actor does that it was not free to leave undone. (A client is free to:
\* ClientActs is nowhere fair.)
Continue(x) == \/ ClearActive(x) \/ pthread_join(x) \/ JoinReturns(x)
               \/ AddStep(x) \/ AddLink(x) \/ DelStep(x)
               \/ EnterHandler(x) \/ LeaveHandler(x)
RunThread(t) == \/ thread_func(t) \/ RecvNothing(t) \/ RecvBlocks(t) \/ RecvMessage(t)
                \/ Visit(t) \/ Return(t) \/ WalkEnds(t) \/ Enumerate(t)
Request(x) == lo_server_thread_stop(x) \/ AddBegin(x) \/ DelBegin(x) \/ Throw(x) \/ NestedThrow(x)

Next == /\ undefined = "no" /\ pc[App] # "freed"
        /\ \/ lo_server_thread_start \/ pthread_create \/ lo_server_thread_free
           \/ \E x \in Actor : Continue(x) \/ Request(x)
           \/ \E t \in Thread : RunThread(t) \/ ClientActs(t)

Spec == Init /\ [][Next]_vars

Goes(A) == undefined = "no" /\ pc[App] # "freed" /\ A

FairSpec == /\ Spec
            /\ WF_vars(Goes(pthread_create \/ Continue(App)))
            /\ \A t \in Thread : WF_vars(Goes(Continue(t) \/ RunThread(t)))
--------------------------------------------------------------------------------
(***************************************************************************)
(* Properties.                                                             *)
(***************************************************************************)
PC == {"idle", "freed", "starting", "none", "loop", "recv", "blocked", "walk", "call", "enumerate",
       "throw", "error", "stopping", "cleared", "joining", "exited", "joined"}

ListOp == {None}
          \cup [kind : {"add"}, node : Node, last : Node]
          \cup [kind : {"link"}, node : Node, last : Node \cup {0}]
          \cup [kind : {"del"}, path : Target \cup {NoPath}, typespec : {m.typespec : m \in Method},
                it : Node \cup {0}, prev : Node]

\* Every variable keeps its type, and who holds the mutex is in an error handler.
TypeOK ==
    /\ protocol \in {"udp", "tcp"}
    /\ active \in BOOLEAN /\ thread \in Actor /\ joins \in [Actor -> Actor]
    /\ first \in Node \cup {0} /\ next \in [Node -> Node \cup {0}]
    /\ method \in [Node -> Method \cup {None}]
    /\ allocated \in Node \cup {0} /\ freed \subseteq Node
    /\ mutex \in Actor \cup {-1} /\ context \in {"none", "this", "other"}
    /\ \A x \in Actor : mutex = x =>
           pc[x] \in {"error", "throw", "stopping", "cleared", "joining"}
    /\ pc \in [Actor -> PC] /\ op \in [Actor -> ListOp]
    /\ it \in [Thread -> Node \cup {0}] /\ ret \in [Thread -> {0, 1}]
    /\ message \in [Thread -> Target \cup {NoPath}]
    /\ registered \in Seq(Node) /\ calls \in [Thread -> Seq(Node)] /\ known \in [Thread -> SUBSET Node]
    /\ {clash, underfoot, selfStopped, createFailed} \subseteq BOOLEAN
    /\ undefined \in {"no", "join", "memory", "node"}

\* The pointers hold exactly the methods added and not deleted, in the order of
\* their adding, in the midst of every change, as long as no two actors were
\* ever changing the list at once (server.c:1988-1993, 2015-2037). (This is the
\* module's type invariant too.)
ListIsRegistered ==
    /\ TypeOK
    /\ \/ clash \/ undefined # "no"
       \/ LET end == Len(registered)
          IN  /\ first = IF end = 0 THEN 0 ELSE registered[1]
              /\ \A i \in 1 .. end :
                    next[registered[i]] = IF i = end THEN 0 ELSE registered[i + 1]

\* A dispatch calls methods in the order of their adding, none twice, whatever its
\* handlers and the application add and delete meanwhile (server.c:1747).
CalledInOrder ==
    clash \/ \A t \in Thread : \A i \in 1 .. Len(calls[t]) - 1 : calls[t][i] < calls[t][i + 1]

\* A dispatch that walks to the end of the list calls every method that was there
\* when it began, is not deleted before its turn and is for that message
\* (server.c:1747-1806).
NoneSkipped ==
    clash \/ \A t \in Thread : pc[t] = "walk" /\ it[t] = 0 =>
        \A n \in known[t] \ freed : Called(method[n], message[t]) => n \in ToSet(calls[t])

\* There is one thread on the server, unless a method stopped the thread that
\* calls it (server_thread.c:134, 158).
OneThread == selfStopped \/ Cardinality({t \in Thread : Running(t)}) <= 1

\* What C leaves undefined is done in few ways only. A method's memory is read
\* after it was freed when two actors changed the list at once or the method a
\* dispatch was at was deleted: a handler may delete every method but its own, and
\* add any (server.c:1747, 2031). The server is freed under a thread that runs on it
\* when a method stopped that thread, which leaves active 0 with nothing joined
\* (server_thread.c:108, 158). A thread is joined that is not there when
\* pthread_create failed, which leaves active 1 (server_thread.c:135); and one is
\* joined twice when a method that stopped its thread, and lives on after a restart,
\* finds active set at the same time as the application (server_thread.c:156, 158):
\* without such a method, the application alone never joins a thread twice.
UndefinedIsNamed ==
    /\ undefined = "node" => clash \/ underfoot
    /\ undefined = "memory" => selfStopped
    /\ undefined = "join" => createFailed \/ selfStopped

\* In an error handler, lo_error_get_context is what was set for the server that
\* has the error, whichever threads have errors at that time (server.c:2177-2183).
ContextIsThrowers ==
    \A x \in Actor : pc[x] = "error" => context = ErrorContext(x)

\* Its own mutex, or the thread it joins, blocks an error handler.
Jammed == \E y \in Actor : mutex = y /\ pc[y] \in {"throw", "joining"}

\* A thread is in a receive on a stream server that has no timeout.
Deaf == \E t \in Thread : pc[t] = "blocked"

\* lo_server_thread_stop returns to the application, however many messages the
\* thread is in the midst of, unless an error handler waits while it has the
\* mutex that errors need (server_thread.c:162, 193; server.c:2178), or the thread
\* of a stream server polls without a timeout after an accept (server.c:1166, 1224).
StopReturns ==
    pc[App] = "joining" ~> (pc[App] # "joining" \/ Jammed \/ Deaf \/ undefined # "no")
================================================================================
