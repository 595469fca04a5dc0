------------------------- MODULE LoServerThreadProofs -------------------------
(***************************************************************************)
(* Proofs about LoServerThread: its types, what the mutex protects, that   *)
(* there is one thread on the server, what the list of methods and the     *)
(* walks along it keep, and what undefined behaviour comes of.             *)
(***************************************************************************)
EXTENDS LoServerThread, FiniteSetTheorems, SequenceTheorems, TLAPS

--------------------------------------------------------------------------------
(***************************************************************************)
(* The inductive invariants.                                               *)
(***************************************************************************)
\* The error handler that runs is the one of the mutex's holder.
MutexInv ==
    /\ \A x \in Actor : pc[x] = "error" => mutex = x
    /\ \A x \in Actor : mutex = x => context = ErrorContext(x)

\* A method that runs, or waits for a thread, was called at a node.
CallInv == \A t \in Thread :
               /\ pc[t] \notin {"idle", "starting"}
               /\ pc[t] = "call" \/ (pc[t] \in {"stopping", "cleared", "joining"} /\ mutex # t)
                     => it[t] # 0

\* What is joined is a thread.
JoinInv ==
    /\ thread # 0 => pc[thread] # "none"
    /\ \A x \in Actor : pc[x] = "joining" => joins[x] # 0 /\ pc[joins[x]] # "none"

Begun(t) == pc[t] \notin {"none", "joined"}

\* Until a method clears active there is one thread, which the application waits for
\* from its own clearing of active to the thread's end; and a thread there is, unless
\* its creation failed.
SoloInv ==
    \/ selfStopped
    \/ /\ \A t \in Thread : Begun(t) => t = thread
       /\ \A t \in Thread : Begun(t) /\ ~active => pc[App] \in {"cleared", "joining"}
       /\ \A t \in Thread : /\ pc[t] \notin {"cleared", "joining"}
                            /\ pc[t] = "exited" => ~active
       /\ pc[App] \in {"cleared", "joining"} => ~active
       /\ pc[App] = "joining" => joins[App] = thread
       /\ pc[App] = "starting" => active /\ \A t \in Thread : ~Begun(t)
       /\ pc[App] = "stopping" => active
       /\ ~createFailed /\ pc[App] # "starting" /\ (active \/ pc[App] = "cleared") =>
             thread # 0 /\ pc[thread] # "joined"

\* The list holds the registered methods in the order of their numbers, and an
\* operation on it is where its pointers say, while no two actors change it.
InList(n) == \E i \in 1 .. Len(registered) : registered[i] = n

Linked ==
    /\ first = IF Len(registered) = 0 THEN 0 ELSE registered[1]
    /\ \A i \in 1 .. Len(registered) :
          next[registered[i]] = IF i = Len(registered) THEN 0 ELSE registered[i + 1]

Ordered(s) == \A i, j \in 1 .. Len(s) : i < j => s[i] < s[j]

Adds(o) ==
    /\ o.node <= allocated /\ o.node \notin freed /\ next[o.node] = 0
    /\ \A i \in 1 .. Len(registered) : registered[i] < o.node

OpOK(o) ==
    /\ o.kind \in {"add", "link"} => Adds(o)
    /\ o.kind = "add" => InList(o.last)
    /\ o.kind = "link" => o.last = IF registered = <<>> THEN 0 ELSE registered[Len(registered)]
    /\ o.kind = "del" => \/ o.it = 0
                         \/ \E i \in 1 .. Len(registered) :
                               o.it = registered[i] /\ (i > 1 => o.prev = registered[i - 1])

ListInv ==
    \/ clash
    \/ /\ Linked /\ Ordered(registered)
       /\ \A i \in 1 .. Len(registered) : registered[i] <= allocated /\ registered[i] \notin freed
       /\ freed \subseteq 1 .. allocated
       /\ \A n \in Node : n > allocated => next[n] = 0
       /\ \A x, y \in Actor : op[x] # None /\ op[y] # None => x = y
       /\ \A x \in Actor : OpOK(op[x])

\* A dispatch is at a registered node, or at one that was deleted under it; it
\* called, in order, what it was to call of the nodes before that one.
WalkOK(t) ==
    /\ it[t] # 0 => InList(it[t]) \/ it[t] \in freed
    /\ it[t] \in freed => underfoot
    /\ Ordered(calls[t])
    /\ it[t] # 0 => \A i \in 1 .. Len(calls[t]) :
                       calls[t][i] < it[t] \/ (calls[t][i] = it[t] /\ pc[t] # "walk")
    /\ pc[t] = "enumerate" => calls[t] = <<>> /\ known[t] = {}
    /\ \A n \in known[t] : InList(n) \/ n \in freed
    /\ \A n \in known[t] \ freed : Called(method[n], message[t]) =>
          \/ \E i \in 1 .. Len(calls[t]) : calls[t][i] = n
          \/ it[t] # 0 /\ (n > it[t] \/ (n = it[t] /\ pc[t] = "walk"))

WalkInv == clash \/ \A t \in Thread : WalkOK(t)

TInv == TypeOK /\ MutexInv /\ CallInv

--------------------------------------------------------------------------------
(***************************************************************************)
(* Types, the mutex, and where a method was called.                        *)
(***************************************************************************)
LEMMA InitTInv == Init => TInv
<1> SUFFICES ASSUME Init PROVE TInv
  OBVIOUS
<1>1. PICK l \in Initial :
          /\ registered = [n \in 1 .. Len(l) |-> n] /\ freed = {}
          /\ first = IF l = <<>> THEN 0 ELSE 1
          /\ next = [n \in Node |-> IF n < Len(l) THEN n + 1 ELSE 0]
          /\ method = [n \in Node |-> IF n <= Len(l) THEN l[n] ELSE None]
          /\ allocated = Len(l)
  BY DEF Init
<1>2. l \in Seq(Method) /\ Len(l) \in Nat /\ Len(l) <= MaxNodes /\ MaxNodes \in Nat
      /\ MaxThreads \in Nat \ {0}
  BY ThreadAssumption
<1>3. /\ first \in Node \cup {0} /\ next \in [Node -> Node \cup {0}]
      /\ allocated \in Node \cup {0} /\ freed \subseteq Node
  BY <1>1, <1>2 DEF Node
<1>4. method \in [Node -> Method \cup {None}]
  BY <1>1, <1>2 DEF Node
<1>5. registered \in Seq(Node)
  BY <1>1, <1>2 DEF Node
<1>6. /\ protocol \in {"udp", "tcp"} /\ active \in BOOLEAN /\ thread \in Actor /\ joins \in [Actor -> Actor]
      /\ mutex \in Actor \cup {-1} /\ context \in {"none", "this", "other"}
      /\ {clash, underfoot, selfStopped, createFailed} \subseteq BOOLEAN
      /\ undefined = "no"
  BY <1>2 DEF Init, Actor, App, Thread
<1>7. pc \in [Actor -> PC] /\ op \in [Actor -> ListOp]
  BY DEF Init, PC, ListOp
<1>8. /\ it \in [Thread -> Node \cup {0}] /\ ret \in [Thread -> {0, 1}]
      /\ message \in [Thread -> Target \cup {NoPath}]
      /\ calls \in [Thread -> Seq(Node)] /\ known \in [Thread -> SUBSET Node]
  BY DEF Init
<1>9. /\ \A x \in Actor : mutex # x /\ pc[x] \in {"idle", "none"}
      /\ \A t \in Thread : pc[t] = "none"
  BY <1>2 DEF Init, Actor, App, Thread
<1> QED
  BY <1>3, <1>4, <1>5, <1>6, <1>7, <1>8, <1>9 DEF TInv, TypeOK, MutexInv, CallInv, Actor

\* The actors.
LEMMA Actors ==
    /\ App \in Actor /\ App = 0 /\ Thread \subseteq Actor /\ Thread \subseteq Nat \ {0}
    /\ \A x \in Actor : x \in Int /\ x # -1 /\ (x = App \/ x \in Thread)
BY ThreadAssumption DEF Actor, App, Thread

LEMMA NewThreadIs ==
    ASSUME \E t \in Thread : pc[t] = "none"
    PROVE  NewThread \in Thread /\ pc[NewThread] = "none"
BY DEF NewThread

\* The list r is s with its i-th node taken out.
IsWithout(r, s, i) ==
    /\ r \in Seq(Node) /\ Len(r) = Len(s) - 1
    /\ \A k \in 1 .. Len(s) - 1 : r[k] = IF k < i THEN s[k] ELSE s[k + 1]

\* Taking a node out of a list.
LEMMA WithoutProperties ==
    ASSUME NEW s \in Seq(Node), NEW i \in 1 .. Len(s), NEW n,
           \A k \in 1 .. Len(s) : s[k] = n <=> k = i
    PROVE  IsWithout(Without(s, n), s, i)
<1> DEFINE w == Without(s, n)
           a == SubSeq(s, 1, i - 1)
           b == SubSeq(s, i + 1, Len(s))
<1>1. (CHOOSE k \in 1 .. Len(s) : s[k] = n) = i
  OBVIOUS
<1>2. w = a \o b
  BY <1>1 DEF Without, RemoveAt
<1>3. a \in Seq(Node) /\ Len(a) = i - 1 /\ \A k \in 1 .. i - 1 : a[k] = s[k]
  OBVIOUS
<1>4. b \in Seq(Node) /\ Len(b) = Len(s) - i /\ \A k \in 1 .. Len(s) - i : b[k] = s[i + k]
  OBVIOUS
<1> HIDE DEF w, a, b
<1>5. /\ w \in Seq(Node) /\ Len(w) = Len(s) - 1
      /\ \A k \in 1 .. Len(s) - 1 : w[k] = IF k <= i - 1 THEN a[k] ELSE b[k - (i - 1)]
  <2>1. /\ a \o b \in Seq(Node) /\ Len(a \o b) = Len(a) + Len(b)
        /\ \A k \in 1 .. Len(a) + Len(b) :
              (a \o b)[k] = IF k <= Len(a) THEN a[k] ELSE b[k - Len(a)]
    BY <1>3, <1>4, ConcatProperties
  <2>2. Len(a) + Len(b) = Len(s) - 1
    BY <1>3, <1>4
  <2> QED
    BY <1>2, <1>3, <2>1, <2>2
<1>6. ASSUME NEW k \in 1 .. Len(s) - 1 PROVE w[k] = IF k < i THEN s[k] ELSE s[k + 1]
  <2>1. CASE k < i
    BY <1>3, <1>5, <2>1
  <2>2. CASE k >= i
    <3>1. k - (i - 1) \in 1 .. Len(s) - i /\ i + (k - (i - 1)) = k + 1
      BY <2>2
    <3>2. b[k - (i - 1)] = s[k + 1]
      BY <1>4, <3>1
    <3> QED
      BY <1>5, <2>2, <3>2
  <2> QED
    BY <2>1, <2>2
<1>7. IsWithout(w, s, i)
  BY <1>5, <1>6, Zenon DEF IsWithout
<1> QED
  BY <1>7, Zenon DEF w

LEMMA WithoutType ==
    ASSUME NEW s \in Seq(Node), NEW n
    PROVE  Without(s, n) \in Seq(Node)
<1>1. CASE \E i \in 1 .. Len(s) : s[i] = n
  <2> DEFINE i == CHOOSE k \in 1 .. Len(s) : s[k] = n
  <2>1. i \in 1 .. Len(s)
    BY <1>1
  <2>2. Without(s, n) = SubSeq(s, 1, i - 1) \o SubSeq(s, i + 1, Len(s))
    BY <1>1 DEF Without, RemoveAt
  <2> HIDE DEF i
  <2> QED
    BY <2>1, <2>2
<1>2. CASE ~ \E i \in 1 .. Len(s) : s[i] = n
  BY <1>2 DEF Without
<1> QED
  BY <1>1, <1>2

\* Where an actor goes on after a stop.
LEMMA StoppedIs ==
    ASSUME NEW x \in Actor
    PROVE  /\ Stopped(x) \in {"error", "idle", "call"}
           /\ Stopped(x) = "error" <=> mutex = x
           /\ Stopped(x) = "idle" => x = App
           /\ Stopped(x) = "call" => x # App
BY DEF Stopped

\* A step in a stop: x alone moves, and does not touch the mutex.
LEMMA StopTInv ==
    ASSUME TInv, NEW x \in Actor, lo_server_thread_stop(x) \/ ClearActive(x) \/ pthread_join(x)
    PROVE  TInv' /\ UNCHANGED <<list, dispatch, errors>>
<1> USE DEF TInv, TypeOK
<1>1. /\ UNCHANGED <<list, dispatch, errors, protocol, thread, createFailed>>
      /\ active' \in BOOLEAN /\ joins' \in [Actor -> Actor] /\ selfStopped' \in BOOLEAN
      /\ undefined' \in {"no", "join", "memory", "node"}
  <2>1. CASE lo_server_thread_stop(x)
    BY <2>1 DEF lo_server_thread_stop, lifecycle
  <2>2. CASE ClearActive(x)
    BY <2>2, Zenon DEF ClearActive
  <2>3. CASE pthread_join(x)
    <3>1. /\ UNCHANGED <<list, dispatch, errors, protocol, active, thread, selfStopped, createFailed>>
          /\ joins' = joins \/ joins' = [joins EXCEPT ![x] = thread]
          /\ undefined' = undefined \/ undefined' = "join"
      BY <2>3, Zenon DEF pthread_join
    <3>2. [joins EXCEPT ![x] = thread] \in [Actor -> Actor]
      OBVIOUS
    <3> QED
      BY <3>1, <3>2, Zenon
  <2> QED
    BY <2>1, <2>2, <2>3, Zenon
<1>2. /\ pc' \in [Actor -> PC]
      /\ \A y \in Actor : y # x => pc'[y] = pc[y]
      /\ pc'[x] # "starting" /\ (pc'[x] = "idle" => x = App)
      /\ pc'[x] = "error" => mutex = x
      /\ mutex = x => pc'[x] \in {"error", "throw", "stopping", "cleared", "joining"}
      /\ mutex # x /\ x \in Thread => it[x] # 0
  <2>1. CASE lo_server_thread_stop(x)
    <3>1. pc[x] \in {"idle", "call", "error"} /\ pc' = [pc EXCEPT ![x] = "stopping"]
      BY <2>1 DEF lo_server_thread_stop
    <3> QED
      BY <3>1, Actors DEF PC, MutexInv, CallInv
  <2>2. CASE ClearActive(x)
    <3>1. pc[x] = "stopping" /\ pc' = [pc EXCEPT ![x] = "cleared"]
      BY <2>2 DEF ClearActive
    <3> QED
      BY <3>1, Actors DEF PC, CallInv
  <2>3. CASE pthread_join(x)
    <3>1. /\ pc[x] = "cleared"
          /\ \/ UNCHANGED pc
             \/ pc' = [pc EXCEPT ![x] = "joining"]
             \/ pc' = [pc EXCEPT ![x] = Stopped(x)]
      BY <2>3 DEF pthread_join
    <3>2. CASE UNCHANGED pc
      BY <3>1, <3>2, Actors DEF CallInv
    <3>3. CASE pc' = [pc EXCEPT ![x] = "joining"]
      BY <3>1, <3>3, Actors DEF PC, CallInv
    <3>4. CASE pc' = [pc EXCEPT ![x] = Stopped(x)]
      <4>1. Stopped(x) \in PC
        BY StoppedIs DEF PC
      <4>2. /\ pc' \in [Actor -> PC] /\ pc'[x] = Stopped(x)
            /\ \A y \in Actor : y # x => pc'[y] = pc[y]
        BY <3>4, <4>1
      <4>3. mutex # x /\ x \in Thread => it[x] # 0
        BY <3>1 DEF CallInv
      <4> QED
        BY <4>2, <4>3, StoppedIs, Actors
    <3> QED
      BY <3>1, <3>2, <3>3, <3>4
  <2> QED
    BY <2>1, <2>2, <2>3
<1>3. TypeOK'
  BY <1>1, <1>2 DEF list, dispatch, errors
<1>4. MutexInv' /\ CallInv'
  BY <1>1, <1>2, Actors DEF dispatch, errors, MutexInv, CallInv, ErrorContext
<1> QED
  BY <1>1, <1>3, <1>4

\* A step of one actor to a state in which no error handler runs or waits, that
\* keeps the mutex.
LEMMA NextTInv == TInv /\ [Next]_vars => TInv'
<1> SUFFICES ASSUME TInv, [Next]_vars PROVE TInv'
  OBVIOUS
<1> USE DEF lifecycle, list, dispatch, errors
<1>1. CASE lo_server_thread_start
  BY <1>1, Actors DEF lo_server_thread_start, TInv, TypeOK, MutexInv, CallInv, PC
<1>18. CASE pthread_create
  <2>1. /\ pc[App] = "starting" /\ pc' \in [Actor -> PC] /\ pc'[App] = "idle" /\ thread' \in Actor
        /\ \A t \in Thread : pc'[t] = pc[t] \/ (pc[t] = "none" /\ pc'[t] = "loop")
        /\ createFailed' \in BOOLEAN
    <3>1. pc \in [Actor -> PC] /\ thread \in Actor /\ createFailed \in BOOLEAN /\ pc[App] = "starting"
          /\ App \in Actor /\ App \notin Thread /\ Thread \subseteq Actor /\ 0 \in Actor
          /\ "idle" \in PC /\ "loop" \in PC
      BY <1>18, Actors DEF pthread_create, TInv, TypeOK, PC
    <3>2. CASE /\ NewThread \in Thread /\ pc[NewThread] = "none" /\ thread' = NewThread
               /\ pc' = [pc EXCEPT ![App] = "idle", ![NewThread] = "loop"]
               /\ UNCHANGED createFailed
      BY <3>1, <3>2
    <3>3. CASE /\ createFailed' = TRUE /\ thread' \in {thread, 0}
               /\ pc' = [pc EXCEPT ![App] = "idle"]
      BY <3>1, <3>3
    <3> QED
      BY <1>18, <3>2, <3>3, NewThreadIs, Zenon DEF pthread_create
  <2>2. UNCHANGED <<list, dispatch, errors, protocol, active, joins, selfStopped, undefined>>
    BY <1>18 DEF pthread_create
  <2>3. \A x \in Actor : mutex = x => pc'[x] = pc[x]
    BY <2>1, Actors DEF TInv, TypeOK
  <2>4. TypeOK'
    BY <2>1, <2>2, <2>3 DEF TInv, TypeOK
  <2>5. MutexInv' /\ CallInv'
    BY <2>1, <2>2, <2>3, Actors DEF TInv, MutexInv, CallInv, ErrorContext
  <2> QED
    BY <2>4, <2>5 DEF TInv
<1>2. CASE lo_server_thread_free
  <2>1. TypeOK'
    BY <1>2, Actors DEF lo_server_thread_free, TInv, TypeOK, PC
  <2>2. MutexInv' /\ CallInv'
    BY <1>2, Actors DEF lo_server_thread_free, TInv, TypeOK, MutexInv, CallInv
  <2> QED
    BY <2>1, <2>2 DEF TInv
<1>3. ASSUME NEW x \in Actor, JoinReturns(x) PROVE TInv'
  <2>1. joins[x] \in Actor /\ pc[x] = "joining" /\ pc[joins[x]] = "exited" /\ joins[x] # x
    BY <1>3 DEF JoinReturns, TInv, TypeOK
  <2>2. /\ pc' \in [Actor -> PC] /\ pc'[x] = Stopped(x) /\ pc'[joins[x]] = "joined"
        /\ \A y \in Actor : y # x /\ y # joins[x] => pc'[y] = pc[y]
    BY <1>3, <2>1, StoppedIs DEF JoinReturns, TInv, TypeOK, PC
  <2>3. /\ UNCHANGED <<protocol, active, thread, selfStopped, createFailed, list, dispatch, errors,
                       undefined>>
        /\ joins' \in [Actor -> Actor]
    BY <1>3, Actors DEF JoinReturns, TInv, TypeOK
  <2>4. mutex # joins[x]
    BY <2>1 DEF TInv, TypeOK
  <2>5. TypeOK'
    BY <2>1, <2>2, <2>3, <2>4, StoppedIs DEF TInv, TypeOK
  <2>6. MutexInv' /\ CallInv'
    BY <2>1, <2>2, <2>3, <2>4, StoppedIs, Actors DEF TInv, MutexInv, CallInv, ErrorContext
  <2> QED
    BY <2>5, <2>6 DEF TInv
<1>4. ASSUME NEW x \in Actor, AddStep(x) PROVE TInv'
  <2>1. op' \in [Actor -> ListOp]
    <3>1. op[x] \in [kind : {"add"}, node : Node, last : Node]
      BY <1>4 DEF AddStep, TInv, TypeOK, ListOp, None
    <3>2. next[op[x].last] \in Node \cup {0}
      BY <3>1 DEF TInv, TypeOK
    <3>3. [op[x] EXCEPT !.kind = "link"] \in ListOp
      BY <3>1 DEF ListOp
    <3>4. next[op[x].last] # 0 => [op[x] EXCEPT !.last = next[op[x].last]] \in ListOp
      BY <3>1, <3>2 DEF ListOp
    <3> QED
      BY <1>4, <3>3, <3>4 DEF AddStep, TInv, TypeOK
  <2> QED
    BY <1>4, <2>1 DEF AddStep, TInv, TypeOK, MutexInv, CallInv
<1>5. ASSUME NEW x \in Actor, AddLink(x) PROVE TInv'
  <2>1. op[x] \in [kind : {"link"}, node : Node, last : Node \cup {0}]
    BY <1>5 DEF AddLink, TInv, TypeOK, ListOp, None
  <2>2. first' \in Node \cup {0} /\ next' \in [Node -> Node \cup {0}]
    BY <1>5, <2>1 DEF AddLink, TInv, TypeOK
  <2>3. registered' \in Seq(Node)
    BY <1>5, <2>1 DEF AddLink, TInv, TypeOK
  <2>4. op' \in [Actor -> ListOp] /\ undefined' \in {"no", "join", "memory", "node"}
    BY <1>5 DEF AddLink, TInv, TypeOK, ListOp
  <2> QED
    BY <1>5, <2>2, <2>3, <2>4 DEF AddLink, TInv, TypeOK, MutexInv, CallInv
<1>6. ASSUME NEW x \in Actor, DelStep(x) PROVE TInv'
  <2> DEFINE n == op[x].it
  <2>1. op[x] \in [kind : {"del"}, path : Target \cup {NoPath},
                   typespec : {m.typespec : m \in Method}, it : Node \cup {0}, prev : Node]
    BY <1>6 DEF DelStep, TInv, TypeOK, ListOp, None
  <2>2. CASE n = 0
    <3>1. /\ op' = [op EXCEPT ![x] = None]
          /\ UNCHANGED <<first, next, freed, registered, underfoot, undefined>>
          /\ UNCHANGED <<lifecycle, dispatch, errors, pc, method, allocated, clash>>
      BY <1>6, <2>2 DEF DelStep
    <3>2. op' \in [Actor -> ListOp]
      BY <3>1 DEF TInv, TypeOK, ListOp
    <3>3. TypeOK'
      BY <3>1, <3>2 DEF TInv, TypeOK
    <3>4. MutexInv' /\ CallInv'
      BY <3>1 DEF TInv, MutexInv, CallInv, ErrorContext
    <3> QED
      BY <3>3, <3>4, Zenon DEF TInv
  <2>3. CASE n # 0 /\ undefined' = "node" /\ UNCHANGED <<op, first, next, freed, registered, underfoot>>
    BY <1>6, <2>3 DEF DelStep, TInv, TypeOK, MutexInv, CallInv
  <2>4. CASE /\ n # 0 /\ undefined' = undefined
             /\ \E prev \in Node : op' = [op EXCEPT ![x].it = next[n], ![x].prev = prev]
             /\ \/ UNCHANGED <<first, next, freed, registered, underfoot>>
                \/ /\ Unlink(n, op[x].prev) /\ freed' = freed \cup {n}
                   /\ registered' = Without(registered, n)
                   /\ underfoot' = (underfoot \/ \E t \in Thread : it[t] = n)
    <3>1. n \in Node /\ next[n] \in Node \cup {0} /\ op[x].prev \in Node
      BY <2>1, <2>4 DEF TInv, TypeOK
    <3>2. op' \in [Actor -> ListOp]
      <4>1. PICK prev \in Node : op' = [op EXCEPT ![x].it = next[n], ![x].prev = prev]
        BY <2>4
      <4>2. op' = [op EXCEPT ![x] = [op[x] EXCEPT !.it = next[n], !.prev = prev]]
        BY <4>1 DEF TInv, TypeOK
      <4>3. [op[x] EXCEPT !.it = next[n], !.prev = prev] \in ListOp
        BY <2>1, <3>1 DEF ListOp
      <4> QED
        BY <4>2, <4>3 DEF TInv, TypeOK
    <3>3. /\ first' \in Node \cup {0} /\ next' \in [Node -> Node \cup {0}] /\ freed' \subseteq Node
          /\ underfoot' \in BOOLEAN
      BY <2>4, <3>1 DEF Unlink, TInv, TypeOK
    <3>4. registered' \in Seq(Node)
      BY <2>4, WithoutType DEF TInv, TypeOK
    <3> QED
      BY <1>6, <2>4, <3>2, <3>3, <3>4 DEF DelStep, TInv, TypeOK, MutexInv, CallInv
  <2>5. op[x].prev \in Node
    BY <2>1
  <2> QED
    BY <1>6, <2>1, <2>2, <2>3, <2>4, <2>5 DEF DelStep
<1>7. ASSUME NEW x \in Actor, EnterHandler(x) PROVE TInv'
  BY <1>7, Actors DEF EnterHandler, TInv, TypeOK, MutexInv, CallInv, PC, ErrorContext
<1>8. ASSUME NEW x \in Actor, LeaveHandler(x) PROVE TInv'
  <2>1. /\ pc[x] = "error" /\ mutex = x /\ mutex' = -1
        /\ UNCHANGED <<lifecycle, list, dispatch, context, undefined, used>>
    BY <1>8, Zenon DEF LeaveHandler, TInv, MutexInv
  <2>2. /\ pc' \in [Actor -> PC] /\ \A y \in Actor : y # x => pc'[y] = pc[y]
        /\ pc'[x] \in {"idle", "loop"} /\ (x \in Thread => pc'[x] = "loop")
    BY <1>8, Actors DEF LeaveHandler, TInv, TypeOK, PC
  <2>3. TypeOK'
    BY <2>1, <2>2, Actors DEF TInv, TypeOK
  <2>4. MutexInv'
    BY <2>1, <2>2, Actors DEF TInv, MutexInv
  <2>5. CallInv'
    BY <2>1, <2>2, Actors DEF TInv, CallInv
  <2> QED
    BY <2>3, <2>4, <2>5, Zenon DEF TInv
<1>9. ASSUME NEW x \in Actor, AddBegin(x) PROVE TInv'
  <2>1. allocated' \in Node \cup {0} /\ allocated' \in Node
    BY <1>9, ThreadAssumption DEF AddBegin, TInv, TypeOK, Node
  <2>2. method' \in [Node -> Method \cup {None}]
    BY <1>9 DEF AddBegin, TInv, TypeOK
  <2>3. [kind |-> IF first = 0 THEN "link" ELSE "add", node |-> allocated', last |-> first] \in ListOp
    BY <2>1 DEF ListOp, TInv, TypeOK
  <2>4. op' \in [Actor -> ListOp] /\ clash' \in BOOLEAN
    BY <1>9, <2>3 DEF AddBegin, Clashes, TInv, TypeOK
  <2> QED
    BY <1>9, <2>1, <2>2, <2>4 DEF AddBegin, TInv, TypeOK, MutexInv, CallInv
<1>10. ASSUME NEW x \in Actor, DelBegin(x) PROVE TInv'
  <2>1. op' \in [Actor -> ListOp] /\ clash' \in BOOLEAN
    <3>1. PICK p \in Target \cup {NoPath}, m \in Method :
             op' = [op EXCEPT ![x] = [kind |-> "del", path |-> p, typespec |-> m.typespec,
                                      it |-> first, prev |-> first]]
      BY <1>10 DEF DelBegin
    <3>2. [kind |-> "del", path |-> p, typespec |-> m.typespec, it |-> first, prev |-> first]
             \in ListOp
      BY <1>10 DEF DelBegin, ListOp, TInv, TypeOK
    <3> QED
      BY <1>10, <3>1, <3>2 DEF DelBegin, Clashes, TInv, TypeOK
  <2> QED
    BY <1>10, <2>1 DEF DelBegin, TInv, TypeOK, MutexInv, CallInv
<1>11. ASSUME NEW x \in Actor, Throw(x) PROVE TInv'
  BY <1>11, Actors DEF Throw, TInv, TypeOK, MutexInv, CallInv, PC
<1>12. ASSUME NEW x \in Actor, NestedThrow(x) PROVE TInv'
  BY <1>12, Actors DEF NestedThrow, TInv, TypeOK, MutexInv, CallInv, PC
<1>13. ASSUME NEW t \in Thread,
              thread_func(t) \/ RecvNothing(t) \/ RecvBlocks(t) \/ ClientActs(t)
       PROVE  TInv'
  <2>1. /\ pc' \in [Actor -> PC] /\ pc'[t] \in {"loop", "recv", "blocked", "exited"}
        /\ pc[t] \in {"loop", "recv", "blocked"} /\ \A x \in Actor : x # t => pc'[x] = pc[x]
        /\ UNCHANGED <<lifecycle, list, dispatch, errors, undefined>>
    BY <1>13, Actors DEF thread_func, RecvNothing, RecvBlocks, ClientActs, TInv, TypeOK, PC
  <2>2. TypeOK'
    BY <2>1, Actors DEF TInv, TypeOK
  <2> QED
    <3>1. /\ \A y \in Actor : pc'[y] = "error" => pc[y] = "error"
          /\ \A y \in Actor : pc'[y] \in {"idle", "starting", "call", "stopping", "cleared", "joining"}
                             => pc[y] = pc'[y]
      BY <2>1
    <3>2. UNCHANGED <<it, mutex, context>>
      BY <2>1
    <3>3. MutexInv'
      BY <3>1, <3>2 DEF TInv, MutexInv, ErrorContext
    <3>4. CallInv'
      BY <3>1, <3>2, Actors DEF TInv, CallInv
    <3> QED
      BY <2>2, <3>3, <3>4 DEF TInv
<1>14. ASSUME NEW t \in Thread, RecvMessage(t) PROVE TInv'
  <2>1. ToSet(registered) \subseteq Node
    BY DEF ToSet, TInv, TypeOK
  <2>2. /\ it' \in [Thread -> Node \cup {0}] /\ message' \in [Thread -> Target \cup {NoPath}]
        /\ calls' \in [Thread -> Seq(Node)] /\ known' \in [Thread -> SUBSET Node]
        /\ ret' \in [Thread -> {0, 1}]
    BY <1>14, <2>1 DEF RecvMessage, TInv, TypeOK
  <2>3. /\ pc' \in [Actor -> PC] /\ pc'[t] = "walk" /\ \A x \in Actor : x # t => pc'[x] = pc[x]
        /\ \A u \in Thread : u # t => it'[u] = it[u]
        /\ pc[t] = "recv"
    BY <1>14, Actors DEF RecvMessage, TInv, TypeOK, PC
  <2>4. UNCHANGED <<lifecycle, list, errors, undefined>>
    BY <1>14 DEF RecvMessage
  <2>5. TypeOK'
    BY <2>2, <2>3, <2>4, Actors DEF TInv, TypeOK
  <2> QED
    BY <2>3, <2>4, <2>5, Actors DEF TInv, MutexInv, CallInv
<1>15. ASSUME NEW t \in Thread, Visit(t) PROVE TInv'
  <2>1. it[t] \in Node /\ next[it[t]] \in Node \cup {0}
    BY <1>15 DEF Visit, TInv, TypeOK
  <2>2. it' \in [Thread -> Node \cup {0}]
    <3>1. it' = it \/ it' = [it EXCEPT ![t] = next[it[t]]]
      BY <1>15, Zenon DEF Visit
    <3>2. it \in [Thread -> Node \cup {0}]
      BY Zenon DEF TInv, TypeOK
    <3> QED
      BY <2>1, <3>1, <3>2
  <2>3. calls' \in [Thread -> Seq(Node)]
    <3>1. Append(calls[t], it[t]) \in Seq(Node)
      BY <2>1 DEF TInv, TypeOK
    <3> QED
      BY <1>15, <3>1 DEF Visit, TInv, TypeOK
  <2>4. /\ pc' \in [Actor -> PC] /\ \A x \in Actor : x # t => pc'[x] = pc[x]
        /\ \A u \in Thread : u # t => it'[u] = it[u]
        /\ pc[t] = "walk" /\ (pc'[t] = "walk" \/ (pc'[t] = "call" /\ it'[t] # 0))
    BY <1>15, Actors, ZenonT(40) DEF Visit, TInv, TypeOK, PC
  <2>5. UNCHANGED <<lifecycle, list, errors, ret, message, known, undefined>>
    BY <1>15 DEF Visit
  <2>6. TypeOK'
    BY <2>2, <2>3, <2>4, <2>5, Actors DEF TInv, TypeOK
  <2> QED
    BY <2>4, <2>5, <2>6, Actors DEF TInv, MutexInv, CallInv
<1>16. ASSUME NEW t \in Thread, Return(t) \/ WalkEnds(t) \/ Enumerate(t) PROVE TInv'
  <2>1. pc[t] \in {"walk", "call", "enumerate"} /\ UNCHANGED <<lifecycle, list, errors>>
    BY <1>16 DEF Return, WalkEnds, Enumerate
  <2>2. CASE DispatchEnds(t)
    <3>1. /\ it' \in [Thread -> Node \cup {0}] /\ message' \in [Thread -> Target \cup {NoPath}]
          /\ calls' \in [Thread -> Seq(Node)] /\ known' \in [Thread -> SUBSET Node]
          /\ ret' \in [Thread -> {0, 1}] /\ undefined' = undefined
      BY <2>2 DEF DispatchEnds, TInv, TypeOK
    <3>2. /\ pc' \in [Actor -> PC] /\ pc'[t] = "loop" /\ \A x \in Actor : x # t => pc'[x] = pc[x]
          /\ \A u \in Thread : u # t => it'[u] = it[u]
      BY <2>2, Actors DEF DispatchEnds, TInv, TypeOK, PC
    <3>3. TypeOK'
      BY <2>1, <3>1, <3>2, Actors DEF TInv, TypeOK
    <3> QED
      BY <2>1, <3>2, <3>3, Actors DEF TInv, MutexInv, CallInv
  <2>3. CASE undefined' = "node" /\ UNCHANGED <<pc, dispatch>>
    BY <2>1, <2>3 DEF TInv, TypeOK, MutexInv, CallInv
  <2>5. CASE /\ pc[t] = "enumerate" /\ it[t] # 0 /\ it' = [it EXCEPT ![t] = next[it[t]]]
             /\ UNCHANGED <<pc, ret, undefined, message, calls, known>>
    <3>1. it' \in [Thread -> Node \cup {0}]
      BY <2>5 DEF TInv, TypeOK
    <3>2. \A u \in Thread : u # t => it'[u] = it[u]
      BY <2>5 DEF TInv, TypeOK
    <3>3. TypeOK'
      BY <2>1, <2>5, <3>1 DEF TInv, TypeOK
    <3> QED
      BY <2>1, <2>5, <3>2, <3>3, Actors DEF TInv, MutexInv, CallInv, ErrorContext
  <2>6. CASE /\ pc[t] = "walk" /\ it' = [it EXCEPT ![t] = first]
             /\ pc' = [pc EXCEPT ![t] = "enumerate"]
             /\ calls' = [calls EXCEPT ![t] = <<>>] /\ known' = [known EXCEPT ![t] = {}]
             /\ UNCHANGED <<ret, message, undefined>>
    <3>1. /\ it' \in [Thread -> Node \cup {0}] /\ calls' \in [Thread -> Seq(Node)]
          /\ known' \in [Thread -> SUBSET Node]
      BY <2>6 DEF TInv, TypeOK
    <3>2. /\ pc' \in [Actor -> PC] /\ pc'[t] = "enumerate" /\ \A x \in Actor : x # t => pc'[x] = pc[x]
          /\ \A u \in Thread : u # t => it'[u] = it[u]
      BY <2>6, Actors DEF TInv, TypeOK, PC
    <3>3. TypeOK'
      BY <2>1, <2>6, <3>1, <3>2, Actors DEF TInv, TypeOK
    <3> QED
      BY <2>1, <2>6, <3>2, <3>3, Actors DEF TInv, MutexInv, CallInv, ErrorContext
  <2>4. CASE /\ pc[t] = "call" /\ it' = [it EXCEPT ![t] = next[it[t]]]
             /\ pc' = [pc EXCEPT ![t] = "walk"]
             /\ ret' \in [Thread -> {0, 1}]
             /\ UNCHANGED <<undefined, message, calls, known>>
    <3>1. it[t] \in Node /\ next[it[t]] \in Node \cup {0}
      BY <2>4 DEF TInv, TypeOK, CallInv
    <3>2. it' \in [Thread -> Node \cup {0}]
      BY <2>4, <3>1 DEF TInv, TypeOK
    <3>3. /\ pc' \in [Actor -> PC] /\ pc'[t] = "walk" /\ \A x \in Actor : x # t => pc'[x] = pc[x]
          /\ \A u \in Thread : u # t => it'[u] = it[u]
      BY <2>4, Actors DEF TInv, TypeOK, PC
    <3>4. TypeOK'
      BY <2>1, <2>4, <3>2, <3>3, Actors DEF TInv, TypeOK
    <3> QED
      BY <2>1, <2>4, <3>3, <3>4, Actors DEF TInv, MutexInv, CallInv
  <2>7. \A r \in {0, 1} : [ret EXCEPT ![t] = r] \in [Thread -> {0, 1}]
    BY DEF TInv, TypeOK
  <2>8. CASE Return(t)
    BY <2>2, <2>3, <2>4, <2>7, <2>8 DEF Return
  <2>9. CASE WalkEnds(t)
    BY <2>2, <2>3, <2>6, <2>9 DEF WalkEnds
  <2>10. CASE Enumerate(t)
    BY <2>2, <2>3, <2>5, <2>10 DEF Enumerate
  <2> QED
    BY <1>16, <2>8, <2>9, <2>10
<1>17. CASE UNCHANGED vars
  BY <1>17 DEF vars, TInv, TypeOK, MutexInv, CallInv
<1> QED
  BY <1>1, <1>2, <1>3, <1>4, <1>5, <1>6, <1>7, <1>8, <1>9, <1>10, <1>11, <1>12, <1>13, <1>14,
     <1>15, <1>16, <1>17, <1>18, StopTInv DEF Next, Continue, Request, RunThread

\* In every reachable state variables have their types, and the mutex, calls and
\* list operations agree with where each actor is.
THEOREM SpecTInv == Spec => []TInv
BY InitTInv, NextTInv, PTL DEF Spec

\* In an error handler lo_error_get_context is what was set for the server that has
\* the error, whichever threads have errors at that time.
THEOREM ContextStays == Spec => []ContextIsThrowers
<1>1. TInv => ContextIsThrowers
  BY DEF TInv, MutexInv, ContextIsThrowers
<1> QED
  BY <1>1, SpecTInv, PTL

--------------------------------------------------------------------------------
(***************************************************************************)
(* The threads.                                                            *)
(***************************************************************************)
LEMMA InitThreads == Init => JoinInv /\ SoloInv
BY Actors DEF Init, JoinInv, SoloInv, Begun

\* A step that is neither a thread's creation nor a join's begin or end, and does not
\* clear active.
LEMMA KeepsThreads ==
    ASSUME TInv, JoinInv, SoloInv, UNCHANGED lifecycle, NEW x \in Actor,
           \A y \in Actor : y # x => pc'[y] = pc[y],
           \/ pc'[x] = pc[x]
           \/ /\ {pc[x], pc'[x]} \cap {"starting", "cleared", "joining", "none", "joined"} = {}
              /\ pc'[x] = "exited" => ~active
              /\ pc'[x] = "stopping" => active
    PROVE  JoinInv' /\ SoloInv'
<1>1. /\ active' = active /\ thread' = thread /\ joins' = joins
      /\ selfStopped' = selfStopped /\ createFailed' = createFailed
  BY DEF lifecycle
<1>2. \A y \in Actor : /\ \A v \in {"starting", "cleared", "joining", "none", "joined"} :
                              pc'[y] = v <=> pc[y] = v
                       /\ pc'[y] = "exited" => pc[y] = "exited" \/ ~active
                       /\ pc'[y] = "stopping" => pc[y] = "stopping" \/ active
  <2> SUFFICES ASSUME NEW y \in Actor
               PROVE  /\ \A v \in {"starting", "cleared", "joining", "none", "joined"} :
                            pc'[y] = v <=> pc[y] = v
                      /\ pc'[y] = "exited" => pc[y] = "exited" \/ ~active
                      /\ pc'[y] = "stopping" => pc[y] = "stopping" \/ active
    OBVIOUS
  <2>1. CASE pc'[y] = pc[y]
    BY <2>1
  <2>2. CASE pc'[y] # pc[y]
    <3>1. y = x
      BY <2>2
    <3> QED
      BY <2>2, <3>1
  <2> QED
    BY <2>1, <2>2
<1>3. \A y \in Actor : /\ pc'[y] = "starting" <=> pc[y] = "starting"
                       /\ pc'[y] = "cleared" <=> pc[y] = "cleared"
                       /\ pc'[y] = "joining" <=> pc[y] = "joining"
                       /\ pc'[y] = "none" <=> pc[y] = "none"
                       /\ pc'[y] = "joined" <=> pc[y] = "joined"
  BY <1>2
<1>4. /\ thread \in Actor /\ joins \in [Actor -> Actor] /\ App \in Actor
      /\ \A t \in Thread : t \in Actor
  BY Actors DEF TInv, TypeOK
<1>5. \A y \in Actor : Begun(y)' <=> Begun(y)
  BY <1>3 DEF Begun
<1>6. JoinInv'
  <2>1. \A y \in Actor : joins[y] \in Actor
    BY <1>4
  <2> QED
    BY <1>1, <1>3, <1>4, <2>1 DEF JoinInv
<1>7. ASSUME ~selfStopped
      PROVE  /\ \A t \in Thread : Begun(t)' => t = thread
             /\ \A t \in Thread : Begun(t)' /\ ~active => pc'[App] \in {"cleared", "joining"}
             /\ \A t \in Thread : /\ pc'[t] \notin {"cleared", "joining"}
                                  /\ pc'[t] = "exited" => ~active
             /\ pc'[App] \in {"cleared", "joining"} => ~active
             /\ pc'[App] = "joining" => joins[App] = thread
             /\ pc'[App] = "starting" => active /\ \A t \in Thread : ~Begun(t)'
             /\ pc'[App] = "stopping" => active
             /\ ~createFailed /\ pc'[App] # "starting" /\ (active \/ pc'[App] = "cleared") =>
                   thread # 0 /\ pc'[thread] # "joined"
  <2>1. \A t \in Thread : Begun(t)' => t = thread
    BY <1>4, <1>5, <1>7 DEF SoloInv
  <2>2. \A t \in Thread : Begun(t)' /\ ~active => pc'[App] \in {"cleared", "joining"}
    BY <1>3, <1>4, <1>5, <1>7 DEF SoloInv
  <2>3. \A t \in Thread : /\ pc'[t] \notin {"cleared", "joining"}
                          /\ pc'[t] = "exited" => ~active
    BY <1>2, <1>3, <1>4, <1>7 DEF SoloInv
  <2>4. /\ pc'[App] \in {"cleared", "joining"} => ~active
        /\ pc'[App] = "joining" => joins[App] = thread
        /\ pc'[App] = "starting" => active /\ \A t \in Thread : ~Begun(t)'
        /\ pc'[App] = "stopping" => active
    BY <1>2, <1>3, <1>4, <1>5, <1>7 DEF SoloInv
  <2>5. ~createFailed /\ pc'[App] # "starting" /\ (active \/ pc'[App] = "cleared") =>
           thread # 0 /\ pc'[thread] # "joined"
    BY <1>3, <1>4, <1>7 DEF SoloInv
  <2> QED
    BY <2>1, <2>2, <2>3, <2>4, <2>5
<1>8. SoloInv'
  BY <1>1, <1>7 DEF SoloInv
<1> QED
  BY <1>6, <1>8

LEMMA NextThreads == TInv /\ JoinInv /\ SoloInv /\ [Next]_vars => JoinInv' /\ SoloInv'
<1> SUFFICES ASSUME TInv, JoinInv, SoloInv, [Next]_vars PROVE JoinInv' /\ SoloInv'
  OBVIOUS
<1>0. pc \in [Actor -> PC] /\ thread \in Actor /\ joins \in [Actor -> Actor] /\ App \in Actor
  BY Actors DEF TInv, TypeOK
<1>1. CASE lo_server_thread_start
  <2>1. /\ active' = TRUE /\ pc[App] = "idle" /\ ~active
        /\ UNCHANGED <<thread, joins, selfStopped, createFailed>>
        /\ pc'[App] = "starting" /\ \A t \in Thread : pc'[t] = pc[t]
    BY <1>0, <1>1, Actors DEF lo_server_thread_start
  <2>2. JoinInv'
    BY <1>0, <2>1, Actors DEF JoinInv
  <2>3. SoloInv'
    BY <1>0, <2>1, Actors DEF SoloInv, Begun
  <2> QED
    BY <2>2, <2>3
<1>2. CASE pthread_create
  <2>1. /\ pc[App] = "starting" /\ pc'[App] = "idle"
        /\ UNCHANGED <<active, joins, selfStopped>>
    BY <1>0, <1>2, Actors, NewThreadIs DEF pthread_create
  <2>2. CASE /\ NewThread \in Thread /\ pc[NewThread] = "none" /\ thread' = NewThread
             /\ pc' = [pc EXCEPT ![App] = "idle", ![NewThread] = "loop"]
             /\ UNCHANGED createFailed
    <3>1. /\ pc'[NewThread] = "loop" /\ NewThread # App /\ NewThread # 0
          /\ \A x \in Actor : x # NewThread /\ x # App => pc'[x] = pc[x]
      BY <1>0, <2>2, Actors
    <3>2. JoinInv'
      BY <1>0, <2>1, <2>2, <3>1, Actors DEF JoinInv
    <3>3. SoloInv'
      BY <1>0, <2>1, <2>2, <3>1, Actors DEF SoloInv, Begun
    <3> QED
      BY <3>2, <3>3
  <2>3. CASE /\ createFailed' = TRUE /\ thread' \in {thread, 0}
             /\ pc' = [pc EXCEPT ![App] = "idle"]
    <3>1. \A t \in Thread : pc'[t] = pc[t]
      BY <1>0, <2>3, Actors
    <3>2. JoinInv'
      BY <1>0, <2>1, <2>3, <3>1, Actors DEF JoinInv
    <3>3. SoloInv'
      BY <1>0, <2>1, <2>3, <3>1, Actors DEF SoloInv, Begun
    <3> QED
      BY <3>2, <3>3
  <2> QED
    BY <1>2, <2>2, <2>3, NewThreadIs DEF pthread_create
<1>3. ASSUME NEW x \in Actor, lo_server_thread_stop(x) PROVE JoinInv' /\ SoloInv'
  <2>1. /\ pc[x] \in {"idle", "call", "error"} /\ pc'[x] = "stopping" /\ active
        /\ \A y \in Actor : y # x => pc'[y] = pc[y]
        /\ UNCHANGED lifecycle
    BY <1>0, <1>3 DEF lo_server_thread_stop
  <2> QED
    BY <2>1, KeepsThreads
<1>4. ASSUME NEW x \in Actor, ClearActive(x) PROVE JoinInv' /\ SoloInv'
  <2>1. /\ pc[x] = "stopping" /\ pc'[x] = "cleared" /\ active' = FALSE
        /\ \A y \in Actor : y # x => pc'[y] = pc[y]
        /\ UNCHANGED <<thread, joins, createFailed>>
        /\ selfStopped' = (selfStopped \/ x \in Thread)
    BY <1>0, <1>4 DEF ClearActive
  <2>2. JoinInv'
    BY <1>0, <2>1 DEF JoinInv
  <2>3. CASE x \in Thread \/ selfStopped
    <3>1. selfStopped'
      BY <2>1, <2>3
    <3> QED
      BY <2>2, <3>1 DEF SoloInv
  <2>4. CASE x = App /\ ~selfStopped
    <3>1. /\ App \notin Thread /\ \A t \in Thread : pc'[t] = pc[t] /\ Begun(t)' = Begun(t)
      BY <2>1, <2>4, Actors DEF Begun
    <3>2. thread # App => pc'[thread] = pc[thread]
      BY <1>0, <2>1, <2>4
    <3>3. active /\ pc[App] # "starting" /\ App = 0
      BY <2>1, <2>4, Actors DEF SoloInv
    <3> QED
      BY <1>0, <2>1, <2>2, <2>4, <3>1, <3>2, <3>3 DEF SoloInv
  <2> QED
    BY <2>2, <2>3, <2>4, Actors
<1>5. ASSUME NEW x \in Actor, pthread_join(x) PROVE JoinInv' /\ SoloInv'
  <2>1. pc[x] = "cleared" /\ UNCHANGED <<active, thread, selfStopped, createFailed>>
    BY <1>5 DEF pthread_join
  <2>2. CASE thread = x /\ x # App
    <3>1. UNCHANGED joins /\ pc' = [pc EXCEPT ![x] = Stopped(x)]
      BY <1>5, <2>2 DEF pthread_join
    <3>2. selfStopped /\ selfStopped'
      BY <2>1, <2>2, Actors DEF SoloInv
    <3> QED
      BY <1>0, <2>1, <3>1, <3>2, StoppedIs DEF JoinInv, SoloInv
  <2>3. CASE UNCHANGED <<pc, joins>>
    BY <2>1, <2>3 DEF JoinInv, SoloInv, Begun
  <2>4. CASE /\ thread # 0 /\ thread # x /\ pc' = [pc EXCEPT ![x] = "joining"]
             /\ joins' = [joins EXCEPT ![x] = thread]
    <3>1. /\ pc'[x] = "joining" /\ joins'[x] = thread
          /\ \A y \in Actor : y # x => pc'[y] = pc[y] /\ joins'[y] = joins[y]
      BY <1>0, <2>4
    <3>2. JoinInv'
      BY <1>0, <2>1, <2>4, <3>1 DEF JoinInv
    <3>3. CASE selfStopped
      BY <2>1, <3>2, <3>3 DEF SoloInv
    <3>4. CASE ~selfStopped
      <4>1. x = App
        BY <2>1, <3>4, Actors DEF SoloInv
      <4>2. SoloInv'
        BY <1>0, <2>1, <2>4, <3>1, <3>4, <4>1, Actors DEF SoloInv, Begun
      <4> QED
        BY <3>2, <4>2
    <3> QED
      BY <3>3, <3>4
  <2> QED
    BY <1>5, <2>2, <2>3, <2>4, Actors DEF pthread_join
<1>6. ASSUME NEW x \in Actor, JoinReturns(x) PROVE JoinInv' /\ SoloInv'
  <2>1. joins[x] \in Actor /\ pc[x] = "joining" /\ pc[joins[x]] = "exited" /\ joins[x] # x
    BY <1>0, <1>6 DEF JoinReturns
  <2>2. /\ pc'[x] \in {"error", "idle", "call"} /\ pc'[joins[x]] = "joined"
        /\ \A y \in Actor : y # x /\ y # joins[x] => pc'[y] = pc[y]
        /\ \A y \in Actor : y # x => joins'[y] = joins[y]
        /\ UNCHANGED <<active, thread, selfStopped, createFailed>>
    BY <1>0, <1>6, <2>1, StoppedIs DEF JoinReturns
  <2>3. JoinInv'
    BY <1>0, <2>1, <2>2 DEF JoinInv
  <2>4. CASE selfStopped
    BY <2>2, <2>3, <2>4 DEF SoloInv
  <2>5. CASE ~selfStopped
    <3>1. x = App /\ joins[x] = thread /\ ~active
      BY <2>1, <2>5, Actors DEF SoloInv
    <3>2. SoloInv'
      BY <1>0, <2>1, <2>2, <2>5, <3>1, Actors DEF SoloInv, Begun
    <3> QED
      BY <2>3, <3>2
  <2> QED
    BY <2>4, <2>5
<1>7. CASE UNCHANGED <<lifecycle, pc>>
  BY <1>0, <1>7, KeepsThreads
<1>8. CASE lo_server_thread_free \/ UNCHANGED vars
  <2>1. /\ UNCHANGED lifecycle /\ \A y \in Actor : y # App => pc'[y] = pc[y]
        /\ pc'[App] = pc[App] \/ (pc[App] = "idle" /\ pc'[App] = "freed")
    BY <1>0, <1>8 DEF lo_server_thread_free, vars
  <2> QED
    BY <1>0, <2>1, KeepsThreads
<1>9. ASSUME NEW x \in Actor, AddStep(x) \/ AddLink(x) \/ DelStep(x) \/ AddBegin(x) \/ DelBegin(x)
      PROVE  JoinInv' /\ SoloInv'
  BY <1>7, <1>9 DEF AddStep, AddLink, DelStep, AddBegin, DelBegin
<1>10. ASSUME NEW x \in Actor, EnterHandler(x) \/ LeaveHandler(x) \/ Throw(x) \/ NestedThrow(x)
      PROVE  JoinInv' /\ SoloInv'
  <2>1. /\ UNCHANGED lifecycle /\ \A y \in Actor : y # x => pc'[y] = pc[y]
        /\ pc[x] \in {"idle", "recv", "throw", "error"}
        /\ pc'[x] \in {"idle", "loop", "throw", "error"}
    BY <1>0, <1>10 DEF EnterHandler, LeaveHandler, Throw, NestedThrow
  <2> QED
    BY <2>1, KeepsThreads
<1>11. ASSUME NEW t \in Thread, RunThread(t) \/ ClientActs(t) PROVE JoinInv' /\ SoloInv'
  <2>1. /\ t \in Actor /\ UNCHANGED lifecycle /\ \A y \in Actor : y # t => pc'[y] = pc[y]
        /\ \/ pc'[t] = pc[t]
           \/ /\ pc[t] \in {"loop", "recv", "blocked", "walk", "call", "enumerate"}
              /\ pc'[t] \in {"loop", "recv", "blocked", "walk", "call", "enumerate", "exited"}
              /\ pc'[t] = "exited" => ~active
    <3>1. CASE thread_func(t)
      BY <1>0, <3>1, Actors DEF thread_func
    <3>2. CASE RecvNothing(t) \/ RecvBlocks(t) \/ ClientActs(t) \/ RecvMessage(t)
      BY <1>0, <3>2, Actors DEF RecvNothing, RecvBlocks, ClientActs, RecvMessage
    <3>3. CASE Visit(t)
      BY <1>0, <3>3, Actors DEF Visit
    <3>4. CASE Return(t) \/ WalkEnds(t) \/ Enumerate(t)
      BY <1>0, <3>4, Actors DEF Return, WalkEnds, Enumerate, DispatchEnds
    <3> QED
      BY <1>11, <3>1, <3>2, <3>3, <3>4 DEF RunThread
  <2> QED
    BY <2>1, KeepsThreads
<1> QED
  BY <1>1, <1>2, <1>3, <1>4, <1>5, <1>6, <1>8, <1>9, <1>10, <1>11 DEF Next, Continue, Request

\* There is one thread on the server, unless a method stopped the thread that
\* calls it (server_thread.c:134, 158).
THEOREM ServerHasOneThread == Spec => []OneThread
<1>1. TInv /\ SoloInv => OneThread
  <2> SUFFICES ASSUME TInv, SoloInv, ~selfStopped
               PROVE  Cardinality({t \in Thread : Running(t)}) <= 1
    BY DEF OneThread
  <2>1. {t \in Thread : Running(t)} \subseteq {thread}
    BY DEF SoloInv, Running, Begun
  <2>2. IsFiniteSet({thread}) /\ Cardinality({thread}) = 1
    BY FS_Singleton
  <2>3. Cardinality({t \in Thread : Running(t)}) <= Cardinality({thread})
    BY <2>1, <2>2, FS_Subset
  <2> QED
    BY <2>2, <2>3
<1> QED
  BY <1>1, InitThreads, NextThreads, SpecTInv, PTL DEF Spec

--------------------------------------------------------------------------------
(***************************************************************************)
(* The list of methods.                                                    *)
(***************************************************************************)
LEMMA NoneOK == OpOK(None)
BY DEF OpOK, None

LEMMA ListTypes ==
    ASSUME TInv
    PROVE  /\ registered \in Seq(Node) /\ Len(registered) \in Nat /\ Node \subseteq Nat \ {0}
           /\ \A i \in 1 .. Len(registered) : registered[i] \in Node
           /\ allocated \in Nat /\ next \in [Node -> Node \cup {0}] /\ op \in [Actor -> ListOp]
           /\ freed \subseteq Node
BY ThreadAssumption DEF TInv, TypeOK, Node

LEMMA OrderedDistinct ==
    ASSUME NEW s \in Seq(Node), Ordered(s), NEW i \in 1 .. Len(s), NEW j \in 1 .. Len(s)
    PROVE  (s[i] < s[j] <=> i < j) /\ (s[i] = s[j] <=> i = j)
<1>1. s[i] \in Nat /\ s[j] \in Nat /\ i \in Nat /\ j \in Nat
  BY ThreadAssumption DEF Node
<1>2. (i < j => s[i] < s[j]) /\ (j < i => s[j] < s[i])
  BY DEF Ordered
<1> QED
  BY <1>1, <1>2

LEMMA SoleOp ==
    ASSUME ListInv, ~clash, NEW x \in Actor, op[x].kind # "none"
    PROVE  OpOK(op[x]) /\ \A y \in Actor : y # x => op[y] = None
BY DEF ListInv, None

LEMMA InitListInv == Init => ListInv
<1> SUFFICES ASSUME Init PROVE ListInv
  OBVIOUS
<1>1. PICK l \in Initial :
          /\ registered = [n \in 1 .. Len(l) |-> n] /\ freed = {}
          /\ first = IF l = <<>> THEN 0 ELSE 1
          /\ next = [n \in Node |-> IF n < Len(l) THEN n + 1 ELSE 0]
          /\ allocated = Len(l)
  BY DEF Init
<1>2. l \in Seq(Method) /\ Len(l) \in Nat /\ Len(l) <= MaxNodes /\ MaxNodes \in Nat
  BY ThreadAssumption
<1>3. Len(registered) = Len(l) /\ \A i \in 1 .. Len(l) : registered[i] = i /\ i \in Node
  BY <1>1, <1>2 DEF Node
<1>4. l = <<>> <=> Len(l) = 0
  BY <1>2
<1>5. Linked
  BY <1>1, <1>2, <1>3, <1>4 DEF Linked
<1>6. /\ Ordered(registered)
      /\ \A i \in 1 .. Len(registered) : registered[i] <= allocated /\ registered[i] \notin freed
      /\ freed \subseteq 1 .. allocated
      /\ \A n \in Node : n > allocated => next[n] = 0
  BY <1>1, <1>2, <1>3 DEF Ordered, Node
<1>7. \A x \in Actor : op[x] = None /\ OpOK(op[x])
  BY NoneOK DEF Init
<1> QED
  BY <1>5, <1>6, <1>7 DEF ListInv

LEMMA AddBeginListInv ==
    ASSUME TInv, ListInv, NEW x \in Actor, AddBegin(x)
    PROVE  ListInv'
<1> SUFFICES ASSUME ~clash' PROVE ListInv'
  BY DEF ListInv
<1>1. ~clash /\ \A y \in Actor : op[y] = None
  BY DEF AddBegin, Clashes, MayChange
<1> PICK o :
        o = [kind |-> IF first = 0 THEN "link" ELSE "add", node |-> allocated + 1, last |-> first]
  OBVIOUS
<1>2. /\ op' = [op EXCEPT ![x] = o] /\ allocated' = allocated + 1
      /\ UNCHANGED <<first, next, freed, registered>> /\ allocated + 1 \in Node
  <2>1. allocated + 1 \in Node
    BY ThreadAssumption DEF AddBegin, Node, TInv, TypeOK
  <2> QED
    BY <2>1 DEF AddBegin
<1>3. /\ Linked /\ Ordered(registered)
      /\ \A i \in 1 .. Len(registered) : registered[i] <= allocated /\ registered[i] \notin freed
      /\ freed \subseteq 1 .. allocated
      /\ \A n \in Node : n > allocated => next[n] = 0
  BY <1>1 DEF ListInv
<1>4. /\ o.node = allocated + 1 /\ o.last = first
      /\ o.kind = IF first = 0 THEN "link" ELSE "add"
  OBVIOUS
<1>5. op'[x] = o /\ \A y \in Actor : y # x => op'[y] = None
  BY <1>1, <1>2, ListTypes
<1>6. Adds(o)'
  BY <1>2, <1>3, <1>4, <1>5, ListTypes DEF Adds
<1>7. OpOK(o)'
  <2>1. CASE Len(registered) = 0
    BY <1>2, <1>3, <1>4, <1>6, <2>1, ListTypes DEF Linked, OpOK
  <2>2. CASE Len(registered) # 0
    <3>1. first = registered[1] /\ 1 \in 1 .. Len(registered) /\ first # 0
      BY <1>3, <2>2, ListTypes DEF Linked
    <3> QED
      BY <1>2, <1>4, <1>6, <3>1 DEF OpOK, InList
  <2> QED
    BY <2>1, <2>2
<1>8. Linked' /\ Ordered(registered)'
  BY <1>2, <1>3 DEF Linked, Ordered
<1>9. /\ \A i \in 1 .. Len(registered) : registered[i] <= allocated + 1
      /\ freed \subseteq 1 .. allocated + 1
      /\ \A n \in Node : n > allocated + 1 => next[n] = 0
  BY <1>3, ListTypes
<1>10. /\ \A y \in Actor : OpOK(op[y])'
       /\ \A y, z \in Actor : op'[y] # None /\ op'[z] # None => y = z
  BY <1>5, <1>7 DEF OpOK, Adds, InList, None
<1> QED
  BY <1>2, <1>3, <1>8, <1>9, <1>10 DEF ListInv

\* A step of the operation of x that leaves the list alone.
LEMMA OpStepListInv ==
    ASSUME TInv, ListInv, NEW x \in Actor, NEW o, op' = [op EXCEPT ![x] = o],
           ~clash => OpOK(o) /\ \A y \in Actor : y # x => op[y] = None,
           UNCHANGED <<first, next, allocated, freed, registered>>, clash => clash'
    PROVE  ListInv'
<1> SUFFICES ASSUME ~clash' PROVE ListInv'
  BY DEF ListInv
<1>1. op'[x] = o /\ \A y \in Actor : y # x => op'[y] = None
  BY ListTypes
<1>2. OpOK(o)'
  BY DEF OpOK, Adds, InList
<1>3. /\ \A y \in Actor : OpOK(op[y])'
      /\ \A y, z \in Actor : op'[y] # None /\ op'[z] # None => y = z
  BY <1>1, <1>2 DEF OpOK, Adds, InList, None
<1>4. Linked' /\ Ordered(registered)'
  BY DEF ListInv, Linked, Ordered
<1> QED
  BY <1>3, <1>4 DEF ListInv

LEMMA AddStepListInv ==
    ASSUME TInv, ListInv, NEW x \in Actor, AddStep(x)
    PROVE  ListInv' /\ (undefined' # undefined => clash)
<1> DEFINE last == op[x].last
<1>1. op[x].kind = "add" /\ op[x] \in [kind : {"add"}, node : Node, last : Node]
  BY ListTypes DEF AddStep, ListOp, None
<1>2. UNCHANGED <<first, next, allocated, freed, registered, clash>>
  BY DEF AddStep
<1>3. ASSUME ~clash
      PROVE  /\ OpOK(op[x]) /\ \A y \in Actor : y # x => op[y] = None
             /\ \E i \in 1 .. Len(registered) : last = registered[i] /\ last \notin freed
  BY <1>1, <1>3, SoleOp DEF OpOK, InList, ListInv
<1>4. CASE UNCHANGED op
  <2>1. op' = [op EXCEPT ![x] = op[x]]
    BY <1>4, ListTypes
  <2>2. ListInv'
    BY <1>2, <1>3, <2>1, OpStepListInv
  <2>3. ~clash => undefined' = undefined
    BY <1>3 DEF AddStep
  <2> QED
    BY <2>2, <2>3
<1>5. CASE /\ last \notin freed /\ undefined' = undefined
           /\ op' = [op EXCEPT ![x] = IF next[last] = 0 THEN [@ EXCEPT !.kind = "link"]
                                                        ELSE [@ EXCEPT !.last = next[last]]]
  <2> DEFINE o == IF next[last] = 0 THEN [op[x] EXCEPT !.kind = "link"]
                                    ELSE [op[x] EXCEPT !.last = next[last]]
  <2>1. op' = [op EXCEPT ![x] = o]
    BY <1>5, ListTypes
  <2>2. ASSUME ~clash PROVE OpOK(o)
    <3>1. PICK i \in 1 .. Len(registered) : last = registered[i]
      BY <1>3, <2>2
    <3>2. next[last] = IF i = Len(registered) THEN 0 ELSE registered[i + 1]
      BY <2>2, <3>1 DEF ListInv, Linked
    <3>3. Adds(op[x])
      BY <1>1, <1>3, <2>2 DEF OpOK
    <3>4. CASE i = Len(registered)
      <4>1. o.kind = "link" /\ o.node = op[x].node /\ o.last = registered[Len(registered)]
        BY <1>1, <3>1, <3>2, <3>4
      <4>2. registered # <<>>
        BY <3>1
      <4> QED
        BY <3>3, <4>1, <4>2 DEF OpOK, Adds
    <3>5. CASE i # Len(registered)
      <4>1. i + 1 \in 1 .. Len(registered) /\ registered[i + 1] # 0
        BY <3>1, <3>5, ListTypes
      <4>2. o.kind = "add" /\ o.node = op[x].node /\ o.last = registered[i + 1]
        BY <1>1, <3>2, <3>5, <4>1
      <4> HIDE DEF o
      <4> QED
        BY <3>3, <4>1, <4>2 DEF OpOK, Adds, InList
    <3> QED
      BY <3>4, <3>5
  <2> HIDE DEF o
  <2> QED
    BY <1>2, <1>3, <1>5, <2>1, <2>2, OpStepListInv
<1> QED
  BY <1>4, <1>5 DEF AddStep

LEMMA DelBeginListInv ==
    ASSUME TInv, ListInv, NEW x \in Actor, DelBegin(x)
    PROVE  ListInv'
<1> SUFFICES ASSUME ~clash' PROVE ListInv'
  BY DEF ListInv
<1>1. ~clash /\ (\A y \in Actor : op[y] = None) /\ first # 0
      /\ UNCHANGED <<first, next, allocated, freed, registered>>
  BY DEF DelBegin, Clashes, MayChange
<1>2. PICK p \in Target \cup {NoPath}, m \in Method :
         op' = [op EXCEPT ![x] = [kind |-> "del", path |-> p, typespec |-> m.typespec,
                                  it |-> first, prev |-> first]]
  BY DEF DelBegin
<1> DEFINE o == [kind |-> "del", path |-> p, typespec |-> m.typespec, it |-> first, prev |-> first]
<1>3. OpOK(o)
  <2>1. o.kind = "del" /\ o.it = first
    OBVIOUS
  <2>2. first = registered[1] /\ 1 \in 1 .. Len(registered)
    BY <1>1, ListTypes DEF ListInv, Linked
  <2> HIDE DEF o
  <2> QED
    BY <2>1, <2>2 DEF OpOK
<1> HIDE DEF o
<1> QED
  BY <1>1, <1>2, <1>3, OpStepListInv DEF o

LEMMA AddLinkListInv ==
    ASSUME TInv, ListInv, NEW x \in Actor, AddLink(x)
    PROVE  ListInv' /\ (undefined' # undefined => clash)
<1> DEFINE end == Len(registered)
           new == op[x].node
           last == op[x].last
<1>1. op[x].kind = "link" /\ new \in Node /\ last \in Node \cup {0}
  BY ListTypes DEF AddLink, ListOp, None
<1>2. /\ registered' = Append(registered, new)
      /\ first' = IF last = 0 THEN new ELSE first
      /\ next' = IF last = 0 THEN next ELSE [next EXCEPT ![last] = new]
      /\ undefined' = IF last \in freed THEN "node" ELSE undefined
      /\ op' = [op EXCEPT ![x] = None]
      /\ UNCHANGED <<allocated, freed, clash>>
  BY DEF AddLink
<1> SUFFICES ASSUME ~clash PROVE ListInv' /\ undefined' = undefined
  BY <1>2 DEF ListInv
<1>3. /\ Linked /\ Ordered(registered)
      /\ \A i \in 1 .. end : registered[i] <= allocated /\ registered[i] \notin freed
      /\ freed \subseteq 1 .. allocated
      /\ \A n \in Node : n > allocated => next[n] = 0
  BY DEF ListInv
<1>4. /\ new <= allocated /\ new \notin freed /\ next[new] = 0
      /\ \A i \in 1 .. end : registered[i] < new
      /\ last = IF end = 0 THEN 0 ELSE registered[end]
      /\ \A y \in Actor : y # x => op[y] = None
  <2>1. OpOK(op[x]) /\ \A y \in Actor : y # x => op[y] = None
    BY <1>1, SoleOp
  <2>2. registered = <<>> <=> end = 0
    BY ListTypes
  <2> QED
    BY <1>1, <2>1, <2>2 DEF OpOK, Adds
<1>5. /\ Len(registered') = end + 1 /\ registered'[end + 1] = new
      /\ \A i \in 1 .. end : registered'[i] = registered[i]
  BY <1>1, <1>2, ListTypes
<1> HIDE DEF new, last, end
<1>6. end \in Nat /\ \A i \in 1 .. end : registered[i] \in Node
  BY ListTypes DEF end
<1>7. Node \subseteq Nat \ {0} /\ allocated \in Nat /\ freed \subseteq Node /\ next \in [Node -> Node \cup {0}]
  BY ListTypes
<1>8. last \notin freed
  BY <1>3, <1>4, <1>6, <1>7
<1>9. first' = registered'[1]
  BY <1>2, <1>3, <1>4, <1>5, <1>6, <1>7 DEF Linked, end
<1>10. ASSUME NEW i \in 1 .. end + 1
       PROVE  next'[registered'[i]] = IF i = end + 1 THEN 0 ELSE registered'[i + 1]
  <2>1. CASE i = end + 1
    BY <1>1, <1>2, <1>4, <1>5, <1>6, <1>7, <2>1
  <2>2. CASE i = end
    BY <1>2, <1>4, <1>5, <1>6, <1>7, <2>2
  <2>3. CASE i < end
    <3>1. i \in 1 .. end /\ i + 1 \in 1 .. end /\ end \in 1 .. end /\ end # 0
      BY <1>6, <2>3
    <3>2. registered[i] # registered[end]
      BY <1>3, <1>6, <1>7, <2>3, <3>1, OrderedDistinct, ListTypes DEF end
    <3>3. next[registered[i]] = registered[i + 1]
      BY <1>3, <2>3, <3>1 DEF Linked, end
    <3> QED
      BY <1>2, <1>4, <1>5, <1>6, <1>7, <2>3, <3>1, <3>2, <3>3
  <2> QED
    BY <1>6, <2>1, <2>2, <2>3
<1>11. Linked'
  BY <1>5, <1>6, <1>9, <1>10 DEF Linked
<1>12. Ordered(registered)'
  <2> SUFFICES ASSUME NEW i \in 1 .. end + 1, NEW j \in 1 .. end + 1, i < j
               PROVE  registered'[i] < registered'[j]
    BY <1>5 DEF Ordered
  <2> QED
    BY <1>3, <1>4, <1>5, <1>6 DEF Ordered, end
<1>13. /\ \A i \in 1 .. Len(registered)' : registered'[i] <= allocated /\ registered'[i] \notin freed
       /\ \A n \in Node : n > allocated => next'[n] = 0
  <2>1. last <= allocated
    BY <1>3, <1>4, <1>6, <1>7 DEF end
  <2> QED
    BY <1>2, <1>3, <1>4, <1>5, <1>6, <1>7, <2>1 DEF end
<1>14. \A y \in Actor : op'[y] = None
  BY <1>2, <1>4, ListTypes
<1>15. \A y \in Actor : OpOK(op[y])'
  BY <1>14 DEF OpOK, None
<1> QED
  BY <1>2, <1>3, <1>8, <1>11, <1>12, <1>13, <1>14, <1>15 DEF ListInv

\* Node i of the list is unlinked.
LEMMA UnlinkList ==
    ASSUME TInv, Linked, Ordered(registered), NEW i \in 1 .. Len(registered), NEW n, NEW prev,
           n = registered[i], i > 1 => prev = registered[i - 1],
           Unlink(n, prev), registered' = Without(registered, n)
    PROVE  /\ Linked' /\ Ordered(registered)' /\ Len(registered') = Len(registered) - 1
           /\ \A k \in 1 .. Len(registered) - 1 :
                 registered'[k] = IF k < i THEN registered[k] ELSE registered[k + 1]
           /\ next' = next \/ next' = [next EXCEPT ![registered[i - 1]] = next[n]]
<1> DEFINE end == Len(registered)
<1>1. /\ registered \in Seq(Node) /\ end \in Nat /\ \A k \in 1 .. end : registered[k] \in Node
      /\ Node \subseteq Nat \ {0} /\ next \in [Node -> Node \cup {0}]
  BY ListTypes
<1>2. \A k, l \in 1 .. end : (registered[k] < registered[l] <=> k < l) /\ (registered[k] = registered[l] <=> k = l)
  BY <1>1, OrderedDistinct
<1>3. /\ Len(registered') = end - 1
      /\ \A k \in 1 .. end - 1 : registered'[k] = IF k < i THEN registered[k] ELSE registered[k + 1]
  <2>1. \A k \in 1 .. end : registered[k] = registered[i] <=> k = i
    BY <1>2
  <2>2. IsWithout(Without(registered, registered[i]), registered, i)
    BY <1>1, <2>1, WithoutProperties
  <2> QED
    BY <2>2, Zenon DEF IsWithout
<1>4. /\ first = registered[1] /\ end >= 1
      /\ \A k \in 1 .. end : next[registered[k]] = IF k = end THEN 0 ELSE registered[k + 1]
  BY <1>1 DEF Linked
<1> HIDE DEF end
<1>5. Ordered(registered)'
  <2> SUFFICES ASSUME NEW k \in 1 .. end - 1, NEW l \in 1 .. end - 1, k < l
               PROVE  registered'[k] < registered'[l]
    BY <1>3 DEF Ordered
  <2>1. k \in 1 .. end /\ k + 1 \in 1 .. end /\ l \in 1 .. end /\ l + 1 \in 1 .. end
    BY <1>1
  <2> QED
    BY <1>2, <1>3, <2>1
<1>6. CASE i = 1
  <2>1. first' = next[n] /\ next' = next
    BY <1>4, <1>6 DEF Unlink
  <2>2. first' = IF end - 1 = 0 THEN 0 ELSE registered'[1]
    <3>1. 1 \in 1 .. end /\ next[n] = IF 1 = end THEN 0 ELSE registered[1 + 1]
      BY <1>4, <1>6 DEF end
    <3>2. 1 # end => 1 \in 1 .. end - 1 /\ registered'[1] = registered[1 + 1]
      BY <1>1, <1>3, <1>4, <1>6
    <3> QED
      BY <1>1, <2>1, <3>1, <3>2
  <2>3. ASSUME NEW k \in 1 .. end - 1
        PROVE  next'[registered'[k]] = IF k = end - 1 THEN 0 ELSE registered'[k + 1]
    <3>1. registered'[k] = registered[k + 1] /\ k + 1 \in 1 .. end
      BY <1>1, <1>3, <1>6
    <3>2. next[registered[k + 1]] = IF k + 1 = end THEN 0 ELSE registered[k + 1 + 1]
      BY <1>4, <3>1
    <3>3. k # end - 1 => registered'[k + 1] = registered[k + 1 + 1]
      BY <1>1, <1>3, <1>6
    <3> QED
      BY <1>1, <2>1, <3>1, <3>2, <3>3
  <2> QED
    BY <1>3, <1>5, <2>1, <2>2, <2>3 DEF Linked, end
<1>7. CASE i # 1
  <2>1. i > 1 /\ i - 1 \in 1 .. end /\ prev = registered[i - 1] /\ n # first /\ i \in 1 .. end /\ 1 \in 1 .. end
    BY <1>1, <1>2, <1>4, <1>7 DEF end
  <2>2. first' = first /\ next' = [next EXCEPT ![prev] = next[n]]
    BY <2>1 DEF Unlink
  <2>3. first' = IF end - 1 = 0 THEN 0 ELSE registered'[1]
    BY <1>1, <1>3, <1>4, <2>1, <2>2
  <2>4. next[n] = IF i = end THEN 0 ELSE registered[i + 1]
    BY <1>4 DEF end
  <2>5. ASSUME NEW k \in 1 .. end - 1
        PROVE  next'[registered'[k]] = IF k = end - 1 THEN 0 ELSE registered'[k + 1]
    <3>1. CASE k < i - 1
      <4>1. /\ registered'[k] = registered[k] /\ registered'[k + 1] = registered[k + 1]
            /\ k # end - 1 /\ k # end /\ k \in 1 .. end
        BY <1>1, <1>3, <2>1, <3>1
      <4>2. next'[registered[k]] = next[registered[k]]
        BY <1>1, <1>2, <2>1, <2>2, <3>1, <4>1
      <4> QED
        BY <1>4, <4>1, <4>2
    <3>2. CASE k = i - 1
      <4>1. registered'[k] = prev /\ (k # end - 1 => registered'[k + 1] = registered[i + 1])
        BY <1>1, <1>3, <2>1, <3>2
      <4>2. next'[prev] = next[n]
        BY <1>1, <2>1, <2>2
      <4> QED
        BY <1>1, <2>1, <2>4, <3>2, <4>1, <4>2
    <3>3. CASE k >= i
      <4>1. /\ registered'[k] = registered[k + 1] /\ k + 1 \in 1 .. end
            /\ k # end - 1 => registered'[k + 1] = registered[k + 1 + 1]
        BY <1>1, <1>3, <2>1, <3>3
      <4>2. next'[registered[k + 1]] = next[registered[k + 1]]
        BY <1>1, <1>2, <2>1, <2>2, <3>3, <4>1
      <4>3. next[registered[k + 1]] = IF k + 1 = end THEN 0 ELSE registered[k + 1 + 1]
        BY <1>4, <4>1
      <4> QED
        BY <1>1, <4>1, <4>2, <4>3
    <3> QED
      BY <1>1, <2>1, <3>1, <3>2, <3>3
  <2> QED
    BY <1>3, <1>5, <2>1, <2>2, <2>3, <2>5 DEF Linked, end
<1> QED
  BY <1>6, <1>7

LEMMA DelStepListInv ==
    ASSUME TInv, ListInv, NEW x \in Actor, DelStep(x)
    PROVE  ListInv' /\ (undefined' # undefined => clash)
<1>1. /\ op[x] \in [kind : {"del"}, path : Target \cup {NoPath},
                    typespec : {m.typespec : m \in Method}, it : Node \cup {0}, prev : Node]
      /\ op[x].kind # "none"
  BY ListTypes DEF DelStep, ListOp, None
<1>2. UNCHANGED <<allocated, clash>>
  BY DEF DelStep
<1> SUFFICES ASSUME ~clash PROVE ListInv' /\ undefined' = undefined
  BY <1>2 DEF ListInv
<1>3. PICK n, prev : n = op[x].it /\ prev = op[x].prev
  OBVIOUS
<1>4. OpOK(op[x]) /\ \A y \in Actor : y # x => op[y] = None
  BY <1>1, SoleOp
<1>5. CASE n = 0
  <2>1. op' = [op EXCEPT ![x] = None] /\ UNCHANGED <<first, next, freed, registered, undefined>>
    BY <1>3, <1>5 DEF DelStep
  <2> QED
    BY <1>2, <1>4, <2>1, NoneOK, OpStepListInv
<1>6. CASE n # 0
  <2>1. PICK i \in 1 .. Len(registered) : n = registered[i] /\ (i > 1 => prev = registered[i - 1])
    BY <1>1, <1>3, <1>4, <1>6 DEF OpOK
  <2>2. /\ Linked /\ Ordered(registered)
        /\ \A k \in 1 .. Len(registered) : registered[k] <= allocated /\ registered[k] \notin freed
        /\ freed \subseteq 1 .. allocated
        /\ \A m \in Node : m > allocated => next[m] = 0
    BY DEF ListInv
  <2>3. n # first => i > 1
    BY <2>1, <2>2, ListTypes DEF Linked
  <2>4. n \notin freed /\ (n # first => prev \notin freed)
    <3>1. i > 1 => i - 1 \in 1 .. Len(registered)
      BY <2>1, ListTypes
    <3> QED
      BY <2>1, <2>2, <2>3, <3>1
  <2>5. PICK goes : goes = Deleted(method[n], op[x])
    OBVIOUS
  <2>6. PICK o : o = [op[x] EXCEPT !.it = next[n], !.prev = IF goes THEN prev ELSE n]
    OBVIOUS
  <2>7. /\ op' = [op EXCEPT ![x] = o] /\ undefined' = undefined
        /\ IF goes
           THEN /\ Unlink(n, prev) /\ freed' = freed \cup {n} /\ registered' = Without(registered, n)
           ELSE UNCHANGED <<first, next, freed, registered>>
    <3>1. /\ op' = [op EXCEPT ![x].it = next[n], ![x].prev = IF goes THEN prev ELSE n]
          /\ undefined' = undefined
          /\ IF goes
             THEN /\ Unlink(n, prev) /\ freed' = freed \cup {n} /\ registered' = Without(registered, n)
             ELSE UNCHANGED <<first, next, freed, registered>>
      BY <1>3, <1>6, <2>4, <2>5 DEF DelStep
    <3> QED
      BY <2>6, <3>1, ListTypes
  <2>8. o.kind = "del" /\ o.it = next[n] /\ o.prev = IF goes THEN prev ELSE n
    BY <1>1, <2>6
  <2>9. next[n] = IF i = Len(registered) THEN 0 ELSE registered[i + 1]
    BY <2>1, <2>2 DEF Linked
  <2>10. CASE ~goes
    <3>1. i # Len(registered) => i + 1 \in 1 .. Len(registered) /\ i + 1 - 1 = i
      BY <2>1, ListTypes
    <3>2. OpOK(o)
      BY <2>1, <2>8, <2>9, <2>10, <3>1 DEF OpOK
    <3> QED
      BY <1>2, <1>4, <2>7, <2>10, <3>2, OpStepListInv
  <2>11. CASE goes
    <3>1. /\ Unlink(n, prev) /\ freed' = freed \cup {n} /\ registered' = Without(registered, n)
      BY <2>7, <2>11
    <3>2. /\ Linked' /\ Ordered(registered)' /\ Len(registered') = Len(registered) - 1
          /\ \A k \in 1 .. Len(registered) - 1 :
                registered'[k] = IF k < i THEN registered[k] ELSE registered[k + 1]
          /\ next' = next \/ next' = [next EXCEPT ![registered[i - 1]] = next[n]]
      BY <2>1, <2>2, <3>1, UnlinkList
    <3>3. \A k \in 1 .. Len(registered)' : registered'[k] <= allocated /\ registered'[k] \notin freed'
      <4> SUFFICES ASSUME NEW k \in 1 .. Len(registered) - 1
                   PROVE  registered'[k] <= allocated /\ registered'[k] \notin freed \cup {n}
        BY <3>1, <3>2
      <4>1. PICK l \in 1 .. Len(registered) : registered'[k] = registered[l] /\ l # i
        BY <2>1, <3>2, ListTypes, SMTT(30)
      <4> QED
        BY <2>1, <2>2, <4>1, OrderedDistinct, ListTypes
    <3>4. freed' \subseteq 1 .. allocated
      <4>1. n \in Nat \ {0} /\ n <= allocated /\ allocated \in Nat
        BY <2>1, <2>2, ListTypes
      <4> QED
        BY <2>2, <3>1, <4>1
    <3>5. \A m \in Node : m > allocated => next'[m] = 0
      <4> SUFFICES ASSUME NEW m \in Node, m > allocated, next'[m] # next[m] PROVE FALSE
        BY <2>2
      <4>1. m = registered[i - 1]
        BY <3>2, ListTypes
      <4>2. i > 1
        BY <2>1, <2>2, <3>1, OrderedDistinct, ListTypes DEF Unlink, Linked
      <4>3. i - 1 \in 1 .. Len(registered)
        BY <4>2, ListTypes
      <4> QED
        BY <2>2, <4>1, <4>3, ListTypes
    <3>6. /\ \A y \in Actor : OpOK(op[y])'
          /\ \A y, z \in Actor : op'[y] # None /\ op'[z] # None => y = z
      <4>1. op'[x] = o /\ \A y \in Actor : y # x => op'[y] = None
        BY <1>4, <2>7, ListTypes
      <4>2. CASE i = Len(registered)
        BY <2>8, <2>9, <4>1, <4>2 DEF OpOK, None
      <4>3. CASE i # Len(registered)
        <5>1. /\ i \in 1 .. Len(registered)' /\ registered'[i] = registered[i + 1]
              /\ i > 1 => registered'[i - 1] = registered[i - 1]
          <6>1. i \in 1 .. Len(registered) - 1 /\ ~(i < i)
            BY <2>1, <4>3, ListTypes
          <6>2. i > 1 => i - 1 \in 1 .. Len(registered) - 1 /\ i - 1 < i
            BY <6>1, ListTypes
          <6> QED
            BY <3>2, <6>1, <6>2
        <5>2. o.it = registered'[i] /\ (i > 1 => o.prev = registered'[i - 1])
          BY <2>1, <2>8, <2>9, <2>11, <4>3, <5>1
        <5>3. ASSUME NEW y \in Actor PROVE OpOK(op[y])'
          BY <2>8, <4>1, <5>1, <5>2 DEF OpOK, None
        <5> QED
          BY <4>1, <5>3
      <4> QED
        BY <4>2, <4>3
    <3> QED
      BY <1>2, <2>7, <3>2, <3>3, <3>4, <3>5, <3>6 DEF ListInv
  <2> QED
    BY <2>10, <2>11, <2>7
<1> QED
  BY <1>5, <1>6

LEMMA NextListInv == TInv /\ ListInv /\ [Next]_vars => ListInv'
<1> SUFFICES ASSUME TInv, ListInv, [Next]_vars PROVE ListInv'
  OBVIOUS
<1>1. CASE UNCHANGED list
  BY <1>1 DEF list, ListInv, Linked, Ordered, OpOK, Adds, InList
<1>2. CASE \/ lo_server_thread_start \/ pthread_create \/ lo_server_thread_free \/ UNCHANGED vars
  BY <1>1, <1>2 DEF lo_server_thread_start, pthread_create, lo_server_thread_free, vars
<1>3. ASSUME NEW x \in Actor, Continue(x) \/ Request(x) PROVE ListInv'
  <2>1. CASE AddStep(x) \/ AddLink(x) \/ DelStep(x) \/ AddBegin(x) \/ DelBegin(x)
    BY <2>1, AddStepListInv, AddLinkListInv, DelStepListInv, AddBeginListInv, DelBeginListInv
  <2>2. CASE \/ lo_server_thread_stop(x) \/ ClearActive(x) \/ pthread_join(x) \/ JoinReturns(x)
             \/ EnterHandler(x) \/ LeaveHandler(x) \/ Throw(x) \/ NestedThrow(x)
    BY <1>1, <2>2, StopTInv DEF JoinReturns, EnterHandler, LeaveHandler, Throw, NestedThrow
  <2> QED
    BY <1>3, <2>1, <2>2 DEF Continue, Request
<1>4. ASSUME NEW t \in Thread, RunThread(t) \/ ClientActs(t) PROVE ListInv'
  BY <1>1, <1>4 DEF RunThread, thread_func, RecvNothing, RecvBlocks, ClientActs, RecvMessage, Visit,
                    Return, WalkEnds, Enumerate
<1> QED
  BY <1>2, <1>3, <1>4 DEF Next

\* The pointers hold exactly the methods added and not deleted, in the order of
\* their adding, in the midst of every change, as long as no two actors were
\* ever changing the list at once (server.c:1988-1993, 2015-2037).
THEOREM PointersHoldTheList == Spec => []ListIsRegistered
<1>1. TInv /\ ListInv => ListIsRegistered
  BY DEF TInv, ListInv, Linked, ListIsRegistered
<1> QED
  BY <1>1, InitListInv, NextListInv, SpecTInv, PTL DEF Spec

--------------------------------------------------------------------------------
(***************************************************************************)
(* The walks.                                                              *)
(***************************************************************************)
LEMMA WalkTypes ==
    ASSUME TInv, NEW t \in Thread
    PROVE  /\ it[t] \in Node \cup {0} /\ calls[t] \in Seq(Node) /\ known[t] \subseteq Node
           /\ Len(calls[t]) \in Nat /\ \A i \in 1 .. Len(calls[t]) : calls[t][i] \in Node
           /\ it \in [Thread -> Node \cup {0}] /\ message \in [Thread -> Target \cup {NoPath}]
           /\ calls \in [Thread -> Seq(Node)] /\ known \in [Thread -> SUBSET Node]
           /\ pc \in [Actor -> PC] /\ t \in Actor
BY Actors, SMTT(30) DEF TInv, TypeOK

\* What a step leaves of the list for the walks along it.
ListGrows ==
    /\ freed \subseteq freed' /\ (underfoot => underfoot')
    /\ \A n \in Node : InList(n) => InList(n)' \/ n \in freed'
    /\ \A t \in Thread : it[t] \in freed' \ freed => underfoot'
    /\ \A n \in Node : n <= allocated => method'[n] = method[n]

\* Does t walk along the list.
Walking(t) == pc[t] \in {"walk", "enumerate"}

\* A walk that no step of its thread moves.
LEMMA WalkKeeps ==
    ASSUME TInv, ListInv, ~clash, ListGrows, NEW t \in Thread, WalkOK(t),
           it'[t] = it[t], calls'[t] = calls[t], known'[t] = known[t], message'[t] = message[t],
           Walking(t) \/ Walking(t)' => pc'[t] = pc[t]
    PROVE  WalkOK(t)'
<1>1. \A n \in known[t] : n \in Node /\ method'[n] = method[n]
  <2> SUFFICES ASSUME NEW n \in known[t] PROVE n \in Node /\ n <= allocated
    BY DEF ListGrows
  <2>1. n \in Node /\ (InList(n) \/ n \in freed)
    BY WalkTypes DEF WalkOK
  <2>2. InList(n) => n <= allocated
    BY DEF ListInv, InList
  <2>3. n \in freed => n <= allocated
    BY ListTypes DEF ListInv
  <2> QED
    BY <2>1, <2>2, <2>3
<1>2. /\ it'[t] # 0 => InList(it[t])' \/ it'[t] \in freed'
      /\ it'[t] \in freed' => underfoot'
  BY WalkTypes DEF WalkOK, ListGrows, InList
<1>3. \A n \in known'[t] : InList(n)' \/ n \in freed'
  BY <1>1 DEF WalkOK, ListGrows, InList
<1>0. /\ pc'[t] = "walk" <=> pc[t] = "walk"
      /\ pc'[t] = "enumerate" <=> pc[t] = "enumerate"
  BY DEF Walking
<1>4. Ordered(calls[t])' /\ (pc'[t] = "enumerate" => calls'[t] = <<>> /\ known'[t] = {})
  BY <1>0 DEF WalkOK, Ordered
<1>5. \A n \in known'[t] \ freed' : Called(method'[n], message'[t]) =>
          \/ \E i \in 1 .. Len(calls'[t]) : calls'[t][i] = n
          \/ it'[t] # 0 /\ (n > it'[t] \/ (n = it'[t] /\ pc'[t] = "walk"))
  BY <1>0, <1>1 DEF WalkOK, ListGrows
<1>6. it'[t] # 0 => \A i \in 1 .. Len(calls'[t]) :
                       calls'[t][i] < it'[t] \/ (calls'[t][i] = it'[t] /\ pc'[t] # "walk")
  BY <1>0 DEF WalkOK
<1> QED
  BY <1>2, <1>3, <1>4, <1>5, <1>6 DEF WalkOK, InList, Called

\* A walk goes on to the next node from one whose method was called or is not for
\* its message.
LEMMA WalkMoves ==
    ASSUME TInv, ListInv, ~clash, NEW t \in Thread, WalkOK(t), UNCHANGED list,
           it[t] # 0, it[t] \notin freed, it'[t] = next[it[t]],
           calls'[t] = calls[t], known'[t] = known[t], message'[t] = message[t], pc'[t] = "walk",
           pc[t] = "walk" => ~Called(method[it[t]], message[t])
    PROVE  WalkOK(t)'
<1> DEFINE end == Len(registered)
<1>1. /\ \A k \in 1 .. end : registered[k] \in Node /\ registered[k] \notin freed
      /\ \A k \in 1 .. end : next[registered[k]] = IF k = end THEN 0 ELSE registered[k + 1]
      /\ end \in Nat /\ Node \subseteq Nat \ {0} /\ registered \in Seq(Node) /\ Ordered(registered)
  BY ListTypes DEF ListInv, Linked
<1>2. PICK i \in 1 .. end : it[t] = registered[i]
  BY DEF WalkOK, InList
<1>3. it'[t] = IF i = end THEN 0 ELSE registered[i + 1]
  BY <1>1, <1>2
<1>4. \A k, l \in 1 .. end : registered[k] < registered[l] <=> k < l
  BY <1>1, OrderedDistinct
<1>5. /\ registered' = registered /\ freed' = freed /\ method' = method
  BY DEF list
<1> HIDE DEF end
<1>6. it'[t] # 0 => i + 1 \in 1 .. end /\ it'[t] = registered[i + 1] /\ it'[t] > it[t] /\ it'[t] \notin freed
  <2> SUFFICES ASSUME it'[t] # 0
               PROVE  i + 1 \in 1 .. end /\ it'[t] = registered[i + 1] /\ it'[t] > it[t] /\ it'[t] \notin freed
    OBVIOUS
  <2>1. i + 1 \in 1 .. end /\ it'[t] = registered[i + 1]
    BY <1>1, <1>3
  <2> QED
    BY <1>1, <1>2, <1>4, <2>1
<1>7. ASSUME NEW n \in Node, InList(n), n > it[t] PROVE it'[t] # 0 /\ n >= it'[t]
  <2>1. PICK k \in 1 .. end : n = registered[k]
    BY <1>7 DEF InList, end
  <2>2. i < k
    BY <1>1, <1>2, <1>4, <1>7, <2>1
  <2>3. i + 1 \in 1 .. end /\ i # end /\ (k = i + 1 \/ i + 1 < k)
    BY <1>1, <2>2
  <2>4. it'[t] = registered[i + 1] /\ it'[t] \in Nat \ {0}
    BY <1>1, <1>3, <2>3
  <2>5. i + 1 < k => registered[i + 1] < registered[k]
    BY <1>4, <2>3
  <2> QED
    BY <1>1, <2>1, <2>3, <2>4, <2>5
<1>8. ASSUME NEW k \in 1 .. Len(calls[t]), it'[t] # 0 PROVE calls[t][k] < it'[t]
  <2>1. calls[t][k] \in Nat /\ it[t] \in Nat /\ it'[t] \in Nat
    BY <1>1, <1>2, <1>6, <1>8, WalkTypes
  <2>2. calls[t][k] <= it[t]
    BY <2>1 DEF WalkOK
  <2> QED
    BY <1>6, <1>8, <2>1, <2>2
<1>9. ASSUME NEW n \in known[t] \ freed, Called(method[n], message[t]),
             ~ \E k \in 1 .. Len(calls[t]) : calls[t][k] = n
      PROVE  it'[t] # 0 /\ (n > it'[t] \/ n = it'[t])
  <2>1. n \in Node /\ InList(n)
    BY WalkTypes DEF WalkOK
  <2>2. n > it[t]
    BY <1>9 DEF WalkOK
  <2>3. it'[t] # 0 /\ n >= it'[t]
    BY <1>7, <2>1, <2>2
  <2>4. n \in Nat /\ it'[t] \in Nat
    BY <1>1, <1>6, <2>1, <2>3
  <2> QED
    BY <2>3, <2>4
<1>10. Ordered(calls[t])'
  BY DEF WalkOK, Ordered
<1>11. \A n \in known[t] : InList(n) \/ n \in freed
  BY DEF WalkOK
<1>12. it'[t] # 0 => InList(it[t])'
  BY <1>5, <1>6 DEF InList, end
<1>13. it'[t] \notin freed
  BY <1>1, <1>6, ListTypes
<1> QED
  BY <1>5, <1>8, <1>9, <1>10, <1>11, <1>12, <1>13 DEF WalkOK, InList, Called

\* A step along the list, or to its head, with nothing called or known.
LEMMA WalkSteps ==
    ASSUME TInv, ListInv, ~clash, NEW t \in Thread, WalkOK(t), UNCHANGED list,
           calls'[t] = <<>>, known'[t] = {},
           \/ it'[t] = first
           \/ it[t] # 0 /\ it[t] \notin freed /\ it'[t] = next[it[t]]
    PROVE  WalkOK(t)'
<1> DEFINE end == Len(registered)
<1>1. /\ \A k \in 1 .. end : registered[k] \in Node /\ registered[k] \notin freed
      /\ \A k \in 1 .. end : next[registered[k]] = IF k = end THEN 0 ELSE registered[k + 1]
      /\ first = IF end = 0 THEN 0 ELSE registered[1]
      /\ end \in Nat /\ 0 \notin freed
  BY ListTypes DEF ListInv, Linked
<1>2. /\ registered' = registered /\ freed' = freed
  BY DEF list
<1>3. it'[t] = 0 \/ \E k \in 1 .. end : it'[t] = registered[k]
  <2>1. CASE it'[t] = first
    BY <1>1, <2>1
  <2>2. CASE it[t] # 0 /\ it[t] \notin freed /\ it'[t] = next[it[t]]
    <3>1. PICK i \in 1 .. end : it[t] = registered[i]
      BY <2>2 DEF WalkOK, InList
    <3>2. it'[t] = IF i = end THEN 0 ELSE registered[i + 1]
      BY <1>1, <2>2, <3>1
    <3>3. i # end => i + 1 \in 1 .. end
      BY <1>1
    <3> QED
      BY <3>2, <3>3
  <2> QED
    BY <2>1, <2>2
<1>4. it'[t] \notin freed' /\ (it'[t] # 0 => InList(it[t])')
  BY <1>1, <1>2, <1>3 DEF InList
<1> QED
  BY <1>4 DEF WalkOK, Ordered, InList

\* A dispatch ends: nothing is walked, called or known.
LEMMA WalkStops ==
    ASSUME TInv, NEW t \in Thread, DispatchEnds(t), UNCHANGED list
    PROVE  WalkOK(t)'
<1>1. it'[t] = 0 /\ calls'[t] = <<>> /\ known'[t] = {}
  BY WalkTypes DEF DispatchEnds
<1>2. 0 \notin freed'
  BY ListTypes DEF list
<1> QED
  BY <1>1, <1>2 DEF WalkOK, Ordered, InList

LEMMA WalkStarts ==
    ASSUME TInv, ListInv, ~clash, NEW t \in Thread, RecvMessage(t)
    PROVE  WalkOK(t)'
<1>1. /\ it'[t] = first /\ calls'[t] = <<>> /\ known'[t] = ToSet(registered) /\ pc'[t] = "walk"
      /\ UNCHANGED <<registered, freed, underfoot>>
  BY WalkTypes DEF RecvMessage, list
<1>2. /\ \A k \in 1 .. Len(registered) : registered[k] \in Node /\ registered[k] \notin freed
      /\ first = IF Len(registered) = 0 THEN 0 ELSE registered[1]
      /\ registered \in Seq(Node) /\ Ordered(registered) /\ Len(registered) \in Nat
      /\ freed \subseteq Node /\ Node \subseteq Nat \ {0}
  BY ListTypes DEF ListInv, Linked
<1>3. \A n \in known'[t] : InList(n)'
  BY <1>1, <1>2 DEF ToSet, InList
<1>4. (first # 0 => InList(first)) /\ first \notin freed
  BY <1>2 DEF InList
<1>5. ASSUME NEW n \in known'[t] PROVE first # 0 /\ n >= first /\ n \in Nat /\ first \in Nat
  <2>1. PICK k \in 1 .. Len(registered) : n = registered[k]
    BY <1>1, <1>2, <1>5 DEF ToSet
  <2>2. 1 \in 1 .. Len(registered) /\ first = registered[1] /\ (k = 1 \/ 1 < k)
    BY <1>2
  <2>3. 1 < k => registered[1] < registered[k]
    BY <1>2, <2>2, OrderedDistinct
  <2>4. n \in Nat \ {0} /\ first \in Nat \ {0}
    BY <1>2, <2>1, <2>2
  <2> QED
    BY <2>1, <2>2, <2>3, <2>4
<1>6. \A n \in known'[t] : it'[t] # 0 /\ (n > it'[t] \/ (n = it'[t] /\ pc'[t] = "walk"))
  BY <1>1, <1>5
<1>7. Ordered(calls[t])'
  BY <1>1 DEF Ordered
<1> QED
  BY <1>1, <1>3, <1>4, <1>6, <1>7 DEF WalkOK, InList

\* The method of the node a walk is at is called.
LEMMA WalkCalls ==
    ASSUME TInv, ListInv, ~clash, NEW t \in Thread, WalkOK(t), UNCHANGED list,
           pc[t] = "walk", it[t] # 0, pc'[t] = "call", calls'[t] = Append(calls[t], it[t]),
           UNCHANGED <<it, known, message>>
    PROVE  WalkOK(t)'
<1> DEFINE end == Len(calls[t])
<1>1. /\ it[t] \in Node /\ end \in Nat /\ \A k \in 1 .. end : calls[t][k] \in Node
      /\ Node \subseteq Nat \ {0}
  BY WalkTypes, ListTypes
<1>2. /\ Len(calls'[t]) = end + 1 /\ calls'[t][end + 1] = it[t]
      /\ \A k \in 1 .. end : calls'[t][k] = calls[t][k]
  BY WalkTypes
<1>3. \A k \in 1 .. end : calls[t][k] < it[t]
  BY DEF WalkOK
<1> HIDE DEF end
<1>4. Ordered(calls[t])'
  <2> SUFFICES ASSUME NEW k \in 1 .. end + 1, NEW l \in 1 .. end + 1, k < l
               PROVE  calls'[t][k] < calls'[t][l]
    BY <1>2 DEF Ordered
  <2>1. k \in 1 .. end
    BY <1>1
  <2>2. l \in 1 .. end \/ l = end + 1
    BY <1>1
  <2> QED
    BY <1>2, <1>3, <2>1, <2>2 DEF WalkOK, Ordered, end
<1>5. \A k \in 1 .. Len(calls'[t]) : calls'[t][k] < it'[t] \/ (calls'[t][k] = it'[t] /\ pc'[t] # "walk")
  BY <1>1, <1>2, <1>3
<1>6. ASSUME NEW n \in known[t] \ freed, Called(method[n], message[t])
      PROVE  \/ \E k \in 1 .. end + 1 : calls'[t][k] = n
             \/ n > it[t]
  <2>1. \/ \E k \in 1 .. end : calls[t][k] = n
        \/ n > it[t] \/ n = it[t]
    BY <1>6 DEF WalkOK, end
  <2>2. end + 1 \in 1 .. end + 1 /\ 1 .. end \subseteq 1 .. end + 1
    BY <1>1
  <2> QED
    BY <1>2, <2>1, <2>2
<1>7. /\ it[t] # 0 => InList(it[t]) \/ it[t] \in freed
      /\ it[t] \in freed => underfoot
      /\ \A n \in known[t] : InList(n) \/ n \in freed
  BY DEF WalkOK
<1>8. UNCHANGED <<registered, freed, method, underfoot>>
  BY DEF list
<1> QED
  BY <1>2, <1>4, <1>5, <1>6, <1>7, <1>8 DEF WalkOK, InList, Called

\* A step of the walk of t.
LEMMA StepWalkInv ==
    ASSUME TInv, ListInv, WalkInv, ~clash, NEW t \in Thread, RunThread(t) \/ ClientActs(t)
    PROVE  WalkOK(t)'
<1>1. WalkOK(t)
  BY DEF WalkInv
<1>2. UNCHANGED list
  BY DEF RunThread, thread_func, RecvNothing, RecvBlocks, ClientActs, RecvMessage, Visit, Return,
         WalkEnds, Enumerate
<1>3. ListGrows
  BY <1>2 DEF ListGrows, list, InList
<1>4. CASE thread_func(t) \/ RecvNothing(t) \/ RecvBlocks(t) \/ ClientActs(t)
  <2>1. UNCHANGED dispatch /\ ~Walking(t) /\ ~Walking(t)'
    BY <1>4, WalkTypes DEF thread_func, RecvNothing, RecvBlocks, ClientActs, Walking
  <2> QED
    BY <1>1, <1>3, <2>1, WalkKeeps DEF dispatch
<1>5. CASE UNCHANGED <<pc, dispatch>>
  BY <1>1, <1>3, <1>5, WalkKeeps DEF dispatch
<1>6. CASE Visit(t)
  <2>1. /\ pc[t] = "walk" /\ it[t] # 0 /\ it[t] \notin freed /\ UNCHANGED <<message, known>>
    BY <1>6 DEF Visit
  <2>2. CASE Called(method[it[t]], message[t])
    <3>1. pc'[t] = "call" /\ calls'[t] = Append(calls[t], it[t]) /\ UNCHANGED it
      BY <1>6, <2>2, WalkTypes DEF Visit
    <3> QED
      BY <1>1, <1>2, <2>1, <3>1, WalkCalls
  <2>3. CASE ~Called(method[it[t]], message[t])
    <3>1. it'[t] = next[it[t]] /\ pc'[t] = "walk" /\ UNCHANGED calls
      BY <1>6, <2>1, <2>3, WalkTypes DEF Visit
    <3> QED
      BY <1>1, <1>2, <2>1, <2>3, <3>1, WalkMoves
  <2> QED
    BY <2>2, <2>3
<1>7. CASE Return(t)
  <2>1. pc[t] = "call" /\ it[t] # 0
    BY <1>7 DEF Return, TInv, CallInv
  <2>2. CASE DispatchEnds(t)
    BY <1>2, <2>2, WalkStops
  <2>3. CASE /\ it[t] \notin freed /\ it' = [it EXCEPT ![t] = next[it[t]]]
             /\ pc' = [pc EXCEPT ![t] = "walk"] /\ UNCHANGED <<message, calls, known>>
    <3>1. it'[t] = next[it[t]] /\ pc'[t] = "walk"
      BY <2>3, WalkTypes
    <3> QED
      BY <1>1, <1>2, <2>1, <2>3, <3>1, WalkMoves
  <2> QED
    BY <1>5, <1>7, <2>2, <2>3 DEF Return
<1>8. CASE WalkEnds(t)
  <2>1. CASE /\ it' = [it EXCEPT ![t] = first]
             /\ calls' = [calls EXCEPT ![t] = <<>>] /\ known' = [known EXCEPT ![t] = {}]
    <3>1. it'[t] = first /\ calls'[t] = <<>> /\ known'[t] = {}
      BY <2>1, WalkTypes
    <3> QED
      BY <1>1, <1>2, <3>1, WalkSteps
  <2> QED
    BY <1>2, <1>5, <1>8, <2>1, WalkStops DEF WalkEnds
<1>9. CASE Enumerate(t)
  <2>1. calls[t] = <<>> /\ known[t] = {}
    BY <1>1, <1>9 DEF WalkOK, Enumerate
  <2>2. CASE /\ it[t] # 0 /\ it[t] \notin freed /\ it' = [it EXCEPT ![t] = next[it[t]]]
             /\ UNCHANGED <<calls, known>>
    <3>1. it'[t] = next[it[t]] /\ calls'[t] = <<>> /\ known'[t] = {}
      BY <2>1, <2>2, WalkTypes
    <3> QED
      BY <1>1, <1>2, <2>2, <3>1, WalkSteps
  <2> QED
    BY <1>2, <1>5, <1>9, <2>2, WalkStops DEF Enumerate
<1> QED
  BY <1>4, <1>6, <1>7, <1>8, <1>9, WalkStarts DEF RunThread

\* What the operations leave of the list.
LEMMA DelStepGrows ==
    ASSUME TInv, ListInv, ~clash, NEW x \in Actor, DelStep(x)
    PROVE  ListGrows
<1>1. method' = method
  BY DEF DelStep
<1>2. CASE UNCHANGED <<freed, registered, underfoot>>
  BY <1>1, <1>2 DEF ListGrows, InList
<1>3. CASE ~ UNCHANGED <<freed, registered, underfoot>>
  <2> DEFINE n == op[x].it
  <2>1. /\ n # 0 /\ op[x].kind = "del" /\ freed' = freed \cup {n} /\ registered' = Without(registered, n)
        /\ underfoot' = (underfoot \/ \E t \in Thread : it[t] = n)
    BY <1>3 DEF DelStep
  <2>2. PICK i \in 1 .. Len(registered) : n = registered[i]
    BY <2>1, SoleOp DEF OpOK
  <2> HIDE DEF n
  <2>3. \A k \in 1 .. Len(registered) : registered[k] = n <=> k = i
    BY <2>2, OrderedDistinct, ListTypes DEF ListInv
  <2>4. /\ Len(registered') = Len(registered) - 1
        /\ \A k \in 1 .. Len(registered) - 1 :
              registered'[k] = IF k < i THEN registered[k] ELSE registered[k + 1]
    <3>1. IsWithout(Without(registered, n), registered, i)
      BY <2>3, ListTypes, WithoutProperties
    <3> QED
      BY <2>1, <3>1, Zenon DEF IsWithout
  <2>5. ASSUME NEW m \in Node, m # n, NEW k \in 1 .. Len(registered), registered[k] = m
        PROVE  InList(m)'
    <3>1. CASE k < i
      <4>1. k \in 1 .. Len(registered) - 1
        BY <3>1, ListTypes
      <4> QED
        BY <2>4, <2>5, <3>1, <4>1 DEF InList
    <3>2. CASE k > i
      <4>1. k - 1 \in 1 .. Len(registered) - 1 /\ ~(k - 1 < i) /\ (k - 1) + 1 = k
        BY <3>2, ListTypes
      <4>2. registered'[k - 1] = registered[k]
        BY <2>4, <4>1
      <4> QED
        BY <2>4, <2>5, <4>1, <4>2 DEF InList
    <3> QED
      BY <2>3, <2>5, <3>1, <3>2
  <2>6. \A m \in Node : InList(m) => InList(m)' \/ m \in freed'
    <3> SUFFICES ASSUME NEW m \in Node, InList(m), m # n PROVE InList(m)'
      BY <2>1
    <3> QED
      BY <2>5 DEF InList
  <2> QED
    BY <1>1, <2>1, <2>6 DEF ListGrows
<1> QED
  BY <1>2, <1>3

LEMMA OpGrows ==
    ASSUME TInv, ListInv, ~clash, NEW x \in Actor,
           AddBegin(x) \/ AddStep(x) \/ AddLink(x) \/ DelBegin(x) \/ DelStep(x)
    PROVE  ListGrows
<1>1. CASE AddBegin(x)
  <2>1. \A n \in Node : n <= allocated => method'[n] = method[n]
    BY <1>1, ListTypes DEF AddBegin, TInv, TypeOK
  <2> QED
    BY <1>1, <2>1 DEF AddBegin, ListGrows, InList
<1>2. CASE AddStep(x) \/ DelBegin(x)
  BY <1>2 DEF AddStep, DelBegin, ListGrows, InList
<1>3. CASE AddLink(x)
  <2>1. registered' = Append(registered, op[x].node) /\ UNCHANGED <<freed, underfoot, method>>
    BY <1>3 DEF AddLink
  <2>2. \A i \in 1 .. Len(registered) : i \in 1 .. Len(registered') /\ registered'[i] = registered[i]
    <3>1. op[x].node \in Node
      BY <1>3, ListTypes DEF AddLink, ListOp, None
    <3> QED
      BY <2>1, <3>1, ListTypes
  <2> QED
    BY <2>1, <2>2 DEF ListGrows, InList
<1> QED
  BY <1>1, <1>2, <1>3, DelStepGrows

LEMMA InitWalkInv == Init => WalkInv
<1> SUFFICES ASSUME Init, NEW t \in Thread PROVE WalkOK(t)
  BY DEF WalkInv
<1>1. it[t] = 0 /\ calls[t] = <<>> /\ known[t] = {} /\ freed = {}
  BY DEF Init
<1> QED
  BY <1>1 DEF WalkOK, Ordered

LEMMA NextWalkInv == TInv /\ ListInv /\ WalkInv /\ [Next]_vars => WalkInv'
<1> SUFFICES ASSUME TInv, ListInv, WalkInv, [Next]_vars, ~clash', NEW t \in Thread
             PROVE  WalkOK(t)'
  BY DEF WalkInv
<1>1. WalkOK(t) \/ clash
  BY DEF WalkInv
<1>2. ASSUME ~clash, ListGrows, UNCHANGED dispatch, Walking(t) \/ Walking(t)' => pc'[t] = pc[t]
      PROVE  WalkOK(t)'
  BY <1>1, <1>2, WalkKeeps DEF dispatch
<1>3. ASSUME UNCHANGED <<list, dispatch>>, Walking(t) \/ Walking(t)' => pc'[t] = pc[t]
      PROVE  WalkOK(t)'
  BY <1>2, <1>3 DEF ListGrows, InList, list
<1>4. CASE \/ lo_server_thread_start \/ pthread_create \/ lo_server_thread_free \/ UNCHANGED vars
  <2>1. UNCHANGED <<list, dispatch>>
    BY <1>4 DEF lo_server_thread_start, pthread_create, lo_server_thread_free, vars
  <2>2. pc'[t] = pc[t] \/ (pc[t] = "none" /\ pc'[t] = "loop")
    BY <1>4, NewThreadIs, Actors, WalkTypes DEF lo_server_thread_start, pthread_create,
                                                lo_server_thread_free, vars
  <2> QED
    BY <1>3, <2>1, <2>2 DEF Walking
<1>5. ASSUME NEW x \in Actor, AddBegin(x) \/ AddStep(x) \/ AddLink(x) \/ DelBegin(x) \/ DelStep(x)
      PROVE  WalkOK(t)'
  <2>1. UNCHANGED pc /\ UNCHANGED dispatch
    BY <1>5 DEF AddBegin, AddStep, AddLink, DelBegin, DelStep
  <2>2. ~clash
    BY <1>5 DEF AddBegin, AddStep, AddLink, DelBegin, DelStep, Clashes
  <2> QED
    BY <1>2, <1>5, <2>1, <2>2, OpGrows
<1>6. ASSUME NEW x \in Actor,
             \/ lo_server_thread_stop(x) \/ ClearActive(x) \/ pthread_join(x) \/ JoinReturns(x)
             \/ EnterHandler(x) \/ LeaveHandler(x) \/ Throw(x) \/ NestedThrow(x)
      PROVE  WalkOK(t)'
  <2>1. UNCHANGED <<list, dispatch>>
    BY <1>6, StopTInv DEF JoinReturns, EnterHandler, LeaveHandler, Throw, NestedThrow
  <2>2. pc'[t] = pc[t] \/ (~Walking(t) /\ ~Walking(t)')
    <3>1. CASE lo_server_thread_stop(x) \/ ClearActive(x) \/ pthread_join(x)
      BY <3>1, StoppedIs, WalkTypes DEF lo_server_thread_stop, ClearActive, pthread_join, Walking
    <3>2. CASE JoinReturns(x)
      BY <3>2, StoppedIs, WalkTypes DEF JoinReturns, TInv, TypeOK, Walking
    <3>3. CASE EnterHandler(x) \/ LeaveHandler(x) \/ Throw(x) \/ NestedThrow(x)
      BY <3>3, WalkTypes DEF EnterHandler, LeaveHandler, Throw, NestedThrow, Walking
    <3> QED
      BY <1>6, <3>1, <3>2, <3>3
  <2> QED
    BY <1>3, <2>1, <2>2
<1>7. ASSUME NEW u \in Thread, RunThread(u) \/ ClientActs(u) PROVE WalkOK(t)'
  <2>1. UNCHANGED list
    BY <1>7 DEF RunThread, thread_func, RecvNothing, RecvBlocks, ClientActs, RecvMessage, Visit,
                Return, WalkEnds, Enumerate
  <2>2. CASE u = t
    BY <1>7, <2>1, <2>2, StepWalkInv DEF list
  <2>3. CASE u # t
    <3>1. /\ it'[t] = it[t] /\ calls'[t] = calls[t] /\ known'[t] = known[t]
          /\ message'[t] = message[t] /\ pc'[t] = pc[t]
      <4>1. CASE \/ thread_func(u) \/ RecvNothing(u) \/ RecvBlocks(u) \/ ClientActs(u)
                 \/ RecvMessage(u) \/ Visit(u)
        BY <2>3, <4>1, WalkTypes DEF thread_func, RecvNothing, RecvBlocks, ClientActs, RecvMessage,
                                     Visit, dispatch
      <4>2. CASE Return(u) \/ WalkEnds(u) \/ Enumerate(u)
        BY <2>3, <4>2, WalkTypes DEF Return, WalkEnds, Enumerate, DispatchEnds, dispatch
      <4> QED
        BY <1>7, <4>1, <4>2 DEF RunThread
    <3> QED
      BY <1>1, <2>1, <3>1, WalkKeeps DEF ListGrows, InList, list
  <2> QED
    BY <2>2, <2>3
<1> QED
  BY <1>4, <1>5, <1>6, <1>7 DEF Next, Continue, Request

\* ... and the list and the dispatches that walk along it are as ListInv and
\* WalkInv say.
THEOREM SpecWalkInv == Spec => [](TInv /\ ListInv /\ WalkInv)
BY InitListInv, InitWalkInv, NextListInv, NextWalkInv, SpecTInv, PTL DEF Spec

\* A dispatch calls methods in the order of their adding, none twice, whatever its
\* handlers and the application add and delete meanwhile (server.c:1747).
THEOREM MethodsCalledInOrder == Spec => []CalledInOrder
<1>1. TInv /\ WalkInv => CalledInOrder
  <2> SUFFICES ASSUME TInv, WalkInv, ~clash, NEW t \in Thread, NEW i \in 1 .. Len(calls[t]) - 1
               PROVE  calls[t][i] < calls[t][i + 1]
    BY DEF CalledInOrder
  <2>1. i \in 1 .. Len(calls[t]) /\ i + 1 \in 1 .. Len(calls[t]) /\ i < i + 1
    BY WalkTypes
  <2> QED
    BY <2>1 DEF WalkInv, WalkOK, Ordered
<1> QED
  BY <1>1, SpecWalkInv, PTL

\* A dispatch that walks to the end of the list calls every method that was there
\* when it began, is not deleted before its turn and is for that message
\* (server.c:1747-1806).
THEOREM MethodsNotSkipped == Spec => []NoneSkipped
<1>1. TInv /\ WalkInv => NoneSkipped
  <2> SUFFICES ASSUME TInv, WalkInv, ~clash, NEW t \in Thread, it[t] = 0,
                      NEW n \in known[t] \ freed, Called(method[n], message[t])
               PROVE  n \in ToSet(calls[t])
    BY DEF NoneSkipped
  <2>1. PICK i \in 1 .. Len(calls[t]) : calls[t][i] = n
    BY DEF WalkInv, WalkOK
  <2> QED
    BY <2>1, WalkTypes DEF ToSet
<1> QED
  BY <1>1, SpecWalkInv, PTL

--------------------------------------------------------------------------------
(***************************************************************************)
(* What is undefined.                                                      *)
(***************************************************************************)
LEMMA NextUndefined ==
    TInv /\ ListInv /\ WalkInv /\ SoloInv /\ UndefinedIsNamed /\ [Next]_vars
    => UndefinedIsNamed'
<1> SUFFICES ASSUME TInv, ListInv, WalkInv, SoloInv, UndefinedIsNamed, [Next]_vars
             PROVE  UndefinedIsNamed'
  OBVIOUS
<1>1. CASE UNCHANGED vars
  BY <1>1 DEF vars, list, lifecycle, UndefinedIsNamed
<1>2. CASE undefined = "no" /\ UNCHANGED undefined
  BY <1>2 DEF UndefinedIsNamed
<1>3. CASE undefined = "no" /\ lo_server_thread_free
  <2>1. ~active /\ pc[App] = "idle" /\ UNCHANGED selfStopped
        /\ undefined' = IF \E t \in Thread : Running(t) THEN "memory" ELSE "no"
    BY <1>3 DEF lo_server_thread_free, lifecycle
  <2>2. ~selfStopped => \A t \in Thread : ~Running(t)
    BY <2>1 DEF SoloInv, Begun, Running
  <2> QED
    BY <2>1, <2>2 DEF UndefinedIsNamed
<1>4. ASSUME undefined = "no", NEW x \in Actor, pthread_join(x) PROVE UndefinedIsNamed'
  <2>1. pc[x] = "cleared" /\ UNCHANGED <<selfStopped, createFailed>>
    BY <1>4 DEF pthread_join
  <2>2. CASE UNCHANGED undefined
    BY <1>2, <1>4, <2>2
  <2>3. CASE /\ undefined' = "join"
             /\ \/ thread = 0 \/ pc[thread] = "joined"
                \/ \E y \in Actor : pc[y] = "joining" /\ joins[y] = thread
    <3> SUFFICES ASSUME ~selfStopped, ~createFailed PROVE FALSE
      BY <2>1, <2>3 DEF UndefinedIsNamed
    <3>1. x = App /\ thread # 0 /\ pc[thread] # "joined"
      BY <2>1, Actors DEF SoloInv
    <3>2. PICK y \in Actor : pc[y] = "joining"
      BY <2>3, <3>1
    <3> QED
      BY <2>1, <3>1, <3>2, Actors DEF SoloInv
  <2> QED
    BY <1>4, <2>2, <2>3 DEF pthread_join
<1>5. ASSUME undefined = "no", NEW x \in Actor, AddStep(x) \/ AddLink(x) \/ DelStep(x)
      PROVE  UndefinedIsNamed'
  <2>1. undefined' # undefined => clash
    BY <1>5, AddStepListInv, AddLinkListInv, DelStepListInv
  <2>2. UNCHANGED clash /\ undefined' \in {undefined, "node"}
    BY <1>5 DEF AddStep, AddLink, DelStep
  <2> QED
    BY <1>5, <2>1, <2>2 DEF UndefinedIsNamed
<1>6. ASSUME undefined = "no", NEW t \in Thread, Return(t) \/ WalkEnds(t) \/ Enumerate(t)
      PROVE  UndefinedIsNamed'
  <2>1. UNCHANGED <<clash, underfoot>>
    BY <1>6 DEF Return, WalkEnds, Enumerate, list
  <2>2. UNCHANGED undefined \/ (undefined' = "node" /\ it[t] \in freed)
    BY <1>6 DEF Return, WalkEnds, Enumerate, DispatchEnds
  <2> QED
    BY <1>6, <2>1, <2>2 DEF WalkInv, WalkOK, UndefinedIsNamed
<1>7. ASSUME NEW x \in Actor,
             \/ lo_server_thread_stop(x) \/ ClearActive(x) \/ JoinReturns(x) \/ EnterHandler(x)
             \/ LeaveHandler(x) \/ AddBegin(x) \/ DelBegin(x) \/ Throw(x) \/ NestedThrow(x)
      PROVE  UNCHANGED undefined
  BY <1>7 DEF lo_server_thread_stop, ClearActive, JoinReturns, EnterHandler, LeaveHandler, AddBegin,
              DelBegin, Throw, NestedThrow
<1>8. ASSUME NEW t \in Thread, \/ thread_func(t) \/ RecvNothing(t) \/ RecvBlocks(t) \/ ClientActs(t)
                              \/ RecvMessage(t) \/ Visit(t)
      PROVE  UNCHANGED undefined
  BY <1>8 DEF thread_func, RecvNothing, RecvBlocks, ClientActs, RecvMessage, Visit
<1>9. lo_server_thread_start \/ pthread_create => UNCHANGED undefined
  BY DEF lo_server_thread_start, pthread_create
<1> QED
  BY <1>1, <1>2, <1>3, <1>4, <1>5, <1>6, <1>7, <1>8, <1>9 DEF Next, Continue, Request, RunThread

\* What C leaves undefined is done in few ways only: a freed method is read when two
\* actors changed the list at once or the method a dispatch was at was deleted; the
\* server is freed under a thread when a method stopped that thread; and a thread is
\* joined that is not there, or is joined twice, when pthread_create failed or a
\* method stopped its own thread (server.c:1747, 2031; server_thread.c:108, 135, 156,
\* 158).
THEOREM UndefinedHasCauses == Spec => []UndefinedIsNamed
<1>1. Init => UndefinedIsNamed
  BY DEF Init, UndefinedIsNamed
<1> QED
  BY <1>1, InitThreads, NextThreads, NextUndefined, SpecWalkInv, PTL DEF Spec
================================================================================
