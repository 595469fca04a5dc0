--------------------------- MODULE LoEventQueueProofs ---------------------------
(***************************************************************************)
(* Proofs about LoEventQueue, for every set of messages, every bundle,     *)
(* every choice of what handlers do and every bound.  The queue is always  *)
(* ordered and nothing is early; datagrams do not starve it, whatever      *)
(* methods do; and as long as no method of a queued message flushes the    *)
(* queue or dispatches a bundle (NoReentry), events are dispatched exactly *)
(* once and the queue implements LoScheduler; and, if each message has one *)
(* place (OnePlace), flat bundles in their order.                          *)
(***************************************************************************)
EXTENDS LoEventQueue, SequenceTheorems, WellFoundedInduction, TLAPS


--------------------------------------------------------------------------------
(***************************************************************************)
(* Sequences.                                                              *)
(***************************************************************************)
\* A frame pushed on a stack.
LEMMA PushProperties ==
    ASSUME NEW S, NEW s \in Seq(S), NEW f \in S
    PROVE  /\ <<f>> \o s \in Seq(S)
           /\ Len(<<f>> \o s) = Len(s) + 1
           /\ Head(<<f>> \o s) = f
           /\ (<<f>> \o s)[1] = f
           /\ \A k \in 2 .. Len(s) + 1 : (<<f>> \o s)[k] = s[k - 1]
    OBVIOUS

\* A frame popped from a stack.
LEMMA PopProperties ==
    ASSUME NEW S, NEW s \in Seq(S), s # <<>>
    PROVE  /\ Tail(s) \in Seq(S)
           /\ Len(Tail(s)) = Len(s) - 1
           /\ Len(s) \in Nat \ {0}
           /\ Head(s) = s[1]
           /\ s[1] \in S
           /\ \A k \in 1 .. Len(s) - 1 : Tail(s)[k] = s[k + 1]
    OBVIOUS

\* The list r is s with e put before its p-th.
IsInserted(r, S, s, p, e) ==
    /\ r \in Seq(S) /\ Len(r) = Len(s) + 1
    /\ \A i \in 1 .. Len(s) + 1 :
          r[i] = IF i < p THEN s[i] ELSE IF i = p THEN e ELSE s[i - 1]

\* An entry inserted at position p of a list.
LEMMA InsertAtProperties ==
    ASSUME NEW S, NEW s \in Seq(S), NEW e \in S, NEW p \in 1 .. Len(s) + 1
    PROVE  IsInserted(InsertAt(s, p, e), S, s, p, e)
<1> DEFINE a == SubSeq(s, 1, p - 1)
           b == SubSeq(s, p, Len(s))
<1>1. /\ a \in Seq(S) /\ Len(a) = p - 1
      /\ \A i \in 1 .. p - 1 : a[i] = s[i]
  <2>1. \A i \in 1 .. p - 1 : s[i] \in S
    OBVIOUS
  <2> QED
    BY <2>1, SubSeqProperties
<1>2. /\ b \in Seq(S) /\ Len(b) = Len(s) + 1 - p
      /\ \A i \in 1 .. Len(s) + 1 - p : b[i] = s[p + i - 1]
  BY SubSeqProperties
<1>3. /\ a \o <<e>> \in Seq(S) /\ Len(a \o <<e>>) = p
      /\ \A i \in 1 .. p : (a \o <<e>>)[i] = IF i < p THEN s[i] ELSE e
  <2> HIDE DEF a
  <2> QED
    BY <1>1
<1> DEFINE c == a \o <<e>>
<1>4. /\ c \in Seq(S) /\ Len(c) = p
      /\ \A i \in 1 .. p : c[i] = IF i < p THEN s[i] ELSE e
  BY <1>3
<1>5. InsertAt(s, p, e) = c \o b
  BY DEF InsertAt
<1> HIDE DEF a, b, c
<1>6. /\ c \o b \in Seq(S) /\ Len(c \o b) = Len(s) + 1
      /\ \A i \in 1 .. Len(s) + 1 : (c \o b)[i] = IF i <= p THEN c[i] ELSE b[i - p]
  BY <1>2, <1>4, ConcatProperties
<1>7. \A i \in 1 .. Len(s) + 1 : i > p => b[i - p] = s[i - 1]
  BY <1>2
<1>8. ASSUME NEW i \in 1 .. Len(s) + 1
      PROVE  (c \o b)[i] = IF i < p THEN s[i] ELSE IF i = p THEN e ELSE s[i - 1]
  <2>1. CASE i <= p
    <3>1. i \in 1 .. p
      BY <2>1
    <3> QED
      BY <1>4, <1>6, <2>1, <3>1
  <2>2. CASE ~(i <= p)
    <3>1. i > p /\ ~(i < p) /\ i # p
      BY <2>2
    <3> QED
      BY <1>6, <1>7, <2>2, <3>1, Zenon
  <2> QED
    BY <2>1, <2>2, Zenon
<1>9. /\ InsertAt(s, p, e) \in Seq(S) /\ Len(InsertAt(s, p, e)) = Len(s) + 1
      /\ \A i \in 1 .. Len(s) + 1 : InsertAt(s, p, e)[i] =
            IF i < p THEN s[i] ELSE IF i = p THEN e ELSE s[i - 1]
  BY <1>5, <1>6, <1>8, Zenon
<1> QED
  BY <1>9, Zenon DEF IsInserted

\* A set of natural numbers has a least element.
LEMMA LeastNatural ==
    ASSUME NEW T \in SUBSET Nat, T # {}
    PROVE  \E x \in T : \A y \in T : x <= y
<1> DEFINE R == {ss \in Nat \X Nat : ss[1] < ss[2]}
<1>1. IsWellFoundedOn(R, Nat)
  BY NatLessThanWellFounded DEF OpToRel
<1>2. \E x \in T : \A y \in T : <<y, x>> \notin R
  <2> HIDE DEF R
  <2> QED
    BY <1>1, WFMin
<1>3. \A x, y \in Nat : <<y, x>> \in R <=> y < x
  OBVIOUS
<1>4. PICK x \in T : \A y \in T : <<y, x>> \notin R
  BY <1>2
<1> HIDE DEF R
<1>5. ASSUME NEW y \in T PROVE x <= y
  <2>1. x \in Nat /\ y \in Nat /\ <<y, x>> \notin R
    BY <1>4
  <2>2. ~(y < x)
    BY <2>1, <1>3
  <2> QED
    BY <2>1, <2>2
<1> QED
  BY <1>5

\* Where queue_data inserts: before the first later entry.
LEMMA InsertPointProperties ==
    ASSUME NEW q \in Seq(Entry), NEW ts \in Nat
    PROVE  LET p == InsertPoint(q, ts)
           IN  /\ p \in 1 .. Len(q) + 1
               /\ p <= Len(q) => q[p].ts > ts
               /\ \A i \in 1 .. p - 1 : q[i].ts <= ts
<1> DEFINE later == {i \in 1 .. Len(q) + 1 : i <= Len(q) => q[i].ts > ts}
<1>1. later \in SUBSET Nat /\ Len(q) + 1 \in later
  OBVIOUS
<1>2. PICK p \in later : \A i \in later : p <= i
  <2> HIDE DEF later
  <2> QED
    BY <1>1, LeastNatural
<1>3. \A i \in 1 .. p - 1 : q[i].ts <= ts
  <2> SUFFICES ASSUME NEW i \in 1 .. p - 1 PROVE q[i].ts <= ts
    OBVIOUS
  <2>1. i \notin later /\ i \in 1 .. Len(q)
    BY <1>2
  <2>2. q[i] \in Entry
    BY <2>1
  <2> QED
    BY <2>1, <2>2 DEF Entry
<1>4. \E pp \in 1 .. Len(q) + 1 : /\ pp <= Len(q) => q[pp].ts > ts
                                  /\ \A i \in 1 .. pp - 1 : q[i].ts <= ts
  BY <1>2, <1>3
<1> QED
  BY <1>4 DEF InsertPoint

--------------------------------------------------------------------------------
(***************************************************************************)
(* The queue.                                                              *)
(***************************************************************************)
\* queue_data keeps the queue ordered.
LEMMA QueueDataOrdered ==
    ASSUME TypeOK, QueueOrdered, SeqBounded,
           NEW m \in Msg, NEW ts \in Nat, queue_data(m, ts)
    PROVE  queue' \in Seq(Entry) /\ taken' \in Nat /\ QueueOrdered' /\ SeqBounded'
<1> DEFINE e == [msg |-> m, ts |-> ts, seq |-> taken + 1]
           p == InsertPoint(queue, ts)
<1>1. e \in Entry /\ queue \in Seq(Entry) /\ taken \in Nat
  BY DEF TypeOK, Entry
<1>2. /\ p \in 1 .. Len(queue) + 1
      /\ p <= Len(queue) => queue[p].ts > ts
      /\ \A i \in 1 .. p - 1 : queue[i].ts <= ts
  BY <1>1, InsertPointProperties
<1>3. queue' = InsertAt(queue, p, e) /\ taken' = taken + 1
  BY DEF queue_data
<1>4. e.ts = ts /\ e.seq = taken + 1
  OBVIOUS
<1> HIDE DEF e, p
<1>5. /\ queue' \in Seq(Entry)
      /\ Len(queue') = Len(queue) + 1
      /\ \A i \in 1 .. Len(queue) + 1 : queue'[i] =
            IF i < p THEN queue[i] ELSE IF i = p THEN e ELSE queue[i - 1]
  <2>1. p \in 1 .. Len(queue) + 1
    BY <1>2
  <2>2. IsInserted(queue', Entry, queue, p, e)
    BY <1>1, <1>3, <2>1, InsertAtProperties
  <2> QED
    BY <2>2, Zenon DEF IsInserted
<1>6. \A i \in 1 .. Len(queue) : /\ queue[i].ts \in Nat /\ queue[i].seq \in Nat
                                 /\ queue[i].seq <= taken
  <2>1. \A i \in 1 .. Len(queue) : queue[i] \in Entry
    BY <1>1
  <2> QED
    BY <2>1 DEF Entry, SeqBounded
<1>7. \A i \in p .. Len(queue) : queue[i].ts > ts
  BY <1>2, <1>6 DEF QueueOrdered, Before
<1>8. SeqBounded'
  <2> SUFFICES ASSUME NEW i \in 1 .. Len(queue) + 1
               PROVE  queue'[i].seq <= taken + 1
    BY <1>3, <1>5 DEF SeqBounded
  <2>1. CASE i < p
    BY <1>1, <1>2, <1>5, <1>6, <2>1
  <2>2. CASE i = p
    BY <1>1, <1>4, <1>5, <2>2
  <2>3. CASE i > p
    <3>1. queue'[i] = queue[i - 1] /\ i - 1 \in 1 .. Len(queue)
      BY <1>1, <1>2, <1>5, <2>3
    <3> QED
      BY <3>1, <1>1, <1>6
  <2> QED
    BY <1>2, <2>1, <2>2, <2>3
<1>9. ASSUME NEW i \in 1 .. Len(queue'), NEW j \in 1 .. Len(queue'), i < j
      PROVE  Before(queue'[i], queue'[j])
  <2>1. CASE j < p
    BY <1>2, <1>5, <1>9, <2>1 DEF QueueOrdered
  <2>2. CASE j = p
    BY <1>1, <1>2, <1>4, <1>5, <1>6, <1>9, <2>2, SMTT(30) DEF Before
  <2>3. CASE j > p /\ i < p
    <3>1. /\ queue'[i] = queue[i] /\ queue'[j] = queue[j - 1]
          /\ i \in 1 .. Len(queue) /\ j - 1 \in 1 .. Len(queue) /\ i < j - 1
      BY <1>2, <1>5, <2>3
    <3> QED
      BY <3>1 DEF QueueOrdered
  <2>4. CASE j > p /\ i = p
    <3>1. queue'[i] = e /\ queue'[j] = queue[j - 1] /\ j - 1 \in p .. Len(queue)
      BY <1>2, <1>5, <2>4
    <3> QED
      BY <3>1, <1>1, <1>4, <1>7 DEF Before
  <2>5. CASE j > p /\ i > p
    BY <1>2, <1>5, <1>9, <2>5, SMTT(30) DEF QueueOrdered
  <2> QED
    BY <1>2, <2>1, <2>2, <2>3, <2>4, <2>5
<1> QED
  BY <1>1, <1>3, <1>5, <1>8, <1>9 DEF QueueOrdered

\* What dispatch_queued leaves of the queue is ordered.
LEMMA ListFromOrdered ==
    ASSUME TypeOK, QueueOrdered, SeqBounded, NEW n,
           queue' = ListFrom(queue, n), taken' = taken
    PROVE  queue' \in Seq(Entry) /\ QueueOrdered' /\ SeqBounded'
<1>1. queue \in Seq(Entry)
  BY DEF TypeOK
<1>2. CASE \E i \in 1 .. Len(queue) : queue[i].seq = n
  <2> DEFINE h == CHOOSE i \in 1 .. Len(queue) : queue[i].seq = n
  <2>1. h \in 1 .. Len(queue)
    BY <1>2
  <2>2. queue' = SubSeq(queue, h, Len(queue))
    BY <1>2 DEF ListFrom
  <2> HIDE DEF h
  <2>3. /\ queue' \in Seq(Entry)
        /\ Len(queue') = Len(queue) - h + 1
        /\ \A i \in 1 .. Len(queue) - h + 1 : queue'[i] = queue[h + i - 1]
    BY <1>1, <2>1, <2>2, SubSeqProperties
  <2>4. ASSUME NEW i \in 1 .. Len(queue'), NEW j \in 1 .. Len(queue'), i < j
        PROVE  Before(queue'[i], queue'[j])
    <3>1. /\ queue'[i] = queue[h + i - 1] /\ queue'[j] = queue[h + j - 1]
          /\ h + i - 1 \in 1 .. Len(queue) /\ h + j - 1 \in 1 .. Len(queue)
          /\ h + i - 1 < h + j - 1
      BY <1>1, <2>1, <2>3, <2>4
    <3> QED
      BY <3>1 DEF QueueOrdered
  <2>5. SeqBounded'
    BY <1>1, <2>1, <2>3 DEF SeqBounded
  <2> QED
    BY <2>3, <2>4, <2>5 DEF QueueOrdered
<1>3. CASE ~ \E i \in 1 .. Len(queue) : queue[i].seq = n
  BY <1>3 DEF ListFrom, QueueOrdered, SeqBounded
<1> QED
  BY <1>2, <1>3

--------------------------------------------------------------------------------
(***************************************************************************)
(* The stack.                                                              *)
(***************************************************************************)
\* No activation of s is about to call a handler from the queue.
Settled(s) == \A k \in 1 .. Len(s) : Due(s[k]) /\ (s[k].op = "queued" => s[k].called)

StackOK == stack \in Seq(Activation) /\ FramesDue /\ FramesCalled

\* Returning to settled callers leaves a good stack.
LEMMA ReturnOK ==
    ASSUME NEW callers \in Seq(Activation), Settled(callers),
           stack' = callers, clock' = clock
    PROVE  StackOK'
BY DEF Settled, StackOK, FramesDue, FramesCalled, Due

\* So does calling a frame that is due and, if about to call, ready to.
LEMMA CallOK ==
    ASSUME NEW callers \in Seq(Activation), Settled(callers),
           NEW f \in Activation, Due(f),
           f.op = "queued" /\ ~f.called =>
              queue' # <<>> /\ (f.all \/ Head(queue').ts <= f.disp),
           stack' = <<f>> \o callers, clock' = clock
    PROVE  StackOK'
<1>1. /\ stack' \in Seq(Activation)
      /\ Len(stack') = Len(callers) + 1
      /\ stack'[1] = f
      /\ \A k \in 2 .. Len(callers) + 1 : stack'[k] = callers[k - 1]
  BY PushProperties
<1>2. ASSUME NEW k \in 2 .. Len(stack')
      PROVE  Due(stack[k])' /\ (stack'[k].op = "queued" => stack'[k].called)
  <2>1. k - 1 \in 1 .. Len(callers) /\ stack'[k] = callers[k - 1]
    BY <1>1
  <2> QED
    BY <2>1 DEF Settled, Due
<1>3. Due(stack[1])'
  BY <1>1 DEF Due
<1>4. FramesDue'
  BY <1>1, <1>2, <1>3 DEF FramesDue
<1>5. FramesCalled'
  BY <1>1, <1>2 DEF FramesCalled, ReadyToCall
<1> QED
  BY <1>1, <1>4, <1>5 DEF StackOK

\* Below the innermost activation all are settled.
LEMMA TailSettled ==
    ASSUME StackOK, stack # <<>>
    PROVE  /\ Tail(stack) \in Seq(Activation)
           /\ Settled(Tail(stack))
           /\ Frame \in Activation
           /\ Due(Frame)
           /\ Frame.op = "queued" /\ ~Frame.called => ReadyToCall(Frame)
<1>1. /\ Tail(stack) \in Seq(Activation)
      /\ Len(Tail(stack)) = Len(stack) - 1
      /\ Len(stack) \in Nat \ {0}
      /\ Head(stack) = stack[1] /\ stack[1] \in Activation
      /\ \A k \in 1 .. Len(stack) - 1 : Tail(stack)[k] = stack[k + 1]
  BY PopProperties DEF StackOK
<1>2. ASSUME NEW k \in 1 .. Len(Tail(stack))
      PROVE  /\ Due(Tail(stack)[k])
             /\ Tail(stack)[k].op = "queued" => Tail(stack)[k].called
  <2>1. /\ k + 1 \in 1 .. Len(stack) /\ k + 1 # 1
        /\ Tail(stack)[k] = stack[k + 1]
    BY <1>1
  <2> QED
    BY <2>1 DEF StackOK, FramesDue, FramesCalled
<1> QED
  BY <1>1, <1>2 DEF Settled, StackOK, FramesDue, FramesCalled, Frame

--------------------------------------------------------------------------------
(***************************************************************************)
(* The calls a step makes, on behalf of settled callers.                   *)
(***************************************************************************)
CallResult == StackOK /\ enqueue \in BOOLEAN /\ open \in Seq(Bundle) /\ ran \subseteq Msg

LEMMA DispatchQueuedType ==
    ASSUME TypeOK, queue # <<>>, NEW all \in BOOLEAN
    PROVE  /\ DispatchQueued(all) \in Activation
           /\ DispatchQueued(all).op = "queued" /\ DispatchQueued(all).all = all
           /\ DispatchQueued(all).disp = Head(queue).ts
           /\ Head(queue) \in Entry
<1>1. Head(queue) \in Entry
  BY DEF TypeOK
<1> QED
  BY <1>1 DEF DispatchQueued, Activation, QueuedFrame, Entry

LEMMA EnableQueueOK ==
    ASSUME IInv, NEW callers \in Seq(Activation), Settled(callers),
           NEW on \in BOOLEAN, NEW remaining \in BOOLEAN,
           lo_server_enable_queue(on, remaining, callers),
           ran' \subseteq Msg, UNCHANGED <<clock, queue>>
    PROVE  CallResult'
<1>1. enqueue' \in BOOLEAN /\ open' \in Seq(Bundle)
  BY DEF lo_server_enable_queue, IInv, TypeOK
<1>2. StackOK'
  <2>1. CASE stack' = callers
    BY <2>1, ReturnOK
  <2>2. CASE queue # <<>> /\ stack' = <<DispatchQueued(TRUE)>> \o callers
    <3> DEFINE f == DispatchQueued(TRUE)
    <3>1. f \in Activation /\ f.all = TRUE
      BY <2>2, DispatchQueuedType DEF IInv
    <3>2. Due(f)
      BY <3>1 DEF Due
    <3> HIDE DEF f
    <3>3. stack' = <<f>> \o callers
      BY <2>2 DEF f
    <3> QED
      BY <2>2, <3>1, <3>2, <3>3, CallOK
  <2> QED
    BY <2>1, <2>2 DEF lo_server_enable_queue
<1> QED
  BY <1>1, <1>2 DEF CallResult

LEMMA EnterBundleOK ==
    ASSUME IInv, NEW callers \in Seq(Activation), Settled(callers),
           NEW b \in Bundle, EnterBundle(b, callers),
           ran' \subseteq Msg, UNCHANGED <<clock, queue>>
    PROVE  CallResult'
<1> DEFINE f == DispatchBundle(b)
<1>1. f \in Activation /\ f.op # "queued"
  BY DEF DispatchBundle, Activation, BundleFrame, IInv, TypeOK
<1>2. Due(f)
  BY <1>1 DEF Due
<1>3. stack' = <<f>> \o callers
  BY DEF EnterBundle
<1>4. enqueue' \in BOOLEAN /\ open' \in Seq(Bundle)
  BY PushProperties DEF EnterBundle, IInv, TypeOK
<1> HIDE DEF f
<1>5. StackOK'
  BY <1>1, <1>2, <1>3, CallOK
<1> QED
  BY <1>4, <1>5 DEF CallResult

LEMMA DispatchMethodOK ==
    ASSUME IInv, NEW callers \in Seq(Activation), Settled(callers),
           NEW m \in Msg, dispatch_method(m, callers), UNCHANGED <<clock, queue>>
    PROVE  CallResult'
<1>1. ran' \subseteq Msg
  BY DEF dispatch_method, IInv, TypeOK
<1>2. CASE stack' = callers /\ UNCHANGED <<enqueue, open>>
  BY <1>1, <1>2, ReturnOK DEF CallResult, IInv, TypeOK
<1>3. CASE \E on, remaining \in BOOLEAN : lo_server_enable_queue(on, remaining, callers)
  BY <1>1, <1>3, EnableQueueOK
<1>4. CASE \E b \in Bundle : EnterBundle(b, callers)
  BY <1>1, <1>4, EnterBundleOK
<1> QED
  BY <1>2, <1>3, <1>4 DEF dispatch_method

LEMMA DispatchDataOK ==
    ASSUME IInv, NEW callers \in Seq(Activation), Settled(callers),
           NEW d, dispatch_data(d, callers), UNCHANGED <<clock, queue>>
    PROVE  CallResult'
<1>1. CASE d \in Msg /\ dispatch_method(d, callers)
  BY <1>1, DispatchMethodOK
<1>2. CASE d \in Bundle /\ EnterBundle(d, callers) /\ UNCHANGED ran
  <2>1. ran' \subseteq Msg
    BY <1>2 DEF IInv, TypeOK
  <2> QED
    BY <1>2, <2>1, EnterBundleOK
<1>3. CASE stack' = callers /\ UNCHANGED <<enqueue, open, ran>>
  BY <1>3, ReturnOK DEF CallResult, IInv, TypeOK
<1> QED
  BY <1>1, <1>2, <1>3 DEF dispatch_data

--------------------------------------------------------------------------------
(***************************************************************************)
(* The steps.                                                              *)
(***************************************************************************)
\* The stack of a dispatch_data moved to its next element is settled.
LEMMA AdvancedSettled ==
    ASSUME IInv, stack # <<>>, Frame.op = "bundle"
    PROVE  Advanced \in Seq(Activation) /\ Settled(Advanced)
<1> DEFINE f == [Frame EXCEPT !.next = @ + 1]
           t == Tail(stack)
<1>1. t \in Seq(Activation) /\ Settled(t) /\ Frame \in Activation
  BY TailSettled DEF IInv, TypeOK, StackOK
<1>2. f \in Activation /\ f.op = "bundle"
  <2>1. Frame \in BundleFrame
    BY <1>1 DEF Activation, QueuedFrame
  <2> QED
    BY <2>1 DEF Activation, BundleFrame
<1>3. Advanced = <<f>> \o t
  BY DEF Advanced
<1> HIDE DEF f, t
<1>4. /\ Advanced \in Seq(Activation) /\ Len(Advanced) = Len(t) + 1
      /\ Advanced[1] = f
      /\ \A k \in 2 .. Len(t) + 1 : Advanced[k] = t[k - 1]
  BY <1>1, <1>2, <1>3, PushProperties
<1>5. ASSUME NEW k \in 1 .. Len(Advanced)
      PROVE  Due(Advanced[k]) /\ (Advanced[k].op = "queued" => Advanced[k].called)
  <2>1. CASE k = 1
    BY <1>2, <1>4, <2>1 DEF Due
  <2>2. CASE k # 1
    <3>1. k - 1 \in 1 .. Len(t) /\ Advanced[k] = t[k - 1]
      BY <1>1, <1>4, <2>2
    <3> QED
      BY <1>1, <3>1 DEF Settled
  <2> QED
    BY <2>1, <2>2
<1> QED
  BY <1>4, <1>5 DEF Settled

LEMMA EmptySettled == <<>> \in Seq(Activation) /\ Settled(<<>>)
BY DEF Settled

LEMMA InitIInv == Init => IInv
BY DEF Init, IInv, TypeOK, QueueOrdered, SeqBounded, FramesDue, FramesCalled

LEMMA DelayType ==
    ASSUME TypeOK
    PROVE  /\ Delay \in Nat
           /\ Delay <= Early => queue # <<>> /\ Head(queue).ts <= clock + Early
<1>1. queue # <<>> => Head(queue).ts \in Nat
  <2>1. queue # <<>> => Head(queue) \in Entry
    BY DEF TypeOK
  <2> QED
    BY <2>1 DEF Entry
<1> QED
  BY <1>1, TimeAssumption DEF Delay, Smaller, TypeOK

\* lo_server_recv, from the label again on.
LEMMA RecvIInv == IInv /\ Recv => IInv'
<1> SUFFICES ASSUME IInv, Recv PROVE IInv'
  OBVIOUS
<1>1. Delay \in Nat /\ (Delay <= Early => queue # <<>> /\ Head(queue).ts <= clock + Early)
  BY DelayType DEF IInv
<1>2. UNCHANGED <<clock, inbox, sent, addr, enqueue, queue, taken, fired, ran, open, late>>
  BY DEF Recv, net, history
<1>3. CASE StartPoll
  <2>1. deadline' \in Nat /\ pc' = "poll" /\ stack' = stack
    BY <1>1, <1>3, TimeAssumption DEF StartPoll, Smaller, IInv, TypeOK
  <2> QED
    BY <1>2, <2>1 DEF IInv, TypeOK, QueueOrdered, SeqBounded, FramesDue, FramesCalled,
                      Due, ReadyToCall
<1>4. CASE StartQueued
  <2> DEFINE f == DispatchQueued(FALSE)
  <2>1. /\ queue # <<>> /\ Head(queue).ts <= clock + Early
        /\ pc' = "app" /\ deadline' = deadline /\ stack' = <<f>>
    BY <1>1, <1>4 DEF StartQueued
  <2>2. f \in Activation /\ f.disp = Head(queue).ts
    BY <2>1, DispatchQueuedType DEF IInv
  <2> HIDE DEF f
  <2>3. StackOK'
    <3>1. Due(f) /\ queue' # <<>> /\ Head(queue').ts <= f.disp
      <4>1. Head(queue) \in Entry
        BY <2>1 DEF IInv, TypeOK
      <4> QED
        BY <1>2, <2>1, <2>2, <4>1 DEF Due, Entry
    <3>2. stack' = <<f>> \o <<>>
      BY <2>1
    <3> QED
      BY <1>2, <2>2, <3>1, <3>2, EmptySettled, CallOK
  <2> QED
    BY <1>2, <2>1, <2>3 DEF IInv, TypeOK, QueueOrdered, SeqBounded, StackOK
<1> QED
  BY <1>3, <1>4 DEF Recv

\* A step that only calls: the rest of the state is as it was.
LEMMA CallIInv ==
    ASSUME IInv, CallResult', UNCHANGED <<clock, queue, taken>>,
           inbox' \in Seq(Datagram), sent' \subseteq Msg \cup Bundle,
           pc' \in {"app", "wait", "poll", "undefined"}, deadline' \in Nat,
           fired' \subseteq Nat, late' \in Nat
    PROVE  IInv'
BY DEF IInv, CallResult, StackOK, TypeOK, QueueOrdered, SeqBounded

\* Every step keeps the inductive invariant.
LEMMA NextIInv == IInv /\ [Next]_vars => IInv'
<1> SUFFICES ASSUME IInv, [Next]_vars PROVE IInv'
  OBVIOUS
<1> USE DEF net, loop, history
<1>1. CASE lo_server_recv
  BY <1>1, RecvIInv DEF lo_server_recv
<1>2. CASE WaitReady
  BY <1>2, RecvIInv DEF WaitReady
<1>3. CASE PollTimeout
  BY <1>3, RecvIInv DEF PollTimeout
<1>4. CASE UNCHANGED <<clock, inbox, sent, addr, enqueue, queue, stack, history>>
           /\ pc' \in {"app", "wait", "undefined"} /\ deadline' \in Nat
  BY <1>4 DEF IInv, TypeOK, QueueOrdered, SeqBounded, FramesDue, FramesCalled, Due,
              ReadyToCall
<1>5. CASE lo_server_recv_noblock
  <2>1. Delay \in Nat
    BY DelayType DEF IInv
  <2>2. deadline' \in Nat
    BY <1>5, <2>1, TimeAssumption DEF lo_server_recv_noblock, Smaller, IInv, TypeOK
  <2> QED
    BY <1>5, <2>2, <1>4 DEF lo_server_recv_noblock
<1>6. CASE WaitTimeout \/ PollError \/ DoubleFree
  BY <1>6, <1>4 DEF WaitTimeout, PollError, DoubleFree, IInv, TypeOK
<1>7. CASE PollReady
  <2>1. CallResult'
    BY <1>7, EmptySettled, DispatchDataOK DEF PollReady
  <2>2. inbox' \in Seq(Datagram)
    BY <1>7 DEF PollReady, IInv, TypeOK
  <2>3. late' \in Nat
    BY <1>7 DEF PollReady, Smaller, LateCap, IInv, TypeOK
  <2> QED
    BY <1>7, <2>1, <2>2, <2>3, CallIInv DEF PollReady, IInv, TypeOK
<1>8. CASE lo_server_dispatch_data
  <2>1. CallResult'
    BY <1>8, EmptySettled, DispatchDataOK DEF lo_server_dispatch_data
  <2>2. sent' \subseteq Msg \cup Bundle
    BY <1>8, MessageAssumption DEF lo_server_dispatch_data, IInv, TypeOK
  <2> QED
    BY <1>8, <2>1, <2>2, CallIInv DEF lo_server_dispatch_data, IInv, TypeOK
<1>9. CASE AppEnableQueue
  <2>1. CallResult'
    BY <1>9, EmptySettled, EnableQueueOK DEF AppEnableQueue, IInv, TypeOK
  <2> QED
    BY <1>9, <2>1, CallIInv DEF AppEnableQueue, IInv, TypeOK
<1>10. CASE NestedBundle
  <2>1. CallResult'
    BY <1>10, AdvancedSettled, DispatchDataOK DEF NestedBundle, AtElement, Running
  <2> QED
    BY <1>10, <2>1, CallIInv DEF NestedBundle, IInv, TypeOK
<1>11. CASE DispatchElement
  <2>1. CallResult'
    BY <1>11, AdvancedSettled, DispatchMethodOK DEF DispatchElement, AtElement, Running
  <2> QED
    BY <1>11, <2>1, CallIInv DEF DispatchElement, IInv, TypeOK
<1>12. CASE QueueElement
  <2>1. StackOK'
    BY <1>12, AdvancedSettled, ReturnOK DEF QueueElement, AtElement, Running
  <2>2. Timetag[Frame.b] \in Nat
    <3>1. Frame \in Activation /\ Frame.op = "bundle"
      BY <1>12, TailSettled DEF QueueElement, AtElement, Running, IInv, TypeOK, StackOK
    <3> QED
      BY <3>1, MessageAssumption DEF Activation, BundleFrame, QueuedFrame
  <2>3. queue' \in Seq(Entry) /\ taken' \in Nat /\ QueueOrdered' /\ SeqBounded'
    BY <1>12, <2>2, QueueDataOrdered DEF QueueElement, IInv
  <2> QED
    BY <1>12, <2>1, <2>3 DEF QueueElement, IInv, TypeOK, StackOK
<1>13. CASE AbortBundle \/ EndBundle
  <2>1. Tail(stack) \in Seq(Activation) /\ Settled(Tail(stack))
    BY <1>13, TailSettled DEF AbortBundle, EndBundle, AtElement, Running, IInv, TypeOK,
                              StackOK
  <2>2. StackOK'
    BY <1>13, <2>1, ReturnOK DEF AbortBundle, EndBundle
  <2>3. open' \in Seq(Bundle)
    <3>1. open \in Seq(Bundle)
      BY DEF IInv, TypeOK
    <3>2. SubSeq(open, 2, Len(open)) \in Seq(Bundle)
      BY <3>1, SubSeqProperties
    <3> QED
      BY <1>13, <3>1, <3>2 DEF AbortBundle, EndBundle
  <2> QED
    BY <1>13, <2>2, <2>3 DEF AbortBundle, EndBundle, IInv, TypeOK, StackOK, QueueOrdered,
                             SeqBounded
<1>14. CASE QueuedCall
  <2> DEFINE f == [Frame EXCEPT !.called = TRUE, !.node = Head(queue).seq,
                       !.tail = IF Len(queue) > 1 THEN queue[2].seq ELSE 0]
             callers == <<f>> \o Tail(stack)
  <2>1. /\ Tail(stack) \in Seq(Activation) /\ Settled(Tail(stack))
        /\ Frame \in QueuedFrame /\ Due(Frame) /\ queue # <<>>
    BY <1>14, TailSettled DEF QueuedCall, Running, IInv, TypeOK, StackOK, ReadyToCall,
                              Activation, BundleFrame, QueuedFrame
  <2>2. Head(queue) \in Entry /\ (Len(queue) > 1 => queue[2] \in Entry)
    BY <2>1 DEF IInv, TypeOK
  <2>3. f \in QueuedFrame /\ f.called /\ f.op = "queued" /\ Due(f)
    BY <2>1, <2>2 DEF QueuedFrame, Entry, Due
  <2>4. dispatch_method(Head(queue).msg, callers) /\ fired' = fired \cup {Head(queue).seq}
        /\ late' = 0 /\ UNCHANGED <<net, loop, queue, taken>>
    BY <1>14 DEF QueuedCall
  <2> HIDE DEF f
  <2>5. callers \in Seq(Activation) /\ Settled(callers)
    <3> DEFINE t == Tail(stack)
    <3>1. f \in Activation /\ t \in Seq(Activation) /\ Settled(t)
      BY <2>1, <2>3 DEF Activation
    <3> HIDE DEF t
    <3>2. /\ <<f>> \o t \in Seq(Activation) /\ Len(<<f>> \o t) = Len(t) + 1
          /\ (<<f>> \o t)[1] = f
          /\ \A k \in 2 .. Len(t) + 1 : (<<f>> \o t)[k] = t[k - 1]
      BY <3>1, PushProperties
    <3>3. \A k \in 2 .. Len(t) + 1 : k - 1 \in 1 .. Len(t)
      BY <3>1
    <3>4. Settled(<<f>> \o t)
      BY <2>3, <3>1, <3>2, <3>3 DEF Settled
    <3> QED
      BY <3>2, <3>4 DEF t
  <2>6. Head(queue).msg \in Msg /\ Head(queue).seq \in Nat
    BY <2>2 DEF Entry
  <2> HIDE DEF callers
  <2>7. CallResult'
    BY <2>4, <2>5, <2>6, DispatchMethodOK
  <2> QED
    BY <2>4, <2>6, <2>7, CallIInv DEF IInv, TypeOK
<1>15. CASE QueuedReturn
  <2> DEFINE f == [Frame EXCEPT !.called = FALSE]
  <2>1. /\ Tail(stack) \in Seq(Activation) /\ Settled(Tail(stack))
        /\ Frame \in QueuedFrame /\ Due(Frame)
    BY <1>15, TailSettled DEF QueuedReturn, Running, IInv, TypeOK, StackOK,
                              Activation, BundleFrame, QueuedFrame
  <2>2. f \in Activation /\ Due(f) /\ f.disp = Frame.disp /\ f.all = Frame.all
    BY <2>1 DEF QueuedFrame, Activation, Due
  <2>3. queue' \in Seq(Entry) /\ QueueOrdered' /\ SeqBounded'
    BY <1>15, ListFromOrdered DEF QueuedReturn, IInv
  <2>4. StackOK'
    <3>1. CASE stack' = Tail(stack)
      BY <1>15, <2>1, <3>1, ReturnOK DEF QueuedReturn
    <3>2. CASE /\ queue' # <<>> /\ (Head(queue').ts <= Frame.disp \/ Frame.all)
               /\ stack' = <<f>> \o Tail(stack)
      <4> HIDE DEF f
      <4> QED
        BY <1>15, <2>1, <2>2, <3>2, CallOK DEF QueuedReturn
    <3> QED
      BY <1>15, <3>1, <3>2 DEF QueuedReturn
  <2> QED
    BY <1>15, <2>3, <2>4 DEF QueuedReturn, IInv, TypeOK, StackOK
<1>16. CASE Arrive
  <2>1. PICK d \in Traffic : /\ inbox' = Append(inbox, d)
                             /\ sent' = IF d \in Msg \cup Bundle THEN sent \cup {d} ELSE sent
    BY <1>16 DEF Arrive
  <2>2. inbox' \in Seq(Datagram) /\ sent' \subseteq Msg \cup Bundle
    BY <2>1, MessageAssumption DEF IInv, TypeOK
  <2> QED
    BY <1>16, <2>2 DEF Arrive, IInv, TypeOK, QueueOrdered, SeqBounded, FramesDue,
                       FramesCalled, Due, ReadyToCall
<1>17. CASE Tick
  <2>1. clock \in Nat /\ clock' = clock + 1 /\ stack \in Seq(Activation)
    BY <1>17 DEF Tick, IInv, TypeOK
  <2>2. FramesDue'
    <3> SUFFICES ASSUME NEW k \in 1 .. Len(stack) PROVE Due(stack[k])'
      BY <1>17 DEF Tick, FramesDue
    <3>1. Due(stack[k]) /\ stack[k] \in Activation /\ stack' = stack
      BY <1>17, <2>1 DEF Tick, FramesDue, IInv
    <3> QED
      BY <2>1, <3>1, TimeAssumption DEF Due, Activation, BundleFrame, QueuedFrame
  <2> QED
    BY <1>17, <2>1, <2>2 DEF Tick, IInv, TypeOK, QueueOrdered, SeqBounded, FramesCalled,
                             ReadyToCall
<1>18. CASE UNCHANGED vars
  BY <1>18 DEF vars, IInv, TypeOK, QueueOrdered, SeqBounded, FramesDue, FramesCalled, Due,
               ReadyToCall
<1> QED
  BY <1>1, <1>2, <1>3, <1>5, <1>6, <1>7, <1>8, <1>9, <1>10, <1>11, <1>12, <1>13, <1>14,
     <1>15, <1>16, <1>17, <1>18
     DEF Next, App, Application, Poll, Run

--------------------------------------------------------------------------------
(***************************************************************************)
(* Theorems.                                                               *)
(***************************************************************************)
LEMMA SpecIInv == Spec => []IInv
  BY InitIInv, NextIInv, PTL DEF Spec

\* The state keeps its type.
THEOREM TypeCorrect == Spec => []TypeOK
<1>1. IInv => TypeOK
  BY DEF IInv
<1> QED
  BY <1>1, SpecIInv, PTL

\* Whatever the handlers do, also when they dispatch or flush while dispatch_queued
\* is at work, the queue stays in timetag order, first come first served.
THEOREM QueueIsOrdered == Spec => []QueueOrdered
<1>1. IInv => QueueOrdered
  BY DEF IInv
<1> QED
  BY <1>1, SpecIInv, PTL

\* Whatever the handlers do, no queued event is dispatched more than Early before
\* its timetag, except by a flush.
THEOREM NothingEarly == Spec => NeverEarly
<1> DEFINE A == \A n \in fired' \ fired : Frame.all \/ Head(queue).ts <= clock + Early
<1>1. IInv /\ [Next]_vars => [A]_vars
  <2> SUFFICES ASSUME IInv, Next, NEW n \in fired' \ fired
               PROVE  Frame.all \/ Head(queue).ts <= clock + Early
    OBVIOUS
  <2>1. QueuedCall
    BY DEF Next, App, Application, Poll, Run, lo_server_recv, WaitReady, PollTimeout, Recv,
           lo_server_recv_noblock, WaitTimeout, PollError, DoubleFree, PollReady,
           lo_server_dispatch_data, AppEnableQueue, NestedBundle, DispatchElement,
           QueueElement, AbortBundle, EndBundle, QueuedReturn, Arrive, Tick,
           net, loop, history
  <2>2. /\ Frame \in QueuedFrame /\ Due(Frame) /\ ReadyToCall(Frame)
        /\ Frame.op = "queued"
    BY <2>1, TailSettled DEF QueuedCall, Running, IInv, TypeOK, StackOK, Activation,
                             BundleFrame, QueuedFrame
  <2>3. Head(queue) \in Entry /\ clock \in Nat
    BY <2>2 DEF ReadyToCall, IInv, TypeOK
  <2> QED
    BY <2>2, <2>3, TimeAssumption DEF Due, ReadyToCall, QueuedFrame, Entry
<1> QED
  BY <1>1, SpecIInv, PTL DEF Spec, NeverEarly


--------------------------------------------------------------------------------
(***************************************************************************)
(* The inductive invariants.                                               *)
(***************************************************************************)
\* No activation outlives the call that polls.
PollOnEmpty == pc \in {"wait", "poll"} => stack = <<>>

HeadDue == queue # <<>> /\ Head(queue).ts <= clock + Early

\* Once a datagram was read with an event due, the event stays at the head of the
\* queue and the socket is not polled again before a method is called for it.
PromptInv ==
    /\ late <= 1
    /\ late = 1 => pc # "poll" /\ HeadDue
    /\ \A k \in 1 .. Len(stack) : stack[k].op = "queued" /\ stack[k].called => late = 0
    /\ PollOnEmpty

\* The activation that calls the method of the event at the head of the queue.
Calling == stack # <<>> /\ Frame.op = "queued" /\ Frame.called

SeqUnique == \A i, j \in 1 .. Len(queue) : queue[i].seq = queue[j].seq => i = j
SeqTaken == \A i \in 1 .. Len(queue) : queue[i].seq \in 1 .. taken
QueuedInnermost == \A k \in 1 .. Len(stack) : stack[k].op = "queued" => k = 1

\* What dispatch_queued remembers across the call is still so.
CallsHead ==
    Calling => /\ queue # <<>>
               /\ Frame.node = queue[1].seq
               /\ Frame.tail = IF Len(queue) > 1 THEN queue[2].seq ELSE 0

FiredIsCalled == \A i \in 1 .. Len(queue) : queue[i].seq \in fired <=> i = 1 /\ Calling

OnceInv ==
    /\ SeqUnique /\ SeqTaken /\ QueuedInnermost /\ CallsHead /\ FiredIsCalled /\ PollOnEmpty
    /\ fired \subseteq 1 .. taken
    /\ \A i \in 1 .. Len(queue) : queue[i].msg \in Queueable
    /\ NothingLost

QueuedBefore(q, m, n) == \E k \in 1 .. n - 1 : q[k].msg = m

\* What comes earlier in its bundle than a queued message was dispatched, or is
\* queued before it.
QueueInOrder ==
    \A n \in 1 .. Len(queue) : \A b \in Flat : \A j \in DOMAIN Elements[b] :
        queue[n].msg = Elements[b][j] =>
            /\ queue[n].ts = Timetag[b]
            /\ \A i \in 1 .. j - 1 : Elements[b][i] \in Msg =>
                  Elements[b][i] \in ran \/ QueuedBefore(queue, Elements[b][i], n)

\* So it is of what comes before the element an activation is at; only the
\* innermost can have queued any of it, and then goes on queueing.
FramesInOrder ==
    \A k \in 1 .. Len(stack) : stack[k].op = "bundle" /\ stack[k].b \in Flat =>
        \A i \in DOMAIN Elements[stack[k].b] :
            i < stack[k].next /\ Elements[stack[k].b][i] \in Msg =>
                \/ Elements[stack[k].b][i] \in ran
                \/ k = 1 /\ ~DispatchNow /\ QueuedBefore(queue, Elements[stack[k].b][i], Len(queue) + 1)

OrderInv ==
    /\ BundleOrder /\ QueueInOrder /\ FramesInOrder
    /\ Calling => queue[1].msg \in ran
    /\ \A i \in 1 .. Len(inbox) : inbox[i] \in Traffic

--------------------------------------------------------------------------------
(***************************************************************************)
(* What a call leaves on the stack.                                        *)
(***************************************************************************)
\* An activation that has just begun calls no queued method and is at no element yet.
Fresh(f) == /\ f.op = "queued" => f.called = FALSE
            /\ f.op = "bundle" => f.next = 1

\* A call returned at once, or has begun.
Pushed(callers) ==
    \/ stack' = callers
    \/ \E f : Fresh(f) /\ stack' = <<f>> \o callers

LEMMA EnableQueuePushes ==
    ASSUME NEW callers, NEW on, NEW remaining, lo_server_enable_queue(on, remaining, callers)
    PROVE  Pushed(callers)
BY DEF lo_server_enable_queue, DispatchQueued, Pushed, Fresh

LEMMA EnterBundlePushes ==
    ASSUME NEW callers, NEW b, EnterBundle(b, callers)
    PROVE  Pushed(callers)
BY DEF EnterBundle, DispatchBundle, Pushed, Fresh

LEMMA DispatchMethodPushes ==
    ASSUME NEW callers, NEW m, dispatch_method(m, callers)
    PROVE  Pushed(callers)
<1>1. CASE stack' = callers
  BY <1>1 DEF Pushed
<1>2. CASE \E on, remaining \in BOOLEAN : lo_server_enable_queue(on, remaining, callers)
  BY <1>2, EnableQueuePushes
<1>3. CASE \E b : EnterBundle(b, callers)
  BY <1>3, EnterBundlePushes
<1> QED
  BY <1>1, <1>2, <1>3 DEF dispatch_method

LEMMA DispatchDataPushes ==
    ASSUME NEW callers, NEW d, dispatch_data(d, callers)
    PROVE  Pushed(callers)
BY DispatchMethodPushes, EnterBundlePushes DEF dispatch_data, Pushed

\* A call of a queued method that is on the stack after a call was there before.
LEMMA PushedCalled ==
    ASSUME NEW callers \in Seq(Activation), Pushed(callers),
           NEW k \in 1 .. Len(stack'), stack'[k].op = "queued", stack'[k].called
    PROVE  \E j \in 1 .. Len(callers) : stack'[k] = callers[j]
<1>1. CASE stack' = callers
  BY <1>1
<1>2. CASE \E f : Fresh(f) /\ stack' = <<f>> \o callers
  <2>1. PICK f : Fresh(f) /\ stack' = <<f>> \o callers
    BY <1>2
  <2>2. /\ Len(stack') = Len(callers) + 1 /\ stack'[1] = f
        /\ \A i \in 2 .. Len(stack') : stack'[i] = callers[i - 1]
    BY <2>1
  <2>3. k # 1
    BY <2>1, <2>2 DEF Fresh
  <2> QED
    BY <2>2, <2>3
<1> QED
  BY <1>1, <1>2 DEF Pushed

\* The stack of a dispatch_data moved to its next element.
LEMMA AdvancedProperties ==
    ASSUME IInv, stack # <<>>, Frame.op = "bundle"
    PROVE  /\ Advanced \in Seq(Activation)
           /\ Len(Advanced) = Len(stack)
           /\ Len(stack) \in Nat \ {0}
           /\ stack[1] = Frame /\ Frame \in BundleFrame
           /\ Advanced[1] = [Frame EXCEPT !.next = @ + 1]
           /\ Advanced[1].op = "bundle"
           /\ \A k \in 2 .. Len(stack) : Advanced[k] = stack[k]
<1> DEFINE f == [Frame EXCEPT !.next = @ + 1]
           t == Tail(stack)
<1>1. /\ t \in Seq(Activation) /\ Len(t) = Len(stack) - 1 /\ Len(stack) \in Nat \ {0}
      /\ Frame = stack[1] /\ stack[1] \in Activation
      /\ \A k \in 1 .. Len(stack) - 1 : t[k] = stack[k + 1]
  BY PopProperties DEF IInv, TypeOK, Frame
<1>2. Frame \in BundleFrame /\ f \in BundleFrame /\ f \in Activation /\ f.op = "bundle"
  BY <1>1 DEF Activation, BundleFrame, QueuedFrame
<1>3. Advanced = <<f>> \o t
  BY DEF Advanced
<1> HIDE DEF f, t
<1>4. /\ Advanced \in Seq(Activation) /\ Len(Advanced) = Len(t) + 1
      /\ Advanced[1] = f
      /\ \A k \in 2 .. Len(t) + 1 : Advanced[k] = t[k - 1]
  BY <1>1, <1>2, <1>3, PushProperties
<1>5. \A k \in 2 .. Len(stack) : Advanced[k] = stack[k]
  BY <1>1, <1>4
<1> QED
  BY <1>1, <1>2, <1>4, <1>5 DEF f

--------------------------------------------------------------------------------
(***************************************************************************)
(* Datagrams do not starve the queue.                                      *)
(***************************************************************************)
CalledQuiet == \A k \in 1 .. Len(stack) : stack[k].op = "queued" /\ stack[k].called => late = 0

LEMMA InitPromptInv == Init => PromptInv
BY DEF Init, PromptInv, PollOnEmpty

LEMMA HeadDueDelay ==
    ASSUME TypeOK
    PROVE  HeadDue <=> Delay <= Early
<1>1. queue # <<>> => Head(queue).ts \in Nat
  <2>1. queue # <<>> => Head(queue) \in Entry
    BY DEF TypeOK
  <2> QED
    BY <2>1 DEF Entry
<1> QED
  BY <1>1, TimeAssumption DEF HeadDue, Delay, Smaller, TypeOK

LEMMA RecvPromptInv ==
    ASSUME IInv, PromptInv, Recv, pc # "poll" \/ late = 0, stack = <<>>
    PROVE  PromptInv'
<1>1. UNCHANGED <<clock, queue, late>>
  BY DEF Recv, net, history
<1>2. late \in Nat /\ Delay \in Nat
  BY DelayType DEF IInv, TypeOK
<1>3. CASE StartPoll
  <2>1. late = 0
    BY <1>2, <1>3, HeadDueDelay, TimeAssumption DEF StartPoll, PromptInv, IInv
  <2> QED
    BY <1>1, <1>3, <2>1 DEF StartPoll, PromptInv, PollOnEmpty
<1>4. CASE StartQueued
  BY <1>1, <1>4 DEF StartQueued, PromptInv, PollOnEmpty, DispatchQueued, HeadDue
<1> QED
  BY <1>3, <1>4 DEF Recv

\* A step of a method's call, on behalf of callers that call no queued method but
\* those that were on the stack.
LEMMA CallPromptInv ==
    ASSUME IInv, IInv', PromptInv, NEW callers \in Seq(Activation), Pushed(callers),
           \A j \in 1 .. Len(callers) : callers[j].op = "queued" /\ callers[j].called => late' = 0,
           pc' = "app", late' <= 1, late' = 1 => HeadDue'
    PROVE  PromptInv'
<1>1. ASSUME NEW k \in 1 .. Len(stack'), stack'[k].op = "queued", stack'[k].called
      PROVE  late' = 0
  BY <1>1, PushedCalled
<1> QED
  BY <1>1 DEF PromptInv, PollOnEmpty

LEMMA CallNothingPrompt ==
    ASSUME IInv, IInv', PromptInv, Pushed(<<>>), pc' = "app", late' <= 1, late' = 1 => HeadDue'
    PROVE  PromptInv'
<1>1. <<>> \in Seq(Activation) /\ 1 .. Len(<<>>) = {}
  OBVIOUS
<1> QED
  BY <1>1, CallPromptInv

LEMMA NextPromptInv == IInv /\ IInv' /\ PromptInv /\ [Next]_vars => PromptInv'
<1> SUFFICES ASSUME IInv, IInv', PromptInv, [Next]_vars PROVE PromptInv'
  OBVIOUS
<1> USE DEF net, loop, history
<1>0. late \in Nat /\ late <= 1 /\ CalledQuiet /\ stack \in Seq(Activation)
  BY DEF IInv, TypeOK, PromptInv, CalledQuiet
<1>1. CASE lo_server_recv
  BY <1>1, RecvPromptInv DEF lo_server_recv, Idle
<1>2. CASE WaitReady
  BY <1>2, RecvPromptInv DEF WaitReady, PromptInv, PollOnEmpty
<1>3. CASE PollTimeout
  BY <1>0, <1>3, RecvPromptInv DEF PollTimeout, PromptInv, PollOnEmpty
<1>4. CASE lo_server_recv_noblock \/ WaitTimeout \/ PollError \/ DoubleFree
  BY <1>4 DEF lo_server_recv_noblock, Idle, WaitTimeout, PollError, DoubleFree, PromptInv,
              PollOnEmpty, HeadDue
<1>5. CASE PollReady
  <2>1. Pushed(<<>>) /\ pc' = "app" /\ UNCHANGED <<clock, queue>> /\ late = 0
        /\ late' = IF Delay <= Early THEN Smaller(late + 1, LateCap) ELSE late
    BY <1>0, <1>5, DispatchDataPushes DEF PollReady, PromptInv
  <2>2. late' <= 1 /\ (late' = 1 => Delay <= Early)
    BY <2>1 DEF Smaller, LateCap
  <2>3. late' = 1 => HeadDue'
    BY <2>1, <2>2, HeadDueDelay DEF HeadDue, IInv
  <2> QED
    BY <2>1, <2>2, <2>3, CallNothingPrompt
<1>6. CASE lo_server_dispatch_data \/ AppEnableQueue
  <2>1. Pushed(<<>>) /\ pc' = "app" /\ UNCHANGED <<clock, queue, late>>
    BY <1>6, DispatchDataPushes, EnableQueuePushes
       DEF lo_server_dispatch_data, AppEnableQueue, Idle
  <2> QED
    BY <1>0, <2>1, CallNothingPrompt DEF PromptInv, HeadDue
<1>7. CASE NestedBundle \/ DispatchElement
  <2>1. Pushed(Advanced) /\ pc' = "app" /\ UNCHANGED <<clock, queue, late>>
        /\ stack # <<>> /\ Frame.op = "bundle"
    BY <1>7, DispatchDataPushes, DispatchMethodPushes
       DEF NestedBundle, DispatchElement, AtElement, Running
  <2>2. /\ Advanced \in Seq(Activation)
        /\ \A j \in 1 .. Len(Advanced) :
              Advanced[j].op = "queued" /\ Advanced[j].called => late' = 0
    <3> HIDE DEF Advanced
    <3> QED
      BY <1>0, <2>1, AdvancedProperties DEF CalledQuiet
  <2> QED
    BY <1>0, <2>1, <2>2, CallPromptInv DEF PromptInv, HeadDue
<1>8. CASE QueueElement
  <2>1. /\ stack' = Advanced /\ pc' = "app" /\ pc = "app" /\ UNCHANGED <<clock, late>>
        /\ stack # <<>> /\ Frame.op = "bundle"
    BY <1>8 DEF QueueElement, AtElement, Running
  <2>2. CalledQuiet'
    <3> HIDE DEF Advanced
    <3> QED
      BY <1>0, <2>1, AdvancedProperties DEF CalledQuiet
  <2>3. HeadDue => HeadDue'
    <3> DEFINE ts == Timetag[Frame.b]
               p == InsertPoint(queue, ts)
               e == [msg |-> ThisElement, ts |-> ts, seq |-> taken + 1]
    <3>1. ts \in Nat
      BY <2>1, AdvancedProperties, MessageAssumption DEF BundleFrame
    <3>2. queue \in Seq(Entry) /\ taken \in Nat /\ ThisElement \in Msg
      BY <1>8 DEF QueueElement, IInv, TypeOK
    <3>3. p \in 1 .. Len(queue) + 1 /\ (p <= Len(queue) => queue[p].ts > ts)
      BY <3>1, <3>2, InsertPointProperties
    <3>4. queue' = InsertAt(queue, p, e)
      BY <1>8 DEF QueueElement, queue_data
    <3>5. e \in Entry /\ e.ts = ts
      BY <3>1, <3>2 DEF Entry
    <3> HIDE DEF ts, p, e
    <3>6. /\ queue' \in Seq(Entry) /\ Len(queue') = Len(queue) + 1
          /\ queue'[1] = IF 1 < p THEN queue[1] ELSE e
      <4>1. IsInserted(queue', Entry, queue, p, e)
        BY <3>2, <3>3, <3>4, <3>5, InsertAtProperties
      <4>2. Len(queue) \in Nat /\ p \in Nat /\ p >= 1 /\ 1 \in 1 .. Len(queue) + 1
        BY <3>2, <3>3
      <4>3. queue'[1] = IF 1 < p THEN queue[1] ELSE IF 1 = p THEN e ELSE queue[1 - 1]
        BY <4>1, <4>2, Zenon DEF IsInserted
      <4> QED
        BY <4>1, <4>2, <4>3 DEF IsInserted
    <3>7. Head(queue') = queue'[1] /\ queue' # <<>>
      BY <3>2, <3>6
    <3>8. queue # <<>> => Head(queue) = queue[1] /\ queue[1] \in Entry
      BY <3>2
    <3>9. ASSUME HeadDue PROVE Head(queue').ts <= clock + Early
      <4>1. /\ queue # <<>> /\ queue[1].ts <= clock + Early /\ queue[1].ts \in Nat
            /\ clock + Early \in Nat /\ Len(queue) >= 1
        BY <3>2, <3>8, <3>9, TimeAssumption, SMTT(30) DEF HeadDue, Entry, IInv, TypeOK
      <4>2. CASE 1 < p
        BY <3>6, <3>7, <4>1, <4>2
      <4>3. CASE p = 1
        <5>1. queue[1].ts > ts
          BY <3>3, <4>1, <4>3
        <5> QED
          BY <3>1, <3>5, <3>6, <3>7, <4>1, <4>3, <5>1
      <4> QED
        BY <3>3, <4>2, <4>3
    <3> QED
      BY <2>1, <3>7, <3>9 DEF HeadDue
  <2> QED
    BY <1>0, <2>1, <2>2, <2>3 DEF CalledQuiet, PromptInv, PollOnEmpty
<1>9. CASE AbortBundle \/ EndBundle
  <2>1. /\ stack # <<>> /\ stack' = Tail(stack) /\ pc' = "app"
        /\ UNCHANGED <<clock, queue, late>>
    BY <1>9 DEF AbortBundle, EndBundle, AtElement, Running
  <2>2. CalledQuiet'
    BY <1>0, <2>1, PopProperties DEF CalledQuiet
  <2> QED
    BY <2>1, <2>2 DEF CalledQuiet, PromptInv, PollOnEmpty, HeadDue
<1>10. CASE QueuedCall
  <2>1. late' = 0 /\ pc' = "app"
    BY <1>10 DEF QueuedCall, Running
  <2> QED
    BY <2>1 DEF PromptInv, PollOnEmpty
<1>11. CASE QueuedReturn
  <2>1. stack # <<>> /\ Frame.op = "queued" /\ Frame.called /\ pc' = "app" /\ late' = late
    BY <1>11 DEF QueuedReturn, Running
  <2>2. late = 0
    BY <1>0, <2>1, PopProperties DEF CalledQuiet, Frame
  <2> QED
    BY <2>1, <2>2 DEF PromptInv, PollOnEmpty
<1>12. CASE Arrive
  BY <1>12 DEF Arrive, PromptInv, PollOnEmpty, HeadDue
<1>13. CASE Tick
  <2>1. queue # <<>> => Head(queue).ts \in Nat
    <3>1. queue # <<>> => Head(queue) \in Entry
      BY DEF IInv, TypeOK
    <3> QED
      BY <3>1 DEF Entry
  <2> QED
    BY <1>13, <2>1, TimeAssumption DEF Tick, PromptInv, PollOnEmpty, HeadDue, IInv, TypeOK
<1>14. CASE UNCHANGED vars
  BY <1>14 DEF vars, PromptInv, PollOnEmpty, HeadDue
<1> QED
  BY <1>1, <1>2, <1>3, <1>4, <1>5, <1>6, <1>7, <1>8, <1>9, <1>10, <1>11, <1>12, <1>13, <1>14
     DEF Next, App, Application, Poll, Run

\* Between an event's becoming due and its method's being called, or another's, at
\* most one datagram is read, however many arrive and whatever methods do.
THEOREM TrafficWaits == Spec => []PromptDespiteTraffic
<1>1. PromptInv => PromptDespiteTraffic
  BY DEF PromptInv, PromptDespiteTraffic
<1> QED
  BY <1>1, InitPromptInv, NextPromptInv, SpecIInv, PTL DEF Spec

--------------------------------------------------------------------------------
(***************************************************************************)
(* Exactly once.                                                           *)
(***************************************************************************)
Quiet(s) == \A k \in 1 .. Len(s) : s[k].op # "queued"

\* The queue part of OnceInv, which tells the stack's only by Calling.
QueueOnce ==
    /\ SeqUnique /\ SeqTaken /\ FiredIsCalled
    /\ fired \subseteq 1 .. taken
    /\ \A i \in 1 .. Len(queue) : queue[i].msg \in Queueable
    /\ NothingLost

LEMMA QueueOnceSame ==
    ASSUME QueueOnce, Calling' <=> Calling, UNCHANGED <<queue, fired, taken>>
    PROVE  QueueOnce'
BY DEF QueueOnce, SeqUnique, SeqTaken, FiredIsCalled, NothingLost

\* A frame on top of others is no call of a queued method, and those others neither.
LEMMA PushedQuiet ==
    ASSUME NEW callers \in Seq(Activation), Quiet(callers), Pushed(callers)
    PROVE  /\ ~Calling' /\ QueuedInnermost'
<1>1. CASE stack' = callers
  <2>1. stack' # <<>> => Head(stack') = callers[1] /\ 1 \in 1 .. Len(callers)
    BY <1>1
  <2> QED
    BY <1>1, <2>1 DEF Quiet, Calling, QueuedInnermost, Frame
<1>2. CASE \E f : Fresh(f) /\ stack' = <<f>> \o callers
  <2>1. PICK f : Fresh(f) /\ stack' = <<f>> \o callers
    BY <1>2
  <2>2. /\ Len(stack') = Len(callers) + 1 /\ stack'[1] = f /\ Head(stack') = f
        /\ \A i \in 2 .. Len(stack') : stack'[i] = callers[i - 1]
    BY <2>1
  <2>3. \A i \in 2 .. Len(stack') : i - 1 \in 1 .. Len(callers)
    BY <2>2
  <2> QED
    BY <2>1, <2>2, <2>3 DEF Quiet, Calling, QueuedInnermost, Frame, Fresh
<1> QED
  BY <1>1, <1>2 DEF Pushed

\* A step that only calls, on behalf of callers among which is no dispatch_queued.
LEMMA CallOnceInv ==
    ASSUME OnceInv, ~Calling, NEW callers \in Seq(Activation), Quiet(callers),
           Pushed(callers), UNCHANGED <<queue, fired, taken>>, pc' = "app"
    PROVE  OnceInv'
<1>1. ~Calling' /\ QueuedInnermost'
  BY PushedQuiet
<1>2. QueueOnce'
  BY <1>1, QueueOnceSame DEF OnceInv, QueueOnce
<1> QED
  BY <1>1, <1>2 DEF OnceInv, QueueOnce, CallsHead, PollOnEmpty

LEMMA InitOnceInv == Init => OnceInv
BY DEF Init, OnceInv, SeqUnique, SeqTaken, QueuedInnermost, CallsHead, Calling, FiredIsCalled,
       PollOnEmpty, NothingLost

LEMMA EmptyQuiet == <<>> \in Seq(Activation) /\ Quiet(<<>>)
BY DEF Quiet

LEMMA RecvOnceInv ==
    ASSUME OnceInv, Recv, stack = <<>>
    PROVE  OnceInv'
<1>1. ~Calling /\ UNCHANGED <<queue, fired, taken>>
  BY DEF Calling, Recv, history
<1>2. CASE StartPoll
  <2>1. stack' = <<>> /\ ~Calling'
    BY <1>2 DEF StartPoll, Calling
  <2>2. QueueOnce'
    BY <1>1, <2>1, QueueOnceSame DEF OnceInv, QueueOnce
  <2> QED
    BY <2>1, <2>2 DEF OnceInv, QueueOnce, CallsHead, PollOnEmpty, QueuedInnermost
<1>3. CASE StartQueued
  <2>1. Pushed(<<>>) /\ pc' = "app"
    BY <1>3 DEF StartQueued, Pushed, DispatchQueued, Fresh
  <2> QED
    BY <1>1, <2>1, EmptyQuiet, CallOnceInv
<1> QED
  BY <1>2, <1>3 DEF Recv

\* Below the innermost activation none is of dispatch_queued.
LEMMA TailQuiet ==
    ASSUME IInv, QueuedInnermost, stack # <<>>
    PROVE  Tail(stack) \in Seq(Activation) /\ Quiet(Tail(stack))
<1>1. /\ Tail(stack) \in Seq(Activation) /\ Len(Tail(stack)) = Len(stack) - 1
      /\ Len(stack) \in Nat
      /\ \A k \in 1 .. Len(stack) - 1 : Tail(stack)[k] = stack[k + 1]
  BY PopProperties DEF IInv, TypeOK
<1>2. ASSUME NEW k \in 1 .. Len(Tail(stack)) PROVE Tail(stack)[k].op # "queued"
  <2>1. k + 1 \in 1 .. Len(stack) /\ k + 1 # 1 /\ Tail(stack)[k] = stack[k + 1]
    BY <1>1
  <2> QED
    BY <2>1 DEF QueuedInnermost
<1> QED
  BY <1>1, <1>2 DEF Quiet

LEMMA AdvancedQuiet ==
    ASSUME IInv, QueuedInnermost, stack # <<>>, Frame.op = "bundle"
    PROVE  Advanced \in Seq(Activation) /\ Quiet(Advanced)
<1> HIDE DEF Advanced
<1> QED
  BY AdvancedProperties DEF Quiet, QueuedInnermost

\* What queue_data does to a queue of which nothing was fired yet.
LEMMA QueueDataOnce ==
    ASSUME IInv, QueueOnce, ~Calling, ~Calling', NEW m \in Queueable, NEW ts \in Nat,
           queue_data(m, ts), fired' = fired
    PROVE  QueueOnce'
<1> DEFINE e == [msg |-> m, ts |-> ts, seq |-> taken + 1]
           p == InsertPoint(queue, ts)
<1>1. e \in Entry /\ queue \in Seq(Entry) /\ taken \in Nat
  BY DEF IInv, TypeOK, Entry, Queueable
<1>2. p \in 1 .. Len(queue) + 1
  BY <1>1, InsertPointProperties
<1>3. queue' = InsertAt(queue, p, e) /\ taken' = taken + 1
  BY DEF queue_data
<1>4. e.msg = m /\ e.seq = taken + 1
  OBVIOUS
<1> HIDE DEF e, p
<1>5. /\ queue' \in Seq(Entry) /\ Len(queue') = Len(queue) + 1
      /\ \A i \in 1 .. Len(queue) + 1 : queue'[i] =
            IF i < p THEN queue[i] ELSE IF i = p THEN e ELSE queue[i - 1]
  <2>1. IsInserted(queue', Entry, queue, p, e)
    BY <1>1, <1>2, <1>3, InsertAtProperties
  <2> QED
    BY <2>1, Zenon DEF IsInserted
<1> DEFINE old(i) == IF i < p THEN i ELSE i - 1
<1>6. \A i \in 1 .. Len(queue') :
         \/ i = p /\ queue'[i] = e
         \/ i # p /\ old(i) \in 1 .. Len(queue) /\ queue'[i] = queue[old(i)]
  BY <1>1, <1>2, <1>5
<1>7. \A i \in 1 .. Len(queue) : \E k \in 1 .. Len(queue') : queue'[k] = queue[i]
  <2> SUFFICES ASSUME NEW i \in 1 .. Len(queue)
               PROVE  \E k \in 1 .. Len(queue') : queue'[k] = queue[i]
    OBVIOUS
  <2>1. CASE i < p
    <3>1. i \in 1 .. Len(queue') /\ queue'[i] = queue[i]
      BY <1>1, <1>5, <2>1
    <3> QED
      BY <3>1
  <2>2. CASE i >= p
    <3>1. i + 1 \in 1 .. Len(queue') /\ queue'[i + 1] = queue[i]
      BY <1>1, <1>2, <1>5, <2>2
    <3> QED
      BY <3>1
  <2> QED
    BY <1>1, <1>2, <2>1, <2>2
<1>8. \A i \in 1 .. Len(queue) : queue[i].seq \in 1 .. taken /\ queue[i].seq \notin fired
  BY DEF QueueOnce, SeqTaken, FiredIsCalled
<1>9. SeqTaken'
  <2> SUFFICES ASSUME NEW i \in 1 .. Len(queue') PROVE queue'[i].seq \in 1 .. taken + 1
    BY <1>3 DEF SeqTaken
  <2> HIDE DEF old
  <2> QED
    BY <1>1, <1>4, <1>6, <1>8
<1>10. SeqUnique'
  <2> SUFFICES ASSUME NEW i \in 1 .. Len(queue'), NEW j \in 1 .. Len(queue'),
                      queue'[i].seq = queue'[j].seq
               PROVE  i = j
    BY DEF SeqUnique
  <2>1. CASE i # p /\ j # p
    <3>1. old(i) = old(j)
      <4> HIDE DEF old
      <4> QED
        BY <1>6, <2>1 DEF QueueOnce, SeqUnique
    <3> QED
      BY <1>2, <2>1, <3>1
  <2>2. CASE i = p \/ j = p
    <3> HIDE DEF old
    <3> QED
      BY <1>1, <1>4, <1>6, <1>8, <2>2
  <2> QED
    BY <2>1, <2>2
<1> HIDE DEF old
<1>11. FiredIsCalled'
  <2>1. fired \subseteq 1 .. taken
    BY DEF QueueOnce
  <2>2. \A i \in 1 .. Len(queue') : queue'[i].seq \notin fired
    BY <1>1, <1>4, <1>6, <1>8, <2>1
  <2> QED
    BY <2>2 DEF FiredIsCalled
<1>12. \A i \in 1 .. Len(queue') : queue'[i].msg \in Queueable
  BY <1>4, <1>6 DEF QueueOnce
<1>13. NothingLost'
  <2> SUFFICES ASSUME NEW n \in 1 .. taken + 1, n \notin fired
               PROVE  \E k \in 1 .. Len(queue') : queue'[k].seq = n
    BY <1>3 DEF NothingLost
  <2>1. CASE n = taken + 1
    BY <1>2, <1>4, <1>5, <2>1
  <2>2. CASE n # taken + 1
    <3>1. n \in 1 .. taken
      BY <1>1, <2>2
    <3>2. \E i \in 1 .. Len(queue) : queue[i].seq = n
      BY <3>1 DEF QueueOnce, NothingLost
    <3> QED
      BY <1>7, <3>2
  <2> QED
    BY <2>1, <2>2
<1>14. fired' \subseteq 1 .. taken'
  BY <1>1, <1>3 DEF QueueOnce
<1> QED
  BY <1>9, <1>10, <1>11, <1>12, <1>13, <1>14 DEF QueueOnce

\* The method of a queued message leaves the stack as it was.
LEMMA QueuedMethodReturns ==
    ASSUME NoReentry, NEW m \in Queueable, NEW callers, dispatch_method(m, callers)
    PROVE  stack' = callers
<1>1. PICK call \in HandlerCalls[m] :
         \/ call = "return" /\ stack' = callers
         \/ call = "enable" /\ lo_server_enable_queue(TRUE, FALSE, callers)
         \/ call = "disable" /\ lo_server_enable_queue(FALSE, FALSE, callers)
         \/ call = "flush" /\ lo_server_enable_queue(FALSE, TRUE, callers)
         \/ call \in Bundle /\ EnterBundle(call, callers)
  BY DEF dispatch_method
<1>2. call \in {"return", "enable", "disable"}
  BY DEF NoReentry
<1>3. call # "flush" /\ call \notin Bundle
  BY <1>2, MessageAssumption
<1> QED
  BY <1>1, <1>3 DEF lo_server_enable_queue

LEMMA HeadReady ==
    ASSUME IInv, QueuedCall
    PROVE  /\ queue # <<>> /\ Len(queue) \in Nat \ {0} /\ Head(queue) = queue[1]
           /\ queue[1] \in Entry /\ stack # <<>> /\ Frame.op = "queued" /\ ~Frame.called
<1>1. stack # <<>> /\ Frame.op = "queued" /\ ~Frame.called
  BY DEF QueuedCall, Running
<1>2. queue # <<>>
  BY <1>1, TailSettled DEF IInv, TypeOK, StackOK, ReadyToCall
<1> QED
  BY <1>1, <1>2 DEF IInv, TypeOK

LEMMA QueuedCallOnceInv ==
    ASSUME NoReentry, IInv, OnceInv, QueuedCall
    PROVE  OnceInv'
<1> DEFINE tl == IF Len(queue) > 1 THEN queue[2].seq ELSE 0
           f == [Frame EXCEPT !.called = TRUE, !.node = queue[1].seq, !.tail = tl]
           t == Tail(stack)
<1>1. /\ queue # <<>> /\ Len(queue) \in Nat \ {0} /\ Head(queue) = queue[1]
      /\ stack # <<>> /\ Frame.op = "queued" /\ ~Frame.called
  BY HeadReady
<1>2. Frame \in QueuedFrame /\ t \in Seq(Activation) /\ Quiet(t)
  BY <1>1, TailSettled, TailQuiet
     DEF IInv, TypeOK, StackOK, Activation, BundleFrame, QueuedFrame, OnceInv
<1>3. f.op = "queued" /\ f.called /\ f.node = queue[1].seq /\ f.tail = tl
  BY <1>1, <1>2 DEF QueuedFrame
<1>4. /\ dispatch_method(queue[1].msg, <<f>> \o t)
      /\ fired' = fired \cup {queue[1].seq} /\ pc' = pc /\ pc = "app"
      /\ queue' = queue /\ taken' = taken
  BY <1>1 DEF QueuedCall, Running, loop
<1>5. queue[1].msg \in Queueable /\ queue[1].seq \in 1 .. taken
  BY <1>1 DEF OnceInv, SeqTaken
<1> HIDE DEF f, tl, t
<1>6. stack' = <<f>> \o t
  BY <1>4, <1>5, QueuedMethodReturns
<1>7. /\ Len(stack') = Len(t) + 1 /\ stack'[1] = f /\ Head(stack') = f /\ stack' # <<>>
      /\ \A k \in 2 .. Len(stack') : k - 1 \in 1 .. Len(t) /\ stack'[k] = t[k - 1]
  BY <1>2, <1>6
<1>8. Calling' /\ Frame' = f
  BY <1>3, <1>7 DEF Calling, Frame
<1>9. QueuedInnermost'
  BY <1>2, <1>7 DEF QueuedInnermost, Quiet
<1>10. CallsHead'
  BY <1>1, <1>3, <1>4, <1>8 DEF CallsHead, tl
<1>11. FiredIsCalled'
  <2> SUFFICES ASSUME NEW i \in 1 .. Len(queue)
               PROVE  queue[i].seq \in fired \cup {queue[1].seq} <=> i = 1
    BY <1>4, <1>8 DEF FiredIsCalled
  <2>1. queue[i].seq \notin fired
    BY <1>1 DEF OnceInv, FiredIsCalled, Calling
  <2>2. queue[i].seq = queue[1].seq <=> i = 1
    BY <1>1 DEF OnceInv, SeqUnique
  <2> QED
    BY <2>1, <2>2
<1>12. /\ SeqUnique' /\ SeqTaken' /\ PollOnEmpty' /\ fired' \subseteq 1 .. taken'
       /\ NothingLost'
       /\ \A i \in 1 .. Len(queue') : queue'[i].msg \in Queueable
  BY <1>4, <1>5 DEF OnceInv, SeqUnique, SeqTaken, PollOnEmpty, NothingLost
<1> QED
  BY <1>9, <1>10, <1>11, <1>12 DEF OnceInv

\* The tailhead read before the call is the rest of the queue after it.
LEMMA TailheadIsTail ==
    ASSUME IInv, OnceInv, Calling
    PROVE  /\ queue # <<>> /\ Len(queue) \in Nat \ {0}
           /\ ListFrom(queue, Frame.tail) \in Seq(Entry)
           /\ Len(ListFrom(queue, Frame.tail)) = Len(queue) - 1
           /\ \A i \in 1 .. Len(queue) - 1 : ListFrom(queue, Frame.tail)[i] = queue[i + 1]
<1> DEFINE n == Frame.tail
           l == ListFrom(queue, n)
<1>1. /\ queue # <<>> /\ queue \in Seq(Entry) /\ Len(queue) \in Nat \ {0}
      /\ n = IF Len(queue) > 1 THEN queue[2].seq ELSE 0
  BY DEF OnceInv, CallsHead, IInv, TypeOK
<1>2. l = IF \E i \in 1 .. Len(queue) : queue[i].seq = n
          THEN SubSeq(queue, CHOOSE i \in 1 .. Len(queue) : queue[i].seq = n, Len(queue))
          ELSE <<>>
  BY DEF ListFrom
<1> HIDE DEF n, l
<1>3. CASE Len(queue) > 1
  <2>1. 2 \in 1 .. Len(queue) /\ queue[2].seq = n
    BY <1>1, <1>3
  <2>2. \A i \in 1 .. Len(queue) : queue[i].seq = n => i = 2
    BY <2>1 DEF OnceInv, SeqUnique
  <2>3. (CHOOSE i \in 1 .. Len(queue) : queue[i].seq = n) = 2
    BY ONLY <2>1, <2>2
  <2>4. l = SubSeq(queue, 2, Len(queue))
    BY <1>2, <2>1, <2>3
  <2>5. l \in Seq(Entry) /\ Len(l) = Len(queue) - 1
        /\ \A i \in 1 .. Len(queue) - 1 : l[i] = queue[i + 1]
    BY ONLY <1>1, <1>3, <2>4
  <2> QED
    BY <1>1, <2>5 DEF n, l
<1>4. CASE ~(Len(queue) > 1)
  <2>1. n = 0 /\ Len(queue) = 1
    BY <1>1, <1>4
  <2>2. \A i \in 1 .. Len(queue) : queue[i].seq # n
    BY <2>1 DEF OnceInv, SeqTaken
  <2>3. l = <<>>
    BY <1>2, <2>2
  <2>4. l \in Seq(Entry) /\ Len(l) = 0 /\ 1 .. Len(queue) - 1 = {}
    BY <2>1, <2>3
  <2> QED
    BY <1>1, <2>1, <2>4 DEF n, l
<1> QED
  BY <1>3, <1>4

LEMMA QueuedReturnOnceInv ==
    ASSUME IInv, OnceInv, QueuedReturn
    PROVE  OnceInv' /\ ~Calling' /\ Calling
<1>1. stack # <<>> /\ Frame.op = "queued" /\ Frame.called /\ Calling /\ pc = "app"
  BY DEF QueuedReturn, Running, Calling
<1>2. /\ queue # <<>> /\ Len(queue) \in Nat \ {0}
      /\ queue' \in Seq(Entry) /\ Len(queue') = Len(queue) - 1
      /\ \A i \in 1 .. Len(queue) - 1 : queue'[i] = queue[i + 1]
  BY <1>1, TailheadIsTail DEF QueuedReturn
<1>3. pc' = pc /\ fired' = fired /\ taken' = taken
  BY DEF QueuedReturn, loop, history
<1>4. Frame \in QueuedFrame /\ Tail(stack) \in Seq(Activation) /\ Quiet(Tail(stack))
  BY <1>1, TailSettled, TailQuiet
     DEF IInv, TypeOK, StackOK, Activation, BundleFrame, QueuedFrame, OnceInv
<1>5. Pushed(Tail(stack))
  <2>1. /\ [Frame EXCEPT !.called = FALSE].called = FALSE
        /\ [Frame EXCEPT !.called = FALSE].op = "queued"
    BY <1>4 DEF QueuedFrame
  <2> QED
    BY <2>1 DEF QueuedReturn, Pushed, Fresh
<1>6. ~Calling' /\ QueuedInnermost'
  BY <1>4, <1>5, PushedQuiet
<1>7. \A i \in 1 .. Len(queue') : /\ i + 1 \in 1 .. Len(queue) /\ i + 1 # 1
                                  /\ queue'[i] = queue[i + 1]
  BY <1>2
<1>8. FiredIsCalled'
  BY <1>3, <1>6, <1>7 DEF OnceInv, FiredIsCalled
<1>9. SeqUnique'
  <2> SUFFICES ASSUME NEW i \in 1 .. Len(queue'), NEW j \in 1 .. Len(queue'),
                      queue'[i].seq = queue'[j].seq
               PROVE  i = j
    BY DEF SeqUnique
  <2>1. i + 1 = j + 1
    BY <1>7 DEF OnceInv, SeqUnique
  <2> QED
    BY <1>2, <2>1
<1>10. NothingLost'
  <2> SUFFICES ASSUME NEW n \in 1 .. taken, n \notin fired
               PROVE  \E k \in 1 .. Len(queue') : queue'[k].seq = n
    BY <1>3 DEF NothingLost
  <2>1. PICK i \in 1 .. Len(queue) : queue[i].seq = n
    BY DEF OnceInv, NothingLost
  <2>2. i # 1
    BY <1>1, <2>1 DEF OnceInv, FiredIsCalled
  <2>3. i - 1 \in 1 .. Len(queue') /\ queue'[i - 1] = queue[i]
    BY <1>2, <2>2
  <2> QED
    BY <2>1, <2>3
<1>11. SeqTaken' /\ \A i \in 1 .. Len(queue') : queue'[i].msg \in Queueable
  BY <1>3, <1>7 DEF OnceInv, SeqTaken
<1>12. PollOnEmpty' /\ fired' \subseteq 1 .. taken' /\ CallsHead'
  BY <1>1, <1>3, <1>6 DEF OnceInv, PollOnEmpty, CallsHead
<1> QED
  BY <1>1, <1>6, <1>8, <1>9, <1>10, <1>11, <1>12 DEF OnceInv

LEMMA NextOnceInv == NoReentry /\ IInv /\ OnceInv /\ [Next]_vars => OnceInv'
<1> SUFFICES ASSUME NoReentry, IInv, OnceInv, [Next]_vars PROVE OnceInv'
  OBVIOUS
<1> USE DEF net, loop, history
<1>1. CASE lo_server_recv \/ WaitReady \/ PollTimeout
  BY <1>1, RecvOnceInv DEF lo_server_recv, Idle, WaitReady, PollTimeout, OnceInv, PollOnEmpty
<1>2. CASE UNCHANGED <<queue, stack, fired, taken>> /\ (stack = <<>> \/ pc' = pc \/ pc' = "undefined")
  <2>1. Calling' <=> Calling
    BY <1>2 DEF Calling, Frame
  <2>2. QueueOnce'
    BY <1>2, <2>1, QueueOnceSame DEF OnceInv, QueueOnce
  <2> QED
    BY <1>2, <2>1, <2>2 DEF OnceInv, QueueOnce, QueuedInnermost, CallsHead, PollOnEmpty, Frame
<1>3. CASE lo_server_recv_noblock \/ WaitTimeout \/ PollError \/ DoubleFree \/ Arrive \/ Tick
           \/ UNCHANGED vars
  <2>1. UNCHANGED <<queue, stack, fired, taken>>
    BY <1>3 DEF lo_server_recv_noblock, WaitTimeout, PollError, DoubleFree, Arrive, Tick, vars
  <2>2. stack = <<>> \/ pc' = pc \/ pc' = "undefined"
    BY <1>3 DEF lo_server_recv_noblock, Idle, WaitTimeout, PollError, DoubleFree, Arrive, Tick,
                vars, OnceInv, PollOnEmpty
  <2> QED
    BY <1>2, <2>1, <2>2
<1>4. CASE PollReady \/ lo_server_dispatch_data \/ AppEnableQueue
  <2>1. stack = <<>>
    BY <1>4 DEF PollReady, lo_server_dispatch_data, AppEnableQueue, Idle, OnceInv, PollOnEmpty
  <2>2. Pushed(<<>>) /\ pc' = "app" /\ UNCHANGED <<queue, fired, taken>>
    BY <1>4, DispatchDataPushes, EnableQueuePushes
       DEF PollReady, lo_server_dispatch_data, AppEnableQueue, Idle
  <2> QED
    BY <2>1, <2>2, EmptyQuiet, CallOnceInv DEF Calling
<1>5. CASE NestedBundle \/ DispatchElement
  <2>1. Pushed(Advanced) /\ pc' = "app" /\ UNCHANGED <<queue, fired, taken>>
        /\ stack # <<>> /\ Frame.op = "bundle"
    BY <1>5, DispatchDataPushes, DispatchMethodPushes
       DEF NestedBundle, DispatchElement, AtElement, Running
  <2>2. ~Calling /\ QueuedInnermost
    BY <2>1 DEF Calling, OnceInv
  <2> QED
    BY <2>1, <2>2, AdvancedQuiet, CallOnceInv
<1>6. CASE QueueElement
  <2>1. /\ stack' = Advanced /\ pc' = "app" /\ stack # <<>> /\ Frame.op = "bundle"
        /\ fired' = fired /\ queue_data(ThisElement, Timetag[Frame.b])
        /\ AtElement /\ ThisElement \in Msg /\ ~DispatchNow
    BY <1>6 DEF QueueElement, AtElement, Running
  <2>2. ~Calling /\ ~Calling' /\ QueuedInnermost'
    BY <2>1, AdvancedQuiet, PushedQuiet DEF Calling, OnceInv, Pushed
  <2>3. Frame.b \in Bundle /\ Frame.next \in Nat \ {0}
    BY <2>1, AdvancedProperties DEF BundleFrame
  <2>4. Timetag[Frame.b] \in Nat /\ ThisElement \in Queueable
    <3>1. Timetag[Frame.b] # Immediate /\ Timetag[Frame.b] \in Nat
      BY <2>1, <2>3, MessageAssumption DEF DispatchNow
    <3>2. Elements[Frame.b] \in Seq(Element)
      BY <2>3, MessageAssumption
    <3>3. Frame.next \in DOMAIN Elements[Frame.b]
      BY <2>1, <2>3, <3>2 DEF AtElement
    <3> QED
      BY <2>1, <2>3, <3>1, <3>3 DEF Queueable, ThisElement
  <2>5. QueueOnce'
    BY <2>1, <2>2, <2>4, QueueDataOnce DEF OnceInv, QueueOnce
  <2> QED
    BY <2>1, <2>2, <2>5 DEF OnceInv, QueueOnce, CallsHead, PollOnEmpty
<1>7. CASE AbortBundle \/ EndBundle
  <2>1. /\ stack # <<>> /\ Frame.op = "bundle" /\ stack' = Tail(stack) /\ pc' = "app"
        /\ UNCHANGED <<queue, fired, taken>>
    BY <1>7 DEF AbortBundle, EndBundle, AtElement, Running
  <2> QED
    BY <2>1, TailQuiet, CallOnceInv DEF Calling, Pushed, OnceInv
<1>8. CASE QueuedCall
  BY <1>8, QueuedCallOnceInv
<1>9. CASE QueuedReturn
  BY <1>9, QueuedReturnOnceInv
<1> QED
  BY <1>1, <1>3, <1>4, <1>5, <1>6, <1>7, <1>8, <1>9 DEF Next, App, Application, Poll, Run

\* As long as no method of a queued message flushes the queue or dispatches a
\* bundle, every event queue_data ever took has been dispatched or is still in the
\* queue, and none is dispatched twice (queue_data, dispatch_queued).
THEOREM DispatchedOnce == ASSUME NoReentry PROVE Spec => []ExactlyOnce
<1>1. IInv /\ OnceInv => ExactlyOnce
  <2> SUFFICES ASSUME IInv, OnceInv PROVE NothingRepeated
    BY DEF ExactlyOnce, OnceInv
  <2> SUFFICES ASSUME NEW i \in 1 .. Len(queue), queue[i].seq \in fired
               PROVE  \E k \in 1 .. Len(stack) : /\ stack[k].op = "queued" /\ stack[k].called
                                                 /\ stack[k].node = queue[i].seq
    BY DEF NothingRepeated
  <2>1. i = 1 /\ Calling
    BY DEF OnceInv, FiredIsCalled
  <2>2. stack # <<>> /\ stack \in Seq(Activation)
    BY <2>1 DEF Calling, IInv, TypeOK
  <2>3. 1 \in 1 .. Len(stack) /\ Frame = stack[1]
    BY <2>2 DEF Frame
  <2>4. Frame.node = queue[1].seq /\ Frame.op = "queued" /\ Frame.called
    BY <2>1 DEF OnceInv, CallsHead, Calling
  <2> QED
    BY <2>1, <2>3, <2>4
<1>2. IInv /\ OnceInv /\ [Next]_vars => OnceInv'
  BY NextOnceInv
<1> QED
  BY <1>1, <1>2, InitOnceInv, SpecIInv, PTL DEF Spec

--------------------------------------------------------------------------------
(***************************************************************************)
(* The queue implements LoScheduler.                                       *)
(***************************************************************************)
\* What the refinement mapping takes for pending and flushing.
Event(i) == [ts |-> queue[i].ts, seq |-> queue[i].seq]
Pending == {Event(i) : i \in {k \in 1 .. Len(queue) : queue[k].seq \notin fired}}
Flushing == \E k \in 1 .. Len(stack) : stack[k].op = "queued" /\ stack[k].all

\* One step of LoScheduler, or none.
SStep == [Scheduler!SNext]_(Scheduler!svars)

LEMMA PendingUncalled ==
    ASSUME FiredIsCalled
    PROVE  /\ ~Calling => Pending = {Event(i) : i \in 1 .. Len(queue)}
           /\ Calling => Pending = {Event(i) : i \in {k \in 1 .. Len(queue) : k # 1}}
BY DEF FiredIsCalled, Pending

\* Starting or ending a flush, or nothing at all.
LEMMA FlushStep ==
    ASSUME Pending' = Pending, clock' = clock, taken' = taken
    PROVE  SStep
<1>1. Flushing' \in BOOLEAN
  BY DEF Flushing
<1>2. Scheduler!Flush
  BY <1>1 DEF Scheduler!Flush, Pending, Flushing, Event
<1> QED
  BY <1>2 DEF SStep, Scheduler!SNext

LEMMA TickStep ==
    ASSUME Tick
    PROVE  SStep
<1>1. Scheduler!STick
  BY DEF Tick, loop, history, Scheduler!STick
<1> QED
  BY <1>1 DEF SStep, Scheduler!SNext

\* queue_data adds one entry and keeps the others.
LEMMA QueueDataEntries ==
    ASSUME IInv, NEW m \in Msg, NEW ts \in Nat, queue_data(m, ts)
    PROVE  /\ \A i \in 1 .. Len(queue) : \E k \in 1 .. Len(queue') : queue'[k] = queue[i]
           /\ \A k \in 1 .. Len(queue') :
                 \/ queue'[k] = [msg |-> m, ts |-> ts, seq |-> taken + 1]
                 \/ \E i \in 1 .. Len(queue) : queue'[k] = queue[i]
           /\ \E k \in 1 .. Len(queue') : queue'[k] = [msg |-> m, ts |-> ts, seq |-> taken + 1]
<1> DEFINE e == [msg |-> m, ts |-> ts, seq |-> taken + 1]
           p == InsertPoint(queue, ts)
<1>1. e \in Entry /\ queue \in Seq(Entry) /\ taken \in Nat
  BY DEF IInv, TypeOK, Entry
<1>2. p \in 1 .. Len(queue) + 1
  BY <1>1, InsertPointProperties
<1>3. queue' = InsertAt(queue, p, e)
  BY DEF queue_data
<1> HIDE DEF e, p
<1>4. /\ queue' \in Seq(Entry) /\ Len(queue') = Len(queue) + 1
      /\ \A i \in 1 .. Len(queue) + 1 : queue'[i] =
            IF i < p THEN queue[i] ELSE IF i = p THEN e ELSE queue[i - 1]
  <2>1. IsInserted(queue', Entry, queue, p, e)
    BY <1>1, <1>2, <1>3, InsertAtProperties
  <2> QED
    BY <2>1, Zenon DEF IsInserted
<1>5. ASSUME NEW i \in 1 .. Len(queue)
      PROVE  \E k \in 1 .. Len(queue') : queue'[k] = queue[i]
  <2>1. CASE i < p
    <3>1. i \in 1 .. Len(queue') /\ queue'[i] = queue[i]
      BY <1>1, <1>4, <2>1
    <3> QED
      BY <3>1
  <2>2. CASE i >= p
    <3>1. i + 1 \in 1 .. Len(queue') /\ queue'[i + 1] = queue[i]
      BY <1>1, <1>2, <1>4, <2>2
    <3> QED
      BY <3>1
  <2> QED
    BY <1>1, <1>2, <2>1, <2>2
<1>6. ASSUME NEW k \in 1 .. Len(queue'), k # p
      PROVE  \E i \in 1 .. Len(queue) : queue'[k] = queue[i]
  <2>1. CASE k < p
    BY <1>1, <1>2, <1>4, <2>1
  <2>2. CASE k > p
    <3>1. k - 1 \in 1 .. Len(queue) /\ queue'[k] = queue[k - 1]
      BY <1>1, <1>2, <1>4, <2>2
    <3> QED
      BY <3>1
  <2> QED
    BY <1>1, <1>2, <1>6, <2>1, <2>2
<1>7. p \in 1 .. Len(queue') /\ queue'[p] = e
  BY <1>1, <1>2, <1>4
<1>8. \A k \in 1 .. Len(queue') : \/ queue'[k] = e
                                  \/ \E i \in 1 .. Len(queue) : queue'[k] = queue[i]
  BY <1>6, <1>7
<1> QED
  BY <1>5, <1>7, <1>8 DEF e

\* Between the elements of a bundle no flush is running.
LEMMA QuietNotFlushing ==
    ASSUME Quiet(stack)
    PROVE  Flushing = FALSE
BY DEF Quiet, Flushing

LEMMA AcceptStep ==
    ASSUME IInv, OnceInv, OnceInv', QueueElement
    PROVE  SStep
<1>1. /\ stack' = Advanced /\ stack # <<>> /\ Frame.op = "bundle"
      /\ fired' = fired /\ clock' = clock
      /\ queue_data(ThisElement, Timetag[Frame.b]) /\ taken' = taken + 1
      /\ ThisElement \in Msg
  BY DEF QueueElement, AtElement, Running, net, queue_data
<1>2. Quiet(stack')
  BY <1>1, AdvancedQuiet DEF OnceInv
<1>3. Quiet(stack)
  BY <1>1, AdvancedProperties DEF OnceInv, QueuedInnermost, Quiet
<1>4. Flushing = FALSE /\ Flushing' = FALSE
  BY <1>2, <1>3, QuietNotFlushing DEF Flushing, Quiet
<1>5. ~Calling
  BY <1>1 DEF Calling
<1>6. ~Calling'
  BY <1>1, <1>2, AdvancedQuiet, PushedQuiet DEF Pushed, OnceInv
<1>7. /\ Pending = {Event(i) : i \in 1 .. Len(queue)}
      /\ Pending' = {Event(i)' : i \in 1 .. Len(queue')}
  BY <1>5, <1>6, PendingUncalled DEF OnceInv, FiredIsCalled, Pending
<1> DEFINE ts == Timetag[Frame.b]
           e == [ts |-> ts, seq |-> taken + 1]
<1>8. ts \in Nat
  BY <1>1, AdvancedProperties, MessageAssumption DEF BundleFrame
<1>9. Pending' = Pending \cup {e}
  <2> DEFINE x == [msg |-> ThisElement, ts |-> ts, seq |-> taken + 1]
  <2>1. x.ts = ts /\ x.seq = taken + 1
    OBVIOUS
  <2>2. /\ \A i \in 1 .. Len(queue) : \E k \in 1 .. Len(queue') : queue'[k] = queue[i]
        /\ \A k \in 1 .. Len(queue') : \/ queue'[k] = x
                                       \/ \E i \in 1 .. Len(queue) : queue'[k] = queue[i]
        /\ \E k \in 1 .. Len(queue') : queue'[k] = x
    BY <1>1, <1>8, QueueDataEntries
  <2> HIDE DEF x, ts
  <2> QED
    BY <1>7, <2>1, <2>2 DEF Event
<1>10. Scheduler!Accept
  <2>1. e \in Pending' /\ e.ts \in Nat /\ e.seq = taken + 1
    BY <1>8, <1>9
  <2> HIDE DEF e
  <2> QED
    BY <1>1, <1>4, <1>9, <2>1 DEF Scheduler!Accept, Pending, Event, Flushing
<1> QED
  BY <1>10 DEF SStep, Scheduler!SNext

\* The event whose method is called is the earliest one, and due or flushed.
LEMMA FireStep ==
    ASSUME NoReentry, IInv, OnceInv, OnceInv', QueuedCall
    PROVE  SStep
<1> DEFINE tl == IF Len(queue) > 1 THEN queue[2].seq ELSE 0
           f == [Frame EXCEPT !.called = TRUE, !.node = queue[1].seq, !.tail = tl]
           t == Tail(stack)
           e == Event(1)
<1>1. /\ queue # <<>> /\ Len(queue) \in Nat \ {0} /\ Head(queue) = queue[1]
      /\ queue[1] \in Entry
      /\ stack # <<>> /\ Frame.op = "queued" /\ ~Frame.called
  BY HeadReady
<1>2. Frame \in QueuedFrame /\ t \in Seq(Activation) /\ Quiet(t) /\ stack = <<Frame>> \o t
  <2>1. Frame \in QueuedFrame /\ t \in Seq(Activation) /\ Quiet(t)
    BY <1>1, TailSettled, TailQuiet
       DEF IInv, TypeOK, StackOK, Activation, BundleFrame, QueuedFrame, OnceInv
  <2>2. stack = <<Frame>> \o t
    BY <1>1 DEF IInv, TypeOK, Frame
  <2> QED
    BY <2>1, <2>2
<1>3. f.op = "queued" /\ f.called /\ f.all = Frame.all /\ f \in QueuedFrame
  <2>1. queue[1].seq \in Nat
    BY <1>1 DEF Entry
  <2>2. tl \in Nat
    <3>1. Len(queue) > 1 => queue[2] \in Entry
      BY DEF IInv, TypeOK
    <3> QED
      BY <3>1 DEF Entry
  <2> HIDE DEF tl
  <2> QED
    BY <1>1, <1>2, <2>1, <2>2 DEF QueuedFrame
<1>4. /\ dispatch_method(queue[1].msg, <<f>> \o t)
      /\ queue' = queue /\ taken' = taken /\ clock' = clock
  BY <1>1 DEF QueuedCall, net
<1>5. queue[1].msg \in Queueable
  BY <1>1 DEF OnceInv
<1>6. e.ts = queue[1].ts /\ e.seq = queue[1].seq
  BY DEF Event
<1>7. Frame.all \/ e.ts <= clock + Early
  <2>1. Due(Frame) /\ ReadyToCall(Frame)
    BY <1>1, TailSettled DEF IInv, TypeOK, StackOK
  <2>2. Frame.disp \in Nat /\ e.ts \in Nat /\ clock + Early \in Nat
    BY <1>1, <1>2, <1>6, TimeAssumption DEF QueuedFrame, Entry, IInv, TypeOK
  <2> QED
    BY <1>1, <1>6, <2>1, <2>2 DEF Due, ReadyToCall
<1> HIDE DEF f, t, tl, e
<1>8. stack' = <<f>> \o t
  BY <1>4, <1>5, QueuedMethodReturns
<1>9. Flushing = Frame.all /\ Flushing' = Frame.all
  <2>1. ASSUME NEW g \in QueuedFrame, g.op = "queued", NEW s, s = <<g>> \o t
        PROVE  g.all <=> \E k \in 1 .. Len(s) : s[k].op = "queued" /\ s[k].all
    <3>1. /\ Len(s) = Len(t) + 1 /\ s[1] = g /\ Len(t) \in Nat
          /\ \A k \in 2 .. Len(s) : k - 1 \in 1 .. Len(t) /\ s[k] = t[k - 1]
      BY <1>2, <2>1
    <3>2. \A k \in 1 .. Len(s) : s[k].op = "queued" => k = 1
      BY <1>2, <3>1 DEF Quiet
    <3> QED
      BY <2>1, <3>1, <3>2
  <2>2. (f.all <=> Flushing') /\ (Frame.all <=> Flushing)
    BY <1>1, <1>2, <1>3, <1>8, <2>1 DEF Flushing
  <2>3. Frame.all \in BOOLEAN /\ Flushing \in BOOLEAN /\ Flushing' \in BOOLEAN
    BY <1>2 DEF QueuedFrame, Flushing
  <2> QED
    BY <1>3, <2>2, <2>3
<1>10. Calling' /\ ~Calling
  <2>1. stack' # <<>> /\ Head(stack') = f
    BY <1>2, <1>8
  <2> QED
    BY <1>1, <1>3, <2>1 DEF Calling, Frame
<1>11. /\ Pending = {Event(i) : i \in 1 .. Len(queue)}
       /\ Pending' = {Event(i) : i \in {k \in 1 .. Len(queue) : k # 1}}
  BY <1>4, <1>10, PendingUncalled DEF OnceInv, FiredIsCalled, Pending, Event
<1>12. \A i \in 1 .. Len(queue) : Event(i) = e <=> i = 1
  BY <1>1, <1>6 DEF OnceInv, SeqUnique, Event, e
<1>13. e \in Pending /\ Pending' = Pending \ {e}
  BY <1>1, <1>11, <1>12
<1>14. Scheduler!Earliest(e, Pending)
  <2> SUFFICES ASSUME NEW i \in 1 .. Len(queue)
               PROVE  e.ts < Event(i).ts \/ (e.ts = Event(i).ts /\ e.seq <= Event(i).seq)
    BY <1>11, <1>13 DEF Scheduler!Earliest
  <2>1. CASE i = 1
    BY <1>1, <1>6, <2>1 DEF Event, Entry
  <2>2. CASE i # 1
    <3>1. Before(queue[1], queue[i])
      BY <1>1, <2>2 DEF IInv, QueueOrdered
    <3>2. queue[i] \in Entry
      BY DEF IInv, TypeOK
    <3> QED
      BY <1>1, <1>6, <3>1, <3>2 DEF Before, Event, Entry
  <2> QED
    BY <2>1, <2>2
<1>15. Scheduler!Fire
  BY <1>4, <1>7, <1>9, <1>13, <1>14
     DEF Scheduler!Fire, Scheduler!Earliest, Pending, Event, Flushing
<1> QED
  BY <1>15 DEF SStep, Scheduler!SNext

\* Freeing the node of the event that was dispatched takes nothing pending away.
LEMMA ReturnStep ==
    ASSUME IInv, OnceInv, OnceInv', QueuedReturn
    PROVE  SStep
<1>1. Calling /\ ~Calling'
  BY QueuedReturnOnceInv
<1>2. /\ Len(queue) \in Nat \ {0} /\ Len(queue') = Len(queue) - 1
      /\ \A i \in 1 .. Len(queue) - 1 : queue'[i] = queue[i + 1]
  BY <1>1, TailheadIsTail DEF QueuedReturn
<1>3. clock' = clock /\ taken' = taken
  BY DEF QueuedReturn, net, history
<1>4. /\ Pending = {Event(i) : i \in {k \in 1 .. Len(queue) : k # 1}}
      /\ Pending' = {Event(i)' : i \in 1 .. Len(queue')}
  BY <1>1, PendingUncalled DEF OnceInv, FiredIsCalled, Pending
<1>5. Pending' \subseteq Pending
  <2> SUFFICES ASSUME NEW i \in 1 .. Len(queue') PROVE Event(i)' \in Pending
    BY <1>4
  <2>1. i + 1 \in 1 .. Len(queue) /\ i + 1 # 1 /\ Event(i)' = Event(i + 1)
    BY <1>2 DEF Event
  <2> QED
    BY <1>4, <2>1
<1>6. Pending \subseteq Pending'
  <2> SUFFICES ASSUME NEW i \in 1 .. Len(queue), i # 1 PROVE Event(i) \in Pending'
    BY <1>4
  <2>1. i - 1 \in 1 .. Len(queue') /\ queue'[i - 1] = queue[i]
    BY <1>2
  <2>2. Event(i) = [ts |-> queue'[i - 1].ts, seq |-> queue'[i - 1].seq]
    BY <2>1 DEF Event
  <2> QED
    BY <1>4, <2>1, <2>2 DEF Event
<1> QED
  BY <1>3, <1>5, <1>6, FlushStep

LEMMA NextSStep ==
    ASSUME NoReentry, IInv, OnceInv, OnceInv', [Next]_vars
    PROVE  SStep
<1>1. CASE UNCHANGED <<clock, queue, fired, taken>>
  BY <1>1, FlushStep DEF Pending, Event
<1>2. CASE App \/ Poll \/ NestedBundle \/ DispatchElement \/ AbortBundle \/ EndBundle \/ DoubleFree
           \/ Arrive \/ UNCHANGED vars
  BY <1>1, <1>2 DEF App, Application, Poll, lo_server_recv, lo_server_recv_noblock, WaitReady,
     WaitTimeout, PollError, PollTimeout, PollReady, Recv, lo_server_dispatch_data,
     AppEnableQueue, NestedBundle, DispatchElement, AbortBundle, EndBundle, DoubleFree, Arrive,
     vars, net, history
<1> QED
  BY <1>2, TickStep, AcceptStep, FireStep, ReturnStep DEF Next, Run

\* Under the same condition the queue, as the receive loop, the bundles and the
\* handlers use it, implements the abstract scheduler: earliest first, none early
\* unless flushing, none lost and none twice.
THEOREM ImplementsScheduler == ASSUME NoReentry PROVE Spec => RefinesScheduler
<1>1. Init => Scheduler!SInit
  BY DEF Init, Scheduler!SInit
<1>2. IInv /\ OnceInv /\ [Next]_vars => OnceInv'
  BY NextOnceInv
<1>3. IInv /\ OnceInv /\ OnceInv' /\ [Next]_vars => SStep
  BY NextSStep
<1> QED
  BY <1>1, <1>2, <1>3, InitOnceInv, SpecIInv, PTL
     DEF Spec, RefinesScheduler, Scheduler!SSpec, SStep

--------------------------------------------------------------------------------
(***************************************************************************)
(* The order within a bundle.                                              *)
(***************************************************************************)
\* Each activation of s, of a flat bundle, has all it is past in R.
AllRan(s, R) ==
    \A k \in 1 .. Len(s) : s[k].op = "bundle" /\ s[k].b \in Flat =>
        \A i \in DOMAIN Elements[s[k].b] :
            i < s[k].next /\ Elements[s[k].b][i] \in Msg => Elements[s[k].b][i] \in R

LEMMA FlatElements ==
    ASSUME NEW b \in Flat
    PROVE  /\ b \in Bundle /\ Elements[b] \in Seq(Element) /\ Len(Elements[b]) \in Nat
           /\ DOMAIN Elements[b] = 1 .. Len(Elements[b])
           /\ \A i \in DOMAIN Elements[b] : Elements[b][i] \notin Bundle
BY MessageAssumption DEF Flat

\* After a call on behalf of such activations the frames are in order.
LEMMA PushedInOrder ==
    ASSUME NEW callers \in Seq(Activation), AllRan(callers, ran'), Pushed(callers)
    PROVE  FramesInOrder'
<1> SUFFICES ASSUME NEW k \in 1 .. Len(stack'), stack'[k].op = "bundle", stack'[k].b \in Flat,
                    NEW i \in DOMAIN Elements[stack'[k].b], i < stack'[k].next,
                    Elements[stack'[k].b][i] \in Msg
             PROVE  Elements[stack'[k].b][i] \in ran'
  BY DEF FramesInOrder
<1>1. CASE stack' = callers
  BY <1>1 DEF AllRan
<1>2. CASE \E f : Fresh(f) /\ stack' = <<f>> \o callers
  <2>1. PICK f : Fresh(f) /\ stack' = <<f>> \o callers
    BY <1>2
  <2>2. /\ Len(stack') = Len(callers) + 1 /\ stack'[1] = f
        /\ \A j \in 2 .. Len(stack') : j - 1 \in 1 .. Len(callers) /\ stack'[j] = callers[j - 1]
    BY <2>1
  <2>3. k # 1
    <3>1. i \in Nat \ {0}
      BY FlatElements
    <3> QED
      BY <2>1, <2>2, <3>1 DEF Fresh
  <2>4. k - 1 \in 1 .. Len(callers) /\ stack'[k] = callers[k - 1]
    BY <2>2, <2>3
  <2> QED
    BY <2>4 DEF AllRan
<1> QED
  BY <1>1, <1>2 DEF Pushed

\* The activations below the innermost are such.
LEMMA TailAllRan ==
    ASSUME IInv, FramesInOrder, stack # <<>>, NEW R, ran \subseteq R
    PROVE  AllRan(Tail(stack), R)
<1>1. /\ Len(Tail(stack)) = Len(stack) - 1 /\ Len(stack) \in Nat
      /\ \A k \in 1 .. Len(stack) - 1 : Tail(stack)[k] = stack[k + 1]
  BY PopProperties DEF IInv, TypeOK
<1> SUFFICES ASSUME NEW k \in 1 .. Len(Tail(stack)), Tail(stack)[k].op = "bundle",
                    Tail(stack)[k].b \in Flat,
                    NEW i \in DOMAIN Elements[Tail(stack)[k].b], i < Tail(stack)[k].next,
                    Elements[Tail(stack)[k].b][i] \in Msg
             PROVE  Elements[Tail(stack)[k].b][i] \in ran
  BY DEF AllRan
<1>2. k + 1 \in 1 .. Len(stack) /\ k + 1 # 1 /\ Tail(stack)[k] = stack[k + 1]
  BY <1>1
<1> QED
  BY <1>2 DEF FramesInOrder

\* And so is the innermost, moved on, when it does not queue what it is at.
LEMMA AdvancedAllRan ==
    ASSUME IInv, FramesInOrder, AtElement, NEW R, ran \subseteq R,
           Frame.b \in Flat => /\ ThisElement \in Msg => DispatchNow /\ ThisElement \in R
                               /\ DispatchNow
    PROVE  AllRan(Advanced, R)
<1>1. /\ Len(Advanced) = Len(stack) /\ Len(stack) \in Nat \ {0}
      /\ stack[1] = Frame /\ Frame \in BundleFrame
      /\ Advanced[1] = [Frame EXCEPT !.next = @ + 1]
      /\ \A k \in 2 .. Len(stack) : Advanced[k] = stack[k]
  BY AdvancedProperties DEF AtElement, Running
<1>2. Advanced[1].b = Frame.b /\ Advanced[1].next = Frame.next + 1 /\ Frame.next \in Nat
      /\ Frame.op = "bundle"
  BY <1>1 DEF BundleFrame
<1> HIDE DEF Advanced
<1> SUFFICES ASSUME NEW k \in 1 .. Len(Advanced), Advanced[k].op = "bundle",
                    Advanced[k].b \in Flat,
                    NEW i \in DOMAIN Elements[Advanced[k].b], i < Advanced[k].next,
                    Elements[Advanced[k].b][i] \in Msg
             PROVE  Elements[Advanced[k].b][i] \in R
  BY DEF AllRan
<1>3. CASE k # 1
  BY <1>1, <1>3 DEF FramesInOrder
<1>4. CASE k = 1
  <2>1. Frame.b \in Flat /\ i \in DOMAIN Elements[Frame.b] /\ i < Frame.next + 1 /\ i \in Nat
        /\ Elements[Frame.b][i] \in Msg
    BY <1>2, <1>4, FlatElements
  <2>2. CASE i < Frame.next
    BY <1>1, <1>2, <1>4, <2>1, <2>2 DEF FramesInOrder
  <2>3. CASE i = Frame.next
    BY <1>2, <1>4, <2>1, <2>3 DEF ThisElement
  <2> QED
    BY <1>2, <2>1, <2>2, <2>3
<1> QED
  BY <1>3, <1>4

\* A method called for m: of what is earlier in the bundle of m nothing is left.
LEMMA RanInOrder ==
    ASSUME BundleOrder, NEW m, ran' = ran \cup {m},
           \A b \in Flat : \A j \in DOMAIN Elements[b] : Elements[b][j] = m =>
              \A i \in 1 .. j - 1 : Elements[b][i] \in Msg => Elements[b][i] \in ran
    PROVE  BundleOrder'
BY FlatElements DEF BundleOrder

LEMMA QueueInOrderSame ==
    ASSUME QueueInOrder, queue' = queue, ran \subseteq ran'
    PROVE  QueueInOrder'
BY DEF QueueInOrder, QueuedBefore

LEMMA InitOrderInv == Init => OrderInv
BY FlatElements DEF Init, OrderInv, BundleOrder, QueueInOrder, FramesInOrder, Calling

\* A call keeps the order when what it adds to ran does, the queue is as it was and
\* the callers have called all they are past.
LEMMA CallOrderInv ==
    ASSUME IInv, OrderInv, NEW callers \in Seq(Activation), Quiet(callers), Pushed(callers),
           ran \subseteq ran', AllRan(callers, ran'), BundleOrder', queue' = queue,
           \A i \in 1 .. Len(inbox') : inbox'[i] \in Traffic
    PROVE  OrderInv'
<1>1. ~Calling'
  BY PushedQuiet
<1> QED
  BY <1>1, PushedInOrder, QueueInOrderSame DEF OrderInv

LEMMA EmptyAllRan == ASSUME NEW R PROVE AllRan(<<>>, R)
BY DEF AllRan

\* What dispatch_method and dispatch_data add to ran.
LEMMA DispatchMethodRan ==
    ASSUME NEW m, NEW callers, dispatch_method(m, callers)
    PROVE  ran' = ran \cup {m}
BY DEF dispatch_method

LEMMA DispatchDataRan ==
    ASSUME NEW d, NEW callers, dispatch_data(d, callers)
    PROVE  ran' = ran \/ (d \in Msg /\ ran' = ran \cup {d})
BY DispatchMethodRan DEF dispatch_data

\* A datagram, or what the application dispatches itself, is in no flat bundle.
LEMMA OutsideInOrder ==
    ASSUME OnePlace, BundleOrder, NEW d \in Traffic \cup Local, NEW callers, dispatch_data(d, callers)
    PROVE  BundleOrder' /\ ran \subseteq ran'
<1>1. CASE ran' = ran
  BY <1>1 DEF BundleOrder
<1>2. CASE d \in Msg /\ ran' = ran \cup {d}
  <2>1. \A b \in Flat : \A j \in DOMAIN Elements[b] : Elements[b][j] # d
    BY <1>2 DEF OnePlace
  <2> QED
    BY <1>2, <2>1, RanInOrder
<1> QED
  BY <1>1, <1>2, DispatchDataRan

\* FramesInOrder, of the innermost activation.
LEMMA FrameInOrder ==
    ASSUME IInv, FramesInOrder, stack # <<>>, Frame.op = "bundle", Frame.b \in Flat,
           NEW i \in DOMAIN Elements[Frame.b], i < Frame.next, Elements[Frame.b][i] \in Msg
    PROVE  \/ Elements[Frame.b][i] \in ran
           \/ ~DispatchNow /\ QueuedBefore(queue, Elements[Frame.b][i], Len(queue) + 1)
<1>1. 1 \in 1 .. Len(stack) /\ stack[1] = Frame
  BY AdvancedProperties
<1>2. stack[1].op = "bundle" /\ stack[1].b \in Flat /\ i \in DOMAIN Elements[stack[1].b]
      /\ i < stack[1].next /\ Elements[stack[1].b][i] \in Msg
  BY <1>1
<1>3. \/ Elements[stack[1].b][i] \in ran
      \/ ~DispatchNow /\ QueuedBefore(queue, Elements[stack[1].b][i], Len(queue) + 1)
  BY <1>1, <1>2 DEF FramesInOrder
<1> QED
  BY <1>1, <1>3

\* The running dispatch_data moves on, having queued the message it was at.
LEMMA AdvancedInOrder ==
    ASSUME IInv, FramesInOrder, AtElement, stack' = Advanced, enqueue' = enqueue, ran' = ran,
           \A m : QueuedBefore(queue, m, Len(queue) + 1) => QueuedBefore(queue', m, Len(queue') + 1),
           Frame.b \in Flat /\ ThisElement \in Msg =>
              ~DispatchNow /\ QueuedBefore(queue', ThisElement, Len(queue') + 1)
    PROVE  FramesInOrder'
<1>1. /\ Len(Advanced) = Len(stack) /\ Len(stack) \in Nat \ {0}
      /\ Advanced \in Seq(Activation)
      /\ stack[1] = Frame /\ Frame \in BundleFrame
      /\ Advanced[1] = [Frame EXCEPT !.next = @ + 1]
      /\ \A k \in 2 .. Len(stack) : Advanced[k] = stack[k]
  BY AdvancedProperties DEF AtElement, Running
<1>2. /\ Advanced[1].b = Frame.b /\ Advanced[1].next = Frame.next + 1 /\ Frame.next \in Nat
      /\ Advanced[1].now = Frame.now /\ Frame.op = "bundle"
  BY <1>1 DEF BundleFrame
<1> HIDE DEF Advanced
<1>3. Frame' = Advanced[1]
  BY <1>1 DEF Frame
<1>4. DispatchNow' <=> DispatchNow
  BY <1>2, <1>3 DEF DispatchNow
<1> SUFFICES ASSUME NEW k \in 1 .. Len(Advanced), Advanced[k].op = "bundle",
                    Advanced[k].b \in Flat,
                    NEW i \in DOMAIN Elements[Advanced[k].b], i < Advanced[k].next,
                    Elements[Advanced[k].b][i] \in Msg
             PROVE  \/ Elements[Advanced[k].b][i] \in ran
                    \/ /\ k = 1 /\ ~DispatchNow
                       /\ QueuedBefore(queue', Elements[Advanced[k].b][i], Len(queue') + 1)
  BY <1>4 DEF FramesInOrder
<1>5. CASE k # 1
  BY <1>1, <1>5 DEF FramesInOrder
<1>6. CASE k = 1
  <2>1. Frame.b \in Flat /\ i \in DOMAIN Elements[Frame.b] /\ i < Frame.next + 1 /\ i \in Nat
        /\ Elements[Frame.b][i] \in Msg
    BY <1>2, <1>6, FlatElements
  <2>2. CASE i < Frame.next
    <3>1. \/ Elements[Frame.b][i] \in ran
          \/ ~DispatchNow /\ QueuedBefore(queue, Elements[Frame.b][i], Len(queue) + 1)
      BY <1>2, <2>1, <2>2, FrameInOrder DEF AtElement, Running
    <3> QED
      BY <1>2, <1>6, <3>1
  <2>3. CASE i = Frame.next
    BY <1>2, <1>6, <2>1, <2>3 DEF ThisElement
  <2> QED
    BY <1>2, <2>1, <2>2, <2>3
<1> QED
  BY <1>5, <1>6

\* Where queue_data puts an entry: what it moves back is for later.
LEMMA QueueDataPlaces ==
    ASSUME IInv, NEW m \in Msg, NEW ts \in Nat, queue_data(m, ts)
    PROVE  \E p \in 1 .. Len(queue) + 1 :
              /\ Len(queue') = Len(queue) + 1
              /\ queue'[p] = [msg |-> m, ts |-> ts, seq |-> taken + 1]
              /\ \A n \in 1 .. p - 1 : queue'[n] = queue[n]
              /\ \A n \in p + 1 .. Len(queue) + 1 : queue'[n] = queue[n - 1]
              /\ \A n \in 1 .. Len(queue) : queue[n].ts <= ts => n < p
<1> DEFINE e == [msg |-> m, ts |-> ts, seq |-> taken + 1]
           p == InsertPoint(queue, ts)
<1>1. e \in Entry /\ queue \in Seq(Entry) /\ taken \in Nat
  BY DEF IInv, TypeOK, Entry
<1>2. p \in 1 .. Len(queue) + 1 /\ (p <= Len(queue) => queue[p].ts > ts)
  BY <1>1, InsertPointProperties
<1>3. queue' = InsertAt(queue, p, e)
  BY DEF queue_data
<1> HIDE DEF e, p
<1>4. /\ Len(queue') = Len(queue) + 1
      /\ \A i \in 1 .. Len(queue) + 1 : queue'[i] =
            IF i < p THEN queue[i] ELSE IF i = p THEN e ELSE queue[i - 1]
  <2>1. IsInserted(queue', Entry, queue, p, e)
    BY <1>1, <1>2, <1>3, InsertAtProperties
  <2> QED
    BY <2>1, Zenon DEF IsInserted
<1>5. queue'[p] = e
  BY <1>2, <1>4
<1>6. \A n \in 1 .. p - 1 : queue'[n] = queue[n]
  BY <1>1, <1>2, <1>4
<1>7. \A n \in p + 1 .. Len(queue) + 1 : queue'[n] = queue[n - 1]
  BY <1>1, <1>2, <1>4
<1>8. ASSUME NEW n \in 1 .. Len(queue), queue[n].ts <= ts PROVE n < p
  <2> p \in Nat /\ n \in Nat /\ Len(queue) \in Nat
    BY <1>1, <1>2
  <2>1. CASE n = p
    <3>1. queue[p].ts > ts /\ queue[p] \in Entry
      BY <1>1, <1>2, <2>1
    <3> QED
      BY <1>8, <2>1, <3>1 DEF Entry
  <2>2. CASE n > p
    <3>1. p \in 1 .. Len(queue) /\ queue[p].ts > ts
      BY <1>1, <1>2, <2>2
    <3>2. Before(queue[p], queue[n])
      BY <2>2, <3>1 DEF IInv, QueueOrdered
    <3>3. queue[p] \in Entry /\ queue[n] \in Entry
      BY <1>1, <3>1
    <3> QED
      BY <1>8, <3>1, <3>2, <3>3 DEF Before, Entry
  <2> QED
    BY <1>1, <1>2, <2>1, <2>2
<1> QED
  BY <1>2, <1>4, <1>5, <1>6, <1>7, <1>8 DEF e

LEMMA QueueElementOrderInv ==
    ASSUME OnePlace, IInv, OnceInv, OrderInv, QueueElement
    PROVE  OrderInv'
<1> DEFINE ts == Timetag[Frame.b]
<1>1. /\ stack' = Advanced /\ stack # <<>> /\ Frame.op = "bundle"
      /\ ran' = ran /\ enqueue' = enqueue /\ inbox' = inbox
      /\ queue_data(ThisElement, ts)
      /\ AtElement /\ ThisElement \in Msg /\ ~DispatchNow
  BY DEF QueueElement, AtElement, Running, net
<1>2. ts \in Nat /\ Frame.b \in Bundle /\ Frame.next \in Nat \ {0} /\ Frame = stack[1]
      /\ Len(stack) \in Nat \ {0} /\ Elements[Frame.b] \in Seq(Element)
  BY <1>1, AdvancedProperties, MessageAssumption DEF BundleFrame
<1>3. Frame.next \in DOMAIN Elements[Frame.b]
  BY <1>1, <1>2 DEF AtElement
<1>4. PICK p \in 1 .. Len(queue) + 1 :
         /\ Len(queue') = Len(queue) + 1
         /\ queue'[p] = [msg |-> ThisElement, ts |-> ts, seq |-> taken + 1]
         /\ \A n \in 1 .. p - 1 : queue'[n] = queue[n]
         /\ \A n \in p + 1 .. Len(queue) + 1 : queue'[n] = queue[n - 1]
         /\ \A n \in 1 .. Len(queue) : queue[n].ts <= ts => n < p
  BY <1>1, <1>2, QueueDataPlaces
<1>5. queue'[p].msg = ThisElement /\ queue'[p].ts = ts /\ Len(queue) \in Nat
  BY <1>4 DEF IInv, TypeOK
<1>6. \A m : \A n \in 1 .. p : QueuedBefore(queue, m, n) => QueuedBefore(queue', m, n)
  BY <1>4, <1>5 DEF QueuedBefore
<1>7. ASSUME NEW m, NEW n \in p .. Len(queue) + 1, QueuedBefore(queue, m, n)
      PROVE  QueuedBefore(queue', m, n + 1)
  <2>1. PICK k \in 1 .. n - 1 : queue[k].msg = m
    BY <1>7 DEF QueuedBefore
  <2>2. CASE k < p
    <3>1. queue'[k].msg = m /\ k \in 1 .. n
      BY <1>4, <1>5, <1>7, <2>1, <2>2
    <3> QED
      BY <1>5, <3>1 DEF QueuedBefore
  <2>3. CASE k >= p
    <3>1. k + 1 \in p + 1 .. Len(queue) + 1 /\ k + 1 \in 1 .. n /\ (k + 1) - 1 = k
      BY <1>5, <1>7, <2>1, <2>3
    <3>2. queue'[k + 1] = queue[k]
      <4>1. queue'[k + 1] = queue[(k + 1) - 1]
        BY <1>4, <3>1, Zenon
      <4> QED
        BY <3>1, <4>1, Zenon
    <3> QED
      BY <1>5, <2>1, <3>1, <3>2 DEF QueuedBefore
  <2> QED
    BY <2>1, <2>2, <2>3
<1>8. ASSUME NEW n \in 1 .. Len(queue'), NEW b \in Flat, NEW j \in DOMAIN Elements[b],
             queue'[n].msg = Elements[b][j]
      PROVE  /\ queue'[n].ts = Timetag[b]
             /\ \A i \in 1 .. j - 1 : Elements[b][i] \in Msg =>
                   Elements[b][i] \in ran \/ QueuedBefore(queue', Elements[b][i], n)
  <2> j \in Nat /\ n \in Nat /\ p \in Nat
    BY <1>4, <1>5, FlatElements
  <2>1. CASE n < p
    <3>1. queue'[n] = queue[n] /\ n \in 1 .. Len(queue) /\ n \in 1 .. p
      BY <1>4, <1>5, <2>1
    <3> QED
      BY <1>6, <1>8, <3>1 DEF OrderInv, QueueInOrder
  <2>2. CASE n > p
    <3>1. queue'[n] = queue[n - 1] /\ n - 1 \in 1 .. Len(queue)
          /\ n - 1 \in p .. Len(queue) + 1 /\ n - 1 + 1 = n
      <4>1. n \in p + 1 .. Len(queue) + 1
        BY <1>4, <1>5, <2>2
      <4>2. queue'[n] = queue[n - 1]
        BY <1>4, <4>1
      <4> QED
        BY <1>5, <4>1, <4>2
    <3>2. /\ queue[n - 1].ts = Timetag[b]
          /\ \A i \in 1 .. j - 1 : Elements[b][i] \in Msg =>
                Elements[b][i] \in ran \/ QueuedBefore(queue, Elements[b][i], n - 1)
      BY <1>8, <3>1 DEF OrderInv, QueueInOrder
    <3>3. \A m : QueuedBefore(queue, m, n - 1) => QueuedBefore(queue', m, n)
      BY <1>7, <3>1
    <3> QED
      BY <3>1, <3>2, <3>3
  <2>3. CASE n = p
    <3>1. Elements[Frame.b][Frame.next] = Elements[b][j] /\ Elements[b][j] \in Msg
      BY <1>1, <1>5, <1>8, <2>3 DEF ThisElement
    <3>2. Frame.b = b /\ Frame.next = j
      BY <1>2, <1>3, <3>1 DEF OnePlace
    <3>3. ASSUME NEW i \in 1 .. j - 1, Elements[b][i] \in Msg, Elements[b][i] \notin ran
          PROVE  QueuedBefore(queue', Elements[b][i], p)
      <4>1. i \in DOMAIN Elements[b] /\ i < j
        BY FlatElements
      <4>2. QueuedBefore(queue, Elements[b][i], Len(queue) + 1)
        BY <1>1, <3>2, <3>3, <4>1, FrameInOrder DEF OrderInv
      <4>3. PICK k \in 1 .. Len(queue) : queue[k].msg = Elements[b][i]
        BY <1>5, <4>2 DEF QueuedBefore
      <4>4. queue[k].ts = ts
        BY <3>2, <4>1, <4>3 DEF OrderInv, QueueInOrder
      <4>5. k \in 1 .. p - 1 /\ queue'[k] = queue[k]
        BY <1>2, <1>4, <1>5, <4>4
      <4> QED
        BY <4>3, <4>5 DEF QueuedBefore
    <3> QED
      BY <1>5, <2>3, <3>2, <3>3
  <2> QED
    BY <2>1, <2>2, <2>3
<1>9. QueueInOrder'
  BY <1>1, <1>8 DEF QueueInOrder
<1>10. FramesInOrder'
  <2>1. \A m : QueuedBefore(queue, m, Len(queue) + 1) => QueuedBefore(queue', m, Len(queue') + 1)
    <3>1. Len(queue) + 1 \in p .. Len(queue) + 1 /\ Len(queue') = Len(queue) + 1
      BY <1>4, <1>5
    <3> QED
      BY <1>7, <3>1 DEF QueuedBefore
  <2>2. QueuedBefore(queue', ThisElement, Len(queue') + 1)
    <3>1. p \in 1 .. Len(queue') + 1 - 1
      BY <1>4, <1>5
    <3> QED
      BY <1>5, <3>1 DEF QueuedBefore
  <2> QED
    BY <1>1, <2>1, <2>2, AdvancedInOrder DEF OrderInv
<1>11. ~Calling'
  BY <1>1, AdvancedQuiet, PushedQuiet DEF Pushed, OnceInv
<1> QED
  BY <1>1, <1>9, <1>10, <1>11 DEF OrderInv, BundleOrder

LEMMA QueuedCallOrderInv ==
    ASSUME NoReentry, IInv, OnceInv, OrderInv, QueuedCall
    PROVE  OrderInv'
<1> DEFINE f == [Frame EXCEPT !.called = TRUE, !.node = queue[1].seq,
                              !.tail = IF Len(queue) > 1 THEN queue[2].seq ELSE 0]
           t == Tail(stack)
           m == queue[1].msg
<1>1. /\ queue # <<>> /\ 1 \in 1 .. Len(queue) /\ Head(queue) = queue[1]
      /\ stack # <<>> /\ Frame.op = "queued"
  BY HeadReady
<1>2. Frame \in QueuedFrame /\ t \in Seq(Activation)
  BY <1>1, TailSettled, TailQuiet
     DEF IInv, TypeOK, StackOK, Activation, BundleFrame, QueuedFrame, OnceInv
<1>3. f.op = "queued"
  BY <1>1, <1>2 DEF QueuedFrame
<1>4. dispatch_method(m, <<f>> \o t) /\ queue' = queue /\ inbox' = inbox
  BY <1>1 DEF QueuedCall, net
<1>5. m \in Queueable
  BY <1>1 DEF OnceInv
<1> HIDE DEF f, t
<1>6. stack' = <<f>> \o t /\ ran' = ran \cup {m}
  BY <1>4, <1>5, QueuedMethodReturns, DispatchMethodRan
<1>7. BundleOrder'
  <2>1. ASSUME NEW b \in Flat, NEW j \in DOMAIN Elements[b], Elements[b][j] = m,
               NEW i \in 1 .. j - 1, Elements[b][i] \in Msg
        PROVE  Elements[b][i] \in ran
    <3>1. Elements[b][i] \in ran \/ QueuedBefore(queue, Elements[b][i], 1)
      BY <1>1, <2>1 DEF OrderInv, QueueInOrder
    <3> QED
      BY <3>1 DEF QueuedBefore
  <2> QED
    BY <1>6, <2>1, RanInOrder DEF OrderInv
<1>8. FramesInOrder'
  <2>1. AllRan(t, ran')
    BY <1>1, <1>6, TailAllRan DEF OrderInv, t
  <2>2. /\ Len(stack') = Len(t) + 1 /\ stack'[1] = f
        /\ \A k \in 2 .. Len(stack') : k - 1 \in 1 .. Len(t) /\ stack'[k] = t[k - 1]
    BY <1>2, <1>6
  <2> SUFFICES ASSUME NEW k \in 1 .. Len(stack'), stack'[k].op = "bundle", stack'[k].b \in Flat,
                      NEW i \in DOMAIN Elements[stack'[k].b], i < stack'[k].next,
                      Elements[stack'[k].b][i] \in Msg
               PROVE  Elements[stack'[k].b][i] \in ran'
    BY DEF FramesInOrder
  <2>3. k # 1
    BY <1>3, <2>2
  <2>4. k - 1 \in 1 .. Len(t) /\ stack'[k] = t[k - 1]
    BY <2>2, <2>3
  <2> QED
    BY <2>1, <2>4 DEF AllRan
<1> QED
  BY <1>4, <1>6, <1>7, <1>8, QueueInOrderSame DEF OrderInv

LEMMA QueuedReturnOrderInv ==
    ASSUME IInv, OnceInv, OrderInv, QueuedReturn
    PROVE  OrderInv'
<1>1. stack # <<>> /\ Frame.op = "queued" /\ Frame.called /\ Calling
  BY DEF QueuedReturn, Running, Calling
<1>2. /\ Len(queue) \in Nat \ {0} /\ Len(queue') = Len(queue) - 1
      /\ \A i \in 1 .. Len(queue) - 1 : queue'[i] = queue[i + 1]
  BY <1>1, TailheadIsTail DEF QueuedReturn
<1>3. ran' = ran /\ inbox' = inbox
  BY DEF QueuedReturn, net, history
<1>4. Frame \in QueuedFrame /\ Tail(stack) \in Seq(Activation) /\ Quiet(Tail(stack))
  BY <1>1, TailSettled, TailQuiet
     DEF IInv, TypeOK, StackOK, Activation, BundleFrame, QueuedFrame, OnceInv
<1>5. Pushed(Tail(stack))
  <2>1. /\ [Frame EXCEPT !.called = FALSE].called = FALSE
        /\ [Frame EXCEPT !.called = FALSE].op = "queued"
    BY <1>4 DEF QueuedFrame
  <2> QED
    BY <2>1 DEF QueuedReturn, Pushed, Fresh
<1>6. ~Calling'
  BY <1>4, <1>5, PushedQuiet
<1>7. FramesInOrder'
  <2>1. AllRan(Tail(stack), ran')
    BY <1>1, <1>3, TailAllRan DEF OrderInv
  <2> QED
    BY <1>4, <1>5, <2>1, PushedInOrder
<1>8. ASSUME NEW n \in 1 .. Len(queue'), NEW m, m \notin ran, QueuedBefore(queue, m, n + 1)
      PROVE  QueuedBefore(queue', m, n)
  <2>1. PICK k \in 1 .. n : queue[k].msg = m
    BY <1>8 DEF QueuedBefore
  <2>2. k # 1
    BY <1>1, <1>8, <2>1 DEF OrderInv
  <2>3. k - 1 \in 1 .. n - 1 /\ k - 1 \in 1 .. Len(queue) - 1
    BY <1>2, <2>1, <2>2
  <2>4. queue'[k - 1] = queue[k]
    BY <1>2, <2>3
  <2> QED
    BY <2>1, <2>3, <2>4 DEF QueuedBefore
<1>9. QueueInOrder'
  <2> SUFFICES ASSUME NEW n \in 1 .. Len(queue'), NEW b \in Flat, NEW j \in DOMAIN Elements[b],
                      queue'[n].msg = Elements[b][j]
               PROVE  /\ queue'[n].ts = Timetag[b]
                      /\ \A i \in 1 .. j - 1 : Elements[b][i] \in Msg =>
                            Elements[b][i] \in ran \/ QueuedBefore(queue', Elements[b][i], n)
    BY <1>3 DEF QueueInOrder
  <2>1. n + 1 \in 1 .. Len(queue) /\ queue'[n] = queue[n + 1]
    BY <1>2
  <2>2. /\ queue[n + 1].ts = Timetag[b]
        /\ \A i \in 1 .. j - 1 : Elements[b][i] \in Msg =>
              Elements[b][i] \in ran \/ QueuedBefore(queue, Elements[b][i], n + 1)
    BY <2>1 DEF OrderInv, QueueInOrder
  <2> QED
    BY <1>8, <2>1, <2>2
<1> QED
  BY <1>3, <1>6, <1>7, <1>9 DEF OrderInv, BundleOrder

LEMMA DispatchElementOrderInv ==
    ASSUME OnePlace, IInv, OnceInv, OrderInv, DispatchElement
    PROVE  OrderInv'
<1>1. /\ AtElement /\ ThisElement \in Msg /\ DispatchNow /\ stack # <<>> /\ Frame.op = "bundle"
      /\ dispatch_method(ThisElement, Advanced) /\ inbox' = inbox /\ queue' = queue
  BY DEF DispatchElement, AtElement, Running, net
<1>2. ran' = ran \cup {ThisElement} /\ Pushed(Advanced)
  BY <1>1, DispatchMethodRan, DispatchMethodPushes
<1>3. /\ Frame.b \in Bundle /\ Frame.next \in DOMAIN Elements[Frame.b]
  <2>1. Frame.b \in Bundle /\ Frame.next \in Nat \ {0}
    BY <1>1, AdvancedProperties DEF BundleFrame
  <2> QED
    BY <1>1, <2>1, MessageAssumption DEF AtElement
<1>4. AllRan(Advanced, ran')
  BY <1>1, <1>2, AdvancedAllRan DEF OrderInv
<1>5. BundleOrder'
  <2>1. ASSUME NEW b \in Flat, NEW j \in DOMAIN Elements[b], Elements[b][j] = ThisElement,
               NEW i \in 1 .. j - 1, Elements[b][i] \in Msg
        PROVE  Elements[b][i] \in ran
    <3>1. Elements[Frame.b][Frame.next] = Elements[b][j] /\ Elements[b][j] \in Msg
      BY <1>1, <2>1 DEF ThisElement
    <3>2. Frame.b = b /\ Frame.next = j
      BY <1>3, <3>1 DEF OnePlace
    <3>3. i \in DOMAIN Elements[b] /\ i < j
      BY FlatElements
    <3> QED
      BY <1>1, <2>1, <3>2, <3>3, FrameInOrder DEF OrderInv
  <2> QED
    BY <1>2, <2>1, RanInOrder DEF OrderInv
<1>6. Advanced \in Seq(Activation) /\ Quiet(Advanced)
  BY <1>1, AdvancedQuiet DEF OnceInv
<1> QED
  BY <1>1, <1>2, <1>4, <1>5, <1>6, CallOrderInv DEF OrderInv

LEMMA NestedBundleOrderInv ==
    ASSUME IInv, OnceInv, OrderInv, NestedBundle
    PROVE  OrderInv'
<1>1. /\ AtElement /\ ThisElement \in Bundle \cup {BadBundle} /\ stack # <<>>
      /\ Frame.op = "bundle" /\ dispatch_data(ThisElement, Advanced)
      /\ inbox' = inbox /\ queue' = queue
  BY DEF NestedBundle, AtElement, Running, net
<1>2. ThisElement \notin Msg
  BY <1>1, MessageAssumption
<1>3. ran' = ran /\ Pushed(Advanced)
  BY <1>1, <1>2, DispatchDataRan, DispatchDataPushes
<1>4. Advanced \in Seq(Activation) /\ Quiet(Advanced)
  BY <1>1, AdvancedQuiet DEF OnceInv
<1>5. BundleOrder'
  BY <1>3 DEF OrderInv, BundleOrder
<1>6. CASE Frame.b \notin Flat
  <2>1. AllRan(Advanced, ran')
    BY <1>1, <1>3, <1>6, AdvancedAllRan DEF OrderInv
  <2> QED
    BY <1>1, <1>3, <1>4, <1>5, <2>1, CallOrderInv DEF OrderInv
<1>7. CASE Frame.b \in Flat
  <2>1. ThisElement \notin Bundle
    <3>1. Frame.next \in DOMAIN Elements[Frame.b]
      BY <1>1, <1>7, AdvancedProperties, FlatElements DEF AtElement, BundleFrame
    <3> QED
      BY <1>7, <3>1, FlatElements DEF ThisElement
  <2>2. stack' = Advanced /\ enqueue' = enqueue
    BY <1>1, <1>2, <2>1 DEF dispatch_data
  <2>3. FramesInOrder'
    BY <1>1, <1>2, <1>3, <2>2, AdvancedInOrder DEF OrderInv
  <2>4. ~Calling'
    BY <1>3, <1>4, PushedQuiet
  <2> QED
    BY <1>1, <1>3, <1>5, <2>3, <2>4, QueueInOrderSame DEF OrderInv
<1> QED
  BY <1>6, <1>7

LEMMA NextOrderInv == NoReentry /\ OnePlace /\ IInv /\ OnceInv /\ OrderInv /\ [Next]_vars => OrderInv'
<1> SUFFICES ASSUME NoReentry, OnePlace, IInv, OnceInv, OrderInv, [Next]_vars PROVE OrderInv'
  OBVIOUS
<1> USE DEF net, loop, history
<1>0. inbox \in Seq(Datagram) /\ \A i \in 1 .. Len(inbox) : inbox[i] \in Traffic
  BY DEF IInv, TypeOK, OrderInv
<1>1. CASE stack = <<>> /\ Pushed(<<>>) /\ BundleOrder' /\ ran \subseteq ran' /\ queue' = queue
           /\ \A i \in 1 .. Len(inbox') : inbox'[i] \in Traffic
  BY <1>1, EmptyQuiet, EmptyAllRan, CallOrderInv
<1>2. CASE lo_server_recv \/ WaitReady \/ PollTimeout
  <2>1. Recv /\ stack = <<>>
    BY <1>2 DEF lo_server_recv, Idle, WaitReady, PollTimeout, OnceInv, PollOnEmpty
  <2>2. Pushed(<<>>)
    BY <2>1 DEF Recv, StartPoll, StartQueued, Pushed, Fresh, DispatchQueued
  <2> QED
    BY <1>0, <1>1, <2>1, <2>2 DEF Recv, OrderInv, BundleOrder
<1>3. CASE lo_server_recv_noblock \/ WaitTimeout \/ PollError \/ DoubleFree \/ Arrive \/ Tick
           \/ UNCHANGED vars
  <2>1. UNCHANGED <<queue, stack, ran, enqueue>>
    BY <1>3 DEF lo_server_recv_noblock, WaitTimeout, PollError, DoubleFree, Arrive, Tick, vars
  <2>2. \A i \in 1 .. Len(inbox') : inbox'[i] \in Traffic
    <3>1. CASE Arrive
      <4>1. PICK d \in Traffic : inbox' = Append(inbox, d)
        BY <3>1 DEF Arrive
      <4> QED
        BY <1>0, <4>1
    <3>2. CASE ~Arrive
      BY <1>0, <1>3, <3>2 DEF lo_server_recv_noblock, WaitTimeout, PollError, DoubleFree, Tick, vars
    <3> QED
      BY <3>1, <3>2
  <2>3. (Calling' <=> Calling) /\ (DispatchNow' <=> DispatchNow)
    BY <2>1 DEF Calling, DispatchNow, Frame
  <2> QED
    BY <2>1, <2>2, <2>3, QueueInOrderSame DEF OrderInv, BundleOrder, FramesInOrder, QueuedBefore
<1>4. CASE PollReady
  <2>1. stack = <<>>
    BY <1>4 DEF PollReady, OnceInv, PollOnEmpty
  <2>2. /\ inbox # <<>> /\ inbox' = Tail(inbox) /\ dispatch_data(Head(inbox), <<>>)
        /\ queue' = queue
    BY <1>4 DEF PollReady
  <2>3. Head(inbox) \in Traffic /\ \A i \in 1 .. Len(inbox') : inbox'[i] \in Traffic
    BY <1>0, <2>2
  <2> QED
    BY <1>1, <2>1, <2>2, <2>3, OutsideInOrder, DispatchDataPushes DEF OrderInv
<1>5. CASE lo_server_dispatch_data
  <2>1. PICK d \in Local : dispatch_data(d, <<>>)
    BY <1>5 DEF lo_server_dispatch_data
  <2> QED
    BY <1>0, <1>1, <1>5, <2>1, OutsideInOrder, DispatchDataPushes
       DEF lo_server_dispatch_data, Idle, OrderInv
<1>6. CASE AppEnableQueue
  BY <1>0, <1>1, <1>6, EnableQueuePushes DEF AppEnableQueue, Idle, OrderInv, BundleOrder
<1>7. CASE AbortBundle \/ EndBundle
  <2>1. /\ stack # <<>> /\ stack' = Tail(stack) /\ UNCHANGED <<queue, ran, inbox>>
    BY <1>7 DEF AbortBundle, EndBundle, AtElement, Running
  <2>2. Pushed(Tail(stack)) /\ AllRan(Tail(stack), ran') /\ BundleOrder'
    BY <2>1, TailAllRan DEF Pushed, OrderInv, BundleOrder
  <2>3. Tail(stack) \in Seq(Activation) /\ Quiet(Tail(stack))
    BY <2>1, TailQuiet DEF OnceInv
  <2> QED
    BY <1>0, <2>1, <2>2, <2>3, CallOrderInv
<1> QED
  BY <1>2, <1>3, <1>4, <1>5, <1>6, <1>7, NestedBundleOrderInv, DispatchElementOrderInv,
     QueueElementOrderInv, QueuedCallOrderInv, QueuedReturnOrderInv
     DEF Next, App, Application, Poll, Run

\* Under the same condition, if each message of a flat bundle is sent but once, the
\* messages of a flat bundle are dispatched in the order they have in it, whether at
\* once, from the queue, or some each way.
THEOREM DispatchedInOrder == ASSUME NoReentry, OnePlace PROVE Spec => []BundleOrder
<1>1. OrderInv => BundleOrder
  BY DEF OrderInv
<1>2. IInv /\ OnceInv /\ [Next]_vars => OnceInv'
  BY NextOnceInv
<1>3. IInv /\ OnceInv /\ OrderInv /\ [Next]_vars => OrderInv'
  BY NextOrderInv
<1> QED
  BY <1>1, <1>2, <1>3, InitOnceInv, InitOrderInv, SpecIInv, PTL DEF Spec
================================================================================
