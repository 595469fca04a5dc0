------------------------------- MODULE LoBundle -------------------------------
(***************************************************************************)
(* Who owns messages and bundles (bundle.c; message.c: lo_message_new,     *)
(* lo_message_incref, lo_message_free; lo_cpp.h: Message and Bundle).      *)
(*                                                                         *)
(* An object is created with a count of 0 and is then the user's. A bundle *)
(* counts a reference to each of its elements. The user may count          *)
(* references of its own (lo_message_incref, lo_bundle_incref, and every   *)
(* C++ object). It may free any object that is in use, also one that only  *)
(* a bundle holds, as lo_send_timestamped and testlo.c do (send.c:141,     *)
(* testlo.c:1481): the bundle then points to freed memory, which does no   *)
(* harm until the bundle is walked. lo_bundle_free walks nothing and       *)
(* leaves the elements with their counts, to the user. What follows the    *)
(* use of a freed element is undefined and not modelled.                   *)
(*                                                                         *)
(* A call is one step, except that lo_bundle_free_recursive, which may     *)
(* free any number of objects, takes a step for each element it comes to.  *)
(***************************************************************************)
EXTENDS Integers, Sequences, FiniteSets

CONSTANTS
    Bundle, Message,    \* the objects, each created, freed and created again
    MaxLen,             \* bound: the elements of a bundle
    MaxRefs             \* bound: the references to an object

ASSUME ObjectAssumption ==
    /\ IsFiniteSet(Bundle) /\ IsFiniteSet(Message) /\ Bundle \cap Message = {}
    /\ MaxLen \in Nat /\ MaxRefs \in Nat

Object == Bundle \cup Message

VARIABLES
    status,     \* "free", "live", or "dying": in lo_bundle_free_recursive
    refcount,
    elmnts,     \* the elements of each bundle
    released,   \* of a dying bundle, how many of them the loop has passed
    calls,      \* the calls of lo_bundle_free_recursive, the innermost first
    mine,       \* references the user has, less the frees beyond them
    undefined   \* a freed element has been used

vars == <<status, refcount, elmnts, released, calls, mine, undefined>>

live == {o \in Object : status[o] = "live"}

--------------------------------------------------------------------------------
(***************************************************************************)
(* Circular references.                                                    *)
(***************************************************************************)
Inside(E, b) == {E[b][i] : i \in DOMAIN E[b]} \cap Bundle

Closed(E, T) == \A c \in T : Inside(E, c) \subseteq T

\* b, the bundles in it, those in these, and so on.
Reached(E, b) == {x \in Bundle : \A T \in SUBSET Bundle : b \in T /\ Closed(E, T) => x \in T}

\* Seeded bug: only the bundle itself is looked for.
CircularSelf(E, b) == b \in Inside(E, b)

\* Does a walk from b come to a bundle again that it is inside of.
lo_bundle_circular(E, b) ==
    \E x \in Reached(E, b) : \E y \in Inside(E, x) : x \in Reached(E, y)

\* Seeded bug: the walk looks no further than two bundles deep.
WalkShallow(E, b) == \E d \in Inside(E, b) : d = b \/ b \in Inside(E, d)

\* The walk itself, from b. Inside the bundles P, a bundle is found to be circular if
\* it is one of them, or if one in it is so found inside P and the bundle.
walk_tree(E, b) ==
    LET walk[P \in SUBSET Bundle] ==
            P \cup {c \in Bundle \ P : \E d \in Inside(E, c) : d \in walk[P \cup {c}]}
    IN  b \in walk[{}]

--------------------------------------------------------------------------------
(***************************************************************************)
(* Creating, counting, adding.                                             *)
(***************************************************************************)
Idle == calls = <<>>

\* The places at which o is an element of b.
Places(b, o) == {p \in {b} \X (1 .. Len(elmnts[b])) : elmnts[b][p[2]] = o}

\* Memory that a bundle still points to is not used again: a new object that came
\* to lie there would be freed in the place of the old one, which is undefined too.
Create(o, count) ==
    /\ Idle /\ status[o] = "free" /\ \A b \in Bundle : Places(b, o) = {}
    /\ status' = [status EXCEPT ![o] = "live"]
    /\ refcount' = [refcount EXCEPT ![o] = count]
    /\ mine' = [mine EXCEPT ![o] = count]
    /\ UNCHANGED <<elmnts, released, calls, undefined>>

\* lo_message_new, lo_message_clone, lo_bundle_new; a C++ object counts a
\* reference at once.
New(o) == Create(o, 0)
Construct(o) == Create(o, 1)

\* lo_message_incref, lo_bundle_incref, the copy of a C++ object.
Incref(o) ==
    /\ Idle /\ o \in live /\ refcount[o] < MaxRefs
    /\ refcount' = [refcount EXCEPT ![o] = @ + 1]
    /\ mine' = [mine EXCEPT ![o] = @ + 1]
    /\ UNCHANGED <<status, elmnts, released, calls, undefined>>

\* Seeded bug: the reference a bundle is refused with stays counted.
AddCounted(b, o) ==
    /\ Idle /\ {b, o} \subseteq live
    /\ Len(elmnts[b]) < MaxLen /\ refcount[o] < MaxRefs
    /\ LET added == [elmnts EXCEPT ![b] = Append(@, o)]
       IN  /\ refcount' = [refcount EXCEPT ![o] = @ + 1]
           /\ elmnts' = IF o \in Bundle /\ lo_bundle_circular(added, b) THEN elmnts ELSE added
    /\ UNCHANGED <<status, released, calls, mine, undefined>>

\* A bundle that is in b, or b itself, is refused and the count put back. The walk
\* that looks for it reads every bundle it comes to.
lo_bundle_add_element(b, o) ==
    /\ Idle /\ {b, o} \subseteq live
    /\ Len(elmnts[b]) < MaxLen /\ refcount[o] < MaxRefs
    /\ LET added == [elmnts EXCEPT ![b] = Append(@, o)]
           walked == IF o \in Bundle THEN Reached(added, b) ELSE {}
       IN  \/ /\ walked \subseteq live
              /\ ~ (o \in Bundle /\ lo_bundle_circular(added, b))
              /\ elmnts' = added
              /\ refcount' = [refcount EXCEPT ![o] = @ + 1]
              /\ UNCHANGED undefined
           \/ /\ ~ (walked \subseteq live) /\ undefined' = TRUE
              /\ UNCHANGED <<elmnts, refcount>>
    /\ UNCHANGED <<status, released, calls, mine>>

--------------------------------------------------------------------------------
(***************************************************************************)
(* Freeing.                                                                *)
(***************************************************************************)
\* The user gives up o: a reference of its own, one nobody has, or one of a bundle.
MayFree(o) == Idle /\ o \in live

Dropped(o) == IF refcount[o] > 0 THEN mine[o] - 1 ELSE mine[o]

\* The count of o goes down; it is gone when nothing is left of it.
lo_message_free(o) ==
    /\ MayFree(o) /\ o \in Message
    /\ refcount' = [refcount EXCEPT ![o] = @ - 1]
    /\ mine' = [mine EXCEPT ![o] = Dropped(o)]
    /\ status' = [status EXCEPT ![o] = IF refcount[o] - 1 <= 0 THEN "free" ELSE "live"]
    /\ UNCHANGED <<elmnts, released, calls, undefined>>

\* The bundle alone: its elements keep their counts, now the user's.
lo_bundle_free(b) ==
    /\ MayFree(b) /\ b \in Bundle
    /\ refcount' = [refcount EXCEPT ![b] = @ - 1]
    /\ IF refcount[b] - 1 > 0
       THEN mine' = [mine EXCEPT ![b] = Dropped(b)] /\ UNCHANGED <<status, elmnts>>
       ELSE /\ status' = [status EXCEPT ![b] = "free"]
            /\ elmnts' = [elmnts EXCEPT ![b] = <<>>]
            /\ mine' = [o \in Object |-> IF o = b THEN Dropped(b)
                                         ELSE mine[o] + Cardinality(Places(b, o))]
    /\ UNCHANGED <<released, calls, undefined>>

\* lo_bundle_free_recursive, the C++ destructor: the bundle and what only it holds.
lo_bundle_free_recursive(b) ==
    /\ MayFree(b) /\ b \in Bundle
    /\ refcount' = [refcount EXCEPT ![b] = @ - 1]
    /\ mine' = [mine EXCEPT ![b] = Dropped(b)]
    /\ IF refcount[b] - 1 > 0 THEN UNCHANGED <<status, calls>>
       ELSE status' = [status EXCEPT ![b] = "dying"] /\ calls' = <<b>>
    /\ UNCHANGED <<elmnts, released, undefined>>

\* Seeded bug: an element is freed whatever else has it.
CollectAlways ==
    /\ ~Idle
    /\ LET b == Head(calls)
           o == elmnts[b][released[b] + 1]
       IN  /\ released[b] < Len(elmnts[b]) /\ o \in live
           /\ released' = [released EXCEPT ![b] = @ + 1]
           /\ refcount' = [refcount EXCEPT ![o] = @ - 1]
           /\ status' = [status EXCEPT ![o] = IF o \in Bundle THEN "dying" ELSE "free"]
           /\ calls' = IF o \in Bundle THEN <<o>> \o calls ELSE calls
    /\ UNCHANGED <<elmnts, mine, undefined>>

\* Its next element: collect_element, which begins with the count of it.
collect_element ==
    /\ ~Idle
    /\ LET b == Head(calls)
           o == elmnts[b][released[b] + 1]
       IN  /\ released[b] < Len(elmnts[b]) /\ o \in live
           /\ released' = [released EXCEPT ![b] = @ + 1]
           /\ refcount' = [refcount EXCEPT ![o] = @ - 1]
           /\ IF refcount[o] - 1 > 0 THEN UNCHANGED <<status, calls>>
              ELSE /\ status' = [status EXCEPT ![o] = IF o \in Bundle THEN "dying" ELSE "free"]
                   /\ calls' = IF o \in Bundle THEN <<o>> \o calls ELSE calls
    /\ UNCHANGED <<elmnts, mine, undefined>>

\* The next element has been freed before.
CollectFreed ==
    /\ ~Idle
    /\ LET b == Head(calls)
       IN  released[b] < Len(elmnts[b]) /\ elmnts[b][released[b] + 1] \notin live
    /\ undefined' = TRUE
    /\ UNCHANGED <<status, refcount, elmnts, released, calls, mine>>

\* Seeded bug: the loop is left after an element that is not the last.
EndEarly ==
    /\ ~Idle
    /\ LET b == Head(calls)
       IN  /\ status' = [status EXCEPT ![b] = "free"]
           /\ elmnts' = [elmnts EXCEPT ![b] = <<>>]
           /\ released' = [released EXCEPT ![b] = 0]
    /\ calls' = Tail(calls)
    /\ UNCHANGED <<refcount, mine, undefined>>

\* Seeded bug: the bundle is not freed.
EndUnfreed ==
    /\ ~Idle /\ released[Head(calls)] = Len(elmnts[Head(calls)])
    /\ calls' = Tail(calls)
    /\ UNCHANGED <<status, refcount, elmnts, released, mine, undefined>>

\* The end of the loop: the bundle is freed and the call returns.
FreeEnds ==
    /\ ~Idle
    /\ LET b == Head(calls)
       IN  /\ released[b] = Len(elmnts[b])
           /\ status' = [status EXCEPT ![b] = "free"]
           /\ elmnts' = [elmnts EXCEPT ![b] = <<>>]
           /\ released' = [released EXCEPT ![b] = 0]
    /\ calls' = Tail(calls)
    /\ UNCHANGED <<refcount, mine, undefined>>

--------------------------------------------------------------------------------
Init ==
    /\ status = [o \in Object |-> "free"]
    /\ refcount = [o \in Object |-> 0]
    /\ elmnts = [b \in Bundle |-> <<>>]
    /\ released = [b \in Bundle |-> 0]
    /\ calls = <<>>
    /\ mine = [o \in Object |-> 0]
    /\ undefined = FALSE

Next == /\ ~undefined
        /\ \/ \E o \in Object : New(o) \/ Construct(o) \/ Incref(o)
           \/ \E b \in Bundle, o \in Object : lo_bundle_add_element(b, o)
           \/ \E m \in Message : lo_message_free(m)
           \/ \E b \in Bundle : lo_bundle_free(b) \/ lo_bundle_free_recursive(b)
           \/ collect_element \/ CollectFreed \/ FreeEnds

Spec == Init /\ [][Next]_vars

--------------------------------------------------------------------------------
(***************************************************************************)
(* Properties.                                                             *)
(***************************************************************************)
OneCallEach ==
    /\ \A i, j \in DOMAIN calls : calls[i] = calls[j] => i = j
    /\ \A b \in Bundle : status[b] = "dying" <=> \E i \in DOMAIN calls : calls[i] = b

\* Every variable keeps its type, and the calls are one for each dying bundle.
TypeOK ==
    /\ status \in [Object -> {"free", "live", "dying"}]
    /\ refcount \in [Object -> Int]
    /\ elmnts \in [Bundle -> Seq(Object)]
    /\ released \in [Bundle -> Nat]
    /\ calls \in Seq(Bundle) /\ OneCallEach
    /\ mine \in [Object -> Int]
    /\ undefined \in BOOLEAN

\* The places at which o is held: elements not yet released.
Holders(o) == {p \in Bundle \X (1 .. MaxLen) :
                  /\ released[p[1]] < p[2] /\ p[2] <= Len(elmnts[p[1]])
                  /\ elmnts[p[1]][p[2]] = o}

\* The count of an object in use is that of the references there are to it: those
\* of the user and one for each place it has in a bundle, less what the user has
\* freed beyond its own, through adding, refusing, shallow and recursive freeing
\* (bundle.c:137-161, 310-362; message.c:125).
CountsMatch == \A o \in live : refcount[o] = mine[o] + Cardinality(Holders(o))

\* The user has freed o more often than it had references to it, shallow frees of
\* the bundles that held o counted in.
Overfreed(o) == mine[o] < 0

\* A bundle holds a freed object only if the user itself has freed it while the
\* bundle held it, and only then can a call come to use it (bundle.c:150, 316-362):
\* the library frees no object another bundle shares, at any depth.
NoDangling ==
    /\ \A b \in Bundle : \A i \in released[b] + 1 .. Len(elmnts[b]) :
           elmnts[b][i] \in live \/ Overfreed(elmnts[b][i])
    /\ undefined => \E o \in Object : Overfreed(o)

\* No bundle is inside itself, at any depth, though bundles may be shared: of any
\* bundles, one has none of the others inside (bundle.c:150-160).
Acyclic ==
    \A S \in SUBSET Bundle : S # {} => \E b \in S : Inside(elmnts, b) \cap S = {}

\* The walk with a list of parents finds a bundle to be circular exactly when the
\* definition does (bundle.c:78-121), for every bundle a bundle may be added to.
WalkFindsCircle ==
    \A b, c \in live \cap Bundle :
        LET added == [elmnts EXCEPT ![b] = Append(@, c)]
        IN  walk_tree(added, b) <=> lo_bundle_circular(added, b)

\* Nothing leaks: what is in use can be reached from what the user may free, so
\* that a user who frees all it has leaves nothing behind (bundle.c:316, 353).
NothingLeaks ==
    Idle => \A o \in live : mine[o] > 0 \/ refcount[o] = 0
                            \/ \E b \in live \cap Bundle : o \in {elmnts[b][i] : i \in DOMAIN elmnts[b]}
================================================================================
